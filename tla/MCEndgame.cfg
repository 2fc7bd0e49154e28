\* Three players; the game ends within ten commands.
SPECIFICATION Spec
CONSTANTS
  alice = alice
  bob = bob
  carol = carol
  NoPlayer = NoPlayer
  PlayerOrder <- MCPlayerOrder
  Tiers = {1}
  Cards <- MCCards
  CardTier <- MCCardTier
  CardCost <- MCCardCost
  CardBonus <- MCCardBonus
  CardPoints <- MCCardPoints
  Nobles = {}
  NobleRequirement <- NoNobles
  NoblePoints = 1
  Supply <- MCSupply
  FaceUp <- MCFaceUp
  MarketSize = 3
  PlayerTokenLimit = 4
  ReservedCardLimit = 2
  TargetScore = 2
  Requests <- MCRequests
  Returns <- MCReturns
  Payments <- MCPayments
  MaxVersion = 11
CHECK_DEADLOCK FALSE
INVARIANTS
  FinalRoundRecorded
  LastTurnForEveryone
  WinnersUnbeaten
