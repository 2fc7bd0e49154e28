\* Two purchases of one turn bring a noble each.
SPECIFICATION HistorySpec
CONSTANTS
  alice = alice
  bob = bob
  NoPlayer = NoPlayer
  PlayerOrder <- MCPlayerOrder
  Tiers = {1, 2}
  Cards <- MCCards
  CardTier <- MCCardTier
  CardCost <- MCCardCost
  CardBonus <- MCCardBonus
  CardPoints <- MCCardPoints
  Nobles = {1, 2}
  NobleRequirement <- MCNobleRequirement
  NoblePoints = 1
  Supply <- MCSupply
  FaceUp <- MCFaceUp
  MarketSize = 2
  PlayerTokenLimit = 4
  ReservedCardLimit = 2
  TargetScore = 2
  Requests <- MCRequests
  Returns <- MCReturns
  Payments <- MCPayments
  MaxVersion = 7
CHECK_DEADLOCK FALSE
INVARIANTS
  OneNoblePerTurn
