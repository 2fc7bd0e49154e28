----------------------------- MODULE RuleEngine -----------------------------
(***************************************************************************)
(* One game of Splendor as the rule engine plays it: the state that        *)
(* application/apply-command.ts computes from the previous one, for every  *)
(* command a player can send.  An action is one accepted command, with     *)
(* everything applyCommand does for it; a command whose guard fails is     *)
(* rejected and leaves the state as it was.                                *)
(*                                                                         *)
(* The arrays of card and noble ids are sets here: no rule looks at their  *)
(* order, except that the market keeps a card's slot.  The card a hash of  *)
(* seed, version and tier picks from the deck is any card of the deck.     *)
(***************************************************************************)
EXTENDS Economy, Sequences, FiniteSetsExt

CONSTANTS
  PlayerOrder,    \* the seats of the game, a sequence of player ids
  NoPlayer,       \* endTriggeredByPlayerId while it is undefined
  Tiers,          \* the tiers of the development cards
  Cards,          \* DEVELOPMENT_CARDS
  CardTier,       \* card |-> tier
  CardCost,       \* card |-> gems it costs
  CardBonus,      \* card |-> colour of the bonus it gives
  CardPoints,     \* card |-> points
  Nobles,         \* ids of the nobles revealed in this game, as numbers
  NobleRequirement, \* noble |-> bonuses it asks for
  NoblePoints,    \* 3 in the code
  Supply,         \* tokens of each colour in the game
  FaceUp,         \* tier |-> the cards the market opens with
  MarketSize,     \* open cards per tier, 4 in the code
  ReservedCardLimit, \* RESERVED_CARD_LIMIT, 3 in the code
  TargetScore,    \* TARGET_SCORE, 15 in the code
  Requests,       \* payload.tokens of the TAKE_TOKENS commands considered
  Returns,        \* payload.returnedTokens considered
  Payments,       \* payload.payment of the BUY_CARD commands considered
  MaxVersion      \* bound on the version counter

PlayerCount == Len(PlayerOrder)
Players == {PlayerOrder[i] : i \in 1 .. PlayerCount}
Deck(t) == {c \in Cards : CardTier[c] = t}

\* validatePlayerIds of local-game-seed.ts: two to four distinct players.
ASSUME PlayersAssumption ==
  /\ PlayerOrder \in Seq(Players)
  /\ PlayerCount \in 2 .. 4
  /\ \A i, j \in 1 .. PlayerCount : PlayerOrder[i] = PlayerOrder[j] => i = j
  /\ NoPlayer \notin Players

ASSUME CatalogAssumption ==
  /\ IsFiniteSet(Cards)
  /\ CardTier \in [Cards -> Tiers]
  /\ CardCost \in [Cards -> [GemColors -> Nat]]
  /\ CardBonus \in [Cards -> GemColors]
  /\ CardPoints \in [Cards -> Nat]
  /\ IsFiniteSet(Nobles) /\ Nobles \subseteq Nat
  /\ NobleRequirement \in [Nobles -> [GemColors -> Nat]]
  /\ NoblePoints \in Nat

ASSUME SetupAssumption ==
  /\ Supply \in Wallet
  /\ MarketSize \in Nat
  /\ ReservedCardLimit \in Nat
  /\ TargetScore \in Nat \ {0}
  /\ MaxVersion \in Nat
  /\ FaceUp \in [Tiers -> SUBSET Cards]
  /\ \A t \in Tiers :
       /\ FaceUp[t] \subseteq Deck(t)
       /\ Cardinality(FaceUp[t]) <= MarketSize
       /\ Cardinality(FaceUp[t]) = MarketSize \/ FaceUp[t] = Deck(t)

ASSUME InputsAssumption ==
  /\ Requests \subseteq [GemColors -> Int]
  /\ Returns \subseteq [TokenColors -> Int]
  /\ Payments \subseteq [TokenColors -> Int]

VARIABLES
  status,         \* "IN_PROGRESS" or "ENDED"
  version,
  turn,
  currentPlayer,
  finalRound,
  endTriggeredAtTurn,  \* 0 while it is undefined
  endTriggeredBy,
  winners,        \* winnerPlayerIds, empty while undefined
  bank,           \* board.bankTokens
  market,         \* board.openMarketCardIds
  openNobles,     \* board.openNobleIds
  tokens,         \* players[p].tokens, and so on
  bonuses,
  reserved,
  purchased,
  nobles,
  score

progressVars == <<status, version, turn, currentPlayer>>
endVars == <<finalRound, endTriggeredAtTurn, endTriggeredBy, winners>>
boardVars == <<bank, market, openNobles>>
playerVars == <<tokens, bonuses, reserved, purchased, nobles, score>>
vars == <<progressVars, endVars, boardVars, playerVars>>

-----------------------------------------------------------------------------
(* Queries over the state.                                                 *)

\* calculatePlayerScore
PlayerScore(cards, nobleIds) ==
  MapThenSumSet(LAMBDA c : CardPoints[c], cards) + NoblePoints * Cardinality(nobleIds)
FinalScores == [p \in Players |-> PlayerScore(purchased[p], nobles[p])]

HeldCards == UNION {reserved[p] \cup purchased[p] : p \in Players}

\* getAvailableDeckCardIds: the deck without the open cards of the tier and
\* without every card some player holds.
AvailableDeckCardsInHand(t, open, held) == Deck(t) \ open
AvailableDeckCards(t, open, held) == Deck(t) \ (open \cup held)

\* selectDeckTopCardDeterministically: nothing from an empty deck, otherwise
\* one card of it; which one depends on a hash that is not modelled.
Draws(available) ==
  IF available = {} THEN {{}} ELSE {{c} : c \in available}

\* isEligibleForNoble, evaluateNobleVisit: the eligible noble with the
\* smallest id visits, as a set of at most one noble.
IsEligibleForNoble(b, n) == \A c \in GemColors : b[c] >= NobleRequirement[n][c]
NobleVisitAgain(b) == {n \in Nobles : IsEligibleForNoble(b, n)}
NobleVisit(b) ==
  LET eligible == {n \in openNobles : IsEligibleForNoble(b, n)}
  IN  {n \in eligible : \A m \in eligible : n <= m}

IndexOf(p) == CHOOSE i \in 1 .. PlayerCount : PlayerOrder[i] = p
NextPlayer(p) ==
  PlayerOrder[IF IndexOf(p) = PlayerCount THEN 1 ELSE IndexOf(p) + 1]

\* shouldGameEndAfterFinalRound
ShouldEndGameAtOnce(next) == finalRound
ShouldEndGame(next) == finalRound /\ endTriggeredBy = next

\* evaluateFinalRoundTrigger, for a player whose score is now s
TriggersFinalRoundAbove(s) == ~finalRound /\ s > TargetScore
TriggersFinalRound(s) == ~finalRound /\ s >= TargetScore

\* resolveGameWinners: the highest score, then the fewest purchased cards;
\* whoever is still tied wins together.
TopScorePlayers(scores) == {p \in Players : \A q \in Players : scores[q] <= scores[p]}
ResolveGameWinnersByScore(scores) == TopScorePlayers(scores)
ResolveGameWinners(scores) ==
  {p \in TopScorePlayers(scores) :
     \A q \in TopScorePlayers(scores) :
       Cardinality(purchased[p]) <= Cardinality(purchased[q])}

-----------------------------------------------------------------------------
(* createLocalGameContext.                                                 *)

Init ==
  /\ status = "IN_PROGRESS"
  /\ version = 1
  /\ turn = 1
  /\ currentPlayer = PlayerOrder[1]
  /\ finalRound = FALSE
  /\ endTriggeredAtTurn = 0
  /\ endTriggeredBy = NoPlayer
  /\ winners = {}
  /\ bank = Supply
  /\ market = FaceUp
  /\ openNobles = Nobles
  /\ tokens = [p \in Players |-> NoTokens]
  /\ bonuses = [p \in Players |-> [c \in GemColors |-> 0]]
  /\ reserved = [p \in Players |-> {}]
  /\ purchased = [p \in Players |-> {}]
  /\ nobles = [p \in Players |-> {}]
  /\ score = [p \in Players |-> 0]

\* validatePreflight: the game is on and it is the actor's turn.  MaxVersion
\* only bounds the model.
MayAct(p) ==
  /\ status = "IN_PROGRESS"
  /\ currentPlayer = p
  /\ version < MaxVersion

\* applyTakeTokensTransition
TakeTokens(p, requested, returned) ==
  /\ MayAct(p)
  /\ TakeTokensAllowed(tokens[p], bank, requested, returned)
  /\ tokens' = [tokens EXCEPT ![p] =
                  WalletAfterDelta(@, AsTokens(requested), returned)]
  /\ bank' = BankAfterDelta(bank, AsTokens(requested), returned)
  /\ version' = version + 1
  /\ UNCHANGED <<status, turn, currentPlayer, endVars, market, openNobles,
                 bonuses, reserved, purchased, nobles, score>>

\* The gold a reservation asks for and the bank still has.
ReservationGold(takeGold) ==
  [NoTokens EXCEPT !["gold"] = IF takeGold /\ bank["gold"] > 0 THEN 1 ELSE 0]

\* The part of applyReserveCardTransition both targets share.
Reserve(p, card, takeGold, returned) ==
  /\ MayAct(p)
  /\ Cardinality(reserved[p]) < ReservedCardLimit
  /\ TokenDeltaAllowed(tokens[p], bank, ReservationGold(takeGold), returned)
  /\ tokens' = [tokens EXCEPT ![p] =
                  WalletAfterDelta(@, ReservationGold(takeGold), returned)]
  /\ bank' = BankAfterDelta(bank, ReservationGold(takeGold), returned)
  /\ reserved' = [reserved EXCEPT ![p] = @ \cup {card}]
  /\ version' = version + 1
  /\ UNCHANGED <<status, turn, currentPlayer, endVars, openNobles,
                 bonuses, purchased, nobles, score>>

\* removeOpenCardAndRefill: card leaves the market of its tier, and a card of
\* the deck takes its slot if there is one.
RemoveOpenCardAndRefill(t, card) ==
  \E drawn \in Draws(AvailableDeckCards(t, market[t] \ {card}, HeldCards \cup {card})) :
    market' = [market EXCEPT ![t] = (@ \ {card}) \cup drawn]

\* RESERVE_CARD with target OPEN_CARD
ReserveOpenCard(p, t, card, takeGold, returned) ==
  /\ card \in market[t]
  /\ Reserve(p, card, takeGold, returned)
  /\ RemoveOpenCardAndRefill(t, card)

\* RESERVE_CARD with target DECK_TOP
ReserveDeckTop(p, t, takeGold, returned) ==
  /\ \E card \in AvailableDeckCards(t, market[t], HeldCards) :
       Reserve(p, card, takeGold, returned)
  /\ UNCHANGED market

\* The bonus wallet with the bonus of card, and the reserve without card.
GainBonus(b, card) == [b EXCEPT ![CardBonus[card]] = @ + 1]
SpliceReservedToEnd(cards, card) == {}
SpliceReserved(cards, card) == cards \ {card}

\* evaluatePlayerScore after the purchase and the noble's visit
ScoreBeforeNoble(p) == PlayerScore(purchased'[p], nobles[p])
ScoreAfterPurchase(p) == PlayerScore(purchased'[p], nobles'[p])

\* The part of applyBuyCardTransition both sources share: pay, own the card
\* and its bonus, receive a noble, recompute the score, and start the final
\* round when the score reaches the target.
Purchase(p, card, payment) ==
  LET visiting == NobleVisit(bonuses'[p])
  IN  /\ MayAct(p)
      /\ BuyPaymentAllowed(tokens[p], bonuses[p], CardCost[card], payment)
      /\ tokens' = [tokens EXCEPT ![p] = WalletDifference(@, payment)]
      /\ bank' = WalletSum(bank, payment)
      /\ purchased' = [purchased EXCEPT ![p] = @ \cup {card}]
      /\ bonuses' = [bonuses EXCEPT ![p] = GainBonus(@, card)]
      /\ openNobles' = openNobles \ visiting
      /\ nobles' = [nobles EXCEPT ![p] = @ \cup visiting]
      /\ score' = [score EXCEPT ![p] = ScoreAfterPurchase(p)]
      /\ IF TriggersFinalRound(score'[p])
         THEN /\ finalRound' = TRUE
              /\ endTriggeredAtTurn' = turn
              /\ endTriggeredBy' = p
         ELSE UNCHANGED <<finalRound, endTriggeredAtTurn, endTriggeredBy>>
      /\ version' = version + 1
      /\ UNCHANGED <<status, turn, currentPlayer, winners>>

\* BUY_CARD with source OPEN_MARKET
BuyOpenCard(p, t, card, payment) ==
  /\ card \in market[t]
  /\ Purchase(p, card, payment)
  /\ RemoveOpenCardAndRefill(t, card)
  /\ UNCHANGED reserved

\* BUY_CARD with source RESERVED
BuyReservedCard(p, card, payment) ==
  /\ card \in reserved[p]
  /\ Purchase(p, card, payment)
  /\ reserved' = [reserved EXCEPT ![p] = SpliceReserved(@, card)]
  /\ UNCHANGED market

\* END_TURN while the game goes on
EndTurn(p) ==
  /\ MayAct(p)
  /\ ~ShouldEndGame(NextPlayer(p))
  /\ turn' = turn + 1
  /\ currentPlayer' = NextPlayer(p)
  /\ version' = version + 1
  /\ UNCHANGED <<status, endVars, boardVars, playerVars>>

\* END_TURN that comes round to the player who started the final round: the
\* TURN_ENDED event and the GAME_ENDED event, two versions at once.
EndGame(p) ==
  /\ MayAct(p)
  /\ ShouldEndGame(NextPlayer(p))
  /\ turn' = turn + 1
  /\ currentPlayer' = NextPlayer(p)
  /\ status' = "ENDED"
  /\ winners' = ResolveGameWinners(FinalScores)
  /\ score' = FinalScores
  /\ version' = version + 2
  /\ UNCHANGED <<finalRound, endTriggeredAtTurn, endTriggeredBy, boardVars,
                 tokens, bonuses, reserved, purchased, nobles>>

Next ==
  \E p \in Players :
    \/ \E requested \in Requests, returned \in Returns :
         TakeTokens(p, requested, returned)
    \/ \E t \in Tiers, takeGold \in BOOLEAN, returned \in Returns :
         \/ \E card \in market[t] : ReserveOpenCard(p, t, card, takeGold, returned)
         \/ ReserveDeckTop(p, t, takeGold, returned)
    \/ \E payment \in Payments :
         \/ \E t \in Tiers : \E card \in market[t] : BuyOpenCard(p, t, card, payment)
         \/ \E card \in reserved[p] : BuyReservedCard(p, card, payment)
    \/ EndTurn(p)
    \/ EndGame(p)

Spec == Init /\ [][Next]_vars

-----------------------------------------------------------------------------
(* Properties.                                                             *)

\* The scores a player can have: of a new player, or of some cards and nobles.
ScoreValues ==
  {0} \cup {PlayerScore(cs, ns) : cs \in SUBSET Cards, ns \in SUBSET Nobles}

\* Every variable has the type the shared-types package declares for it.
TypeOK ==
  /\ status \in {"IN_PROGRESS", "ENDED"}
  /\ version \in Nat /\ turn \in Nat \ {0} /\ currentPlayer \in Players
  /\ finalRound \in BOOLEAN
  /\ endTriggeredAtTurn \in Nat /\ endTriggeredBy \in Players \cup {NoPlayer}
  /\ winners \subseteq Players
  /\ bank \in Wallet
  /\ market \in [Tiers -> SUBSET Cards]
  /\ openNobles \subseteq Nobles
  /\ tokens \in [Players -> Wallet]
  /\ bonuses \in [Players -> [GemColors -> Nat]]
  /\ reserved \in [Players -> SUBSET Cards]
  /\ purchased \in [Players -> SUBSET Cards]
  /\ nobles \in [Players -> SUBSET Nobles]
  /\ score \in [Players -> ScoreValues]

\* The tokens of colour c at seat i; a game has at most four seats.
SeatTokens(i, c) == IF i <= PlayerCount THEN tokens[PlayerOrder[i]][c] ELSE 0
TokensInHands(c) ==
  SeatTokens(1, c) + SeatTokens(2, c) + SeatTokens(3, c) + SeatTokens(4, c)

\* No command creates or destroys a token: what the players hold and the bank
\* still has is what the game started with, colour by colour.
TokensConserved == \A c \in TokenColors : bank[c] + TokensInHands(c) = Supply[c]

\* No sequence of takes, reservations with gold and returns leaves a player
\* above the token limit.
WalletWithinLimit == \A p \in Players : CountPlayerTokens(tokens[p]) <= PlayerTokenLimit

\* A card is in at most one place: one tier of the market, one player's
\* reserve or one player's purchases; whatever is nowhere is in the deck.
Hand(p) == reserved[p] \cup purchased[p]
MarketApart == \A t \in Tiers : market[t] \subseteq Deck(t) \ HeldCards
HandsApart ==
  \A p \in Players :
    /\ reserved[p] \cap purchased[p] = {}
    /\ \A q \in Players \ {p} : Hand(p) \cap Hand(q) = {}
CardsInOnePlace == MarketApart /\ HandsApart

\* The market shows MarketSize cards of a tier as long as the deck of the
\* tier can refill it: a slot stays empty only when the deck is exhausted.
MarketRefilled ==
  \A t \in Tiers :
    \/ Cardinality(market[t]) = MarketSize
    \/ AvailableDeckCards(t, market[t], HeldCards) = {}

\* The incremented bonus counters agree with the cards that were bought.
BonusesMatchPurchases ==
  \A p \in Players, c \in GemColors :
    bonuses[p][c] = Cardinality({d \in purchased[p] : CardBonus[d] = c})

\* A noble is on the board or with one player, who still has the bonuses the
\* noble asked for.
NoblesEarned ==
  \A p \in Players :
    /\ nobles[p] \cap openNobles = {}
    /\ \A q \in Players \ {p} : nobles[p] \cap nobles[q] = {}
    /\ \A n \in nobles[p] : IsEligibleForNoble(bonuses[p], n)

\* The stored score, which only a purchase writes, is always the score of the
\* cards and nobles the player has.
ScoresCurrent == score = FinalScores

\* endTriggeredAtTurn and endTriggeredByPlayerId are there in the final round
\* and only then, so that END_TURN can never fail on missing metadata.
FinalRoundMetadata ==
  /\ finalRound <=> endTriggeredBy \in Players
  /\ finalRound <=> endTriggeredAtTurn > 0

\* The final round starts with the first player to reach the target score,
\* who keeps that score, and its metadata is there exactly from then on.
FinalRoundRecorded ==
  /\ FinalRoundMetadata
  /\ finalRound <=> \E p \in Players : score[p] >= TargetScore
  /\ finalRound => score[endTriggeredBy] >= TargetScore

\* The policy plan on the final round: it is recorded when the player who has
\* the target score ends the turn, so no state of that turn shows it yet.
FinalRoundFromTurnEnd == finalRound => turn > endTriggeredAtTurn

\* The turn counter and the current player advance together.
SeatOfTurn(n) == PlayerOrder[((n - 1) % PlayerCount) + 1]
TurnOrderKept == currentPlayer = SeatOfTurn(turn)

\* Once the final round has started every other player has exactly one more
\* turn: the game is over when, and not before, the turn of the player who
\* started it comes round again.
LastTurnForEveryone ==
  finalRound =>
    /\ endTriggeredBy = SeatOfTurn(endTriggeredAtTurn)
    /\ IF status = "ENDED" THEN turn = endTriggeredAtTurn + PlayerCount
       ELSE turn - endTriggeredAtTurn \in 0 .. PlayerCount - 1

\* The final round starts once, its metadata never changes afterwards, and an
\* ended game stays as it is, for every command that is still sent.
FinalRoundStartsOnce ==
  [][/\ finalRound => finalRound' /\ UNCHANGED <<endTriggeredAtTurn, endTriggeredBy>>
     /\ status = "ENDED" => UNCHANGED vars]_vars

\* p finishes ahead of q: more points, or as many with fewer cards.
Beats(p, q) ==
  \/ score[p] > score[q]
  \/ score[p] = score[q] /\ Cardinality(purchased[p]) < Cardinality(purchased[q])

\* An ended game has winners, and they are exactly the unbeaten players.
WinnersUnbeaten ==
  IF status = "ENDED"
  THEN winners # {} /\ winners = {p \in Players : \A q \in Players : ~Beats(q, p)}
  ELSE winners = {}

\* What a player has built up is never lost again, whoever moves: cards,
\* bonuses, nobles and points only grow, and a reserved card leaves the
\* reserve only into its owner's purchases.
ProgressKept ==
  [][\A p \in Players :
       /\ purchased[p] \subseteq purchased'[p]
       /\ nobles[p] \subseteq nobles'[p]
       /\ \A c \in GemColors : bonuses'[p][c] >= bonuses[p][c]
       /\ score'[p] >= score[p]
       /\ reserved[p] \subseteq reserved'[p] \cup purchased'[p]]_vars

\* What the engine keeps beside the cards is right after any commands: the
\* types, the slots of the market, the counters of bonuses and the nobles.
BoardKept == TypeOK /\ MarketRefilled /\ BonusesMatchPurchases /\ NoblesEarned
=============================================================================
