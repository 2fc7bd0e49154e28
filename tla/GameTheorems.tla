---------------------------- MODULE GameTheorems ----------------------------
(***************************************************************************)
(* The game, for every seating, catalogue and setup.  First what the       *)
(* economy policies guarantee for every wallet, bank, price and command,   *)
(* and the tokens and cards; then the course of a game: turn order and the *)
(* final round, the books kept beside the cards, the scores and the        *)
(* winners, and the event log that tells all of it.                        *)
(***************************************************************************)
EXTENDS GameHistory, FiniteSetTheorems, TLAPS

-----------------------------------------------------------------------------
(* The economy policies.                                                   *)

TokenAmounts == [TokenColors -> Int]

LEMMA CountIsNatural ==
  ASSUME NEW w \in Wallet
  PROVE  CountPlayerTokens(w) \in Nat
BY DEF Wallet, CountPlayerTokens, SumGems, TokenColors, GemColors

LEMMA NoTokensIsWallet ==
  NoTokens \in Wallet /\ CountPlayerTokens(NoTokens) = 0
BY DEF NoTokens, Wallet, CountPlayerTokens, SumGems, TokenColors, GemColors

\* applyTokenDeltaWithLimit returns two wallets, moves tokens only between
\* them, and keeps the player within the limit.
THEOREM TokenDeltaSound ==
  ASSUME NEW wallet \in Wallet, NEW supply \in Wallet,
         NEW gained \in TokenAmounts, NEW returned \in TokenAmounts,
         TokenDeltaAllowed(wallet, supply, gained, returned)
  PROVE  /\ WalletAfterDelta(wallet, gained, returned) \in Wallet
         /\ BankAfterDelta(supply, gained, returned) \in Wallet
         /\ \A c \in TokenColors :
              WalletAfterDelta(wallet, gained, returned)[c]
                + BankAfterDelta(supply, gained, returned)[c] = wallet[c] + supply[c]
         /\ CountPlayerTokens(WalletAfterDelta(wallet, gained, returned))
              <= PlayerTokenLimit
<1>1. \A c \in TokenColors : /\ wallet[c] \in Nat /\ supply[c] \in Nat
                             /\ gained[c] \in Nat /\ returned[c] \in Nat
                             /\ gained[c] <= supply[c]
                             /\ returned[c] <= wallet[c] + gained[c]
  BY DEF Wallet, TokenAmounts, TokenDeltaAllowed, IsTokenRecord
<1>2. WalletAfterDelta(wallet, gained, returned) \in Wallet
  BY <1>1 DEF WalletAfterDelta, Wallet
<1>3. BankAfterDelta(supply, gained, returned) \in Wallet
  BY <1>1 DEF BankAfterDelta, Wallet
<1>4. QED
  BY <1>1, <1>2, <1>3 DEF WalletAfterDelta, BankAfterDelta, TokenDeltaAllowed

\* evaluateBuyPayment never spends what the player does not have, and what
\* the player loses the supply gains.
THEOREM BuyPaymentSound ==
  ASSUME NEW wallet \in Wallet, NEW supply \in Wallet,
         NEW playerBonuses \in [GemColors -> Nat], NEW cost \in [GemColors -> Nat],
         NEW payment \in TokenAmounts,
         BuyPaymentAllowed(wallet, playerBonuses, cost, payment)
  PROVE  /\ WalletDifference(wallet, payment) \in Wallet
         /\ WalletSum(supply, payment) \in Wallet
         /\ \A c \in TokenColors :
              WalletDifference(wallet, payment)[c] + WalletSum(supply, payment)[c]
                = wallet[c] + supply[c]
         /\ CountPlayerTokens(WalletDifference(wallet, payment))
              <= CountPlayerTokens(wallet)
<1>1. \A c \in TokenColors : /\ wallet[c] \in Nat /\ supply[c] \in Nat
                             /\ payment[c] \in Nat /\ payment[c] <= wallet[c]
  BY DEF Wallet, TokenAmounts, BuyPaymentAllowed, IsTokenRecord
<1>2. /\ WalletDifference(wallet, payment) \in Wallet
      /\ WalletSum(supply, payment) \in Wallet
  BY <1>1 DEF WalletDifference, WalletSum, Wallet
<1>3. CountPlayerTokens(WalletDifference(wallet, payment)) <= CountPlayerTokens(wallet)
  BY <1>1 DEF WalletDifference, CountPlayerTokens, SumGems, TokenColors, GemColors
<1>4. QED
  BY <1>1, <1>2, <1>3 DEF WalletDifference, WalletSum

\* Whichever colours gold replaces, an accepted payment has as many tokens as
\* the card costs after the bonuses: nobody can overpay or underpay.
THEOREM PaymentIsDiscountedPrice ==
  ASSUME NEW wallet \in Wallet, NEW playerBonuses \in [GemColors -> Nat],
         NEW cost \in [GemColors -> Nat], NEW payment \in TokenAmounts,
         BuyPaymentAllowed(wallet, playerBonuses, cost, payment)
  PROVE  CountPlayerTokens(payment) = SumGems(RequiredGems(cost, playerBonuses))
<1> DEFINE required == RequiredGems(cost, playerBonuses)
<1>1. required \in [GemColors -> Nat]
  BY DEF RequiredGems
<1>2. payment["gold"] = SumGems([c \in GemColors |-> required[c] - payment[c]])
  BY DEF BuyPaymentAllowed, GoldNeeded
<1> HIDE DEF required
<1>3. CountPlayerTokens(payment) = SumGems(required)
  BY <1>1, <1>2 DEF CountPlayerTokens, SumGems, TokenAmounts, TokenColors, GemColors
<1>4. QED
  BY <1>3 DEF required

\* The gems of the discounted price the wallet cannot pay in their colour.
Shortfall(wallet, playerBonuses, cost) ==
  [c \in GemColors |->
     LET open == RequiredGems(cost, playerBonuses)[c]
     IN  IF open > wallet[c] THEN open - wallet[c] ELSE 0]

\* A card can be bought with some payment exactly when the player's gold covers
\* the gems missing after bonuses and coloured tokens.
THEOREM BuyableIffGoldCoversShortfall ==
  ASSUME NEW wallet \in Wallet, NEW playerBonuses \in [GemColors -> Nat],
         NEW cost \in [GemColors -> Nat]
  PROVE  (\E payment \in TokenAmounts :
            BuyPaymentAllowed(wallet, playerBonuses, cost, payment))
         <=> SumGems(Shortfall(wallet, playerBonuses, cost)) <= wallet["gold"]
<1> DEFINE required == RequiredGems(cost, playerBonuses)
           short == Shortfall(wallet, playerBonuses, cost)
<1>1. required \in [GemColors -> Nat]
  BY DEF RequiredGems
<1>2. \A c \in GemColors :
        /\ required[c] \in Nat /\ wallet[c] \in Nat /\ short[c] \in Nat
        /\ short[c] = IF required[c] > wallet[c] THEN required[c] - wallet[c] ELSE 0
  BY <1>1 DEF Shortfall, Wallet, TokenColors
<1>3. ASSUME NEW payment \in TokenAmounts,
             BuyPaymentAllowed(wallet, playerBonuses, cost, payment)
      PROVE  SumGems(short) <= wallet["gold"]
  <2>1. payment["gold"] = SumGems([c \in GemColors |-> required[c] - payment[c]])
    BY <1>3 DEF BuyPaymentAllowed, GoldNeeded
  <2>2. \A c \in GemColors : /\ payment[c] \in Int
                             /\ payment[c] <= wallet[c] /\ payment[c] <= required[c]
    BY <1>3 DEF BuyPaymentAllowed, TokenAmounts, TokenColors
  <2>3. payment["gold"] <= wallet["gold"] /\ wallet["gold"] \in Nat
    BY <1>3 DEF BuyPaymentAllowed, Wallet, TokenColors
  <2> HIDE DEF required, short
  <2>4. \A c \in GemColors : short[c] <= required[c] - payment[c]
    BY <1>2, <2>2
  <2>5. payment["gold"] = (required["diamond"] - payment["diamond"])
          + (required["sapphire"] - payment["sapphire"])
          + (required["emerald"] - payment["emerald"])
          + (required["ruby"] - payment["ruby"])
          + (required["onyx"] - payment["onyx"])
    BY <2>1 DEF SumGems, GemColors
  <2>6. \A c \in GemColors : /\ required[c] - payment[c] \in Int
                             /\ short[c] \in Int
    BY <1>2, <2>2
  <2>7. SumGems(short) <= payment["gold"]
    BY <2>4, <2>5, <2>6 DEF SumGems, GemColors
  <2>8. SumGems(short) \in Int /\ payment["gold"] \in Int
    BY <2>5, <2>6 DEF SumGems, GemColors
  <2>9. QED
    BY <2>3, <2>7, <2>8
<1>4. ASSUME SumGems(short) <= wallet["gold"]
      PROVE  \E payment \in TokenAmounts :
               BuyPaymentAllowed(wallet, playerBonuses, cost, payment)
  <2> DEFINE payment == [c \in TokenColors |->
                           IF c \in GemColors THEN required[c] - short[c]
                           ELSE SumGems(short)]
  <2>0. SumGems(short) \in Nat
    <3> HIDE DEF short, required
    <3> QED BY <1>2 DEF SumGems, GemColors
  <2>1. payment \in TokenAmounts
    <3> HIDE DEF short, required
    <3> QED BY <1>2, <2>0 DEF TokenAmounts, TokenColors
  <2>2. \A c \in GemColors : /\ payment[c] = required[c] - short[c]
                             /\ 0 <= payment[c] /\ payment[c] <= wallet[c]
                             /\ payment[c] <= required[c]
    <3> HIDE DEF short, required
    <3> QED BY <1>2 DEF TokenColors
  <2>3. payment["gold"] = SumGems(short)
    BY DEF TokenColors, GemColors
  <2>4. GoldNeeded(cost, playerBonuses, payment) = SumGems(short)
    <3>1. \A c \in GemColors : required[c] - payment[c] = short[c]
      <4> HIDE DEF payment, short, required
      <4> QED BY <1>2, <2>2
    <3> HIDE DEF payment, short
    <3>2. QED BY <3>1 DEF GoldNeeded, SumGems, GemColors
  <2>5. IsTokenRecord(payment) /\ \A c \in TokenColors : payment[c] <= wallet[c]
    <3>1. \A c \in TokenColors : 0 <= payment[c] /\ payment[c] <= wallet[c]
      <4> HIDE DEF payment, short, required
      <4> QED BY <1>4, <2>0, <2>2, <2>3 DEF TokenColors
    <3>2. DOMAIN payment = TokenColors
      OBVIOUS
    <3> HIDE DEF payment
    <3>3. QED BY <3>1, <3>2, <2>1 DEF IsTokenRecord, TokenAmounts
  <2>6. BuyPaymentAllowed(wallet, playerBonuses, cost, payment)
    <3> HIDE DEF payment
    <3> QED BY <2>2, <2>3, <2>4, <2>5 DEF BuyPaymentAllowed
  <2>7. QED
    BY <2>1, <2>6
<1>5. QED
  BY <1>3, <1>4

-----------------------------------------------------------------------------
(* Seats and catalogue.                                                    *)

LEMMA SeatsAreSeats ==
  /\ PlayerOrder \in [1 .. PlayerCount -> Players]
  /\ PlayerCount \in {2, 3, 4}
  /\ \A i \in 1 .. PlayerCount : IndexOf(PlayerOrder[i]) = i
  /\ \A p \in Players : IndexOf(p) \in 1 .. PlayerCount /\ PlayerOrder[IndexOf(p)] = p
<1>1. /\ PlayerOrder \in [1 .. PlayerCount -> Players]
      /\ PlayerCount \in {2, 3, 4}
  BY PlayersAssumption DEF PlayerCount
<1>2. ASSUME NEW p \in Players
      PROVE  IndexOf(p) \in 1 .. PlayerCount /\ PlayerOrder[IndexOf(p)] = p
  <2>1. \E i \in 1 .. PlayerCount : PlayerOrder[i] = p
    BY DEF Players
  <2>2. QED
    BY <2>1 DEF IndexOf
<1>3. ASSUME NEW i \in 1 .. PlayerCount
      PROVE  IndexOf(PlayerOrder[i]) = i
  <2>1. PlayerOrder[i] \in Players
    BY DEF Players
  <2>2. QED
    BY <1>2, <2>1, PlayersAssumption
<1>4. QED
  BY <1>1, <1>2, <1>3

LEMMA NextPlayerIsPlayer ==
  ASSUME NEW p \in Players
  PROVE  NextPlayer(p) \in Players
BY SeatsAreSeats DEF NextPlayer

LEMMA NobleVisitFromBoard ==
  ASSUME NEW b
  PROVE  NobleVisit(b) \subseteq openNobles
BY DEF NobleVisit

LEMMA AsTokensIsAmount ==
  ASSUME NEW requested \in [GemColors -> Int]
  PROVE  AsTokens(requested) \in TokenAmounts
BY DEF AsTokens, TokenAmounts, TokenColors

LEMMA ReservationGoldIsAmount ==
  ASSUME NEW takeGold
  PROVE  ReservationGold(takeGold) \in TokenAmounts
BY DEF ReservationGold, NoTokens, TokenAmounts, TokenColors

\* The deck draws cards of the tier that are in no market slot and no hand.
LEMMA DrawFromDeck ==
  ASSUME NEW t, NEW open, NEW held,
         NEW drawn \in Draws(AvailableDeckCards(t, open, held))
  PROVE  /\ drawn \subseteq Deck(t) \ (open \cup held)
         /\ drawn \subseteq Cards
BY DEF Draws, AvailableDeckCards, Deck

-----------------------------------------------------------------------------
(* Types.                                                                  *)

\* Every wallet a TAKE_TOKENS or RESERVE_CARD command leaves is a wallet.
LEMMA TakeTokensType ==
  ASSUME TypeOK, NEW p \in Players, NEW requested \in Requests, NEW returned \in Returns,
         TakeTokens(p, requested, returned)
  PROVE  TypeOK'
<1>1. /\ tokens[p] \in Wallet /\ bank \in Wallet
      /\ AsTokens(requested) \in TokenAmounts /\ returned \in TokenAmounts
  BY InputsAssumption, AsTokensIsAmount DEF TypeOK, TokenAmounts
<1>2. TokenDeltaAllowed(tokens[p], bank, AsTokens(requested), returned)
  BY DEF TakeTokens, TakeTokensAllowed
<1>3. /\ WalletAfterDelta(tokens[p], AsTokens(requested), returned) \in Wallet
      /\ BankAfterDelta(bank, AsTokens(requested), returned) \in Wallet
  BY <1>1, <1>2, TokenDeltaSound
<1>4. QED
  BY <1>3 DEF TypeOK, TakeTokens, endVars

LEMMA ReserveType ==
  ASSUME TypeOK, NEW p \in Players, NEW card \in Cards, NEW takeGold \in BOOLEAN,
         NEW returned \in Returns, Reserve(p, card, takeGold, returned),
         market' \in [Tiers -> SUBSET Cards]
  PROVE  TypeOK'
<1>1. /\ tokens[p] \in Wallet /\ bank \in Wallet
      /\ ReservationGold(takeGold) \in TokenAmounts /\ returned \in TokenAmounts
  BY InputsAssumption, ReservationGoldIsAmount DEF TypeOK, TokenAmounts
<1>2. TokenDeltaAllowed(tokens[p], bank, ReservationGold(takeGold), returned)
  BY DEF Reserve
<1>3. /\ WalletAfterDelta(tokens[p], ReservationGold(takeGold), returned) \in Wallet
      /\ BankAfterDelta(bank, ReservationGold(takeGold), returned) \in Wallet
  BY <1>1, <1>2, TokenDeltaSound
<1>4. QED
  BY <1>3 DEF TypeOK, Reserve, endVars

LEMMA RefillType ==
  ASSUME TypeOK, NEW t \in Tiers, NEW card, RemoveOpenCardAndRefill(t, card)
  PROVE  market' \in [Tiers -> SUBSET Cards]
<1>1. PICK drawn \in Draws(AvailableDeckCards(t, market[t] \ {card}, HeldCards \cup {card})) :
        market' = [market EXCEPT ![t] = (@ \ {card}) \cup drawn]
  BY DEF RemoveOpenCardAndRefill
<1>2. drawn \subseteq Cards
  BY DrawFromDeck
<1>3. QED
  BY <1>1, <1>2 DEF TypeOK

LEMMA GainBonusType ==
  ASSUME NEW b \in [GemColors -> Nat], NEW card \in Cards
  PROVE  GainBonus(b, card) \in [GemColors -> Nat]
BY CatalogAssumption DEF GainBonus

LEMMA PurchaseType ==
  ASSUME TypeOK, NEW p \in Players, NEW card \in Cards, NEW payment \in Payments,
         Purchase(p, card, payment),
         market' \in [Tiers -> SUBSET Cards], reserved' \in [Players -> SUBSET Cards]
  PROVE  TypeOK'
<1>1. /\ tokens[p] \in Wallet /\ bank \in Wallet /\ bonuses[p] \in [GemColors -> Nat]
      /\ CardCost[card] \in [GemColors -> Nat] /\ payment \in TokenAmounts
  BY InputsAssumption, CatalogAssumption DEF TypeOK, TokenAmounts
<1>2. /\ WalletDifference(tokens[p], payment) \in Wallet
      /\ WalletSum(bank, payment) \in Wallet
  BY <1>1, BuyPaymentSound DEF Purchase
<1>3. tokens' \in [Players -> Wallet] /\ bank' \in Wallet
  BY <1>2 DEF TypeOK, Purchase
<1>4. bonuses' \in [Players -> [GemColors -> Nat]]
  BY <1>1, GainBonusType DEF TypeOK, Purchase
<1>5. purchased' \in [Players -> SUBSET Cards]
  BY DEF TypeOK, Purchase
<1>6. openNobles' \subseteq Nobles /\ nobles' \in [Players -> SUBSET Nobles]
  BY NobleVisitFromBoard DEF TypeOK, Purchase
<1>7. score' \in [Players -> ScoreValues]
  <2>1. ScoreAfterPurchase(p) \in ScoreValues
    BY <1>5, <1>6 DEF ScoreAfterPurchase, ScoreValues
  <2>2. QED
    BY <2>1 DEF TypeOK, Purchase
<1>8. finalRound' \in BOOLEAN /\ endTriggeredAtTurn' \in Nat
      /\ endTriggeredBy' \in Players \cup {NoPlayer}
  BY DEF TypeOK, Purchase
<1>9. QED
  BY <1>3, <1>4, <1>5, <1>6, <1>7, <1>8 DEF TypeOK, Purchase

LEMMA EndTurnType ==
  ASSUME TypeOK, NEW p \in Players, EndTurn(p)
  PROVE  TypeOK'
BY NextPlayerIsPlayer DEF TypeOK, EndTurn, endVars, boardVars, playerVars

LEMMA EndGameType ==
  ASSUME TypeOK, NEW p \in Players, EndGame(p)
  PROVE  TypeOK'
<1>1. FinalScores \in [Players -> ScoreValues]
  BY DEF FinalScores, TypeOK, ScoreValues
<1>2. ResolveGameWinners(FinalScores) \subseteq Players
  BY DEF ResolveGameWinners, TopScorePlayers
<1>3. QED
  BY <1>1, <1>2, NextPlayerIsPlayer DEF TypeOK, EndGame, boardVars

LEMMA InitType == Init => TypeOK
<1> SUFFICES ASSUME Init PROVE TypeOK
  OBVIOUS
<1>1. PlayerOrder[1] \in Players
  BY SeatsAreSeats
<1>2. bank \in Wallet /\ market \in [Tiers -> SUBSET Cards]
  BY SetupAssumption DEF Init
<1>3. tokens \in [Players -> Wallet] /\ bonuses \in [Players -> [GemColors -> Nat]]
  BY NoTokensIsWallet DEF Init
<1>4. score \in [Players -> ScoreValues]
  BY DEF Init, ScoreValues
<1>5. /\ reserved \in [Players -> SUBSET Cards]
      /\ purchased \in [Players -> SUBSET Cards]
      /\ nobles \in [Players -> SUBSET Nobles]
  BY DEF Init
<1>6. /\ status \in {"IN_PROGRESS", "ENDED"} /\ version \in Nat /\ turn \in Nat \ {0}
      /\ endTriggeredAtTurn \in Nat
      /\ endTriggeredBy \in Players \cup {NoPlayer} /\ winners \subseteq Players
      /\ currentPlayer \in Players /\ openNobles \subseteq Nobles
  BY <1>1 DEF Init
<1>7. finalRound \in BOOLEAN
  BY DEF Init
<1>8. QED
  BY <1>2, <1>3, <1>4, <1>5, <1>6, <1>7 DEF TypeOK

\* Every variable keeps the type declared for it: no command yields a negative
\* amount of tokens, an unknown card or a turn without a player.
THEOREM TypeCorrect == Spec => []TypeOK
<1>1. TypeOK /\ [Next]_vars => TypeOK'
  <2> SUFFICES ASSUME TypeOK, [Next]_vars PROVE TypeOK'
    OBVIOUS
  <2>1. ASSUME NEW p \in Players, NEW requested \in Requests, NEW returned \in Returns,
               TakeTokens(p, requested, returned)
        PROVE  TypeOK'
    BY <2>1, TakeTokensType
  <2>2. ASSUME NEW p \in Players, NEW t \in Tiers, NEW takeGold \in BOOLEAN,
               NEW returned \in Returns, NEW card \in market[t],
               ReserveOpenCard(p, t, card, takeGold, returned)
        PROVE  TypeOK'
    <3>1. card \in Cards
      BY DEF TypeOK
    <3>2. Reserve(p, card, takeGold, returned) /\ market' \in [Tiers -> SUBSET Cards]
      BY <2>2, RefillType DEF ReserveOpenCard
    <3>3. QED
      BY <3>1, <3>2, ReserveType
  <2>3. ASSUME NEW p \in Players, NEW t \in Tiers, NEW takeGold \in BOOLEAN,
               NEW returned \in Returns, ReserveDeckTop(p, t, takeGold, returned)
        PROVE  TypeOK'
    <3>1. PICK card \in AvailableDeckCards(t, market[t], HeldCards) :
            Reserve(p, card, takeGold, returned)
      BY <2>3 DEF ReserveDeckTop
    <3>2. card \in Cards
      BY DEF AvailableDeckCards, Deck
    <3>3. market' \in [Tiers -> SUBSET Cards]
      BY <2>3 DEF ReserveDeckTop, TypeOK
    <3>4. QED
      BY <3>1, <3>2, <3>3, ReserveType
  <2>4. ASSUME NEW p \in Players, NEW t \in Tiers, NEW payment \in Payments,
               NEW card \in market[t], BuyOpenCard(p, t, card, payment)
        PROVE  TypeOK'
    <3>1. card \in Cards /\ reserved' \in [Players -> SUBSET Cards]
      BY <2>4 DEF TypeOK, BuyOpenCard
    <3>2. Purchase(p, card, payment) /\ market' \in [Tiers -> SUBSET Cards]
      BY <2>4, RefillType DEF BuyOpenCard
    <3>3. QED
      BY <3>1, <3>2, PurchaseType
  <2>5. ASSUME NEW p \in Players, NEW payment \in Payments, NEW card \in reserved[p],
               BuyReservedCard(p, card, payment)
        PROVE  TypeOK'
    <3>1. card \in Cards /\ market' \in [Tiers -> SUBSET Cards]
      BY <2>5 DEF TypeOK, BuyReservedCard
    <3>2. Purchase(p, card, payment) /\ reserved' \in [Players -> SUBSET Cards]
      BY <2>5 DEF TypeOK, BuyReservedCard, SpliceReserved
    <3>3. QED
      BY <3>1, <3>2, PurchaseType
  <2>6. ASSUME NEW p \in Players, EndTurn(p) PROVE TypeOK'
    BY <2>6, EndTurnType
  <2>7. ASSUME NEW p \in Players, EndGame(p) PROVE TypeOK'
    BY <2>7, EndGameType
  <2>8. CASE UNCHANGED vars
    BY <2>8 DEF TypeOK, vars, progressVars, endVars, boardVars, playerVars
  <2>9. QED
    BY <2>1, <2>2, <2>3, <2>4, <2>5, <2>6, <2>7, <2>8 DEF Next
<1>2. QED
  BY InitType, <1>1, PTL DEF Spec

-----------------------------------------------------------------------------
(* Tokens.                                                                 *)

\* What a command may do to the tokens of its player p and of the bank.
TokensMove(p) ==
  /\ tokens' = [tokens EXCEPT ![p] = tokens'[p]]
  /\ \A c \in TokenColors : tokens'[p][c] + bank'[c] = tokens[p][c] + bank[c]
  /\ \/ CountPlayerTokens(tokens'[p]) <= PlayerTokenLimit
     \/ CountPlayerTokens(tokens'[p]) <= CountPlayerTokens(tokens[p])

LEMMA DeltaMovesTokens ==
  ASSUME TypeOK, NEW p \in Players, NEW gained \in TokenAmounts, NEW returned \in Returns,
         TokenDeltaAllowed(tokens[p], bank, gained, returned),
         tokens' = [tokens EXCEPT ![p] = WalletAfterDelta(@, gained, returned)],
         bank' = BankAfterDelta(bank, gained, returned)
  PROVE  TokensMove(p)
<1>1. tokens[p] \in Wallet /\ bank \in Wallet /\ returned \in TokenAmounts
  BY InputsAssumption DEF TypeOK, TokenAmounts
<1>2. tokens'[p] = WalletAfterDelta(tokens[p], gained, returned)
  BY DEF TypeOK
<1>3. /\ \A c \in TokenColors : tokens'[p][c] + bank'[c] = tokens[p][c] + bank[c]
      /\ CountPlayerTokens(tokens'[p]) <= PlayerTokenLimit
  BY <1>1, <1>2, TokenDeltaSound
<1>4. QED
  BY <1>2, <1>3 DEF TokensMove

LEMMA PurchaseMovesTokens ==
  ASSUME TypeOK, NEW p \in Players, NEW card \in Cards, NEW payment \in Payments,
         Purchase(p, card, payment)
  PROVE  TokensMove(p)
<1>1. /\ tokens[p] \in Wallet /\ bank \in Wallet /\ bonuses[p] \in [GemColors -> Nat]
      /\ CardCost[card] \in [GemColors -> Nat] /\ payment \in TokenAmounts
  BY InputsAssumption, CatalogAssumption DEF TypeOK, TokenAmounts
<1>2. /\ tokens' = [tokens EXCEPT ![p] = WalletDifference(tokens[p], payment)]
      /\ tokens'[p] = WalletDifference(tokens[p], payment)
      /\ bank' = WalletSum(bank, payment)
      /\ BuyPaymentAllowed(tokens[p], bonuses[p], CardCost[card], payment)
  BY DEF TypeOK, Purchase
<1>3. /\ \A c \in TokenColors : tokens'[p][c] + bank'[c] = tokens[p][c] + bank[c]
      /\ CountPlayerTokens(tokens'[p]) <= CountPlayerTokens(tokens[p])
  BY <1>1, <1>2, BuyPaymentSound
<1>4. QED
  BY <1>2, <1>3 DEF TokensMove

\* Every command moves tokens between its player and the bank, or none.
LEMMA StepMovesTokens ==
  ASSUME TypeOK, [Next]_vars
  PROVE  UNCHANGED <<tokens, bank>> \/ \E p \in Players : TokensMove(p)
<1>1. ASSUME NEW p \in Players, NEW requested \in Requests, NEW returned \in Returns,
             TakeTokens(p, requested, returned)
      PROVE  TokensMove(p)
  <2>1. AsTokens(requested) \in TokenAmounts
    BY InputsAssumption, AsTokensIsAmount
  <2>2. QED
    BY <1>1, <2>1, DeltaMovesTokens DEF TakeTokens, TakeTokensAllowed
<1>2. ASSUME NEW p \in Players, NEW card, NEW takeGold \in BOOLEAN,
             NEW returned \in Returns, Reserve(p, card, takeGold, returned)
      PROVE  TokensMove(p)
  BY <1>2, ReservationGoldIsAmount, DeltaMovesTokens DEF Reserve
<1>3. ASSUME NEW p \in Players, NEW t \in Tiers, NEW payment \in Payments,
             NEW card \in market[t], BuyOpenCard(p, t, card, payment)
      PROVE  TokensMove(p)
  BY <1>3, PurchaseMovesTokens DEF BuyOpenCard, TypeOK
<1>4. ASSUME NEW p \in Players, NEW payment \in Payments, NEW card \in reserved[p],
             BuyReservedCard(p, card, payment)
      PROVE  TokensMove(p)
  BY <1>4, PurchaseMovesTokens DEF BuyReservedCard, TypeOK
<1>5. ASSUME NEW p \in Players, EndTurn(p) \/ EndGame(p)
      PROVE  UNCHANGED <<tokens, bank>>
  BY <1>5 DEF EndTurn, EndGame, boardVars, playerVars
<1>6. CASE UNCHANGED vars
  BY <1>6 DEF vars, boardVars, playerVars
<1>7. QED
  BY <1>1, <1>2, <1>3, <1>4, <1>5, <1>6 DEF Next, ReserveOpenCard, ReserveDeckTop

\* A move between one seat and the bank keeps the total of each colour.
LEMMA TokensMoveConserves ==
  ASSUME TypeOK, TypeOK', TokensConserved, NEW p \in Players, TokensMove(p)
  PROVE  TokensConserved'
<1> SUFFICES ASSUME NEW c \in TokenColors
             PROVE  bank'[c] + TokensInHands(c)' = Supply[c]
  BY DEF TokensConserved
<1>1. PICK k \in 1 .. PlayerCount : PlayerOrder[k] = p
  BY SeatsAreSeats
<1>2. \A i \in 1 .. 4 : SeatTokens(i, c) \in Nat /\ SeatTokens(i, c)' \in Nat
  BY SeatsAreSeats DEF SeatTokens, TypeOK, Wallet
<1>3. bank[c] \in Nat /\ bank'[c] \in Nat
  BY DEF TypeOK, Wallet
<1>4. ASSUME NEW i \in 1 .. 4, i # k
      PROVE  SeatTokens(i, c)' = SeatTokens(i, c)
  <2>1. CASE i > PlayerCount
    BY <2>1, SeatsAreSeats DEF SeatTokens
  <2>2. CASE i <= PlayerCount
    <3>1. PlayerOrder[i] # p /\ PlayerOrder[i] \in Players
      BY <1>1, <1>4, <2>2, SeatsAreSeats
    <3>2. tokens'[PlayerOrder[i]] = tokens[PlayerOrder[i]]
      BY <3>1 DEF TokensMove, TypeOK
    <3>3. QED
      BY <3>2 DEF SeatTokens
  <2>3. QED
    BY <2>1, <2>2, SeatsAreSeats
<1>5. SeatTokens(k, c)' + bank'[c] = SeatTokens(k, c) + bank[c]
  BY <1>1, SeatsAreSeats DEF SeatTokens, TokensMove
<1>6. bank[c] + TokensInHands(c) = Supply[c]
  BY DEF TokensConserved
<1>7. k \in 1 .. 4
  BY <1>1, SeatsAreSeats
<1>8. QED
  BY <1>2, <1>3, <1>4, <1>5, <1>6, <1>7 DEF TokensInHands

\* No command creates or destroys a token.
THEOREM TokensAreConserved == Spec => []TokensConserved
<1>1. Init => TokensConserved
  <2> SUFFICES ASSUME Init, NEW c \in TokenColors
               PROVE  bank[c] + TokensInHands(c) = Supply[c]
    BY DEF TokensConserved
  <2>1. \A i \in 1 .. 4 : SeatTokens(i, c) = 0
    BY SeatsAreSeats DEF Init, SeatTokens, NoTokens
  <2>2. bank[c] = Supply[c] /\ Supply[c] \in Nat
    BY SetupAssumption DEF Init, Wallet
  <2>3. QED
    BY <2>1, <2>2 DEF TokensInHands
<1>2. TypeOK /\ TypeOK' /\ TokensConserved /\ [Next]_vars => TokensConserved'
  <2> SUFFICES ASSUME TypeOK, TypeOK', TokensConserved, [Next]_vars
               PROVE  TokensConserved'
    OBVIOUS
  <2>1. CASE UNCHANGED <<tokens, bank>>
    BY <2>1 DEF TokensConserved, TokensInHands, SeatTokens
  <2>2. CASE \E p \in Players : TokensMove(p)
    BY <2>2, TokensMoveConserves
  <2>3. QED
    BY <2>1, <2>2, StepMovesTokens
<1>3. QED
  BY <1>1, <1>2, TypeCorrect, PTL DEF Spec

\* No sequence of commands leaves a player with more than PlayerTokenLimit.
THEOREM WalletsStayWithinLimit == Spec => []WalletWithinLimit
<1>1. Init => WalletWithinLimit
  BY NoTokensIsWallet, PlayerTokenLimitAssumption DEF Init, WalletWithinLimit
<1>2. TypeOK /\ TypeOK' /\ WalletWithinLimit /\ [Next]_vars => WalletWithinLimit'
  <2> SUFFICES ASSUME TypeOK, TypeOK', WalletWithinLimit, [Next]_vars,
                      NEW q \in Players
               PROVE  CountPlayerTokens(tokens'[q]) <= PlayerTokenLimit
    BY DEF WalletWithinLimit
  <2>1. /\ CountPlayerTokens(tokens[q]) <= PlayerTokenLimit
        /\ CountPlayerTokens(tokens[q]) \in Nat /\ CountPlayerTokens(tokens'[q]) \in Nat
    BY CountIsNatural DEF WalletWithinLimit, TypeOK
  <2>2. CASE UNCHANGED <<tokens, bank>>
    BY <2>1, <2>2
  <2>3. ASSUME NEW p \in Players, TokensMove(p)
        PROVE  CountPlayerTokens(tokens'[q]) <= PlayerTokenLimit
    <3>1. CASE q = p
      BY <2>1, <2>3, <3>1, PlayerTokenLimitAssumption DEF TokensMove
    <3>2. CASE q # p
      BY <2>1, <2>3, <3>2 DEF TokensMove, TypeOK
    <3>3. QED
      BY <3>1, <3>2
  <2>4. QED
    BY <2>2, <2>3, StepMovesTokens
<1>3. QED
  BY <1>1, <1>2, TypeCorrect, PTL DEF Spec

-----------------------------------------------------------------------------
(* Cards.                                                                  *)

\* What a command may do to the cards of its player p.
HandsUnchanged == \A q \in Players : Hand(q)' = Hand(q)
GainsCard(p, card) ==
  /\ Hand(p)' = Hand(p) \cup {card}
  /\ \A q \in Players \ {p} : Hand(q)' = Hand(q)

\* The two ways a command moves cards out of the market or the deck, and the
\* one in which only the owner's reserve changes.
TakesOpenCard(p, t, card) ==
  card \in market[t] /\ GainsCard(p, card) /\ RemoveOpenCardAndRefill(t, card)
TakesDeckCard(p, t, card) ==
  /\ card \in AvailableDeckCards(t, market[t], HeldCards)
  /\ GainsCard(p, card)
  /\ UNCHANGED market

LEMMA HeldIsHands == HeldCards = UNION {Hand(p) : p \in Players}
BY DEF HeldCards, Hand

LEMMA GainGrowsHeld ==
  ASSUME NEW p \in Players, NEW card, GainsCard(p, card)
  PROVE  HeldCards' = HeldCards \cup {card}
<1>1. \A q \in Players : Hand(q) \subseteq Hand(q)'
                         /\ Hand(q)' \subseteq Hand(q) \cup {card}
  BY DEF GainsCard
<1>2. card \in Hand(p)'
  BY DEF GainsCard
<1>3. HeldCards = UNION {Hand(q) : q \in Players}
  BY HeldIsHands
<1>4. HeldCards' = UNION {Hand(q)' : q \in Players}
  BY DEF HeldCards, Hand
<1>5. QED
  BY <1>1, <1>2, <1>3, <1>4

LEMMA UnchangedHeld ==
  ASSUME HandsUnchanged
  PROVE  HeldCards' = HeldCards
<1>1. HeldCards = UNION {Hand(q) : q \in Players}
  BY HeldIsHands
<1>2. HeldCards' = UNION {Hand(q)' : q \in Players}
  BY DEF HeldCards, Hand
<1>3. QED
  BY <1>1, <1>2 DEF HandsUnchanged

\* Every command moves cards in one of the ways above.
LEMMA StepMovesCards ==
  ASSUME TypeOK, [Next]_vars
  PROVE  \/ HandsUnchanged /\ UNCHANGED market
         \/ \E p \in Players, t \in Tiers : \E card \in Cards :
              TakesOpenCard(p, t, card) \/ TakesDeckCard(p, t, card)
<1>1. ASSUME NEW p \in Players, NEW card \in Cards, NEW takeGold \in BOOLEAN,
             NEW returned \in Returns, Reserve(p, card, takeGold, returned)
      PROVE  GainsCard(p, card)
  BY <1>1 DEF Reserve, GainsCard, Hand, TypeOK
<1>2. ASSUME NEW p \in Players, NEW card \in Cards, NEW payment \in Payments,
             Purchase(p, card, payment), UNCHANGED reserved
      PROVE  GainsCard(p, card)
  BY <1>2 DEF Purchase, GainsCard, Hand, TypeOK
<1>3. ASSUME NEW p \in Players, NEW payment \in Payments, NEW card \in reserved[p],
             BuyReservedCard(p, card, payment)
      PROVE  HandsUnchanged /\ UNCHANGED market
  BY <1>3 DEF BuyReservedCard, SpliceReserved, Purchase, HandsUnchanged, Hand, TypeOK
<1>4. ASSUME NEW p \in Players, NEW t \in Tiers, NEW takeGold \in BOOLEAN,
             NEW returned \in Returns, NEW card \in market[t],
             ReserveOpenCard(p, t, card, takeGold, returned)
      PROVE  card \in Cards /\ TakesOpenCard(p, t, card)
  BY <1>1, <1>4 DEF ReserveOpenCard, TakesOpenCard, TypeOK
<1>5. ASSUME NEW p \in Players, NEW t \in Tiers, NEW takeGold \in BOOLEAN,
             NEW returned \in Returns, ReserveDeckTop(p, t, takeGold, returned)
      PROVE  \E card \in Cards : TakesDeckCard(p, t, card)
  BY <1>1, <1>5 DEF ReserveDeckTop, TakesDeckCard, AvailableDeckCards, Deck
<1>6. ASSUME NEW p \in Players, NEW t \in Tiers, NEW payment \in Payments,
             NEW card \in market[t], BuyOpenCard(p, t, card, payment)
      PROVE  card \in Cards /\ TakesOpenCard(p, t, card)
  BY <1>2, <1>6 DEF BuyOpenCard, TakesOpenCard, TypeOK
<1>7. ASSUME NEW p \in Players,
             \/ \E requested \in Requests, returned \in Returns :
                  TakeTokens(p, requested, returned)
             \/ EndTurn(p)
             \/ EndGame(p)
      PROVE  HandsUnchanged /\ UNCHANGED market
  BY <1>7 DEF TakeTokens, EndTurn, EndGame, boardVars, playerVars, HandsUnchanged, Hand
<1>8. CASE UNCHANGED vars
  BY <1>8 DEF vars, boardVars, playerVars, HandsUnchanged, Hand
<1>9. QED
  BY <1>3, <1>4, <1>5, <1>6, <1>7, <1>8 DEF Next

\* A card taken from the market or the deck was in nobody's hand, and the
\* refilled market shows no card of any hand.
LEMMA TakenCardWasFree ==
  ASSUME TypeOK, MarketApart, NEW p \in Players, NEW t \in Tiers, NEW card \in Cards,
         TakesOpenCard(p, t, card) \/ TakesDeckCard(p, t, card)
  PROVE  card \notin HeldCards /\ MarketApart'
<1>1. card \in Deck(t) /\ card \notin HeldCards
  BY DEF TakesOpenCard, TakesDeckCard, AvailableDeckCards, MarketApart
<1>2. HeldCards' = HeldCards \cup {card}
  BY GainGrowsHeld DEF TakesOpenCard, TakesDeckCard
<1>3. \A u \in Tiers \ {t} : market'[u] = market[u] /\ card \notin market[u]
  <2>1. \A u \in Tiers \ {t} : market'[u] = market[u]
    BY DEF TakesOpenCard, TakesDeckCard, RemoveOpenCardAndRefill, TypeOK
  <2>2. \A u \in Tiers \ {t} : card \notin Deck(u)
    BY <1>1 DEF Deck
  <2>3. QED
    BY <2>1, <2>2 DEF MarketApart
<1>4. market'[t] \subseteq Deck(t) \ HeldCards'
  <2>1. CASE TakesOpenCard(p, t, card)
    <3>1. PICK drawn \in Draws(AvailableDeckCards(t, market[t] \ {card},
                                                  HeldCards \cup {card})) :
            market' = [market EXCEPT ![t] = (@ \ {card}) \cup drawn]
      BY <2>1 DEF TakesOpenCard, RemoveOpenCardAndRefill
    <3>2. drawn \subseteq Deck(t) \ (HeldCards \cup {card})
      BY DrawFromDeck
    <3>3. market'[t] = (market[t] \ {card}) \cup drawn
      BY <3>1 DEF TypeOK
    <3>4. QED
      BY <1>2, <3>2, <3>3 DEF MarketApart
  <2>2. CASE TakesDeckCard(p, t, card)
    BY <1>2, <2>2 DEF TakesDeckCard, AvailableDeckCards, MarketApart
  <2>3. QED
    BY <2>1, <2>2
<1>5. QED
  BY <1>1, <1>2, <1>3, <1>4 DEF MarketApart, Deck

\* Within one hand, reserve and purchases stay apart: a card is reserved or
\* bought from the market only while free, and bought from the reserve only by
\* leaving it.
LEMMA ReserveAndPurchasesApart ==
  ASSUME TypeOK, CardsInOnePlace, [Next]_vars, NEW q \in Players
  PROVE  reserved'[q] \cap purchased'[q] = {}
<1>1. reserved[q] \cap purchased[q] = {}
  BY DEF CardsInOnePlace, HandsApart
<1>2. \A t \in Tiers : \A card \in market[t] : card \notin Hand(q)
  BY DEF CardsInOnePlace, MarketApart, HeldCards, Hand
<1>3. \A t \in Tiers : \A card \in AvailableDeckCards(t, market[t], HeldCards) :
        card \notin Hand(q)
  BY DEF AvailableDeckCards, HeldCards, Hand
<1>4. ASSUME NEW p \in Players, NEW card, NEW takeGold, NEW returned,
             Reserve(p, card, takeGold, returned), card \notin Hand(q)
      PROVE  reserved'[q] \cap purchased'[q] = {}
  BY <1>1, <1>4 DEF Reserve, Hand, TypeOK
<1>5. ASSUME NEW p \in Players, NEW t \in Tiers, NEW card \in market[t], NEW payment,
             BuyOpenCard(p, t, card, payment)
      PROVE  reserved'[q] \cap purchased'[q] = {}
  BY <1>1, <1>2, <1>5 DEF BuyOpenCard, Purchase, Hand, TypeOK
<1>6. ASSUME NEW p \in Players, NEW card \in reserved[p], NEW payment,
             BuyReservedCard(p, card, payment)
      PROVE  reserved'[q] \cap purchased'[q] = {}
  BY <1>1, <1>6 DEF BuyReservedCard, SpliceReserved, Purchase, TypeOK
<1>7. ASSUME NEW p \in Players,
             \/ \E requested \in Requests, returned \in Returns :
                  TakeTokens(p, requested, returned)
             \/ EndTurn(p)
             \/ EndGame(p)
      PROVE  reserved'[q] \cap purchased'[q] = {}
  BY <1>1, <1>7 DEF TakeTokens, EndTurn, EndGame, playerVars
<1>8. CASE UNCHANGED vars
  BY <1>1, <1>8 DEF vars, playerVars
<1>9. QED
  BY <1>2, <1>3, <1>4, <1>5, <1>6, <1>7, <1>8 DEF Next, ReserveOpenCard, ReserveDeckTop

\* A card is never in two places.
THEOREM CardsStayInOnePlace == Spec => []CardsInOnePlace
<1>1. Init => CardsInOnePlace
  <2> SUFFICES ASSUME Init PROVE CardsInOnePlace
    OBVIOUS
  <2>1. \A p \in Players : reserved[p] = {} /\ purchased[p] = {} /\ Hand(p) = {}
    BY DEF Init, Hand
  <2>2. HeldCards = {}
    BY <2>1 DEF HeldCards
  <2>3. QED
    BY <2>1, <2>2, SetupAssumption DEF Init, CardsInOnePlace, MarketApart, HandsApart
<1>2. TypeOK /\ CardsInOnePlace /\ [Next]_vars => CardsInOnePlace'
  <2> SUFFICES ASSUME TypeOK, CardsInOnePlace, [Next]_vars PROVE CardsInOnePlace'
    OBVIOUS
  <2>1. MarketApart /\ HandsApart
    BY DEF CardsInOnePlace
  <2>2. \A q \in Players : reserved'[q] \cap purchased'[q] = {}
    BY ReserveAndPurchasesApart
  <2>3. ASSUME HandsUnchanged, UNCHANGED market
        PROVE  CardsInOnePlace'
    BY <2>1, <2>2, <2>3, UnchangedHeld
    DEF CardsInOnePlace, MarketApart, HandsApart, HandsUnchanged
  <2>4. ASSUME NEW p \in Players, NEW t \in Tiers, NEW card \in Cards,
               TakesOpenCard(p, t, card) \/ TakesDeckCard(p, t, card)
        PROVE  CardsInOnePlace'
    <3>1. card \notin HeldCards /\ MarketApart'
      BY <2>1, <2>4, TakenCardWasFree
    <3>2. \A q \in Players : card \notin Hand(q)
      BY <3>1 DEF HeldCards, Hand
    <3>3. GainsCard(p, card)
      BY <2>4 DEF TakesOpenCard, TakesDeckCard
    <3>4. \A q \in Players : \A r \in Players \ {q} : Hand(q)' \cap Hand(r)' = {}
      BY <2>1, <3>2, <3>3 DEF HandsApart, GainsCard
    <3>5. QED
      BY <2>2, <3>1, <3>4 DEF CardsInOnePlace, HandsApart
  <2>5. QED
    BY <2>3, <2>4, StepMovesCards
<1>3. QED
  BY <1>1, <1>2, TypeCorrect, PTL DEF Spec

-----------------------------------------------------------------------------
(* Sums of points.                                                         *)

Plus(points, rest) == points + rest
Any(cards) == CHOOSE c \in cards : TRUE
Sum == INSTANCE FoldTheorems WITH Step <- Plus, Base <- 0, Choose <- Any


-----------------------------------------------------------------------------
(* What a command may do to the turn and to the final round.               *)

endMetadata == <<finalRound, endTriggeredAtTurn, endTriggeredBy>>

\* The current player keeps the turn; a purchase may start the final round.
KeepsTurn ==
  /\ UNCHANGED <<status, turn, currentPlayer, winners>>
  /\ \/ UNCHANGED endMetadata
     \/ /\ status = "IN_PROGRESS" /\ ~finalRound
        /\ finalRound' = TRUE
        /\ endTriggeredAtTurn' = turn
        /\ endTriggeredBy' = currentPlayer

\* The turn passes on; the game ends when it comes round to endTriggeredBy.
PassesTurn ==
  /\ status = "IN_PROGRESS"
  /\ turn' = turn + 1
  /\ currentPlayer' = NextPlayer(currentPlayer)
  /\ UNCHANGED endMetadata
  /\ status' = IF ShouldEndGame(NextPlayer(currentPlayer)) THEN "ENDED" ELSE "IN_PROGRESS"

LEMMA StepOfTurn ==
  ASSUME TypeOK, [Next]_vars
  PROVE  KeepsTurn \/ PassesTurn
<1>1. ASSUME NEW p \in Players, NEW card, NEW payment, Purchase(p, card, payment)
      PROVE  KeepsTurn
  BY <1>1, Zenon DEF Purchase, KeepsTurn, endMetadata, TriggersFinalRound, MayAct
<1>2. ASSUME NEW p \in Players, NEW card, NEW takeGold, NEW returned,
             Reserve(p, card, takeGold, returned)
      PROVE  KeepsTurn
  BY <1>2 DEF Reserve, KeepsTurn, endVars, endMetadata
<1>3. ASSUME NEW p \in Players, NEW requested, NEW returned,
             TakeTokens(p, requested, returned)
      PROVE  KeepsTurn
  BY <1>3 DEF TakeTokens, KeepsTurn, endVars, endMetadata
<1>4. ASSUME NEW p \in Players, EndTurn(p) \/ EndGame(p)
      PROVE  PassesTurn
  BY <1>4 DEF EndTurn, EndGame, MayAct, PassesTurn, endVars, endMetadata
<1>5. CASE UNCHANGED vars
  BY <1>5 DEF vars, progressVars, endVars, KeepsTurn, endMetadata
<1>6. QED
  BY <1>1, <1>2, <1>3, <1>4, <1>5
  DEF Next, ReserveOpenCard, ReserveDeckTop, BuyOpenCard, BuyReservedCard

-----------------------------------------------------------------------------
(* Seats in turn order.                                                    *)

LEMMA SeatsRotate ==
  ASSUME NEW n \in Nat \ {0}
  PROVE  /\ SeatOfTurn(n) \in Players
         /\ NextPlayer(SeatOfTurn(n)) = SeatOfTurn(n + 1)
<1> DEFINE i == ((n - 1) % PlayerCount) + 1
<1>1. /\ i \in 1 .. PlayerCount
      /\ (n % PlayerCount) + 1 = IF i = PlayerCount THEN 1 ELSE i + 1
  BY SeatsAreSeats
<1>2. IndexOf(SeatOfTurn(n)) = i
  BY <1>1, SeatsAreSeats DEF SeatOfTurn
<1>3. SeatOfTurn(n + 1) = PlayerOrder[(n % PlayerCount) + 1]
  BY SeatsAreSeats DEF SeatOfTurn
<1>4. QED
  BY <1>1, <1>2, <1>3, SeatsAreSeats DEF SeatOfTurn, NextPlayer

\* Two turns less than a round apart belong to different players, a whole
\* round apart to the same one.
LEMMA SeatsRepeatEachRound ==
  ASSUME NEW n \in Nat \ {0}, NEW k \in 1 .. PlayerCount
  PROVE  SeatOfTurn(n + k) = SeatOfTurn(n) <=> k = PlayerCount
<1> DEFINE i == ((n - 1) % PlayerCount) + 1
           j == ((n + k - 1) % PlayerCount) + 1
<1>1. /\ i \in 1 .. PlayerCount /\ j \in 1 .. PlayerCount
      /\ i = j <=> k = PlayerCount
  BY SeatsAreSeats
<1>2. IndexOf(SeatOfTurn(n)) = i /\ IndexOf(SeatOfTurn(n + k)) = j
  BY <1>1, SeatsAreSeats DEF SeatOfTurn
<1>3. QED
  BY <1>1, <1>2 DEF SeatOfTurn

\* The turn counter and the current player advance together.
THEOREM TurnOrderIsKept == Spec => []TurnOrderKept
<1>1. Init => TurnOrderKept
  BY SeatsAreSeats DEF Init, TurnOrderKept, SeatOfTurn
<1>2. TypeOK /\ TurnOrderKept /\ [Next]_vars => TurnOrderKept'
  <2> SUFFICES ASSUME TypeOK, TurnOrderKept, [Next]_vars PROVE TurnOrderKept'
    OBVIOUS
  <2>1. CASE KeepsTurn
    BY <2>1 DEF KeepsTurn, TurnOrderKept, SeatOfTurn
  <2>2. CASE PassesTurn
    <3>1. NextPlayer(SeatOfTurn(turn)) = SeatOfTurn(turn + 1)
      BY SeatsRotate DEF TypeOK
    <3>2. QED
      BY <2>2, <3>1 DEF PassesTurn, TurnOrderKept, SeatOfTurn
  <2>3. QED
    BY <2>1, <2>2, StepOfTurn
<1>3. QED
  BY <1>1, <1>2, TypeCorrect, PTL DEF Spec

-----------------------------------------------------------------------------
(* The final round.                                                        *)

\* The metadata of the final round never goes missing and is never left over.
THEOREM MetadataIsThere == Spec => []FinalRoundMetadata
<1>1. Init => FinalRoundMetadata
  BY PlayersAssumption DEF Init, FinalRoundMetadata
<1>2. TypeOK /\ FinalRoundMetadata /\ [Next]_vars => FinalRoundMetadata'
  <2> SUFFICES ASSUME TypeOK, FinalRoundMetadata, [Next]_vars PROVE FinalRoundMetadata'
    OBVIOUS
  <2>1. CASE UNCHANGED endMetadata
    BY <2>1 DEF endMetadata, FinalRoundMetadata
  <2>2. CASE KeepsTurn /\ ~UNCHANGED endMetadata
    BY <2>2 DEF KeepsTurn, FinalRoundMetadata, TypeOK
  <2>3. QED
    BY <2>1, <2>2, StepOfTurn DEF PassesTurn
<1>3. QED
  BY <1>1, <1>2, TypeCorrect, PTL DEF Spec

\* Everyone else has exactly one more turn after the final round starts.
THEOREM EveryoneHasALastTurn == Spec => []LastTurnForEveryone
<1>1. Init => LastTurnForEveryone
  BY DEF Init, LastTurnForEveryone
<1>2. /\ TypeOK /\ TurnOrderKept /\ FinalRoundMetadata
      /\ LastTurnForEveryone /\ [Next]_vars
      => LastTurnForEveryone'
  <2> SUFFICES ASSUME TypeOK, TurnOrderKept, FinalRoundMetadata, LastTurnForEveryone,
                      [Next]_vars
               PROVE  LastTurnForEveryone'
    OBVIOUS
  <2>1. CASE KeepsTurn /\ UNCHANGED endMetadata
    BY <2>1 DEF KeepsTurn, endMetadata, LastTurnForEveryone, SeatOfTurn
  <2>2. CASE KeepsTurn /\ ~UNCHANGED endMetadata
    <3>1. /\ status' = "IN_PROGRESS" /\ turn' = turn
          /\ endTriggeredAtTurn' = turn /\ endTriggeredBy' = currentPlayer
      BY <2>2 DEF KeepsTurn
    <3>2. currentPlayer = SeatOfTurn(turn) /\ turn \in Nat
      BY DEF TurnOrderKept, TypeOK
    <3>3. turn - turn \in 0 .. PlayerCount - 1
      BY <3>2, SeatsAreSeats
    <3>4. QED
      BY <3>1, <3>2, <3>3 DEF LastTurnForEveryone, SeatOfTurn
  <2>3. CASE PassesTurn /\ ~finalRound
    BY <2>3 DEF PassesTurn, endMetadata, LastTurnForEveryone
  <2>4. CASE PassesTurn /\ finalRound
    <3> DEFINE d == turn - endTriggeredAtTurn
    <3>1. /\ endTriggeredAtTurn \in Nat \ {0}
          /\ endTriggeredBy = SeatOfTurn(endTriggeredAtTurn)
          /\ d \in 0 .. PlayerCount - 1
          /\ turn = endTriggeredAtTurn + d
      BY <2>4, SeatsAreSeats
      DEF PassesTurn, FinalRoundMetadata, LastTurnForEveryone, TypeOK
    <3> HIDE DEF d
    <3>2. NextPlayer(currentPlayer) = SeatOfTurn(endTriggeredAtTurn + (d + 1))
      <4>1. turn + 1 = endTriggeredAtTurn + (d + 1)
        BY <3>1
      <4>2. turn \in Nat \ {0} /\ currentPlayer = SeatOfTurn(turn)
        BY DEF TurnOrderKept, TypeOK
      <4>3. QED
        BY <4>1, <4>2, SeatsRotate
    <3>3. NextPlayer(currentPlayer) = endTriggeredBy <=> d + 1 = PlayerCount
      <4>1. d + 1 \in 1 .. PlayerCount
        BY <3>1, SeatsAreSeats
      <4>2. SeatOfTurn(endTriggeredAtTurn + (d + 1)) = SeatOfTurn(endTriggeredAtTurn)
            <=> d + 1 = PlayerCount
        BY <3>1, <4>1, SeatsRepeatEachRound
      <4>3. QED
        BY <3>1, <3>2, <4>2
    <3>4. status' = IF d + 1 = PlayerCount THEN "ENDED" ELSE "IN_PROGRESS"
      BY <2>4, <3>3 DEF PassesTurn, ShouldEndGame
    <3>5. endTriggeredBy' = endTriggeredBy /\ endTriggeredAtTurn' = endTriggeredAtTurn
          /\ turn' = turn + 1
      BY <2>4 DEF PassesTurn, endMetadata
    <3>6. QED
      BY <3>1, <3>4, <3>5, SeatsAreSeats DEF LastTurnForEveryone, SeatOfTurn
  <2>5. QED
    BY <2>1, <2>2, <2>3, <2>4, StepOfTurn
<1>3. QED
  BY <1>1, <1>2, TypeCorrect, TurnOrderIsKept, MetadataIsThere, PTL DEF Spec

\* The final round starts once, and an ended game is never changed again.
THEOREM FinalRoundStartsOnlyOnce == Spec => FinalRoundStartsOnce
<1>1. /\ TypeOK /\ [Next]_vars
      => [/\ finalRound => finalRound' /\ UNCHANGED <<endTriggeredAtTurn, endTriggeredBy>>
          /\ status = "ENDED" => UNCHANGED vars]_vars
  <2> SUFFICES ASSUME TypeOK, Next
               PROVE  /\ finalRound => finalRound'
                                       /\ UNCHANGED <<endTriggeredAtTurn, endTriggeredBy>>
                      /\ status # "ENDED"
    OBVIOUS
  <2>1. status # "ENDED"
    BY DEF Next, MayAct, TakeTokens, ReserveOpenCard, ReserveDeckTop, Reserve,
           BuyOpenCard, BuyReservedCard, Purchase, EndTurn, EndGame
  <2>2. CASE UNCHANGED endMetadata
    BY <2>1, <2>2 DEF endMetadata
  <2>3. CASE KeepsTurn /\ ~finalRound
    BY <2>1, <2>3
  <2>4. QED
    BY <2>2, <2>3, StepOfTurn DEF KeepsTurn, PassesTurn
<1>2. QED
  BY <1>1, TypeCorrect, PTL DEF Spec, FinalRoundStartsOnce


-----------------------------------------------------------------------------
(* The market.                                                             *)

\* A slot that is freed is filled from the deck, if the deck has a card.
LEMMA RefillKeepsSlots ==
  ASSUME TypeOK, MarketRefilled, NEW p \in Players, NEW t \in Tiers, NEW card \in Cards,
         TakesOpenCard(p, t, card)
  PROVE  \/ Cardinality(market'[t]) = MarketSize
         \/ AvailableDeckCards(t, market'[t], HeldCards') = {}
<1> DEFINE available == AvailableDeckCards(t, market[t] \ {card}, HeldCards \cup {card})
<1>1. card \in market[t] /\ HeldCards' = HeldCards \cup {card}
  BY GainGrowsHeld DEF TakesOpenCard
<1>2. PICK drawn \in Draws(available) : market'[t] = (market[t] \ {card}) \cup drawn
  BY DEF TakesOpenCard, RemoveOpenCardAndRefill, TypeOK
<1>3. available \subseteq AvailableDeckCards(t, market[t], HeldCards)
  BY <1>1 DEF AvailableDeckCards
<1>4. CASE available = {}
  <2>1. market'[t] = market[t] \ {card}
    BY <1>2, <1>4 DEF Draws
  <2>2. QED
    BY <1>1, <1>4, <2>1
<1>5. CASE available # {}
  <2>1. PICK c \in available : drawn = {c}
    BY <1>2, <1>5 DEF Draws
  <2>2. c \notin market[t] \ {card}
    BY DEF AvailableDeckCards
  <2>3. IsFiniteSet(market[t])
    BY CatalogAssumption, FS_Subset DEF TypeOK
  <2>4. /\ IsFiniteSet(market[t] \ {card})
        /\ Cardinality(market[t] \ {card}) = Cardinality(market[t]) - 1
    BY <1>1, <2>3, FS_RemoveElement
  <2>5. Cardinality((market[t] \ {card}) \cup {c}) = Cardinality(market[t]) - 1 + 1
    BY <2>2, <2>4, FS_AddElement
  <2>6. Cardinality(market[t]) = MarketSize
    BY <1>3, <1>5 DEF MarketRefilled
  <2>7. MarketSize \in Nat
    BY SetupAssumption
  <2>8. QED
    BY <1>2, <2>1, <2>5, <2>6, <2>7
<1>6. QED
  BY <1>4, <1>5

\* In a tier whose market stays as it is, the deck can only get smaller.
LEMMA OtherTiersKeepSlots ==
  ASSUME MarketRefilled, NEW u \in Tiers, market'[u] = market[u], HeldCards \subseteq HeldCards'
  PROVE  \/ Cardinality(market'[u]) = MarketSize
         \/ AvailableDeckCards(u, market'[u], HeldCards') = {}
BY DEF MarketRefilled, AvailableDeckCards

\* A slot of the market is empty only when the deck of its tier is exhausted,
\* for every catalogue and whichever card each draw turns up.
THEOREM MarketIsRefilled == Spec => []MarketRefilled
<1>1. Init => MarketRefilled
  <2> SUFFICES ASSUME Init, NEW t \in Tiers
               PROVE  \/ Cardinality(market[t]) = MarketSize
                      \/ AvailableDeckCards(t, market[t], HeldCards) = {}
    BY DEF MarketRefilled
  <2>1. market[t] = FaceUp[t]
    BY DEF Init
  <2>2. QED
    BY <2>1, SetupAssumption DEF AvailableDeckCards
<1>2. TypeOK /\ TypeOK' /\ MarketRefilled /\ [Next]_vars => MarketRefilled'
  <2> SUFFICES ASSUME TypeOK, TypeOK', MarketRefilled, [Next]_vars, NEW u \in Tiers
               PROVE  \/ Cardinality(market'[u]) = MarketSize
                      \/ AvailableDeckCards(u, market'[u], HeldCards') = {}
    BY DEF MarketRefilled
  <2>1. CASE HandsUnchanged /\ UNCHANGED market
    BY <2>1, UnchangedHeld, OtherTiersKeepSlots
  <2>2. ASSUME NEW p \in Players, NEW t \in Tiers, NEW card \in Cards,
               TakesOpenCard(p, t, card)
        PROVE  \/ Cardinality(market'[u]) = MarketSize
               \/ AvailableDeckCards(u, market'[u], HeldCards') = {}
    <3>1. CASE u = t
      BY <2>2, <3>1, RefillKeepsSlots
    <3>2. CASE u # t
      <4>1. market'[u] = market[u]
        BY <2>2, <3>2 DEF TakesOpenCard, RemoveOpenCardAndRefill, TypeOK
      <4>2. HeldCards \subseteq HeldCards'
        BY <2>2, GainGrowsHeld DEF TakesOpenCard
      <4>3. QED
        BY <4>1, <4>2, OtherTiersKeepSlots
    <3>3. QED
      BY <3>1, <3>2
  <2>3. ASSUME NEW p \in Players, NEW t \in Tiers, NEW card \in Cards,
               TakesDeckCard(p, t, card)
        PROVE  \/ Cardinality(market'[u]) = MarketSize
               \/ AvailableDeckCards(u, market'[u], HeldCards') = {}
    <3>1. market'[u] = market[u] /\ HeldCards \subseteq HeldCards'
      BY <2>3, GainGrowsHeld DEF TakesDeckCard
    <3>2. QED
      BY <3>1, OtherTiersKeepSlots
  <2>4. QED
    BY <2>1, <2>2, <2>3, StepMovesCards
<1>3. QED
  BY <1>1, <1>2, TypeCorrect, PTL DEF Spec

-----------------------------------------------------------------------------
(* Purchases.                                                              *)

\* What a purchase does to the books of p, and what else leaves them alone;
\* the end of the game writes down the scores the players have by then.
BooksUnchanged ==
  /\ UNCHANGED <<bonuses, purchased, nobles, openNobles>>
  /\ UNCHANGED score \/ score' = FinalScores
BuysNewCard(p, card) ==
  /\ card \notin purchased[p]
  /\ purchased' = [purchased EXCEPT ![p] = @ \cup {card}]
  /\ bonuses' = [bonuses EXCEPT ![p] = GainBonus(@, card)]
  /\ openNobles' = openNobles \ NobleVisit(bonuses'[p])
  /\ nobles' = [nobles EXCEPT ![p] = @ \cup NobleVisit(bonuses'[p])]
  /\ score' = [score EXCEPT ![p] = PlayerScore(purchased'[p], nobles'[p])]

LEMMA StepKeepsBooks ==
  ASSUME TypeOK, CardsInOnePlace, [Next]_vars
  PROVE  BooksUnchanged \/ \E p \in Players, card \in Cards : BuysNewCard(p, card)
<1>1. ASSUME NEW p \in Players, NEW t \in Tiers, NEW payment \in Payments,
             NEW card \in market[t], BuyOpenCard(p, t, card, payment)
      PROVE  card \in Cards /\ BuysNewCard(p, card)
  <2>1. card \in Cards
    BY DEF TypeOK
  <2>2. card \notin purchased[p]
    BY DEF CardsInOnePlace, MarketApart, HeldCards
  <2>3. QED
    BY <1>1, <2>1, <2>2 DEF BuyOpenCard, Purchase, ScoreAfterPurchase, BuysNewCard
<1>2. ASSUME NEW p \in Players, NEW payment \in Payments, NEW card \in reserved[p],
             BuyReservedCard(p, card, payment)
      PROVE  card \in Cards /\ BuysNewCard(p, card)
  <2>1. card \in Cards
    BY DEF TypeOK
  <2>2. card \notin purchased[p]
    BY DEF CardsInOnePlace, HandsApart
  <2>3. QED
    BY <1>2, <2>1, <2>2 DEF BuyReservedCard, Purchase, ScoreAfterPurchase, BuysNewCard
<1>3. ASSUME NEW p \in Players, NEW card, NEW takeGold, NEW returned,
             Reserve(p, card, takeGold, returned)
      PROVE  BooksUnchanged
  BY <1>3 DEF Reserve, BooksUnchanged
<1>4. ASSUME NEW p \in Players,
             \/ \E requested \in Requests, returned \in Returns :
                  TakeTokens(p, requested, returned)
             \/ EndTurn(p)
             \/ EndGame(p)
      PROVE  BooksUnchanged
  BY <1>4 DEF TakeTokens, EndTurn, EndGame, boardVars, playerVars, BooksUnchanged
<1>5. CASE UNCHANGED vars
  BY <1>5 DEF vars, boardVars, playerVars, BooksUnchanged
<1>6. QED
  BY <1>1, <1>2, <1>3, <1>4, <1>5 DEF Next, ReserveOpenCard, ReserveDeckTop

LEMMA BuyingCountsBonus ==
  ASSUME TypeOK, BonusesMatchPurchases, NEW p \in Players, NEW card \in Cards,
         BuysNewCard(p, card), NEW q \in Players, NEW c \in GemColors
  PROVE  bonuses'[q][c] = Cardinality({d \in purchased'[q] : CardBonus[d] = c})
<1> DEFINE Giving(cards) == {d \in cards : CardBonus[d] = c}
<1>1. bonuses[q][c] = Cardinality(Giving(purchased[q])) /\ bonuses[q][c] \in Nat
  BY DEF BonusesMatchPurchases, TypeOK
<1>2. CASE q # p
  BY <1>1, <1>2 DEF BuysNewCard, TypeOK
<1>3. CASE q = p
  <2>1. purchased'[p] = purchased[p] \cup {card} /\ bonuses'[p] = GainBonus(bonuses[p], card)
    BY DEF BuysNewCard, TypeOK
  <2>2. CASE CardBonus[card] = c
    <3>1. Giving(purchased'[p]) = Giving(purchased[p]) \cup {card}
      BY <2>1, <2>2
    <3>2. IsFiniteSet(Giving(purchased[p]))
      <4>1. Giving(purchased[p]) \subseteq Cards
        BY DEF TypeOK
      <4>2. QED
        BY <4>1, CatalogAssumption, FS_Subset
    <3>3. card \notin Giving(purchased[p])
      BY DEF BuysNewCard
    <3>4. Cardinality(Giving(purchased[p]) \cup {card}) = Cardinality(Giving(purchased[p])) + 1
      BY <3>2, <3>3, FS_AddElement
    <3>5. bonuses'[p][c] = bonuses[p][c] + 1
      BY <2>1, <2>2 DEF GainBonus, TypeOK
    <3>6. QED
      BY <1>1, <1>3, <3>1, <3>4, <3>5
  <2>3. CASE CardBonus[card] # c
    <3>1. Giving(purchased'[p]) = Giving(purchased[p])
      BY <2>1, <2>3
    <3>2. bonuses'[p][c] = bonuses[p][c]
      BY <2>1, <2>3 DEF GainBonus, TypeOK
    <3>3. QED
      BY <1>1, <1>3, <3>1, <3>2
  <2>4. QED
    BY <2>2, <2>3
<1>4. QED
  BY <1>2, <1>3

\* The bonus counters, only ever incremented, count the cards a player bought.
THEOREM BonusesCountPurchases == Spec => []BonusesMatchPurchases
<1>1. Init => BonusesMatchPurchases
  <2> SUFFICES ASSUME Init, NEW p \in Players, NEW c \in GemColors
               PROVE  bonuses[p][c] = Cardinality({d \in purchased[p] : CardBonus[d] = c})
    BY DEF BonusesMatchPurchases
  <2>1. {d \in purchased[p] : CardBonus[d] = c} = {}
    BY DEF Init
  <2>2. QED
    BY <2>1, FS_EmptySet DEF Init
<1>2. TypeOK /\ CardsInOnePlace /\ BonusesMatchPurchases /\ [Next]_vars
        => BonusesMatchPurchases'
  <2> SUFFICES ASSUME TypeOK, CardsInOnePlace, BonusesMatchPurchases, [Next]_vars,
                      NEW q \in Players, NEW c \in GemColors
               PROVE  bonuses'[q][c] = Cardinality({d \in purchased'[q] : CardBonus[d] = c})
    BY DEF BonusesMatchPurchases
  <2>1. CASE BooksUnchanged
    BY <2>1 DEF BooksUnchanged, BonusesMatchPurchases
  <2>2. CASE \E p \in Players, card \in Cards : BuysNewCard(p, card)
    BY <2>2, BuyingCountsBonus
  <2>3. QED
    BY <2>1, <2>2, StepKeepsBooks
<1>3. QED
  BY <1>1, <1>2, TypeCorrect, CardsStayInOnePlace, PTL DEF Spec

LEMMA BuyingKeepsNobles ==
  ASSUME TypeOK, NoblesEarned, NEW p \in Players, NEW card \in Cards, BuysNewCard(p, card)
  PROVE  NoblesEarned'
<1> DEFINE visiting == NobleVisit(bonuses'[p])
<1>1. visiting \subseteq openNobles
  BY NobleVisitFromBoard
<1>2. \A n \in visiting : IsEligibleForNoble(bonuses'[p], n)
  BY DEF NobleVisit
<1>3. \A q \in Players, c \in GemColors : bonuses'[q][c] >= bonuses[q][c]
  BY DEF BuysNewCard, GainBonus, TypeOK
<1>4. /\ openNobles' = openNobles \ visiting
      /\ nobles'[p] = nobles[p] \cup visiting
      /\ \A q \in Players \ {p} : nobles'[q] = nobles[q]
  BY DEF BuysNewCard, TypeOK
<1>5. \A q \in Players : \A n \in nobles[q] : IsEligibleForNoble(bonuses'[q], n)
  <2> SUFFICES ASSUME NEW q \in Players, NEW n \in nobles[q], NEW c \in GemColors
               PROVE  bonuses'[q][c] >= NobleRequirement[n][c]
    BY DEF IsEligibleForNoble
  <2>1. bonuses[q][c] >= NobleRequirement[n][c]
    BY DEF NoblesEarned, IsEligibleForNoble
  <2>2. NobleRequirement[n][c] \in Nat
    BY CatalogAssumption DEF TypeOK
  <2>3. bonuses[q][c] \in Nat /\ bonuses'[q][c] \in Nat
    BY CatalogAssumption DEF BuysNewCard, GainBonus, TypeOK
  <2>4. QED
    BY <1>3, <2>1, <2>2, <2>3
<1> HIDE DEF visiting
<1>6. \A q \in Players : nobles'[q] \cap openNobles' = {}
  BY <1>1, <1>4 DEF NoblesEarned
<1>7. \A q \in Players : \A r \in Players \ {q} : nobles'[q] \cap nobles'[r] = {}
  BY <1>1, <1>4 DEF NoblesEarned
<1>8. \A q \in Players : \A n \in nobles'[q] : IsEligibleForNoble(bonuses'[q], n)
  BY <1>2, <1>4, <1>5
<1>9. QED
  BY <1>6, <1>7, <1>8 DEF NoblesEarned, IsEligibleForNoble

\* A noble is in one place, and its owner never falls below what it asked for.
THEOREM NoblesAreEarned == Spec => []NoblesEarned
<1>1. Init => NoblesEarned
  BY DEF Init, NoblesEarned
<1>2. TypeOK /\ CardsInOnePlace /\ NoblesEarned /\ [Next]_vars => NoblesEarned'
  <2> SUFFICES ASSUME TypeOK, CardsInOnePlace, NoblesEarned, [Next]_vars
               PROVE  NoblesEarned'
    OBVIOUS
  <2>1. CASE BooksUnchanged
    BY <2>1 DEF BooksUnchanged, NoblesEarned, IsEligibleForNoble
  <2>2. CASE \E p \in Players, card \in Cards : BuysNewCard(p, card)
    BY <2>2, BuyingKeepsNobles
  <2>3. QED
    BY <2>1, <2>2, StepKeepsBooks
<1>3. QED
  BY <1>1, <1>2, TypeCorrect, CardsStayInOnePlace, PTL DEF Spec

\* The market, the bonus counters and the nobles are all in order, for every
\* catalogue, every setup and every sequence of commands.
THEOREM BoardIsKept == Spec => []BoardKept
<1>1. TypeOK /\ MarketRefilled /\ BonusesMatchPurchases /\ NoblesEarned => BoardKept
  BY DEF BoardKept
<1>2. QED
  BY <1>1, TypeCorrect, MarketIsRefilled, BonusesCountPurchases, NoblesAreEarned, PTL

-----------------------------------------------------------------------------
(* Scores.                                                                 *)

Points(cards) == MapThenSumSet(LAMBDA c : CardPoints[c], cards)

LEMMA PointsAreAFold ==
  ASSUME NEW cards
  PROVE  Points(cards) = Sum!Fold(CardPoints, cards)
BY DEF Points, MapThenSumSet, MapThenFoldSet, Sum!Fold, Sum!MapThenFoldSet, Any, Plus

\* Each further card adds its points.
LEMMA PointsOfCards ==
  ASSUME NEW cards \in SUBSET Cards
  PROVE  /\ Points({}) = 0
         /\ Points(cards) \in Nat
         /\ \A c \in Cards \ cards : Points(cards \cup {c}) = CardPoints[c] + Points(cards)
<1>1. /\ Sum!IsFiniteSet(cards) /\ Sum!Chooses(cards)
      /\ Sum!IsFiniteSet({}) /\ Sum!Chooses({})
      /\ \A c \in Cards : Sum!IsFiniteSet(cards \cup {c}) /\ Sum!Chooses(cards \cup {c})
  <2>1. IsFiniteSet(cards) /\ IsFiniteSet({})
    BY CatalogAssumption, FS_Subset, FS_EmptySet
  <2>2. \A c \in Cards : IsFiniteSet(cards \cup {c})
    BY <2>1, FS_AddElement
  <2>3. \A S : Sum!Chooses(S)
    BY DEF Sum!Chooses, Any
  <2>4. \A S : IsFiniteSet(S) => Sum!IsFiniteSet(S)
    BY DEF IsFiniteSet, Sum!IsFiniteSet
  <2>5. QED
    BY <2>1, <2>2, <2>3, <2>4
<1>2. \A c \in Cards : CardPoints[c] \in Nat
  BY CatalogAssumption
<1>3. Sum!Fold(CardPoints, {}) = 0
  BY <1>1, Sum!FoldStep
<1>4. Sum!Fold(CardPoints, cards) \in Nat
  <2>1. Sum!Swappable(CardPoints, cards, Nat)
    BY <1>2 DEF Sum!Swappable, Plus
  <2>2. QED
    BY <1>1, <2>1, Sum!FoldInAnyOrder
<1>5. ASSUME NEW c \in Cards \ cards
      PROVE  Sum!Fold(CardPoints, cards \cup {c}) = CardPoints[c] + Sum!Fold(CardPoints, cards)
  <2>1. cards \cup {c} \subseteq Cards /\ (cards \cup {c}) \ {c} = cards
    OBVIOUS
  <2>2. Sum!Fold(CardPoints, cards \cup {c})
          = Plus(CardPoints[c], Sum!Fold(CardPoints, (cards \cup {c}) \ {c}))
    <3>1. Sum!Swappable(CardPoints, cards \cup {c}, Nat)
      BY <1>2, <2>1 DEF Sum!Swappable, Plus
    <3>2. QED
      BY <1>1, <3>1, Sum!FoldInAnyOrder
  <2>3. QED
    BY <2>1, <2>2 DEF Plus
<1>6. QED
  BY <1>3, <1>4, <1>5, PointsAreAFold

\* A score is a natural number, and more cards and nobles score no less.
LEMMA ScoresAdd ==
  ASSUME NEW cards \in SUBSET Cards, NEW nobleIds \in SUBSET Nobles
  PROVE  /\ PlayerScore({}, {}) = 0
         /\ PlayerScore(cards, nobleIds) \in Nat
         /\ \A c \in Cards \ cards, more \in SUBSET Nobles :
              PlayerScore(cards \cup {c}, nobleIds \cup more) >= PlayerScore(cards, nobleIds)
<1>1. \A ids \in SUBSET Nobles : IsFiniteSet(ids) /\ Cardinality(ids) \in Nat
  BY CatalogAssumption, FS_Subset, FS_CardinalityType
<1>2. \A S, T : PlayerScore(S, T) = Points(S) + NoblePoints * Cardinality(T)
  BY DEF PlayerScore, Points
<1>3. NoblePoints \in Nat
  BY CatalogAssumption
<1>4. \A k \in Nat : NoblePoints * k \in Nat
  BY <1>3
<1>5. \A k, m \in Nat : k <= m => NoblePoints * k <= NoblePoints * m
  BY <1>3
<1>6. ASSUME NEW more \in SUBSET Nobles
      PROVE  Cardinality(nobleIds) <= Cardinality(nobleIds \cup more)
  BY <1>1, FS_Subset
<1>7. Cardinality({}) = 0
  BY FS_EmptySet
<1>8. NoblePoints * 0 = 0
  BY <1>3
<1>9. ASSUME NEW c \in Cards \ cards, NEW more \in SUBSET Nobles
      PROVE  PlayerScore(cards \cup {c}, nobleIds \cup more) >= PlayerScore(cards, nobleIds)
  <2>1. Points(cards \cup {c}) >= Points(cards) /\ Points(cards \cup {c}) \in Nat
    BY PointsOfCards, CatalogAssumption
  <2>2. nobleIds \cup more \in SUBSET Nobles
    OBVIOUS
  <2>3. NoblePoints * Cardinality(nobleIds) <= NoblePoints * Cardinality(nobleIds \cup more)
    BY <1>1, <1>5, <1>6, <2>2
  <2>4. QED
    BY <1>1, <1>2, <1>4, <2>1, <2>2, <2>3, PointsOfCards
<1>10. PlayerScore({}, {}) = 0
  BY <1>2, <1>7, <1>8, PointsOfCards
<1>11. PlayerScore(cards, nobleIds) \in Nat
  BY <1>1, <1>2, <1>4, PointsOfCards
<1>12. QED
  BY <1>9, <1>10, <1>11

LEMMA ScoresAreNatural ==
  ASSUME TypeOK
  PROVE  score \in [Players -> Nat]
<1>1. ScoreValues \subseteq Nat
  BY ScoresAdd DEF ScoreValues
<1>2. QED
  BY <1>1 DEF TypeOK

\* The stored score, written when a card is bought and when the game ends, is
\* that of the cards and nobles of the player in every state.
THEOREM ScoresAreCurrent == Spec => []ScoresCurrent
<1>1. Init => ScoresCurrent
  BY ScoresAdd DEF Init, ScoresCurrent, FinalScores
<1>2. TypeOK /\ CardsInOnePlace /\ ScoresCurrent /\ [Next]_vars => ScoresCurrent'
  <2> SUFFICES ASSUME TypeOK, CardsInOnePlace, ScoresCurrent, [Next]_vars
               PROVE  ScoresCurrent'
    OBVIOUS
  <2>1. CASE BooksUnchanged
    BY <2>1 DEF BooksUnchanged, ScoresCurrent, FinalScores
  <2>2. ASSUME NEW p \in Players, NEW card \in Cards, BuysNewCard(p, card)
        PROVE  ScoresCurrent'
    BY <2>2 DEF BuysNewCard, ScoresCurrent, FinalScores, TypeOK
  <2>3. QED
    BY <2>1, <2>2, StepKeepsBooks
<1>3. QED
  BY <1>1, <1>2, TypeCorrect, CardsStayInOnePlace, PTL DEF Spec

\* Points are only ever gained, and by the player who buys.
LEMMA StepKeepsScores ==
  ASSUME TypeOK, CardsInOnePlace, ScoresCurrent, [Next]_vars
  PROVE  \/ UNCHANGED score
         \/ \E p \in Players : /\ score' = [score EXCEPT ![p] = score'[p]]
                               /\ score'[p] \in Nat /\ score'[p] >= score[p]
<1>1. ASSUME NEW p \in Players, NEW card \in Cards, BuysNewCard(p, card)
      PROVE  /\ score' = [score EXCEPT ![p] = score'[p]]
             /\ score'[p] \in Nat /\ score'[p] >= score[p]
  <2>1. purchased[p] \in SUBSET Cards /\ nobles[p] \in SUBSET Nobles
    BY DEF TypeOK
  <2>2. NobleVisit(bonuses'[p]) \in SUBSET Nobles
    BY NobleVisitFromBoard DEF TypeOK
  <2>3. /\ purchased'[p] = purchased[p] \cup {card}
        /\ nobles'[p] = nobles[p] \cup NobleVisit(bonuses'[p])
        /\ card \in Cards \ purchased[p]
    BY <1>1 DEF BuysNewCard, TypeOK
  <2>4. /\ score'[p] = PlayerScore(purchased'[p], nobles'[p])
        /\ score[p] = PlayerScore(purchased[p], nobles[p])
        /\ score' = [score EXCEPT ![p] = score'[p]]
    BY <1>1 DEF BuysNewCard, TypeOK, ScoresCurrent, FinalScores
  <2>5. PlayerScore(purchased'[p], nobles'[p]) >= PlayerScore(purchased[p], nobles[p])
    BY <2>1, <2>2, <2>3, ScoresAdd
  <2>6. PlayerScore(purchased'[p], nobles'[p]) \in Nat
    BY <2>1, <2>2, <2>3, ScoresAdd
  <2>7. QED
    BY <2>4, <2>5, <2>6
<1>2. CASE BooksUnchanged
  BY <1>2 DEF BooksUnchanged, ScoresCurrent
<1>3. QED
  BY <1>1, <1>2, StepKeepsBooks

\* What a command may do to the scores and to the final round together.
PurchaseTriggers(p) ==
  IF TriggersFinalRound(score'[p])
  THEN finalRound' = TRUE /\ endTriggeredBy' = p
  ELSE UNCHANGED <<finalRound, endTriggeredBy>>

LEMMA StepTriggersFinalRound ==
  ASSUME TypeOK, ScoresCurrent, [Next]_vars
  PROVE  \/ UNCHANGED <<score, finalRound, endTriggeredBy>>
         \/ \E p \in Players : /\ score' = [score EXCEPT ![p] = score'[p]]
                               /\ PurchaseTriggers(p)
<1>1. ASSUME NEW p \in Players, NEW card, NEW payment, Purchase(p, card, payment)
      PROVE  score' = [score EXCEPT ![p] = score'[p]] /\ PurchaseTriggers(p)
  <2>1. score' = [score EXCEPT ![p] = score'[p]]
    BY <1>1 DEF Purchase, TypeOK
  <2>2. PurchaseTriggers(p)
    BY <1>1 DEF Purchase, PurchaseTriggers
  <2>3. QED
    BY <2>1, <2>2
<1>2. ASSUME NEW p \in Players, EndGame(p)
      PROVE  UNCHANGED <<score, finalRound, endTriggeredBy>>
  BY <1>2 DEF EndGame, ScoresCurrent
<1>3. ASSUME NEW p \in Players,
             \/ \E requested \in Requests, returned \in Returns :
                  TakeTokens(p, requested, returned)
             \/ EndTurn(p)
             \/ \E card, takeGold, returned : Reserve(p, card, takeGold, returned)
      PROVE  UNCHANGED <<score, finalRound, endTriggeredBy>>
  BY <1>3 DEF TakeTokens, EndTurn, Reserve, endVars, playerVars
<1>4. CASE UNCHANGED vars
  BY <1>4 DEF vars, endVars, playerVars
<1>5. QED
  BY <1>1, <1>2, <1>3, <1>4
  DEF Next, BuyOpenCard, BuyReservedCard, ReserveOpenCard, ReserveDeckTop

\* The final round has started exactly when somebody has the target score,
\* and whoever started it has that score.
THEOREM FinalRoundIsRecorded == Spec => []FinalRoundRecorded
<1> DEFINE Reached == /\ finalRound <=> \E p \in Players : score[p] >= TargetScore
                      /\ finalRound => /\ endTriggeredBy \in Players
                                       /\ score[endTriggeredBy] >= TargetScore
<1>1. Init => Reached
  BY SetupAssumption DEF Init
<1>2. TypeOK /\ CardsInOnePlace /\ ScoresCurrent /\ Reached /\ [Next]_vars => Reached'
  <2> SUFFICES ASSUME TypeOK, CardsInOnePlace, ScoresCurrent, Reached, [Next]_vars
               PROVE  Reached'
    OBVIOUS
  <2>1. CASE UNCHANGED <<score, finalRound, endTriggeredBy>>
    BY <2>1
  <2>2. ASSUME NEW p \in Players, score' = [score EXCEPT ![p] = score'[p]], PurchaseTriggers(p)
        PROVE  Reached'
    <3>1. score \in [Players -> Nat] /\ TargetScore \in Nat
      BY ScoresAreNatural, SetupAssumption
    <3>2. \A q \in Players : score'[q] \in Nat /\ score'[q] >= score[q]
                             /\ (q # p => score'[q] = score[q])
      BY <2>2, <3>1, StepKeepsScores
    <3>3. CASE finalRound
      <4>1. UNCHANGED <<finalRound, endTriggeredBy>>
        BY <2>2, <3>3 DEF PurchaseTriggers, TriggersFinalRound
      <4>2. score'[endTriggeredBy] >= TargetScore
        BY <3>1, <3>2, <3>3
      <4>3. QED
        BY <3>3, <4>1, <4>2
    <3>4. CASE ~finalRound /\ score'[p] >= TargetScore
      BY <2>2, <3>4 DEF PurchaseTriggers, TriggersFinalRound
    <3>5. CASE ~finalRound /\ ~(score'[p] >= TargetScore)
      <4>1. UNCHANGED <<finalRound, endTriggeredBy>>
        BY <2>2, <3>5 DEF PurchaseTriggers, TriggersFinalRound
      <4>2. \A q \in Players : ~(score'[q] >= TargetScore)
        BY <3>1, <3>2, <3>5
      <4>3. QED
        BY <3>5, <4>1, <4>2
    <3>6. QED
      BY <3>3, <3>4, <3>5
  <2>3. QED
    BY <2>1, <2>2, StepTriggersFinalRound
<1>3. Reached /\ FinalRoundMetadata => FinalRoundRecorded
  BY DEF FinalRoundRecorded
<1> HIDE DEF Reached
<1>4. QED
  BY <1>1, <1>2, <1>3, TypeCorrect, CardsStayInOnePlace, ScoresAreCurrent, MetadataIsThere, PTL
  DEF Spec

-----------------------------------------------------------------------------
(* The winners.                                                            *)

LEMMA PlayersAreFinite == IsFiniteSet(Players)
<1> DEFINE f == [i \in 1 .. PlayerCount |-> PlayerOrder[i]]
<1>1. IsFiniteSet(1 .. PlayerCount)
  <2>1. 1 \in Int /\ PlayerCount \in Int
    BY SeatsAreSeats
  <2>2. QED
    BY <2>1, FS_Interval
<1>2. f \in Surjection(1 .. PlayerCount, Players)
  BY DEF Surjection, Players
<1>3. QED
  BY <1>1, <1>2, FS_Surjection

LEMMA SomebodyHasMost ==
  ASSUME NEW f \in [Players -> Int], NEW S \in SUBSET Players, S # {}
  PROVE  \E p \in S : \A q \in S : f[q] <= f[p]
<1>1. Sum!IsFiniteSet(Players)
  BY PlayersAreFinite DEF IsFiniteSet, Sum!IsFiniteSet
<1>2. QED
  BY <1>1, Sum!OneHasMost

\* resolveGameWinners returns the players nobody finishes ahead of, and there
\* is always one.
LEMMA WinnersAreUnbeaten ==
  ASSUME TypeOK
  PROVE  /\ ResolveGameWinners(score) = {p \in Players : \A q \in Players : ~Beats(q, p)}
         /\ ResolveGameWinners(score) # {}
<1> DEFINE cards == [p \in Players |-> Cardinality(purchased[p])]
           few == [p \in Players |-> -cards[p]]
<1>1. score \in [Players -> Nat]
  BY ScoresAreNatural
<1>2. cards \in [Players -> Nat]
  BY CatalogAssumption, FS_Subset, FS_CardinalityType DEF TypeOK
<1>3. few \in [Players -> Int]
  <2> HIDE DEF cards
  <2> QED
    BY <1>2
<1>4. \A p, q \in Players : Beats(p, q) <=> \/ score[p] > score[q]
                                            \/ score[p] = score[q] /\ cards[p] < cards[q]
  BY DEF Beats
<1>5. \A p \in Players : p \in ResolveGameWinners(score)
        <=> /\ p \in TopScorePlayers(score)
            /\ \A q \in TopScorePlayers(score) : cards[p] <= cards[q]
  BY DEF ResolveGameWinners, TopScorePlayers
<1>6. \A p \in Players : few[p] = -cards[p]
  OBVIOUS
<1> HIDE DEF cards, few
<1>7. \A p \in Players : p \in ResolveGameWinners(score) <=> \A q \in Players : ~Beats(q, p)
  BY <1>1, <1>2, <1>4, <1>5 DEF TopScorePlayers
<1>8. TopScorePlayers(score) # {}
  <2>1. Players # {}
    BY SeatsAreSeats
  <2>2. score \in [Players -> Int]
    BY <1>1
  <2>3. QED
    BY <2>1, <2>2, SomebodyHasMost DEF TopScorePlayers
<1>9. \E p \in TopScorePlayers(score) : \A q \in TopScorePlayers(score) : few[q] <= few[p]
  <2>1. TopScorePlayers(score) \in SUBSET Players
    BY DEF TopScorePlayers
  <2>2. QED
    BY <1>3, <1>8, <2>1, SomebodyHasMost
<1>10. ResolveGameWinners(score) # {}
  <2>1. PICK p \in TopScorePlayers(score) : \A q \in TopScorePlayers(score) : few[q] <= few[p]
    BY <1>9
  <2>2. p \in Players /\ TopScorePlayers(score) \subseteq Players
    BY DEF TopScorePlayers
  <2>3. \A q \in TopScorePlayers(score) : cards[p] <= cards[q]
    BY <1>2, <1>6, <2>1, <2>2
  <2>4. QED
    BY <1>5, <2>2, <2>3
<1>11. ResolveGameWinners(score) \subseteq Players
  BY DEF ResolveGameWinners, TopScorePlayers
<1>12. QED
  BY <1>7, <1>10, <1>11

\* An ended game has winners, exactly those whom nobody finished ahead of.
THEOREM WinnersAreRight == Spec => []WinnersUnbeaten
<1>1. Init => WinnersUnbeaten
  BY DEF Init, WinnersUnbeaten
<1>2. TypeOK /\ ScoresCurrent /\ WinnersUnbeaten /\ [Next]_vars => WinnersUnbeaten'
  <2> SUFFICES ASSUME TypeOK, ScoresCurrent, WinnersUnbeaten, [Next]_vars
               PROVE  WinnersUnbeaten'
    OBVIOUS
  <2>1. CASE UNCHANGED vars
    BY <2>1 DEF vars, progressVars, endVars, playerVars, WinnersUnbeaten, Beats
  <2>2. ASSUME NEW p \in Players, EndGame(p)
        PROVE  WinnersUnbeaten'
    <3>1. /\ status' = "ENDED" /\ score' = score /\ purchased' = purchased
          /\ winners' = ResolveGameWinners(score)
      BY <2>2 DEF EndGame, ScoresCurrent
    <3>2. QED
      BY <3>1, WinnersAreUnbeaten DEF WinnersUnbeaten, Beats
  <2>3. CASE status = "IN_PROGRESS" /\ UNCHANGED <<status, winners>>
    BY <2>3 DEF WinnersUnbeaten
  <2>4. ASSUME Next, \A p \in Players : ~EndGame(p)
        PROVE  status = "IN_PROGRESS" /\ UNCHANGED <<status, winners>>
    BY <2>4 DEF Next, TakeTokens, ReserveOpenCard, ReserveDeckTop, Reserve, BuyOpenCard,
                BuyReservedCard, Purchase, EndTurn, MayAct, endVars
  <2>5. QED
    BY <2>1, <2>2, <2>3, <2>4
<1>3. QED
  BY <1>1, <1>2, TypeCorrect, ScoresAreCurrent, PTL DEF Spec

-----------------------------------------------------------------------------
(* Progress.                                                               *)

\* Whatever the player p has built up before a step is still there after it.
Keeps(p) ==
  /\ purchased[p] \subseteq purchased'[p]
  /\ nobles[p] \subseteq nobles'[p]
  /\ \A c \in GemColors : bonuses'[p][c] >= bonuses[p][c]

LEMMA StepKeepsBuilt ==
  ASSUME TypeOK, CardsInOnePlace, [Next]_vars, NEW q \in Players
  PROVE  Keeps(q)
<1>1. \A c \in GemColors : bonuses[q][c] \in Nat
  BY DEF TypeOK
<1>2. CASE BooksUnchanged
  BY <1>1, <1>2 DEF BooksUnchanged, Keeps
<1>3. ASSUME NEW p \in Players, NEW card \in Cards, BuysNewCard(p, card)
      PROVE  Keeps(q)
  <2>1. \A c \in GemColors : bonuses'[q][c] >= bonuses[q][c]
    BY <1>1, <1>3 DEF BuysNewCard, GainBonus, TypeOK
  <2>2. purchased[q] \subseteq purchased'[q] /\ nobles[q] \subseteq nobles'[q]
    BY <1>3 DEF BuysNewCard, TypeOK
  <2>3. QED
    BY <2>1, <2>2 DEF Keeps
<1>4. QED
  BY <1>2, <1>3, StepKeepsBooks

LEMMA StepKeepsReserve ==
  ASSUME TypeOK, [Next]_vars, NEW q \in Players
  PROVE  reserved[q] \subseteq reserved'[q] \cup purchased'[q]
<1>1. ASSUME NEW p \in Players, NEW card, NEW takeGold, NEW returned,
             Reserve(p, card, takeGold, returned)
      PROVE  reserved[q] \subseteq reserved'[q]
  BY <1>1 DEF Reserve, TypeOK
<1>2. ASSUME NEW p \in Players, NEW card, NEW payment, BuyReservedCard(p, card, payment)
      PROVE  reserved[q] \subseteq reserved'[q] \cup purchased'[q]
  BY <1>2 DEF BuyReservedCard, SpliceReserved, Purchase, TypeOK
<1>3. CASE UNCHANGED reserved
  BY <1>3
<1>4. QED
  BY <1>1, <1>2, <1>3 DEF Next, TakeTokens, ReserveOpenCard, ReserveDeckTop, BuyOpenCard,
     EndTurn, EndGame, vars, playerVars

\* Cards, bonuses, nobles and points are never lost again.
THEOREM ProgressIsKept == Spec => ProgressKept
<1>1. /\ TypeOK /\ CardsInOnePlace /\ ScoresCurrent /\ [Next]_vars
      => [\A p \in Players :
            /\ purchased[p] \subseteq purchased'[p]
            /\ nobles[p] \subseteq nobles'[p]
            /\ \A c \in GemColors : bonuses'[p][c] >= bonuses[p][c]
            /\ score'[p] >= score[p]
            /\ reserved[p] \subseteq reserved'[p] \cup purchased'[p]]_vars
  <2> SUFFICES ASSUME TypeOK, CardsInOnePlace, ScoresCurrent, [Next]_vars, NEW p \in Players
               PROVE  /\ Keeps(p)
                      /\ score'[p] >= score[p]
                      /\ reserved[p] \subseteq reserved'[p] \cup purchased'[p]
    BY DEF Keeps
  <2>1. score'[p] >= score[p]
    BY StepKeepsScores, ScoresAreNatural
  <2>2. QED
    BY <2>1, StepKeepsBuilt, StepKeepsReserve
<1>2. QED
  BY <1>1, TypeCorrect, CardsStayInOnePlace, ScoresAreCurrent, PTL DEF Spec, ProgressKept

-----------------------------------------------------------------------------
(* The event log: a game with its log is a game.                           *)

LEMMA HistoryStepIsStep == [HistoryNext]_historyVars => [Next]_vars
<1>1. UNCHANGED historyVars => UNCHANGED vars
  BY DEF historyVars
<1>2. HistoryNext => Next
  BY DEF HistoryNext, Next, LoggedTake, LoggedReserve, LoggedBuy, LoggedEndTurn
<1>3. QED
  BY <1>1, <1>2

\* Writing the log takes nothing away from the game and adds nothing to it.
THEOREM HistoryIsAGame == HistorySpec => Spec
BY HistoryStepIsStep, PTL DEF HistorySpec, HistoryInit, Spec

-----------------------------------------------------------------------------
(* Reading a log.                                                          *)

ReplayOf(q) == Sequence!FoldLeft(AfterEvent, NewGame, q)
EventAfter(e, g) == AfterEvent(g, e)
Last(indices) == Sequence!Max(indices)
Reading == INSTANCE FoldTheorems WITH Step <- EventAfter, Base <- NewGame, Choose <- Last

LEMMA ReplayIsAFold ==
  ASSUME NEW q
  PROVE  ReplayOf(q) = Reading!Fold(q, DOMAIN q)
BY DEF ReplayOf, Sequence!FoldLeft, Sequence!MapThenFoldSet, Reading!Fold, Reading!MapThenFoldSet,
       EventAfter, Last

\* One more event is applied to what the events before it tell.
LEMMA ReplayGrows ==
  ASSUME NEW S, NEW q \in Seq(S), NEW e \in S
  PROVE  ReplayOf(<<>>) = NewGame /\ ReplayOf(Append(q, e)) = AfterEvent(ReplayOf(q), e)
<1> DEFINE n == Len(q)
           r == Append(q, e)
<1>1. /\ n \in Nat /\ DOMAIN q = 1 .. n /\ DOMAIN r = 1 .. n + 1
      /\ r[n + 1] = e /\ \A i \in 1 .. n : r[i] = q[i]
      /\ DOMAIN <<>> = 1 .. 0
  OBVIOUS
<1>2. Reading!ChoosesLast(n + 1)
  <2>1. n + 1 \in Nat
    BY <1>1
  <2>2. \A T : Last(T) = CHOOSE i \in T : \A j \in T : i >= j
    BY DEF Last, Sequence!Max
  <2>3. QED
    BY <2>1, <2>2, Reading!LastOfSomeIndices
<1> HIDE DEF n, r
<1>3. /\ Reading!Fold(q, 1 .. 0) = NewGame
      /\ Reading!Fold(r, 1 .. n + 1) = EventAfter(r[n + 1], Reading!Fold(q, 1 .. n))
  BY <1>1, <1>2, Reading!FoldOfSequence
<1>4. Reading!Fold(<<>>, 1 .. 0) = NewGame
  BY <1>1, <1>2, Reading!FoldOfSequence
<1>5. QED
  BY <1>1, <1>3, <1>4, ReplayIsAFold DEF EventAfter, r

\* g has the fields of a game, and they are those of the state, but for the
\* tokens of the players: the events do not tell those.
Fields == {"status", "version", "turn", "current", "winners", "tokens", "bonuses",
           "reserved", "purchased", "score"}
SameCourse(g) ==
  /\ g.status = status /\ g.version = version /\ g.winners = winners
  /\ g.turn = turn /\ g.current = currentPlayer
SameCards(g) ==
  /\ g.bonuses = bonuses
  /\ g.reserved = reserved /\ g.purchased = purchased
  /\ g.score = score
Told(g) == DOMAIN g = Fields /\ SameCourse(g) /\ SameCards(g)

LEMMA NewGameIsTold ==
  ASSUME Init
  PROVE  Told(NewGame)
BY DEF Init, Told, SameCourse, SameCards, NewGame, Fields

LEMMA TakeIsTold ==
  ASSUME NEW g, Told(g), NEW p \in Players, NEW requested, NEW returned,
         TakeTokens(p, requested, returned), NEW h, h = AfterEvent(g, TokensTaken(p, requested))
  PROVE  Told(h)'
<1> DEFINE held == [g.tokens EXCEPT ![p] = WalletSum(g.tokens[p], AsTokens(requested))]
<1>1. h = [[g EXCEPT !.tokens = held] EXCEPT !.version = version + 1]
  BY DEF AfterEvent, AfterTokensTaken, TokensTaken, Event
<1> HIDE DEF held
<1>2. QED
  BY <1>1 DEF Told, Fields, SameCourse, SameCards, TakeTokens, endVars

LEMMA ReserveIsTold ==
  ASSUME TypeOK, NEW g, Told(g), NEW p \in Players, NEW card \in Cards, card \notin reserved[p],
         NEW kind, NEW t, NEW takeGold, NEW returned, Reserve(p, card, takeGold, returned),
         NEW h, h = AfterEvent(g, CardReserved(p, kind, t, takeGold))
  PROVE  Told(h)'
<1>1. reserved' = [reserved EXCEPT ![p] = @ \cup {card}] /\ reserved'[p] = reserved[p] \cup {card}
  BY DEF Reserve, TypeOK
<1>2. Reserved(p) = card
  BY <1>1 DEF Reserved
<1> DEFINE said == [targetKind |-> kind, card |-> card, tier |-> t,
                    grantedGold |-> ReservationGold(takeGold)["gold"] = 1]
<1>3. h = [AfterCardReserved(g, p, said) EXCEPT !.version = version + 1]
  BY <1>2 DEF AfterEvent, CardReserved, Event
<1>4. \E held : AfterCardReserved(g, p, said)
                  = [g EXCEPT !.reserved = [g.reserved EXCEPT ![p] = g.reserved[p] \cup {card}],
                              !.tokens = held]
  BY DEF AfterCardReserved
<1> HIDE DEF said
<1>5. PICK held : h = [[g EXCEPT !.reserved = reserved', !.tokens = held]
                         EXCEPT !.version = version + 1]
  BY <1>1, <1>3, <1>4 DEF Told, SameCards
<1>6. QED
  BY <1>5 DEF Told, Fields, SameCourse, SameCards, Reserve, endVars

LEMMA PurchaseIsTold ==
  ASSUME TypeOK, TypeOK', ScoresCurrent, NEW g, Told(g),
         NEW p \in Players, NEW card \in Cards, NEW payment, Purchase(p, card, payment),
         reserved' = [reserved EXCEPT ![p] = @ \ {card}],
         NEW h, h = AfterEvent(g, CardBought(p, card, payment))
  PROVE  Told(h)'
<1> DEFINE said == [card |-> card, spentTokens |-> payment, bonus |-> CardBonus[card],
                    scoreDelta |-> ScoreDelta(p, card)]
           held == [g.tokens EXCEPT ![p] = WalletDifference(g.tokens[p], payment)]
           gain == [bonuses[p] EXCEPT ![CardBonus[card]] = bonuses[p][CardBonus[card]] + 1]
<1>1. h = [AfterCardBought(g, p, said) EXCEPT !.version = version + 1]
  BY DEF AfterEvent, CardBought, Event
<1>2. purchased' = [purchased EXCEPT ![p] = @ \cup {card}]
  BY DEF Purchase
<1>3. bonuses' = [bonuses EXCEPT ![p] = gain]
  BY DEF Purchase, GainBonus
<1>4. score' = [score EXCEPT ![p] = @ + ScoreDelta(p, card)]
  <2>1. score \in [Players -> Nat] /\ score' \in [Players -> Nat]
    <3>1. ScoreValues \subseteq Nat
      BY ScoresAdd DEF ScoreValues
    <3>2. QED
      BY <3>1 DEF TypeOK
  <2>2. score' = [score EXCEPT ![p] = ScoreAfterPurchase(p)]
    BY DEF Purchase
  <2>3. FinalScores[p] = score[p] /\ ScoreAfterPurchase(p) = score'[p]
    BY <2>1, <2>2 DEF ScoresCurrent
  <2>4. score[p] + ScoreDelta(p, card) = ScoreAfterPurchase(p)
    <3>1. score[p] \in Nat /\ score'[p] \in Nat
      BY <2>1
    <3>2. ScoreDelta(p, card) = score'[p] - score[p]
      BY <2>3 DEF ScoreDelta
    <3>3. QED
      BY <2>3, <3>1, <3>2
  <2>5. QED
    BY <2>2, <2>4
<1>5. AfterCardBought(g, p, said)
        = [g EXCEPT !.reserved = [reserved EXCEPT ![p] = reserved[p] \ {card}],
                    !.purchased = [purchased EXCEPT ![p] = purchased[p] \cup {card}],
                    !.bonuses = [bonuses EXCEPT ![p] = gain],
                    !.tokens = held,
                    !.score = [score EXCEPT ![p] = score[p] + ScoreDelta(p, card)]]
  BY DEF AfterCardBought, Told, SameCards, Fields
<1> HIDE DEF said, held, gain
<1>6. h = [[g EXCEPT !.reserved = reserved', !.purchased = purchased', !.bonuses = bonuses',
                     !.tokens = held, !.score = score']
             EXCEPT !.version = version + 1]
  BY <1>1, <1>2, <1>3, <1>4, <1>5 DEF Told, SameCards
<1>7. QED
  BY <1>6 DEF Told, Fields, SameCourse, SameCards, Purchase

LEMMA EndTurnIsTold ==
  ASSUME NEW g, Told(g), NEW p \in Players, EndTurn(p), NEW h, h = AfterEvent(g, TurnEnded(p))
  PROVE  Told(h)'
<1>1. h = [[g EXCEPT !.turn = turn + 1, !.current = NextPlayer(p)] EXCEPT !.version = version + 1]
  BY DEF AfterEvent, AfterTurnEnded, TurnEnded, Event
<1>2. QED
  BY <1>1 DEF Told, Fields, SameCourse, SameCards, EndTurn, endVars, playerVars

LEMMA EndGameIsTold ==
  ASSUME ScoresCurrent, NEW g, Told(g), NEW p \in Players, EndGame(p),
         NEW h, h = AfterEvent(AfterEvent(g, TurnEnded(p)), GameEnded(p))
  PROVE  Told(h)'
<1> DEFINE k == [[g EXCEPT !.turn = turn + 1, !.current = NextPlayer(p)]
                   EXCEPT !.version = version + 1]
<1>1. AfterEvent(g, TurnEnded(p)) = k
  BY DEF AfterEvent, AfterTurnEnded, TurnEnded, Event
<1>2. h = [[k EXCEPT !.status = "ENDED", !.winners = ResolveGameWinners(FinalScores)]
             EXCEPT !.version = version + 2]
  <2> HIDE DEF k
  <2> QED
    BY <1>1 DEF AfterEvent, AfterGameEnded, GameEnded, Event
<1>3. /\ DOMAIN k = Fields
      /\ k.turn = turn + 1 /\ k.current = NextPlayer(p) /\ SameCards(k)
  BY DEF Told, Fields, SameCards
<1> HIDE DEF k
<1>4. QED
  BY <1>2, <1>3 DEF Told, Fields, SameCourse, SameCards, EndGame, ScoresCurrent

-----------------------------------------------------------------------------
(* The log and the game.                                                   *)

IsLog == \E S : log \in Seq(S)

\* The command appends e and nothing else, e is of the new version, and it
\* tells what the command did.
Appends(e) ==
  /\ log' = log \o <<e>>
  /\ version' = version + 1 /\ e.version = version + 1
  /\ status = "IN_PROGRESS" /\ status' = status /\ e.type # "GAME_ENDED"
  /\ \A g, h : Told(g) /\ h = AfterEvent(g, e) => Told(h)'
EndsGame(p) ==
  EndGame(p) /\ log' = log \o <<TurnEnded(p), GameEnded(p)>>

LEMMA PurchaseAppends ==
  ASSUME TypeOK, TypeOK', ScoresCurrent, NEW p \in Players, NEW card \in Cards, NEW payment,
         Purchase(p, card, payment), reserved' = [reserved EXCEPT ![p] = @ \ {card}],
         Logs(<<CardBought(p, card, payment)>>)
  PROVE  Appends(CardBought(p, card, payment))
<1>1. \A g, h : Told(g) /\ h = AfterEvent(g, CardBought(p, card, payment)) => Told(h)'
  BY PurchaseIsTold
<1>2. /\ CardBought(p, card, payment).version = version + 1
      /\ CardBought(p, card, payment).type = "CARD_BOUGHT"
  BY DEF CardBought, Event
<1>3. QED
  BY <1>1, <1>2 DEF Appends, Logs, Purchase, MayAct

LEMMA ReserveAppends ==
  ASSUME TypeOK, NEW p \in Players, NEW card \in Cards, card \notin reserved[p],
         NEW kind, NEW t, NEW takeGold, NEW returned, Reserve(p, card, takeGold, returned),
         Logs(<<CardReserved(p, kind, t, takeGold)>>)
  PROVE  Appends(CardReserved(p, kind, t, takeGold))
<1>1. \A g, h : Told(g) /\ h = AfterEvent(g, CardReserved(p, kind, t, takeGold)) => Told(h)'
  BY ReserveIsTold
<1>2. /\ CardReserved(p, kind, t, takeGold).version = version + 1
      /\ CardReserved(p, kind, t, takeGold).type = "CARD_RESERVED"
  BY DEF CardReserved, Event
<1>3. QED
  BY <1>1, <1>2 DEF Appends, Logs, Reserve, MayAct

LEMMA StepIsTold ==
  ASSUME TypeOK, TypeOK', CardsInOnePlace, ScoresCurrent, HistoryNext
  PROVE  (\E e : Appends(e)) \/ \E p \in Players : EndsGame(p)
<1>1. PICK p \in Players : LoggedTake(p) \/ LoggedReserve(p) \/ LoggedBuy(p) \/ LoggedEndTurn(p)
  BY DEF HistoryNext
<1>2. CASE LoggedTake(p)
  <2>1. PICK requested \in Requests, returned \in Returns :
          TakeTokens(p, requested, returned) /\ Logs(<<TokensTaken(p, requested)>>)
    BY <1>2 DEF LoggedTake
  <2>2. \A g, h : Told(g) /\ h = AfterEvent(g, TokensTaken(p, requested)) => Told(h)'
    BY <2>1, TakeIsTold
  <2>3. /\ TokensTaken(p, requested).version = version + 1
        /\ TokensTaken(p, requested).type = "TOKENS_TAKEN"
    BY DEF TokensTaken, Event
  <2>4. Appends(TokensTaken(p, requested))
    BY <2>1, <2>2, <2>3 DEF Appends, Logs, TakeTokens, MayAct
  <2>5. QED
    BY <2>4
<1>3. CASE LoggedReserve(p)
  <2>1. PICK t \in Tiers, takeGold \in BOOLEAN, returned \in Returns :
          \/ \E card \in market[t] :
               /\ ReserveOpenCard(p, t, card, takeGold, returned)
               /\ Logs(<<CardReserved(p, "OPEN_CARD", t, takeGold)>>)
          \/ /\ ReserveDeckTop(p, t, takeGold, returned)
             /\ Logs(<<CardReserved(p, "DECK_TOP", t, takeGold)>>)
    BY <1>3 DEF LoggedReserve
  <2>2. ASSUME NEW card \in market[t], ReserveOpenCard(p, t, card, takeGold, returned),
               Logs(<<CardReserved(p, "OPEN_CARD", t, takeGold)>>)
        PROVE  Appends(CardReserved(p, "OPEN_CARD", t, takeGold))
    <3>1. card \in Cards /\ card \notin reserved[p]
      BY DEF TypeOK, CardsInOnePlace, MarketApart, HeldCards
    <3>2. QED
      BY <2>2, <3>1, ReserveAppends DEF ReserveOpenCard
  <2>3. ASSUME ReserveDeckTop(p, t, takeGold, returned),
               Logs(<<CardReserved(p, "DECK_TOP", t, takeGold)>>)
        PROVE  Appends(CardReserved(p, "DECK_TOP", t, takeGold))
    <3>1. PICK card \in AvailableDeckCards(t, market[t], HeldCards) :
            Reserve(p, card, takeGold, returned)
      BY <2>3 DEF ReserveDeckTop
    <3>2. card \in Cards /\ card \notin reserved[p]
      BY DEF AvailableDeckCards, Deck, HeldCards
    <3>3. QED
      BY <2>3, <3>1, <3>2, ReserveAppends
  <2>4. QED
    BY <2>1, <2>2, <2>3
<1>4. CASE LoggedBuy(p)
  <2>1. PICK payment \in Payments :
          \/ \E t \in Tiers : \E card \in market[t] :
               /\ BuyOpenCard(p, t, card, payment)
               /\ Logs(<<CardBought(p, card, payment)>>)
          \/ \E card \in reserved[p] :
               /\ BuyReservedCard(p, card, payment)
               /\ Logs(<<CardBought(p, card, payment)>>)
    BY <1>4 DEF LoggedBuy
  <2>2. ASSUME NEW t \in Tiers, NEW card \in market[t], BuyOpenCard(p, t, card, payment),
               Logs(<<CardBought(p, card, payment)>>)
        PROVE  Appends(CardBought(p, card, payment))
    <3>1. card \in Cards /\ card \notin reserved[p]
      BY DEF TypeOK, CardsInOnePlace, MarketApart, HeldCards
    <3>2. reserved' = [reserved EXCEPT ![p] = @ \ {card}]
      BY <2>2, <3>1 DEF BuyOpenCard, TypeOK
    <3>3. QED
      BY <2>2, <3>1, <3>2, PurchaseAppends DEF BuyOpenCard
  <2>3. ASSUME NEW card \in reserved[p], BuyReservedCard(p, card, payment),
               Logs(<<CardBought(p, card, payment)>>)
        PROVE  Appends(CardBought(p, card, payment))
    <3>1. card \in Cards
      BY DEF TypeOK
    <3>2. QED
      BY <2>3, <3>1, PurchaseAppends DEF BuyReservedCard, SpliceReserved
  <2>4. QED
    BY <2>1, <2>2, <2>3
<1>5. CASE LoggedEndTurn(p)
  <2>1. CASE EndTurn(p) /\ Logs(<<TurnEnded(p)>>)
    <3>1. \A g, h : Told(g) /\ h = AfterEvent(g, TurnEnded(p)) => Told(h)'
      BY <2>1, EndTurnIsTold
    <3>2. TurnEnded(p).version = version + 1 /\ TurnEnded(p).type = "TURN_ENDED"
      BY DEF TurnEnded, Event
    <3>3. Appends(TurnEnded(p))
      BY <2>1, <3>1, <3>2 DEF Appends, Logs, EndTurn, MayAct
    <3>4. QED
      BY <3>3
  <2>2. CASE EndGame(p) /\ Logs(<<TurnEnded(p), GameEnded(p)>>)
    BY <2>2 DEF EndsGame, Logs
  <2>3. QED
    BY <1>5, <2>1, <2>2 DEF LoggedEndTurn
<1>6. QED
  BY <1>1, <1>2, <1>3, <1>4, <1>5

\* What appending one event or two does to a log.
LEMMA AppendingTwo ==
  ASSUME IsLog, NEW d, NEW e, log' = log \o <<d, e>>
  PROVE  /\ IsLog'
         /\ Len(log) \in Nat /\ DOMAIN log = 1 .. Len(log)
         /\ Len(log') = Len(log) + 2 /\ DOMAIN log' = 1 .. Len(log) + 2
         /\ \A i \in 1 .. Len(log) : log'[i] = log[i]
         /\ log'[Len(log) + 1] = d /\ log'[Len(log) + 2] = e
         /\ ReplayOf(log') = AfterEvent(AfterEvent(ReplayOf(log), d), e)
<1>1. PICK S : log \in Seq(S)
  BY DEF IsLog
<1> DEFINE T == S \cup {d, e}
<1>2. log \in Seq(T) /\ d \in T /\ e \in T
  BY <1>1
<1> HIDE DEF T
<1>3. Append(log, d) \in Seq(T) /\ log' = Append(Append(log, d), e) /\ log' \in Seq(T)
  BY <1>2
<1>4. ReplayOf(log') = AfterEvent(AfterEvent(ReplayOf(log), d), e)
  BY <1>2, <1>3, ReplayGrows
<1> DEFINE q == Append(log, d)
<1>5. /\ Len(log) \in Nat /\ DOMAIN log = 1 .. Len(log)
      /\ q \in Seq(T) /\ Len(q) = Len(log) + 1 /\ q[Len(log) + 1] = d
      /\ \A i \in 1 .. Len(log) : q[i] = log[i]
  BY <1>2
<1>6. log' = Append(q, e)
  BY <1>3
<1> HIDE DEF q
<1>7. /\ Len(log') = Len(q) + 1 /\ DOMAIN log' = 1 .. Len(q) + 1
      /\ log'[Len(q) + 1] = e /\ \A i \in 1 .. Len(q) : log'[i] = q[i]
  BY <1>2, <1>5, <1>6
<1>8. IsLog'
  BY <1>3 DEF IsLog
<1>9. Len(log') = Len(log) + 2 /\ DOMAIN log' = 1 .. Len(log) + 2 /\ log'[Len(log) + 2] = e
  BY <1>5, <1>7
<1>10. log'[Len(log) + 1] = d /\ \A i \in 1 .. Len(log) : log'[i] = log[i]
  BY <1>5, <1>7
<1>11. QED
  BY <1>4, <1>5, <1>8, <1>9, <1>10

LEMMA AppendingOne ==
  ASSUME IsLog, NEW e, log' = log \o <<e>>
  PROVE  /\ IsLog'
         /\ Len(log) \in Nat /\ DOMAIN log = 1 .. Len(log)
         /\ Len(log') = Len(log) + 1 /\ DOMAIN log' = 1 .. Len(log) + 1
         /\ \A i \in 1 .. Len(log) : log'[i] = log[i]
         /\ log'[Len(log) + 1] = e
         /\ ReplayOf(log') = AfterEvent(ReplayOf(log), e)
<1>1. PICK S : log \in Seq(S)
  BY DEF IsLog
<1> DEFINE T == S \cup {e}
<1>2. log \in Seq(T) /\ e \in T
  BY <1>1
<1> HIDE DEF T
<1>3. log' = Append(log, e) /\ log' \in Seq(T)
  BY <1>2
<1>4. ReplayOf(log') = AfterEvent(ReplayOf(log), e)
  BY <1>2, <1>3, ReplayGrows
<1>5. QED
  BY <1>2, <1>3, <1>4 DEF IsLog

LEMMA LogStarts ==
  ASSUME log = <<>>
  PROVE  IsLog /\ (version = 1 => LogFollowsVersion) /\ ReplayOf(log) = NewGame
<1>1. <<>> \in Seq({0}) /\ 0 \in {0}
  OBVIOUS
<1>2. IsLog
  BY <1>1 DEF IsLog
<1>3. version = 1 => LogFollowsVersion
  BY DEF LogFollowsVersion
<1>4. ReplayOf(log) = NewGame
  BY <1>1, ReplayGrows
<1>5. QED
  BY <1>2, <1>3, <1>4

\* Reading the log from the beginning shows the game as it is.
LogIsRight == IsLog /\ LogFollowsVersion /\ Told(ReplayOf(log))

THEOREM LogIsAlwaysRight == HistorySpec => []LogIsRight
<1>1. HistoryInit => LogIsRight
  BY LogStarts, NewGameIsTold DEF HistoryInit, Init, LogIsRight, Told, SameCourse, SameCards
<1>2. /\ TypeOK /\ TypeOK' /\ CardsInOnePlace /\ ScoresCurrent
      /\ LogIsRight /\ [HistoryNext]_historyVars
      => LogIsRight'
  <2> SUFFICES ASSUME TypeOK, TypeOK', CardsInOnePlace, ScoresCurrent, LogIsRight,
                      [HistoryNext]_historyVars
               PROVE  LogIsRight'
    OBVIOUS
  <2>1. CASE UNCHANGED historyVars
    BY <2>1 DEF historyVars, vars, progressVars, endVars, playerVars, LogIsRight, IsLog,
                LogFollowsVersion, ReplayOf, Told, SameCourse, SameCards
  <2>2. ASSUME NEW e, Appends(e)
        PROVE  LogIsRight'
    <3>1. IsLog /\ log' = log \o <<e>>
      BY <2>2 DEF LogIsRight, Appends
    <3>2. LogFollowsVersion'
      BY <2>2, <3>1, AppendingOne DEF LogIsRight, LogFollowsVersion, Appends, TypeOK
    <3>3. PICK g : g = ReplayOf(log)
      OBVIOUS
    <3>4. PICK h : h = AfterEvent(g, e)
      OBVIOUS
    <3>5. Told(g) /\ Told(h)'
      BY <2>2, <3>3, <3>4 DEF LogIsRight, Appends
    <3>6. h = ReplayOf(log')
      BY <3>1, <3>3, <3>4, AppendingOne
    <3>7. QED
      BY <3>1, <3>2, <3>5, <3>6, AppendingOne DEF LogIsRight, Told, SameCourse, SameCards, ReplayOf
  <2>3. ASSUME NEW p \in Players, EndsGame(p)
        PROVE  LogIsRight'
    <3>1. IsLog /\ log' = log \o <<TurnEnded(p), GameEnded(p)>>
      BY <2>3 DEF LogIsRight, EndsGame
    <3>2. /\ TurnEnded(p).version = version + 1 /\ GameEnded(p).version = version + 2
          /\ version' = version + 2
      BY <2>3 DEF TurnEnded, GameEnded, Event, EndsGame, EndGame
    <3>3. LogFollowsVersion'
      BY <3>1, <3>2, AppendingTwo DEF LogIsRight, LogFollowsVersion, TypeOK
    <3>4. PICK g : g = ReplayOf(log)
      OBVIOUS
    <3>5. PICK h : h = AfterEvent(AfterEvent(g, TurnEnded(p)), GameEnded(p))
      OBVIOUS
    <3>6. Told(g) /\ Told(h)'
      BY <2>3, <3>4, <3>5, EndGameIsTold DEF LogIsRight, EndsGame
    <3>7. h = ReplayOf(log')
      BY <3>1, <3>4, <3>5, AppendingTwo
    <3>8. QED
      BY <3>1, <3>3, <3>6, <3>7, AppendingTwo DEF LogIsRight, Told, SameCourse, SameCards, ReplayOf
  <2>4. QED
    BY <2>1, <2>2, <2>3, StepIsTold
<1>3. QED
  BY <1>1, <1>2, HistoryIsAGame, TypeCorrect, CardsStayInOnePlace, ScoresAreCurrent, PTL
  DEF HistorySpec

\* The events alone, one per version, tell whose turn it is and what everybody
\* has: the snapshot of the game is never needed to read its log.
THEOREM LogTellsEverything == HistorySpec => []LogTellsTheGame
<1>1. LogIsRight => LogTellsTheGame
  BY DEF LogIsRight, LogTellsTheGame, Told, SameCourse, SameCards, Replay, ReplayOf
<1>2. QED
  BY <1>1, LogIsAlwaysRight, PTL

\* A game that goes on has no GAME_ENDED event; once there is one it is the
\* last, and it has the final scores, the winners and who triggered the end.
EndIsTold ==
  \A i \in DOMAIN log : log[i].type = "GAME_ENDED" =>
    LET said == log[i].payload
    IN  /\ status = "ENDED"
        /\ i = Len(log)
        /\ said.finalScores = score
        /\ said.triggeredBy = SeatOfTurn(said.atTurn)
        /\ said.winners # {}

\* The log tells how the game ended, and nothing follows that.
THEOREM LogTellsHowItEnded == HistorySpec => []LogTellsTheEnd
<1>1. HistoryInit => EndIsTold
  BY DEF HistoryInit, EndIsTold
<1>2. /\ TypeOK /\ TypeOK' /\ CardsInOnePlace /\ ScoresCurrent /\ LastTurnForEveryone
      /\ LogIsRight /\ EndIsTold /\ [HistoryNext]_historyVars
      => EndIsTold'
  <2> SUFFICES ASSUME TypeOK, TypeOK', CardsInOnePlace, ScoresCurrent, LastTurnForEveryone,
                      LogIsRight, EndIsTold, [HistoryNext]_historyVars
               PROVE  EndIsTold'
    OBVIOUS
  <2>1. CASE UNCHANGED historyVars
    BY <2>1 DEF historyVars, vars, progressVars, playerVars, EndIsTold, SeatOfTurn
  <2>2. ASSUME NEW e, Appends(e)
        PROVE  EndIsTold'
    <3>1. IsLog /\ log' = log \o <<e>> /\ e.type # "GAME_ENDED" /\ status # "ENDED"
      BY <2>2 DEF LogIsRight, Appends
    <3>2. \A i \in DOMAIN log' : log'[i].type # "GAME_ENDED"
      BY <3>1, AppendingOne DEF EndIsTold
    <3>3. QED
      BY <3>2 DEF EndIsTold
  <2>3. ASSUME NEW p \in Players, EndsGame(p)
        PROVE  EndIsTold'
    <3> DEFINE d == TurnEnded(p)
               e == GameEnded(p)
    <3>1. IsLog /\ log' = log \o <<d, e>>
      BY <2>3 DEF LogIsRight, EndsGame
    <3>2. /\ finalRound /\ status # "ENDED" /\ status' = "ENDED" /\ score' = score
      BY <2>3 DEF EndsGame, EndGame, ShouldEndGame, MayAct, ScoresCurrent
    <3>3. /\ d.type = "TURN_ENDED"
          /\ e.payload.finalScores = score
          /\ e.payload.triggeredBy = endTriggeredBy /\ e.payload.atTurn = endTriggeredAtTurn
          /\ e.payload.winners = ResolveGameWinners(score)
      BY DEF TurnEnded, GameEnded, Event, ScoresCurrent
    <3>4. endTriggeredBy = SeatOfTurn(endTriggeredAtTurn)
      BY <3>2 DEF LastTurnForEveryone
    <3>5. ResolveGameWinners(score) # {}
      BY WinnersAreUnbeaten
    <3> HIDE DEF d, e
    <3>6. \A i \in DOMAIN log' : log'[i].type = "GAME_ENDED" => i = Len(log') /\ log'[i] = e
      BY <3>1, <3>2, <3>3, AppendingTwo DEF EndIsTold
    <3>7. QED
      BY <3>2, <3>3, <3>4, <3>5, <3>6 DEF EndIsTold, SeatOfTurn
  <2>4. QED
    BY <2>1, <2>2, <2>3, StepIsTold
<1>3. LogIsRight /\ EndIsTold => LogTellsTheEnd
  BY DEF LogIsRight, EndIsTold, LogTellsTheEnd, Told, SameCourse, SameCards, Replay, ReplayOf
<1>4. QED
  BY <1>1, <1>2, <1>3, HistoryIsAGame, LogIsAlwaysRight, TypeCorrect, CardsStayInOnePlace,
     ScoresAreCurrent, EveryoneHasALastTurn, PTL
  DEF HistorySpec

=============================================================================
