---------------------------- MODULE GameHistory -----------------------------
(***************************************************************************)
(* A game together with its event log: every accepted command of           *)
(* RuleEngine, and the events applyCommand returns for it, which the       *)
(* command service appends to the log of the game in the same transaction. *)
(* Replay reads the log back, so that the properties can compare what the  *)
(* events tell with the snapshot they were stored with.                    *)
(***************************************************************************)
EXTENDS RuleEngine

Sequence == INSTANCE SequencesExt

VARIABLES
  log             \* the events of the game, oldest first

historyVars == <<vars, log>>

-----------------------------------------------------------------------------
(* The events of apply-command.ts, with what each one says of its command. *)

Event(type, number, p, payload) ==
  [type |-> type, version |-> number, actor |-> p, payload |-> payload]

TokensTaken(p, requested) ==
  Event("TOKENS_TAKEN", version + 1, p, [tokens |-> requested])

\* Reserved is the card that the command has just put into p's reserve.
Reserved(p) == CHOOSE c \in Cards : c \in reserved'[p] \ reserved[p]
CardReserved(p, kind, t, takeGold) ==
  Event("CARD_RESERVED", version + 1, p,
        [targetKind |-> kind, card |-> Reserved(p), tier |-> t,
         grantedGold |-> ReservationGold(takeGold)["gold"] = 1])

\* The score of the snapshot is recomputed for the difference on both sides.
ScoreDeltaOfCard(p, card) == CardPoints[card]
ScoreDelta(p, card) == ScoreAfterPurchase(p) - FinalScores[p]
CardBought(p, card, payment) ==
  Event("CARD_BOUGHT", version + 1, p,
        [card |-> card, spentTokens |-> payment, bonus |-> CardBonus[card],
         scoreDelta |-> ScoreDelta(p, card)])

RoundNumber(n) == ((n - 1) \div PlayerCount) + 1
TurnEndedBefore(p) ==
  Event("TURN_ENDED", version + 1, p,
        [previousPlayer |-> p, nextPlayer |-> NextPlayer(p),
         turnNumber |-> turn, roundNumber |-> RoundNumber(turn + 1)])
TurnEnded(p) ==
  Event("TURN_ENDED", version + 1, p,
        [previousPlayer |-> p, nextPlayer |-> NextPlayer(p),
         turnNumber |-> turn + 1, roundNumber |-> RoundNumber(turn + 1)])

GameEnded(p) ==
  Event("GAME_ENDED", version + 2, p,
        [winners |-> ResolveGameWinners(FinalScores), finalScores |-> FinalScores,
         reason |-> "NO_MORE_ROUNDS", atTurn |-> endTriggeredAtTurn,
         triggeredBy |-> endTriggeredBy])

-----------------------------------------------------------------------------
(* The commands of RuleEngine, with the events they append.                *)

HistoryInit == Init /\ log = <<>>

Logs(events) == log' = log \o events

LoggedTake(p) ==
  \E requested \in Requests, returned \in Returns :
    /\ TakeTokens(p, requested, returned)
    /\ Logs(<<TokensTaken(p, requested)>>)

LoggedReserve(p) ==
  \E t \in Tiers, takeGold \in BOOLEAN, returned \in Returns :
    \/ \E card \in market[t] :
         /\ ReserveOpenCard(p, t, card, takeGold, returned)
         /\ Logs(<<CardReserved(p, "OPEN_CARD", t, takeGold)>>)
    \/ /\ ReserveDeckTop(p, t, takeGold, returned)
       /\ Logs(<<CardReserved(p, "DECK_TOP", t, takeGold)>>)

LoggedBuy(p) ==
  \E payment \in Payments :
    \/ \E t \in Tiers : \E card \in market[t] :
         /\ BuyOpenCard(p, t, card, payment)
         /\ Logs(<<CardBought(p, card, payment)>>)
    \/ \E card \in reserved[p] :
         /\ BuyReservedCard(p, card, payment)
         /\ Logs(<<CardBought(p, card, payment)>>)

LoggedEndTurn(p) ==
  \/ EndTurn(p) /\ Logs(<<TurnEnded(p)>>)
  \/ EndGame(p) /\ Logs(<<TurnEnded(p), GameEnded(p)>>)

HistoryNext ==
  \E p \in Players : LoggedTake(p) \/ LoggedReserve(p) \/ LoggedBuy(p) \/ LoggedEndTurn(p)

HistorySpec == HistoryInit /\ [][HistoryNext]_historyVars

-----------------------------------------------------------------------------
(* Reading the log back.  A replay knows how the game was set up and then  *)
(* uses nothing but the events.                                            *)

NewGame ==
  [status |-> "IN_PROGRESS", version |-> 1, turn |-> 1, current |-> PlayerOrder[1],
   winners |-> {},
   tokens |-> [p \in Players |-> NoTokens],
   bonuses |-> [p \in Players |-> [c \in GemColors |-> 0]],
   reserved |-> [p \in Players |-> {}],
   purchased |-> [p \in Players |-> {}],
   score |-> [p \in Players |-> 0]]

AfterTokensTaken(g, p, said) ==
  [g EXCEPT !.tokens[p] = WalletSum(@, AsTokens(said.tokens))]

AfterCardReserved(g, p, said) ==
  [g EXCEPT
     !.reserved[p] = @ \cup {said.card},
     !.tokens[p]["gold"] = IF said.grantedGold THEN @ + 1 ELSE @]

AfterCardBought(g, p, said) ==
  [g EXCEPT
     !.reserved[p] = @ \ {said.card},
     !.purchased[p] = @ \cup {said.card},
     !.bonuses[p][said.bonus] = @ + 1,
     !.tokens[p] = WalletDifference(@, said.spentTokens),
     !.score[p] = @ + said.scoreDelta]

AfterTurnEnded(g, said) ==
  [g EXCEPT !.turn = said.turnNumber, !.current = said.nextPlayer]

AfterGameEnded(g, said) ==
  [g EXCEPT !.status = "ENDED", !.winners = said.winners]

AfterEvent(g, e) ==
  [CASE e.type = "TOKENS_TAKEN"  -> AfterTokensTaken(g, e.actor, e.payload)
     [] e.type = "CARD_RESERVED" -> AfterCardReserved(g, e.actor, e.payload)
     [] e.type = "CARD_BOUGHT"   -> AfterCardBought(g, e.actor, e.payload)
     [] e.type = "TURN_ENDED"    -> AfterTurnEnded(g, e.payload)
     [] e.type = "GAME_ENDED"    -> AfterGameEnded(g, e.payload)
   EXCEPT !.version = e.version]

Replay == Sequence!FoldLeft(AfterEvent, NewGame, log)

-----------------------------------------------------------------------------
(* Properties.                                                             *)

\* The log has one event per version the game has been through: a reader who
\* asks for the events after version v misses none and gets none twice.
LogFollowsVersion ==
  /\ \A i \in DOMAIN log : log[i].version = i + 1
  /\ version = Len(log) + 1

\* Whoever has only the events, of which there is one for each version, knows
\* whose turn it is, which cards and bonuses each player has, and what they
\* score, without applying a rule.
LogTellsTheGame ==
  /\ LogFollowsVersion
  /\ Replay.turn = turn /\ Replay.current = currentPlayer
  /\ Replay.bonuses = bonuses
  /\ Replay.reserved = reserved /\ Replay.purchased = purchased
  /\ Replay.score = score

\* The last event of an ended game, and of no other, tells the end: the final
\* scores it names are those the CARD_BOUGHT events add up to, the trigger it
\* names is the player who first reached the target, and nothing follows it.
LogTellsTheEnd ==
  /\ Replay.status = status /\ Replay.winners = winners
  /\ \A i \in DOMAIN log : log[i].type = "GAME_ENDED" =>
       LET said == log[i].payload
       IN  /\ i = Len(log)
           /\ said.finalScores = Replay.score
           /\ said.triggeredBy = SeatOfTurn(said.atTurn)
           /\ said.winners # {}

\* ARCHITECTURE.md 2.3 on the players' tokens: the snapshot can be rebuilt
\* from the events.
LogTellsTheTokens == Replay.tokens = tokens

\* The events since the last player handed over the turn.
ThisTurn ==
  LET handOvers == {i \in DOMAIN log : log[i].type = "TURN_ENDED"}
  IN  {i \in DOMAIN log : \A j \in handOvers : i > j}

\* A purchase that scores more than its card brought a noble.
BroughtNoble(e) ==
  e.type = "CARD_BOUGHT" /\ e.payload.scoreDelta > CardPoints[e.payload.card]

\* The policy plan on nobles: a player who qualifies for several nobles in a
\* turn receives one of them.
OneNoblePerTurn == Cardinality({i \in ThisTurn : BroughtNoble(log[i])}) <= 1
=============================================================================
