----------------------------- MODULE Admission -----------------------------
(***************************************************************************)
(* Commands of any shape, from any user, against one stored game: what of  *)
(* them reaches the rules, and in whose name.  The rules themselves are    *)
(* RuleEngine; here they accept or refuse what reaches them.  Keys are     *)
(* new; a key that was used before is the concern of CommandService.       *)
(***************************************************************************)
EXTENDS Envelope

CONSTANTS
  Game,         \* the name of the stored game
  Seats,        \* its players
  Requests,     \* the requests considered: [path, header, command]
  MaxGameVersion

ASSUME AdmissionAssumption ==
  /\ Game \in Names /\ Seats \in Seq(Names) /\ Len(Seats) \in 2 .. 4
  /\ MaxGameVersion \in Nat

Players == {Seats[i] : i \in DOMAIN Seats}

VARIABLES
  game,       \* the stored game: status, version, current player
  command,    \* the command of the last request, if it reached a transition
  user,       \* the user it came from
  outcome     \* the last answer

admissionVars == <<game, command, user, outcome>>

AdmissionInit ==
  /\ game = [status |-> "IN_PROGRESS", version |-> 1, currentPlayer |-> Seats[1]]
  /\ command = Undefined /\ user = Undefined
  /\ outcome = "none"

RefusalOf(r) ==
  IF r.path = Plain(Game) THEN Refusal(r.path, r.header, r.command, game)
  ELSE RefusalNoGame(r.path, r.header, r.command)

\* The request is refused on its way.
Refuse(r) ==
  /\ RefusalOf(r) # "ok"
  /\ outcome' = RefusalOf(r)
  /\ command' = Undefined /\ user' = Undefined
  /\ UNCHANGED game

Reaches(r) ==
  /\ RefusalOf(r) = "ok"
  /\ command' = r.command
  /\ user' = ResolveAuthUserId(r.header, r.command.actorId)

\* executeTransition refuses it.
PolicyViolation(r) ==
  /\ Reaches(r)
  /\ outcome' = "POLICY_VIOLATION"
  /\ UNCHANGED game

\* END_TURN is checked for its actor by the turn policy, not before.
OwnTurn(c) == c.actorId = Plain(game.currentPlayer)

TransitionAccepted(r) ==
  /\ Reaches(r)
  /\ outcome' = "accepted"
  /\ \/ /\ r.command.type # Plain("END_TURN")
        /\ game' = [game EXCEPT !.version = @ + 1]
     \/ /\ r.command.type = Plain("END_TURN") /\ OwnTurn(r.command)
        /\ \/ \E p \in Players \ {game.currentPlayer} :
                game' = [game EXCEPT !.version = @ + 1, !.currentPlayer = p]
           \/ game' = [game EXCEPT !.version = @ + 2, !.status = "ENDED"]
  /\ game'.version <= MaxGameVersion

AdmissionNext ==
  \E r \in Requests : Refuse(r) \/ PolicyViolation(r) \/ TransitionAccepted(r)

AdmissionSpec == AdmissionInit /\ [][AdmissionNext]_admissionVars

-----------------------------------------------------------------------------
(* Properties.                                                             *)

\* Command of shared-types, as far as the transitions read it unchecked.
TypedPayload(type, p) ==
  CASE type = "TAKE_TOKENS" -> IsRecord(p.tokens)
    [] type = "RESERVE_CARD" ->
         /\ p.takeGoldToken \in BOOLEAN /\ Field(p.target, "tier") \in 1 .. 3
         /\ \/ Field(p.target, "kind") = "OPEN_CARD" /\ Field(p.target, "cardId") \in Text
            \/ Field(p.target, "kind") = "DECK_TOP"
    [] type = "BUY_CARD" ->
         /\ IsRecord(p.payment) /\ Field(p.source, "cardId") \in Text
         /\ Field(p.source, "kind") \in {"OPEN_MARKET", "RESERVED"}
    [] type = "END_TURN" -> p.reason \in {"ACTION_COMPLETED", "MANUAL", "RECOVERY"}

\* Whatever arrives, the transitions get a command of the type they are
\* written for: the type a cast in isCommand only promises.
TransitionsGetCommands ==
  command # Undefined => TypedPayload(command.type.name, command.payload)

\* The game changes only by a command for it, made for the version it then
\* has, in the name of its current player, and sent by that player if the
\* request names its user: without x-user-id the server takes the actor of the
\* command for the user, and asks nobody.
OnlyTheCurrentPlayerMoves ==
  [][game' # game =>
       /\ command'.gameId = Plain(Game)
       /\ command'.expectedVersion = game.version
       /\ command'.actorId = Plain(game.currentPlayer)
       /\ user' = command'.actorId]_admissionVars
=============================================================================
