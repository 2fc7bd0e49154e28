------------------------------ MODULE Envelope ------------------------------
(***************************************************************************)
(* What the game server makes of untyped input before the rules see it:    *)
(* the body of POST /local/games and the game it describes, and the checks *)
(* a command passes on its way to the engine.  Nothing here has state.     *)
(*                                                                         *)
(* A JSON value is a model value where only its type matters, and          *)
(* otherwise what it stands for.  A text is a name with or without white   *)
(* space around it.                                                        *)
(***************************************************************************)
EXTENDS Catalog, Subsequences

CONSTANTS
  Undefined,    \* a field that is missing
  Other,        \* a value of none of the types the code asks for
  Blank,        \* a string of white space, or an empty one
  Fraction,     \* a number that is no integer
  Object,       \* an object with none of the fields looked at here
  Names,        \* what may remain of a text once it is trimmed
  DefaultPlayers  \* "player-1" and "player-2"

Text == [name : Names, padded : BOOLEAN]
Markers == {Undefined, Other, Blank, Fraction, Object}

\* What the payloads of commands are compared with.
Keywords ==
  {"OPEN_CARD", "DECK_TOP", "OPEN_MARKET", "RESERVED", "ACTION_COMPLETED", "MANUAL", "RECOVERY"}

ASSUME EnvelopeAssumption ==
  /\ DefaultPlayers \in Seq(Names) /\ Len(DefaultPlayers) = 2
  /\ DefaultPlayers[1] # DefaultPlayers[2]
  /\ {"TAKE_TOKENS", "RESERVE_CARD", "BUY_CARD", "END_TURN"} \subseteq Names
  /\ \A m \in Markers : m \notin Text /\ m \notin Seq(Text \cup {Blank})
  /\ Object \notin {Undefined, Other, Blank, Fraction}
  /\ \A S \in {Names, Keywords, BOOLEAN, 1 .. 3} : Undefined \notin S

Plain(n) == [name |-> n, padded |-> FALSE]
Trim(t) == [t EXCEPT !.padded = FALSE]

IsString(v) == v = Blank \/ v \in Text
IsNonEmptyString(v) == v \in Text
IsNumber(v) == v = Fraction \/ v \in Int
IsRecord(v) == v \notin {Undefined, Other, Blank, Fraction}
Field(v, f) ==
  IF v \in Markers \/ f \notin DOMAIN v THEN Undefined ELSE v[f]

\* The reason of the first check that fails, or "ok".
FirstFailure(checks) ==
  LET failed == {i \in DOMAIN checks : ~checks[i].holds}
  IN  IF failed = {} THEN "ok" ELSE checks[CHOOSE i \in failed : \A j \in failed : i <= j].reason
Check(holds, reason) == [holds |-> holds, reason |-> reason]

-----------------------------------------------------------------------------
(* Creating a game.                                                        *)

\* resolveGameId, where fresh is what randomUUID gives.
ResolveGameId(v, fresh) == IF v \in Text THEN v.name ELSE fresh

\* resolvePlayerIds: what is no text is dropped, and nobody at all means the
\* default players.
ResolvePlayerIds(v) ==
  IF v \in {Undefined, Other} THEN [i \in 1 .. 2 |-> Plain(DefaultPlayers[i])]
  ELSE LET texts == Kept(v, Text)
       IN  IF texts = <<>> THEN [i \in 1 .. 2 |-> Plain(DefaultPlayers[i])]
           ELSE [i \in DOMAIN texts |-> Trim(texts[i])]

\* validatePlayerIds
AnyPlayers(ids) == FirstFailure(<<
  Check(Len(ids) \in 2 .. 4, "PLAYER_COUNT_MUST_BE_2_TO_4")>>)
ValidatePlayerIds(ids) == FirstFailure(<<
  Check(Len(ids) \in 2 .. 4, "PLAYER_COUNT_MUST_BE_2_TO_4"),
  Check(\A i \in DOMAIN ids : ids[i] # Blank, "PLAYER_ID_EMPTY"),
  Check(IsInjective([i \in DOMAIN ids |-> Trim(ids[i])]), "PLAYER_IDS_MUST_BE_UNIQUE")>>)

DeckOfTier(t) ==
  SelectSeq([i \in CardNumbers |-> i], LAMBDA i : DevelopmentCards[i].tier = t)

\* createLocalGameContext, for ids that are valid.  Scores, wallets and hands
\* are empty for each player and left out.
BankOf(setup) == [c \in TokenColors |-> IF c = "gold" THEN setup.gold ELSE setup.gems]
CreateLocalGameContext(ids) ==
  LET setup == PlayerSetupByCount(Len(ids))
      order == [i \in DOMAIN ids |-> ids[i].name]
  IN  [status |-> "IN_PROGRESS", version |-> 1, turn |-> 1, currentPlayer |-> order[1], playerOrder |-> order,
       bank |-> BankOf(setup),
       market |-> [t \in 1 .. 3 |-> SubSeq(DeckOfTier(t), 1, 4)],
       nobles |-> SubSeq([i \in DOMAIN NobleTiles |-> i], 1, setup.nobles)]

-----------------------------------------------------------------------------
(* Admitting a command.                                                    *)

\* isCommand
IsCommand(c) ==
  /\ IsString(Field(c, "type")) /\ IsString(Field(c, "gameId"))
  /\ IsString(Field(c, "actorId")) /\ IsNumber(Field(c, "expectedVersion"))
  /\ IsString(Field(c, "idempotencyKey")) /\ IsRecord(Field(c, "payload"))

\* resolveAuthUserId
ResolveAuthUserId(header, fallback) == IF header \in Text THEN Trim(header) ELSE fallback

IsDeckTier(v) == v \in 1 .. 3
OptionalRecord(v) == v = Undefined \/ IsRecord(v)

\* validateTakeTokensPayload, and so on.
TakeTokensPayload(p) ==
  IsRecord(Field(p, "tokens")) /\ OptionalRecord(Field(p, "returnedTokens"))
ReservePayloadUnchecked(p) ==
  /\ IsRecord(Field(p, "target")) /\ Field(p, "takeGoldToken") \in BOOLEAN
  /\ OptionalRecord(Field(p, "returnedTokens"))
ReserveCardPayload(p) ==
  /\ IsRecord(Field(p, "target")) /\ Field(p, "takeGoldToken") \in BOOLEAN
  /\ OptionalRecord(Field(p, "returnedTokens"))
  /\ LET target == Field(p, "target") IN
       /\ Field(target, "kind") \in {"OPEN_CARD", "DECK_TOP"}
       /\ Field(target, "kind") = "OPEN_CARD" => IsNonEmptyString(Field(target, "cardId"))
       /\ IsDeckTier(Field(target, "tier"))
BuyCardPayload(p) ==
  /\ IsRecord(Field(p, "source")) /\ IsRecord(Field(p, "payment"))
  /\ IsNonEmptyString(Field(Field(p, "source"), "cardId"))
  /\ Field(Field(p, "source"), "kind") \in {"OPEN_MARKET", "RESERVED"}
EndTurnPayload(p) == Field(p, "reason") \in {"ACTION_COMPLETED", "MANUAL", "RECOVERY"}

\* validateCommandPayloadByType
ValidateCommandPayload(type, p) ==
  CASE type = Plain("TAKE_TOKENS") -> Check(TakeTokensPayload(p), "INVALID_PAYLOAD_TAKE_TOKENS")
    [] type = Plain("RESERVE_CARD") -> Check(ReserveCardPayload(p), "INVALID_PAYLOAD_RESERVE_CARD")
    [] type = Plain("BUY_CARD") -> Check(BuyCardPayload(p), "INVALID_PAYLOAD_BUY_CARD")
    [] type = Plain("END_TURN") -> Check(EndTurnPayload(p), "INVALID_PAYLOAD_END_TURN")
    [] OTHER -> Check(FALSE, "INVALID_TYPE")

\* validateCommandEnvelope, for what IsCommand let through.
ValidateCommandEnvelope(c) == FirstFailure(<<
  Check(IsNonEmptyString(c.type), "INVALID_TYPE"),
  Check(IsNonEmptyString(c.actorId), "INVALID_ACTOR_ID"),
  Check(c.expectedVersion \in Nat, "INVALID_EXPECTED_VERSION"),
  Check(IsNonEmptyString(c.idempotencyKey), "INVALID_IDEMPOTENCY_KEY"),
  ValidateCommandPayload(c.type, c.payload)>>)

\* GameGateway.handleCommand
AnyActor(header, c) == TRUE
ActorIsUser(header, c) == ResolveAuthUserId(header, c.actorId) = c.actorId

\* What refuses a command under a new key before its transition, in the order
\* of the checks of the route, the gateway, the service and validatePreflight:
\* a command for a game nobody created, and one for a stored game.
RefusalNoGame(path, header, c) ==
  IF ~IsCommand(c) THEN "INVALID_COMMAND_BODY"
  ELSE FirstFailure(<<
    Check(c.gameId = path, "COMMAND_GAME_ID_MISMATCH"),
    Check(ActorIsUser(header, c), "UNAUTHORIZED_ACTOR"),
    Check(IsNonEmptyString(c.idempotencyKey), "MISSING_IDEMPOTENCY_KEY"),
    Check(FALSE, "STATE_NOT_FOUND")>>)
Refusal(path, header, c, game) ==
  IF ~IsCommand(c) THEN "INVALID_COMMAND_BODY"
  ELSE FirstFailure(<<
    Check(c.gameId = path, "COMMAND_GAME_ID_MISMATCH"),
    Check(ActorIsUser(header, c), "UNAUTHORIZED_ACTOR"),
    Check(IsNonEmptyString(c.idempotencyKey), "MISSING_IDEMPOTENCY_KEY"),
    Check(c.expectedVersion = game.version, "VERSION_CONFLICT"),
    Check(ValidateCommandEnvelope(c) = "ok", ValidateCommandEnvelope(c)),
    Check(game.status = "IN_PROGRESS", "STATE_NOT_ACTIVE"),
    Check(c.type = Plain("END_TURN") \/ c.actorId = Plain(game.currentPlayer),
          "TURN_NOT_CURRENT_PLAYER")>>)
=============================================================================
