---------------------------- MODULE PageTheorems ----------------------------
(***************************************************************************)
(* What the pages of a player promise, proved for all values of the        *)
(* constants: the way from the login to a game (Lobby), the admission of   *)
(* the commands sent from there (Admission), and the overlays of the       *)
(* screen with the keyboard focus (Dialog).                                *)
(***************************************************************************)
EXTENDS Lobby, Admission, Dialog, SubsequenceTheorems, SequenceTheorems, FiniteSetTheorems, TLAPS

-----------------------------------------------------------------------------
(* What refuses a command, and what is known of one that is not refused.   *)

LEMMA FailureIs ==
  ASSUME NEW n \in Nat, NEW checks, DOMAIN checks = 1 .. n
  PROVE  \/ FirstFailure(checks) = "ok" /\ \A i \in 1 .. n : checks[i].holds
         \/ \E i \in 1 .. n : ~checks[i].holds /\ FirstFailure(checks) = checks[i].reason
<1> DEFINE failed == {i \in DOMAIN checks : ~checks[i].holds}
<1>1. CASE failed # {}
  <2>1. failed \in SUBSET Nat
    OBVIOUS
  <2>2. \E i \in failed : \A j \in failed : i <= j
    <3> HIDE DEF failed
    <3> DEFINE R == {ss \in Nat \X Nat : ss[1] < ss[2]}
    <3>1. IsWellFoundedOn(R, Nat)
      BY NatLessThanWellFounded DEF OpToRel
    <3>2. \A a, b \in Nat : a < b => <<a, b>> \in R
      OBVIOUS
    <3> HIDE DEF R
    <3>3. PICK i \in failed : \A j \in failed : <<j, i>> \notin R
      BY <1>1, <2>1, <3>1, WFMin
    <3>4. i \in Nat /\ \A j \in failed : j \in Nat /\ ~(j < i)
      BY <2>1, <3>2, <3>3, Zenon
    <3>5. \A j \in failed : i <= j
      BY <3>4
    <3>6. QED
      BY <3>5, Zenon
  <2>3. PICK k : k = CHOOSE i \in failed : \A j \in failed : i <= j
    OBVIOUS
  <2>4. k \in failed
    <3> HIDE DEF failed
    <3>1. QED
      BY <2>2, <2>3
  <2>5. FirstFailure(checks) = checks[k].reason
    BY <1>1, <2>3, Zenon DEF FirstFailure
  <2>6. QED
    BY <2>4, <2>5
<1>2. CASE failed = {}
  <2>1. FirstFailure(checks) = "ok"
    BY <1>2, Zenon DEF FirstFailure
  <2>2. QED
    BY <1>2, <2>1
<1>3. QED
  BY <1>1, <1>2

LEMMA NoFailure ==
  ASSUME NEW n \in Nat, NEW checks, DOMAIN checks = 1 .. n, FirstFailure(checks) = "ok",
         \A i \in 1 .. n : ~checks[i].holds => checks[i].reason # "ok"
  PROVE  \A i \in 1 .. n : checks[i].holds
BY FailureIs

\* The reasons of the checks are none of them "ok".
LEMMA PayloadCheck ==
  ASSUME NEW type, NEW p
  PROVE  LET check == ValidateCommandPayload(type, p) IN
         /\ check.reason # "ok"
         /\ check.holds =>
              \/ type = Plain("TAKE_TOKENS") /\ TakeTokensPayload(p)
              \/ type = Plain("RESERVE_CARD") /\ ReserveCardPayload(p)
              \/ type = Plain("BUY_CARD") /\ BuyCardPayload(p)
              \/ type = Plain("END_TURN") /\ EndTurnPayload(p)
         /\ type = Plain("TAKE_TOKENS") /\ TakeTokensPayload(p) => check.holds
<1>1. CASE type = Plain("TAKE_TOKENS")
  <2>1. ValidateCommandPayload(type, p) = Check(TakeTokensPayload(p), "INVALID_PAYLOAD_TAKE_TOKENS")
    BY <1>1 DEF ValidateCommandPayload, Plain
  <2>2. QED
    BY <1>1, <2>1 DEF Check
<1>2. CASE type = Plain("RESERVE_CARD")
  <2>1. ValidateCommandPayload(type, p) = Check(ReserveCardPayload(p), "INVALID_PAYLOAD_RESERVE_CARD")
    BY <1>2 DEF ValidateCommandPayload, Plain
  <2>2. QED
    BY <1>2, <2>1 DEF Check, Plain
<1>3. CASE type = Plain("BUY_CARD")
  <2>1. ValidateCommandPayload(type, p) = Check(BuyCardPayload(p), "INVALID_PAYLOAD_BUY_CARD")
    BY <1>3 DEF ValidateCommandPayload, Plain
  <2>2. QED
    BY <1>3, <2>1 DEF Check, Plain
<1>4. CASE type = Plain("END_TURN")
  <2>1. ValidateCommandPayload(type, p) = Check(EndTurnPayload(p), "INVALID_PAYLOAD_END_TURN")
    BY <1>4 DEF ValidateCommandPayload, Plain
  <2>2. QED
    BY <1>4, <2>1 DEF Check, Plain
<1>5. CASE type \notin {Plain("TAKE_TOKENS"), Plain("RESERVE_CARD"), Plain("BUY_CARD"), Plain("END_TURN")}
  <2>1. ValidateCommandPayload(type, p) = Check(FALSE, "INVALID_TYPE")
    BY <1>5 DEF ValidateCommandPayload
  <2>2. QED
    BY <1>5, <2>1 DEF Check
<1>6. QED
  BY <1>1, <1>2, <1>3, <1>4, <1>5

LEMMA EnvelopeOk ==
  ASSUME NEW c, ValidateCommandEnvelope(c) = "ok"
  PROVE  /\ c.type \in Text /\ c.actorId \in Text /\ c.expectedVersion \in Nat
         /\ \/ c.type = Plain("TAKE_TOKENS") /\ TakeTokensPayload(c.payload)
            \/ c.type = Plain("RESERVE_CARD") /\ ReserveCardPayload(c.payload)
            \/ c.type = Plain("BUY_CARD") /\ BuyCardPayload(c.payload)
            \/ c.type = Plain("END_TURN") /\ EndTurnPayload(c.payload)
<1> DEFINE checks == <<
      Check(IsNonEmptyString(c.type), "INVALID_TYPE"),
      Check(IsNonEmptyString(c.actorId), "INVALID_ACTOR_ID"),
      Check(c.expectedVersion \in Nat, "INVALID_EXPECTED_VERSION"),
      Check(IsNonEmptyString(c.idempotencyKey), "INVALID_IDEMPOTENCY_KEY"),
      ValidateCommandPayload(c.type, c.payload)>>
<1>1. FirstFailure(checks) = "ok"
  BY Zenon DEF ValidateCommandEnvelope
<1>2. DOMAIN checks = 1 .. 5
  OBVIOUS
<1>3. \A i \in 1 .. 5 : checks[i].reason # "ok"
  <2>1. ValidateCommandPayload(c.type, c.payload).reason # "ok"
    BY PayloadCheck
  <2>2. QED
    BY <2>1 DEF Check
<1>4. \A i \in 1 .. 5 : checks[i].holds
  <2> HIDE DEF checks
  <2>1. QED
    BY <1>1, <1>2, <1>3, NoFailure
<1>5. checks[1].holds /\ checks[2].holds /\ checks[3].holds /\ checks[5].holds
  <2> HIDE DEF checks
  <2>1. QED
    BY <1>4
<1>6. IsNonEmptyString(c.type)
  BY <1>5 DEF Check
<1>7. IsNonEmptyString(c.actorId)
  BY <1>5 DEF Check
<1>8. c.expectedVersion \in Nat
  BY <1>5 DEF Check
<1>9. ValidateCommandPayload(c.type, c.payload).holds
  BY <1>5
<1>10. QED
  BY <1>6, <1>7, <1>8, <1>9, PayloadCheck DEF IsNonEmptyString

\* A command for a game nobody created is always refused.
LEMMA NoGameRefused ==
  ASSUME NEW path, NEW header, NEW c
  PROVE  RefusalNoGame(path, header, c) # "ok"
<1> SUFFICES ASSUME RefusalNoGame(path, header, c) = "ok" PROVE FALSE
  OBVIOUS
<1> DEFINE checks == <<
      Check(c.gameId = path, "COMMAND_GAME_ID_MISMATCH"),
      Check(ActorIsUser(header, c), "UNAUTHORIZED_ACTOR"),
      Check(IsNonEmptyString(c.idempotencyKey), "MISSING_IDEMPOTENCY_KEY"),
      Check(FALSE, "STATE_NOT_FOUND")>>
<1>1. IsCommand(c)
  BY DEF RefusalNoGame
<1>2. FirstFailure(checks) = "ok"
  BY <1>1, Zenon DEF RefusalNoGame
<1>3. DOMAIN checks = 1 .. 4
  OBVIOUS
<1>4. \A i \in 1 .. 4 : checks[i].reason # "ok"
  BY DEF Check
<1>5. ~checks[4].holds
  BY DEF Check
<1> HIDE DEF checks
<1>6. \A i \in 1 .. 4 : checks[i].holds
  BY <1>2, <1>3, <1>4, NoFailure
<1>7. QED
  BY <1>5, <1>6

\* What a command is that nothing refuses.
Admitted(path, header, c, stored) ==
  /\ c.gameId = path /\ ActorIsUser(header, c) /\ c.expectedVersion = stored.version
  /\ stored.status = "IN_PROGRESS" /\ ValidateCommandEnvelope(c) = "ok"
  /\ c.type = Plain("END_TURN") \/ c.actorId = Plain(stored.currentPlayer)

LEMMA RefusalOk ==
  ASSUME NEW path, NEW header, NEW c, NEW stored, Refusal(path, header, c, stored) = "ok"
  PROVE  Admitted(path, header, c, stored)
<1> DEFINE checks == <<
      Check(c.gameId = path, "COMMAND_GAME_ID_MISMATCH"),
      Check(ActorIsUser(header, c), "UNAUTHORIZED_ACTOR"),
      Check(IsNonEmptyString(c.idempotencyKey), "MISSING_IDEMPOTENCY_KEY"),
      Check(c.expectedVersion = stored.version, "VERSION_CONFLICT"),
      Check(ValidateCommandEnvelope(c) = "ok", ValidateCommandEnvelope(c)),
      Check(stored.status = "IN_PROGRESS", "STATE_NOT_ACTIVE"),
      Check(c.type = Plain("END_TURN") \/ c.actorId = Plain(stored.currentPlayer),
            "TURN_NOT_CURRENT_PLAYER")>>
<1>1. IsCommand(c)
  BY DEF Refusal
<1>3. FirstFailure(checks) = "ok"
  BY <1>1, Zenon DEF Refusal
<1>4. DOMAIN checks = 1 .. 7
  OBVIOUS
<1>5. \A i \in 1 .. 7 : checks[i].holds
  <2>1. \A i \in 1 .. 7 : ~checks[i].holds => checks[i].reason # "ok"
    <3>1. \A i \in (1 .. 7) \ {5} : checks[i].reason # "ok"
      BY DEF Check
    <3>2. checks[5].reason = ValidateCommandEnvelope(c)
      BY DEF Check
    <3>3. ValidateCommandEnvelope(c) = "ok" => checks[5].holds
      BY DEF Check
    <3> HIDE DEF checks
    <3>4. QED
      BY <3>1, <3>2, <3>3
  <2> HIDE DEF checks
  <2>2. QED
    BY <1>3, <1>4, <2>1, NoFailure
<1>6. /\ checks[1].holds /\ checks[2].holds /\ checks[4].holds
      /\ checks[5].holds /\ checks[6].holds /\ checks[7].holds
  <2> HIDE DEF checks
  <2>1. QED
    BY <1>5
<1>7. c.gameId = path
  BY <1>6 DEF Check
<1>8. ActorIsUser(header, c)
  BY <1>6 DEF Check
<1>9. c.expectedVersion = stored.version
  BY <1>6 DEF Check
<1>10. ValidateCommandEnvelope(c) = "ok"
  BY <1>6 DEF Check
<1>11. stored.status = "IN_PROGRESS"
  BY <1>6 DEF Check
<1>12. c.type = Plain("END_TURN") \/ c.actorId = Plain(stored.currentPlayer)
  BY <1>6 DEF Check
<1>13. QED
  BY <1>7, <1>8, <1>9, <1>10, <1>11, <1>12 DEF Admitted

-----------------------------------------------------------------------------
(* The way to a game.                                                      *)

Users == {Plain(n) : n \in Names}

PageSet ==
  [at : {"login", "denied", "lobby", "game", "victory"}, game : Names \cup {Undefined},
   user : Users, via : {"link", "address", "create", "join"}]

RequestSet ==
  [kind : {"create", "join"}, user : Text \cup {Blank}, game : Names \cup {Undefined},
   at : {"asked", "found", "refused", "lost", "done"}, from : {"shown", "left", "closed"}]

GameShape(g) ==
  {"status", "version", "currentPlayer", "playerOrder"} \subseteq DOMAIN g /\ g.version \in Nat

\* The user, as a page names it, has the first seat of the game.
Creator(reg, who, id) ==
  id \in DOMAIN reg /\ PageUser(who) = Plain(reg[id].playerOrder[1])

RequestFine(r, reg) ==
  /\ r.kind = "join" => r.game \in Names
  /\ r.at = "found" => r.game \in DOMAIN reg
  /\ r.at = "found" /\ r.kind = "create" => Creator(reg, r.user, r.game)

PageFine(p, reg) ==
  /\ p.at \in {"game", "victory"} <=> p.game \in Names
  /\ p.via \in {"create", "join"} => p.game \in DOMAIN reg
  /\ p.via = "create" => Creator(reg, p.user, p.game)

RegistryFine(reg) == DOMAIN reg \subseteq Names /\ \A id \in DOMAIN reg : GameShape(reg[id])
RequestsFine(rs, reg) == rs \in Seq(RequestSet) /\ \A i \in DOMAIN rs : RequestFine(rs[i], reg)

\* What is known of every tab: a request that found a game, and a page that a
\* request led to, name a game there is, and in which its creator sits first.
TabInv ==
  /\ RegistryFine(games) /\ RequestsFine(requests, games)
  /\ page \in PageSet /\ PageFine(page, games)
  /\ userId \in Text \cup {Blank} /\ pending \in BOOLEAN
  /\ ScreenIsAuthorised

\* What may become of the registry in a step.
Grown(reg, new) ==
  /\ RegistryFine(new)
  /\ \A id \in DOMAIN reg :
       /\ id \in DOMAIN new /\ new[id].playerOrder = reg[id].playerOrder
       /\ new[id].version >= reg[id].version
       /\ new[id].version = reg[id].version => new[id] = reg[id]

LEMMA NotGrown ==
  ASSUME NEW reg, RegistryFine(reg)
  PROVE  Grown(reg, reg)
<1>1. \A id \in DOMAIN reg : reg[id].version \in Nat
  BY DEF RegistryFine, GameShape
<1>2. QED
  BY <1>1 DEF Grown

LEMMA GrowthKeepsRequests ==
  ASSUME NEW reg, NEW new, Grown(reg, new), NEW rs, RequestsFine(rs, reg)
  PROVE  RequestsFine(rs, new)
<1>1. ASSUME NEW i \in DOMAIN rs
      PROVE  RequestFine(rs[i], new)
  BY DEF RequestsFine, RequestFine, Grown, Creator
<1>2. QED
  BY <1>1 DEF RequestsFine

LEMMA GrowthKeepsPage ==
  ASSUME NEW reg, NEW new, Grown(reg, new), NEW p, PageFine(p, reg)
  PROVE  PageFine(p, new)
BY DEF PageFine, Grown, Creator

LEMMA DefaultsArePlayers ==
  /\ DefaultPlayers[1] \in Names /\ DefaultPlayers[2] \in Names
  /\ Default \in Users /\ Second \in Text
<1>1. DefaultPlayers \in Seq(Names) /\ Len(DefaultPlayers) = 2
  BY EnvelopeAssumption
<1>2. DefaultPlayers[1] \in Names /\ DefaultPlayers[2] \in Names
  BY <1>1
<1>3. QED
  BY <1>2 DEF Default, Second, Users, Text, Plain

LEMMA PaddingSet ==
  ASSUME NEW n, NEW b, NEW q
  PROVE  [[name |-> n, padded |-> b] EXCEPT !.padded = q] = [name |-> n, padded |-> q]
OBVIOUS

LEMMA TrimmedText ==
  ASSUME NEW t \in Text
  PROVE  t.name \in Names /\ Trim(t) = Plain(t.name) /\ Trim(t) \in Users /\ Trim(t) \in Text
<1>1. PICK n \in Names, b \in BOOLEAN : t = [name |-> n, padded |-> b]
  BY DEF Text
<1>2. Trim(t) = [name |-> n, padded |-> FALSE] /\ t.name = n
  BY <1>1, PaddingSet DEF Trim
<1>3. Plain(n) \in Users /\ Plain(n) \in Text
  BY DEF Plain, Users, Text
<1>4. QED
  BY <1>2, <1>3 DEF Plain

LEMMA UsersAreTexts ==
  ASSUME NEW u \in Users
  PROVE  u \in Text /\ Trim(u) = u /\ PageUser(u) = u
<1>1. PICK n \in Names : u = [name |-> n, padded |-> FALSE]
  BY DEF Users, Plain
<1>2. u \in Text
  BY <1>1 DEF Text
<1>3. Trim(u) = u
  BY <1>1, PaddingSet DEF Trim
<1>4. QED
  BY <1>2, <1>3 DEF PageUser

LEMMA PageUserIsUser ==
  ASSUME NEW v
  PROVE  PageUser(v) \in Users
BY DefaultsArePlayers, TrimmedText DEF PageUser

\* What the players of a game are checked for.
LEMMA ValidPlayers ==
  ASSUME NEW ids, ValidatePlayerIds(ids) = "ok"
  PROVE  Len(ids) \in 2 .. 4 /\ IsInjective([i \in DOMAIN ids |-> Trim(ids[i])])
<1> DEFINE checks == <<
      Check(Len(ids) \in 2 .. 4, "PLAYER_COUNT_MUST_BE_2_TO_4"),
      Check(\A i \in DOMAIN ids : ids[i] # Blank, "PLAYER_ID_EMPTY"),
      Check(IsInjective([i \in DOMAIN ids |-> Trim(ids[i])]), "PLAYER_IDS_MUST_BE_UNIQUE")>>
<1>1. FirstFailure(checks) = "ok"
  BY Zenon DEF ValidatePlayerIds
<1>2. DOMAIN checks = 1 .. 3
  OBVIOUS
<1>3. \A i \in 1 .. 3 : checks[i].reason # "ok"
  BY DEF Check
<1>4. checks[1].holds /\ checks[3].holds
  <2> HIDE DEF checks
  <2>1. \A i \in 1 .. 3 : checks[i].holds
    BY <1>1, <1>2, <1>3, NoFailure
  <2>2. QED
    BY <2>1
<1>5. Len(ids) \in 2 .. 4
  BY <1>4 DEF Check
<1>6. IsInjective([i \in DOMAIN ids |-> Trim(ids[i])])
  BY <1>4 DEF Check
<1>7. QED
  BY <1>5, <1>6

\* Whatever list of players a body holds, those of the game are users.
LEMMA PlayersAreUsers ==
  ASSUME NEW v \in {Undefined, Other} \cup Seq(Text \cup Markers)
  PROVE  ResolvePlayerIds(v) \in Seq(Users)
<1> DEFINE default == [i \in 1 .. 2 |-> Plain(DefaultPlayers[i])]
<1>1. default \in Seq(Users)
  <2>1. \A i \in 1 .. 2 : Plain(DefaultPlayers[i]) \in Users
    BY DefaultsArePlayers DEF Users
  <2>2. default \in [1 .. 2 -> Users]
    BY <2>1
  <2>3. QED
    BY <2>2
<1>2. PICK texts : texts = Kept(v, Text)
  OBVIOUS
<1>3. CASE v \in {Undefined, Other} \/ texts = <<>>
  <2>1. ResolvePlayerIds(v) = default
    BY <1>2, <1>3, Zenon DEF ResolvePlayerIds
  <2> HIDE DEF default
  <2>2. QED
    BY <1>1, <2>1
<1>4. CASE v \notin {Undefined, Other} /\ texts # <<>>
  <2>1. texts \in Seq(Text)
    <3>1. v \in Seq(Text \cup Markers)
      BY <1>4
    <3>2. texts \in Seq((Text \cup Markers) \cap Text)
      BY <1>2, <3>1, KeptType
    <3>3. (Text \cup Markers) \cap Text = Text
      OBVIOUS
    <3>4. QED
      BY <3>2, <3>3
  <2>2. ResolvePlayerIds(v) = [i \in DOMAIN texts |-> Trim(texts[i])]
    BY <1>2, <1>4, Zenon DEF ResolvePlayerIds
  <2>3. \A i \in DOMAIN texts : Trim(texts[i]) \in Users
    BY <2>1, TrimmedText
  <2>4. ResolvePlayerIds(v) \in [1 .. Len(texts) -> Users] /\ Len(texts) \in Nat
    BY <2>1, <2>2, <2>3
  <2>5. QED
    BY <2>4
<1>5. QED
  BY <1>3, <1>4

\* Of the players a lobby asks for, both are needed.
LEMMA LobbyPlayers ==
  ASSUME NEW v \in Text \cup {Blank},
         ValidatePlayerIds(ResolvePlayerIds(<<v, Second>>)) = "ok"
  PROVE  /\ 1 \in DOMAIN ResolvePlayerIds(<<v, Second>>)
         /\ ResolvePlayerIds(<<v, Second>>)[1].name = PageUser(v).name
<1> DEFINE asked == <<v, Second>>
           ids == ResolvePlayerIds(asked)
<1>1. asked \in Seq(Text \cup {Blank}) /\ asked \notin {Undefined, Other}
  <2>1. asked \in Seq(Text \cup {Blank})
    BY DefaultsArePlayers
  <2>2. QED
    BY <2>1, EnvelopeAssumption DEF Markers
<1>2. Kept(asked, Text) = IF v \in Text THEN <<v, Second>> ELSE <<Second>>
  <2>1. PICK V : V = Text \cup {Blank}
    OBVIOUS
  <2>2. <<v>> \in Seq(V) /\ Second \in V /\ v \in V /\ asked = Append(<<v>>, Second)
    BY <2>1, DefaultsArePlayers
  <2>3. Kept(Append(<<v>>, Second), Text) = Append(Kept(<<v>>, Text), Second)
    BY <2>2, DefaultsArePlayers, KeptStep
  <2>4. Kept(<<v>>, Text) = IF v \in Text THEN <<v>> ELSE <<>>
    BY <2>2, KeptOne
  <2>5. <<>> \in Seq(V) /\ Append(<<>>, Second) = <<Second>>
    BY <2>2
  <2>6. QED
    BY <2>2, <2>3, <2>4, <2>5
<1>3. PICK texts : texts = Kept(asked, Text)
  OBVIOUS
<1>4. texts # <<>> /\ ids = [i \in DOMAIN texts |-> Trim(texts[i])]
  <2>1. texts # <<>>
    BY <1>2, <1>3
  <2> HIDE DEF asked
  <2>2. QED
    BY <1>1, <1>3, <2>1, Zenon DEF ResolvePlayerIds
<1> HIDE DEF ids, asked
<1>5. Len(ids) \in 2 .. 4
  BY ValidPlayers DEF ids, asked
<1>6. v \in Text
  <2>1. SUFFICES ASSUME v \notin Text PROVE FALSE
    OBVIOUS
  <2>2. texts = <<Second>>
    BY <1>2, <1>3, <2>1 DEF asked
  <2>3. ids = [i \in 1 .. 1 |-> Trim(texts[i])]
    BY <1>4, <2>2
  <2>4. Len(ids) = 1
    BY <2>3
  <2>5. QED
    BY <1>5, <2>4
<1>7. 1 \in DOMAIN ids /\ ids[1] = Trim(v)
  <2>1. texts = <<v, Second>>
    BY <1>2, <1>3, <1>6 DEF asked
  <2>2. QED
    BY <1>4, <2>1
<1>8. QED
  BY <1>6, <1>7 DEF PageUser, ids, asked

\* A command of the screen is one the server knows.
LEMMA ScreenCommandIs ==
  ASSUME page.user \in Users, page.game \in Names, NEW v \in Nat
  PROVE  LET c == ScreenCommand(v) IN
         /\ c \notin Markers /\ c.payload = TokensPayload /\ c.payload \notin Markers
         /\ c.type = Plain("TAKE_TOKENS") /\ c.type \in Text
         /\ c.gameId = Plain(page.game) /\ c.gameId \in Text
         /\ c.actorId = page.user /\ c.actorId \in Text
         /\ c.expectedVersion = v /\ c.idempotencyKey \in Text
         /\ \A f \in {"type", "gameId", "actorId", "expectedVersion", "idempotencyKey", "payload"} :
              Field(c, f) = c[f]
<1>1. PICK c : c = ScreenCommand(v)
  OBVIOUS
<1>2. PICK t, g, u, p :
        t = Plain("TAKE_TOKENS") /\ g = Plain(page.game) /\ u = page.user /\ p = TokensPayload
  OBVIOUS
<1>3. c = [type |-> t, gameId |-> g, actorId |-> u, expectedVersion |-> v,
          idempotencyKey |-> t, payload |-> p]
  BY <1>1, <1>2 DEF ScreenCommand
<1>4. t \in Text /\ g \in Text /\ u \in Text
  <2>1. "TAKE_TOKENS" \in Names
    BY EnvelopeAssumption
  <2>2. \A n \in Names : Plain(n) \in Text
    BY DEF Plain, Text
  <2>3. QED
    BY <1>2, <2>1, <2>2, UsersAreTexts
<1>5. c \in ScreenCommands
  BY <1>2, <1>3, <1>4 DEF ScreenCommands
<1>6. c \notin Markers /\ p \notin Markers
  BY <1>2, <1>5, LobbyAssumption
<1>7. \A f \in {"type", "gameId", "actorId", "expectedVersion", "idempotencyKey", "payload"} :
        Field(c, f) = c[f]
  BY <1>3, <1>6 DEF Field
<1>8. QED
  BY <1>1, <1>2, <1>3, <1>4, <1>6, <1>7

LEMMA ScreenCommandFits ==
  ASSUME page.user \in Users, page.game \in Names, NEW v \in Nat
  PROVE  IsCommand(ScreenCommand(v)) /\ ValidateCommandEnvelope(ScreenCommand(v)) = "ok"
<1>1. PICK c : c = ScreenCommand(v)
  OBVIOUS
<1>2. IsCommand(c)
  BY <1>1, ScreenCommandIs DEF IsCommand, IsString, IsNumber, IsRecord, Markers
<1>3. TakeTokensPayload(c.payload)
  <2>1. PICK p : p = c.payload
    OBVIOUS
  <2>2. p = [tokens |-> Object, returnedTokens |-> Undefined] /\ p \notin Markers
    BY <1>1, <2>1, ScreenCommandIs DEF TokensPayload
  <2>3. Field(p, "tokens") = Object /\ Field(p, "returnedTokens") = Undefined
    BY <2>2 DEF Field
  <2>4. QED
    BY <2>1, <2>3, EnvelopeAssumption DEF TakeTokensPayload, OptionalRecord, IsRecord
<1>4. ValidateCommandPayload(c.type, c.payload).holds
  <2>1. c.type = Plain("TAKE_TOKENS")
    BY <1>1, ScreenCommandIs
  <2>2. QED
    BY <1>3, <2>1, PayloadCheck
<1>5. ValidateCommandEnvelope(c) = "ok"
  <2> DEFINE checks == <<
        Check(IsNonEmptyString(c.type), "INVALID_TYPE"),
        Check(IsNonEmptyString(c.actorId), "INVALID_ACTOR_ID"),
        Check(c.expectedVersion \in Nat, "INVALID_EXPECTED_VERSION"),
        Check(IsNonEmptyString(c.idempotencyKey), "INVALID_IDEMPOTENCY_KEY"),
        ValidateCommandPayload(c.type, c.payload)>>
  <2>1. DOMAIN checks = 1 .. 5
    OBVIOUS
  <2>2. \A i \in 1 .. 4 : checks[i].holds
    <3>1. c.type \in Text /\ c.actorId \in Text /\ c.expectedVersion \in Nat /\ c.idempotencyKey \in Text
      BY <1>1, ScreenCommandIs
    <3>2. /\ IsNonEmptyString(c.type) /\ IsNonEmptyString(c.actorId)
          /\ IsNonEmptyString(c.idempotencyKey)
      BY <3>1 DEF IsNonEmptyString
    <3>3. checks[1].holds /\ checks[2].holds
      BY <3>2 DEF Check
    <3>4. checks[3].holds /\ checks[4].holds
      BY <3>1, <3>2 DEF Check
    <3> HIDE DEF checks
    <3>5. QED
      BY <3>3, <3>4
  <2>3. checks[5].holds
    BY <1>4
  <2>4. FirstFailure(checks) = "ok"
    <3> HIDE DEF checks
    <3>1. \A i \in 1 .. 5 : checks[i].holds
      BY <2>2, <2>3
    <3>2. QED
      BY <2>1, <3>1, FailureIs
  <2>5. QED
    BY <2>4, Zenon DEF ValidateCommandEnvelope
<1>6. QED
  BY <1>1, <1>2, <1>5

\* What may refuse it is the state of the game alone.
LEMMA ScreenRefusals ==
  ASSUME page.user \in Users, page.game \in Names, NEW v \in Nat, NEW stored
  PROVE  Refusal(Plain(page.game), page.user, ScreenCommand(v), stored)
           \in {"ok", "VERSION_CONFLICT", "STATE_NOT_ACTIVE", "TURN_NOT_CURRENT_PLAYER"}
<1>1. PICK c : c = ScreenCommand(v)
  OBVIOUS
<1>2. IsCommand(c) /\ ValidateCommandEnvelope(c) = "ok"
  BY <1>1, ScreenCommandFits
<1>3. ActorIsUser(page.user, c)
  BY <1>1, ScreenCommandIs, UsersAreTexts DEF ActorIsUser, ResolveAuthUserId
<1> DEFINE checks == <<
      Check(c.gameId = Plain(page.game), "COMMAND_GAME_ID_MISMATCH"),
      Check(ActorIsUser(page.user, c), "UNAUTHORIZED_ACTOR"),
      Check(IsNonEmptyString(c.idempotencyKey), "MISSING_IDEMPOTENCY_KEY"),
      Check(c.expectedVersion = stored.version, "VERSION_CONFLICT"),
      Check(ValidateCommandEnvelope(c) = "ok", ValidateCommandEnvelope(c)),
      Check(stored.status = "IN_PROGRESS", "STATE_NOT_ACTIVE"),
      Check(c.type = Plain("END_TURN") \/ c.actorId = Plain(stored.currentPlayer),
            "TURN_NOT_CURRENT_PLAYER")>>
<1>4. DOMAIN checks = 1 .. 7
  OBVIOUS
<1>5. checks[1].holds /\ checks[2].holds /\ checks[3].holds /\ checks[5].holds
  BY <1>1, <1>2, <1>3, ScreenCommandIs DEF Check, IsNonEmptyString
<1>6. /\ checks[4].reason = "VERSION_CONFLICT" /\ checks[6].reason = "STATE_NOT_ACTIVE"
      /\ checks[7].reason = "TURN_NOT_CURRENT_PLAYER"
  BY DEF Check
<1>7. Refusal(Plain(page.game), page.user, c, stored) = FirstFailure(checks)
  BY <1>2, Zenon DEF Refusal
<1> HIDE DEF checks
<1>8. FirstFailure(checks) = "ok" \/ \E i \in {4, 6, 7} : FirstFailure(checks) = checks[i].reason
  <2>1. \/ FirstFailure(checks) = "ok"
        \/ \E i \in 1 .. 7 : ~checks[i].holds /\ FirstFailure(checks) = checks[i].reason
    BY <1>4, FailureIs
  <2>2. \A i \in 1 .. 7 : ~checks[i].holds => i \in {4, 6, 7}
    BY <1>5
  <2>3. QED
    BY <2>1, <2>2
<1>9. QED
  BY <1>1, <1>6, <1>7, <1>8

LEMMA GameIsMade ==
  ASSUME NEW ids
  PROVE  /\ GameShape(CreateLocalGameContext(ids))
         /\ CreateLocalGameContext(ids).playerOrder = [i \in DOMAIN ids |-> ids[i].name]
BY DEF CreateLocalGameContext, GameShape

\* A game is stored under an id that is free.
LEMMA StoringGrows ==
  ASSUME RegistryFine(games), NEW id \in Names, NEW ids, Vacant(id), StoreGame(id, ids)
  PROVE  Grown(games, games') /\ id \in DOMAIN games' /\ games'[id] = CreateLocalGameContext(ids)
<1>1. PICK new : new = CreateLocalGameContext(ids)
  OBVIOUS
<1>2. games' = [g \in DOMAIN games \cup {id} |-> IF g = id THEN new ELSE games[g]]
  BY <1>1 DEF StoreGame
<1>3. id \notin DOMAIN games
  BY DEF Vacant
<1>4. /\ DOMAIN games' = DOMAIN games \cup {id} /\ games'[id] = new
      /\ \A g \in DOMAIN games : games'[g] = games[g]
  BY <1>2, <1>3
<1>5. RegistryFine(games')
  <2>1. GameShape(new)
    BY <1>1, GameIsMade
  <2>2. ASSUME NEW g \in DOMAIN games'
        PROVE  GameShape(games'[g])
    BY <1>4, <2>1 DEF RegistryFine
  <2>3. DOMAIN games' \subseteq Names
    BY <1>4 DEF RegistryFine
  <2>4. QED
    BY <2>2, <2>3 DEF RegistryFine
<1>6. \A g \in DOMAIN games : games[g].version \in Nat
  BY DEF RegistryFine, GameShape
<1>7. QED
  BY <1>1, <1>4, <1>5, <1>6 DEF Grown

\* A game goes on, and may end.
LEMMA GameMovesOn ==
  ASSUME NEW g, GameShape(g), NEW s
  PROVE  LET h == [g EXCEPT !.version = @ + 1]
             k == [g EXCEPT !.version = @ + 1, !.status = s]
         IN  /\ GameShape(h) /\ h.version = g.version + 1 /\ h.playerOrder = g.playerOrder
             /\ GameShape(k) /\ k.version = g.version + 1 /\ k.playerOrder = g.playerOrder
<1> DEFINE h == [g EXCEPT !["version"] = g["version"] + 1]
           k == [h EXCEPT !["status"] = s]
<1>1. /\ DOMAIN h = DOMAIN g /\ h["version"] = g["version"] + 1
      /\ h["playerOrder"] = g["playerOrder"]
  BY DEF GameShape
<1>2. DOMAIN k = DOMAIN h /\ k["version"] = h["version"] /\ k["playerOrder"] = h["playerOrder"]
  BY <1>1 DEF GameShape
<1>3. GameShape(h) /\ GameShape(k)
  BY <1>1, <1>2 DEF GameShape
<1>4. QED
  BY <1>1, <1>2, <1>3

LEMMA PlayingGrows ==
  ASSUME RegistryFine(games), NEW id \in DOMAIN games,
         \/ games' = [games EXCEPT ![id].version = @ + 1]
         \/ games' = [games EXCEPT ![id].version = @ + 1, ![id].status = "ENDED"]
  PROVE  Grown(games, games')
<1>1. PICK g : g = games[id]
  OBVIOUS
<1>2. GameShape(g) /\ g.version \in Nat
  BY <1>1 DEF RegistryFine, GameShape
<1>3. PICK h : /\ games' = [games EXCEPT ![id] = h] /\ GameShape(h)
              /\ h.version = g.version + 1 /\ h.playerOrder = g.playerOrder
  <2>1. CASE games' = [games EXCEPT ![id].version = @ + 1]
    <3>1. games' = [games EXCEPT ![id] = [g EXCEPT !.version = @ + 1]]
      BY <1>1, <2>1
    <3>2. QED
      BY <1>2, <3>1, GameMovesOn
  <2>2. CASE games' = [games EXCEPT ![id].version = @ + 1, ![id].status = "ENDED"]
    <3>1. games' = [games EXCEPT ![id] = [g EXCEPT !.version = @ + 1, !.status = "ENDED"]]
      BY <1>1, <2>2
    <3>2. QED
      BY <1>2, <3>1, GameMovesOn
  <2>3. QED
    BY <2>1, <2>2
<1>4. /\ DOMAIN games' = DOMAIN games /\ games'[id] = h
      /\ \A i \in DOMAIN games : i # id => games'[i] = games[i]
  BY <1>3
<1>5. RegistryFine(games')
  BY <1>3, <1>4 DEF RegistryFine
<1>6. \A i \in DOMAIN games : games[i].version \in Nat
  BY DEF RegistryFine, GameShape
<1>7. QED
  BY <1>1, <1>2, <1>3, <1>4, <1>5, <1>6 DEF Grown

\* A step of the tab: the registry grows, and what is known stays true.
Moved == Grown(games, games') /\ TabInv'

LEMMA RequestKept ==
  ASSUME NEW r \in RequestSet, NEW from \in {"shown", "left", "closed"}
  PROVE  LET h == [r EXCEPT !.from = from] IN
         h \in RequestSet /\ h.kind = r.kind /\ h.user = r.user /\ h.game = r.game /\ h.at = r.at
BY DEF RequestSet

LEMMA RequestAltered ==
  ASSUME NEW r \in RequestSet, NEW at \in {"asked", "found", "refused", "lost", "done"}
  PROVE  LET h == [r EXCEPT !.at = at] IN
         h \in RequestSet /\ h.kind = r.kind /\ h.user = r.user /\ h.game = r.game /\ h.at = at
BY DEF RequestSet

LEMMA RequestFilled ==
  ASSUME NEW r \in RequestSet, NEW id \in Names
  PROVE  LET h == [r EXCEPT !.at = "found", !.game = id] IN
         h \in RequestSet /\ h.kind = r.kind /\ h.user = r.user /\ h.game = id /\ h.at = "found"
BY DEF RequestSet

\* Requests one by one.
LEMMA RequestsChanged ==
  ASSUME NEW reg, requests \in Seq(RequestSet),
         requests' = [j \in DOMAIN requests |-> requests'[j]],
         \A j \in DOMAIN requests : requests'[j] \in RequestSet /\ RequestFine(requests'[j], reg)
  PROVE  RequestsFine(requests', reg)
<1>1. DOMAIN requests = 1 .. Len(requests) /\ Len(requests) \in Nat
  OBVIOUS
<1>2. requests' \in [1 .. Len(requests) -> RequestSet]
  BY <1>1
<1>3. requests' \in Seq(RequestSet)
  BY <1>1, <1>2
<1>4. DOMAIN requests' = DOMAIN requests
  BY <1>1, <1>2
<1>5. QED
  BY <1>3, <1>4 DEF RequestsFine

LEMMA SameRegistry ==
  ASSUME TabInv, games' = games, RequestsFine(requests', games),
         page' \in PageSet, PageFine(page', games), userId' \in Text \cup {Blank},
         pending' \in BOOLEAN, ScreenIsAuthorised'
  PROVE  Moved
BY NotGrown DEF TabInv, Moved

\* The tab shows another page.
LEMMA PageChanges ==
  ASSUME TabInv, games' = games, RequestsFine(requests', games),
         NEW p \in PageSet, PageFine(p, games),
         page' = p, userId' = p.user, pending' = FALSE, answer' = "none"
  PROVE  Moved
<1>1. p.user \in Users
  BY DEF PageSet
<1>2. userId' \in Text \cup {Blank}
  BY <1>1, UsersAreTexts
<1>3. ScreenIsAuthorised'
  BY DEF ScreenIsAuthorised
<1>4. QED
  BY <1>2, <1>3, SameRegistry

LEMMA RequestLeft ==
  ASSUME TabInv, NEW j \in DOMAIN requests, NEW from \in {"shown", "left", "closed"}
  PROVE  LET h == [requests[j] EXCEPT !.from = from] IN h \in RequestSet /\ RequestFine(h, games)
<1>1. requests[j] \in RequestSet /\ RequestFine(requests[j], games)
  BY DEF TabInv, RequestsFine
<1>2. PICK h : h = [requests[j] EXCEPT !.from = from]
  OBVIOUS
<1>3. /\ h \in RequestSet /\ h.kind = requests[j].kind /\ h.user = requests[j].user
      /\ h.game = requests[j].game /\ h.at = requests[j].at
  BY <1>1, <1>2, RequestKept
<1>4. RequestFine(h, games)
  BY <1>1, <1>3 DEF RequestFine
<1>5. QED
  BY <1>2, <1>3, <1>4

LEMMA LeaveOrLoad ==
  ASSUME TabInv, games' = games, NEW p \in PageSet, PageFine(p, games), Leave(p) \/ Load(p)
  PROVE  Moved
<1>1. requests \in Seq(RequestSet)
  BY DEF TabInv, RequestsFine
<1>2. \A j \in DOMAIN requests : requests[j].from \in {"shown", "left", "closed"}
  <2>1. ASSUME NEW j \in DOMAIN requests
        PROVE  requests[j].from \in {"shown", "left", "closed"}
    <3>1. requests[j] \in RequestSet
      BY <1>1
    <3>2. QED
      BY <3>1 DEF RequestSet
  <2>2. QED
    BY <2>1
<1>3. RequestsFine(requests', games)
  <2>1. CASE Leave(p)
    <3>1. requests' = [j \in DOMAIN requests |->
                        [requests[j] EXCEPT !.from = IF @ = "shown" THEN "left" ELSE @]]
      BY <2>1 DEF Leave
    <3>2. ASSUME NEW j \in DOMAIN requests
          PROVE  requests'[j] \in RequestSet /\ RequestFine(requests'[j], games)
      <4>1. PICK from \in {"shown", "left", "closed"} :
              from = IF requests[j].from = "shown" THEN "left" ELSE requests[j].from
        BY <1>2
      <4>2. requests'[j] = [requests[j] EXCEPT !.from = from]
        BY <3>1, <4>1
      <4>3. QED
        BY <4>2, RequestLeft
    <3>3. requests' = [j \in DOMAIN requests |-> requests'[j]]
      BY <3>1
    <3>4. QED
      BY <1>1, <3>2, <3>3, RequestsChanged
  <2>2. CASE Load(p)
    <3>1. requests' = [j \in DOMAIN requests |-> [requests[j] EXCEPT !.from = "closed"]]
      BY <2>2 DEF Load
    <3>2. ASSUME NEW j \in DOMAIN requests
          PROVE  requests'[j] \in RequestSet /\ RequestFine(requests'[j], games)
      <4>1. requests'[j] = [requests[j] EXCEPT !.from = "closed"]
        BY <3>1
      <4>2. QED
        BY <4>1, RequestLeft
    <3>3. requests' = [j \in DOMAIN requests |-> requests'[j]]
      BY <3>1
    <3>4. QED
      BY <1>1, <3>2, <3>3, RequestsChanged
  <2>3. QED
    BY <2>1, <2>2
<1>4. page' = p /\ userId' = p.user /\ pending' = FALSE /\ answer' = "none"
  BY DEF Leave, Load
<1>5. QED
  BY <1>3, <1>4, PageChanges

\* Pages that are not reached by a request.
LEMMA PlainPages ==
  ASSUME NEW u \in Users, NEW via \in {"link", "address"}, NEW reg
  PROVE  /\ \A at \in {"login", "denied", "lobby"} :
              /\ Page(at, Undefined, u, via) \in PageSet
              /\ PageFine(Page(at, Undefined, u, via), reg)
         /\ \A at \in {"game", "victory"}, id \in Names :
              /\ Page(at, id, u, via) \in PageSet
              /\ PageFine(Page(at, id, u, via), reg)
<1>1. Undefined \notin Names
  BY EnvelopeAssumption
<1>2. QED
  BY <1>1 DEF Page, PageSet, PageFine

LEMMA BetweenPages ==
  ASSUME TabInv,
         BackToLogin \/ LeaveMatch \/ LeaveVictory \/ GoVictory
           \/ (\E typed \in Typed : Login(typed))
           \/ \E id \in FreshIds, v \in Typed, at \in {"lobby", "game", "victory"} : Visit(at, id, v)
  PROVE  Moved
<1>1. page \in PageSet /\ PageFine(page, games)
  BY DEF TabInv
<1>2. page.user \in Users
  BY <1>1 DEF PageSet
<1>3. CASE BackToLogin
  BY <1>3, LeaveOrLoad, PlainPages, DefaultsArePlayers DEF BackToLogin, NoGame
<1>4. CASE LeaveMatch
  BY <1>4, LeaveOrLoad, PlainPages, DefaultsArePlayers DEF LeaveMatch, NoGame
<1>5. ASSUME NEW at \in {"game", "victory"}, page.at \in {"game", "victory"}
      PROVE  LET p == Page(at, page.game, page.user, page.via)
             IN  p \in PageSet /\ PageFine(p, games)
  BY <1>1, <1>5 DEF PageSet, PageFine, Page
<1>6. CASE LeaveVictory
  BY <1>2, <1>5, <1>6, LeaveOrLoad, PlainPages DEF LeaveVictory
<1>7. CASE GoVictory
  BY <1>5, <1>7, LeaveOrLoad DEF GoVictory
<1>8. ASSUME NEW typed \in Typed, Login(typed)
      PROVE  Moved
  <2>1. PageUser(Trim(typed)) \in Users /\ Default \in Users
    BY PageUserIsUser, DefaultsArePlayers
  <2>2. QED
    BY <1>8, <2>1, LeaveOrLoad, PlainPages DEF Login, NoGame
<1>9. ASSUME NEW id \in FreshIds, NEW v \in Typed, NEW at \in {"lobby", "game", "victory"},
             Visit(at, id, v)
      PROVE  Moved
  <2>1. PageUser(v) \in Users /\ id \in Names
    BY PageUserIsUser, LobbyAssumption
  <2>2. QED
    BY <1>9, <2>1, LeaveOrLoad, PlainPages DEF Visit
<1>10. QED
  BY <1>3, <1>4, <1>6, <1>7, <1>8, <1>9

\* The lobby asks for a game.
LEMMA Asking ==
  ASSUME TabInv, NEW kind \in {"create", "join"}, NEW id \in Names \cup {Undefined},
         kind = "join" => id \in Names, Ask(kind, id)
  PROVE  Moved
<1> DEFINE r == [kind |-> kind, user |-> userId, game |-> id, at |-> "asked", from |-> "shown"]
<1>1. r \in RequestSet /\ RequestFine(r, games)
  BY DEF TabInv, RequestSet, RequestFine
<1>2. requests' = Append(requests, r)
  BY DEF Ask
<1>3. requests \in Seq(RequestSet) /\ \A i \in DOMAIN requests : RequestFine(requests[i], games)
  BY DEF TabInv, RequestsFine
<1> HIDE DEF r
<1>4. requests' \in Seq(RequestSet) /\ Len(requests') = Len(requests) + 1
  BY <1>1, <1>2, <1>3
<1>5. ASSUME NEW i \in DOMAIN requests'
      PROVE  RequestFine(requests'[i], games)
  <2>1. (i \in DOMAIN requests /\ requests'[i] = requests[i]) \/ requests'[i] = r
    BY <1>1, <1>2, <1>3, <1>4
  <2>2. QED
    BY <1>1, <1>3, <2>1
<1>6. RequestsFine(requests', games)
  BY <1>4, <1>5 DEF RequestsFine
<1>7. ScreenIsAuthorised'
  BY DEF Ask, TabInv, ScreenIsAuthorised
<1>8. /\ games' = games /\ page' \in PageSet /\ PageFine(page', games)
      /\ userId' \in Text \cup {Blank} /\ pending' \in BOOLEAN
  BY DEF Ask, TabInv
<1>9. QED
  BY <1>6, <1>7, <1>8, SameRegistry

\* One request changes.
LEMMA OneRequestChanged ==
  ASSUME RequestsFine(requests, games), NEW reg, Grown(games, reg), NEW i \in DOMAIN requests,
         NEW r \in RequestSet, RequestFine(r, reg), requests' = [requests EXCEPT ![i] = r]
  PROVE  RequestsFine(requests', reg)
<1>1. requests \in Seq(RequestSet) /\ \A j \in DOMAIN requests : RequestFine(requests[j], reg)
  BY GrowthKeepsRequests DEF RequestsFine
<1>2. requests' \in Seq(RequestSet) /\ DOMAIN requests' = DOMAIN requests
  BY <1>1
<1>3. \A j \in DOMAIN requests : requests'[j] = IF j = i THEN r ELSE requests[j]
  BY <1>1
<1>4. QED
  BY <1>1, <1>2, <1>3 DEF RequestsFine

LEMMA Requested ==
  ASSUME TabInv, NEW i \in DOMAIN requests
  PROVE  /\ requests[i] \in RequestSet /\ RequestFine(requests[i], games)
         /\ requests[i].kind \in {"create", "join"} /\ requests[i].user \in Text \cup {Blank}
         /\ requests[i].game \in Names \cup {Undefined}
         /\ requests[i].at \in {"asked", "found", "refused", "lost", "done"}
         /\ requests[i].from \in {"shown", "left", "closed"}
<1>1. requests[i] \in RequestSet /\ RequestFine(requests[i], games)
  BY DEF TabInv, RequestsFine
<1>2. QED
  BY <1>1 DEF RequestSet

\* A request is answered, and nothing else changes.
LEMMA RequestAnswered ==
  ASSUME TabInv, UNCHANGED <<games, page, userId, answer>>, pending' \in BOOLEAN,
         NEW i \in DOMAIN requests, NEW at \in {"found", "refused", "lost", "done"},
         at = "found" => requests[i].kind = "join" /\ requests[i].game \in DOMAIN games,
         requests' = [requests EXCEPT ![i].at = at]
  PROVE  Moved
<1>1. PICK r : r = [requests[i] EXCEPT !.at = at]
  OBVIOUS
<1>2. requests' = [requests EXCEPT ![i] = r]
  BY <1>1
<1>3. /\ r \in RequestSet /\ r.kind = requests[i].kind /\ r.user = requests[i].user
      /\ r.game = requests[i].game /\ r.at = at
  <2>1. requests[i] \in RequestSet
    BY Requested
  <2>2. at \in {"asked", "found", "refused", "lost", "done"}
    OBVIOUS
  <2>3. QED
    BY <1>1, <2>1, <2>2, RequestAltered, Zenon
<1>4. RequestFine(r, games)
  BY <1>3, Requested DEF RequestFine
<1>5. RequestsFine(requests', games)
  BY <1>2, <1>3, <1>4, OneRequestChanged, NotGrown DEF TabInv
<1>6. ScreenIsAuthorised'
  BY DEF TabInv, ScreenIsAuthorised
<1>7. QED
  BY <1>5, <1>6, SameRegistry DEF TabInv

\* The server answers a request for a new game.
LEMMA Creating ==
  ASSUME TabInv, NEW i \in DOMAIN requests, NEW fresh \in FreshIds, ServeCreate(i, fresh)
  PROVE  Moved
<1> DEFINE ids == ResolvePlayerIds(<<requests[i].user, Second>>)
<1>1. requests[i].kind = "create" /\ UNCHANGED <<page, userId, pending, answer>>
  BY DEF ServeCreate
<1>2. CASE ~MayCreate(fresh, ids)
  <2>1. requests' = [requests EXCEPT ![i].at = "refused"] /\ games' = games
    BY <1>2 DEF ServeCreate
  <2>2. QED
    BY <1>1, <2>1, RequestAnswered DEF TabInv
<1>3. CASE MayCreate(fresh, ids)
  <2>1. /\ StoreGame(fresh, ids) /\ Vacant(fresh) /\ ValidatePlayerIds(ids) = "ok"
        /\ requests' = [requests EXCEPT ![i].at = "found", ![i].game = fresh]
    BY <1>3 DEF ServeCreate, MayCreate
  <2>2. fresh \in Names
    BY LobbyAssumption
  <2>3. 1 \in DOMAIN ids /\ ids[1].name = PageUser(requests[i].user).name
    BY <2>1, Requested, LobbyPlayers
  <2> HIDE DEF ids
  <2>4. /\ Grown(games, games') /\ fresh \in DOMAIN games'
        /\ games'[fresh] = CreateLocalGameContext(ids)
    BY <2>1, <2>2, StoringGrows DEF TabInv
  <2>5. games'[fresh].playerOrder[1] = ids[1].name
    <3>1. games'[fresh].playerOrder = [j \in DOMAIN ids |-> ids[j].name]
      BY <2>4, GameIsMade
    <3>2. QED
      BY <2>3, <3>1
  <2>6. Creator(games', requests[i].user, fresh)
    <3>1. \A u \in Users : Plain(u.name) = u
      BY DEF Users, Plain
    <3>2. PageUser(requests[i].user) \in Users
      BY PageUserIsUser
    <3>3. QED
      BY <2>3, <2>4, <2>5, <3>1, <3>2 DEF Creator
  <2>7. PICK r : r = [requests[i] EXCEPT !.at = "found", !.game = fresh]
    OBVIOUS
  <2>8. requests' = [requests EXCEPT ![i] = r]
    BY <2>1, <2>7
  <2>9. /\ r \in RequestSet /\ r.kind = requests[i].kind /\ r.user = requests[i].user
        /\ r.game = fresh /\ r.at = "found"
    <3>1. requests[i] \in RequestSet
      BY Requested
    <3>2. QED
      BY <2>2, <2>7, <3>1, RequestFilled
  <2>10. RequestFine(r, games')
    BY <1>1, <2>4, <2>6, <2>9 DEF RequestFine
  <2>11. RequestsFine(requests', games')
    BY <2>4, <2>8, <2>9, <2>10, OneRequestChanged DEF TabInv
  <2>12. PageFine(page', games')
    BY <1>1, <2>4, GrowthKeepsPage DEF TabInv
  <2>13. QED
    BY <1>1, <2>4, <2>11, <2>12 DEF Moved, TabInv, ScreenIsAuthorised, Grown
<1>4. QED
  BY <1>2, <1>3

\* The answer to a request moves the tab to its game.
LEMMA Arriving ==
  ASSUME TabInv, NEW i \in DOMAIN requests, Found(i)
  PROVE  Moved
<1>1. PICK r : r = requests[i]
  OBVIOUS
<1>2. /\ r.at = "found" /\ games' = games /\ page' = PageFor(r) /\ userId' = PageFor(r).user
      /\ pending' = FALSE /\ answer' = "none"
  BY <1>1 DEF Found, Arrived
<1>3. /\ r \in RequestSet /\ RequestFine(r, games) /\ r.kind \in {"create", "join"}
  BY <1>1, Requested
<1>4. DOMAIN games \subseteq Names
  BY DEF TabInv, RegistryFine
<1>5. PageFor(r) \in PageSet /\ PageFine(PageFor(r), games)
  <2>1. PICK u \in Users : u = PageUser(r.user)
    BY PageUserIsUser
  <2>2. PageUser(u) = u
    BY UsersAreTexts
  <2>3. PICK p : p = PageFor(r)
    OBVIOUS
  <2>4. p = [at |-> "game", game |-> r.game, user |-> u, via |-> r.kind]
    BY <2>1, <2>3 DEF PageFor, Page
  <2>5. r.game \in DOMAIN games /\ (r.kind = "create" => Creator(games, r.user, r.game))
    BY <1>2, <1>3 DEF RequestFine
  <2>6. p \in PageSet
    BY <1>3, <1>4, <2>4, <2>5 DEF PageSet
  <2>7. p.via = "create" => Creator(games, p.user, p.game)
    BY <2>1, <2>2, <2>4, <2>5 DEF Creator
  <2>8. PageFine(p, games)
    BY <1>4, <2>4, <2>5, <2>7 DEF PageFine
  <2>9. QED
    BY <2>3, <2>6, <2>8
<1>6. RequestsFine(requests', games)
  <2>1. requests' = [j \in DOMAIN requests |->
          IF j = i THEN [requests[i] EXCEPT !.at = "done"]
          ELSE [requests[j] EXCEPT !.from = IF @ = "shown" THEN "left" ELSE @]]
    BY DEF Found
  <2>2. ASSUME NEW j \in DOMAIN requests, j # i
        PROVE  requests'[j] \in RequestSet /\ RequestFine(requests'[j], games)
    <3>1. PICK from \in {"shown", "left", "closed"} :
            from = IF requests[j].from = "shown" THEN "left" ELSE requests[j].from
      BY Requested
    <3>2. requests'[j] = [requests[j] EXCEPT !.from = from]
      BY <2>1, <2>2, <3>1
    <3>3. QED
      BY <3>2, RequestLeft
  <2>3. requests'[i] \in RequestSet /\ RequestFine(requests'[i], games)
    <3>1. PICK h : h = [r EXCEPT !.at = "done"]
      OBVIOUS
    <3>2. h \in RequestSet /\ h.kind = r.kind /\ h.game = r.game /\ h.at = "done"
      BY <1>3, <3>1, RequestAltered
    <3>3. requests'[i] = h
      BY <1>1, <2>1, <3>1
    <3>4. RequestFine(h, games)
      BY <1>3, <3>2 DEF RequestFine
    <3>5. QED
      BY <3>2, <3>3, <3>4
  <2>4. requests' = [j \in DOMAIN requests |-> requests'[j]]
    BY <2>1
  <2>5. requests \in Seq(RequestSet)
    BY DEF TabInv, RequestsFine
  <2>6. QED
    BY <2>2, <2>3, <2>4, <2>5, RequestsChanged
<1>7. QED
  BY <1>2, <1>5, <1>6, PageChanges

LEMMA Answering ==
  ASSUME TabInv, NEW i \in DOMAIN requests, ServeJoin(i) \/ Refused(i)
  PROVE  Moved
<1>1. CASE ServeJoin(i)
  <2>1. PICK at \in {"found", "refused"} :
          at = IF requests[i].game \in DOMAIN games THEN "found" ELSE "refused"
    OBVIOUS
  <2>2. requests' = [requests EXCEPT ![i].at = at]
    BY <1>1, <2>1 DEF ServeJoin
  <2>3. QED
    BY <1>1, <2>1, <2>2, RequestAnswered DEF ServeJoin, TabInv
<1>2. CASE Refused(i)
  <2>1. PICK at \in {"lost", "done"} : at = IF requests[i].at = "asked" THEN "lost" ELSE "done"
    OBVIOUS
  <2>2. requests' = [requests EXCEPT ![i].at = at]
    BY <1>2, <2>1 DEF Refused
  <2>3. pending' \in BOOLEAN
    BY <1>2 DEF Refused, TabInv
  <2>4. QED
    BY <1>2, <2>1, <2>2, <2>3, RequestAnswered DEF Refused
<1>3. QED
  BY <1>1, <1>2

\* The registry grows and the page stays.
LEMMA OnlyGames ==
  ASSUME TabInv, Grown(games, games'), UNCHANGED <<page, userId, pending, requests>>,
         ScreenIsAuthorised'
  PROVE  Moved
<1>1. RequestsFine(requests', games')
  BY GrowthKeepsRequests DEF TabInv
<1>2. PageFine(page', games')
  BY GrowthKeepsPage DEF TabInv
<1>3. QED
  BY <1>1, <1>2 DEF Moved, TabInv, Grown

LEMMA Playing ==
  ASSUME TabInv,
         \/ \E id \in FreshIds : OthersPlay(id) \/ \E body \in ApiBodies : ApiCreate(body, id)
         \/ \E v \in 1 .. MaxVersion : SendCommand(v)
  PROVE  Moved
<1>1. RegistryFine(games)
  BY DEF TabInv
<1>2. ASSUME NEW id \in FreshIds, OthersPlay(id)
      PROVE  Moved
  <2>1. Grown(games, games')
    BY <1>1, <1>2, PlayingGrows DEF OthersPlay
  <2>2. QED
    BY <1>2, <2>1, OnlyGames DEF OthersPlay, TabInv, ScreenIsAuthorised
<1>3. ASSUME NEW fresh \in FreshIds, NEW body \in ApiBodies, ApiCreate(body, fresh)
      PROVE  Moved
  <2>1. PICK id, ids : /\ id = ResolveGameId(body.gameId, fresh) /\ ids = PlayersAsked(body)
    OBVIOUS
  <2>2. Vacant(id) /\ StoreGame(id, ids)
    BY <1>3, <2>1 DEF ApiCreate, MayCreate
  <2>3. id \in Names
    BY <2>1, TrimmedText, LobbyAssumption DEF ResolveGameId
  <2>4. Grown(games, games')
    BY <1>1, <2>2, <2>3, StoringGrows
  <2>5. QED
    BY <1>3, <2>4, OnlyGames DEF ApiCreate, TabInv, ScreenIsAuthorised
<1>4. ASSUME NEW v \in 1 .. MaxVersion, SendCommand(v)
      PROVE  Moved
  <2>1. page.at = "game" /\ page.game \in DOMAIN games /\ page.user \in Users /\ v \in Nat
    BY <1>4, LobbyAssumption DEF SendCommand, TabInv, PageSet
  <2>2. page.game \in Names
    BY <1>1, <2>1 DEF RegistryFine
  <2>3. PICK refusal :
          refusal = Refusal(Plain(page.game), page.user, ScreenCommand(v), games[page.game])
    OBVIOUS
  <2>4. refusal \in {"ok", "VERSION_CONFLICT", "STATE_NOT_ACTIVE", "TURN_NOT_CURRENT_PLAYER"}
    BY <2>1, <2>2, <2>3, ScreenRefusals
  <2>5. \/ answer' = "SEND_FAILED" /\ games' = games
        \/ answer' = refusal /\ refusal # "ok" /\ games' = games
        \/ answer' = "accepted" /\ games' = [games EXCEPT ![page.game].version = @ + 1]
    BY <1>4, <2>3 DEF SendCommand
  <2>6. ScreenIsAuthorised'
    BY <2>4, <2>5 DEF ScreenIsAuthorised
  <2>7. Grown(games, games')
    BY <1>1, <2>1, <2>5, PlayingGrows, NotGrown
  <2>8. QED
    BY <1>4, <2>6, <2>7, OnlyGames DEF SendCommand
<1>5. QED
  BY <1>2, <1>3, <1>4

LEMMA TabMoves == TabInv /\ [Next]_vars => Moved
<1> SUFFICES ASSUME TabInv, [Next]_vars
             PROVE  Moved
  OBVIOUS
<1>1. CASE UNCHANGED vars
  <2>1. games' = games
    BY <1>1 DEF vars
  <2>2. QED
    BY <1>1, <2>1, SameRegistry DEF vars, TabInv, ScreenIsAuthorised
<1>2. CASE AskCreate
  BY <1>2, Asking DEF AskCreate
<1>3. ASSUME NEW typed \in Typed, EditUser(typed)
      PROVE  Moved
  <2>1. typed \in Text \cup {Blank} /\ games' = games
    BY <1>3, LobbyAssumption DEF EditUser
  <2>2. QED
    BY <1>3, <2>1, SameRegistry DEF EditUser, TabInv, ScreenIsAuthorised
<1>4. ASSUME NEW id \in FreshIds, AskJoin(id)
      PROVE  Moved
  BY <1>4, Asking, LobbyAssumption DEF AskJoin
<1>5. QED
  <2>1. ASSUME NEW i \in DOMAIN requests,
               ServeJoin(i) \/ Found(i) \/ Refused(i) \/ \E fresh \in FreshIds : ServeCreate(i, fresh)
        PROVE  Moved
    BY <2>1, Arriving, Answering, Creating
  <2>2. QED
    BY <1>1, <1>2, <1>3, <1>4, <2>1, BetweenPages, Playing DEF Next

LEMMA TabInit == Init => TabInv
<1> SUFFICES ASSUME Init PROVE TabInv
  OBVIOUS
<1>1. NoGame("login") \in PageSet /\ PageFine(NoGame("login"), games)
  BY PlainPages, DefaultsArePlayers DEF NoGame
<1>2. Default \in Text
  BY DefaultsArePlayers, UsersAreTexts
<1>3. games = <<>> /\ requests = <<>>
  BY DEF Init
<1>4. RegistryFine(games)
  BY <1>3 DEF RegistryFine
<1>5. RequestsFine(requests, games)
  BY <1>3 DEF RequestsFine
<1>6. QED
  BY <1>1, <1>2, <1>4, <1>5 DEF Init, TabInv, ScreenIsAuthorised

LEMMA TabIsKnown == Spec => []TabInv
<1>1. TabInv /\ [Next]_vars => TabInv'
  BY TabMoves DEF Moved
<1>2. QED
  BY <1>1, TabInit, PTL DEF Spec

\* A tab that comes to a game by the forms is in the game its answers named,
\* in the name its commands are accepted in, for any names, ids and bodies.
THEOREM TabIsRight == Spec => []LobbyInv
<1>1. TabInv => LobbyInv
  <2> SUFFICES ASSUME TabInv PROVE LobbyInv
    OBVIOUS
  <2>1. page \in PageSet /\ PageFine(page, games)
    BY DEF TabInv
  <2>2. page.at \in {"login", "denied", "lobby", "game", "victory"} /\ page.user \in Users
    BY <2>1 DEF PageSet
  <2>3. LobbyTypeOK
    BY <2>1, <2>2, Requested DEF TabInv, PageFine, Users, LobbyTypeOK, RequestFine
  <2>4. LobbyOpensKnownGames
    BY <2>1 DEF PageFine, LobbyOpensKnownGames
  <2>5. CreatorHasFirstSeat
    BY <2>1, <2>2, UsersAreTexts DEF PageFine, Creator, CreatorHasFirstSeat
  <2>6. QED
    BY <2>3, <2>4, <2>5 DEF LobbyInv, TabInv
<1>2. QED
  BY <1>1, TabIsKnown, PTL

\* No game is started anew under the id of another.
THEOREM NoGameReplaced == Spec => GamesNeverReplaced
<1>1. TabInv /\ [Next]_vars =>
        [\A id \in FreshIds : id \in DOMAIN games =>
           /\ id \in DOMAIN games' /\ games'[id].playerOrder = games[id].playerOrder
           /\ games'[id].version >= games[id].version
           /\ games'[id].version = games[id].version => games'[id] = games[id]]_vars
  BY TabMoves DEF Moved, Grown
<1>2. QED
  BY <1>1, TabIsKnown, PTL DEF Spec, GamesNeverReplaced

\* A game as the rules expect it to start: two to four distinct players.
Seated(g) ==
  \E ids \in Seq(Users) :
    /\ Len(ids) \in 2 .. 4 /\ IsInjective([i \in DOMAIN ids |-> ids[i].name])
    /\ g = CreateLocalGameContext(ids)

SeatedInv ==
  \A id \in DOMAIN games :
    games[id].version >= 1 /\ (games[id].version = 1 => Seated(games[id]))

LEMMA ValidIsSeated ==
  ASSUME NEW v \in {Undefined, Other} \cup Seq(Text \cup Markers),
         ValidatePlayerIds(ResolvePlayerIds(v)) = "ok"
  PROVE  LET g == CreateLocalGameContext(ResolvePlayerIds(v)) IN Seated(g) /\ g.version = 1
<1>1. PICK ids \in Seq(Users) : ids = ResolvePlayerIds(v)
  BY PlayersAreUsers
<1>2. Len(ids) \in 2 .. 4 /\ IsInjective([i \in DOMAIN ids |-> Trim(ids[i])])
  BY <1>1, ValidPlayers
<1>3. \A i \in DOMAIN ids : Trim(ids[i]) = ids[i] /\ ids[i] = Plain(ids[i].name)
  <2>1. ASSUME NEW i \in DOMAIN ids
        PROVE  Trim(ids[i]) = ids[i] /\ ids[i] = Plain(ids[i].name)
    <3>1. ids[i] \in Users
      BY <1>1
    <3>2. PICK u \in Users : u = ids[i]
      BY <3>1
    <3>3. Trim(u) = u
      BY UsersAreTexts
    <3>4. u = Plain(u.name)
      BY DEF Users, Plain
    <3>5. QED
      BY <3>2, <3>3, <3>4
  <2>2. QED
    BY <2>1
<1>4. IsInjective([i \in DOMAIN ids |-> ids[i].name])
  <2>1. \A i, j \in DOMAIN ids : Trim(ids[i]) = Trim(ids[j]) => i = j
    BY <1>2 DEF IsInjective
  <2>2. \A i, j \in DOMAIN ids : ids[i].name = ids[j].name => i = j
    BY <1>3, <2>1
  <2>3. QED
    BY <2>2 DEF IsInjective
<1>5. Seated(CreateLocalGameContext(ids))
  BY <1>2, <1>4 DEF Seated
<1>6. CreateLocalGameContext(ids).version = 1
  BY DEF CreateLocalGameContext
<1>7. QED
  BY <1>1, <1>5, <1>6

LEMMA NewGamesSeated ==
  ASSUME TabInv, [Next]_vars, NEW id \in DOMAIN games', id \notin DOMAIN games
  PROVE  Seated(games'[id]) /\ games'[id].version = 1
<1>1. ASSUME NEW made \in Names, NEW v \in {Undefined, Other} \cup Seq(Text \cup Markers),
             MayCreate(made, ResolvePlayerIds(v)), StoreGame(made, ResolvePlayerIds(v))
      PROVE  Seated(games'[id]) /\ games'[id].version = 1
  <2>1. PICK g : g = CreateLocalGameContext(ResolvePlayerIds(v))
    OBVIOUS
  <2>2. Seated(g) /\ g.version = 1
    BY <1>1, <2>1, ValidIsSeated DEF MayCreate
  <2>3. games' = [h \in DOMAIN games \cup {made} |-> IF h = made THEN g ELSE games[h]]
    BY <1>1, <2>1 DEF StoreGame
  <2>4. games'[id] = g
    BY <2>3
  <2>5. QED
    BY <2>2, <2>4
<1>2. ASSUME DOMAIN games' = DOMAIN games
      PROVE  FALSE
  BY <1>2
<1>3. ASSUME NEW body \in ApiBodies, NEW fresh \in FreshIds, ApiCreate(body, fresh)
      PROVE  Seated(games'[id]) /\ games'[id].version = 1
  <2>1. ResolveGameId(body.gameId, fresh) \in Names
    BY TrimmedText, LobbyAssumption DEF ResolveGameId
  <2>2. body.playerIds \in {Undefined, Other} \cup Seq(Text \cup Markers)
    BY LobbyAssumption
  <2>3. QED
    BY <1>1, <1>3, <2>1, <2>2 DEF ApiCreate, PlayersAsked
<1>4. ASSUME NEW i \in DOMAIN requests, NEW fresh \in FreshIds, ServeCreate(i, fresh)
      PROVE  Seated(games'[id]) /\ games'[id].version = 1
  <2>1. PICK v : v = <<requests[i].user, Second>>
    OBVIOUS
  <2>2. v \in Seq(Text \cup Markers)
    <3>1. requests[i].user \in Text \cup Markers /\ Second \in Text \cup Markers
      BY Requested, DefaultsArePlayers DEF Markers
    <3>2. QED
      BY <2>1, <3>1
  <2>3. fresh \in Names
    BY LobbyAssumption
  <2>4. CASE MayCreate(fresh, ResolvePlayerIds(v))
    BY <1>1, <1>4, <2>1, <2>2, <2>3, <2>4 DEF ServeCreate
  <2>5. CASE ~MayCreate(fresh, ResolvePlayerIds(v))
    BY <1>2, <1>4, <2>1, <2>5 DEF ServeCreate
  <2>6. QED
    BY <2>4, <2>5
<1>5. ASSUME NEW other \in FreshIds, OthersPlay(other)
      PROVE  DOMAIN games' = DOMAIN games
  BY <1>5 DEF OthersPlay
<1>6. ASSUME NEW v \in 1 .. MaxVersion, SendCommand(v)
      PROVE  DOMAIN games' = DOMAIN games
  BY <1>6 DEF SendCommand
<1>7. ASSUME NEW i \in DOMAIN requests, ServeJoin(i) \/ Found(i) \/ Refused(i)
      PROVE  games' = games
  BY <1>7 DEF ServeJoin, Found, Refused
<1>8. ASSUME \/ BackToLogin \/ LeaveMatch \/ LeaveVictory \/ GoVictory \/ AskCreate
             \/ \E typed \in Typed : Login(typed) \/ EditUser(typed)
             \/ \E other \in FreshIds : AskJoin(other)
             \/ \E other \in FreshIds, v \in Typed, at \in {"lobby", "game", "victory"} :
                  Visit(at, other, v)
             \/ UNCHANGED vars
      PROVE  games' = games
  BY <1>8 DEF BackToLogin, LeaveMatch, LeaveVictory, GoVictory, AskCreate, Login, EditUser,
     AskJoin, Ask, Visit, vars
<1>9. QED
  BY <1>2, <1>3, <1>4, <1>5, <1>6, <1>7, <1>8 DEF Next

\* Whatever body creates a game, and whichever of the ids it asks for are
\* blank, repeated or no text, a game that nobody has moved on is
\* createLocalGameContext of two to four distinct players.
THEOREM GamesStartSeated == Spec => []SeatedInv
<1>1. Init => SeatedInv
  BY DEF Init, SeatedInv
<1>2. TabInv /\ SeatedInv /\ [Next]_vars => SeatedInv'
  <2> SUFFICES ASSUME TabInv, SeatedInv, [Next]_vars, NEW id \in DOMAIN games'
               PROVE  games'[id].version >= 1 /\ (games'[id].version = 1 => Seated(games'[id]))
    BY DEF SeatedInv, Seated
  <2>1. CASE id \notin DOMAIN games
    BY <2>1, NewGamesSeated
  <2>2. CASE id \in DOMAIN games
    <3>1. /\ games[id].version \in Nat /\ games'[id].version \in Nat
          /\ games'[id].version >= games[id].version
          /\ games'[id].version = games[id].version => games'[id] = games[id]
      BY <2>2, TabMoves DEF TabInv, Moved, Grown, RegistryFine, GameShape
    <3>2. games[id].version >= 1 /\ (games[id].version = 1 => Seated(games[id]))
      BY <2>2 DEF SeatedInv
    <3>3. QED
      BY <3>1, <3>2
  <2>3. QED
    BY <2>1, <2>2
<1>3. QED
  BY <1>1, <1>2, TabIsKnown, PTL DEF Spec

-----------------------------------------------------------------------------
(* Admission: what reaches the rules.                                      *)

LEMMA FieldIs ==
  ASSUME NEW v, NEW f, Field(v, f) # Undefined
  PROVE  Field(v, f) = v[f]
BY DEF Field

LEMMA RecordIs ==
  ASSUME NEW v, IsRecord(v)
  PROVE  v # Undefined
BY DEF IsRecord

\* What the validators let through is what the transitions read.
LEMMA PayloadTyped ==
  ASSUME NEW c, ValidateCommandEnvelope(c) = "ok"
  PROVE  TypedPayload(c.type.name, c.payload)
<1> DEFINE p == c.payload
<1>1. CASE c.type = Plain("TAKE_TOKENS") /\ TakeTokensPayload(p)
  <2>1. IsRecord(p["tokens"])
    BY <1>1, FieldIs, RecordIs DEF TakeTokensPayload
  <2>2. c.type.name = "TAKE_TOKENS"
    BY <1>1 DEF Plain
  <2>3. QED
    BY <2>1, <2>2 DEF TypedPayload
<1>2. CASE c.type = Plain("RESERVE_CARD") /\ ReserveCardPayload(p)
  <2>1. /\ p["target"] = Field(p, "target") /\ p["takeGoldToken"] \in BOOLEAN
    BY <1>2, FieldIs, RecordIs, EnvelopeAssumption DEF ReserveCardPayload
  <2>2. /\ Field(p["target"], "tier") \in 1 .. 3
        /\ \/ Field(p["target"], "kind") = "OPEN_CARD" /\ Field(p["target"], "cardId") \in Text
           \/ Field(p["target"], "kind") = "DECK_TOP"
    BY <1>2, <2>1 DEF ReserveCardPayload, IsNonEmptyString, IsDeckTier
  <2>3. c.type.name = "RESERVE_CARD"
    BY <1>2 DEF Plain
  <2>4. QED
    BY <2>1, <2>2, <2>3 DEF TypedPayload
<1>3. CASE c.type = Plain("BUY_CARD") /\ BuyCardPayload(p)
  <2>1. IsRecord(p["payment"]) /\ p["source"] = Field(p, "source")
    BY <1>3, FieldIs, RecordIs DEF BuyCardPayload
  <2>2. /\ Field(p["source"], "cardId") \in Text
        /\ Field(p["source"], "kind") \in {"OPEN_MARKET", "RESERVED"}
    BY <1>3, <2>1 DEF BuyCardPayload, IsNonEmptyString
  <2>3. c.type.name = "BUY_CARD"
    BY <1>3 DEF Plain
  <2>4. QED
    BY <2>1, <2>2, <2>3 DEF TypedPayload
<1>4. CASE c.type = Plain("END_TURN") /\ EndTurnPayload(p)
  <2>1. p["reason"] \in {"ACTION_COMPLETED", "MANUAL", "RECOVERY"}
    <3>1. Undefined \notin {"ACTION_COMPLETED", "MANUAL", "RECOVERY"}
      BY EnvelopeAssumption DEF Keywords
    <3>2. QED
      BY <1>4, <3>1, FieldIs DEF EndTurnPayload
  <2>2. c.type.name = "END_TURN"
    BY <1>4 DEF Plain
  <2>3. QED
    BY <2>1, <2>2 DEF TypedPayload
<1>5. QED
  BY <1>1, <1>2, <1>3, <1>4, EnvelopeOk

\* What is known of the game a request reaches.
LEMMA ReachesAdmitted ==
  ASSUME NEW r, Reaches(r)
  PROVE  /\ r.path = Plain(Game) /\ Admitted(r.path, r.header, r.command, game)
         /\ command' = r.command /\ user' = r.command.actorId
<1>1. RefusalOf(r) = "ok" /\ command' = r.command
      /\ user' = ResolveAuthUserId(r.header, r.command.actorId)
  BY DEF Reaches
<1>2. r.path = Plain(Game) /\ Refusal(r.path, r.header, r.command, game) = "ok"
  BY <1>1, NoGameRefused DEF RefusalOf
<1>3. Admitted(r.path, r.header, r.command, game)
  BY <1>2, RefusalOk
<1>4. user' = r.command.actorId
  BY <1>1, <1>3 DEF Admitted, ActorIsUser
<1>5. QED
  BY <1>1, <1>2, <1>3, <1>4

\* Whatever arrives, the transitions get a command of the type they are written
\* for, for any set of requests.
THEOREM OnlyTypedCommandsArrive == AdmissionSpec => []TransitionsGetCommands
<1>1. AdmissionInit => TransitionsGetCommands
  BY DEF AdmissionInit, TransitionsGetCommands
<1>2. TransitionsGetCommands /\ [AdmissionNext]_admissionVars => TransitionsGetCommands'
  <2> SUFFICES ASSUME TransitionsGetCommands, [AdmissionNext]_admissionVars
               PROVE  TransitionsGetCommands'
    OBVIOUS
  <2>1. CASE command' = command
    BY <2>1 DEF TransitionsGetCommands, TypedPayload
  <2>2. CASE command' = Undefined
    BY <2>2 DEF TransitionsGetCommands
  <2>3. ASSUME NEW r \in Requests, Reaches(r)
        PROVE  TransitionsGetCommands'
    <3>1. command' = r.command /\ ValidateCommandEnvelope(r.command) = "ok"
      BY <2>3, ReachesAdmitted DEF Admitted
    <3>2. TypedPayload(r.command.type.name, r.command.payload)
      BY <3>1, PayloadTyped
    <3>3. QED
      BY <3>1, <3>2 DEF TransitionsGetCommands, TypedPayload
  <2>4. QED
    BY <2>1, <2>2, <2>3 DEF AdmissionNext, admissionVars, Refuse, PolicyViolation, TransitionAccepted
<1>3. QED
  BY <1>1, <1>2, PTL DEF AdmissionSpec

\* The game changes only by a command for it, made for the version it has, in
\* the name of its current player, who is also the user that x-user-id names,
\* if it names one.
THEOREM CurrentPlayerMoves == AdmissionSpec => OnlyTheCurrentPlayerMoves
<1>1. [AdmissionNext]_admissionVars =>
        [game' # game =>
           /\ command'.gameId = Plain(Game)
           /\ command'.expectedVersion = game.version
           /\ command'.actorId = Plain(game.currentPlayer)
           /\ user' = command'.actorId]_admissionVars
  <2> SUFFICES ASSUME NEW r \in Requests, TransitionAccepted(r)
               PROVE  /\ command'.gameId = Plain(Game)
                      /\ command'.expectedVersion = game.version
                      /\ command'.actorId = Plain(game.currentPlayer)
                      /\ user' = command'.actorId
    BY DEF AdmissionNext, admissionVars, Refuse, PolicyViolation
  <2>1. Reaches(r) /\ (r.command.type # Plain("END_TURN") \/ OwnTurn(r.command))
    BY DEF TransitionAccepted
  <2>2. /\ command' = r.command /\ user' = r.command.actorId
        /\ r.command.gameId = Plain(Game) /\ r.command.expectedVersion = game.version
        /\ r.command.type = Plain("END_TURN") \/ r.command.actorId = Plain(game.currentPlayer)
    BY <2>1, ReachesAdmitted DEF Admitted
  <2>3. r.command.actorId = Plain(game.currentPlayer)
    BY <2>1, <2>2 DEF OwnTurn
  <2>4. QED
    BY <2>2, <2>3
<1>2. QED
  BY <1>1, PTL DEF AdmissionSpec, OnlyTheCurrentPlayerMoves

-----------------------------------------------------------------------------
(* The overlays: one dialog at a time, its listeners and the focus.        *)

Places == ({"body", "background"} \cup Dialogs) \X Int
Doc == [focus : Places, inert : BOOLEAN, handlers : [Dialogs -> Nat],
        active : SUBSET Dialogs, previous : [Dialogs -> Places]]

Listening(shown) == [d \in Dialogs |-> IF d \in shown THEN 1 ELSE 0]

\* The openers a trigger can still be there for: cards dealt later are new.
Openers == {Body} \cup {Trigger(t) : t \in -1 .. dealt}

\* The document u, after the effects or before those that are due, shows what is
\* open: its listeners and its background, the focus, and where the focus is to
\* return to.
Follows(u, shown, cards, back) ==
  /\ u \in Doc /\ u.active = shown /\ (u.inert <=> shown # {})
  /\ u.handlers = Listening(shown)
  /\ shown = {} => u.focus = Body \/ u.focus \in Triggers(cards)
  /\ \A d \in shown :
       /\ u.focus[1] = d \/ u.focus = Body
       /\ back \in Triggers(cards) => u.previous[d] = back

DocumentTypeOK ==
  /\ dealt \in Nat /\ dealt <= MaxCard
  /\ market \in Seq(1 .. dealt)
  /\ open \in SUBSET Dialogs /\ due \in BOOLEAN /\ opener \in Openers

AtMostOneOpen == open = {} \/ \E d \in Dialogs : open = {d}

DocumentInv == DocumentTypeOK /\ AtMostOneOpen /\ Follows(ui, open, market, opener)

LEMMA PlacesOfItems ==
  /\ Body \in Places
  /\ \A d \in Dialogs : \A i \in Int : Item(d, i) \in Places /\ Item(d, i)[1] = d
  /\ \A t \in Int : Trigger(t) \in Places /\ Trigger(t)[1] = "background"
                    /\ Trigger(t) # Body
BY DEF Places, Body, Item, Trigger, Dialogs

LEMMA PlacesOfTriggers ==
  ASSUME NEW n \in Nat, NEW cards \in Seq(1 .. n)
  PROVE  /\ Triggers(cards) \subseteq Places
         /\ \A e \in Triggers(cards) :
              /\ e[1] = "background" /\ e # Body
              /\ \E t \in -1 .. n : e = Trigger(t)
<1>1. ASSUME NEW e \in Triggers(cards)
      PROVE  \E t \in -1 .. n : e = Trigger(t)
  <2>1. CASE e \in {Trigger(0), Trigger(-1)}
    BY <2>1
  <2>2. CASE \E i \in DOMAIN cards : e = Trigger(cards[i])
    <3>1. PICK i \in DOMAIN cards : e = Trigger(cards[i])
      BY <2>2
    <3>2. cards[i] \in 1 .. n
      OBVIOUS
    <3>3. cards[i] \in -1 .. n
      BY <3>2
    <3>4. QED
      BY <3>1, <3>3
  <2>3. QED
    BY <1>1, <2>1, <2>2, Zenon DEF Triggers
<1>2. -1 .. n \subseteq Int
  OBVIOUS
<1>3. QED
  BY <1>1, <1>2, PlacesOfItems

LEMMA FocusOnly ==
  ASSUME NEW u \in Doc, NEW e \in Places, NEW shown, NEW cards
  PROVE  LET v == Focus(u, e, shown, cards) IN
         /\ v \in Doc
         /\ (v.inert <=> u.inert) /\ v.handlers = u.handlers
         /\ v.active = u.active /\ v.previous = u.previous
         /\ v.focus = IF e[1] \in shown \/ (e \in Triggers(cards) /\ ~u.inert)
                      THEN e ELSE u.focus
BY DEF Focus, Doc

LEMMA CleanupResult ==
  ASSUME NEW u \in Doc, NEW d \in Dialogs, NEW shown, NEW cards, u.handlers[d] \in {0, 1}
  PROVE  LET v == Cleanup(u, d, shown, cards) IN
         /\ v \in Doc
         /\ ~v.inert /\ v.active = u.active \ {d} /\ v.previous = u.previous
         /\ \A e \in Dialogs : v.handlers[e] = IF e = d THEN 0 ELSE u.handlers[e]
         /\ v.focus = IF u.previous[d][1] \in shown \/ u.previous[d] \in Triggers(cards)
                      THEN u.previous[d] ELSE u.focus
<1> DEFINE w == [u EXCEPT !.active = u.active \ {d}, !.inert = FALSE,
                          !.handlers = [u.handlers EXCEPT ![d] = 0]]
<1>1. /\ u.handlers \in [Dialogs -> Nat] /\ u.handlers[d] \in Nat
      /\ u.previous[d] \in Places /\ u.active \ {d} \in SUBSET Dialogs
  BY DEF Doc
<1>2. [u.handlers EXCEPT ![d] = 0] \in [Dialogs -> Nat]
  BY <1>1
<1>3. /\ w \in Doc /\ ~w.inert /\ w.active = u.active \ {d}
      /\ w.handlers = [u.handlers EXCEPT ![d] = 0]
      /\ w.previous = u.previous /\ w.focus = u.focus
  BY <1>1, <1>2 DEF Doc
<1>4. Cleanup(u, d, shown, cards) = Focus(w, u.previous[d], shown, cards)
  <2>1. (IF u.handlers[d] = 0 THEN 0 ELSE u.handlers[d] - 1) = 0
    OBVIOUS
  <2>2. QED
    BY <2>1 DEF Cleanup
<1>5. \A e \in Dialogs : w.handlers[e] = IF e = d THEN 0 ELSE u.handlers[e]
  BY <1>1, <1>3
<1>6. QED
  <2> HIDE DEF w
  <2>1. Focus(w, u.previous[d], shown, cards) \in Doc
    BY <1>1, <1>3, FocusOnly
  <2>2. QED
    BY <1>1, <1>3, <1>4, <1>5, <2>1, FocusOnly

LEMMA EffectResult ==
  ASSUME NEW u \in Doc, NEW d \in Dialogs, NEW shown, d \in shown, NEW cards
  PROVE  LET v == Effect(u, d, shown, cards) IN
         /\ v \in Doc
         /\ v.inert /\ v.active = u.active \cup {d}
         /\ \A e \in Dialogs :
              /\ v.previous[e] = IF e = d THEN u.focus ELSE u.previous[e]
              /\ v.handlers[e] = IF e = d THEN u.handlers[e] + 1 ELSE u.handlers[e]
         /\ v.focus = Item(d, 1)
<1> DEFINE w == [u EXCEPT !.active = u.active \cup {d},
                          !.handlers = [u.handlers EXCEPT ![d] = u.handlers[d] + 1],
                          !.previous = [u.previous EXCEPT ![d] = u.focus], !.inert = TRUE]
<1>1. /\ u.handlers \in [Dialogs -> Nat] /\ u.handlers[d] \in Nat
      /\ u.focus \in Places /\ u.previous \in [Dialogs -> Places]
      /\ u.active \cup {d} \in SUBSET Dialogs
  BY DEF Doc
<1>2. /\ [u.handlers EXCEPT ![d] = u.handlers[d] + 1] \in [Dialogs -> Nat]
      /\ [u.previous EXCEPT ![d] = u.focus] \in [Dialogs -> Places]
  BY <1>1
<1>3. /\ w \in Doc /\ w.inert /\ w.active = u.active \cup {d}
      /\ w.handlers = [u.handlers EXCEPT ![d] = u.handlers[d] + 1]
      /\ w.previous = [u.previous EXCEPT ![d] = u.focus]
  BY <1>1, <1>2 DEF Doc
<1>4. Effect(u, d, shown, cards) = Focus(w, Item(d, 1), shown, cards)
  BY DEF Effect
<1>5. \A e \in Dialogs :
        /\ w.previous[e] = IF e = d THEN u.focus ELSE u.previous[e]
        /\ w.handlers[e] = IF e = d THEN u.handlers[e] + 1 ELSE u.handlers[e]
  BY <1>1, <1>3
<1>6. QED
  <2> HIDE DEF w
  <2>1. Item(d, 1) \in Places /\ Item(d, 1)[1] = d
    BY PlacesOfItems
  <2>2. LET v == Focus(w, Item(d, 1), shown, cards) IN
        /\ v \in Doc /\ (v.inert <=> w.inert) /\ v.handlers = w.handlers
        /\ v.active = w.active /\ v.previous = w.previous /\ v.focus = Item(d, 1)
    BY <1>3, <2>1, FocusOnly
  <2>3. Focus(w, Item(d, 1), shown, cards).inert
    BY <1>3, <2>2
  <2>4. QED
    <3> HIDE DEF w
    <3>1. PICK v : v = Focus(w, Item(d, 1), shown, cards)
      OBVIOUS
    <3>2. /\ v \in Doc /\ v.inert
          /\ v.active = u.active \cup {d} /\ v.focus = Item(d, 1)
      BY <1>3, <2>2, <2>3, <3>1
    <3>3. \A e \in Dialogs :
            /\ v.previous[e] = IF e = d THEN u.focus ELSE u.previous[e]
            /\ v.handlers[e] = IF e = d THEN u.handlers[e] + 1 ELSE u.handlers[e]
      BY <1>5, <2>2, <3>1
    <3>4. QED
      BY <1>4, <3>1, <3>2, <3>3

\* The effects, when at most one dialog is open: its effect is cleaned up, if it
\* has run, and runs if the dialog is shown.
LEMMA EffectsOfOne ==
  ASSUME NEW u \in Doc, NEW d \in Dialogs, NEW cards, NEW shown, u.handlers[d] \in {0, 1},
         u.active \in {{}, {d}}, shown \in {{}, {d}}
  PROVE  RunEffects(u, shown, cards) =
           EffectIfShown(CleanupIfActive(u, d, shown, cards), d, shown, cards)
<1> DEFINE c(v, e) == CleanupIfActive(v, e, shown, cards)
           f(v, e) == EffectIfShown(v, e, shown, cards)
<1>1. c(u, d) \in Doc /\ c(u, d).active = {}
  <2>1. CASE d \in u.active
    <3>1. c(u, d) = Cleanup(u, d, shown, cards) /\ u.active \ {d} = {}
      BY <2>1 DEF CleanupIfActive
    <3>2. QED
      BY <3>1, CleanupResult
  <2>2. CASE d \notin u.active
    BY <2>2 DEF CleanupIfActive
  <2>3. QED
    BY <2>1, <2>2
<1>2. \A e \in Dialogs : e # d => c(u, e) = u /\ c(c(u, d), e) = c(u, d)
  BY <1>1 DEF CleanupIfActive
<1>3. \A v : \A e \in Dialogs : e # d => f(v, e) = v
  BY DEF EffectIfShown
<1>4. RunEffects(u, shown, cards) =
        f(f(f(c(c(c(u, "rivals"), "vault"), "card"), "rivals"), "vault"), "card")
  BY Zenon DEF RunEffects
<1>5. Dialogs = {"rivals", "vault", "card"}
  BY DEF Dialogs
<1> HIDE DEF c, f
<1>6. CASE d = "rivals"
  BY <1>2, <1>3, <1>4, <1>5, <1>6 DEF c, f
<1>7. CASE d = "vault"
  BY <1>2, <1>3, <1>4, <1>5, <1>7 DEF c, f
<1>8. CASE d = "card"
  BY <1>2, <1>3, <1>4, <1>5, <1>8 DEF c, f
<1>9. QED
  BY <1>5, <1>6, <1>7, <1>8

\* A dialog that stays open through a render keeps what the focus returns to.
LEMMA EffectAgain ==
  ASSUME NEW u, NEW d \in Dialogs, NEW cards, NEW back, Follows(u, {d}, cards, back)
  PROVE  Follows(RunEffects(u, {d}, cards), {d}, cards, back)
<1> DEFINE w == Cleanup(u, d, {d}, cards)
           v == Effect(w, d, {d}, cards)
<1>0. /\ u \in Doc /\ u.active = {d} /\ u.handlers = Listening({d}) /\ u.handlers[d] \in {0, 1}
      /\ back \in Triggers(cards) => u.previous[d] = back
  BY DEF Listening, Follows
<1>1. RunEffects(u, {d}, cards) = v
  <2>1. RunEffects(u, {d}, cards) = EffectIfShown(CleanupIfActive(u, d, {d}, cards), d, {d}, cards)
    BY <1>0, EffectsOfOne
  <2>2. QED
    BY <1>0, <2>1 DEF CleanupIfActive, EffectIfShown
<1>2. u.handlers \in [Dialogs -> Nat] /\ u.handlers[d] = 1 /\ u.previous[d] \in Places
  BY <1>0 DEF Doc, Listening
<1>3. /\ w \in Doc /\ w.active = {} 
      /\ \A e \in Dialogs : w.handlers[e] = IF e = d THEN 0 ELSE u.handlers[e]
      /\ u.previous[d] \in Triggers(cards) => w.focus = u.previous[d]
  <2>1. /\ w \in Doc /\ w.active = u.active \ {d}
        /\ \A e \in Dialogs : w.handlers[e] = IF e = d THEN 0 ELSE u.handlers[e]
        /\ u.previous[d] \in Triggers(cards) => w.focus = u.previous[d]
    <3>1. PICK shown : shown = {d}
      OBVIOUS
    <3>2. PICK x : x = Cleanup(u, d, shown, cards)
      OBVIOUS
    <3>3. /\ x \in Doc /\ x.active = u.active \ {d}
          /\ \A e \in Dialogs : x.handlers[e] = IF e = d THEN 0 ELSE u.handlers[e]
      BY <1>0, <3>2, CleanupResult
    <3>4. u.previous[d] \in Triggers(cards) => x.focus = u.previous[d]
      BY <1>0, <3>2, CleanupResult
    <3>5. w = x
      BY <3>1, <3>2
    <3>6. QED
      BY <3>3, <3>4, <3>5
  <2> HIDE DEF w
  <2>2. QED
    BY <1>0, <2>1
<1> HIDE DEF w
<1>5. /\ v \in Doc /\ v.active = {d} /\ v.inert /\ v.focus = Item(d, 1)
      /\ v.previous[d] = w.focus
      /\ \A e \in Dialogs : v.handlers[e] = IF e = d THEN w.handlers[e] + 1 ELSE w.handlers[e]
  <2>1. /\ v \in Doc /\ v.active = w.active \cup {d} /\ v.inert /\ v.focus = Item(d, 1)
        /\ v.previous[d] = w.focus
        /\ \A e \in Dialogs : v.handlers[e] = IF e = d THEN w.handlers[e] + 1 ELSE w.handlers[e]
    <3>1. w \in Doc /\ d \in {d}
      BY <1>3
    <3>2. QED
      BY <3>1, EffectResult
  <2> HIDE DEF v
  <2>2. QED
    BY <1>3, <2>1
<1> HIDE DEF v
<1>6. v.handlers \in [Dialogs -> Nat]
  BY <1>5 DEF Doc
<1>7. v.handlers = Listening({d})
  BY <1>0, <1>2, <1>3, <1>5, <1>6 DEF Listening
<1>8. v.focus[1] = d
  BY <1>5, PlacesOfItems
<1>9. QED
  BY <1>0, <1>1, <1>3, <1>5, <1>7, <1>8 DEF Follows

\* A dialog that opens takes the focus and remembers where it was.
LEMMA EffectAnew ==
  ASSUME NEW u \in Doc, NEW d \in Dialogs, NEW cards,
         u.active = {}, u.handlers = Listening({})
  PROVE  Follows(RunEffects(u, {d}, cards), {d}, cards, u.focus)
<1> DEFINE v == Effect(u, d, {d}, cards)
<1>0. u.handlers[d] \in {0, 1}
  BY DEF Listening
<1>1. RunEffects(u, {d}, cards) = v
  <2>1. RunEffects(u, {d}, cards) = EffectIfShown(CleanupIfActive(u, d, {d}, cards), d, {d}, cards)
    BY <1>0, EffectsOfOne
  <2>2. QED
    BY <2>1 DEF CleanupIfActive, EffectIfShown
<1>3. /\ v \in Doc /\ v.active = {d} /\ v.inert /\ v.focus = Item(d, 1)
      /\ v.previous[d] = u.focus
      /\ \A e \in Dialogs : v.handlers[e] = IF e = d THEN u.handlers[e] + 1 ELSE u.handlers[e]
  BY EffectResult
<1> HIDE DEF v
<1>4. v.handlers = Listening({d})
  <2>1. v.handlers \in [Dialogs -> Nat]
    BY <1>3 DEF Doc
  <2>2. QED
    BY <2>1, <1>3 DEF Listening
<1>5. v.focus[1] = d
  BY <1>3, PlacesOfItems
<1>6. QED
  BY <1>1, <1>3, <1>4, <1>5 DEF Follows

\* A dialog that closes gives the focus back, if there is something to give it
\* to.
LEMMA EffectGone ==
  ASSUME NEW u \in Doc, NEW d \in Dialogs, NEW cards,
         u.active = {d}, u.handlers = Listening({})
  PROVE  LET v == RunEffects(u, {}, cards) IN
         /\ v \in Doc /\ v.active = {} /\ ~v.inert /\ v.handlers = Listening({})
         /\ v.focus = IF u.previous[d] \in Triggers(cards) THEN u.previous[d] ELSE u.focus
<1> DEFINE v == Cleanup(u, d, {}, cards)
<1>0. u.handlers[d] \in {0, 1}
  BY DEF Listening
<1>1. RunEffects(u, {}, cards) = v
  <2>1. RunEffects(u, {}, cards) = EffectIfShown(CleanupIfActive(u, d, {}, cards), d, {}, cards)
    BY <1>0, EffectsOfOne
  <2>2. QED
    BY <2>1 DEF CleanupIfActive, EffectIfShown
<1>3. /\ v \in Doc /\ v.active = {} /\ ~v.inert
      /\ \A e \in Dialogs : v.handlers[e] = IF e = d THEN 0 ELSE u.handlers[e]
      /\ v.focus = IF u.previous[d] \in Triggers(cards) THEN u.previous[d] ELSE u.focus
  BY <1>0, CleanupResult
<1> HIDE DEF v
<1>4. v.handlers = Listening({})
  <2>1. v.handlers \in [Dialogs -> Nat]
    BY <1>3 DEF Doc
  <2>2. QED
    BY <2>1, <1>3 DEF Listening
<1>5. QED
  BY <1>1, <1>3, <1>4

\* Nothing open and nothing to clean up: the effects do nothing.
LEMMA EffectsOfNone ==
  ASSUME NEW u \in Doc, NEW cards, u.active = {}, u.handlers = Listening({})
  PROVE  RunEffects(u, {}, cards) = u
<1>1. "card" \in Dialogs /\ u.handlers["card"] \in {0, 1}
  BY DEF Dialogs, Listening
<1>2. RunEffects(u, {}, cards)
        = EffectIfShown(CleanupIfActive(u, "card", {}, cards), "card", {}, cards)
  BY <1>1, EffectsOfOne
<1>3. QED
  BY <1>2 DEF CleanupIfActive, EffectIfShown

\* A commit of the cards and dialogs rendered.
Committed(u, shown, cards, v) ==
  /\ v \in Doc /\ v.inert = u.inert /\ v.active = u.active /\ v.previous = u.previous
  /\ \A e \in Dialogs : v.handlers[e] = IF e \in shown THEN u.handlers[e] ELSE 0
  /\ v.focus = IF u.focus[1] \in shown \/ u.focus \in Triggers(cards)
               THEN u.focus ELSE Body
LEMMA CommitResult ==
  ASSUME NEW u \in Doc, NEW shown, NEW n \in Nat, NEW cards \in Seq(1 .. n)
  PROVE  Committed(u, shown, cards, Commit(u, shown, cards))
<1> DEFINE h == [e \in Dialogs |-> IF e \in shown THEN u.handlers[e] ELSE 0]
<1>1. u.handlers \in [Dialogs -> Nat] /\ u.focus \in Places
  BY DEF Doc
<1>2. h \in [Dialogs -> Nat]
  BY <1>1
<1>3. Commit(u, shown, cards) =
        [u EXCEPT !.focus = IF u.focus[1] \in shown \/ u.focus \in Triggers(cards)
                            THEN u.focus ELSE Body,
                  !.handlers = h]
  BY DEF Commit
<1> HIDE DEF h
<1>4. Body \in Places
  BY PlacesOfItems
<1>5. /\ Commit(u, shown, cards) \in Doc
      /\ Commit(u, shown, cards).handlers = h
      /\ Commit(u, shown, cards).inert = u.inert
      /\ Commit(u, shown, cards).active = u.active
      /\ Commit(u, shown, cards).previous = u.previous
      /\ Commit(u, shown, cards).focus =
           IF u.focus[1] \in shown \/ u.focus \in Triggers(cards) THEN u.focus ELSE Body
  BY <1>1, <1>2, <1>3, <1>4 DEF Doc
<1>6. QED
  BY <1>5 DEF h, Committed

LEMMA SettledFollows ==
  ASSUME DocumentInv
  PROVE  Follows(Settled, open, market, opener)
<1>1. CASE ~due
  BY <1>1 DEF DocumentInv, Settled
<1>2. CASE due
  <2>1. Settled = RunEffects(ui, open, market)
    BY <1>2 DEF Settled
  <2>2. CASE open = {}
    BY <2>1, <2>2, EffectsOfNone DEF DocumentInv, Follows
  <2>3. ASSUME NEW d \in Dialogs, open = {d}
        PROVE  Follows(Settled, open, market, opener)
    <3>1. Follows(RunEffects(ui, {d}, market), {d}, market, opener)
      BY <2>3, EffectAgain DEF DocumentInv
    <3>2. QED
      BY <2>1, <2>3, <3>1
  <2>4. QED
    BY <2>2, <2>3 DEF DocumentInv, AtMostOneOpen
<1>3. QED
  BY <1>1, <1>2

LEMMA FocusMoved ==
  ASSUME NEW u, NEW shown, NEW cards, NEW back, Follows(u, shown, cards, back),
         NEW e \in Places,
         shown = {} => e = Body \/ e \in Triggers(cards),
         \A d \in shown : e[1] = d \/ e = Body
  PROVE  Follows([u EXCEPT !.focus = e], shown, cards, back)
<1>1. u \in Doc
  BY DEF Follows
<1>2. PICK v : v = [u EXCEPT !.focus = e]
  OBVIOUS
<1>3. /\ v \in Doc /\ v.active = u.active /\ v.inert = u.inert /\ v.handlers = u.handlers
      /\ v.previous = u.previous /\ v.focus = e
  BY <1>1, <1>2 DEF Doc
<1>4. QED
  BY <1>2, <1>3 DEF Follows

LEMMA OpeningFollows ==
  ASSUME NEW u, NEW n \in Nat, NEW cards \in Seq(1 .. n), NEW back \in Triggers(cards),
         NEW old, Follows(u, {}, cards, old), u.focus = back, NEW d \in Dialogs
  PROVE  Follows(RunEffects(Commit(u, {d}, cards), {d}, cards), {d}, cards, back)
<1>1. PICK w : w = Commit(u, {d}, cards) /\ Committed(u, {d}, cards, w)
  BY CommitResult DEF Follows
<1>2. u \in Doc /\ u.active = {} /\ u.handlers = Listening({})
  BY DEF Follows
<1>3. /\ w \in Doc /\ w.active = {} /\ w.focus = back
      /\ \A e \in Dialogs : w.handlers[e] = IF e \in {d} THEN u.handlers[e] ELSE 0
  BY <1>1, <1>2 DEF Committed
<1>4. w.handlers = Listening({})
  BY <1>2, <1>3 DEF Listening, Doc
<1>5. QED
  BY <1>1, <1>3, <1>4, EffectAnew

LEMMA ClosingFollows ==
  ASSUME NEW u, NEW n \in Nat, NEW cards \in Seq(1 .. n), NEW back, NEW d \in Dialogs,
         Follows(u, {d}, cards, back)
  PROVE  LET v == RunEffects(Commit(u, {}, cards), {}, cards) IN
         /\ Follows(v, {}, cards, back)
         /\ back \in Triggers(cards) => v.focus = back
<1>1. PICK w : w = Commit(u, {}, cards) /\ Committed(u, {}, cards, w)
  BY CommitResult DEF Follows
<1>2. /\ u \in Doc /\ u.active = {d}
      /\ back \in Triggers(cards) => u.previous[d] = back
  BY DEF Follows
<1>3. /\ w \in Doc /\ w.active = {d} /\ w.previous = u.previous
      /\ w.focus = Body \/ w.focus \in Triggers(cards)
      /\ \A e \in Dialogs : w.handlers[e] = IF e \in {} THEN u.handlers[e] ELSE 0
  BY <1>1, <1>2 DEF Committed
<1>4. w.handlers = Listening({})
  BY <1>3 DEF Listening, Doc
<1>5. PICK v : v = RunEffects(w, {}, cards)
  OBVIOUS
<1>6. /\ v \in Doc /\ v.active = {} /\ ~v.inert /\ v.handlers = Listening({})
      /\ v.focus = IF w.previous[d] \in Triggers(cards) THEN w.previous[d] ELSE w.focus
  BY <1>3, <1>4, <1>5, EffectGone
<1>7. Follows(v, {}, cards, back)
  BY <1>3, <1>6 DEF Follows
<1>8. back \in Triggers(cards) => v.focus = back
  BY <1>2, <1>3, <1>6
<1>9. QED
  BY <1>1, <1>5, <1>7, <1>8

LEMMA CommitFollows ==
  ASSUME NEW u, NEW shown, NEW old, NEW back, Follows(u, shown, old, back),
         shown = {} \/ \E d \in Dialogs : shown = {d},
         NEW n \in Nat, NEW cards \in Seq(1 .. n),
         back \in Triggers(cards) => back \in Triggers(old)
  PROVE  Follows(Commit(u, shown, cards), shown, cards, back)
<1>1. PICK w : w = Commit(u, shown, cards) /\ Committed(u, shown, cards, w)
  BY CommitResult DEF Follows
<1>2. u \in Doc /\ u.active = shown /\ (u.inert <=> shown # {}) /\ u.handlers = Listening(shown)
  BY DEF Follows
<1>3. /\ w \in Doc /\ w.active = shown /\ (w.inert <=> shown # {}) /\ w.previous = u.previous
      /\ \A e \in Dialogs : w.handlers[e] = IF e \in shown THEN u.handlers[e] ELSE 0
      /\ w.focus = IF u.focus[1] \in shown \/ u.focus \in Triggers(cards)
                   THEN u.focus ELSE Body
  BY <1>1, <1>2 DEF Committed
<1>4. w.handlers = Listening(shown)
  BY <1>2, <1>3 DEF Listening, Doc
<1>5. ASSUME NEW d \in shown
      PROVE  /\ w.focus[1] = d \/ w.focus = Body
             /\ back \in Triggers(cards) => w.previous[d] = back
  BY <1>3 DEF Follows
<1>6. shown = {} => w.focus = Body \/ w.focus \in Triggers(cards)
  BY <1>3
<1>7. QED
  BY <1>1, <1>3, <1>4, <1>5, <1>6 DEF Follows

\* The first cards are dealt before anything is open.
LEMMA DocumentInvStarts ==
  ASSUME OpenCards \in Nat, MaxCard \in Nat, OpenCards <= MaxCard, DialogInit
  PROVE  DocumentInv
<1>1. /\ market = [i \in 1 .. OpenCards |-> i] /\ dealt = OpenCards
      /\ open = {} /\ opener = Body /\ due = FALSE
  BY DEF DialogInit
<1>2. /\ ui = [focus |-> Body, inert |-> FALSE, handlers |-> [d \in Dialogs |-> 0],
               active |-> {}, previous |-> [d \in Dialogs |-> Body]]
  BY DEF DialogInit
<1>3. market \in Seq(1 .. dealt)
  BY <1>1
<1>4. ui \in Doc
  <2>1. /\ Body \in Places /\ [d \in Dialogs |-> 0] \in [Dialogs -> Nat]
        /\ [d \in Dialogs |-> Body] \in [Dialogs -> Places]
    BY PlacesOfItems
  <2>2. QED
    BY <1>2, <2>1 DEF Doc
<1>5. Follows(ui, open, market, opener)
  BY <1>1, <1>2, <1>4 DEF Follows, Listening
<1>6. DocumentTypeOK /\ AtMostOneOpen
  BY <1>1, <1>3 DEF DocumentTypeOK, AtMostOneOpen, Openers
<1>7. QED
  BY <1>5, <1>6 DEF DocumentInv

\* A click or a key that leaves the cards alone and closes what is open.
LEMMA ClosingStep ==
  ASSUME DocumentInv, NEW d \in open, NEW u, Follows(u, open, market, opener),
         RenderAtOnce(u, open \ {d}), UNCHANGED <<market, dealt, opener>>
  PROVE  DocumentInv' /\ (opener \in Triggers(market) => ui'.focus = opener)
<1>1. d \in Dialogs /\ open = {d} /\ open \ {d} = {}
  BY DEF DocumentInv, DocumentTypeOK, AtMostOneOpen
<1>2. /\ open' = {} /\ due' = FALSE
      /\ ui' = RunEffects(Commit(u, {}, market), {}, market)
  BY <1>1 DEF RenderAtOnce
<1>3. dealt \in Nat /\ market \in Seq(1 .. dealt) /\ Follows(u, {d}, market, opener)
  BY <1>1 DEF DocumentInv, DocumentTypeOK
<1>4. PICK v : v = RunEffects(Commit(u, {}, market), {}, market)
  OBVIOUS
<1>5. /\ Follows(v, {}, market, opener)
      /\ opener \in Triggers(market) => v.focus = opener
  BY <1>1, <1>3, <1>4, ClosingFollows
<1>6. Follows(ui', open', market', opener')
  BY <1>2, <1>4, <1>5
<1>7. DocumentTypeOK' /\ AtMostOneOpen'
  BY <1>2 DEF DocumentInv, DocumentTypeOK, AtMostOneOpen, Openers
<1>8. QED
  BY <1>2, <1>4, <1>5, <1>6, <1>7 DEF DocumentInv

\* Only the focus moves.
LEMMA FocusStep ==
  ASSUME DocumentInv, NEW e \in Places, MoveFocus(e),
         open = {} => e = Body \/ e \in Triggers(market),
         \A d \in open : e[1] = d \/ e = Body
  PROVE  DocumentInv'
<1>1. /\ ui' = [ui EXCEPT !.focus = e]
      /\ UNCHANGED <<market, dealt, open, opener, due>>
  BY DEF MoveFocus
<1>2. Follows([ui EXCEPT !.focus = e], open, market, opener)
  BY FocusMoved DEF DocumentInv
<1>3. Follows(ui', open', market', opener')
  BY <1>1, <1>2
<1>4. DocumentTypeOK' /\ AtMostOneOpen'
  BY <1>1 DEF DocumentInv, DocumentTypeOK, AtMostOneOpen, Openers
<1>5. QED
  BY <1>3, <1>4 DEF DocumentInv

LEMMA OpenDialogStep ==
  ASSUME DocumentInv, NEW d \in Dialogs, NEW c, OpenDialog(d, c)
  PROVE  DocumentInv'
<1>1. PICK b : b = TriggerOf(d, c)
  OBVIOUS
<1>2. PICK u : u = [Settled EXCEPT !.focus = b]
  OBVIOUS
<1>3. /\ b \in Triggers(market) /\ ~ui.inert /\ opener' = b
      /\ RenderAtOnce(u, open \cup {d}) /\ UNCHANGED <<market, dealt>>
  BY <1>1, <1>2 DEF OpenDialog
<1>4. open = {} /\ open \cup {d} = {d}
  BY <1>3 DEF DocumentInv, Follows
<1>5. dealt \in Nat /\ market \in Seq(1 .. dealt)
  BY DEF DocumentInv, DocumentTypeOK
<1>6. Follows(Settled, {}, market, opener) /\ Settled \in Doc
  BY <1>4, SettledFollows DEF Follows
<1>7. b \in Places /\ \E t \in -1 .. dealt : b = Trigger(t)
  BY <1>3, <1>5, PlacesOfTriggers
<1>8. Follows(u, {}, market, opener) /\ u.focus = b
  BY <1>2, <1>3, <1>6, <1>7, FocusMoved DEF Doc
<1>9. Follows(RunEffects(Commit(u, {d}, market), {d}, market), {d}, market, b)
  BY <1>3, <1>5, <1>8, OpeningFollows
<1>10. /\ open' = {d} /\ due' = FALSE
       /\ ui' = RunEffects(Commit(u, {d}, market), {d}, market)
  BY <1>3, <1>4 DEF RenderAtOnce
<1>11. Follows(ui', open', market', opener')
  BY <1>3, <1>9, <1>10
<1>12. DocumentTypeOK' /\ AtMostOneOpen'
  BY <1>3, <1>7, <1>10 DEF DocumentInv, DocumentTypeOK, AtMostOneOpen, Openers
<1>13. QED
  BY <1>11, <1>12 DEF DocumentInv

\* The place, once the card at i is taken, of what came after it.
LEMMA PlaceAfter ==
  ASSUME NEW i \in Int, NEW len \in Int, NEW j \in Int,
         1 <= i, i <= len, i <= j, j <= (i - 1) + (len - i)
  PROVE  j - (i - 1) \in 1 .. len - i /\ i + (j - (i - 1)) \in 1 .. len
OBVIOUS

LEMMA LengthAfter ==
  ASSUME NEW i \in Int, NEW len \in Int, 1 <= i, i <= len
  PROVE  /\ len - (i + 1) + 1 = len - i
         /\ (IF i + 1 <= len THEN len - (i + 1) + 1 ELSE 0) = len - i
OBVIOUS

\* A snapshot deals new cards only: what was taken does not come back.
LEMMA MarketMoves ==
  ASSUME NEW n \in Nat, NEW cards \in Seq(1 .. n), NEW i \in DOMAIN cards
  PROVE  /\ RemoveAt(cards, i) \in Seq(1 .. n)
         /\ Triggers(RemoveAt(cards, i)) \subseteq Triggers(cards)
         /\ [cards EXCEPT ![i] = n + 1] \in Seq(1 .. n + 1)
         /\ Triggers([cards EXCEPT ![i] = n + 1])
              \subseteq Triggers(cards) \cup {Trigger(n + 1)}
<1>1. PICK len \in Nat : len = Len(cards) /\ i \in 1 .. len /\ DOMAIN cards = 1 .. len
  OBVIOUS
<1>2. PICK r : r = RemoveAt(cards, i)
  OBVIOUS
<1>3. PICK s \in Seq(1 .. n) : /\ s = SubSeq(cards, 1, i - 1) /\ Len(s) = i - 1
                              /\ \A j \in 1 .. i - 1 : s[j] = cards[j]
  <2>1. /\ 1 \in Int /\ i - 1 \in Int /\ (i - 1) - 1 + 1 = i - 1
        /\ (IF 1 <= i - 1 THEN (i - 1) - 1 + 1 ELSE 0) = i - 1
        /\ \A j \in 1 .. i - 1 : cards[j] \in 1 .. n
    BY <1>1
  <2>2. \A j \in 1 .. i - 1 : 1 + j - 1 = j
    BY <1>1
  <2>3. PICK s : s = SubSeq(cards, 1, i - 1)
    OBVIOUS
  <2>4. /\ s \in Seq(1 .. n) /\ Len(s) = IF 1 <= i - 1 THEN (i - 1) - 1 + 1 ELSE 0
        /\ \A j \in 1 .. (i - 1) - 1 + 1 : s[j] = cards[1 + j - 1]
    BY <2>1, <2>3, SubSeqProperties
  <2>5. Len(s) = i - 1
    BY <2>1, <2>4
  <2>6. \A j \in 1 .. i - 1 : s[j] = cards[j]
    BY <2>1, <2>2, <2>4
  <2>7. QED
    BY <2>3, <2>4, <2>5, <2>6
<1>4. PICK t \in Seq(1 .. n) : /\ t = SubSeq(cards, i + 1, len) /\ Len(t) = len - i
                              /\ \A j \in 1 .. len - i : t[j] = cards[i + j]
  <2>1. /\ i + 1 \in Int /\ len \in Int /\ len - (i + 1) + 1 = len - i
        /\ (IF i + 1 <= len THEN len - (i + 1) + 1 ELSE 0) = len - i
        /\ \A j \in i + 1 .. len : cards[j] \in 1 .. n
    <3>1. i \in Int /\ len \in Int /\ 1 <= i /\ i <= len
      BY <1>1
    <3>2. \A j \in i + 1 .. len : j \in DOMAIN cards
      BY <1>1, <3>1
    <3>3. QED
      BY <3>1, <3>2, LengthAfter
  <2>2. \A j \in 1 .. len - i : (i + 1) + j - 1 = i + j
    BY <1>1
  <2>3. PICK t : t = SubSeq(cards, i + 1, len)
    OBVIOUS
  <2>4. /\ t \in Seq(1 .. n) /\ Len(t) = IF i + 1 <= len THEN len - (i + 1) + 1 ELSE 0
        /\ \A j \in 1 .. len - (i + 1) + 1 : t[j] = cards[(i + 1) + j - 1]
    BY <2>1, <2>3, SubSeqProperties
  <2>5. Len(t) = len - i
    BY <2>1, <2>4
  <2>6. \A j \in 1 .. len - i : t[j] = cards[i + j]
    BY <2>1, <2>2, <2>4
  <2>7. QED
    BY <2>3, <2>4, <2>5, <2>6
<1>5. r = s \o t
  BY <1>1, <1>2, <1>3, <1>4 DEF RemoveAt
<1>6. /\ r \in Seq(1 .. n) /\ Len(r) = (i - 1) + (len - i)
      /\ \A j \in 1 .. Len(r) : r[j] = IF j <= i - 1 THEN s[j] ELSE t[j - (i - 1)]
  <2>1. /\ s \o t \in Seq(1 .. n) /\ Len(s \o t) = Len(s) + Len(t)
        /\ \A j \in 1 .. Len(s) + Len(t) :
             (s \o t)[j] = IF j <= Len(s) THEN s[j] ELSE t[j - Len(s)]
    BY ConcatProperties
  <2>2. QED
    BY <1>3, <1>4, <1>5, <2>1
<1>7. \A j \in DOMAIN r : \E k \in DOMAIN cards : r[j] = cards[k]
  <2>1. TAKE j \in DOMAIN r
  <2>2. j \in 1 .. (i - 1) + (len - i) /\ r[j] = IF j <= i - 1 THEN s[j] ELSE t[j - (i - 1)]
    <3>1. DOMAIN r = 1 .. Len(r)
      BY <1>6
    <3>2. QED
      BY <1>6, <2>1, <3>1
  <2>3. CASE j <= i - 1
    <3>1. j \in 1 .. i - 1 /\ j \in DOMAIN cards
      BY <1>1, <2>2, <2>3
    <3>2. QED
      BY <1>3, <2>2, <2>3, <3>1
  <2>4. CASE ~(j <= i - 1)
    <3>1. j - (i - 1) \in 1 .. len - i /\ i + (j - (i - 1)) \in DOMAIN cards
      <4>1. i \in Int /\ len \in Int /\ j \in Int /\ 1 <= i /\ i <= len
        BY <1>1, <2>2
      <4>2. i <= j /\ j <= (i - 1) + (len - i)
        BY <2>2, <2>4, <4>1
      <4>3. QED
        BY <1>1, <4>1, <4>2, PlaceAfter
    <3>2. QED
      BY <1>4, <2>2, <2>4, <3>1
  <2>5. QED
    BY <2>3, <2>4
<1>8. Triggers(r) \subseteq Triggers(cards)
  BY <1>7 DEF Triggers
<1>9. PICK m : m = [cards EXCEPT ![i] = n + 1]
  OBVIOUS
<1>10. m \in Seq(1 .. n + 1) /\ DOMAIN m = DOMAIN cards
      /\ \A j \in DOMAIN cards : m[j] = IF j = i THEN n + 1 ELSE cards[j]
  BY <1>9
<1>11. Triggers(m) \subseteq Triggers(cards) \cup {Trigger(n + 1)}
  BY <1>10 DEF Triggers
<1>12. QED
  BY <1>2, <1>6, <1>8, <1>9, <1>10, <1>11

LEMMA SnapshotStep ==
  ASSUME MaxCard \in Nat, DocumentInv, Snapshot
  PROVE  DocumentInv'
<1>1. /\ dealt \in Nat /\ dealt <= MaxCard /\ market \in Seq(1 .. dealt) /\ opener \in Openers
      /\ open = {} \/ \E d \in Dialogs : open = {d}
  BY DEF DocumentInv, DocumentTypeOK, AtMostOneOpen
<1>2. /\ ui' = Commit(Settled, open, market') /\ due' = TRUE
      /\ UNCHANGED <<open, opener>>
  BY DEF Snapshot
<1>3. /\ dealt' \in Nat /\ dealt' <= MaxCard /\ dealt <= dealt'
      /\ market' \in Seq(1 .. dealt')
      /\ opener \in Triggers(market') => opener \in Triggers(market)
  <2>1. CASE UNCHANGED <<market, dealt>>
    BY <1>1, <2>1
  <2>2. ASSUME NEW i \in DOMAIN market, dealt < MaxCard, dealt' = dealt + 1,
               market' = [market EXCEPT ![i] = dealt + 1]
        PROVE  <1>3
    <3>1. /\ market' \in Seq(1 .. dealt')
          /\ Triggers(market') \subseteq Triggers(market) \cup {Trigger(dealt + 1)}
      BY <1>1, <2>2, MarketMoves
    <3>2. opener # Trigger(dealt + 1)
      <4>1. Body # Trigger(dealt + 1)
        BY DEF Body, Trigger
      <4>2. \A t \in -1 .. dealt : Trigger(t) # Trigger(dealt + 1)
        BY <1>1 DEF Trigger
      <4>3. QED
        BY <1>1, <4>1, <4>2 DEF Openers
    <3>3. dealt' \in Nat /\ dealt' <= MaxCard /\ dealt <= dealt'
      BY <1>1, <2>2
    <3>4. QED
      BY <3>1, <3>2, <3>3
  <2>3. ASSUME NEW i \in DOMAIN market, market' = RemoveAt(market, i), dealt' = dealt
        PROVE  <1>3
    <3>1. market' \in Seq(1 .. dealt) /\ Triggers(market') \subseteq Triggers(market)
      BY <1>1, <2>3, MarketMoves
    <3>2. QED
      BY <1>1, <2>3, <3>1
  <2>4. QED
    BY <2>1, <2>2, <2>3 DEF Snapshot
<1>4. Follows(Commit(Settled, open, market'), open, market', opener)
  BY <1>1, <1>3, SettledFollows, CommitFollows
<1>5. Follows(ui', open', market', opener')
  BY <1>2, <1>4
<1>6. opener' \in Openers'
  BY <1>1, <1>2, <1>3 DEF Openers
<1>7. DocumentTypeOK' /\ AtMostOneOpen'
  BY <1>1, <1>2, <1>3, <1>6 DEF DocumentInv, DocumentTypeOK, AtMostOneOpen
<1>8. QED
  BY <1>5, <1>7 DEF DocumentInv

\* A click on an item that closes its dialog: the focus moves there first.
LEMMA PressFollows ==
  ASSUME DocumentInv, NEW d \in open, NEW i \in Int
  PROVE  Follows([Settled EXCEPT !.focus = Item(d, i)], open, market, opener)
<1>1. d \in Dialogs /\ open = {d}
  BY DEF DocumentInv, DocumentTypeOK, AtMostOneOpen
<1>2. PICK e : e = Item(d, i)
  OBVIOUS
<1>3. e \in Places /\ e[1] = d
  BY <1>1, <1>2, PlacesOfItems
<1>4. Follows(Settled, open, market, opener)
  BY SettledFollows
<1>5. QED
  BY <1>1, <1>2, <1>3, <1>4, FocusMoved

\* What a step does that closes a dialog, and what one does that does not.
Closes == DocumentInv' /\ (opener \in Triggers(market) => ui'.focus = opener)

LEMMA EscapeStep ==
  ASSUME DocumentInv, NEW d, Escape(d)
  PROVE  Closes
<1>1. d \in open /\ RenderAtOnce(Settled, open \ {d}) /\ UNCHANGED <<market, dealt, opener>>
  BY DEF Escape
<1>2. QED
  BY <1>1, SettledFollows, ClosingStep DEF Closes

LEMMA PressCloseStep ==
  ASSUME DocumentInv, NEW d, NEW i \in 0 .. 2, PressClose(d, i)
  PROVE  Closes
<1>1. PICK u : u = [Settled EXCEPT !.focus = Item(d, i)]
  OBVIOUS
<1>2. d \in open /\ RenderAtOnce(u, open \ {d}) /\ UNCHANGED <<market, dealt, opener>>
  BY <1>1 DEF PressClose
<1>3. Follows(u, open, market, opener)
  BY <1>1, <1>2, PressFollows
<1>4. QED
  BY <1>2, <1>3, ClosingStep DEF Closes

LEMMA PressReserveStep ==
  ASSUME DocumentInv, PressReserve
  PROVE  Closes
<1>1. PICK u : u = [Settled EXCEPT !.focus = Item("card", LastItem("card"))]
  OBVIOUS
<1>2. "card" \in open /\ RenderAtOnce(u, open \ {"card"}) /\ UNCHANGED <<market, dealt, opener>>
  BY <1>1 DEF PressReserve
<1>3. LastItem("card") \in Int
  BY DEF LastItem
<1>4. Follows(u, open, market, opener)
  BY <1>1, <1>2, <1>3, PressFollows
<1>5. QED
  BY <1>2, <1>4, ClosingStep DEF Closes

LEMMA FocusMoves ==
  ASSUME DocumentInv,
         \/ \E d \in Dialogs : \/ ClickDialog(d)
                                \/ \E i \in 0 .. 2 : TabNext(d, i) \/ TabBack(d, i)
         \/ TabFromBody \/ ClickBackdrop
  PROVE  DocumentInv' /\ open' = open
<1>1. open \in SUBSET Dialogs /\ dealt \in Nat /\ market \in Seq(1 .. dealt)
      /\ (open = {} \/ \E d \in Dialogs : open = {d})
  BY DEF DocumentInv, DocumentTypeOK, AtMostOneOpen
<1>2. ASSUME NEW e, MoveFocus(e)
      PROVE  open' = open
  BY <1>2 DEF MoveFocus
<1>3. ASSUME NEW d \in open, NEW i \in Int, MoveFocus(Item(d, i))
      PROVE  DocumentInv' /\ open' = open
  <2>1. PICK e : e = Item(d, i)
    OBVIOUS
  <2>2. e \in Places /\ e[1] = d /\ MoveFocus(e)
    BY <1>1, <1>3, <2>1, PlacesOfItems
  <2>3. open = {d}
    BY <1>1
  <2>4. QED
    BY <1>2, <2>2, <2>3, FocusStep
<1>4. ASSUME open # {}, MoveFocus(Body)
      PROVE  DocumentInv' /\ open' = open
  BY <1>2, <1>4, PlacesOfItems, FocusStep
<1>5. ASSUME NEW e \in Triggers(market), ~ui.inert, MoveFocus(e)
      PROVE  DocumentInv' /\ open' = open
  <2>1. open = {}
    BY <1>5 DEF DocumentInv, Follows
  <2>2. e \in Places
    BY <1>1, PlacesOfTriggers
  <2>3. QED
    BY <1>2, <1>5, <2>1, <2>2, FocusStep
<1>6. ASSUME NEW d \in Dialogs, ClickDialog(d)
      PROVE  DocumentInv' /\ open' = open
  BY <1>3, <1>6 DEF ClickDialog
<1>7. ASSUME NEW d \in Dialogs, NEW i \in 0 .. 2, TabNext(d, i)
      PROVE  DocumentInv' /\ open' = open
  <2>1. PICK j \in Int : d \in open /\ MoveFocus(Item(d, j))
    <3>1. (IF i = LastItem(d) THEN 1 ELSE i + 1) \in Int
      OBVIOUS
    <3>2. QED
      BY <1>7, <3>1 DEF TabNext
  <2>2. QED
    BY <1>3, <2>1
<1>8. ASSUME NEW d \in Dialogs, NEW i \in 0 .. 2, TabBack(d, i)
      PROVE  DocumentInv' /\ open' = open
  <2>1. CASE i = 0
    BY <1>4, <1>8, <2>1 DEF TabBack
  <2>2. CASE i # 0
    <3>1. (IF i = 1 THEN LastItem(d) ELSE i - 1) \in Int
      BY DEF LastItem
    <3>2. d \in open /\ MoveFocus(Item(d, IF i = 1 THEN LastItem(d) ELSE i - 1))
      BY <1>8, <2>2 DEF TabBack
    <3>3. QED
      BY <1>3, <3>1, <3>2
  <2>3. QED
    BY <2>1, <2>2
<1>9. ASSUME TabFromBody
      PROVE  DocumentInv' /\ open' = open
  <2>1. CASE \E d \in open, i \in 1 .. 2 : MoveFocus(Item(d, i))
    BY <1>3, <2>1
  <2>2. CASE ~ui.inert /\ \E e \in Triggers(market) : MoveFocus(e)
    BY <1>5, <2>2
  <2>3. QED
    BY <1>9, <2>1, <2>2 DEF TabFromBody
<1>10. ASSUME ClickBackdrop
       PROVE  DocumentInv' /\ open' = open
  BY <1>4, <1>10 DEF ClickBackdrop
<1>11. QED
  BY <1>6, <1>7, <1>8, <1>9, <1>10

LEMMA DialogStep ==
  ASSUME MaxCard \in Nat, DocumentInv, [DialogNext]_dialogVars
  PROVE  DocumentInv' /\ (Closes \/ open' = open \/ open' # {})
<1>1. ASSUME NEW d \in Dialogs, NEW c, OpenDialog(d, c)
      PROVE  DocumentInv' /\ open' # {}
  <2>1. d \in open'
    BY <1>1 DEF OpenDialog, RenderAtOnce
  <2>2. QED
    BY <1>1, <2>1, OpenDialogStep
<1>2. CASE Snapshot
  BY <1>2, SnapshotStep DEF Snapshot
<1>3. CASE EffectsRun
  <2>1. Follows(Settled, open, market, opener)
    BY SettledFollows
  <2>2. /\ ui' = Settled /\ due' = FALSE /\ UNCHANGED <<market, dealt, open, opener>>
    BY <1>3 DEF EffectsRun
  <2>3. Follows(ui', open', market', opener')
    BY <2>1, <2>2
  <2>4. DocumentTypeOK' /\ AtMostOneOpen'
    BY <2>2 DEF DocumentInv, DocumentTypeOK, AtMostOneOpen, Openers
  <2>5. QED
    BY <2>2, <2>3, <2>4 DEF DocumentInv
<1>4. CASE UNCHANGED dialogVars
  BY <1>4 DEF dialogVars, DocumentInv, DocumentTypeOK, AtMostOneOpen, Openers, Follows
<1>5. CASE \E d \in Dialogs : Escape(d) \/ \E i \in 0 .. 2 : PressClose(d, i)
  BY <1>5, EscapeStep, PressCloseStep DEF Closes
<1>6. CASE PressReserve
  BY <1>6, PressReserveStep DEF Closes
<1>7. CASE \/ \E d \in Dialogs : \/ ClickDialog(d)
                                 \/ \E i \in 0 .. 2 : TabNext(d, i) \/ TabBack(d, i)
           \/ TabFromBody \/ ClickBackdrop
  BY <1>7, FocusMoves
<1>8. "card" \in Dialogs /\ {"rivals", "vault"} \subseteq Dialogs
  BY DEF Dialogs
<1>9. CASE DialogNext
  <2>1. CASE \E d \in {"rivals", "vault"} : OpenDialog(d, 0)
    BY <1>1, <1>8, <2>1
  <2>2. CASE \E c \in 1 .. MaxCard : OpenDialog("card", c)
    BY <1>1, <1>8, <2>2
  <2>3. QED
    BY <1>2, <1>3, <1>5, <1>6, <1>7, <1>9, <2>1, <2>2 DEF DialogNext
<1>10. QED
  BY <1>4, <1>9

\* However the snapshots re-render the screen, at most one dialog is open; its
\* listeners, the background and the focus are those of what is open, and the
\* dialog remembers the trigger to return to while that is there.  The bounds
\* are DialogAssumption.
THEOREM DocumentFollowsDialogs ==
  OpenCards \in Nat /\ MaxCard \in Nat /\ OpenCards <= MaxCard => (DialogSpec => []DocumentInv)
<1> SUFFICES ASSUME OpenCards \in Nat, MaxCard \in Nat, OpenCards <= MaxCard
             PROVE  DialogSpec => []DocumentInv
  OBVIOUS
<1>1. DialogInit => DocumentInv
  BY DocumentInvStarts
<1>2. DocumentInv /\ [DialogNext]_dialogVars => DocumentInv'
  BY DialogStep
<1>3. QED
  BY <1>1, <1>2, PTL DEF DialogSpec

LEMMA DocumentInvIsEnough ==
  ASSUME DocumentInv
  PROVE  DialogInv
<1>1. /\ dealt \in Nat /\ dealt <= MaxCard /\ market \in Seq(1 .. dealt)
      /\ open \in SUBSET Dialogs /\ (open = {} \/ \E d \in Dialogs : open = {d})
  BY DEF DocumentInv, DocumentTypeOK, AtMostOneOpen
<1>2. /\ ui \in Doc /\ ui.active = open /\ (ui.inert <=> open # {})
      /\ ui.handlers = Listening(open)
      /\ open = {} => ui.focus = Body \/ ui.focus \in Triggers(market)
      /\ \A d \in open : ui.focus[1] = d \/ ui.focus = Body
  BY DEF DocumentInv, Follows
<1>3. DialogTypeOK
  <2>1. dealt \in 0 .. MaxCard /\ \A i \in DOMAIN market : market[i] \in 1 .. dealt
    BY <1>1
  <2>2. ui.focus = Body \/ ui.focus \in Triggers(market) \/ ui.focus[1] \in open
    BY <1>1, <1>2
  <2>3. QED
    BY <1>1, <1>2, <2>1, <2>2 DEF DialogTypeOK
<1>4. OneListenerWhileOpen
  BY <1>2 DEF OneListenerWhileOpen, Listening
<1>5. OneDialogAtATime
  <2>1. Cardinality(open) <= 1
    <3>1. Cardinality({}) = 0 /\ \A d \in Dialogs : Cardinality({d}) = 1
      BY FS_EmptySet, FS_Singleton, Zenon
    <3>2. CASE open = {}
      BY <3>1, <3>2
    <3>3. ASSUME NEW d \in Dialogs, open = {d}
          PROVE  Cardinality(open) <= 1
      BY <3>1, <3>3
    <3>4. QED
      BY <1>1, <3>2, <3>3, Zenon
  <2>2. Cardinality(open) = Cardinality(open)
    BY Zenon DEF Cardinality
  <2>3. QED
    BY <2>1, <2>2 DEF OneDialogAtATime
<1>6. FocusNotBehind
  <2>1. Body[1] # "background" /\ "background" \notin Dialogs
    BY DEF Body, Dialogs
  <2>2. QED
    BY <1>1, <1>2, <2>1 DEF FocusNotBehind
<1>7. QED
  BY <1>3, <1>4, <1>5, <1>6 DEF DialogInv

\* Listeners, background and focus belong to the one dialog that is open, for
\* any number of cards and however often snapshots re-render it.
THEOREM DialogIsSafe ==
  OpenCards \in Nat /\ MaxCard \in Nat /\ OpenCards <= MaxCard => (DialogSpec => []DialogInv)
BY DocumentFollowsDialogs, DocumentInvIsEnough, PTL

\* A dialog that closes gives the focus back to the trigger that opened it, if
\* that is still there.
THEOREM FocusIsReturned ==
  OpenCards \in Nat /\ MaxCard \in Nat /\ OpenCards <= MaxCard => (DialogSpec => FocusReturns)
<1> SUFFICES ASSUME OpenCards \in Nat, MaxCard \in Nat, OpenCards <= MaxCard
             PROVE  DialogSpec => FocusReturns
  OBVIOUS
<1>1. DocumentInv /\ [DialogNext]_dialogVars
        => [open # {} /\ open' = {} /\ opener \in Triggers(market) => ui'.focus = opener]_dialogVars
  BY DialogStep DEF Closes
<1>2. DialogSpec => []DocumentInv
  BY DocumentFollowsDialogs
<1>3. QED
  BY <1>1, <1>2, PTL DEF DialogSpec, FocusReturns
=============================================================================
