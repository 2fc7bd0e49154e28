------------------------------- MODULE Lobby -------------------------------
(***************************************************************************)
(* One browser tab on its way from the login to a game and out of it       *)
(* again, together with the requests of others: how games come to be,      *)
(* which pages show them, and in whose name a page sends commands.         *)
(*                                                                         *)
(* A page is reached by a link, by the code (router.push) or by typing its *)
(* address.  A request outlives the page that made it: its answer still    *)
(* moves the tab, unless the document was replaced meanwhile.              *)
(***************************************************************************)
EXTENDS Envelope

CONSTANTS
  FreshIds,     \* the ids randomUUID may give, cut to eight digits
  Typed,        \* what is typed as a user id, or stands in an address
  Denied,       \* names that contain "denied"
  NotLatin,     \* names with a letter that no HTTP header can hold
  MockAuth,     \* ENABLE_LOCAL_AUTH_MOCK
  ApiBodies,    \* bodies of POST /local/games from elsewhere
  MaxRequests,  \* bound on the requests of the lobby
  MaxVersion    \* bound on the version of a game

\* What the screen takes tokens with, whatever tokens.
TokensPayload == [tokens |-> Object, returnedTokens |-> Undefined]
ScreenCommands ==
  [type : Text, gameId : Text, actorId : Text, expectedVersion : Nat, idempotencyKey : Text,
   payload : {TokensPayload}]

ASSUME LobbyAssumption ==
  /\ \A m \in Markers : m \notin ScreenCommands /\ m # TokensPayload
  /\ FreshIds \subseteq Names /\ Typed \subseteq Text \cup {Blank}
  /\ Denied \subseteq Names /\ NotLatin \subseteq Names
  /\ \A body \in ApiBodies :
       body.playerIds \in {Undefined, Other} \cup Seq(Text \cup Markers)
  /\ MockAuth \in BOOLEAN /\ MaxRequests \in Nat /\ MaxVersion \in Nat

VARIABLES
  games,        \* the registry: id |-> the stored game
  page,         \* the page shown: where, of which game, for which user, and how it was reached
  userId,       \* the user id in the form of the lobby
  pending,      \* the lobby's buttons are disabled
  requests,     \* what the lobby asked for, in order
  answer        \* what became of the last command of the page

vars == <<games, page, userId, pending, requests, answer>>

Default == Plain(DefaultPlayers[1])
Second == Plain(DefaultPlayers[2])

\* query.userId?.trim() || "player-1"
PageUser(v) == IF v \in Text THEN Trim(v) ELSE Default

Page(at, game, user, via) == [at |-> at, game |-> game, user |-> user, via |-> via]
NoGame(at) == Page(at, Undefined, Default, "link")

Init ==
  /\ games = <<>>
  /\ page = NoGame("login")
  /\ userId = Default
  /\ pending = FALSE
  /\ requests = <<>>
  /\ answer = "none"

-----------------------------------------------------------------------------
(* Pages.                                                                  *)

\* Another page of the same document: the lobby's component is gone, its
\* requests are not.
Leave(p) ==
  /\ page' = p
  /\ userId' = p.user /\ pending' = FALSE /\ answer' = "none"
  /\ requests' = [i \in DOMAIN requests |->
       [requests[i] EXCEPT !.from = IF @ = "shown" THEN "left" ELSE @]]

\* A new document.
Load(p) ==
  /\ page' = p
  /\ userId' = p.user /\ pending' = FALSE /\ answer' = "none"
  /\ requests' = [i \in DOMAIN requests |-> [requests[i] EXCEPT !.from = "closed"]]

\* handleSubmit of LoginForm
Login(typed) ==
  /\ page.at = "login" /\ typed \in Text
  /\ IF MockAuth /\ typed.name \in Denied
     THEN Leave(NoGame("denied"))
     ELSE Leave(Page("lobby", Undefined, PageUser(Trim(typed)), "link"))
  /\ UNCHANGED games

\* The links of the denied page, of the lobby and of the pages of a game.
BackToLogin ==
  /\ page.at \in {"denied", "lobby"}
  /\ Leave(NoGame("login"))
  /\ UNCHANGED games
LeaveMatch ==
  /\ page.at = "game"
  /\ Leave(NoGame("lobby"))
  /\ UNCHANGED games
LeaveVictory ==
  /\ page.at = "victory"
  /\ Leave(Page("lobby", Undefined, page.user, "link"))
     \/ Leave(Page("game", page.game, page.user, page.via))
  /\ UNCHANGED games

\* The button is shown once the game has ended.
GoVictory ==
  /\ page.at = "game" /\ page.game \in DOMAIN games
  /\ games[page.game].status = "ENDED"
  /\ Leave(Page("victory", page.game, page.user, page.via))
  /\ UNCHANGED games

\* An address is typed.
Visit(at, id, v) ==
  /\ Load(Page(at, IF at = "lobby" THEN Undefined ELSE id, PageUser(v), "address"))
  /\ UNCHANGED games

EditUser(typed) ==
  /\ page.at = "lobby"
  /\ userId' = typed
  /\ UNCHANGED <<games, page, pending, requests, answer>>

-----------------------------------------------------------------------------
(* Creating and joining.                                                   *)

Ask(kind, id) ==
  /\ page.at = "lobby" /\ Len(requests) < MaxRequests
  /\ requests' = Append(requests,
       [kind |-> kind, user |-> userId, game |-> id, at |-> "asked", from |-> "shown"])
  /\ pending' = TRUE
  /\ UNCHANGED <<games, page, userId, answer>>

\* handleCreateGame; the button waits for what is pending, the games of the
\* list, which all are previews, do not.
AskCreate == Ask("create", Undefined)

\* handleJoinGame, for an id that is not blank
AskJoin(id) == ~pending /\ Ask("join", id)

\* createGame of the repository refuses an id that is taken; without that,
\* every id is free.
Free(id) == TRUE
Vacant(id) == id \notin DOMAIN games

\* POST /local/games: the id it stored a game under, if any.
PlayersAsked(body) == ResolvePlayerIds(body.playerIds)
StoreGame(id, ids) ==
  games' = [g \in DOMAIN games \cup {id} |->
              IF g = id THEN CreateLocalGameContext(ids) ELSE games[g]]
MayCreate(id, ids) == ValidatePlayerIds(ids) = "ok" /\ Vacant(id)

ApiCreate(body, fresh) ==
  LET id == ResolveGameId(body.gameId, fresh) IN
  /\ MayCreate(id, PlayersAsked(body))
  /\ StoreGame(id, PlayersAsked(body))
  /\ UNCHANGED <<page, userId, pending, requests, answer>>

ServeCreate(i, fresh) ==
  LET ids == ResolvePlayerIds(<<requests[i].user, Second>>) IN
  /\ requests[i].kind = "create" /\ requests[i].at = "asked"
  /\ IF MayCreate(fresh, ids)
     THEN /\ StoreGame(fresh, ids)
          /\ requests' = [requests EXCEPT ![i].at = "found", ![i].game = fresh]
     ELSE /\ requests' = [requests EXCEPT ![i].at = "refused"]
          /\ UNCHANGED games
  /\ UNCHANGED <<page, userId, pending, answer>>

\* GET /local/games/:gameId
ServeJoin(i) ==
  /\ requests[i].kind = "join" /\ requests[i].at = "asked"
  /\ requests' = [requests EXCEPT ![i].at =
       IF requests[i].game \in DOMAIN games THEN "found" ELSE "refused"]
  /\ UNCHANGED <<games, page, userId, pending, answer>>

\* The answer arrives, after the await of the handler, which uses the user id
\* of the render it was called from, not the one now in the form.
PageForForm(r) == Page("game", r.game, PageUser(userId), r.kind)
PageFor(r) == Page("game", r.game, PageUser(r.user), r.kind)
Arrived(i) == requests[i].at = "found" /\ requests[i].from # "closed"
Found(i) ==
  /\ Arrived(i)
  /\ page' = PageFor(requests[i])
  /\ userId' = PageFor(requests[i]).user /\ pending' = FALSE /\ answer' = "none"
  /\ requests' = [j \in DOMAIN requests |->
       IF j = i THEN [requests[i] EXCEPT !.at = "done"]
       ELSE [requests[j] EXCEPT !.from = IF @ = "shown" THEN "left" ELSE @]]
  /\ UNCHANGED games

\* An error, or no answer at all: setError, and the buttons are back.
Refused(i) ==
  /\ requests[i].at \in {"asked", "found", "refused"} /\ requests[i].from # "closed"
  /\ requests' = [requests EXCEPT ![i].at = IF @ = "asked" THEN "lost" ELSE "done"]
  /\ pending' = IF requests[i].from = "shown" THEN FALSE ELSE pending
  /\ UNCHANGED <<games, page, userId, answer>>

-----------------------------------------------------------------------------
(* Playing.                                                                *)

\* submitCommand of the game screen, which may show an older version, up to
\* the answer: fetch throws where the header cannot be sent, and otherwise the
\* server refuses it or applies it.  TAKE_TOKENS stands for both commands of
\* the screen.
ScreenCommand(v) ==
  [type |-> Plain("TAKE_TOKENS"), gameId |-> Plain(page.game), actorId |-> page.user,
   expectedVersion |-> v, idempotencyKey |-> Plain("TAKE_TOKENS"),
   payload |-> TokensPayload]

SendCommand(v) ==
  /\ page.at = "game" /\ page.game \in DOMAIN games
  /\ v <= games[page.game].version
  /\ LET refusal == Refusal(Plain(page.game), page.user, ScreenCommand(v), games[page.game])
     IN \/ /\ page.user.name \in NotLatin
           /\ answer' = "SEND_FAILED"
           /\ UNCHANGED games
        \/ /\ page.user.name \notin NotLatin /\ refusal # "ok"
           /\ answer' = refusal
           /\ UNCHANGED games
        \/ /\ page.user.name \notin NotLatin /\ refusal = "ok"
           /\ games[page.game].version < MaxVersion
           /\ answer' = "accepted"
           /\ games' = [games EXCEPT ![page.game].version = @ + 1]
  /\ UNCHANGED <<page, userId, pending, requests>>

\* Other clients move a game on, up to its end.
OthersPlay(id) ==
  /\ id \in DOMAIN games
  /\ games[id].status = "IN_PROGRESS" /\ games[id].version < MaxVersion
  /\ \/ games' = [games EXCEPT ![id].version = @ + 1]
     \/ games' = [games EXCEPT ![id].version = @ + 1, ![id].status = "ENDED"]
  /\ UNCHANGED <<page, userId, pending, requests, answer>>

Next ==
  \/ BackToLogin \/ LeaveMatch \/ LeaveVictory \/ GoVictory \/ AskCreate
  \/ \E typed \in Typed : Login(typed) \/ EditUser(typed)
  \/ \E id \in FreshIds :
       \/ AskJoin(id) \/ OthersPlay(id)
       \/ \E v \in Typed, at \in {"lobby", "game", "victory"} : Visit(at, id, v)
       \/ \E body \in ApiBodies : ApiCreate(body, id)
  \/ \E i \in DOMAIN requests :
       \/ ServeJoin(i) \/ Found(i) \/ Refused(i)
       \/ \E fresh \in FreshIds : ServeCreate(i, fresh)
  \/ \E v \in 1 .. MaxVersion : SendCommand(v)

Spec == Init /\ [][Next]_vars

-----------------------------------------------------------------------------
(* Properties.                                                             *)

\* A page of a game has the name of one, and a user id without white space
\* around it; a request that found a game has its id.
LobbyTypeOK ==
  /\ page.at \in {"login", "denied", "lobby", "game", "victory"}
  /\ page.at \in {"game", "victory"} <=> page.game \in Names
  /\ page.user \in {Plain(n) : n \in Names}
  /\ userId \in Text \cup {Blank} /\ pending \in BOOLEAN
  /\ \A i \in DOMAIN requests :
       requests[i].at \in {"found", "done"} /\ requests[i].kind = "join"
         => requests[i].game \in Names

Created(id) == id \in DOMAIN games /\ games[id].version = 1

\* The rule engine, for a game of the real cards and the given players.
Seatings == UNION {[1 .. k -> Names] : k \in 1 .. 5}
Rules(order, game) == INSTANCE RuleEngine WITH
  PlayerOrder <- order, NoPlayer <- Undefined, Tiers <- 1 .. 3,
  Cards <- CardNumbers, CardTier <- [c \in CardNumbers |-> DevelopmentCards[c].tier],
  CardCost <- [c \in CardNumbers |-> DevelopmentCards[c].cost],
  CardBonus <- [c \in CardNumbers |-> DevelopmentCards[c].bonus],
  CardPoints <- [c \in CardNumbers |-> DevelopmentCards[c].points],
  Nobles <- 1 .. PlayerSetupByCount(Len(order)).nobles,
  NobleRequirement <- NobleTiles, NoblePoints <- 3,
  Supply <- BankOf(PlayerSetupByCount(Len(order))),
  FaceUp <- [t \in 1 .. 3 |-> Range(SubSeq(DeckOfTier(t), 1, 4))],
  MarketSize <- 4, ReservedCardLimit <- 3, TargetScore <- 15,
  Requests <- {}, Returns <- {}, Payments <- {}, MaxVersion <- MaxVersion,
  status <- game.status, version <- game.version, turn <- game.turn,
  currentPlayer <- game.currentPlayer, finalRound <- FALSE,
  endTriggeredAtTurn <- 0, endTriggeredBy <- Undefined, winners <- {},
  bank <- game.bank, market <- [t \in 1 .. 3 |-> Range(game.market[t])],
  openNobles <- Range(game.nobles),
  tokens <- [p \in Range(order) |-> NoTokens],
  bonuses <- [p \in Range(order) |-> [c \in GemColors |-> 0]],
  reserved <- [p \in Range(order) |-> {}], purchased <- [p \in Range(order) |-> {}],
  nobles <- [p \in Range(order) |-> {}], score <- [p \in Range(order) |-> 0]

\* Whatever body creates a game, the game starts in the initial state the
\* rule engine is proved from, under the assumptions of those proofs: two to
\* four distinct players, a full market and bank, and every card in one place.
GamesStartAsRulesAssume ==
  \A id \in FreshIds : Created(id) =>
    \E order \in Seatings :
      /\ games[id].playerOrder = order
      /\ Len(order) \in 2 .. 4 /\ IsInjective(order)
      /\ 1 .. PlayerSetupByCount(Len(order)).nobles \subseteq DOMAIN NobleTiles
      /\ \A t \in 1 .. 3 : Cardinality(Range(games[id].market[t])) = 4
      /\ Rules(order, games[id])!Init
      /\ Rules(order, games[id])!CardsInOnePlace
      /\ Rules(order, games[id])!TokensConserved

\* A game is never started anew under the id of another, neither by an id a
\* client chose nor by eight digits that came up before: its players stay, and
\* its version only grows.
GamesNeverReplaced ==
  [][\A id \in FreshIds : id \in DOMAIN games =>
       /\ id \in DOMAIN games' /\ games'[id].playerOrder = games[id].playerOrder
       /\ games'[id].version >= games[id].version
       /\ games'[id].version = games[id].version => games'[id] = games[id]]_vars

\* The lobby moves on only to a game that exists (Lock 6 of the plan for the
\* screens), however many requests are under way and in whatever order their
\* answers come.
LobbyOpensKnownGames ==
  page.via \in {"create", "join"} => page.game \in DOMAIN games

\* Who creates a game sits in its first seat under the name the page then
\* sends commands in, whatever was typed into the form in between.
CreatorHasFirstSeat ==
  page.at = "game" /\ page.via = "create"
    => page.user = Plain(games[page.game].playerOrder[1])

\* The user id is trimmed by the page and once more by the server: a command
\* of the screen never fails for being sent in another's name, nor in a shape
\* the server does not know.
ScreenIsAuthorised ==
  answer \in {"none", "accepted", "SEND_FAILED", "VERSION_CONFLICT",
              "STATE_NOT_ACTIVE", "TURN_NOT_CURRENT_PLAYER"}

\* A tab that comes to a game by the forms is where its answers said, under a
\* name the server knows it by.
LobbyInv == LobbyTypeOK /\ LobbyOpensKnownGames /\ CreatorHasFirstSeat /\ ScreenIsAuthorised

\* The plan for the screens: "the victory route renders normally only when the
\* game has ENDED, otherwise it redirects to the game".
VictoryOnlyWhenEnded ==
  page.at = "victory" => page.game \in DOMAIN games /\ games[page.game].status = "ENDED"

\* The plan for the local runtime: the commands of the web page are sent and
\* update the state.  Nothing in the forms keeps a user from a name in Korean.
CommandsAreSent == answer # "SEND_FAILED"
=============================================================================
