---------------------------- MODULE ClientTheorems ----------------------------
(***************************************************************************)
(* The pages over the runtime.  The game screens, for any number of them,  *)
(* any connections that break and any answers that are lost or late: a     *)
(* screen that only watches shows the newest state once everything has     *)
(* arrived and never goes back, a state has at most one successor whoever  *)
(* sends a command again, and a screen that was left has no socket.  Then  *)
(* the console, for any number of games, sockets and joins: its label, its *)
(* handle, its sockets and what the server follows for them agree.         *)
(***************************************************************************)
EXTENDS GameScreen, Console, RuntimeTheorems

-----------------------------------------------------------------------------
(* The invariant.                                                          *)

\* What the browser sends is about the one game.
RequestsOf == [type : {"SUBSCRIBE_GAME", "UNSUBSCRIBE_GAME"}, game : {Game}]
ChannelTypes ==
  /\ ready \in [Sockets -> {"none", "connecting", "open", "closed"}]
  /\ queued \in [Sockets -> Seq(RequestsOf)]
  /\ requests \in [Sockets -> Seq(RequestsOf)]

PageTypes ==
  /\ read \in [Sockets -> Nat]
  /\ stage \in [Sockets -> {"off", "loading", "live", "failed", "gone"}]
  /\ shown \in [Sockets -> Nat]
  /\ load \in [Sockets -> [at : {"none", "asked", "answered", "done"}, version : Nat]]
  /\ commands \in [Sockets -> Seq(CommandsOf)]

\* Before its game is loaded a screen has no socket, and nothing is under way
\* that belongs to one.
Untouched(s) ==
  /\ socket[s] = "new" /\ sent[s] = <<>> /\ read[s] = 0
  /\ queued[s] = <<>> /\ requests[s] = <<>>
  /\ shown[s] = 0 /\ commands[s] = <<>>
StageInv(s) ==
  /\ load[s].at \in {"asked", "answered"} => stage[s] \in {"loading", "gone"} /\ ready[s] = "none"
  /\ load[s].version <= games[Game]
  /\ stage[s] \in {"off", "loading", "failed"} => ready[s] = "none"
  /\ stage[s] = "live" => ready[s] # "none" /\ games[Game] > 0
  /\ stage[s] = "gone" => ready[s] \in {"none", "closed"}
  /\ ready[s] = "none" => Untouched(s)

\* A screen that is live has asked to follow the game, once, and is on its way
\* to or has its subscription, as long as the connection holds.
Pending(s) == \E i \in DOMAIN jobs : jobs[i].socket = s
Following(s) == Pending(s) \/ Game \in watched[s]
FollowInv(s) ==
  stage[s] = "live" =>
    /\ ready[s] = "connecting" => queued[s] = <<Subscribe(Game)>> /\ requests[s] = <<>>
    /\ ready[s] = "open" /\ socket[s] = "open" =>
         \/ requests[s] = <<Subscribe(Game)>>
         \/ requests[s] = <<>> /\ Following(s)

\* What a watching screen shows lies between the states that have arrived and
\* those that have not.
IsState(s, i) == sent[s][i].type = "GAME_SNAPSHOT"
WatchInv(s) ==
  commands[s] = <<>> =>
    /\ shown[s] <= games[Game]
    /\ \A i \in DOMAIN sent[s] : IsState(s, i) =>
         IF i <= read[s] THEN sent[s][i].version <= shown[s] ELSE shown[s] <= sent[s][i].version

PageInv(s) == read[s] <= Len(sent[s]) /\ StageInv(s) /\ FollowInv(s) /\ WatchInv(s)

\* The server awaits and closes nothing but what the screens ask for, and the
\* states it sends to a socket are in order.
ServerInv ==
  /\ \A s \in Sockets : socket[s] # "closing" /\ (socket[s] = "open" => s \in known)
  /\ \A i \in DOMAIN jobs : jobs[i].game = Game
SentInv ==
  \A s \in Sockets :
    /\ \A i \in DOMAIN sent[s] : IsState(s, i) => sent[s][i].version <= games[Game]
    /\ \A i, j \in DOMAIN sent[s] :
         i < j /\ IsState(s, i) /\ IsState(s, j) => sent[s][i].version <= sent[s][j].version

\* Commands that were accepted left their state behind.
AcceptedInv ==
  /\ AppliedOnceFromAState
  /\ \A s \in Sockets : \A i \in DOMAIN commands[s] :
       commands[s][i].outcome = "accepted" => commands[s][i].expected < games[Game]

PagesInv ==
  /\ ChannelTypes /\ PageTypes
  /\ \A s \in Sockets : PageInv(s)
  /\ ServerInv /\ SentInv /\ AcceptedInv

-----------------------------------------------------------------------------
(* The screens use the runtime.                                            *)

LEMMA RequestsAreRequests ==
  /\ Game \in Games
  /\ Subscribe(Game) \in RequestsOf /\ Unsubscribe(Game) \in RequestsOf
BY ScreenAssumption DEF RequestsOf, Subscribe, Unsubscribe

LEMMA ChannelTypesKept ==
  ASSUME ChannelTypes, [ScreenNext]_allVars
  PROVE  ChannelTypes'
<1>1. ASSUME NEW s \in Sockets, NEW q \in Seq(RequestsOf), NEW p \in Seq(RequestsOf),
             requests' = [requests EXCEPT ![s] = q], queued' = [queued EXCEPT ![s] = p],
             NEW v \in {"none", "connecting", "open", "closed"}, ready' = [ready EXCEPT ![s] = v]
      PROVE  ChannelTypes'
  BY <1>1 DEF ChannelTypes
<1>2. ASSUME NEW s \in Sockets
      PROVE  /\ Append(requests[s], Unsubscribe(Game)) \in Seq(RequestsOf)
             /\ Append(queued[s], Unsubscribe(Game)) \in Seq(RequestsOf)
             /\ requests[s] \o queued[s] \in Seq(RequestsOf)
             /\ requests[s] # <<>> => Tail(requests[s]) \in Seq(RequestsOf)
             /\ <<>> \in Seq(RequestsOf) /\ <<Subscribe(Game)>> \in Seq(RequestsOf)
             /\ requests[s] \in Seq(RequestsOf) /\ queued[s] \in Seq(RequestsOf)
             /\ ready[s] \in {"none", "connecting", "open", "closed"}
  BY RequestsAreRequests DEF ChannelTypes
<1>3. CASE UNCHANGED clientVars
  BY <1>3 DEF clientVars, ChannelTypes
<1>4. ASSUME NEW s \in Sockets, LoadArrives(s) PROVE ChannelTypes'
  BY <1>2, <1>4 DEF LoadArrives, ConnectGameSocket, ChannelTypes
<1>5. ASSUME NEW s \in Sockets, MessageReceived(s) PROVE ChannelTypes'
  BY <1>5 DEF MessageReceived, MessageEvent, ChannelTypes
<1>6. ASSUME NEW s \in Sockets, SocketStep(s) PROVE ChannelTypes'
  <2>1. CASE SocketOpens(s)
    BY <1>2, <2>1 DEF SocketOpens, ChannelTypes
  <2>2. CASE ServerReceives(s)
    BY <1>2, <2>2 DEF ServerReceives, ChannelTypes
  <2>3. CASE ServerConnects(s)
    BY <1>3, <2>3 DEF ServerConnects
  <2>4. QED
    BY <1>6, <2>1, <2>2, <2>3 DEF SocketStep
<1>7. ASSUME NEW s \in Sockets, SocketBreaks(s) PROVE ChannelTypes'
  BY <1>2, <1>7 DEF SocketBreaks, SocketCloses, ServerSeesClose, ChannelTypes
<1>8. ASSUME NEW s \in Sockets, Unmount(s) PROVE ChannelTypes'
  <2>1. ready' \in [Sockets -> {"none", "connecting", "open", "closed"}]
    BY <1>8 DEF Unmount, ReadyAfterCleanup, ChannelTypes
  <2>2. CASE UNCHANGED <<requests, queued>>
    BY <2>1, <2>2 DEF ChannelTypes
  <2>3. CASE Send(s, Unsubscribe(Game))
    BY <1>2, <2>1, <2>3 DEF Send, ChannelTypes
  <2>4. QED
    BY <1>8, <2>2, <2>3 DEF Unmount
<1>9. ASSUME NEW s \in Sockets, Network(s) PROVE ChannelTypes'
  BY <1>3, <1>4, <1>5, <1>6, <1>7, <1>9 DEF Network, ServeLoad
<1>10. ASSUME NEW s \in Sockets, Answers(s) \/ Failures(s) \/ Player(s) PROVE ChannelTypes'
  BY <1>3, <1>8, <1>10
  DEF Answers, Failures, Player, Mount, SubmitCommand, CommandRejected, CommandAccepted,
      AnswerArrives, RequestFails, LoadFails
<1>11. QED
  BY <1>3, <1>9, <1>10 DEF ScreenNext, ServerStep, allVars

\* What a screen does to the server is what any client may do to it.
LEMMA ScreenStepIsStep ==
  ASSUME ChannelTypes, [ScreenNext]_allVars
  PROVE  [Next]_vars
<1>1. CASE ServerStep
  BY <1>1, ScreenAssumption DEF ServerStep, Next, HttpRequest, Lifecycle
<1>2. ASSUME NEW s \in Sockets, SocketStep(s) PROVE [Next]_vars
  <2>1. CASE ServerReceives(s)
    <3>1. Head(requests[s]) \in RequestsOf
      BY <2>1 DEF ServerReceives, ChannelTypes
    <3>2. Head(requests[s]).game \in Games
      BY <3>1, RequestsAreRequests DEF RequestsOf
    <3>3. QED
      BY <2>1, <3>2 DEF ServerReceives, Next, SocketEvent
  <2>2. QED
    BY <1>2, <2>1 DEF SocketStep, ServerConnects, SocketOpens, Next, SocketEvent
<1>3. ASSUME NEW s \in Sockets, SocketBreaks(s) PROVE [Next]_vars
  BY <1>3 DEF SocketBreaks, SocketCloses, ServerSeesClose, Next, SocketEvent
<1>4. ASSUME NEW s \in Sockets, NEW i \in DOMAIN commands[s], NEW v \in 1 .. MaxVersion,
             CommandAccepted(s, i, v)
      PROVE  [Next]_vars
  BY <1>4, ScreenAssumption DEF CommandAccepted, Next, HttpRequest
<1>5. QED
  BY <1>1, <1>2, <1>3, <1>4
  DEF ScreenNext, Network, Answers, Failures, Player, ServeLoad, Mount, Unmount, SubmitCommand,
      CommandRejected, AnswerArrives, RequestFails, LoadFails, LoadArrives, MessageReceived,
      MessageEvent, allVars

LEMMA ChannelTypesHold == ScreenInit /\ [][ScreenNext]_allVars => []ChannelTypes
<1>1. ScreenInit => ChannelTypes
  BY DEF ScreenInit, ClientInit, ChannelTypes
<1>2. QED
  BY <1>1, ChannelTypesKept, PTL

\* The screens are clients of the runtime: whatever it promises to sockets it
\* promises to theirs.
THEOREM ScreensUseTheRuntime == ScreenSpec => Init /\ [][Next]_vars
<1>1. ScreenInit => Init
  BY DEF ScreenInit, ClientInit
<1>2. QED
  BY <1>1, ScreenStepIsStep, ChannelTypesHold, PTL DEF ScreenSpec

-----------------------------------------------------------------------------
(* Steps of a page that the server does not notice.                        *)

LEMMA CommandChanged ==
  ASSUME NEW c \in Seq(CommandsOf), NEW i \in DOMAIN c, NEW e \in CommandsOf,
         NEW d, d = [c EXCEPT ![i] = e]
  PROVE  /\ d \in Seq(CommandsOf) /\ d # <<>> /\ c # <<>>
         /\ DOMAIN d = DOMAIN c /\ d[i] = e
         /\ \A j \in DOMAIN c : j # i => d[j] = c[j]
<1>1. PICK n \in Nat : DOMAIN c = 1 .. n /\ c \in [1 .. n -> CommandsOf]
  <2>1. Len(c) \in Nat /\ DOMAIN c = 1 .. Len(c) /\ c \in [1 .. Len(c) -> CommandsOf]
    OBVIOUS
  <2>2. QED
    BY <2>1
<1>2. d \in [1 .. n -> CommandsOf]
  BY <1>1
<1>3. d \in Seq(CommandsOf)
  BY <1>2
<1>4. QED
  BY <1>1, <1>2, <1>3

\* What a screen has of its own.
PageRests(s) ==
  /\ ready'[s] = ready[s] /\ queued'[s] = queued[s] /\ requests'[s] = requests[s]
  /\ read'[s] = read[s] /\ stage'[s] = stage[s] /\ shown'[s] = shown[s]
  /\ load'[s] = load[s] /\ commands'[s] = commands[s]

LEMMA RestingPage ==
  ASSUME UNCHANGED vars, NEW s \in Sockets, PageRests(s), PageInv(s)
  PROVE  PageInv(s)'
BY DEF vars, serverVars, subscriptionVars, loopVars, PageRests, PageInv, StageInv, Untouched,
       FollowInv, Following, Pending, WatchInv, IsState

\* A page step of screen r keeps the types, its page and the other pages.
PageKept(r) ==
  /\ UNCHANGED vars
  /\ PageTypes' /\ PageInv(r)'
  /\ \A s \in Sockets \ {r} : PageRests(s)

LEMMA MountKept ==
  ASSUME NEW r \in Sockets, ChannelTypes, PageTypes, PageInv(r), Mount(r)
  PROVE  PageKept(r)
<1>1. PageTypes' /\ UNCHANGED vars /\ \A s \in Sockets \ {r} : PageRests(s)
  BY DEF Mount, PageTypes, PageRests, clientVars
<1>2. PageInv(r)'
  BY DEF Mount, PageTypes, clientVars, PageInv, StageInv, FollowInv, WatchInv, Untouched,
         Following, Pending, IsState, vars, serverVars, subscriptionVars, loopVars
<1>3. QED
  BY <1>1, <1>2 DEF PageKept

LEMMA LoadKept ==
  ASSUME NEW r \in Sockets, ChannelTypes, PageTypes, TypeOK, PageInv(r),
         ServeLoad(r) \/ LoadFails(r)
  PROVE  PageKept(r)
<1>1. games[Game] \in Nat
  BY RequestsAreRequests DEF TypeOK
<1>2. UNCHANGED vars /\ \A s \in Sockets \ {r} : PageRests(s)
  BY DEF ServeLoad, LoadFails, PageTypes, PageRests, clientVars
<1>3. /\ load'[r] \in [at : {"none", "asked", "answered", "done"}, version : Nat]
      /\ load'[r].version <= games[Game]
      /\ load'[r].at \in {"asked", "answered"} => load[r].at = "asked" /\ stage'[r] = stage[r]
      /\ load' = [load EXCEPT ![r] = load'[r]]
      /\ ready' = ready /\ queued' = queued /\ requests' = requests /\ read' = read
      /\ shown' = shown /\ commands' = commands
      /\ UNCHANGED vars
  <2>1. CASE ServeLoad(r)
    BY <1>1, <2>1 DEF ServeLoad, PageTypes, clientVars
  <2>2. CASE LoadFails(r)
    <3>1. load[r] \in [at : {"none", "asked", "answered", "done"}, version : Nat]
          /\ load[r].version <= games[Game]
      BY DEF PageTypes, PageInv, StageInv
    <3>2. load'[r] = [load[r] EXCEPT !.at = "done"] /\ load' = [load EXCEPT ![r] = load'[r]]
      BY <2>2 DEF LoadFails, PageTypes
    <3>3. QED
      BY <2>2, <3>1, <3>2 DEF LoadFails, clientVars
  <2>3. QED
    BY <2>1, <2>2
<1>4. /\ stage' \in [Sockets -> {"off", "loading", "live", "failed", "gone"}]
      /\ stage'[r] # stage[r] => stage[r] = "loading" /\ stage'[r] = "failed"
  BY DEF ServeLoad, LoadFails, PageTypes
<1>5. PageTypes'
  BY <1>3, <1>4 DEF PageTypes
<1>6. StageInv(r)'
  BY <1>1, <1>3, <1>4 DEF PageInv, StageInv, Untouched, vars
<1>7. FollowInv(r)' /\ WatchInv(r)' /\ (read[r] <= Len(sent[r]))'
  BY <1>3, <1>4 DEF PageInv, FollowInv, WatchInv, Following, Pending, IsState,
     vars, serverVars, subscriptionVars, loopVars
<1>8. QED
  BY <1>2, <1>5, <1>6, <1>7 DEF PageKept, PageInv

LEMMA LoadArrivesKept ==
  ASSUME NEW r \in Sockets, ChannelTypes, PageTypes, TypeOK, PageInv(r), LoadArrives(r)
  PROVE  PageKept(r)
<1>1. /\ games[Game] \in Nat /\ load[r].version \in Nat
      /\ load[r] \in [at : {"none", "asked", "answered", "done"}, version : Nat]
  BY RequestsAreRequests DEF TypeOK, PageTypes
<1>2. UNCHANGED vars /\ \A s \in Sockets \ {r} : PageRests(s)
  BY DEF LoadArrives, ConnectGameSocket, Show, ChannelTypes, PageTypes, PageRests
<1>3. /\ load'[r] = [load[r] EXCEPT !.at = "done"] /\ load' = [load EXCEPT ![r] = load'[r]]
      /\ requests' = requests /\ read' = read /\ commands' = commands
      /\ sent' = sent /\ games' = games /\ socket' = socket
  BY <1>2 DEF LoadArrives, PageTypes, vars
<1>4. /\ load'[r] \in [at : {"none", "asked", "answered", "done"}, version : Nat]
      /\ load'[r].at = "done" /\ load'[r].version = load[r].version
  BY <1>1, <1>3
<1>5. Untouched(r) /\ ready[r] = "none" /\ load[r].version <= games[Game] /\ stage[r] \in {"loading", "gone"}
  BY DEF LoadArrives, PageInv, StageInv
<1>6. CASE UNCHANGED <<shown, ready, queued>> /\ stage'[r] \in {"gone", "failed"}
           /\ stage' = [stage EXCEPT ![r] = stage'[r]]
  <2>1. PageTypes'
    BY <1>3, <1>4, <1>6 DEF PageTypes
  <2>2. Untouched(r)' /\ ready'[r] = "none"
    BY <1>3, <1>5, <1>6 DEF Untouched
  <2>3. PageInv(r)'
    BY <1>1, <1>3, <1>4, <1>5, <1>6, <2>2 DEF PageInv, StageInv, FollowInv, WatchInv, Untouched, IsState
  <2>4. QED
    BY <1>2, <2>1, <2>3 DEF PageKept
<1>7. CASE ~Cancelled(r) /\ load[r].version > 0
  <2>1. /\ stage' = [stage EXCEPT ![r] = "live"] /\ shown' = [shown EXCEPT ![r] = load[r].version]
        /\ ready' = [ready EXCEPT ![r] = "connecting"]
        /\ queued' = [queued EXCEPT ![r] = <<Subscribe(Game)>>]
    BY <1>7 DEF LoadArrives, ConnectGameSocket, Show
  <2>2. PageTypes'
    BY <1>1, <1>3, <1>4, <2>1 DEF PageTypes
  <2>3. /\ stage'[r] = "live" /\ shown'[r] = load[r].version /\ ready'[r] = "connecting"
        /\ queued'[r] = <<Subscribe(Game)>> /\ requests'[r] = <<>> /\ read'[r] = 0
        /\ sent'[r] = <<>>
    BY <1>3, <1>5, <2>1 DEF PageTypes, ChannelTypes, Untouched
  <2>4. PageInv(r)'
    BY <1>1, <1>3, <1>4, <1>5, <1>7, <2>3 DEF PageInv, StageInv, FollowInv, WatchInv, IsState
  <2>5. QED
    BY <1>2, <2>2, <2>4 DEF PageKept
<1>8. QED
  BY <1>5, <1>6, <1>7 DEF LoadArrives, Cancelled, PageTypes

LEMMA SocketOpensKept ==
  ASSUME NEW r \in Sockets, ChannelTypes, PageTypes, PageInv(r), SocketOpens(r), UNCHANGED screenVars
  PROVE  PageKept(r)
<1>1. UNCHANGED vars /\ PageTypes' /\ \A s \in Sockets \ {r} : PageRests(s)
  BY DEF SocketOpens, screenVars, ChannelTypes, PageTypes, PageRests
<1>2. /\ ready[r] = "connecting" /\ ready'[r] = "open"
      /\ requests'[r] = requests[r] \o queued[r]
      /\ read' = read /\ stage' = stage /\ shown' = shown /\ load' = load /\ commands' = commands
  BY DEF SocketOpens, screenVars, ChannelTypes
<1>3. StageInv(r)'
  BY <1>1, <1>2 DEF PageInv, StageInv, Untouched, vars
<1>4. ASSUME stage[r] = "live"
      PROVE  requests'[r] = <<Subscribe(Game)>>
  <2>1. queued[r] = <<Subscribe(Game)>> /\ requests[r] = <<>>
    BY <1>2, <1>4 DEF PageInv, FollowInv
  <2>2. QED
    BY <1>2, <2>1
<1>5. FollowInv(r)'
  BY <1>2, <1>4 DEF FollowInv
<1>6. WatchInv(r)' /\ (read[r] <= Len(sent[r]))'
  BY <1>1, <1>2 DEF PageInv, WatchInv, IsState, vars
<1>7. QED
  BY <1>1, <1>3, <1>5, <1>6 DEF PageKept, PageInv

LEMMA StatesHaveVersions ==
  ASSUME TypeOK, NEW s \in Sockets
  PROVE  /\ Len(sent[s]) \in Nat /\ DOMAIN sent[s] = 1 .. Len(sent[s])
         /\ \A i \in DOMAIN sent[s] : IsState(s, i) => sent[s][i].version \in Nat
<1>1. sent[s] \in Seq(MessagesOf)
  BY DEF TypeOK
<1>2. \A m \in MessagesOf : m.type = "GAME_SNAPSHOT" => m.version \in Nat
  BY DEF MessagesOf
<1>3. QED
  BY <1>1, <1>2 DEF IsState

LEMMA MessageKept ==
  ASSUME NEW r \in Sockets, ChannelTypes, PageTypes, TypeOK, SentInv, PageInv(r), MessageReceived(r)
  PROVE  PageKept(r)
<1> DEFINE n == read[r] + 1
<1>1. /\ ready[r] = "open" /\ read[r] \in Nat /\ read[r] < Len(sent[r])
      /\ read' = [read EXCEPT ![r] = n] /\ UNCHANGED vars
      /\ ready' = ready /\ queued' = queued /\ requests' = requests
      /\ stage' = stage /\ load' = load /\ commands' = commands
  BY DEF MessageReceived, MessageEvent, PageTypes
<1>2. /\ n \in DOMAIN sent[r] /\ n \in Nat
      /\ \A i \in DOMAIN sent[r] : i \in Nat /\ (IsState(r, i) => sent[r][i].version \in Nat)
  BY <1>1, StatesHaveVersions
<1>3. shown[r] \in Nat
  BY DEF PageTypes
<1>4. \/ ~IsState(r, n) /\ shown' = shown
      \/ IsState(r, n) /\ shown' = [shown EXCEPT ![r] = sent[r][n].version]
  BY DEF MessageReceived, HandleSocketMessage, Arriving, Show, IsState
<1>5. PageTypes' /\ \A s \in Sockets \ {r} : PageRests(s)
  BY <1>1, <1>2, <1>4 DEF PageTypes, PageRests
<1>6. StageInv(r)'
  BY <1>1 DEF PageInv, StageInv, Untouched, vars
<1>7. FollowInv(r)'
  BY <1>1 DEF PageInv, FollowInv, Following, Pending, vars, loopVars, subscriptionVars
<1>8. /\ read'[r] = n /\ n <= Len(sent[r]) /\ sent' = sent /\ games' = games
  BY <1>1, StatesHaveVersions DEF PageTypes, vars
<1>9. WatchInv(r)'
  <2> SUFFICES ASSUME commands[r] = <<>>
               PROVE  /\ shown'[r] <= games[Game]
                      /\ \A i \in DOMAIN sent[r] : IsState(r, i) =>
                           IF i <= n THEN sent[r][i].version <= shown'[r]
                                     ELSE shown'[r] <= sent[r][i].version
    BY <1>1, <1>8 DEF WatchInv, IsState
  <2>1. /\ shown[r] <= games[Game] /\ games[Game] \in Nat
        /\ \A i \in DOMAIN sent[r] : IsState(r, i) =>
             IF i <= read[r] THEN sent[r][i].version <= shown[r]
                             ELSE shown[r] <= sent[r][i].version
    BY RequestsAreRequests DEF PageInv, WatchInv, TypeOK
  <2>2. \A i \in DOMAIN sent[r] : (i <= n) <=> (i <= read[r] \/ i = n)
    BY <1>1, <1>2
  <2>3. CASE ~IsState(r, n) /\ shown' = shown
    BY <2>1, <2>2, <2>3
  <2>4. CASE IsState(r, n) /\ shown' = [shown EXCEPT ![r] = sent[r][n].version]
    <3>1. shown'[r] = sent[r][n].version /\ shown'[r] \in Nat
      BY <1>2, <2>4 DEF PageTypes
    <3>2. shown[r] <= shown'[r] /\ shown'[r] <= games[Game]
      BY <1>1, <1>2, <2>1, <2>4, <3>1 DEF SentInv
    <3>3. ASSUME NEW i \in DOMAIN sent[r], IsState(r, i), i <= n
          PROVE  sent[r][i].version <= shown'[r]
      <4>1. sent[r][i].version \in Nat /\ (i = n \/ i <= read[r])
        BY <1>2, <2>2, <3>3
      <4>2. QED
        BY <1>3, <2>1, <3>1, <3>2, <3>3, <4>1
    <3>4. ASSUME NEW i \in DOMAIN sent[r], IsState(r, i), ~(i <= n)
          PROVE  shown'[r] <= sent[r][i].version
      BY <1>2, <2>4, <3>1, <3>4 DEF SentInv
    <3>5. QED
      BY <3>2, <3>3, <3>4
  <2>5. QED
    BY <1>4, <2>3, <2>4
<1>10. QED
  BY <1>1, <1>5, <1>6, <1>7, <1>8, <1>9 DEF PageKept, PageInv

LEMMA SocketClosesKept ==
  ASSUME NEW r \in Sockets, ChannelTypes, PageTypes, PageInv(r), SocketCloses(r), UNCHANGED screenVars
  PROVE  PageKept(r)
<1>1. UNCHANGED vars /\ PageTypes' /\ \A s \in Sockets \ {r} : PageRests(s)
  BY DEF SocketCloses, screenVars, ChannelTypes, PageTypes, PageRests
<1>2. PageInv(r)'
  BY DEF SocketCloses, screenVars, ChannelTypes, PageInv, StageInv, Untouched, FollowInv, WatchInv,
         IsState, vars
<1>3. QED
  BY <1>1, <1>2 DEF PageKept

LEMMA UnmountKept ==
  ASSUME NEW r \in Sockets, ChannelTypes, PageTypes, PageInv(r), Unmount(r)
  PROVE  PageKept(r)
<1>1. /\ UNCHANGED vars /\ stage' = [stage EXCEPT ![r] = "gone"]
      /\ ready' = [ready EXCEPT ![r] = IF @ = "none" THEN @ ELSE "closed"]
      /\ read' = read /\ shown' = shown /\ load' = load /\ commands' = commands
      /\ \A s \in Sockets \ {r} : queued'[s] = queued[s] /\ requests'[s] = requests[s]
      /\ ready[r] = "none" => queued' = queued /\ requests' = requests
  BY DEF Unmount, ReadyAfterCleanup, Send, ChannelTypes
<1>2. PageTypes' /\ \A s \in Sockets \ {r} : PageRests(s)
  BY <1>1 DEF ChannelTypes, PageTypes, PageRests
<1>3. PageInv(r)'
  BY <1>1 DEF Unmount, ChannelTypes, PageTypes, PageInv, StageInv, Untouched, FollowInv, WatchInv,
     IsState, vars
<1>4. QED
  BY <1>1, <1>2, <1>3 DEF PageKept

\* A screen with a command of its own watches no more.
LEMMA CommandsKept ==
  ASSUME NEW r \in Sockets, PageTypes, TypeOK, PageInv(r), UNCHANGED <<vars, clientVars, stage, load>>,
         NEW c \in Seq(CommandsOf), c # <<>>, commands' = [commands EXCEPT ![r] = c],
         ready[r] # "none", NEW v \in Nat, shown' = [shown EXCEPT ![r] = v]
  PROVE  PageKept(r)
<1>1. PageTypes' /\ \A s \in Sockets \ {r} : PageRests(s)
  BY DEF PageTypes, PageRests, clientVars
<1>2. commands'[r] # <<>>
  BY DEF PageTypes
<1>3. PageInv(r)'
  BY <1>2 DEF PageInv, StageInv, FollowInv, Following, Pending, WatchInv, vars, clientVars,
     subscriptionVars, loopVars
<1>4. QED
  BY <1>1, <1>3 DEF PageKept

LEMMA AnswersKept ==
  ASSUME NEW r \in Sockets, ChannelTypes, PageTypes, TypeOK, PageInv(r),
         \/ SubmitCommand(r)
         \/ \E i \in DOMAIN commands[r] :
              CommandRejected(r, i) \/ AnswerArrives(r, i) \/ RequestFails(r, i)
  PROVE  PageKept(r)
<1>1. shown[r] \in Nat /\ commands[r] \in Seq(CommandsOf) /\ shown = [shown EXCEPT ![r] = shown[r]]
  BY DEF PageTypes
<1>2. CASE SubmitCommand(r)
  <2>1. [expected |-> shown[r], outcome |-> "none", version |-> 0, waiting |-> TRUE] \in CommandsOf
    BY <1>1 DEF CommandsOf
  <2>2. PICK e \in CommandsOf : commands' = [commands EXCEPT ![r] = Append(@, e)]
    BY <1>2, <2>1 DEF SubmitCommand
  <2>3. Append(commands[r], e) \in Seq(CommandsOf) /\ Append(commands[r], e) # <<>>
    BY <1>1
  <2>4. ready[r] # "none"
    BY <1>2 DEF SubmitCommand, PageInv, StageInv
  <2>5. UNCHANGED <<vars, clientVars, stage, load>> /\ shown' = [shown EXCEPT ![r] = shown[r]]
        /\ commands' = [commands EXCEPT ![r] = Append(commands[r], e)]
    BY <1>1, <1>2, <2>2 DEF SubmitCommand, PageTypes
  <2>6. QED
    BY <1>1, <2>3, <2>4, <2>5, CommandsKept
<1>3. ASSUME NEW i \in DOMAIN commands[r],
             CommandRejected(r, i) \/ AnswerArrives(r, i) \/ RequestFails(r, i)
      PROVE  PageKept(r)
  <2>1. commands[r][i] \in CommandsOf
    BY <1>1
  <2>2. PICK e \in CommandsOf : commands' = [commands EXCEPT ![r][i] = e]
    <3>1. [commands[r][i] EXCEPT !.outcome = "rejected"] \in CommandsOf
      BY <2>1 DEF CommandsOf
    <3>2. [commands[r][i] EXCEPT !.waiting = FALSE] \in CommandsOf
      BY <2>1 DEF CommandsOf
    <3>3. QED
      BY <1>3, <3>1, <3>2 DEF CommandRejected, AnswerArrives, RequestFails
  <2>3. PICK c : c = [commands[r] EXCEPT ![i] = e]
    OBVIOUS
  <2>4. c \in Seq(CommandsOf) /\ c # <<>> /\ commands[r] # <<>>
    BY <1>1, <2>3, CommandChanged
  <2>5. PICK v \in Nat : shown' = [shown EXCEPT ![r] = v]
    <3>1. commands[r][i].version \in Nat
      BY <2>1 DEF CommandsOf
    <3>2. QED
      BY <1>1, <1>3, <3>1 DEF CommandRejected, AnswerArrives, RequestFails, Show
  <2>6. UNCHANGED <<vars, clientVars, stage, load>> /\ ready[r] # "none"
    BY <1>3, <2>4 DEF CommandRejected, AnswerArrives, RequestFails, PageInv, StageInv, Untouched
  <2>7. commands' = [commands EXCEPT ![r] = c]
    BY <2>2, <2>3 DEF PageTypes
  <2>8. QED
    BY <2>4, <2>5, <2>6, <2>7, CommandsKept
<1>4. QED
  BY <1>2, <1>3

-----------------------------------------------------------------------------
(* Steps of the server.                                                    *)

\* The game does not go back, and what a socket is sent is added to what it
\* was sent: of the game, the state it is in now.
Grows(s) ==
  /\ Len(sent[s]) <= Len(sent'[s])
  /\ \A i \in DOMAIN sent[s] : sent'[s][i] = sent[s][i]
  /\ \A i \in DOMAIN sent'[s] : i > Len(sent[s]) =>
       socket[s] = "open" /\ (IsState(s, i)' => sent'[s][i].version = games'[Game])
Advances == games'[Game] >= games[Game] /\ \A s \in Sockets : Grows(s)

LEMMA NothingSent ==
  ASSUME TypeOK, UNCHANGED sent, games'[Game] >= games[Game]
  PROVE  Advances
<1>1. ASSUME NEW s \in Sockets
      PROVE  Grows(s)
  <2>1. sent'[s] = sent[s] /\ Len(sent[s]) \in Nat /\ DOMAIN sent[s] = 1 .. Len(sent[s])
    BY StatesHaveVersions
  <2>2. QED
    BY <2>1 DEF Grows
<1>2. QED
  BY <1>1 DEF Advances

LEMMA MessagesSent ==
  ASSUME TypeOK, games'[Game] >= games[Game], NEW m \in Seq(MessagesOf), NEW S \in SUBSET Sockets,
         \A i \in DOMAIN m : m[i].type = "GAME_SNAPSHOT" => m[i].version = games'[Game],
         \A s \in Sockets : sent'[s] = IF s \in S /\ socket[s] = "open" THEN sent[s] \o m ELSE sent[s]
  PROVE  Advances
<1>1. ASSUME NEW s \in Sockets, s \in S, socket[s] = "open"
      PROVE  Grows(s)
  <2>1. sent[s] \in Seq(MessagesOf) /\ sent'[s] = sent[s] \o m
    BY <1>1 DEF TypeOK
  <2>2. PICK q \in Seq(MessagesOf) : q = sent[s]
    BY <2>1
  <2>3. PICK l \in Nat, k \in Nat : /\ l = Len(q) /\ DOMAIN q = 1 .. l
                                    /\ k = Len(m) /\ DOMAIN m = 1 .. k
    <3>1. Len(q) \in Nat /\ DOMAIN q = 1 .. Len(q) /\ Len(m) \in Nat /\ DOMAIN m = 1 .. Len(m)
      OBVIOUS
    <3>2. QED
      BY <3>1
  <2>4. /\ Len(q \o m) = l + k /\ DOMAIN (q \o m) = 1 .. l + k
        /\ \A i \in 1 .. l : (q \o m)[i] = q[i]
        /\ \A i \in l + 1 .. l + k : (q \o m)[i] = m[i - l]
    BY <2>3
  <2>5. \A i \in l + 1 .. l + k : i - l \in DOMAIN m
    BY <2>3
  <2>6. \A i \in l + 1 .. l + k :
          sent'[s][i].type = "GAME_SNAPSHOT" => sent'[s][i].version = games'[Game]
    BY <2>1, <2>2, <2>4, <2>5
  <2>7. QED
    BY <1>1, <2>1, <2>2, <2>3, <2>4, <2>6 DEF Grows, IsState
<1>2. ASSUME NEW s \in Sockets, ~(s \in S /\ socket[s] = "open")
      PROVE  Grows(s)
  <2>1. sent'[s] = sent[s] /\ Len(sent[s]) \in Nat /\ DOMAIN sent[s] = 1 .. Len(sent[s])
    BY <1>2, StatesHaveVersions
  <2>2. QED
    BY <2>1 DEF Grows
<1>3. QED
  BY <1>1, <1>2 DEF Advances

LEMMA AcceptAdvances ==
  ASSUME TypeOK, NEW v \in 1 .. MaxVersion, AcceptCommand(Game, v)
  PROVE  Advances /\ games'[Game] = v /\ v > games[Game]
<1>1. Game \in Games /\ games[Game] \in Nat /\ v \in Nat
  BY RequestsAreRequests DEF TypeOK
<1>2. games'[Game] = v /\ v > games[Game]
  BY <1>1 DEF AcceptCommand, TypeOK
<1>3. Events(Game, games[Game], v) \in MessagesOf /\ Snapshot(Game, v) \in MessagesOf
  BY <1>1 DEF Events, Snapshot, MessagesOf
<1>4. PICK m \in Seq(MessagesOf) : m = GameUpdate(Game, games[Game], v)
  <2>1. GameUpdate(Game, games[Game], v) \in Seq(MessagesOf)
    BY <1>3 DEF GameUpdate
  <2>2. QED
    BY <2>1
<1>5. \A i \in DOMAIN m : m[i].type = "GAME_SNAPSHOT" => m[i].version = v
  BY <1>4 DEF GameUpdate, Events, Snapshot
<1>6. PICK S \in SUBSET Sockets : S = {t \in Sockets : listeners[Game][t] > 0}
  OBVIOUS
<1>7. \A s \in Sockets : sent'[s] = IF s \in S /\ socket[s] = "open" THEN sent[s] \o m ELSE sent[s]
  BY <1>4, <1>6 DEF AcceptCommand, Publish
<1>8. games'[Game] >= games[Game]
  BY <1>1, <1>2
<1>9. \A i \in DOMAIN m : m[i].type = "GAME_SNAPSHOT" => m[i].version = games'[Game]
  BY <1>2, <1>5
<1>10. Advances
  BY <1>7, <1>8, <1>9, MessagesSent
<1>11. QED
  BY <1>2, <1>10

LEMMA LoadedAdvances ==
  ASSUME TypeOK, JobsAreCurrent, ServerInv, SubscriptionLoaded
  PROVE  Advances
<1>1. /\ Head(jobs).socket \in Sockets /\ Head(jobs).game = Game
      /\ Head(jobs).version = games[Game] /\ games[Game] \in Nat /\ Game \in Games
  <2>1. 1 \in DOMAIN jobs /\ Head(jobs) = jobs[1]
    BY DEF SubscriptionLoaded, TypeOK
  <2>2. Head(jobs).socket \in Sockets
    BY HeadOfJobs DEF SubscriptionLoaded
  <2>3. QED
    BY <2>1, <2>2, RequestsAreRequests DEF JobsAreCurrent, ServerInv, TypeOK
<1>2. PICK e \in MessagesOf :
        /\ SendWs(Head(jobs).socket, e)
        /\ e.type = "GAME_SNAPSHOT" => e.version = games'[Game]
  <2>1. games' = games
    BY DEF SubscriptionLoaded
  <2>2. Snapshot(Game, games[Game]) \in MessagesOf
    BY <1>1 DEF Snapshot, MessagesOf
  <2>3. CASE SendWs(Head(jobs).socket, Error("GAME_NOT_FOUND"))
    BY <2>3, ErrorIsMessage DEF Error
  <2>4. CASE SendWs(Head(jobs).socket, Snapshot(Head(jobs).game, Head(jobs).version))
    BY <1>1, <2>1, <2>2, <2>4 DEF Snapshot
  <2>5. QED
    BY <2>3, <2>4 DEF SubscriptionLoaded
<1>3. PICK m \in Seq(MessagesOf) : m = <<e>>
  <2>1. <<e>> \in Seq(MessagesOf)
    BY <1>2
  <2>2. QED
    BY <2>1
<1>4. \A i \in DOMAIN m : m[i].type = "GAME_SNAPSHOT" => m[i].version = games'[Game]
  <2>1. \A i \in DOMAIN m : m[i] = e
    BY <1>3
  <2>2. e.type = "GAME_SNAPSHOT" => e.version = games'[Game]
    BY <1>2
  <2>3. QED
    BY <2>1, <2>2, Zenon
<1>5. PICK S \in SUBSET Sockets : S = {Head(jobs).socket}
  <2>1. {Head(jobs).socket} \subseteq Sockets
    BY <1>1
  <2>2. QED
    BY <2>1
<1>6. ASSUME NEW s \in Sockets
      PROVE  sent'[s] = IF s \in S /\ socket[s] = "open" THEN sent[s] \o m ELSE sent[s]
  <2>1. PICK q \in Seq(MessagesOf) : q = sent[s]
    BY DEF TypeOK
  <2>2. Append(q, e) = q \o <<e>>
    BY <1>2, <2>1
  <2> DEFINE h == Head(jobs).socket
  <2> HIDE DEF h
  <2>3. /\ h \in Sockets /\ (s \in S <=> s = h)
        /\ sent' = IF socket[h] = "open" THEN [sent EXCEPT ![h] = Append(@, e)] ELSE sent
    BY <1>1, <1>2, <1>5 DEF SendWs, h
  <2>4. sent \in [Sockets -> Seq(MessagesOf)]
    BY DEF TypeOK
  <2>5. CASE s \in S /\ socket[s] = "open"
    <3>1. sent'[s] = Append(sent[s], e)
      BY <2>3, <2>4, <2>5
    <3>2. QED
      BY <1>3, <2>1, <2>2, <2>5, <3>1
  <2>6. CASE ~(s \in S /\ socket[s] = "open")
    BY <2>3, <2>4, <2>6
  <2>7. QED
    BY <2>5, <2>6
<1>7. games'[Game] >= games[Game]
  BY <1>1 DEF SubscriptionLoaded
<1>8. QED
  BY <1>4, <1>6, <1>7, MessagesSent

\* The states stay in order.
LEMMA SentInvKept ==
  ASSUME TypeOK, TypeOK', SentInv, Advances
  PROVE  SentInv'
<1>1. games[Game] \in Nat /\ games'[Game] \in Nat /\ games'[Game] >= games[Game]
  BY RequestsAreRequests DEF TypeOK, Advances
<1>2. ASSUME NEW s \in Sockets, NEW i \in DOMAIN sent'[s], IsState(s, i)'
      PROVE  /\ sent'[s][i].version \in Nat /\ sent'[s][i].version <= games'[Game]
             /\ i \in DOMAIN sent[s] => IsState(s, i) /\ sent'[s][i].version = sent[s][i].version
             /\ i \notin DOMAIN sent[s] => sent'[s][i].version = games'[Game]
  <2>1. /\ Len(sent[s]) \in Nat /\ DOMAIN sent[s] = 1 .. Len(sent[s])
        /\ \A j \in DOMAIN sent[s] : IsState(s, j) => sent[s][j].version \in Nat
    BY StatesHaveVersions
  <2>2. sent'[s] \in Seq(MessagesOf)
    BY DEF TypeOK
  <2>3. i \in Nat /\ i >= 1
    BY <1>2, <2>2
  <2>4. CASE i \in DOMAIN sent[s]
    <3>1. sent'[s][i] = sent[s][i]
      BY <2>4 DEF Advances, Grows
    <3>2. IsState(s, i)
      BY <1>2, <3>1 DEF IsState
    <3>3. sent[s][i].version <= games[Game]
      BY <2>4, <3>2 DEF SentInv
    <3>4. QED
      BY <1>1, <2>1, <2>4, <3>1, <3>2, <3>3
  <2>5. CASE i \notin DOMAIN sent[s]
    <3>1. i > Len(sent[s])
      BY <2>1, <2>3, <2>5
    <3>2. sent'[s][i].version = games'[Game]
      BY <1>2, <3>1 DEF Advances, Grows
    <3>3. QED
      BY <1>1, <2>5, <3>2
  <2>6. QED
    BY <2>4, <2>5
<1>3. ASSUME NEW s \in Sockets, NEW i \in DOMAIN sent'[s], NEW j \in DOMAIN sent'[s],
             i < j, IsState(s, i)', IsState(s, j)'
      PROVE  sent'[s][i].version <= sent'[s][j].version
  <2>1. CASE j \in DOMAIN sent[s]
    <3>1. i \in DOMAIN sent[s]
      <4>1. DOMAIN sent[s] = 1 .. Len(sent[s]) /\ Len(sent[s]) \in Nat /\ sent'[s] \in Seq(MessagesOf)
        BY StatesHaveVersions DEF TypeOK
      <4>2. QED
        BY <1>3, <2>1, <4>1
    <3>2. IsState(s, i) /\ IsState(s, j)
      BY <1>2, <1>3, <2>1, <3>1
    <3>3. sent[s][i].version <= sent[s][j].version
      BY <1>3, <2>1, <3>1, <3>2 DEF SentInv
    <3>4. QED
      BY <1>2, <1>3, <2>1, <3>1, <3>3
  <2>2. CASE j \notin DOMAIN sent[s]
    BY <1>2, <1>3, <2>2
  <2>3. QED
    BY <2>1, <2>2
<1>4. QED
  BY <1>2, <1>3 DEF SentInv

\* What a step of the server leaves of a page: its screen may be shown later
\* what was sent now.
Served(s) ==
  /\ ready'[s] = ready[s] /\ queued'[s] = queued[s] /\ read'[s] = read[s]
  /\ stage'[s] = stage[s] /\ shown'[s] = shown[s] /\ load'[s] = load[s]
  /\ commands'[s] = <<>> => commands[s] = <<>>
  /\ ready[s] = "none" => /\ socket'[s] = socket[s] /\ requests'[s] = requests[s]
                          /\ commands'[s] = commands[s]

LEMMA ServedPage ==
  ASSUME TypeOK, TypeOK', PageTypes, Advances, NEW s \in Sockets, PageInv(s), Served(s), FollowInv(s)'
  PROVE  PageInv(s)'
<1>1. /\ games[Game] \in Nat /\ games'[Game] \in Nat /\ games'[Game] >= games[Game]
      /\ load[s].version \in Nat /\ shown[s] \in Nat /\ read[s] \in Nat
  BY RequestsAreRequests DEF TypeOK, Advances, PageTypes
<1>2. /\ Len(sent[s]) \in Nat /\ DOMAIN sent[s] = 1 .. Len(sent[s])
      /\ Len(sent'[s]) \in Nat /\ DOMAIN sent'[s] = 1 .. Len(sent'[s])
  BY DEF TypeOK
<1>3. Len(sent[s]) <= Len(sent'[s]) /\ read[s] <= Len(sent[s])
  BY DEF Advances, Grows, PageInv
<1>4. ASSUME socket[s] = "new", sent[s] = <<>>
      PROVE  sent'[s] = <<>>
  <2>1. \A i \in DOMAIN sent'[s] : ~(i > Len(sent[s]))
    BY <1>4 DEF Advances, Grows
  <2>2. Len(sent[s]) = 0
    BY <1>4
  <2>3. Len(sent'[s]) = 0
    <3>1. CASE Len(sent'[s]) >= 1
      <4>1. 1 \in DOMAIN sent'[s]
        BY <1>2, <3>1
      <4>2. QED
        BY <2>1, <2>2, <4>1
    <3>2. QED
      BY <1>2, <3>1
  <2>4. QED
    BY <2>3 DEF TypeOK
<1>5. StageInv(s)'
  BY <1>1, <1>4 DEF PageInv, StageInv, Served, Untouched
<1>6. WatchInv(s)'
  <2> SUFFICES ASSUME commands'[s] = <<>>
               PROVE  /\ shown[s] <= games'[Game]
                      /\ \A i \in DOMAIN sent'[s] : IsState(s, i)' =>
                           IF i <= read[s] THEN sent'[s][i].version <= shown[s]
                                           ELSE shown[s] <= sent'[s][i].version
    BY DEF WatchInv, Served
  <2>1. /\ shown[s] <= games[Game]
        /\ \A i \in DOMAIN sent[s] : IsState(s, i) =>
             IF i <= read[s] THEN sent[s][i].version <= shown[s]
                             ELSE shown[s] <= sent[s][i].version
    BY DEF PageInv, WatchInv, Served
  <2>2. shown[s] <= games'[Game]
    BY <1>1, <2>1
  <2>3. ASSUME NEW i \in DOMAIN sent'[s], IsState(s, i)'
        PROVE  IF i <= read[s] THEN sent'[s][i].version <= shown[s]
                               ELSE shown[s] <= sent'[s][i].version
    <3>1. CASE i \in DOMAIN sent[s]
      <4>1. sent'[s][i] = sent[s][i] /\ IsState(s, i)
        BY <2>3, <3>1 DEF Advances, Grows, IsState
      <4>2. QED
        BY <2>1, <3>1, <4>1
    <3>2. CASE i \notin DOMAIN sent[s]
      <4>1. i > Len(sent[s]) /\ ~(i <= read[s])
        BY <1>1, <1>2, <1>3, <3>2
      <4>2. sent'[s][i].version = games'[Game]
        BY <2>3, <4>1 DEF Advances, Grows
      <4>3. QED
        BY <2>2, <4>1, <4>2
    <3>3. QED
      BY <3>1, <3>2
  <2>4. QED
    BY <2>2, <2>3
<1>7. (read[s] <= Len(sent[s]))'
  BY <1>1, <1>2, <1>3 DEF Served
<1>8. QED
  BY <1>5, <1>6, <1>7 DEF PageInv

\* A step of the server keeps the types, the pages and its own invariants.
ServerKept == PageTypes' /\ ServerInv' /\ Advances /\ \A s \in Sockets : PageInv(s)'

\* Steps that touch neither sockets nor subscriptions.
LEMMA QuietServer ==
  ASSUME TypeOK, TypeOK', PageTypes, ServerInv, \A s \in Sockets : PageInv(s),
         UNCHANGED <<socket, known, watched, jobs, clientVars, stage, shown, load>>, Advances,
         commands' \in [Sockets -> Seq(CommandsOf)],
         \A s \in Sockets : commands'[s] = commands[s] \/ (commands[s] # <<>> /\ commands'[s] # <<>>)
  PROVE  ServerKept
<1>1. PageTypes' /\ ServerInv'
  BY DEF PageTypes, clientVars, ServerInv
<1>2. ASSUME NEW s \in Sockets
      PROVE  PageInv(s)'
  <2>1. Served(s)
    BY DEF Served, clientVars, PageInv, StageInv, Untouched
  <2>2. FollowInv(s)'
    BY DEF PageInv, FollowInv, Following, Pending, clientVars
  <2>3. PageInv(s)
    OBVIOUS
  <2>4. QED
    BY <2>1, <2>2, <2>3, ServedPage
<1>3. QED
  BY <1>1, <1>2 DEF ServerKept

LEMMA LoadedKept ==
  ASSUME TypeOK, TypeOK', JobsAreCurrent, PageTypes, ServerInv, \A s \in Sockets : PageInv(s),
         SubscriptionLoaded, UNCHANGED <<clientVars, screenVars>>
  PROVE  ServerKept
<1>1. Advances
  BY LoadedAdvances
<1>2. PICK q : /\ q = jobs /\ q # <<>> /\ jobs' = Tail(q)
              /\ q \in Seq([socket : Sockets, game : Games, version : Nat])
  BY DEF SubscriptionLoaded, TypeOK
<1>3. /\ 1 \in DOMAIN q /\ Head(q) = q[1] /\ Len(q) \in Nat /\ DOMAIN q = 1 .. Len(q)
      /\ DOMAIN Tail(q) = 1 .. Len(q) - 1 /\ \A i \in DOMAIN Tail(q) : Tail(q)[i] = q[i + 1]
  BY <1>2
<1>4. PageTypes' /\ ServerInv'
  <2>1. \A i \in DOMAIN jobs' : jobs'[i].game = Game
    BY <1>2, <1>3 DEF ServerInv
  <2>2. QED
    BY <2>1 DEF SubscriptionLoaded, PageTypes, clientVars, screenVars, ServerInv
<1>5. ASSUME NEW s \in Sockets, stage[s] = "live", socket[s] = "open", Following(s)
      PROVE  Following(s)'
  <2>1. games[Game] > 0 /\ s \in known
    BY <1>5 DEF PageInv, StageInv, ServerInv
  <2>2. CASE Head(q).socket = s
    <3>1. Head(q).game = Game /\ Head(q).version = games[Game]
      BY <1>2, <1>3 DEF ServerInv, JobsAreCurrent
    <3>2. AddSubscription(s, Game)
      BY <1>2, <2>1, <2>2, <3>1 DEF SubscriptionLoaded
    <3>3. Game \in watched'[s]
      BY <2>1, <3>2 DEF AddSubscription, AddAnyway, TypeOK
    <3>4. QED
      BY <3>3 DEF Following
  <2>3. CASE Head(q).socket # s /\ Pending(s)
    <3>1. PICK i \in DOMAIN q : q[i].socket = s
      BY <1>2, <2>3 DEF Pending
    <3>2. i - 1 \in DOMAIN Tail(q) /\ Tail(q)[i - 1].socket = s
      BY <1>3, <2>3, <3>1
    <3>3. QED
      BY <1>2, <3>2 DEF Following, Pending
  <2>4. CASE Head(q).socket # s /\ Game \in watched[s]
    <3>1. ASSUME UNCHANGED watched PROVE Game \in watched'[s]
      BY <2>4, <3>1
    <3>2. ASSUME NEW r, NEW g, watched' = [watched EXCEPT ![r] = @ \cup {g}]
          PROVE  Game \in watched'[s]
      <4>1. watched \in [Sockets -> SUBSET Games]
        BY DEF TypeOK
      <4>2. QED
        BY <2>4, <3>2, <4>1
    <3>3. Game \in watched'[s]
      BY <3>1, <3>2 DEF SubscriptionLoaded, AddSubscription, AddAnyway
    <3>4. QED
      BY <3>3 DEF Following
  <2>5. QED
    BY <1>5, <2>2, <2>3, <2>4 DEF Following
<1>6. ASSUME NEW s \in Sockets
      PROVE  PageInv(s)'
  <2>1. Served(s)
    BY DEF Served, SubscriptionLoaded, clientVars, screenVars
  <2>2. FollowInv(s)'
    BY <1>5 DEF SubscriptionLoaded, PageInv, FollowInv, clientVars, screenVars
  <2>3. PageInv(s)
    OBVIOUS
  <2>4. QED
    BY <1>1, <2>1, <2>2, <2>3, ServedPage
<1>7. QED
  BY <1>1, <1>4, <1>6 DEF ServerKept

LEMMA ConnectsKept ==
  ASSUME TypeOK, TypeOK', ChannelTypes, PageTypes, ServerInv, \A s \in Sockets : PageInv(s),
         NEW r \in Sockets, ServerConnects(r), UNCHANGED screenVars
  PROVE  ServerKept
<1>1. Advances
  BY NothingSent, RequestsAreRequests DEF ServerConnects, Connect, TypeOK
<1>2. /\ UNCHANGED <<watched, jobs, clientVars, screenVars>>
      /\ ready[r] = "connecting" /\ known' = known \cup {r}
      /\ socket' = [socket EXCEPT ![r] = "open"]
  BY DEF ServerConnects, Connect, loopVars
<1>3. PageTypes' /\ ServerInv'
  BY <1>2 DEF PageTypes, ServerInv, clientVars, screenVars, TypeOK
<1>4. ASSUME NEW s \in Sockets
      PROVE  PageInv(s)'
  <2>1. Served(s)
    BY <1>2 DEF Served, clientVars, screenVars, TypeOK
  <2>2. FollowInv(s)'
    BY <1>2 DEF PageInv, FollowInv, Following, Pending, clientVars, screenVars, TypeOK
  <2>3. PageInv(s)
    OBVIOUS
  <2>4. QED
    BY <1>1, <2>1, <2>2, <2>3, ServedPage
<1>5. QED
  BY <1>1, <1>3, <1>4 DEF ServerKept

LEMMA ReceivesKept ==
  ASSUME TypeOK, TypeOK', ChannelTypes, PageTypes, ServerInv, \A s \in Sockets : PageInv(s),
         NEW r \in Sockets, ServerReceives(r), UNCHANGED screenVars
  PROVE  ServerKept
<1>1. /\ requests[r] # <<>> /\ requests[r] \in Seq(RequestsOf)
      /\ Head(requests[r]) \in RequestsOf /\ Head(requests[r]).game = Game
  <2>1. requests[r] # <<>> /\ requests[r] \in Seq(RequestsOf)
    BY DEF ServerReceives, ChannelTypes
  <2>2. Head(requests[r]) \in RequestsOf
    BY <2>1
  <2>3. QED
    BY <2>1, <2>2 DEF RequestsOf
<1>2. /\ UNCHANGED <<games, socket, known, sent, ready, queued, read, screenVars>>
      /\ requests' = [requests EXCEPT ![r] = Tail(@)]
  BY DEF ServerReceives, SubscribeGame, UnsubscribeGame, subscriptionVars
<1>3. Advances
  BY <1>2, NothingSent, RequestsAreRequests DEF TypeOK
<1>4. /\ ready[r] # "none"
      /\ \A s \in Sockets : s # r => requests'[s] = requests[s]
  BY <1>1, <1>2 DEF PageInv, StageInv, Untouched, ChannelTypes
<1>5. \A s \in Sockets : Served(s)
  BY <1>2, <1>4 DEF Served, screenVars
<1>6. PageTypes'
  BY <1>2 DEF PageTypes, screenVars
<1>7. CASE Head(requests[r]).type = "SUBSCRIBE_GAME" /\ SubscribeGame(r, Game)
  <2>1. PICK e \in [socket : Sockets, game : Games, version : Nat] :
          e.socket = r /\ e.game = Game /\ jobs' = Append(jobs, e)
    <3>1. [socket |-> r, game |-> Game, version |-> games[Game]]
            \in [socket : Sockets, game : Games, version : Nat]
      BY RequestsAreRequests DEF TypeOK
    <3>2. QED
      BY <1>7, <3>1 DEF SubscribeGame
  <2>2. PICK q \in Seq([socket : Sockets, game : Games, version : Nat]) : q = jobs
    BY DEF TypeOK
  <2>3. /\ Len(q) \in Nat /\ DOMAIN q = 1 .. Len(q) /\ DOMAIN Append(q, e) = 1 .. Len(q) + 1
        /\ Append(q, e)[Len(q) + 1] = e /\ \A i \in DOMAIN q : Append(q, e)[i] = q[i]
    BY <2>1, <2>2
  <2>4. ServerInv'
    <3>1. \A i \in DOMAIN jobs' : jobs'[i].game = Game
      BY <2>1, <2>2, <2>3 DEF ServerInv
    <3>2. QED
      BY <1>2, <3>1 DEF ServerInv
  <2>5. Pending(r)' /\ \A s \in Sockets : Pending(s) => Pending(s)'
    BY <2>1, <2>2, <2>3 DEF Pending
  <2>6. UNCHANGED watched
    BY <1>7 DEF SubscribeGame, subscriptionVars
  <2>7. ASSUME NEW s \in Sockets
        PROVE  FollowInv(s)'
    <3>1. FollowInv(s)
      BY DEF PageInv
    <3>2. CASE s # r
      BY <1>2, <1>4, <2>5, <2>6, <3>1, <3>2 DEF FollowInv, Following, screenVars
    <3>3. CASE s = r
      <4>1. ASSUME requests[r] = <<Subscribe(Game)>>
            PROVE  requests'[r] = <<>>
        <5>1. Tail(requests[r]) = <<>>
          BY <4>1
        <5>2. QED
          BY <1>2, <5>1 DEF ChannelTypes
      <4>2. QED
        BY <1>1, <1>2, <2>5, <3>1, <3>3, <4>1 DEF FollowInv, Following, screenVars
    <3>4. QED
      BY <3>2, <3>3
  <2>8. QED
    BY <1>3, <1>5, <1>6, <2>4, <2>7, ServedPage DEF ServerKept
<1>8. CASE Head(requests[r]).type = "UNSUBSCRIBE_GAME" /\ UnsubscribeGame(r, Game)
  <2>1. UNCHANGED jobs /\ \A s \in Sockets : s # r => watched'[s] = watched[s]
    BY <1>8 DEF UnsubscribeGame, RemoveSubscription, TypeOK
  <2>2. ServerInv'
    BY <1>2, <2>1 DEF ServerInv
  <2>3. ASSUME NEW s \in Sockets
        PROVE  FollowInv(s)'
    <3>1. FollowInv(s)
      BY DEF PageInv
    <3>2. CASE s # r
      BY <1>2, <1>4, <2>1, <3>1, <3>2 DEF FollowInv, Following, Pending, screenVars
    <3>3. CASE s = r
      <4>1. requests[r] # <<Subscribe(Game)>>
        BY <1>8 DEF Subscribe
      <4>2. socket[r] = "open"
        BY <1>8 DEF UnsubscribeGame, MessageArrives, ServerInv
      <4>3. stage[r] = "live" => ready[r] \notin {"connecting", "open"}
        BY <1>1, <3>1, <3>3, <4>1, <4>2 DEF FollowInv
      <4>4. QED
        BY <1>2, <3>3, <4>3 DEF FollowInv, screenVars
    <3>4. QED
      BY <3>2, <3>3
  <2>4. QED
    BY <1>3, <1>5, <1>6, <2>2, <2>3, ServedPage DEF ServerKept
<1>9. QED
  BY <1>1, <1>7, <1>8 DEF ServerReceives

LEMMA SeesCloseKept ==
  ASSUME TypeOK, TypeOK', ChannelTypes, PageTypes, ServerInv, \A s \in Sockets : PageInv(s),
         NEW r \in Sockets, ServerSeesClose(r), UNCHANGED screenVars
  PROVE  ServerKept
<1>1. /\ UNCHANGED <<games, sent, jobs, ready, queued, read, screenVars>>
      /\ socket[r] # "new" /\ socket' = [socket EXCEPT ![r] = "closed"]
      /\ known' = known \ {r} /\ watched' = [watched EXCEPT ![r] = {}]
      /\ requests' = [requests EXCEPT ![r] = <<>>]
  BY DEF ServerSeesClose, Closed, Cleanup, loopVars
<1>2. Advances
  BY <1>1, NothingSent, RequestsAreRequests DEF TypeOK
<1>3. PageTypes' /\ ServerInv'
  BY <1>1 DEF PageTypes, ServerInv, screenVars, TypeOK
<1>4. ASSUME NEW s \in Sockets
      PROVE  PageInv(s)'
  <2>1. Served(s)
    BY <1>1 DEF Served, screenVars, TypeOK, ChannelTypes, PageInv, StageInv, Untouched
  <2>2. FollowInv(s)'
    BY <1>1 DEF PageInv, FollowInv, Following, Pending, screenVars, TypeOK, ChannelTypes
  <2>3. PageInv(s)
    OBVIOUS
  <2>4. QED
    BY <1>2, <2>1, <2>2, <2>3, ServedPage
<1>5. QED
  BY <1>2, <1>3, <1>4 DEF ServerKept

LEMMA AcceptedKept ==
  ASSUME TypeOK, TypeOK', PageTypes, ServerInv, \A s \in Sockets : PageInv(s),
         NEW r \in Sockets, NEW i \in DOMAIN commands[r], NEW v \in 1 .. MaxVersion,
         CommandAccepted(r, i, v)
  PROVE  /\ ServerKept
         /\ games'[Game] > games[Game] /\ commands[r][i].expected = games[Game]
         /\ \E e \in CommandsOf : /\ commands' = [commands EXCEPT ![r][i] = e]
                                  /\ e.expected = commands[r][i].expected
<1>1. Advances /\ games'[Game] > games[Game]
  BY AcceptAdvances DEF CommandAccepted
<1>2. commands[r] \in Seq(CommandsOf) /\ commands[r][i] \in CommandsOf /\ v \in Nat
  BY DEF PageTypes
<1>3. PICK e \in CommandsOf :
        e = [commands[r][i] EXCEPT !.outcome = "accepted", !.version = v]
  <2>1. [commands[r][i] EXCEPT !.outcome = "accepted", !.version = v] \in CommandsOf
    BY <1>2 DEF CommandsOf
  <2>2. QED
    BY <2>1
<1>4. commands' = [commands EXCEPT ![r][i] = e] /\ e.expected = commands[r][i].expected
  BY <1>2, <1>3 DEF CommandAccepted, PageTypes, CommandsOf
<1>5. PICK c : c = [commands[r] EXCEPT ![i] = e]
  OBVIOUS
<1>6. c \in Seq(CommandsOf) /\ c # <<>> /\ commands[r] # <<>>
  BY <1>2, <1>5, CommandChanged
<1>7. commands' = [commands EXCEPT ![r] = c]
  BY <1>4, <1>5 DEF PageTypes
<1>8. /\ commands' \in [Sockets -> Seq(CommandsOf)]
      /\ \A s \in Sockets : commands'[s] = commands[s] \/ (commands[s] # <<>> /\ commands'[s] # <<>>)
  BY <1>6, <1>7 DEF PageTypes
<1>9. UNCHANGED <<socket, known, watched, jobs, clientVars, stage, shown, load>>
  BY DEF CommandAccepted, AcceptCommand, subscriptionVars, loopVars
<1>10. ServerKept
  BY <1>1, <1>8, <1>9, QuietServer
<1>11. QED
  BY <1>1, <1>4, <1>10 DEF CommandAccepted, IsCurrent

-----------------------------------------------------------------------------
(* Accepted commands.                                                      *)

IsAccepted(s, i) == i \in DOMAIN commands[s] /\ commands[s][i].outcome = "accepted"

\* No command is accepted newly, except the one at i of screen r.
AcceptsOnly(r, i) ==
  \A s \in Sockets : \A j \in DOMAIN commands'[s] :
    IsAccepted(s, j)' =>
      \/ s = r /\ j = i
      \/ IsAccepted(s, j) /\ commands'[s][j].expected = commands[s][j].expected
AcceptsNone ==
  \A s \in Sockets : \A j \in DOMAIN commands'[s] :
    IsAccepted(s, j)' =>
      IsAccepted(s, j) /\ commands'[s][j].expected = commands[s][j].expected

LEMMA ExpectedVersions ==
  ASSUME PageTypes
  PROVE  \A s \in Sockets : \A i \in DOMAIN commands[s] : commands[s][i].expected \in Nat
<1> SUFFICES ASSUME NEW s \in Sockets, NEW i \in DOMAIN commands[s]
             PROVE  commands[s][i].expected \in Nat
  OBVIOUS
<1>1. commands[s] \in Seq(CommandsOf)
  BY DEF PageTypes
<1>2. commands[s][i] \in CommandsOf
  BY <1>1
<1>3. QED
  BY <1>2 DEF CommandsOf

LEMMA NoneAccepted ==
  ASSUME TypeOK, TypeOK', PageTypes, AcceptedInv, AcceptsNone, games'[Game] >= games[Game]
  PROVE  AcceptedInv'
<1>1. games[Game] \in Nat /\ games'[Game] \in Nat
  BY RequestsAreRequests DEF TypeOK
<1>2. \A s \in Sockets : \A i \in DOMAIN commands[s] : commands[s][i].expected \in Nat
  BY ExpectedVersions
<1>3. AppliedOnceFromAState'
  BY DEF AcceptedInv, AppliedOnceFromAState, AcceptsNone, IsAccepted
<1>4. ASSUME NEW s \in Sockets, NEW i \in DOMAIN commands'[s], commands'[s][i].outcome = "accepted"
      PROVE  commands'[s][i].expected < games'[Game]
  <2>1. IsAccepted(s, i) /\ commands'[s][i].expected = commands[s][i].expected
    BY <1>4 DEF AcceptsNone, IsAccepted
  <2>2. commands[s][i].expected < games[Game] /\ commands[s][i].expected \in Nat
    BY <1>2, <2>1 DEF AcceptedInv, IsAccepted
  <2>3. QED
    BY <1>1, <2>1, <2>2
<1>5. QED
  BY <1>3, <1>4 DEF AcceptedInv

LEMMA OneAccepted ==
  ASSUME TypeOK, TypeOK', PageTypes, AcceptedInv, NEW r \in Sockets, NEW k \in DOMAIN commands'[r],
         AcceptsOnly(r, k), commands'[r][k].expected = games[Game], games'[Game] > games[Game]
  PROVE  AcceptedInv'
<1>1. games[Game] \in Nat /\ games'[Game] \in Nat
  BY RequestsAreRequests DEF TypeOK
<1>2. \A s \in Sockets : \A i \in DOMAIN commands[s] : commands[s][i].expected \in Nat
  BY ExpectedVersions
<1>3. ASSUME NEW s \in Sockets, NEW i \in DOMAIN commands'[s], commands'[s][i].outcome = "accepted",
             ~(s = r /\ i = k)
      PROVE  /\ IsAccepted(s, i) /\ commands'[s][i].expected = commands[s][i].expected
             /\ commands'[s][i].expected \in Nat /\ commands'[s][i].expected < games[Game]
  <2>1. IsAccepted(s, i) /\ commands'[s][i].expected = commands[s][i].expected
    BY <1>3 DEF AcceptsOnly, IsAccepted
  <2>2. QED
    BY <1>2, <2>1 DEF AcceptedInv, IsAccepted
<1>4. AppliedOnceFromAState'
  <2> SUFFICES ASSUME NEW s \in Sockets, NEW t \in Sockets,
                      NEW i \in DOMAIN commands'[s], NEW j \in DOMAIN commands'[t],
                      commands'[s][i].outcome = "accepted", commands'[t][j].outcome = "accepted",
                      commands'[s][i].expected = commands'[t][j].expected
               PROVE  s = t /\ i = j
    BY DEF AppliedOnceFromAState
  <2>1. CASE s = r /\ i = k
    <3>1. ~(t = r /\ j = k) => commands'[t][j].expected < games[Game]
      BY <1>3
    <3>2. QED
      BY <1>1, <2>1, <3>1
  <2>2. CASE t = r /\ j = k
    <3>1. ~(s = r /\ i = k) => commands'[s][i].expected < games[Game]
      BY <1>3
    <3>2. QED
      BY <1>1, <2>2, <3>1
  <2>3. CASE ~(s = r /\ i = k) /\ ~(t = r /\ j = k)
    <3>1. /\ IsAccepted(s, i) /\ commands'[s][i].expected = commands[s][i].expected
          /\ IsAccepted(t, j) /\ commands'[t][j].expected = commands[t][j].expected
      BY <1>3, <2>3
    <3>2. commands[s][i].expected = commands[t][j].expected
      BY <3>1
    <3>3. /\ i \in DOMAIN commands[s] /\ commands[s][i].outcome = "accepted"
          /\ j \in DOMAIN commands[t] /\ commands[t][j].outcome = "accepted"
      BY <3>1 DEF IsAccepted
    <3>4. QED
      BY <3>2, <3>3 DEF AcceptedInv, AppliedOnceFromAState
  <2>4. QED
    BY <2>1, <2>2, <2>3
<1>5. ASSUME NEW s \in Sockets, NEW i \in DOMAIN commands'[s], commands'[s][i].outcome = "accepted"
      PROVE  commands'[s][i].expected < games'[Game]
  <2>1. CASE s = r /\ i = k
    BY <1>1, <2>1
  <2>2. CASE ~(s = r /\ i = k)
    BY <1>1, <1>3, <1>5, <2>2
  <2>3. QED
    BY <2>1, <2>2
<1>6. QED
  BY <1>4, <1>5 DEF AcceptedInv

LEMMA AnswersAcceptNothing ==
  ASSUME PageTypes, NEW r \in Sockets,
         \/ SubmitCommand(r)
         \/ \E i \in DOMAIN commands[r] :
              CommandRejected(r, i) \/ AnswerArrives(r, i) \/ RequestFails(r, i)
  PROVE  AcceptsNone
<1>1. commands[r] \in Seq(CommandsOf) /\ Len(commands[r]) \in Nat
      /\ DOMAIN commands[r] = 1 .. Len(commands[r])
  BY DEF PageTypes
<1>2. CASE SubmitCommand(r)
  <2>1. PICK e : e.outcome = "none" /\ commands' = [commands EXCEPT ![r] = Append(commands[r], e)]
    BY <1>2 DEF SubmitCommand, PageTypes
  <2>2. PICK q : q = Append(commands[r], e)
    OBVIOUS
  <2>3. /\ DOMAIN q = 1 .. Len(commands[r]) + 1 /\ q[Len(commands[r]) + 1] = e
        /\ \A j \in 1 .. Len(commands[r]) : q[j] = commands[r][j]
    BY <1>1, <2>2
  <2>4. commands'[r] = q /\ \A s \in Sockets : s # r => commands'[s] = commands[s]
    BY <2>1, <2>2 DEF PageTypes
  <2>5. QED
    BY <1>1, <2>1, <2>3, <2>4 DEF AcceptsNone, IsAccepted
<1>3. ASSUME NEW i \in DOMAIN commands[r],
             CommandRejected(r, i) \/ AnswerArrives(r, i) \/ RequestFails(r, i)
      PROVE  AcceptsNone
  <2>1. commands[r][i] \in CommandsOf
    BY <1>1
  <2>2. PICK e \in CommandsOf : /\ commands' = [commands EXCEPT ![r][i] = e]
                                /\ e.expected = commands[r][i].expected
                                /\ e.outcome \in {"rejected", commands[r][i].outcome}
    <3>1. [commands[r][i] EXCEPT !.outcome = "rejected"] \in CommandsOf
      BY <2>1 DEF CommandsOf
    <3>2. [commands[r][i] EXCEPT !.waiting = FALSE] \in CommandsOf
      BY <2>1 DEF CommandsOf
    <3>3. CASE CommandRejected(r, i)
      BY <2>1, <3>1, <3>3 DEF CommandRejected, CommandsOf
    <3>4. CASE AnswerArrives(r, i) \/ RequestFails(r, i)
      BY <2>1, <3>2, <3>4 DEF AnswerArrives, RequestFails, CommandsOf
    <3>5. QED
      BY <1>3, <3>3, <3>4
  <2>3. PICK c : c = [commands[r] EXCEPT ![i] = e]
    OBVIOUS
  <2>4. DOMAIN c = DOMAIN commands[r] /\ c[i] = e /\ \A j \in DOMAIN c : j # i => c[j] = commands[r][j]
    BY <1>1, <2>3, CommandChanged
  <2>5. commands'[r] = c /\ \A s \in Sockets : s # r => commands'[s] = commands[s]
    BY <2>2, <2>3 DEF PageTypes
  <2>6. QED
    BY <2>2, <2>4, <2>5 DEF AcceptsNone, IsAccepted
<1>4. QED
  BY <1>2, <1>3

-----------------------------------------------------------------------------
(* The invariant holds.                                                    *)

LEMMA AfterPageStep ==
  ASSUME PagesInv, TypeOK, TypeOK', ChannelTypes', NEW r \in Sockets, PageKept(r), AcceptsNone
  PROVE  PagesInv'
<1>1. UNCHANGED <<games, socket, known, jobs, sent>>
  BY DEF PageKept, vars, subscriptionVars, loopVars
<1>2. games'[Game] >= games[Game]
  BY <1>1, RequestsAreRequests DEF TypeOK
<1>3. AcceptedInv'
  BY <1>2, NoneAccepted DEF PagesInv
<1>4. ServerInv' /\ SentInv'
  BY <1>1 DEF PagesInv, ServerInv, SentInv, IsState
<1>5. ASSUME NEW s \in Sockets
      PROVE  PageInv(s)'
  <2>1. CASE s = r
    BY <2>1 DEF PageKept
  <2>2. CASE s # r
    <3>1. UNCHANGED vars /\ PageRests(s) /\ PageInv(s)
      BY <2>2 DEF PageKept, PagesInv
    <3>2. QED
      BY <3>1, RestingPage
  <2>3. QED
    BY <2>1, <2>2
<1>6. QED
  BY <1>3, <1>4, <1>5 DEF PagesInv, PageKept

LEMMA AfterServerStep ==
  ASSUME PagesInv, TypeOK, TypeOK', ChannelTypes', ServerKept, AcceptedInv'
  PROVE  PagesInv'
<1>1. SentInv'
  BY SentInvKept DEF PagesInv, ServerKept
<1>2. QED
  BY <1>1 DEF PagesInv, ServerKept

LEMMA SameCommands ==
  ASSUME UNCHANGED commands
  PROVE  AcceptsNone
BY DEF AcceptsNone, IsAccepted

LEMMA QuietStepKept ==
  ASSUME PagesInv, TypeOK, TypeOK',
         UNCHANGED <<socket, known, watched, jobs, sent, clientVars, screenVars>>,
         games'[Game] >= games[Game]
  PROVE  ServerKept
<1>1. Advances
  BY NothingSent
<1>2. commands' \in [Sockets -> Seq(CommandsOf)]
  BY DEF PagesInv, PageTypes, screenVars
<1>3. UNCHANGED <<socket, known, watched, jobs, clientVars, stage, shown, load, commands>>
  BY DEF screenVars
<1>4. QED
  BY <1>1, <1>2, <1>3, QuietServer DEF PagesInv

LEMMA PagesInvKept ==
  ASSUME PagesInv, DeliveryInv, DeliveryInv', ChannelTypes', [ScreenNext]_allVars
  PROVE  PagesInv'
<1>1. TypeOK /\ TypeOK' /\ JobsAreCurrent
  BY DEF DeliveryInv, SubscriptionInv
<1>2. /\ ChannelTypes /\ PageTypes /\ ServerInv /\ SentInv /\ AcceptedInv
      /\ \A s \in Sockets : PageInv(s)
  BY DEF PagesInv
<1>3. ASSUME UNCHANGED commands PROVE ServerKept => PagesInv'
  <2>1. AcceptsNone
    BY <1>3, SameCommands
  <2>2. ServerKept => AcceptedInv'
    BY <1>1, <1>2, <2>1, NoneAccepted DEF ServerKept, Advances
  <2>3. QED
    BY <1>1, <2>2, AfterServerStep
<1>4. ASSUME NEW r \in Sockets, UNCHANGED commands PROVE PageKept(r) => PagesInv'
  BY <1>1, <1>4, SameCommands, AfterPageStep
<1>5. games[Game] \in Nat /\ Game \in Games
  BY <1>1, RequestsAreRequests DEF TypeOK
<1>6. CASE ServerStep
  <2>1. UNCHANGED <<clientVars, screenVars, commands>>
    BY <1>6 DEF ServerStep, screenVars
  <2>2. CASE Start \/ CreateGame(Game) \/ EndOfChunk
    <3>1. UNCHANGED <<socket, known, watched, jobs, sent>> /\ games'[Game] >= games[Game]
      BY <1>1, <1>5, <2>2 DEF Start, CreateGame, EndOfChunk, subscriptionVars, loopVars, TypeOK
    <3>2. QED
      BY <1>1, <1>3, <2>1, <3>1, QuietStepKept
  <2>3. CASE SubscriptionLoaded
    BY <1>1, <1>2, <1>3, <2>1, <2>3, LoadedKept
  <2>4. QED
    BY <1>6, <2>2, <2>3 DEF ServerStep, LoopStep
<1>7. ASSUME NEW r \in Sockets, Network(r) PROVE PagesInv'
  <2>1. CASE ServeLoad(r) \/ LoadArrives(r)
    <3>1. UNCHANGED commands
      BY <2>1 DEF ServeLoad, LoadArrives
    <3>2. PageKept(r)
      BY <1>1, <1>2, <2>1, LoadKept, LoadArrivesKept
    <3>3. QED
      BY <1>4, <3>1, <3>2
  <2>2. CASE SocketStep(r)
    <3>1. UNCHANGED <<screenVars, commands>>
      BY <2>2 DEF SocketStep, screenVars
    <3>2. PageKept(r) \/ ServerKept
      BY <1>1, <1>2, <2>2, <3>1, SocketOpensKept, ConnectsKept, ReceivesKept DEF SocketStep
    <3>3. QED
      BY <1>3, <1>4, <3>1, <3>2
  <2>3. CASE MessageReceived(r)
    <3>1. UNCHANGED commands
      BY <2>3 DEF MessageReceived
    <3>2. PageKept(r)
      BY <1>1, <1>2, <2>3, MessageKept
    <3>3. QED
      BY <1>4, <3>1, <3>2
  <2>4. CASE SocketBreaks(r)
    <3>1. UNCHANGED <<screenVars, commands>>
      BY <2>4 DEF SocketBreaks, screenVars
    <3>2. PageKept(r) \/ ServerKept
      BY <1>1, <1>2, <2>4, <3>1, SocketClosesKept, SeesCloseKept DEF SocketBreaks
    <3>3. QED
      BY <1>3, <1>4, <3>1, <3>2
  <2>5. QED
    BY <1>7, <2>1, <2>2, <2>3, <2>4 DEF Network
<1>8. ASSUME NEW r \in Sockets,
             \/ SubmitCommand(r)
             \/ \E i \in DOMAIN commands[r] :
                  CommandRejected(r, i) \/ AnswerArrives(r, i) \/ RequestFails(r, i)
      PROVE  PagesInv'
  <2>1. PageKept(r) /\ AcceptsNone
    BY <1>1, <1>2, <1>8, AnswersKept, AnswersAcceptNothing
  <2>2. QED
    BY <1>1, <2>1, AfterPageStep
<1>9. ASSUME NEW r \in Sockets, NEW i \in DOMAIN commands[r], NEW v \in 1 .. MaxVersion,
             CommandAccepted(r, i, v)
      PROVE  PagesInv'
  <2>1. /\ ServerKept
        /\ games'[Game] > games[Game] /\ commands[r][i].expected = games[Game]
        /\ \E e \in CommandsOf : /\ commands' = [commands EXCEPT ![r][i] = e]
                                 /\ e.expected = commands[r][i].expected
    BY <1>1, <1>2, <1>9, AcceptedKept
  <2>2. PICK e \in CommandsOf : /\ commands' = [commands EXCEPT ![r][i] = e]
                                /\ e.expected = commands[r][i].expected
    BY <2>1
  <2>3. PICK c : c = [commands[r] EXCEPT ![i] = e]
    OBVIOUS
  <2>4. commands[r] \in Seq(CommandsOf)
    BY <1>2 DEF PageTypes
  <2>5. /\ DOMAIN c = DOMAIN commands[r] /\ c[i] = e
        /\ \A j \in DOMAIN commands[r] : j # i => c[j] = commands[r][j]
    BY <2>3, <2>4, CommandChanged
  <2>6. commands'[r] = c /\ \A s \in Sockets : s # r => commands'[s] = commands[s]
    BY <1>2, <2>2, <2>3 DEF PageTypes
  <2>7. i \in DOMAIN commands'[r] /\ commands'[r][i].expected = games[Game]
    BY <2>1, <2>2, <2>5, <2>6
  <2>8. AcceptsOnly(r, i)
    BY <2>5, <2>6 DEF AcceptsOnly, IsAccepted
  <2>9. AcceptedInv'
    BY <1>1, <1>2, <2>1, <2>7, <2>8, OneAccepted
  <2>10. QED
    BY <1>1, <2>1, <2>9, AfterServerStep
<1>10. ASSUME NEW r \in Sockets, LoadFails(r) \/ Mount(r) \/ Unmount(r) PROVE PagesInv'
  <2>1. UNCHANGED commands
    BY <1>10 DEF LoadFails, Mount, Unmount
  <2>2. PageKept(r)
    BY <1>1, <1>2, <1>10, LoadKept, MountKept, UnmountKept
  <2>3. QED
    BY <1>4, <2>1, <2>2
<1>11. CASE UNCHANGED allVars
  <2>1. UNCHANGED <<socket, known, watched, jobs, sent, clientVars, screenVars, commands>>
        /\ games'[Game] >= games[Game]
    BY <1>5, <1>11 DEF allVars, vars, subscriptionVars, loopVars, screenVars
  <2>2. QED
    BY <1>1, <1>3, <2>1, QuietStepKept
<1>12. QED
  BY <1>6, <1>7, <1>8, <1>9, <1>10, <1>11 DEF ScreenNext, Answers, Failures, Player

LEMMA PagesInvHolds == ScreenSpec => [](PagesInv /\ DeliveryInv)
<1>1. ScreenInit => PagesInv
  <2> SUFFICES ASSUME ScreenInit PROVE PagesInv
    OBVIOUS
  <2>1. ChannelTypes /\ PageTypes
    BY DEF ScreenInit, ClientInit, ChannelTypes, PageTypes
  <2>2. \A s \in Sockets : PageInv(s)
    BY RequestsAreRequests
    DEF ScreenInit, ClientInit, Init, PageInv, StageInv, Untouched, FollowInv, WatchInv, IsState
  <2>3. ServerInv /\ SentInv /\ AcceptedInv
    BY DEF ScreenInit, ClientInit, Init, ServerInv, SentInv, AcceptedInv, AppliedOnceFromAState,
           IsState
  <2>4. QED
    BY <2>1, <2>2, <2>3 DEF PagesInv
<1>2. ScreenSpec => []DeliveryInv /\ []ChannelTypes
  BY ScreensUseTheRuntime, DeliveryInvHolds, ChannelTypesHold, PTL DEF ScreenSpec
<1>3. PagesInv /\ DeliveryInv /\ DeliveryInv' /\ ChannelTypes' /\ [ScreenNext]_allVars => PagesInv'
  BY PagesInvKept
<1>4. QED
  BY <1>1, <1>2, <1>3, PTL DEF ScreenSpec

-----------------------------------------------------------------------------
(* The theorems.                                                           *)

LEMMA WatcherIsCurrent ==
  ASSUME PagesInv, DeliveryInv, NEW s \in Sockets, AtRest(s), commands[s] = <<>>
  PROVE  shown[s] = games[Game]
<1>1. /\ TypeOK /\ JobsAreCurrent /\ WatchersKnow /\ StateIsLast /\ Game \in Games
      /\ PageInv(s) /\ PageTypes
  BY RequestsAreRequests DEF DeliveryInv, SubscriptionInv, PagesInv
<1>2. /\ jobs = <<>> /\ read[s] = Len(sent[s])
      /\ stage[s] = "live" /\ ready[s] = "open" /\ socket[s] = "open" /\ requests[s] = <<>>
  BY DEF AtRest, Idle
<1>3. Game \in watched[s]
  BY <1>1, <1>2 DEF PageInv, FollowInv, Following, Pending
<1>4. PICK told : told = Told(s, Game)
  OBVIOUS
<1>5. PICK states : states = Snapshots(s, Game) /\ states \in Seq(MessagesOf)
  BY <1>1, ToldType
<1>6. told # <<>> /\ told[Len(told)].version = games[Game]
  BY <1>1, <1>2, <1>3, <1>4 DEF WatchersKnow, Newest
<1>7. states # <<>> /\ states[Len(states)] = told[Len(told)]
  BY <1>1, <1>4, <1>5, <1>6 DEF StateIsLast, EndsWithState
<1>8. PICK m : m = states[Len(states)] /\ m.version = games[Game]
  BY <1>6, <1>7
<1>9. \E i \in DOMAIN states : states[i] = m
  BY <1>5, <1>7, <1>8
<1>10. sent[s] \in Seq(MessagesOf)
  BY <1>1 DEF TypeOK
<1>11. m \in SnapshotsOf(Game) /\ \E i \in DOMAIN sent[s] : sent[s][i] = m
  BY <1>5, <1>9, <1>10, KeptElements DEF Snapshots
<1>12. PICK i \in DOMAIN sent[s] : sent[s][i] = m
  BY <1>11
<1>13. IsState(s, i) /\ sent[s][i].version = games[Game] /\ i <= read[s]
  BY <1>2, <1>8, <1>10, <1>11, <1>12 DEF IsState, SnapshotsOf
<1>14. games[Game] \in Nat /\ shown[s] \in Nat
  BY <1>1 DEF TypeOK, PageTypes
<1>15. QED
  BY <1>1, <1>12, <1>13, <1>14 DEF PageInv, WatchInv

\* A screen that only watches shows the newest state once everything has
\* arrived, however its load, its subscription and the moves of the game
\* overlapped, and what pages, sockets and requests keep has its type.
THEOREM WatchersEndWithNewest == ScreenSpec => []ScreenInv
<1>1. PagesInv /\ DeliveryInv => ScreenInv
  <2> SUFFICES ASSUME PagesInv, DeliveryInv PROVE ScreenInv
    OBVIOUS
  <2>1. TypeOK /\ ChannelTypes /\ PageTypes
    BY DEF DeliveryInv, SubscriptionInv, PagesInv
  <2>2. ClientTypeOK
    <3> DEFINE T == [type : {"SUBSCRIBE_GAME", "UNSUBSCRIBE_GAME"}, game : Games]
    <3>1. RequestsOf \subseteq T
      BY RequestsAreRequests DEF RequestsOf
    <3>2. ASSUME NEW q \in Seq(RequestsOf) PROVE q \in Seq(T)
      <4> HIDE DEF T
      <4>1. q \in [1 .. Len(q) -> RequestsOf] /\ Len(q) \in Nat
        OBVIOUS
      <4>2. q \in [1 .. Len(q) -> T] /\ Len(q) \in Nat
        BY <3>1, <4>1
      <4>3. QED
        BY <4>2
    <3>3. \A s \in Sockets : read[s] \in 0 .. Len(sent[s])
      BY <2>1, StatesHaveVersions DEF PageTypes, PagesInv, PageInv
    <3>4. QED
      BY <2>1, <3>2, <3>3 DEF ChannelTypes, ClientTypeOK
  <2>3. ScreenTypeOK
    BY <2>1, <2>2 DEF PageTypes, ScreenTypeOK
  <2>4. WatchersConverge
    BY WatcherIsCurrent DEF WatchersConverge
  <2>5. QED
    BY <2>3, <2>4 DEF ScreenInv
<1>2. QED
  BY <1>1, PagesInvHolds, PTL

\* Of all commands sent from one state of the game at most one is accepted,
\* whichever screens send them and however often a player whose answer was
\* lost sends one again.
THEOREM StatesHaveOneSuccessor == ScreenSpec => []AppliedOnceFromAState
<1>1. PagesInv => AppliedOnceFromAState
  BY DEF PagesInv, AcceptedInv
<1>2. QED
  BY <1>1, PagesInvHolds, PTL

LEMMA ShownGoesOn ==
  ASSUME PagesInv, TypeOK, [ScreenNext]_allVars, NEW s \in Sockets, commands[s] = <<>>
  PROVE  shown'[s] >= shown[s]
<1>1. /\ shown \in [Sockets -> Nat] /\ PageInv(s) /\ games[Game] \in Nat
      /\ load[s].version \in Nat
  BY RequestsAreRequests DEF PagesInv, PageTypes, TypeOK
<1>2. CASE UNCHANGED shown
  BY <1>1, <1>2
<1>3. ASSUME NEW r \in Sockets, LoadArrives(r) PROVE shown'[s] >= shown[s]
  <2>1. CASE r = s
    <3>1. shown[s] = 0
      BY <1>1, <1>3, <2>1 DEF LoadArrives, PageInv, StageInv, Untouched
    <3>2. QED
      BY <1>1, <1>3, <2>1, <3>1 DEF LoadArrives, Show
  <2>2. CASE r # s
    BY <1>1, <1>3, <2>2 DEF LoadArrives, Show
  <2>3. QED
    BY <2>1, <2>2
<1>4. ASSUME NEW r \in Sockets, MessageReceived(r) PROVE shown'[s] >= shown[s]
  <2>1. CASE r = s
    <3>1. PICK n : n = read[s] + 1 /\ n \in DOMAIN sent[s] /\ ~(n <= read[s])
      BY <1>4, <2>1, StatesHaveVersions DEF MessageReceived, MessageEvent, PagesInv, PageTypes
    <3>2. IsState(s, n) => shown[s] <= sent[s][n].version /\ sent[s][n].version \in Nat
      BY <1>1, <3>1, StatesHaveVersions DEF PageInv, WatchInv
    <3>3. \/ shown'[s] = shown[s]
          \/ IsState(s, n) /\ shown'[s] = sent[s][n].version
      BY <1>1, <1>4, <2>1, <3>1 DEF MessageReceived, HandleSocketMessage, Arriving, Show, IsState
    <3>4. QED
      BY <1>1, <3>2, <3>3
  <2>2. CASE r # s
    BY <1>1, <1>4, <2>2 DEF MessageReceived, HandleSocketMessage, Show
  <2>3. QED
    BY <2>1, <2>2
<1>5. ASSUME NEW r \in Sockets, NEW i \in DOMAIN commands[r], AnswerArrives(r, i)
      PROVE  shown'[s] >= shown[s]
  <2>1. r # s
    BY <1>5
  <2>2. QED
    BY <1>1, <1>5, <2>1 DEF AnswerArrives, Show
<1>6. QED
  BY <1>2, <1>3, <1>4, <1>5
  DEF ScreenNext, ServerStep, Network, Answers, Failures, Player, ServeLoad, SocketStep,
      SocketBreaks, Mount, Unmount, SubmitCommand, CommandAccepted, CommandRejected, RequestFails,
      LoadFails, screenVars, allVars

\* No step takes a screen that only watches back to an older state, whatever
\* overtakes what.
THEOREM WatchersNeverGoBack == ScreenSpec => WatcherNeverGoesBack
<1>1. PagesInv /\ DeliveryInv /\ [ScreenNext]_allVars
        => [\A s \in Sockets : commands[s] = <<>> => shown'[s] >= shown[s]]_allVars
  BY ShownGoesOn DEF DeliveryInv, SubscriptionInv
<1>2. QED
  BY <1>1, PagesInvHolds, PTL DEF ScreenSpec, WatcherNeverGoesBack

\* No step gives a screen that was left a socket, not even one that was left
\* while it was loading.
THEOREM LeavingLeavesNoSocket == ScreenSpec => GoneScreensHaveNoSocket
<1>1. PagesInv /\ PagesInv' /\ [ScreenNext]_allVars
        => [\A s \in Sockets : stage[s] = "gone" => ready'[s] \in {"none", "closed"}]_allVars
  <2> SUFFICES ASSUME PagesInv, PagesInv', [ScreenNext]_allVars,
                      NEW s \in Sockets, stage[s] = "gone"
               PROVE  ready'[s] \in {"none", "closed"}
    OBVIOUS
  <2>1. ready[s] \in {"none", "closed"} /\ ready \in [Sockets -> {"none", "connecting", "open", "closed"}]
    BY DEF PagesInv, PageInv, StageInv, ChannelTypes
  <2>2. CASE UNCHANGED ready
    BY <2>1, <2>2
  <2>3. ASSUME NEW r \in Sockets, LoadArrives(r) PROVE ready'[s] \in {"none", "closed"}
    <3>1. UNCHANGED ready \/ (stage[r] # "gone" /\ ready' = [ready EXCEPT ![r] = "connecting"])
      BY <2>3 DEF LoadArrives, Cancelled, ConnectGameSocket
    <3>2. QED
      BY <2>1, <3>1
  <2>4. ASSUME NEW r \in Sockets, SocketOpens(r) PROVE ready'[s] \in {"none", "closed"}
    BY <2>1, <2>4 DEF SocketOpens
  <2>5. ASSUME NEW r \in Sockets, SocketCloses(r) \/ Unmount(r)
        PROVE  ready'[s] \in {"none", "closed"}
    BY <2>1, <2>5 DEF SocketCloses, Unmount, ReadyAfterCleanup
  <2>6. ASSUME NEW r \in Sockets, Network(r) PROVE ready'[s] \in {"none", "closed"}
    BY <2>2, <2>3, <2>4, <2>5, <2>6
    DEF Network, ServeLoad, SocketStep, SocketBreaks, MessageReceived, MessageEvent,
        ServerConnects, ServerReceives, ServerSeesClose, clientVars
  <2>7. ASSUME NEW r \in Sockets, Answers(r) \/ Failures(r) \/ Player(r)
        PROVE  ready'[s] \in {"none", "closed"}
    BY <2>2, <2>5, <2>7
    DEF Answers, Failures, Player, Mount, SubmitCommand, CommandAccepted, CommandRejected,
        AnswerArrives, RequestFails, LoadFails, clientVars
  <2>8. CASE ServerStep \/ UNCHANGED allVars
    BY <2>2, <2>8 DEF ServerStep, allVars, clientVars
  <2>9. QED
    BY <2>6, <2>7, <2>8 DEF ScreenNext
<1>2. QED
  BY <1>1, PagesInvHolds, PTL DEF ScreenSpec, GoneScreensHaveNoSocket

-----------------------------------------------------------------------------
(* The console uses the runtime.                                           *)

\* A state with a version is the state of a game.
ShownIsAGame == state.version > 0 => state.game \in Games
PageStateInv ==
  ConsoleTypeOK /\ ShownIsAGame /\ NeverFalselyConnected /\ OneSocketAtATime

\* The console subscribes and never unsubscribes.
Subscriptions == [type : {"SUBSCRIBE_GAME"}, game : Games]
Payloads ==
  queued \in [Sockets -> Seq(Subscriptions)] /\ requests \in [Sockets -> Seq(Subscriptions)]
ReadyStates == {"none", "connecting", "open", "closed"}

LEMMA JoinsAreTyped ==
  ASSUME joins \in Seq(JoinsOf), NEW i \in DOMAIN joins
  PROVE  /\ joins[i] \in JoinsOf
         /\ joins[i].game \in Games /\ joins[i].version \in Nat
<1>1. joins[i] \in JoinsOf
  OBVIOUS
<1>2. QED
  BY <1>1 DEF JoinsOf

LEMMA PostsAreTyped ==
  ASSUME posts \in Seq(PostsOf), NEW i \in DOMAIN posts
  PROVE  /\ posts[i] \in PostsOf
         /\ posts[i].game \in Games /\ posts[i].version \in Nat
<1>1. posts[i] \in PostsOf
  OBVIOUS
<1>2. QED
  BY <1>1 DEF PostsOf

LEMMA RequestIsTyped ==
  ASSUME Payloads, NEW s \in Sockets, requests[s] # <<>>
  PROVE  Head(requests[s]).game \in Games /\ Head(requests[s]).type = "SUBSCRIBE_GAME"
<1>1. requests[s] \in Seq(Subscriptions)
  BY DEF Payloads
<1>2. Head(requests[s]) \in Subscriptions
  BY <1>1
<1>3. QED
  BY <1>2 DEF Subscriptions

\* What the console does to the server is what any client may do to it that
\* never unsubscribes.
LEMMA ConsoleStepSubscribes ==
  ASSUME ConsoleTypeOK, Payloads, [ConsoleNext]_systemVars
  PROVE  [OnlySubscribes]_vars
<1>0. joins \in Seq(JoinsOf) /\ posts \in Seq(PostsOf)
  BY DEF ConsoleTypeOK
<1>1. CASE Person \/ SocketEvents \/ UNCHANGED systemVars
  BY <1>1 DEF Person, PressConnect, ChangeUser, ConsoleSubmitCommand, AskForGame, SocketEvents,
     OpenEvent, BreakEvent, CloseEvent, ConsoleMessage, SocketOpens, SocketCloses, MessageEvent,
     systemVars
<1>2. CASE ConsoleServerStep
  <2>1. ASSUME NEW s \in Sockets, ServerReceives(s) PROVE [OnlySubscribes]_vars
    <3>1. /\ Head(requests[s]).game \in Games
          /\ Head(requests[s]).type = "SUBSCRIBE_GAME"
      BY <2>1, RequestIsTyped DEF ServerReceives
    <3>2. SubscribeGame(s, Head(requests[s]).game)
      BY <2>1, <3>1 DEF ServerReceives
    <3>3. QED
      BY <3>1, <3>2 DEF OnlySubscribes
  <2>2. ASSUME NEW s \in Sockets, ServerConnects(s) PROVE [OnlySubscribes]_vars
    BY <2>2 DEF ServerConnects, OnlySubscribes
  <2>3. QED
    BY <1>2, <2>1, <2>2 DEF ConsoleServerStep, OnlySubscribes, Lifecycle
<1>3. CASE SocketEnds
  BY <1>3 DEF SocketEnds, ServerSeesClose, OnlySubscribes
<1>4. CASE ConsoleAnswers
  <2>1. ASSUME NEW i \in DOMAIN joins, ServeJoin(i) PROVE [OnlySubscribes]_vars
    <3>1. joins[i].game \in Games
      BY <1>0, JoinsAreTyped
    <3>2. QED
      BY <2>1, <3>1 DEF ServeJoin, OnlySubscribes, HttpRequest
  <2>2. ASSUME NEW i \in DOMAIN posts, ServePost(i) PROVE [OnlySubscribes]_vars
    <3>1. posts[i].game \in Games
      BY <1>0, PostsAreTyped
    <3>2. QED
      BY <2>2, <3>1 DEF ServePost, OnlySubscribes, HttpRequest
  <2>3. QED
    BY <1>4, <2>1, <2>2 DEF ConsoleAnswers, JoinArrives, PostArrives
<1>5. QED
  BY <1>1, <1>2, <1>3, <1>4 DEF ConsoleNext

LEMMA ConsoleStepIsStep ==
  ASSUME ConsoleTypeOK, Payloads, [ConsoleNext]_systemVars
  PROVE  [Next]_vars
BY ConsoleStepSubscribes DEF OnlySubscribes, Next, SocketEvent

\* Messages are added to what a socket was sent and never taken away.
LEMMA SentIsKept ==
  ASSUME TypeOK, [Next]_vars, NEW s \in Sockets
  PROVE  Len(sent[s]) \in Nat /\ Len(sent'[s]) \in Nat /\ Len(sent[s]) <= Len(sent'[s])
<1>1. sent[s] \in Seq(MessagesOf) /\ sent \in [Sockets -> Seq(MessagesOf)]
  BY DEF TypeOK
<1>2. CASE sent' = sent
  BY <1>1, <1>2
<1>3. ASSUME NEW m \in Seq(MessagesOf), sent'[s] = sent[s] \/ sent'[s] = sent[s] \o m
      PROVE  Len(sent[s]) \in Nat /\ Len(sent'[s]) \in Nat /\ Len(sent[s]) <= Len(sent'[s])
  BY <1>1, <1>3
<1>4. ASSUME NEW r \in Sockets, NEW message \in MessagesOf, SendWs(r, message)
      PROVE  Len(sent[s]) \in Nat /\ Len(sent'[s]) \in Nat /\ Len(sent[s]) <= Len(sent'[s])
  BY <1>1, <1>4 DEF SendWs
<1>5. ASSUME NEW g \in Games, NEW v \in 1 .. MaxVersion, AcceptCommand(g, v)
      PROVE  Len(sent[s]) \in Nat /\ Len(sent'[s]) \in Nat /\ Len(sent[s]) <= Len(sent'[s])
  <2>1. Events(g, games[g], v) \in MessagesOf /\ Snapshot(g, v) \in MessagesOf
    BY DEF Events, Snapshot, MessagesOf, TypeOK
  <2>2. GameUpdate(g, games[g], v) \in Seq(MessagesOf)
    BY <2>1 DEF GameUpdate
  <2>3. sent'[s] = sent[s] \/ sent'[s] = sent[s] \o GameUpdate(g, games[g], v)
    BY <1>5 DEF AcceptCommand, Publish
  <2>4. QED
    BY <1>3, <2>2, <2>3
<1>6. CASE SubscriptionLoaded
  <2>1. Snapshot(Head(jobs).game, Head(jobs).version) \in MessagesOf /\ Head(jobs).socket \in Sockets
    BY <1>6, HeadOfJobs DEF SubscriptionLoaded, Snapshot, MessagesOf
  <2>2. \/ SendWs(Head(jobs).socket, Error("GAME_NOT_FOUND"))
        \/ SendWs(Head(jobs).socket, Snapshot(Head(jobs).game, Head(jobs).version))
    BY <1>6 DEF SubscriptionLoaded
  <2>3. QED
    BY <1>4, <2>1, <2>2, ErrorIsMessage
<1>7. ASSUME NEW r \in Sockets, InvalidMessage(r)
      PROVE  Len(sent[s]) \in Nat /\ Len(sent'[s]) \in Nat /\ Len(sent[s]) <= Len(sent'[s])
  BY <1>4, <1>7, ErrorIsMessage DEF InvalidMessage
<1>8. \/ sent' = sent
      \/ \E g \in Games, v \in 1 .. MaxVersion : AcceptCommand(g, v)
      \/ SubscriptionLoaded
      \/ \E r \in Sockets : InvalidMessage(r)
  BY DEF Next, HttpRequest, CreateGame, SocketEvent, Connect, BrokenFrame, Closed, SubscribeGame,
     UnsubscribeGame, LoopStep, EndOfChunk, Lifecycle, Start, Stop, SocketsGone, Stopped,
     HttpConnection, HttpOpens, HttpEnds, vars
<1>9. QED
  BY <1>2, <1>5, <1>6, <1>7, <1>8

-----------------------------------------------------------------------------
(* The handle, the label and the sockets.                                  *)

HandleTypes ==
  /\ ready \in [Sockets -> ReadyStates]
  /\ current \in Sockets \cup {NoSocket} /\ closing \subseteq Sockets
  /\ label \in {"disconnected", "connecting", "connected"}
HandleInv == HandleTypes /\ NeverFalselyConnected /\ OneSocketAtATime

LEMMA EnsuredHandle ==
  ASSUME HandleInv, NEW payloads, EnsureSocket(payloads), UNCHANGED closing
  PROVE  HandleInv'
<1>1. CASE UNCHANGED <<ready, current, label>>
  BY <1>1 DEF HandleInv, HandleTypes, NeverFalselyConnected, OneSocketAtATime
<1>2. CASE current = NoSocket /\ \E s \in Sockets : ready[s] = "none"
  <2>1. /\ current' \in Sockets /\ ready' = [ready EXCEPT ![current'] = "connecting"]
        /\ label' = "connecting"
    BY <1>2 DEF EnsureSocket, ConnectGameSocket
  <2>2. \A s \in Sockets : ready[s] \notin {"connecting", "open"}
    BY <1>2, RuntimeAssumption DEF HandleInv, OneSocketAtATime
  <2>3. QED
    BY <2>1, <2>2 DEF HandleInv, HandleTypes, NeverFalselyConnected, OneSocketAtATime, ReadyStates
<1>3. QED
  BY <1>1, <1>2 DEF EnsureSocket

LEMMA HandleKept ==
  ASSUME HandleInv, [ConsoleNext]_systemVars
  PROVE  HandleInv'
<1>1. CASE UNCHANGED <<ready, current, closing, label>>
  BY <1>1 DEF HandleInv, HandleTypes, NeverFalselyConnected, OneSocketAtATime
<1>2. CASE PressConnect
  BY <1>2, EnsuredHandle DEF PressConnect
<1>3. CASE ChangeUser
  <2>1. current \in Sockets
    BY <1>3 DEF ChangeUser, HandleInv, HandleTypes
  <2>2. QED
    BY <1>3, <2>1 DEF ChangeUser, HandleClosed, HandleInv, HandleTypes, NeverFalselyConnected,
       OneSocketAtATime, ReadyStates
<1>4. ASSUME NEW s \in Sockets, OpenEvent(s) PROVE HandleInv'
  BY <1>4, RuntimeAssumption DEF OpenEvent, SocketOpens, HandleInv, HandleTypes,
     NeverFalselyConnected, OneSocketAtATime, ReadyStates
<1>5. ASSUME NEW s \in Sockets, BreakEvent(s) PROVE HandleInv'
  BY <1>5 DEF BreakEvent, SocketCloses, LabelAfterClose, HandleInv, HandleTypes,
     NeverFalselyConnected, OneSocketAtATime, ReadyStates
<1>6. ASSUME NEW s \in Sockets, CloseEvent(s) PROVE HandleInv'
  BY <1>6 DEF CloseEvent, clientVars, LabelAfterClose, HandleInv, HandleTypes,
     NeverFalselyConnected, OneSocketAtATime
<1>7. ASSUME NEW i \in DOMAIN joins, JoinArrives(i) PROVE HandleInv'
  <2>1. CASE EnsureSocket(<<Subscribe(joins[i].game)>>)
    BY <1>7, <2>1, EnsuredHandle DEF JoinArrives
  <2>2. QED
    BY <1>1, <1>7, <2>1 DEF JoinArrives
<1>8. QED
  BY <1>1, <1>2, <1>3, <1>4, <1>5, <1>6, <1>7
  DEF ConsoleNext, Person, ConsoleSubmitCommand, AskForGame, ConsoleServerStep, ServerConnects,
      ServerReceives, SocketEnds, ServerSeesClose, SocketEvents, ConsoleMessage, MessageEvent,
      ConsoleAnswers, ServeJoin, ServePost, PostArrives, systemVars, clientVars, consoleVars

-----------------------------------------------------------------------------
(* What the page sends, asks for and shows.                                *)

LEMMA SentPayload ==
  ASSUME Payloads, NEW payload \in Subscriptions, NEW s \in Sockets, Send(s, payload)
  PROVE  Payloads'
<1>1. /\ Append(requests[s], payload) \in Seq(Subscriptions)
      /\ Append(queued[s], payload) \in Seq(Subscriptions)
  BY DEF Payloads
<1>2. QED
  BY <1>1 DEF Payloads, Send

LEMMA EnsuredPayloads ==
  ASSUME HandleTypes, Payloads, NEW payloads, EnsureSocket(payloads),
         payloads = <<>> \/ \E g \in Games : payloads = <<Subscribe(g)>>
  PROVE  Payloads'
<1>1. \A g \in Games : Subscribe(g) \in Subscriptions
  BY DEF Subscribe, Subscriptions
<1>2. payloads \in Seq(Subscriptions) /\ (payloads # <<>> => Head(payloads) \in Subscriptions)
  <2>1. CASE payloads = <<>>
    BY <2>1
  <2>2. ASSUME NEW p \in Subscriptions, payloads = <<p>>
        PROVE  payloads \in Seq(Subscriptions) /\ Head(payloads) \in Subscriptions
    BY <2>2
  <2>3. QED
    BY <1>1, <2>1, <2>2
<1>3. CASE current # NoSocket /\ payloads # <<>>
  <2>1. current \in Sockets /\ (Send(current, Head(payloads)) \/ UNCHANGED <<requests, queued>>)
    BY <1>3 DEF EnsureSocket, HandleTypes
  <2>2. CASE UNCHANGED <<requests, queued>>
    BY <2>2 DEF Payloads
  <2>3. QED
    BY <1>2, <1>3, <2>1, <2>2, SentPayload
<1>4. CASE current # NoSocket /\ payloads = <<>>
  BY <1>4 DEF EnsureSocket, Payloads
<1>5. CASE current = NoSocket
  BY <1>2, <1>5 DEF EnsureSocket, ConnectGameSocket, Payloads
<1>6. QED
  BY <1>3, <1>4, <1>5

LEMMA PayloadsKept ==
  ASSUME ConsoleTypeOK, HandleTypes, Payloads, [ConsoleNext]_systemVars
  PROVE  Payloads'
<1>1. CASE UNCHANGED <<queued, requests>>
  BY <1>1 DEF Payloads
<1>2. CASE PressConnect
  BY <1>2, EnsuredPayloads DEF PressConnect
<1>3. ASSUME NEW s \in Sockets, OpenEvent(s) PROVE Payloads'
  <2>1. requests[s] \o queued[s] \in Seq(Subscriptions) /\ <<>> \in Seq(Subscriptions)
    BY DEF Payloads
  <2>2. QED
    BY <1>3, <2>1 DEF OpenEvent, SocketOpens, Payloads
<1>4. ASSUME NEW s \in Sockets, ServerReceives(s) PROVE Payloads'
  <2>1. Tail(requests[s]) \in Seq(Subscriptions)
    BY <1>4 DEF Payloads, ServerReceives
  <2>2. QED
    BY <1>4, <2>1 DEF ServerReceives, Payloads
<1>5. ASSUME NEW s \in Sockets, ServerSeesClose(s) PROVE Payloads'
  <2>1. <<>> \in Seq(Subscriptions)
    OBVIOUS
  <2>2. QED
    BY <1>5, <2>1 DEF ServerSeesClose, Payloads
<1>6. ASSUME NEW i \in DOMAIN joins, JoinArrives(i) PROVE Payloads'
  <2>1. joins[i].game \in Games
    BY JoinsAreTyped DEF ConsoleTypeOK
  <2>2. CASE EnsureSocket(<<Subscribe(joins[i].game)>>)
    BY <2>1, <2>2, EnsuredPayloads
  <2>3. QED
    BY <1>1, <1>6, <2>2 DEF JoinArrives
<1>7. QED
  BY <1>1, <1>2, <1>3, <1>4, <1>5, <1>6
  DEF ConsoleNext, Person, ChangeUser, ConsoleSubmitCommand, AskForGame, ConsoleServerStep,
      ServerConnects, SocketEnds, SocketEvents, BreakEvent, SocketCloses, CloseEvent,
      ConsoleMessage, MessageEvent, ConsoleAnswers, ServeJoin, ServePost, PostArrives,
      systemVars, clientVars, consoleVars

\* A record of a sequence is replaced by another.
LEMMA ReplacedElement ==
  ASSUME NEW V, NEW q \in Seq(V), NEW i \in DOMAIN q, NEW e \in V
  PROVE  [q EXCEPT ![i] = e] \in Seq(V)
<1>1. Len(q) \in Nat /\ DOMAIN q = 1 .. Len(q) /\ q \in [1 .. Len(q) -> V]
  OBVIOUS
<1>2. PICK n \in Nat : DOMAIN q = 1 .. n /\ q \in [1 .. n -> V]
  BY <1>1
<1>3. [q EXCEPT ![i] = e] \in [1 .. n -> V]
  BY <1>2
<1>4. QED
  BY <1>3

RequestTypes ==
  /\ joins \in Seq(JoinsOf) /\ posts \in Seq(PostsOf)
  /\ active \in Games \cup {NoGame}
  /\ state \in [game : Games \cup {NoGame}, version : Nat] /\ ShownIsAGame

LEMMA JoinsKept ==
  ASSUME ConsoleTypeOK, RequestTypes, [ConsoleNext]_systemVars
  PROVE  joins' \in Seq(JoinsOf)
<1>1. CASE UNCHANGED joins
  BY <1>1 DEF RequestTypes
<1>2. ASSUME NEW g \in Games, AskForGame("join", g) \/ AskForGame("create", g)
      PROVE  joins' \in Seq(JoinsOf)
  <2>1. \A kind \in {"join", "create"} :
          [kind |-> kind, game |-> g, at |-> "asked", version |-> 0] \in JoinsOf
    BY DEF JoinsOf
  <2>2. PICK kind \in {"join", "create"} : AskForGame(kind, g)
    BY <1>2
  <2>3. joins' = Append(joins, [kind |-> kind, game |-> g, at |-> "asked", version |-> 0])
    BY <2>2 DEF AskForGame
  <2>4. QED
    BY <2>1, <2>3 DEF RequestTypes
<1>3. ASSUME NEW i \in DOMAIN joins, NEW v \in Nat, Answered(i, v)
      PROVE  joins' \in Seq(JoinsOf)
  <2>1. joins[i] \in JoinsOf
    BY JoinsAreTyped DEF RequestTypes
  <2>2. [joins[i] EXCEPT !.at = "answered", !.version = v] \in JoinsOf
    BY <2>1 DEF JoinsOf
  <2>3. joins' = [joins EXCEPT ![i] = [joins[i] EXCEPT !.at = "answered", !.version = v]]
    BY <1>3 DEF Answered
  <2>4. QED
    BY <2>2, <2>3, ReplacedElement DEF RequestTypes
<1>4. ASSUME NEW i \in DOMAIN joins, ServeJoin(i) PROVE joins' \in Seq(JoinsOf)
  <2>1. joins[i].game \in Games
    BY JoinsAreTyped DEF RequestTypes
  <2>2. games[joins[i].game] \in Nat
    BY <2>1 DEF ConsoleTypeOK, ClientTypeOK, TypeOK
  <2>3. QED
    BY <1>3, <1>4, <2>2 DEF ServeJoin
<1>5. ASSUME NEW i \in DOMAIN joins, JoinArrives(i) PROVE joins' \in Seq(JoinsOf)
  <2>1. joins[i] \in JoinsOf
    BY JoinsAreTyped DEF RequestTypes
  <2>2. [joins[i] EXCEPT !.at = "done"] \in JoinsOf
    BY <2>1 DEF JoinsOf
  <2>3. joins' = [joins EXCEPT ![i] = [joins[i] EXCEPT !.at = "done"]]
    BY <1>5 DEF JoinArrives
  <2>4. QED
    BY <2>2, <2>3, ReplacedElement DEF RequestTypes
<1>6. QED
  BY <1>1, <1>2, <1>4, <1>5
  DEF ConsoleNext, Person, PressConnect, ChangeUser, ConsoleSubmitCommand, ConsoleServerStep,
      SocketEnds, SocketEvents, OpenEvent, BreakEvent, CloseEvent, ConsoleMessage,
      ConsoleAnswers, ServePost, PostArrives, systemVars, consoleVars

LEMMA PostsKept ==
  ASSUME ConsoleTypeOK, RequestTypes, [ConsoleNext]_systemVars
  PROVE  posts' \in Seq(PostsOf)
<1>1. CASE UNCHANGED posts
  BY <1>1 DEF RequestTypes
<1>2. CASE ConsoleSubmitCommand
  <2>1. /\ active \in Games /\ state.game \in Games /\ state.version \in Nat
    BY <1>2 DEF ConsoleSubmitCommand, RequestTypes, ShownIsAGame
  <2> DEFINE post == [path |-> active, game |-> state.game, expected |-> state.version,
                      outcome |-> "none", version |-> 0, waiting |-> TRUE]
  <2>2. post \in PostsOf
    BY <2>1 DEF PostsOf
  <2>3. posts' = Append(posts, post)
    BY <1>2 DEF ConsoleSubmitCommand
  <2> HIDE DEF post
  <2>4. QED
    BY <2>2, <2>3 DEF RequestTypes
<1>3. ASSUME NEW i \in DOMAIN posts, ServePost(i) PROVE posts' \in Seq(PostsOf)
  <2>1. posts[i] \in PostsOf
    BY PostsAreTyped DEF RequestTypes
  <2>2. ASSUME NEW v \in 1 .. MaxVersion,
               posts' = [posts EXCEPT ![i].outcome = "accepted", ![i].version = v]
        PROVE  posts' \in Seq(PostsOf)
    <3>1. [posts[i] EXCEPT !.outcome = "accepted", !.version = v] \in PostsOf
      <4>1. v \in Nat
        BY RuntimeAssumption
      <4>2. QED
        BY <2>1, <4>1 DEF PostsOf
    <3>2. posts' = [posts EXCEPT ![i] = [posts[i] EXCEPT !.outcome = "accepted", !.version = v]]
      BY <2>2
    <3>3. QED
      BY <3>1, <3>2, ReplacedElement DEF RequestTypes
  <2>3. ASSUME NEW o \in {"rejected", "mismatch"}, posts' = [posts EXCEPT ![i].outcome = o]
        PROVE  posts' \in Seq(PostsOf)
    <3>1. [posts[i] EXCEPT !.outcome = o] \in PostsOf
      BY <2>1 DEF PostsOf
    <3>2. posts' = [posts EXCEPT ![i] = [posts[i] EXCEPT !.outcome = o]]
      BY <2>3
    <3>3. QED
      BY <3>1, <3>2, ReplacedElement DEF RequestTypes
  <2>4. QED
    BY <1>3, <2>2, <2>3 DEF ServePost
<1>4. ASSUME NEW i \in DOMAIN posts, PostArrives(i) PROVE posts' \in Seq(PostsOf)
  <2>1. posts[i] \in PostsOf
    BY PostsAreTyped DEF RequestTypes
  <2>2. [posts[i] EXCEPT !.waiting = FALSE] \in PostsOf
    BY <2>1 DEF PostsOf
  <2>3. posts' = [posts EXCEPT ![i] = [posts[i] EXCEPT !.waiting = FALSE]]
    BY <1>4 DEF PostArrives
  <2>4. QED
    BY <2>2, <2>3, ReplacedElement DEF RequestTypes
<1>5. QED
  BY <1>1, <1>2, <1>3, <1>4
  DEF ConsoleNext, Person, PressConnect, ChangeUser, AskForGame, ConsoleServerStep,
      SocketEnds, SocketEvents, OpenEvent, BreakEvent, CloseEvent, ConsoleMessage,
      ConsoleAnswers, ServeJoin, JoinArrives, systemVars, consoleVars

LEMMA ShownKept ==
  ASSUME ConsoleTypeOK, RequestTypes, [ConsoleNext]_systemVars
  PROVE  /\ active' \in Games \cup {NoGame}
         /\ state' \in [game : Games \cup {NoGame}, version : Nat] /\ ShownIsAGame'
<1> DEFINE Goal == /\ active' \in Games \cup {NoGame}
                   /\ state' \in [game : Games \cup {NoGame}, version : Nat] /\ ShownIsAGame'
<1>1. CASE UNCHANGED <<active, state>>
  BY <1>1 DEF RequestTypes, ShownIsAGame
<1>2. ASSUME NEW g \in Games, NEW v \in Nat, state' = [game |-> g, version |-> v],
             active' \in {active, g}
      PROVE  Goal
  BY <1>2 DEF RequestTypes, ShownIsAGame
<1>3. ASSUME NEW s \in Sockets, ConsoleMessage(s) PROVE Goal
  <2>1. CASE Arriving(s).type = "GAME_SNAPSHOT"
    <3>1. sent[s] \in Seq(MessagesOf) /\ read[s] + 1 \in DOMAIN sent[s]
      BY <1>3 DEF ConsoleMessage, MessageEvent, ConsoleTypeOK, ClientTypeOK, TypeOK
    <3>2. sent[s][read[s] + 1] \in MessagesOf
      BY <3>1
    <3>3. Arriving(s).game \in Games /\ Arriving(s).version \in Nat
      BY <2>1, <3>2 DEF Arriving, MessagesOf
    <3>4. QED
      BY <1>2, <1>3, <2>1, <3>3 DEF ConsoleMessage
  <2>2. QED
    BY <1>1, <1>3, <2>1 DEF ConsoleMessage
<1>4. ASSUME NEW i \in DOMAIN joins, JoinArrives(i) PROVE Goal
  <2>1. joins[i].game \in Games /\ joins[i].version \in Nat
    BY JoinsAreTyped DEF RequestTypes
  <2>2. QED
    BY <1>1, <1>2, <1>4, <2>1 DEF JoinArrives
<1>5. ASSUME NEW i \in DOMAIN posts, PostArrives(i) PROVE Goal
  <2>1. posts[i].game \in Games /\ posts[i].version \in Nat
    BY PostsAreTyped DEF RequestTypes
  <2>2. QED
    BY <1>1, <1>2, <1>5, <2>1 DEF PostArrives
<1>6. QED
  BY <1>1, <1>3, <1>4, <1>5
  DEF ConsoleNext, Person, PressConnect, ChangeUser, AskForGame, ConsoleSubmitCommand,
      ConsoleServerStep, SocketEnds, SocketEvents, OpenEvent, BreakEvent, CloseEvent,
      ConsoleAnswers, ServeJoin, ServePost, systemVars, consoleVars

LEMMA HistoryKept ==
  ASSUME ConsoleTypeOK, [ConsoleNext]_systemVars
  PROVE  pressed' \in BOOLEAN /\ asked' \subseteq Games
<1>1. pressed \in BOOLEAN /\ asked \subseteq Games
  BY DEF ConsoleTypeOK
<1>2. \A i \in DOMAIN joins : joins[i].game \in Games
  BY JoinsAreTyped DEF ConsoleTypeOK
<1>3. pressed' \in {pressed, TRUE, FALSE}
  BY DEF ConsoleNext, Person, PressConnect, ChangeUser, AskForGame, ConsoleSubmitCommand,
      ConsoleServerStep, SocketEnds, SocketEvents, OpenEvent, BreakEvent, CloseEvent,
      ConsoleMessage, ConsoleAnswers, ServeJoin, JoinArrives, ServePost, PostArrives,
      systemVars, consoleVars
<1>4. asked' \in {asked, {}} \/ \E i \in DOMAIN joins : asked' = asked \cup {joins[i].game}
  BY DEF ConsoleNext, Person, PressConnect, ChangeUser, AskForGame, ConsoleSubmitCommand,
      ConsoleServerStep, SocketEnds, SocketEvents, OpenEvent, BreakEvent, CloseEvent,
      ConsoleMessage, ConsoleAnswers, ServeJoin, JoinArrives, ServePost, PostArrives,
      systemVars, consoleVars
<1>5. QED
  BY <1>1, <1>2, <1>3, <1>4

LEMMA ReadKept ==
  ASSUME ConsoleTypeOK, Payloads, read \in [Sockets -> Nat], [ConsoleNext]_systemVars
  PROVE  read' \in [Sockets -> Nat] /\ \A s \in Sockets : read'[s] \in 0 .. Len(sent'[s])
<1>1. TypeOK /\ \A s \in Sockets : read[s] \in 0 .. Len(sent[s])
  BY DEF ConsoleTypeOK, ClientTypeOK
<1>2. \A s \in Sockets :
        Len(sent[s]) \in Nat /\ Len(sent'[s]) \in Nat /\ Len(sent[s]) <= Len(sent'[s])
  BY <1>1, ConsoleStepIsStep, SentIsKept
<1>3. CASE UNCHANGED read
  BY <1>1, <1>2, <1>3
<1>4. ASSUME NEW r \in Sockets, ConsoleMessage(r)
      PROVE  read' \in [Sockets -> Nat] /\ \A s \in Sockets : read'[s] \in 0 .. Len(sent'[s])
  <2>1. read' = [read EXCEPT ![r] = read[r] + 1] /\ read[r] < Len(sent[r])
    BY <1>4 DEF ConsoleMessage, MessageEvent
  <2>2. read' \in [Sockets -> Nat]
    BY <2>1
  <2>3. \A s \in Sockets : read'[s] = IF s = r THEN read[s] + 1 ELSE read[s]
    BY <2>1
  <2>4. \A s \in Sockets : read'[s] \in 0 .. Len(sent[s])
    BY <1>1, <1>2, <2>1, <2>3
  <2>5. QED
    BY <1>2, <2>2, <2>4
<1>5. QED
  BY <1>3, <1>4
  DEF ConsoleNext, Person, PressConnect, ChangeUser, AskForGame, ConsoleSubmitCommand,
      ConsoleServerStep, ServerConnects, ServerReceives, SocketEnds, ServerSeesClose, SocketEvents,
      OpenEvent, SocketOpens, BreakEvent, SocketCloses, CloseEvent, ConsoleAnswers, ServeJoin,
      JoinArrives, ServePost, PostArrives, systemVars, clientVars

-----------------------------------------------------------------------------

\* The types of the page, those of the server apart.
ConsolePageInv ==
  HandleInv /\ Payloads /\ RequestTypes /\ pressed \in BOOLEAN /\ asked \subseteq Games
  /\ read \in [Sockets -> Nat] /\ \A s \in Sockets : read[s] \in 0 .. Len(sent[s])

LEMMA ConsoleTypes ==
  ASSUME TypeOK, ConsolePageInv
  PROVE  ConsoleTypeOK
<1> DEFINE Requests == [type : {"SUBSCRIBE_GAME", "UNSUBSCRIBE_GAME"}, game : Games]
<1>1. Seq(Subscriptions) \subseteq Seq(Requests)
  <2>1. Subscriptions \subseteq Requests
    BY DEF Subscriptions
  <2> HIDE DEF Requests
  <2>2. QED
    BY <2>1
<1>2. queued \in [Sockets -> Seq(Requests)] /\ requests \in [Sockets -> Seq(Requests)]
  BY <1>1 DEF ConsolePageInv, Payloads
<1>3. QED
  BY <1>2 DEF ConsolePageInv, HandleInv, HandleTypes, RequestTypes, ConsoleTypeOK, ClientTypeOK,
     ReadyStates

LEMMA ConsoleInvHolds ==
  ConsoleInit /\ [][ConsoleNext]_systemVars
    => Init /\ [][OnlySubscribes]_vars /\ [](SubscriptionInv /\ ConsolePageInv)
<1>1. ConsoleInit => SubscriptionInv /\ ConsolePageInv /\ Init
  <2> SUFFICES ASSUME ConsoleInit PROVE SubscriptionInv /\ ConsolePageInv /\ Init
    OBVIOUS
  <2>1. Init
    BY DEF ConsoleInit, ClientInit
  <2>2. SubscriptionInv
    BY <2>1, SubscriptionInvStarts
  <2>3. HandleInv
    BY DEF ConsoleInit, ClientInit, HandleInv, HandleTypes, NeverFalselyConnected,
       OneSocketAtATime, ReadyStates
  <2>4. Payloads /\ RequestTypes
    BY DEF ConsoleInit, ClientInit, Payloads, RequestTypes, ShownIsAGame
  <2>5. read \in [Sockets -> Nat] /\ \A s \in Sockets : read[s] \in 0 .. Len(sent[s])
    BY DEF ConsoleInit, ClientInit, Init
  <2>6. QED
    BY <2>1, <2>2, <2>3, <2>4, <2>5 DEF ConsolePageInv, ConsoleInit
<1>2. SubscriptionInv /\ ConsolePageInv /\ [ConsoleNext]_systemVars
        => ConsolePageInv' /\ [Next]_vars /\ [OnlySubscribes]_vars
  <2> SUFFICES ASSUME SubscriptionInv, ConsolePageInv, [ConsoleNext]_systemVars
               PROVE  ConsolePageInv' /\ [Next]_vars /\ [OnlySubscribes]_vars
    OBVIOUS
  <2>1. ConsoleTypeOK /\ HandleInv /\ HandleTypes /\ Payloads /\ RequestTypes
    BY ConsoleTypes DEF SubscriptionInv, ConsolePageInv, HandleInv
  <2>2. HandleInv' /\ Payloads'
    BY <2>1, HandleKept, PayloadsKept
  <2>3. RequestTypes'
    BY <2>1, JoinsKept, PostsKept, ShownKept DEF RequestTypes
  <2>4. QED
    BY <2>1, <2>2, <2>3, HistoryKept, ReadKept, ConsoleStepIsStep, ConsoleStepSubscribes
       DEF ConsolePageInv
<1>3. QED
  BY <1>1, <1>2, SubscriptionInvKept, PTL

\* The label, the handle and the sockets of the page agree and all is of its
\* type, whatever was closed, joined and answered in whatever order.
THEOREM LabelTellsTheTruth ==
  ConsoleSpec => [](ConsoleTypeOK /\ NeverFalselyConnected /\ OneSocketAtATime)
<1>1. SubscriptionInv /\ ConsolePageInv
        => ConsoleTypeOK /\ NeverFalselyConnected /\ OneSocketAtATime
  BY ConsoleTypes DEF SubscriptionInv, ConsolePageInv, HandleInv
<1>2. QED
  BY <1>1, ConsoleInvHolds, PTL DEF ConsoleSpec

\* And the server follows for its socket the games the page asked for and no
\* other, also when what was queued arrives in one callback.
THEOREM ConsoleIsSafe == ConsoleSpec => []ConsoleInv
<1>1. /\ ConsoleTypeOK /\ NeverFalselyConnected /\ OneSocketAtATime /\ LastRequestWins
      => ConsoleInv
  BY DEF ConsoleInv
<1>2. QED
  BY <1>1, LabelTellsTheTruth, ConsoleInvHolds, SubscribersGetWhatTheyAsked, PTL DEF ConsoleSpec
=============================================================================
