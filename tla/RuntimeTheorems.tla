--------------------------- MODULE RuntimeTheorems ---------------------------
(***************************************************************************)
(* The subscriptions of the runtime for any games, sockets, connections    *)
(* and bounds: the listeners of the registry are exactly those of the      *)
(* subscriptions kept, only live sockets have any, what was asked for is   *)
(* followed, and whoever subscribes is told every state of the game, in    *)
(* order.                                                                  *)
(***************************************************************************)
EXTENDS Runtime, SubsequenceTheorems, TLAPS

-----------------------------------------------------------------------------
(* Types.                                                                  *)

\* A subscription is removed for a game that is watched only.
Watching == \A g \in Games, s \in Sockets : g \in watched[s] => listeners[g][s] > 0

\* The three ways the entries of a socket change.
LEMMA AddSubscriptionType ==
  ASSUME TypeOK, NEW s \in Sockets, NEW g \in Games, AddSubscription(s, g)
  PROVE  /\ watched' \in [Sockets -> SUBSET Games]
         /\ listeners' \in [Games -> [Sockets -> Nat]]
<1>1. listeners[g][s] + 1 \in Nat /\ watched[s] \cup {g} \subseteq Games
  BY DEF TypeOK
<1>2. CASE AddAnyway(s, g)
  BY <1>1, <1>2 DEF TypeOK, AddAnyway
<1>3. CASE UNCHANGED <<watched, listeners>>
  BY <1>3 DEF TypeOK
<1>4. QED
  BY <1>2, <1>3 DEF AddSubscription

LEMMA RemoveSubscriptionType ==
  ASSUME TypeOK, Watching, NEW s \in Sockets, NEW g \in Games, RemoveSubscription(s, g)
  PROVE  /\ watched' \in [Sockets -> SUBSET Games]
         /\ listeners' \in [Games -> [Sockets -> Nat]]
<1>1. CASE s \in known /\ g \in watched[s]
  <2>1. listeners[g][s] - 1 \in Nat
    BY <1>1 DEF TypeOK, Watching
  <2>2. [listeners[g] EXCEPT ![s] = @ - 1] \in [Sockets -> Nat]
    BY <2>1 DEF TypeOK
  <2>3. listeners' = [listeners EXCEPT ![g] = [listeners[g] EXCEPT ![s] = @ - 1]]
    BY <1>1 DEF TypeOK, RemoveSubscription
  <2>4. watched' = [watched EXCEPT ![s] = @ \ {g}]
    BY <1>1 DEF RemoveSubscription
  <2>5. QED
    BY <2>2, <2>3, <2>4 DEF TypeOK
<1>2. CASE ~(s \in known /\ g \in watched[s])
  BY <1>2 DEF TypeOK, RemoveSubscription
<1>3. QED
  BY <1>1, <1>2

LEMMA CleanupType ==
  ASSUME TypeOK, Watching, NEW s \in Sockets, Cleanup(s)
  PROVE  /\ known' \subseteq Sockets
         /\ watched' \in [Sockets -> SUBSET Games]
         /\ listeners' \in [Games -> [Sockets -> Nat]]
<1>1. \A g \in Games : g \in watched[s] => listeners[g][s] - 1 \in Nat
  BY DEF TypeOK, Watching
<1>2. QED
  BY <1>1 DEF TypeOK, Cleanup

LEMMA SendWsType ==
  ASSUME TypeOK, NEW s \in Sockets, NEW message \in MessagesOf, SendWs(s, message)
  PROVE  sent' \in [Sockets -> Seq(MessagesOf)]
BY DEF TypeOK, SendWs

LEMMA PublishType ==
  ASSUME TypeOK, NEW g \in Games, NEW before \in Nat, NEW v \in Nat, Publish(g, before, v)
  PROVE  sent' \in [Sockets -> Seq(MessagesOf)]
<1>1. Events(g, before, v) \in MessagesOf /\ Snapshot(g, v) \in MessagesOf
  BY DEF MessagesOf, Events, Snapshot
<1>2. GameUpdate(g, before, v) \in Seq(MessagesOf)
  BY <1>1 DEF GameUpdate
<1>3. \A s \in Sockets : sent[s] \o GameUpdate(g, before, v) \in Seq(MessagesOf)
  BY <1>2 DEF TypeOK
<1>4. QED
  BY <1>3 DEF TypeOK, Publish

LEMMA ErrorIsMessage ==
  Error("INVALID_WS_MESSAGE") \in MessagesOf /\ Error("GAME_NOT_FOUND") \in MessagesOf
BY DEF Error, MessagesOf

LEMMA HttpRequestType ==
  ASSUME TypeOK, HttpRequest
  PROVE  TypeOK'
<1>1. ASSUME NEW g \in Games, CreateGame(g)
      PROVE  TypeOK'
  BY <1>1 DEF CreateGame, TypeOK, serverVars, subscriptionVars, loopVars
<1>2. ASSUME NEW g \in Games, NEW v \in 1 .. MaxVersion, AcceptCommand(g, v)
      PROVE  TypeOK'
  <2>1. games[g] \in Nat /\ v \in Nat
    BY <1>2 DEF TypeOK
  <2>2. sent' \in [Sockets -> Seq(MessagesOf)]
    BY <1>2, <2>1, PublishType DEF AcceptCommand
  <2>3. QED
    BY <1>2, <2>1, <2>2 DEF AcceptCommand, TypeOK, serverVars, subscriptionVars, loopVars
<1>3. QED
  BY <1>1, <1>2 DEF HttpRequest

LEMMA SocketEventType ==
  ASSUME TypeOK, Watching, NEW s \in Sockets, SocketEvent(s)
  PROVE  TypeOK'
<1>1. CASE Connect(s)
  BY <1>1 DEF Connect, TypeOK, serverVars, loopVars
<1>2. CASE InvalidMessage(s)
  <2>1. sent' \in [Sockets -> Seq(MessagesOf)]
    BY <1>2, ErrorIsMessage, SendWsType DEF InvalidMessage
  <2>2. QED
    BY <1>2, <2>1 DEF InvalidMessage, MessageArrives, TypeOK, serverVars, subscriptionVars
<1>3. CASE BrokenFrame(s)
  <2>1. /\ known' \subseteq Sockets
        /\ watched' \in [Sockets -> SUBSET Games]
        /\ listeners' \in [Games -> [Sockets -> Nat]]
    BY <1>3, CleanupType DEF BrokenFrame
  <2>2. QED
    BY <1>3, <2>1 DEF BrokenFrame, TypeOK, serverVars
<1>4. CASE Closed(s)
  <2>1. /\ known' \subseteq Sockets
        /\ watched' \in [Sockets -> SUBSET Games]
        /\ listeners' \in [Games -> [Sockets -> Nat]]
    BY <1>4, CleanupType DEF Closed
  <2>2. QED
    BY <1>4, <2>1 DEF Closed, TypeOK, serverVars, loopVars
<1>5. ASSUME NEW g \in Games, SubscribeGame(s, g)
      PROVE  TypeOK'
  <2>1. [socket |-> s, game |-> g, version |-> games[g]]
          \in [socket : Sockets, game : Games, version : Nat]
    BY <1>5 DEF TypeOK
  <2>2. QED
    BY <1>5, <2>1 DEF SubscribeGame, MessageArrives, TypeOK, serverVars, subscriptionVars
<1>6. ASSUME NEW g \in Games, UnsubscribeGame(s, g)
      PROVE  TypeOK'
  <2>1. /\ watched' \in [Sockets -> SUBSET Games]
        /\ listeners' \in [Games -> [Sockets -> Nat]]
    BY <1>6, RemoveSubscriptionType DEF UnsubscribeGame
  <2>2. QED
    BY <1>6, <2>1 DEF UnsubscribeGame, MessageArrives, TypeOK, serverVars
<1>7. QED
  BY <1>1, <1>2, <1>3, <1>4, <1>5, <1>6 DEF SocketEvent

LEMMA HeadOfJobs ==
  ASSUME TypeOK, jobs # <<>>
  PROVE  /\ Head(jobs).socket \in Sockets /\ Head(jobs).game \in Games
         /\ Head(jobs).version \in Nat
         /\ Tail(jobs) \in Seq([socket : Sockets, game : Games, version : Nat])
<1> DEFINE J == [socket : Sockets, game : Games, version : Nat]
<1>1. jobs \in Seq(J)
  BY DEF TypeOK
<1> HIDE DEF J
<1>2. Head(jobs) \in J /\ Tail(jobs) \in Seq(J)
  BY <1>1
<1>3. QED
  BY <1>2 DEF J

LEMMA LoopStepType ==
  ASSUME TypeOK, LoopStep
  PROVE  TypeOK'
<1>1. CASE EndOfChunk
  BY <1>1 DEF EndOfChunk, TypeOK, serverVars, subscriptionVars
<1>2. CASE SubscriptionLoaded
  <2> DEFINE s == Head(jobs).socket
             g == Head(jobs).game
             v == Head(jobs).version
  <2>1. /\ s \in Sockets /\ g \in Games /\ v \in Nat
        /\ Tail(jobs) \in Seq([socket : Sockets, game : Games, version : Nat])
    BY <1>2, HeadOfJobs DEF SubscriptionLoaded
  <2>2. Snapshot(g, v) \in MessagesOf
    BY <2>1 DEF Snapshot, MessagesOf
  <2> HIDE DEF s, g, v
  <2>3. SendWs(s, Error("GAME_NOT_FOUND")) \/ SendWs(s, Snapshot(g, v))
    BY <1>2 DEF SubscriptionLoaded, s, g, v
  <2>4. sent' \in [Sockets -> Seq(MessagesOf)]
    BY <2>1, <2>2, <2>3, ErrorIsMessage, SendWsType
  <2>5. AddSubscription(s, g) \/ UNCHANGED <<watched, listeners>>
    BY <1>2 DEF SubscriptionLoaded, s, g
  <2>6. /\ watched' \in [Sockets -> SUBSET Games]
        /\ listeners' \in [Games -> [Sockets -> Nat]]
    BY <2>1, <2>5, AddSubscriptionType DEF TypeOK
  <2>7. jobs' = Tail(jobs)
        /\ UNCHANGED <<games, serverVars, socket, known, emitting, wanted>>
    BY <1>2 DEF SubscriptionLoaded
  <2>8. QED
    BY <2>1, <2>4, <2>6, <2>7 DEF TypeOK, serverVars
<1>3. QED
  BY <1>1, <1>2 DEF LoopStep

\* HTTP connections come and go and touch nothing else.
LEMMA ConnectionsAlone ==
  ASSUME HttpConnection
  PROVE  /\ \E c \in Connections : connected' = connected \cup {c} \/ connected' = connected \ {c}
         /\ UNCHANGED <<games, server, accepting, socket, known, watched, listeners, jobs,
                       emitting, sent, wanted>>
BY DEF HttpConnection, HttpOpens, HttpEnds, subscriptionVars, loopVars

LEMMA LifecycleType ==
  ASSUME TypeOK, Lifecycle
  PROVE  TypeOK'
<1>1. CASE Start
  BY <1>1 DEF Start, TypeOK, subscriptionVars, loopVars
<1>2. CASE Stop
  BY <1>2 DEF Stop, SocketsAskedToClose, TypeOK, subscriptionVars, loopVars
<1>3. CASE SocketsGone \/ Stopped
  BY <1>3 DEF SocketsGone, Stopped, TypeOK, subscriptionVars, loopVars
<1>4. QED
  BY <1>1, <1>2, <1>3 DEF Lifecycle

LEMMA StepType ==
  ASSUME TypeOK, Watching, [Next]_vars
  PROVE  TypeOK'
<1>1. CASE UNCHANGED vars
  BY <1>1 DEF TypeOK, vars, serverVars, subscriptionVars, loopVars
<1>2. CASE HttpConnection
  <2>1. connected' \subseteq Connections
    BY <1>2, ConnectionsAlone DEF TypeOK
  <2>2. QED
    BY <1>2, <2>1, ConnectionsAlone DEF TypeOK
<1>3. QED
  BY <1>1, <1>2, HttpRequestType, SocketEventType, LoopStepType, LifecycleType DEF Next

-----------------------------------------------------------------------------
(* Subscriptions.                                                          *)

\* A socket without an entry watches nothing, and only a socket that is open
\* or closing has an entry.
EntriesAreLive ==
  /\ \A s \in Sockets \ known : watched[s] = {}
  /\ \A s \in known : socket[s] \in {"open", "closing"}

\* Without the server no socket is left.
DownMeansAlone ==
  server \in {"draining", "down"} => \A s \in Sockets : socket[s] \in {"new", "closed"}

SubscriptionInv ==
  TypeOK /\ ListenersMatchSubscriptions /\ EntriesAreLive /\ DownMeansAlone

LEMMA MatchIsWatching ==
  ASSUME ListenersMatchSubscriptions
  PROVE  Watching
BY DEF ListenersMatchSubscriptions, Watching

\* What a step does to the entries: nothing, one subscription more or less, or
\* one socket given up.
EntriesMove ==
  \/ UNCHANGED subscriptionVars
  \/ /\ UNCHANGED known
     /\ \E s \in Sockets, g \in Games : AddSubscription(s, g) \/ RemoveSubscription(s, g)
  \/ \E s \in Sockets : Cleanup(s)
  \/ \E s \in Sockets : known' = known \cup {s} /\ UNCHANGED <<watched, listeners>>

LEMMA StepMovesEntries ==
  ASSUME TypeOK, [Next]_vars
  PROVE  EntriesMove
<1>1. CASE HttpRequest
  BY <1>1 DEF HttpRequest, CreateGame, AcceptCommand, EntriesMove, subscriptionVars
<1>2. ASSUME NEW s \in Sockets, SocketEvent(s)
      PROVE  EntriesMove
  <2>1. CASE Connect(s)
    BY <2>1 DEF Connect, EntriesMove
  <2>2. CASE InvalidMessage(s) \/ \E g \in Games : SubscribeGame(s, g)
    BY <2>2 DEF InvalidMessage, SubscribeGame, EntriesMove
  <2>3. CASE BrokenFrame(s) \/ Closed(s)
    BY <2>3 DEF BrokenFrame, Closed, EntriesMove
  <2>4. CASE \E g \in Games : UnsubscribeGame(s, g)
    BY <2>4 DEF UnsubscribeGame, EntriesMove
  <2>5. QED
    BY <1>2, <2>1, <2>2, <2>3, <2>4 DEF SocketEvent
<1>3. CASE EndOfChunk
  BY <1>3 DEF EndOfChunk, EntriesMove
<1>4. CASE SubscriptionLoaded
  <2>1. Head(jobs).socket \in Sockets /\ Head(jobs).game \in Games
    BY <1>4, HeadOfJobs DEF SubscriptionLoaded
  <2>2. /\ UNCHANGED known
        /\ \/ AddSubscription(Head(jobs).socket, Head(jobs).game)
           \/ UNCHANGED <<watched, listeners>>
    BY <1>4 DEF SubscriptionLoaded
  <2>3. QED
    BY <2>1, <2>2 DEF EntriesMove, subscriptionVars
<1>5. CASE Lifecycle
  BY <1>5 DEF Lifecycle, Start, Stop, SocketsGone, Stopped, EntriesMove
<1>6. CASE UNCHANGED vars
  BY <1>6 DEF vars, EntriesMove
<1>7. CASE HttpConnection
  BY <1>7, ConnectionsAlone DEF EntriesMove, subscriptionVars
<1>8. QED
  BY <1>1, <1>2, <1>3, <1>4, <1>5, <1>6, <1>7 DEF Next, LoopStep

LEMMA EntriesStayMatched ==
  ASSUME TypeOK, TypeOK', ListenersMatchSubscriptions, EntriesAreLive, EntriesMove
  PROVE  /\ ListenersMatchSubscriptions'
         /\ \A s \in Sockets \ known' : watched'[s] = {}
<1> SUFFICES ASSUME NEW r \in Sockets, NEW h \in Games
             PROVE  /\ listeners'[h][r] = IF h \in watched'[r] THEN 1 ELSE 0
                    /\ r \notin known' => h \notin watched'[r]
  BY DEF TypeOK, ListenersMatchSubscriptions
<1>1. /\ listeners[h][r] = IF h \in watched[r] THEN 1 ELSE 0
      /\ r \notin known => h \notin watched[r]
  BY DEF ListenersMatchSubscriptions, EntriesAreLive
<1>2. CASE UNCHANGED subscriptionVars
  BY <1>1, <1>2 DEF subscriptionVars
<1>3. ASSUME NEW s \in Sockets, NEW g \in Games, AddSubscription(s, g), UNCHANGED known
      PROVE  /\ listeners'[h][r] = IF h \in watched'[r] THEN 1 ELSE 0
             /\ r \notin known' => h \notin watched'[r]
  <2>1. CASE AddAnyway(s, g) /\ s \in known /\ g \notin watched[s]
    <3>1. watched'[r] = IF r = s THEN watched[s] \cup {g} ELSE watched[r]
      BY <2>1 DEF TypeOK, AddAnyway
    <3>2. listeners'[h][r] = IF h = g /\ r = s THEN listeners[h][r] + 1 ELSE listeners[h][r]
      BY <2>1 DEF TypeOK, AddAnyway
    <3>3. QED
      BY <1>1, <1>3, <2>1, <3>1, <3>2
  <2>2. CASE UNCHANGED <<watched, listeners>>
    BY <1>1, <1>3, <2>2
  <2>3. QED
    BY <1>3, <2>1, <2>2 DEF AddSubscription
<1>4. ASSUME NEW s \in Sockets, NEW g \in Games, RemoveSubscription(s, g), UNCHANGED known
      PROVE  /\ listeners'[h][r] = IF h \in watched'[r] THEN 1 ELSE 0
             /\ r \notin known' => h \notin watched'[r]
  <2>1. CASE s \in known /\ g \in watched[s]
    <3>1. watched'[r] = IF r = s THEN watched[s] \ {g} ELSE watched[r]
      BY <1>4, <2>1 DEF TypeOK, RemoveSubscription
    <3>2. listeners'[h][r] = IF h = g /\ r = s THEN listeners[h][r] - 1 ELSE listeners[h][r]
      <4>1. listeners' = [listeners EXCEPT ![g] = [listeners[g] EXCEPT ![s] = @ - 1]]
        BY <1>4, <2>1 DEF TypeOK, RemoveSubscription
      <4>2. QED
        BY <4>1 DEF TypeOK
    <3>3. QED
      BY <1>1, <1>4, <2>1, <3>1, <3>2
  <2>2. CASE ~(s \in known /\ g \in watched[s])
    BY <1>1, <1>4, <2>2 DEF RemoveSubscription
  <2>3. QED
    BY <2>1, <2>2
<1>5. ASSUME NEW s \in Sockets, Cleanup(s)
      PROVE  /\ listeners'[h][r] = IF h \in watched'[r] THEN 1 ELSE 0
             /\ r \notin known' => h \notin watched'[r]
  BY <1>1, <1>5 DEF TypeOK, Cleanup
<1>6. ASSUME NEW s \in Sockets, known' = known \cup {s}, UNCHANGED <<watched, listeners>>
      PROVE  /\ listeners'[h][r] = IF h \in watched'[r] THEN 1 ELSE 0
             /\ r \notin known' => h \notin watched'[r]
  BY <1>1, <1>6
<1>7. QED
  BY <1>2, <1>3, <1>4, <1>5, <1>6 DEF EntriesMove

\* A socket loses its entry no later than its life.
LEMMA EntriesStayLive ==
  ASSUME TypeOK, EntriesAreLive, [Next]_vars
  PROVE  \A s \in known' : socket'[s] \in {"open", "closing"}
<1>1. \A s \in known : s \in Sockets /\ socket[s] \in {"open", "closing"}
  BY DEF TypeOK, EntriesAreLive
<1>2. CASE HttpRequest
  BY <1>1, <1>2 DEF HttpRequest, CreateGame, AcceptCommand, subscriptionVars
<1>3. ASSUME NEW s \in Sockets, SocketEvent(s)
      PROVE  \A r \in known' : socket'[r] \in {"open", "closing"}
  <2>1. CASE Connect(s)
    BY <1>1, <2>1 DEF Connect, TypeOK
  <2>2. CASE InvalidMessage(s) \/ \E g \in Games : SubscribeGame(s, g) \/ UnsubscribeGame(s, g)
    BY <1>1, <2>2 DEF InvalidMessage, SubscribeGame, UnsubscribeGame, subscriptionVars
  <2>3. CASE BrokenFrame(s)
    BY <1>1, <2>3 DEF BrokenFrame, Cleanup, TypeOK
  <2>4. CASE Closed(s)
    BY <1>1, <2>4 DEF Closed, Cleanup, TypeOK
  <2>5. QED
    BY <1>3, <2>1, <2>2, <2>3, <2>4 DEF SocketEvent
<1>4. CASE LoopStep
  BY <1>1, <1>4 DEF LoopStep, EndOfChunk, SubscriptionLoaded, subscriptionVars
<1>5. CASE Lifecycle
  BY <1>1, <1>5 DEF Lifecycle, Start, Stop, SocketsGone, Stopped, SocketsAskedToClose,
                   TypeOK, subscriptionVars
<1>6. CASE UNCHANGED vars
  BY <1>1, <1>6 DEF vars, subscriptionVars
<1>7. CASE HttpConnection
  BY <1>1, <1>7, ConnectionsAlone
<1>8. QED
  BY <1>2, <1>3, <1>4, <1>5, <1>6, <1>7 DEF Next

LEMMA DownStaysAlone ==
  ASSUME TypeOK, DownMeansAlone, [Next]_vars
  PROVE  DownMeansAlone'
<1>1. CASE HttpRequest
  BY <1>1 DEF HttpRequest, CreateGame, AcceptCommand, DownMeansAlone, serverVars
<1>2. ASSUME NEW s \in Sockets, SocketEvent(s)
      PROVE  DownMeansAlone'
  <2>1. CASE Connect(s)
    BY <2>1 DEF Connect, DownMeansAlone, serverVars
  <2>2. CASE InvalidMessage(s) \/ \E g \in Games : SubscribeGame(s, g) \/ UnsubscribeGame(s, g)
    BY <2>2 DEF InvalidMessage, SubscribeGame, UnsubscribeGame, DownMeansAlone, serverVars
  <2>3. CASE BrokenFrame(s) \/ Closed(s)
    BY <2>3 DEF BrokenFrame, Closed, DownMeansAlone, serverVars, TypeOK
  <2>4. QED
    BY <1>2, <2>1, <2>2, <2>3 DEF SocketEvent
<1>3. CASE LoopStep
  BY <1>3 DEF LoopStep, EndOfChunk, SubscriptionLoaded, DownMeansAlone, serverVars
<1>4. CASE Lifecycle
  BY <1>4 DEF Lifecycle, Start, Stop, SocketsGone, Stopped, NoClientLeft, DownMeansAlone
<1>5. CASE UNCHANGED vars
  BY <1>5 DEF vars, DownMeansAlone, serverVars
<1>6. CASE HttpConnection
  BY <1>6, ConnectionsAlone DEF DownMeansAlone
<1>7. QED
  BY <1>1, <1>2, <1>3, <1>4, <1>5, <1>6 DEF Next

LEMMA SubscriptionInvStarts ==
  ASSUME Init
  PROVE  SubscriptionInv
<1>1. TypeOK
  BY DEF Init, TypeOK
<1>2. ListenersMatchSubscriptions /\ EntriesAreLive /\ DownMeansAlone
  BY DEF Init, ListenersMatchSubscriptions, EntriesAreLive, DownMeansAlone
<1>3. QED
  BY <1>1, <1>2 DEF SubscriptionInv

LEMMA SubscriptionInvKept ==
  ASSUME SubscriptionInv, [Next]_vars
  PROVE  SubscriptionInv'
<1>1. TypeOK /\ ListenersMatchSubscriptions /\ EntriesAreLive /\ DownMeansAlone
  BY DEF SubscriptionInv
<1>2. TypeOK'
  BY <1>1, MatchIsWatching, StepType
<1>3. EntriesMove
  BY <1>1, StepMovesEntries
<1>4. /\ ListenersMatchSubscriptions'
      /\ \A s \in Sockets \ known' : watched'[s] = {}
  BY <1>1, <1>2, <1>3, EntriesStayMatched
<1>5. EntriesAreLive'
  BY <1>1, <1>4, EntriesStayLive DEF EntriesAreLive
<1>6. DownMeansAlone'
  BY <1>1, DownStaysAlone
<1>7. QED
  BY <1>2, <1>4, <1>5, <1>6 DEF SubscriptionInv

\* Safety needs no fairness, so it also holds of a server used by pages that
\* leave some of its requests unmade.
LEMMA SubscriptionInvHolds == Init /\ [][Next]_vars => []SubscriptionInv
BY SubscriptionInvStarts, SubscriptionInvKept, PTL

\* Every reachable state of the runtime is well typed; no listener count is
\* ever negative, because removeSubscription finds what addSubscription left.
THEOREM RuntimeTypeCorrect == Spec => []TypeOK
<1>1. SubscriptionInv => TypeOK
  BY DEF SubscriptionInv
<1>2. QED
  BY <1>1, SubscriptionInvHolds, PTL DEF Spec

\* The registry has exactly the listeners of the subscriptions kept, however
\* SUBSCRIBE_GAME, UNSUBSCRIBE_GAME and closings overlap.
THEOREM ListenersAreSubscriptions == Spec => []ListenersMatchSubscriptions
<1>1. SubscriptionInv => ListenersMatchSubscriptions
  BY DEF SubscriptionInv
<1>2. QED
  BY <1>1, SubscriptionInvHolds, PTL DEF Spec

\* No subscription outlives its socket, also one that awaited its snapshot
\* while the socket was closed.
THEOREM NothingHeldForClosedSockets == Spec => []ClosedSocketsHoldNothing
<1>1. SubscriptionInv => ClosedSocketsHoldNothing
  BY DEF SubscriptionInv, ListenersMatchSubscriptions, EntriesAreLive, ClosedSocketsHoldNothing
<1>2. QED
  BY <1>1, SubscriptionInvHolds, PTL DEF Spec

\* When stop has finished, no socket is open and the registry has no listener.
THEOREM NothingLeftAfterStop == Spec => []StopLeavesNothing
<1>1. SubscriptionInv => StopLeavesNothing
  <2> SUFFICES ASSUME SubscriptionInv, server = "down", NEW s \in Sockets
               PROVE  /\ socket[s] \in {"new", "closed"}
                      /\ \A g \in Games : listeners[g][s] = 0
    BY DEF StopLeavesNothing
  <2>1. socket[s] \in {"new", "closed"}
    BY DEF SubscriptionInv, DownMeansAlone
  <2>2. s \notin known
    BY <2>1 DEF SubscriptionInv, EntriesAreLive
  <2>3. QED
    BY <2>1, <2>2 DEF SubscriptionInv, ListenersMatchSubscriptions, EntriesAreLive
<1>2. QED
  BY <1>1, SubscriptionInvHolds, PTL DEF Spec

-----------------------------------------------------------------------------
(* What sockets are told.                                                  *)

\* The messages told about a game, one by one.
Continues(told) ==
  \A i \in DOMAIN told : told[i].type = "GAME_EVENTS" =>
    /\ i > 1 /\ told[i - 1].type = "GAME_SNAPSHOT"
    /\ told[i].after = told[i - 1].version
    /\ i < Len(told) /\ told[i + 1].type = "GAME_SNAPSHOT"
    /\ told[i + 1].version = told[i].version

\* Whoever was told anything was told a state last.
EndsWithState(told, states) ==
  told # <<>> => /\ states # <<>> /\ states[Len(states)] = told[Len(told)]
                 /\ told[Len(told)].type = "GAME_SNAPSHOT"

\* Told the newest state.
Newest(told, version) == told # <<>> /\ told[Len(told)].version = version

ToldInOrder == \A s \in Sockets, g \in Games : Continues(Told(s, g))
StateIsLast == \A s \in Sockets, g \in Games : EndsWithState(Told(s, g), Snapshots(s, g))
WatchersKnow ==
  \A s \in Sockets, g \in Games : g \in watched[s] =>
    /\ games[g] > 0
    /\ socket[s] = "open" => Newest(Told(s, g), games[g])

\* A snapshot that a subscription has read stays the newest until it is sent:
\* games move only when the loop is idle.
JobsAreCurrent == \A i \in DOMAIN jobs : jobs[i].version = games[jobs[i].game]

DeliveryInv ==
  SubscriptionInv /\ JobsAreCurrent /\ ToldInOrder /\ StateIsLast /\ WatchersKnow

LEMMA StateContinues ==
  ASSUME NEW V, NEW told \in Seq(V), NEW e \in V, e.type = "GAME_SNAPSHOT", Continues(told)
  PROVE  Continues(Append(told, e))
<1> DEFINE t == Append(told, e)
<1>1. /\ Len(told) \in Nat /\ DOMAIN told = 1 .. Len(told)
      /\ DOMAIN t = 1 .. Len(told) + 1 /\ Len(t) = Len(told) + 1
      /\ t[Len(told) + 1] = e /\ \A i \in 1 .. Len(told) : t[i] = told[i]
  OBVIOUS
<1> HIDE DEF t
<1>2. SUFFICES ASSUME NEW i \in DOMAIN t, t[i].type = "GAME_EVENTS"
               PROVE  /\ i > 1 /\ t[i - 1].type = "GAME_SNAPSHOT"
                      /\ t[i].after = t[i - 1].version
                      /\ i < Len(t) /\ t[i + 1].type = "GAME_SNAPSHOT"
                      /\ t[i + 1].version = t[i].version
  BY DEF Continues, t
<1>3. i \in DOMAIN told /\ told[i] = t[i]
  BY <1>1, <1>2
<1>4. /\ i > 1 /\ told[i - 1].type = "GAME_SNAPSHOT"
      /\ told[i].after = told[i - 1].version
      /\ i < Len(told) /\ told[i + 1].type = "GAME_SNAPSHOT"
      /\ told[i + 1].version = told[i].version
  BY <1>2, <1>3 DEF Continues
<1>5. i - 1 \in 1 .. Len(told) /\ i + 1 \in 1 .. Len(told)
  BY <1>1, <1>3, <1>4
<1>6. QED
  BY <1>1, <1>3, <1>4, <1>5

LEMMA UpdateContinues ==
  ASSUME NEW V, NEW told \in Seq(V), NEW e \in V, NEW n \in V,
         e.type = "GAME_EVENTS", n.type = "GAME_SNAPSHOT", n.version = e.version,
         told # <<>>, told[Len(told)].type = "GAME_SNAPSHOT",
         told[Len(told)].version = e.after, Continues(told)
  PROVE  Continues(Append(Append(told, e), n))
<1> DEFINE t == Append(Append(told, e), n)
           k == Len(told)
<1>1. /\ k \in Nat /\ k > 0 /\ DOMAIN told = 1 .. k
      /\ DOMAIN t = 1 .. k + 2 /\ Len(t) = k + 2
      /\ t[k + 1] = e /\ t[k + 2] = n /\ \A i \in 1 .. k : t[i] = told[i]
  OBVIOUS
<1> HIDE DEF t, k
<1>2. SUFFICES ASSUME NEW i \in DOMAIN t, t[i].type = "GAME_EVENTS"
               PROVE  /\ i > 1 /\ t[i - 1].type = "GAME_SNAPSHOT"
                      /\ t[i].after = t[i - 1].version
                      /\ i < Len(t) /\ t[i + 1].type = "GAME_SNAPSHOT"
                      /\ t[i + 1].version = t[i].version
  BY DEF Continues, t
<1>3. CASE i \in 1 .. k
  <2>1. /\ i > 1 /\ told[i - 1].type = "GAME_SNAPSHOT"
        /\ told[i].after = told[i - 1].version
        /\ i < k /\ told[i + 1].type = "GAME_SNAPSHOT"
        /\ told[i + 1].version = told[i].version
    BY <1>1, <1>2, <1>3 DEF Continues, k
  <2>2. i - 1 \in 1 .. k /\ i + 1 \in 1 .. k
    BY <1>1, <1>3, <2>1
  <2>3. QED
    BY <1>1, <1>3, <2>1, <2>2
<1>4. CASE i = k + 1
  <2>1. i - 1 = k /\ i + 1 = k + 2 /\ k \in 1 .. k
    BY <1>1, <1>4
  <2>2. t[i - 1] = told[k] /\ t[i + 1] = n /\ t[i] = e
    BY <1>1, <1>4, <2>1
  <2>3. QED
    BY <1>1, <1>4, <2>2 DEF k
<1>5. CASE i = k + 2
  BY <1>1, <1>2, <1>5
<1>6. QED
  BY <1>1, <1>3, <1>4, <1>5


\* What a step lets a socket hear about a game: nothing, the state the game is
\* in, or the events and the state after them.
ToldNothing(r, h) ==
  /\ Told(r, h)' = Told(r, h) /\ Snapshots(r, h)' = Snapshots(r, h)
  /\ h \in watched'[r] =>
       /\ games'[h] > 0
       /\ socket'[r] = "open" =>
            h \in watched[r] /\ socket[r] = "open" /\ games'[h] = games[h]
ToldState(r, h) ==
  /\ games'[h] > 0
  /\ Told(r, h)' = Append(Told(r, h), Snapshot(h, games'[h]))
  /\ Snapshots(r, h)' = Append(Snapshots(r, h), Snapshot(h, games'[h]))
ToldUpdate(r, h) ==
  /\ h \in watched[r] /\ socket[r] = "open" /\ games'[h] > 0
  /\ Told(r, h)' = Append(Append(Told(r, h), Events(h, games[h], games'[h])),
                          Snapshot(h, games'[h]))
  /\ Snapshots(r, h)' = Append(Snapshots(r, h), Snapshot(h, games'[h]))
Hears(r, h) == ToldNothing(r, h) \/ ToldState(r, h) \/ ToldUpdate(r, h)

LEMMA KindsOfMessages ==
  ASSUME NEW g \in Games, NEW h \in Games, NEW before \in Nat, NEW v \in Nat
  PROVE  /\ Snapshot(g, v) \in MessagesOf /\ Events(g, before, v) \in MessagesOf
         /\ Snapshot(g, v) \in UpdatesOf(h) <=> g = h
         /\ Snapshot(g, v) \in SnapshotsOf(h) <=> g = h
         /\ Events(g, before, v) \in UpdatesOf(h) <=> g = h
         /\ Events(g, before, v) \notin SnapshotsOf(h)
<1>1. Snapshot(g, v) \in MessagesOf /\ Events(g, before, v) \in MessagesOf
  BY DEF Snapshot, Events, MessagesOf
<1>2. Snapshot(g, v) \in SnapshotsOf(h) <=> g = h
  BY DEF Snapshot, SnapshotsOf
<1>3. Snapshot(g, v) \in UpdatesOf(h) <=> g = h
  BY <1>2 DEF Snapshot, UpdatesOf, SnapshotsOf
<1>4. Events(g, before, v) \notin SnapshotsOf(h)
  BY DEF Events, SnapshotsOf
<1>5. Events(g, before, v) \in UpdatesOf(h) <=> g = h
  BY <1>4 DEF Events, UpdatesOf
<1>6. QED
  BY <1>1, <1>2, <1>3, <1>4, <1>5

LEMMA ErrorsTellNothing ==
  ASSUME NEW h \in Games, NEW code
  PROVE  Error(code) \notin UpdatesOf(h) /\ Error(code) \notin SnapshotsOf(h)
BY DEF Error, UpdatesOf, SnapshotsOf

\* One message more.
LEMMA OneMessage ==
  ASSUME NEW q \in Seq(MessagesOf), NEW m \in MessagesOf, NEW h \in Games
  PROVE  /\ Kept(Append(q, m), UpdatesOf(h)) =
              IF m \in UpdatesOf(h) THEN Append(Kept(q, UpdatesOf(h)), m)
              ELSE Kept(q, UpdatesOf(h))
         /\ Kept(Append(q, m), SnapshotsOf(h)) =
              IF m \in SnapshotsOf(h) THEN Append(Kept(q, SnapshotsOf(h)), m)
              ELSE Kept(q, SnapshotsOf(h))
BY KeptStep

LEMMA SendWsTells ==
  ASSUME TypeOK, NEW s \in Sockets, NEW m \in MessagesOf, SendWs(s, m),
         NEW r \in Sockets, NEW h \in Games
  PROVE  IF r = s /\ socket[s] = "open"
         THEN /\ Told(r, h)' = IF m \in UpdatesOf(h) THEN Append(Told(r, h), m) ELSE Told(r, h)
              /\ Snapshots(r, h)' = IF m \in SnapshotsOf(h) THEN Append(Snapshots(r, h), m)
                                    ELSE Snapshots(r, h)
         ELSE Told(r, h)' = Told(r, h) /\ Snapshots(r, h)' = Snapshots(r, h)
<1>1. sent[r] \in Seq(MessagesOf)
  BY DEF TypeOK
<1>2. sent'[r] = IF r = s /\ socket[s] = "open" THEN Append(sent[r], m) ELSE sent[r]
  BY DEF SendWs, TypeOK
<1>3. CASE r = s /\ socket[s] = "open"
  <2>1. sent'[r] = Append(sent[r], m)
    BY <1>2, <1>3
  <2>2. PICK q \in Seq(MessagesOf) : q = sent[r]
    BY <1>1
  <2>3. /\ Kept(Append(q, m), UpdatesOf(h)) =
             IF m \in UpdatesOf(h) THEN Append(Kept(q, UpdatesOf(h)), m)
             ELSE Kept(q, UpdatesOf(h))
        /\ Kept(Append(q, m), SnapshotsOf(h)) =
             IF m \in SnapshotsOf(h) THEN Append(Kept(q, SnapshotsOf(h)), m)
             ELSE Kept(q, SnapshotsOf(h))
    BY OneMessage
  <2>4. /\ Told(r, h)' = Kept(Append(q, m), UpdatesOf(h))
        /\ Snapshots(r, h)' = Kept(Append(q, m), SnapshotsOf(h))
        /\ Told(r, h) = Kept(q, UpdatesOf(h)) /\ Snapshots(r, h) = Kept(q, SnapshotsOf(h))
    BY <2>1, <2>2 DEF Told, Snapshots
  <2>5. QED
    BY <1>3, <2>3, <2>4
<1>4. CASE ~(r = s /\ socket[s] = "open")
  BY <1>2, <1>4 DEF Told, Snapshots
<1>5. QED
  BY <1>3, <1>4

LEMMA PublishTells ==
  ASSUME TypeOK, NEW g \in Games, NEW b \in Nat, NEW v \in Nat, Publish(g, b, v),
         NEW r \in Sockets, NEW h \in Games
  PROVE  IF h = g /\ listeners[g][r] > 0 /\ socket[r] = "open"
         THEN /\ Told(r, h)' = Append(Append(Told(r, h), Events(h, b, v)), Snapshot(h, v))
              /\ Snapshots(r, h)' = Append(Snapshots(r, h), Snapshot(h, v))
         ELSE Told(r, h)' = Told(r, h) /\ Snapshots(r, h)' = Snapshots(r, h)
<1>1. PICK q \in Seq(MessagesOf) : q = sent[r]
  BY DEF TypeOK
<1>2. PICK e \in MessagesOf, n \in MessagesOf : e = Events(g, b, v) /\ n = Snapshot(g, v)
  BY KindsOfMessages
<1>3. CASE listeners[g][r] > 0 /\ socket[r] = "open"
  <2>1. sent'[r] = q \o <<e, n>>
    BY <1>1, <1>2, <1>3 DEF Publish, GameUpdate
  <2>2. sent'[r] = Append(Append(q, e), n) /\ Append(q, e) \in Seq(MessagesOf)
    BY <2>1
  <2>3. /\ e \in UpdatesOf(h) <=> g = h
        /\ n \in UpdatesOf(h) <=> g = h
        /\ e \notin SnapshotsOf(h)
        /\ n \in SnapshotsOf(h) <=> g = h
    BY <1>2, KindsOfMessages
  <2>4. PICK p \in Seq(MessagesOf) : p = Append(q, e) /\ sent'[r] = Append(p, n)
    BY <2>2
  <2>5. /\ Kept(p, UpdatesOf(h)) =
             IF g = h THEN Append(Kept(q, UpdatesOf(h)), e) ELSE Kept(q, UpdatesOf(h))
        /\ Kept(p, SnapshotsOf(h)) = Kept(q, SnapshotsOf(h))
    BY <2>3, <2>4, OneMessage
  <2>6. /\ Kept(Append(p, n), UpdatesOf(h)) =
             IF g = h THEN Append(Kept(p, UpdatesOf(h)), n) ELSE Kept(p, UpdatesOf(h))
        /\ Kept(Append(p, n), SnapshotsOf(h)) =
             IF g = h THEN Append(Kept(p, SnapshotsOf(h)), n) ELSE Kept(p, SnapshotsOf(h))
    BY <2>3, OneMessage
  <2>7. /\ Kept(sent'[r], UpdatesOf(h)) =
             IF g = h THEN Append(Append(Kept(q, UpdatesOf(h)), e), n) ELSE Kept(q, UpdatesOf(h))
        /\ Kept(sent'[r], SnapshotsOf(h)) =
             IF g = h THEN Append(Kept(q, SnapshotsOf(h)), n) ELSE Kept(q, SnapshotsOf(h))
    BY <2>4, <2>5, <2>6
  <2>8. QED
    BY <1>1, <1>2, <1>3, <2>7 DEF Told, Snapshots
<1>4. CASE ~(listeners[g][r] > 0 /\ socket[r] = "open")
  <2>1. sent'[r] = sent[r]
    BY <1>4 DEF Publish
  <2>2. QED
    BY <1>4, <2>1 DEF Told, Snapshots
<1>5. QED
  BY <1>3, <1>4


LEMMA StepIsHeard ==
  ASSUME SubscriptionInv, JobsAreCurrent, WatchersKnow, [Next]_vars,
         NEW r \in Sockets, NEW h \in Games
  PROVE  Hears(r, h)
<1>1. /\ TypeOK /\ ListenersMatchSubscriptions /\ EntriesAreLive
      /\ games[h] \in Nat
      /\ h \in watched[r] => games[h] > 0
  BY DEF SubscriptionInv, TypeOK, WatchersKnow
\* Nothing is sent, and the entry and the game stay as they are.
<1>2. ASSUME sent' = sent, games' = games, h \in watched'[r] => h \in watched[r],
             h \in watched'[r] /\ socket'[r] = "open" => socket[r] = "open"
      PROVE  Hears(r, h)
  BY <1>1, <1>2 DEF Hears, ToldNothing, Told, Snapshots
<1>3. ASSUME NEW g \in Games, CreateGame(g)
      PROVE  Hears(r, h)
  <2>1. sent' = sent /\ watched' = watched /\ socket' = socket /\ games[g] = 0
        /\ games' = [games EXCEPT ![g] = 1]
    BY <1>3 DEF CreateGame, subscriptionVars
  <2>2. h \in watched'[r] => games'[h] = games[h]
    BY <1>1, <2>1 DEF TypeOK
  <2>3. QED
    BY <1>1, <2>1, <2>2 DEF Hears, ToldNothing, Told, Snapshots
<1>4. ASSUME NEW g \in Games, NEW v \in 1 .. MaxVersion, AcceptCommand(g, v)
      PROVE  Hears(r, h)
  <2>1. /\ games' = [games EXCEPT ![g] = v] /\ Publish(g, games[g], v)
        /\ watched' = watched /\ socket' = socket
    BY <1>4 DEF AcceptCommand, subscriptionVars
  <2>2. v \in Nat /\ v > 0 /\ games[g] \in Nat
    BY <1>1 DEF TypeOK
  <2>3. games'[h] = IF h = g THEN v ELSE games[h]
    BY <1>1, <2>1 DEF TypeOK
  <2>4. listeners[g][r] > 0 <=> g \in watched[r]
    BY <1>1 DEF ListenersMatchSubscriptions
  <2>5. IF h = g /\ listeners[g][r] > 0 /\ socket[r] = "open"
        THEN /\ Told(r, h)' = Append(Append(Told(r, h), Events(h, games[g], v)), Snapshot(h, v))
             /\ Snapshots(r, h)' = Append(Snapshots(r, h), Snapshot(h, v))
        ELSE Told(r, h)' = Told(r, h) /\ Snapshots(r, h)' = Snapshots(r, h)
    BY <1>1, <2>1, <2>2, PublishTells
  <2>6. CASE h = g /\ listeners[g][r] > 0 /\ socket[r] = "open"
    BY <2>2, <2>3, <2>4, <2>5, <2>6 DEF Hears, ToldUpdate
  <2>7. CASE ~(h = g /\ listeners[g][r] > 0 /\ socket[r] = "open")
    BY <1>1, <2>1, <2>2, <2>3, <2>4, <2>5, <2>7 DEF Hears, ToldNothing
  <2>8. QED
    BY <2>6, <2>7
<1>5. ASSUME NEW s \in Sockets, SocketEvent(s)
      PROVE  Hears(r, h)
  <2>1. CASE Connect(s)
    <3>1. s \notin known
      BY <1>1, <2>1 DEF Connect, EntriesAreLive
    <3>2. watched[s] = {}
      BY <1>1, <3>1 DEF EntriesAreLive
    <3>3. QED
      BY <1>1, <1>2, <2>1, <3>2 DEF Connect, TypeOK
  <2>2. CASE InvalidMessage(s)
    <3>1. /\ SendWs(s, Error("INVALID_WS_MESSAGE"))
          /\ watched' = watched /\ socket' = socket /\ games' = games
      BY <2>2 DEF InvalidMessage, subscriptionVars
    <3>2. Told(r, h)' = Told(r, h) /\ Snapshots(r, h)' = Snapshots(r, h)
      BY <1>1, <3>1, ErrorIsMessage, ErrorsTellNothing, SendWsTells
    <3>3. QED
      BY <1>1, <3>1, <3>2 DEF Hears, ToldNothing
  <2>3. CASE BrokenFrame(s) \/ Closed(s)
    BY <1>1, <1>2, <2>3 DEF BrokenFrame, Closed, Cleanup, TypeOK
  <2>4. CASE \E g \in Games : SubscribeGame(s, g)
    BY <1>2, <2>4 DEF SubscribeGame, subscriptionVars
  <2>5. CASE \E g \in Games : UnsubscribeGame(s, g)
    <3>1. PICK g \in Games : UnsubscribeGame(s, g)
      BY <2>5
    <3>2. /\ sent' = sent /\ games' = games /\ socket' = socket
          /\ watched' = [watched EXCEPT ![s] = @ \ {g}] \/ watched' = watched
      BY <3>1 DEF UnsubscribeGame, RemoveSubscription
    <3>3. h \in watched'[r] => h \in watched[r]
      BY <1>1, <3>2 DEF TypeOK
    <3>4. QED
      BY <1>2, <3>2, <3>3
  <2>6. QED
    BY <1>5, <2>1, <2>2, <2>3, <2>4, <2>5 DEF SocketEvent
<1>6. CASE EndOfChunk
  BY <1>2, <1>6 DEF EndOfChunk, subscriptionVars
<1>7. CASE SubscriptionLoaded
  <2> DEFINE job == Head(jobs)
  <2>1. jobs # <<>> /\ socket' = socket /\ games' = games
    BY <1>7 DEF SubscriptionLoaded
  <2>2. PICK s \in Sockets, g \in Games, v \in Nat :
          s = job.socket /\ g = job.game /\ v = job.version
    BY <1>1, <2>1, HeadOfJobs
  <2>3. v = games[g]
    <3>1. 1 \in DOMAIN jobs /\ Head(jobs) = jobs[1]
      BY <1>1, <2>1 DEF TypeOK
    <3>2. QED
      BY <2>2, <3>1 DEF JobsAreCurrent
  <2>4. CASE v = 0
    <3>1. SendWs(s, Error("GAME_NOT_FOUND")) /\ watched' = watched
      BY <1>7, <2>2, <2>4 DEF SubscriptionLoaded
    <3>2. Told(r, h)' = Told(r, h) /\ Snapshots(r, h)' = Snapshots(r, h)
      BY <1>1, <3>1, ErrorIsMessage, ErrorsTellNothing, SendWsTells
    <3>3. QED
      BY <1>1, <2>1, <3>1, <3>2 DEF Hears, ToldNothing
  <2>5. CASE v > 0
    <3>1. SendWs(s, Snapshot(g, v)) /\ AddSubscription(s, g)
      BY <1>7, <2>2, <2>5 DEF SubscriptionLoaded
    <3>2. /\ Snapshot(g, v) \in MessagesOf
          /\ Snapshot(g, v) \in UpdatesOf(h) <=> g = h
          /\ Snapshot(g, v) \in SnapshotsOf(h) <=> g = h
      BY KindsOfMessages
    <3>3. h \in watched'[r] => h \in watched[r] \/ (r = s /\ h = g)
      BY <1>1, <3>1 DEF AddSubscription, AddAnyway, TypeOK
    <3>4. IF r = s /\ socket[s] = "open" /\ g = h
          THEN /\ Told(r, h)' = Append(Told(r, h), Snapshot(g, v))
               /\ Snapshots(r, h)' = Append(Snapshots(r, h), Snapshot(g, v))
          ELSE Told(r, h)' = Told(r, h) /\ Snapshots(r, h)' = Snapshots(r, h)
      BY <1>1, <3>1, <3>2, SendWsTells
    <3>5. CASE r = s /\ socket[s] = "open" /\ g = h
      BY <2>1, <2>3, <2>5, <3>4, <3>5 DEF Hears, ToldState
    <3>6. CASE ~(r = s /\ socket[s] = "open" /\ g = h)
      BY <1>1, <2>1, <2>3, <2>5, <3>3, <3>4, <3>6 DEF Hears, ToldNothing
    <3>7. QED
      BY <3>5, <3>6
  <2>6. QED
    BY <2>4, <2>5
<1>8. CASE Lifecycle
  BY <1>2, <1>8 DEF Lifecycle, Start, Stop, SocketsGone, Stopped, SocketsAskedToClose,
                   TypeOK, subscriptionVars
<1>9. CASE UNCHANGED vars
  BY <1>2, <1>9 DEF vars, subscriptionVars
<1>10. CASE HttpConnection
  BY <1>2, <1>10, ConnectionsAlone
<1>11. QED
  BY <1>3, <1>4, <1>5, <1>6, <1>7, <1>8, <1>9, <1>10 DEF Next, HttpRequest, LoopStep


LEMMA JobsStayCurrent ==
  ASSUME TypeOK, JobsAreCurrent, [Next]_vars
  PROVE  JobsAreCurrent'
<1>1. jobs \in Seq([socket : Sockets, game : Games, version : Nat])
  BY DEF TypeOK
<1>2. ASSUME jobs = <<>>, jobs' = jobs
      PROVE  JobsAreCurrent'
  BY <1>2 DEF JobsAreCurrent
<1>3. ASSUME jobs' = jobs, games' = games
      PROVE  JobsAreCurrent'
  BY <1>3 DEF JobsAreCurrent
<1>4. CASE HttpRequest
  <2>1. jobs = <<>> /\ jobs' = jobs
    BY <1>4 DEF HttpRequest, CreateGame, AcceptCommand, Idle, loopVars
  <2>2. QED
    BY <1>2, <2>1
<1>5. ASSUME NEW s \in Sockets, SocketEvent(s)
      PROVE  JobsAreCurrent'
  <2>1. CASE \E g \in Games : SubscribeGame(s, g)
    <3>1. PICK g \in Games : SubscribeGame(s, g)
      BY <2>1
    <3>2. PICK e : e = [socket |-> s, game |-> g, version |-> games[g]]
      OBVIOUS
    <3>3. jobs' = Append(jobs, e) /\ games' = games
      BY <3>1, <3>2 DEF SubscribeGame
    <3>4. \A i \in DOMAIN jobs' : jobs'[i] = e \/ (i \in DOMAIN jobs /\ jobs'[i] = jobs[i])
      BY <1>1, <3>3
    <3>5. QED
      BY <3>2, <3>3, <3>4 DEF JobsAreCurrent
  <2>2. CASE ~\E g \in Games : SubscribeGame(s, g)
    BY <1>3, <1>5, <2>2 DEF SocketEvent, Connect, InvalidMessage, BrokenFrame, Closed,
                           UnsubscribeGame, loopVars
  <2>3. QED
    BY <2>1, <2>2
<1>6. CASE EndOfChunk
  BY <1>3, <1>6 DEF EndOfChunk
<1>7. CASE SubscriptionLoaded
  <2>1. jobs # <<>> /\ jobs' = Tail(jobs) /\ games' = games
    BY <1>7 DEF SubscriptionLoaded
  <2>2. \A i \in DOMAIN jobs' : i + 1 \in DOMAIN jobs /\ jobs'[i] = jobs[i + 1]
    BY <1>1, <2>1
  <2>3. QED
    BY <2>1, <2>2 DEF JobsAreCurrent
<1>8. CASE Lifecycle \/ UNCHANGED vars
  BY <1>3, <1>8 DEF Lifecycle, Start, Stop, SocketsGone, Stopped, vars, loopVars
<1>9. CASE HttpConnection
  BY <1>3, <1>9, ConnectionsAlone
<1>10. QED
  BY <1>4, <1>5, <1>6, <1>7, <1>8, <1>9 DEF Next, LoopStep

LEMMA ToldType ==
  ASSUME TypeOK, NEW r \in Sockets, NEW h \in Games
  PROVE  Told(r, h) \in Seq(MessagesOf) /\ Snapshots(r, h) \in Seq(MessagesOf)
<1>1. sent[r] \in Seq(MessagesOf)
  BY DEF TypeOK
<1>2. QED
  BY <1>1, KeptType DEF Told, Snapshots

\* What is heard keeps the three facts about a socket and a game.
LEMMA HeardInOrder ==
  ASSUME DeliveryInv, TypeOK', NEW r \in Sockets, NEW h \in Games, Hears(r, h)
  PROVE  /\ Continues(Told(r, h)') /\ EndsWithState(Told(r, h)', Snapshots(r, h)')
         /\ h \in watched'[r] => /\ games'[h] > 0
                                 /\ socket'[r] = "open" => Newest(Told(r, h)', games'[h])
<1>1. PICK t \in Seq(MessagesOf), n \in Seq(MessagesOf) : t = Told(r, h) /\ n = Snapshots(r, h)
  BY ToldType DEF DeliveryInv, SubscriptionInv
<1>2. /\ Continues(t) /\ EndsWithState(t, n)
      /\ h \in watched[r] => /\ games[h] > 0
                             /\ socket[r] = "open" => Newest(t, games[h])
  BY <1>1 DEF DeliveryInv, ToldInOrder, StateIsLast, WatchersKnow
<1>3. games[h] \in Nat /\ games'[h] \in Nat
  BY DEF DeliveryInv, SubscriptionInv, TypeOK
<1>4. PICK m \in MessagesOf, e \in MessagesOf :
        m = Snapshot(h, games'[h]) /\ e = Events(h, games[h], games'[h])
  BY <1>3, KindsOfMessages
<1>5. /\ m.type = "GAME_SNAPSHOT" /\ m.version = games'[h]
      /\ e.type = "GAME_EVENTS" /\ e.after = games[h] /\ e.version = games'[h]
  BY <1>4 DEF Snapshot, Events
<1>6. \A q \in Seq(MessagesOf) :
        /\ Append(q, m) # <<>> /\ Append(q, m)[Len(Append(q, m))] = m
        /\ Append(q, e) \in Seq(MessagesOf)
  OBVIOUS
<1>7. CASE ToldNothing(r, h)
  <2>1. Told(r, h)' = t /\ Snapshots(r, h)' = n
    BY <1>1, <1>7 DEF ToldNothing
  <2>2. QED
    BY <1>2, <1>7, <2>1 DEF ToldNothing
<1>8. CASE ToldState(r, h)
  <2>1. Told(r, h)' = Append(t, m) /\ Snapshots(r, h)' = Append(n, m) /\ games'[h] > 0
    BY <1>1, <1>4, <1>8 DEF ToldState
  <2>2. Continues(Append(t, m))
    BY <1>2, <1>5, StateContinues
  <2>3. EndsWithState(Append(t, m), Append(n, m)) /\ Newest(Append(t, m), games'[h])
    BY <1>5, <1>6 DEF EndsWithState, Newest
  <2>4. QED
    BY <2>1, <2>2, <2>3
<1>9. CASE ToldUpdate(r, h)
  <2>1. /\ Told(r, h)' = Append(Append(t, e), m) /\ Snapshots(r, h)' = Append(n, m)
        /\ games'[h] > 0 /\ h \in watched[r] /\ socket[r] = "open"
    BY <1>1, <1>4, <1>9 DEF ToldUpdate
  <2>2. t # <<>> /\ t[Len(t)].type = "GAME_SNAPSHOT" /\ t[Len(t)].version = games[h]
    BY <1>2, <2>1 DEF EndsWithState, Newest
  <2>3. Continues(Append(Append(t, e), m))
    BY <1>2, <1>5, <2>2, UpdateContinues
  <2>4. EndsWithState(Append(Append(t, e), m), Append(n, m))
        /\ Newest(Append(Append(t, e), m), games'[h])
    BY <1>5, <1>6 DEF EndsWithState, Newest
  <2>5. QED
    BY <2>1, <2>3, <2>4
<1>10. QED
  BY <1>7, <1>8, <1>9 DEF Hears

LEMMA DeliveryInvHolds == Init /\ [][Next]_vars => []DeliveryInv
<1>1. Init => DeliveryInv
  <2> SUFFICES ASSUME Init PROVE DeliveryInv
    OBVIOUS
  <2>1. SubscriptionInv
    <3>1. TypeOK
      BY DEF Init, TypeOK
    <3>2. ListenersMatchSubscriptions /\ EntriesAreLive /\ DownMeansAlone
      BY DEF Init, ListenersMatchSubscriptions, EntriesAreLive, DownMeansAlone
    <3>3. QED
      BY <3>1, <3>2 DEF SubscriptionInv
  <2>2. \A s \in Sockets, g \in Games : Told(s, g) = <<>> /\ g \notin watched[s]
    BY KeptEmpty DEF Init, Told
  <2>3. ToldInOrder /\ StateIsLast /\ WatchersKnow
    BY <2>2 DEF ToldInOrder, StateIsLast, WatchersKnow, Continues, EndsWithState
  <2>4. JobsAreCurrent
    BY DEF Init, JobsAreCurrent
  <2>5. QED
    BY <2>1, <2>3, <2>4 DEF DeliveryInv
<1>2. DeliveryInv /\ SubscriptionInv' /\ [Next]_vars => DeliveryInv'
  <2> SUFFICES ASSUME DeliveryInv, SubscriptionInv', [Next]_vars PROVE DeliveryInv'
    OBVIOUS
  <2>1. SubscriptionInv /\ JobsAreCurrent /\ WatchersKnow /\ TypeOK /\ TypeOK'
    BY DEF DeliveryInv, SubscriptionInv
  <2>2. JobsAreCurrent'
    BY <2>1, JobsStayCurrent
  <2>3. ASSUME NEW r \in Sockets, NEW h \in Games
        PROVE  /\ Continues(Told(r, h)') /\ EndsWithState(Told(r, h)', Snapshots(r, h)')
               /\ h \in watched'[r] =>
                    /\ games'[h] > 0
                    /\ socket'[r] = "open" => Newest(Told(r, h)', games'[h])
    BY <2>1, StepIsHeard, HeardInOrder
  <2>4. ToldInOrder'
    BY <2>3 DEF ToldInOrder
  <2>5. StateIsLast'
    BY <2>3 DEF StateIsLast
  <2>6. WatchersKnow'
    BY <2>3 DEF WatchersKnow
  <2>7. QED
    BY <2>2, <2>4, <2>5, <2>6 DEF DeliveryInv
<1>3. QED
  BY <1>1, <1>2, SubscriptionInvHolds, PTL

\* No update of a game is missed by an open socket that subscribed to it: the
\* last snapshot it was sent is the state the game is in, also when the
\* subscription waited for its snapshot while other requests came.
THEOREM NoUpdateMissed == Spec => []SubscribersUpToDate
<1>1. DeliveryInv => SubscribersUpToDate
  <2> SUFFICES ASSUME DeliveryInv, NEW s \in Sockets, NEW g \in watched[s], socket[s] = "open"
               PROVE  Snapshots(s, g) # <<>> /\ Last(Snapshots(s, g)).version = games[g]
    BY DEF SubscribersUpToDate
  <2>1. g \in Games
    BY DEF DeliveryInv, SubscriptionInv, TypeOK
  <2>2. Newest(Told(s, g), games[g]) /\ EndsWithState(Told(s, g), Snapshots(s, g))
    BY <2>1 DEF DeliveryInv, WatchersKnow, StateIsLast
  <2>3. QED
    BY <2>2 DEF Newest, EndsWithState, Last
<1>2. QED
  BY <1>1, DeliveryInvHolds, PTL DEF Spec

\* What a socket is told about a game can be followed: every GAME_EVENTS
\* message starts from the snapshot before it and leads to the one after it.
THEOREM EventsCanBeFollowed == Spec => []EventsContinueSnapshot
<1>1. DeliveryInv => EventsContinueSnapshot
  BY DEF DeliveryInv, ToldInOrder, Continues, EventsContinueSnapshot
<1>2. QED
  BY <1>1, DeliveryInvHolds, PTL DEF Spec

-----------------------------------------------------------------------------
(* The last requests of a socket.                                          *)

\* The games a socket will follow once the subscriptions under way are loaded.
Asks(job, s) == job.socket = s /\ job.version > 0
UnderWay(s) == {jobs[i].game : i \in {j \in DOMAIN jobs : Asks(jobs[j], s)}}

\* What a socket wants it follows or will follow.
RequestInv ==
  /\ \A s \in Sockets : socket[s] = "new" => wanted[s] = {}
  /\ \A s \in known : wanted[s] \subseteq watched[s] \cup UnderWay(s)

LEMMA UnderWayStays ==
  ASSUME jobs' = jobs, NEW r
  PROVE  UnderWay(r)' = UnderWay(r)
BY DEF UnderWay

LEMMA NoneUnderWay ==
  ASSUME jobs = <<>>, NEW r
  PROVE  UnderWay(r) = {}
BY DEF UnderWay

LEMMA AppendedElements ==
  ASSUME NEW V, NEW q \in Seq(V), NEW e \in V
  PROVE  /\ DOMAIN Append(q, e) = DOMAIN q \cup {Len(q) + 1}
         /\ \A i \in DOMAIN q : Append(q, e)[i] = q[i]
         /\ Append(q, e)[Len(q) + 1] = e
OBVIOUS

LEMMA TailElements ==
  ASSUME NEW V, NEW q \in Seq(V), q # <<>>
  PROVE  /\ Head(q) = q[1] /\ 1 \in DOMAIN q
         /\ \A i \in DOMAIN Tail(q) : i + 1 \in DOMAIN q /\ Tail(q)[i] = q[i + 1]
         /\ \A i \in DOMAIN q : i # 1 => i - 1 \in DOMAIN Tail(q) /\ Tail(q)[i - 1] = q[i]
<1>1. Len(q) \in Nat /\ Len(q) > 0 /\ DOMAIN q = 1 .. Len(q)
  OBVIOUS
<1>2. Tail(q) \in Seq(V) /\ Len(Tail(q)) = Len(q) - 1 /\ DOMAIN Tail(q) = 1 .. Len(Tail(q))
  OBVIOUS
<1>3. \A i \in 1 .. Len(q) - 1 : Tail(q)[i] = q[i + 1]
  OBVIOUS
<1>4. \A i \in DOMAIN q : i # 1 => i - 1 \in 1 .. Len(q) - 1 /\ (i - 1) + 1 = i
  BY <1>1
<1>5. QED
  BY <1>1, <1>2, <1>3, <1>4

LEMMA UnderWayGrows ==
  ASSUME TypeOK, NEW e \in [socket : Sockets, game : Games, version : Nat],
         jobs' = Append(jobs, e), NEW r
  PROVE  UnderWay(r)' = UnderWay(r) \cup (IF Asks(e, r) THEN {e.game} ELSE {})
<1>1. /\ DOMAIN jobs' = DOMAIN jobs \cup {Len(jobs) + 1}
      /\ \A i \in DOMAIN jobs : jobs'[i] = jobs[i]
      /\ jobs'[Len(jobs) + 1] = e
  <2>1. PICK J : J = [socket : Sockets, game : Games, version : Nat]
    OBVIOUS
  <2>2. jobs \in Seq(J) /\ e \in J
    BY <2>1 DEF TypeOK
  <2>3. QED
    BY <2>2, AppendedElements
<1>2. QED
  BY <1>1 DEF UnderWay

LEMMA UnderWayShrinks ==
  ASSUME TypeOK, jobs # <<>>, jobs' = Tail(jobs), NEW r
  PROVE  UnderWay(r) = UnderWay(r)' \cup (IF Asks(Head(jobs), r) THEN {Head(jobs).game} ELSE {})
<1>1. /\ Head(jobs) = jobs[1] /\ 1 \in DOMAIN jobs
      /\ \A i \in DOMAIN jobs' : i + 1 \in DOMAIN jobs /\ jobs'[i] = jobs[i + 1]
      /\ \A i \in DOMAIN jobs : i # 1 => i - 1 \in DOMAIN jobs' /\ jobs'[i - 1] = jobs[i]
  <2>1. PICK J : J = [socket : Sockets, game : Games, version : Nat]
    OBVIOUS
  <2>2. jobs \in Seq(J)
    BY <2>1 DEF TypeOK
  <2>3. QED
    BY <2>2, TailElements
<1>2. QED
  BY <1>1 DEF UnderWay

\* A subscription that is loaded moves from those under way to the followed.
LEMMA LoadedIsFollowed ==
  ASSUME TypeOK, SubscriptionLoaded, NEW r \in known
  PROVE  watched'[r] \cup UnderWay(r)' = watched[r] \cup UnderWay(r)
<1> DEFINE s == Head(jobs).socket
           g == Head(jobs).game
<1>1. jobs # <<>> /\ jobs' = Tail(jobs) /\ r \in Sockets
  BY DEF SubscriptionLoaded, TypeOK
<1>2. s \in Sockets /\ g \in Games /\ Head(jobs).version \in Nat
  BY <1>1, HeadOfJobs
<1>3. UnderWay(r) = UnderWay(r)' \cup (IF Asks(Head(jobs), r) THEN {g} ELSE {})
  BY <1>1, UnderWayShrinks
<1>4. watched'[r] = watched[r] \cup (IF Asks(Head(jobs), r) THEN {g} ELSE {})
  <2>1. CASE Head(jobs).version = 0
    BY <2>1 DEF SubscriptionLoaded, Asks
  <2>2. CASE Head(jobs).version > 0
    <3>1. AddSubscription(s, g)
      BY <1>2, <2>2 DEF SubscriptionLoaded
    <3>2. CASE s \in known /\ g \notin watched[s]
      BY <1>1, <2>2, <3>1, <3>2 DEF AddSubscription, AddAnyway, TypeOK, Asks
    <3>3. CASE ~(s \in known /\ g \notin watched[s])
      <4>1. watched' = watched
        BY <3>1, <3>3 DEF AddSubscription
      <4>2. Asks(Head(jobs), r) => g \in watched[r]
        BY <3>3 DEF Asks
      <4>3. QED
        BY <4>1, <4>2
    <3>4. QED
      BY <3>2, <3>3
  <2>3. QED
    BY <1>2, <2>1, <2>2
<1>5. QED
  BY <1>3, <1>4

LEMMA ServerKeepsRequests ==
  ASSUME TypeOK, RequestInv,
         HttpRequest \/ HttpConnection \/ Lifecycle \/ EndOfChunk \/ UNCHANGED vars
  PROVE  RequestInv'
<1>1. UNCHANGED <<jobs, wanted, known, watched>>
  BY ConnectionsAlone DEF HttpRequest, CreateGame, AcceptCommand, Lifecycle, Start, Stop,
     SocketsGone, Stopped, EndOfChunk, vars, subscriptionVars, loopVars
<1>2. \A s \in Sockets : socket'[s] = "new" => socket[s] = "new"
  BY ConnectionsAlone DEF HttpRequest, CreateGame, AcceptCommand, Lifecycle, Start, Stop,
     SocketsGone, Stopped, SocketsAskedToClose, EndOfChunk, vars
<1>3. QED
  BY <1>1, <1>2, UnderWayStays DEF RequestInv

\* What SUBSCRIBE_GAME does to the request history of each socket.
LEMMA SubscribeIsUnderWay ==
  ASSUME TypeOK, NEW s \in Sockets, NEW g \in Games, SubscribeGame(s, g), NEW r \in Sockets
  PROVE  \E new \in {{}, {g}} :
           UnderWay(r)' = UnderWay(r) \cup new /\ wanted'[r] = wanted[r] \cup new
<1> DEFINE e == [socket |-> s, game |-> g, version |-> games[g]]
<1>1. e \in [socket : Sockets, game : Games, version : Nat] /\ jobs' = Append(jobs, e)
  BY DEF SubscribeGame, TypeOK
<1>2. Asks(e, r) <=> s = r /\ games[g] > 0
  BY DEF Asks
<1>3. e.game = g
  OBVIOUS
<1> HIDE DEF e
<1>4. UnderWay(r)' = UnderWay(r) \cup (IF s = r /\ games[g] > 0 THEN {g} ELSE {})
  BY <1>1, <1>2, <1>3, UnderWayGrows
<1>5. wanted'[r] = wanted[r] \cup (IF s = r /\ games[g] > 0 THEN {g} ELSE {})
  BY DEF SubscribeGame, TypeOK
<1>6. QED
  BY <1>4, <1>5

LEMMA SocketKeepsRequests ==
  ASSUME TypeOK, EntriesAreLive, RequestInv, NEW s \in Sockets, SocketEvent(s)
  PROVE  RequestInv'
<1>1. \A r \in known : r \in Sockets
  BY DEF TypeOK
<1>2. CASE Connect(s)
  <2>1. wanted[s] = {}
    BY <1>2 DEF Connect, RequestInv
  <2>2. \A r \in Sockets : socket'[r] = "new" => socket[r] = "new"
    BY <1>2 DEF Connect, TypeOK
  <2>3. known' = known \cup {s} /\ UNCHANGED <<jobs, watched, wanted>>
    BY <1>2 DEF Connect, loopVars
  <2>4. QED
    BY <2>1, <2>2, <2>3, UnderWayStays DEF RequestInv
<1>3. CASE InvalidMessage(s)
  <2>1. UNCHANGED <<socket, known, watched, jobs, wanted>>
    BY <1>3 DEF InvalidMessage, subscriptionVars
  <2>2. QED
    BY <2>1, UnderWayStays DEF RequestInv
<1>4. CASE BrokenFrame(s) \/ Closed(s)
  <2>1. /\ known' = known \ {s} /\ UNCHANGED jobs
        /\ \A r \in Sockets \ {s} : watched'[r] = watched[r] /\ wanted'[r] = wanted[r]
                                   /\ socket'[r] = socket[r]
        /\ socket'[s] # "new"
    BY <1>4 DEF BrokenFrame, Closed, Cleanup, loopVars, TypeOK
  <2>2. QED
    BY <1>1, <2>1, UnderWayStays DEF RequestInv
<1>5. ASSUME NEW g \in Games, SubscribeGame(s, g)
      PROVE  RequestInv'
  <2>1. UNCHANGED <<socket, known, watched>> /\ socket[s] # "new"
    BY <1>5 DEF SubscribeGame, MessageArrives, subscriptionVars
  <2>2. \A r \in Sockets : r # s => wanted'[r] = wanted[r]
    BY <1>5 DEF SubscribeGame, TypeOK
  <2>3. \A r \in known : wanted'[r] \subseteq watched'[r] \cup UnderWay(r)'
    <3> SUFFICES ASSUME NEW r \in known PROVE wanted'[r] \subseteq watched'[r] \cup UnderWay(r)'
      OBVIOUS
    <3>1. PICK new \in {{}, {g}} : UnderWay(r)' = UnderWay(r) \cup new /\ wanted'[r] = wanted[r] \cup new
      BY <1>1, <1>5, SubscribeIsUnderWay
    <3>2. QED
      BY <2>1, <3>1 DEF RequestInv
  <2>4. QED
    BY <2>1, <2>2, <2>3 DEF RequestInv
<1>6. ASSUME NEW g \in Games, UnsubscribeGame(s, g)
      PROVE  RequestInv'
  <2>1. UNCHANGED <<socket, known, jobs>> /\ socket[s] # "new"
        /\ \A r \in Sockets : wanted'[r] = IF r = s THEN wanted[r] \ {g} ELSE wanted[r]
    BY <1>6 DEF UnsubscribeGame, MessageArrives, TypeOK
  <2>2. \A r \in Sockets : watched[r] \ watched'[r] \subseteq IF r = s THEN {g} ELSE {}
    BY <1>6 DEF UnsubscribeGame, RemoveSubscription, TypeOK
  <2>3. \A r \in known : wanted'[r] \subseteq watched'[r] \cup UnderWay(r)'
    <3> SUFFICES ASSUME NEW r \in known PROVE wanted'[r] \subseteq watched'[r] \cup UnderWay(r)'
      OBVIOUS
    <3>1. UnderWay(r)' = UnderWay(r) /\ wanted[r] \subseteq watched[r] \cup UnderWay(r)
      BY <2>1, UnderWayStays DEF RequestInv
    <3>2. wanted'[r] = IF r = s THEN wanted[r] \ {g} ELSE wanted[r]
      BY <1>1, <2>1
    <3>3. watched[r] \ watched'[r] \subseteq IF r = s THEN {g} ELSE {}
      BY <1>1, <2>2
    <3>4. QED
      BY <3>1, <3>2, <3>3
  <2>4. \A r \in Sockets : socket'[r] = "new" => wanted'[r] = {}
    BY <2>1 DEF RequestInv
  <2>5. QED
    BY <2>1, <2>3, <2>4 DEF RequestInv
<1>7. QED
  BY <1>2, <1>3, <1>4, <1>5, <1>6 DEF SocketEvent

LEMMA LoadingKeepsRequests ==
  ASSUME TypeOK, RequestInv, SubscriptionLoaded
  PROVE  RequestInv'
<1>1. UNCHANGED <<socket, known, wanted>>
  BY DEF SubscriptionLoaded
<1>2. QED
  BY <1>1, LoadedIsFollowed DEF RequestInv

LEMMA RequestInvHolds == Init /\ [][Next]_vars => []RequestInv
<1>1. Init => RequestInv
  BY DEF Init, RequestInv
<1>2. SubscriptionInv /\ RequestInv /\ [Next]_vars => RequestInv'
  <2> SUFFICES ASSUME SubscriptionInv, RequestInv, [Next]_vars
               PROVE  RequestInv'
    OBVIOUS
  <2>1. TypeOK /\ EntriesAreLive
    BY DEF SubscriptionInv
  <2>2. QED
    BY <2>1, ServerKeepsRequests, SocketKeepsRequests, LoadingKeepsRequests DEF Next, LoopStep
<1>3. QED
  BY <1>1, <1>2, SubscriptionInvHolds, PTL

\* Whatever a socket asked for in whatever order, once its requests are handled
\* it follows every game it last asked to follow, however many messages ws
\* emits in one callback.
THEOREM LastRequestsAreFollowed == Spec => []WantedGamesFollowed
<1>1. RequestInv => WantedGamesFollowed
  BY NoneUnderWay DEF RequestInv, WantedGamesFollowed, Idle
<1>2. QED
  BY <1>1, RequestInvHolds, PTL DEF Spec

\* All of it together, for any number of games and sockets.
THEOREM RuntimeIsSafe == Spec => []RuntimeInv
<1>1. /\ TypeOK /\ ListenersMatchSubscriptions /\ ClosedSocketsHoldNothing
      /\ WantedGamesFollowed /\ StopLeavesNothing
      => RuntimeInv
  BY DEF RuntimeInv
<1>2. QED
  BY <1>1, RuntimeTypeCorrect, ListenersAreSubscriptions, NothingHeldForClosedSockets,
     LastRequestsAreFollowed, NothingLeftAfterStop, PTL

-----------------------------------------------------------------------------
(* Clients that never unsubscribe.                                         *)

\* Every step of the runtime but UNSUBSCRIBE_GAME.
OnlySubscribes ==
  \/ HttpRequest \/ HttpConnection \/ LoopStep \/ Lifecycle
  \/ \E s \in Sockets :
       \/ Connect(s) \/ InvalidMessage(s) \/ BrokenFrame(s) \/ Closed(s)
       \/ \E g \in Games : SubscribeGame(s, g)

\* Their sockets follow nothing they did not ask for.
NothingUnasked == \A s \in known : watched[s] \cup UnderWay(s) \subseteq wanted[s]

LEMMA NothingUnaskedKept ==
  ASSUME TypeOK, EntriesAreLive, NothingUnasked, [OnlySubscribes]_vars
  PROVE  NothingUnasked'
<1>1. \A r \in known : r \in Sockets
  BY DEF TypeOK
<1>2. ASSUME UNCHANGED <<jobs, wanted, known, watched>>
      PROVE  NothingUnasked'
  BY <1>2, UnderWayStays DEF NothingUnasked
<1>3. CASE HttpRequest \/ HttpConnection \/ Lifecycle \/ EndOfChunk \/ UNCHANGED vars
  <2>1. UNCHANGED <<jobs, wanted, known, watched>>
    BY <1>3, ConnectionsAlone DEF HttpRequest, CreateGame, AcceptCommand, Lifecycle, Start, Stop,
       SocketsGone, Stopped, EndOfChunk, vars, subscriptionVars, loopVars
  <2>2. QED
    BY <1>2, <2>1
<1>4. CASE SubscriptionLoaded
  <2>1. UNCHANGED <<known, wanted>>
    BY <1>4 DEF SubscriptionLoaded
  <2>2. QED
    BY <1>4, <2>1, LoadedIsFollowed DEF NothingUnasked
<1>5. ASSUME NEW s \in Sockets, Connect(s)
      PROVE  NothingUnasked'
  <2>1. s \notin known /\ jobs = <<>>
    BY <1>5 DEF Connect, EntriesAreLive, Idle
  <2>2. watched[s] = {} /\ UnderWay(s) = {}
    BY <2>1, NoneUnderWay DEF EntriesAreLive
  <2>3. known' = known \cup {s} /\ UNCHANGED <<jobs, watched, wanted>>
    BY <1>5 DEF Connect, loopVars
  <2>4. QED
    BY <2>2, <2>3, UnderWayStays DEF NothingUnasked
<1>6. ASSUME NEW s \in Sockets, InvalidMessage(s)
      PROVE  NothingUnasked'
  BY <1>2, <1>6 DEF InvalidMessage, subscriptionVars
<1>7. ASSUME NEW s \in Sockets, BrokenFrame(s) \/ Closed(s)
      PROVE  NothingUnasked'
  <2>1. /\ known' = known \ {s} /\ UNCHANGED jobs
        /\ \A r \in Sockets \ {s} : watched'[r] = watched[r] /\ wanted'[r] = wanted[r]
    BY <1>7 DEF BrokenFrame, Closed, Cleanup, loopVars, TypeOK
  <2>2. QED
    BY <1>1, <2>1, UnderWayStays DEF NothingUnasked
<1>8. ASSUME NEW s \in Sockets, NEW g \in Games, SubscribeGame(s, g)
      PROVE  NothingUnasked'
  <2>1. UNCHANGED <<known, watched>>
    BY <1>8 DEF SubscribeGame, subscriptionVars
  <2> SUFFICES ASSUME NEW r \in known PROVE watched[r] \cup UnderWay(r)' \subseteq wanted'[r]
    BY <2>1 DEF NothingUnasked
  <2>2. PICK new \in {{}, {g}} : UnderWay(r)' = UnderWay(r) \cup new /\ wanted'[r] = wanted[r] \cup new
    BY <1>1, <1>8, SubscribeIsUnderWay
  <2>3. QED
    BY <2>2 DEF NothingUnasked
<1>9. QED
  BY <1>3, <1>4, <1>5, <1>6, <1>7, <1>8 DEF OnlySubscribes, LoopStep

\* If no client unsubscribes a socket follows, once its requests are handled,
\* the games it asked for and no other, however the messages arrive.
THEOREM SubscribersGetWhatTheyAsked ==
  Init /\ [][OnlySubscribes]_vars => []LastRequestWins
<1>1. [OnlySubscribes]_vars => [Next]_vars
  BY DEF OnlySubscribes, Next, SocketEvent
<1>2. Init => NothingUnasked
  BY DEF Init, NothingUnasked
<1>3. SubscriptionInv /\ NothingUnasked /\ [OnlySubscribes]_vars => NothingUnasked'
  BY NothingUnaskedKept DEF SubscriptionInv
<1>4. RequestInv /\ NothingUnasked => LastRequestWins
  BY NoneUnderWay DEF RequestInv, NothingUnasked, LastRequestWins, Idle
<1>5. QED
  BY <1>1, <1>2, <1>3, <1>4, SubscriptionInvHolds, RequestInvHolds, PTL
=============================================================================
