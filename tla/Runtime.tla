------------------------------ MODULE Runtime ------------------------------
(***************************************************************************)
(* The local game server: WebSocket subscriptions over the listeners of    *)
(* the registry, the games that HTTP requests create and change, and the   *)
(* closing of sockets, of HTTP connections and of the server.              *)
(*                                                                         *)
(* The event loop runs one callback at a time and drains the microtasks    *)
(* after it.  An HTTP command awaits microtasks only, so its commit and    *)
(* its publication are one step (CommandService looks inside).  The ws     *)
(* library may emit several messages of one chunk of bytes in a callback:  *)
(* their handlers run up to the first await before any of them goes on.    *)
(***************************************************************************)
EXTENDS Integers, Sequences, SequencesExt, Subsequences

CONSTANTS
  Games, Sockets,
  NoSocket,
  Connections,  \* the HTTP connections that last: those of a single request
                \* that is answered at once need no name
  MaxVersion,   \* bound on the version of a game
  MaxSent       \* bound on the messages sent to a socket on its requests

ASSUME RuntimeAssumption ==
  /\ NoSocket \notin Sockets
  /\ MaxVersion \in Nat /\ MaxSent \in Nat

VARIABLES
  games,      \* the stored snapshots: game |-> version, 0 if there is none
  server,     \* where start and stop have got to
  accepting,  \* does the WebSocket server take new sockets?
  connected,  \* the HTTP connections that are open, silent ones included
  socket,     \* readyState of each socket
  known,      \* the sockets with an entry in subscriptions
  watched,    \* the games in the entry of each socket
  listeners,  \* #listeners: game |-> socket |-> listeners that send to it
  jobs,       \* the subscriptions that await their snapshot, oldest first
  emitting,   \* the socket whose messages the running callback emits
  sent,       \* socket |-> all messages sent to it
  wanted      \* socket |-> the games its last requests ask to follow (history)

loopVars == <<jobs, emitting>>
subscriptionVars == <<known, watched, listeners>>
serverVars == <<server, accepting, connected>>
vars == <<games, serverVars, socket, subscriptionVars, loopVars, sent, wanted>>

\* No callback runs and no microtask waits: the loop takes its next event.
AlwaysIdle == emitting = NoSocket
Idle == emitting = NoSocket /\ jobs = <<>>

\* The HTTP server takes connections until server.close; after it a request
\* can come on a connection that is still open.
Listening == server \in {"up", "closing"}
Serving == Listening \/ (server = "draining" /\ connected # {})

-----------------------------------------------------------------------------
(* Messages.                                                               *)

Snapshot(g, v) == [type |-> "GAME_SNAPSHOT", game |-> g, version |-> v]
Events(g, before, v) == [type |-> "GAME_EVENTS", game |-> g, after |-> before, version |-> v]
Error(code) == [type |-> "ERROR", code |-> code]

\* sendWs: a socket that is not open gets nothing.
SendWs(s, message) ==
  sent' = IF socket[s] = "open" THEN [sent EXCEPT ![s] = Append(@, message)] ELSE sent

\* #publish, and sendGameUpdate for each listener.
SnapshotFirst(g, before, v) == <<Snapshot(g, v), Events(g, before, v)>>
GameUpdate(g, before, v) == <<Events(g, before, v), Snapshot(g, v)>>
Publish(g, before, v) ==
  sent' = [s \in Sockets |-> IF listeners[g][s] > 0 /\ socket[s] = "open"
                             THEN sent[s] \o GameUpdate(g, before, v) ELSE sent[s]]

-----------------------------------------------------------------------------

Init ==
  /\ games = [g \in Games |-> 0]
  /\ server = "down" /\ accepting = TRUE /\ connected = {}
  /\ socket = [s \in Sockets |-> "new"]
  /\ known = {}
  /\ watched = [s \in Sockets |-> {}]
  /\ listeners = [g \in Games |-> [s \in Sockets |-> 0]]
  /\ jobs = <<>> /\ emitting = NoSocket
  /\ sent = [s \in Sockets |-> <<>>]
  /\ wanted = [s \in Sockets |-> {}]

-----------------------------------------------------------------------------
(* HTTP requests.                                                          *)

\* POST /local/games; a game that exists is refused and stays as it is.
CreateGame(g) ==
  /\ Idle /\ Serving
  /\ games[g] = 0
  /\ games' = [games EXCEPT ![g] = 1]
  /\ UNCHANGED <<serverVars, socket, subscriptionVars, loopVars, sent, wanted>>

\* POST /local/games/:gameId/commands with a command that is accepted: the
\* game moves on by one version, or by two when it ends.
AcceptCommand(g, v) ==
  /\ Idle /\ Serving
  /\ games[g] > 0 /\ v \in games[g] + 1 .. games[g] + 2 /\ v <= MaxVersion
  /\ games' = [games EXCEPT ![g] = v]
  /\ Publish(g, games[g], v)
  /\ UNCHANGED <<serverVars, socket, subscriptionVars, loopVars, wanted>>

\* An HTTP connection is opened.  It ends when its request is complete and
\* answered, or when the client gives it up: neither is the server's to decide.
HttpOpens(c) ==
  /\ Idle /\ Listening
  /\ c \notin connected
  /\ connected' = connected \cup {c}
  /\ UNCHANGED <<games, server, accepting, socket, subscriptionVars, loopVars, sent, wanted>>
HttpEnds(c) ==
  /\ Idle
  /\ c \in connected
  /\ connected' = connected \ {c}
  /\ UNCHANGED <<games, server, accepting, socket, subscriptionVars, loopVars, sent, wanted>>

-----------------------------------------------------------------------------
(* Sockets.                                                                *)

\* An upgrade to /ws, and the handler of the connection event.
Connect(s) ==
  /\ Idle /\ server = "up" /\ accepting
  /\ socket[s] = "new"
  /\ socket' = [socket EXCEPT ![s] = "open"]
  /\ known' = known \cup {s}
  /\ UNCHANGED <<games, serverVars, watched, listeners, loopVars, sent, wanted>>

\* The message handler is called for s: as the next event of the loop, or for
\* a further message of the chunk being emitted.
MessageArrives(s) ==
  /\ socket[s] \in {"open", "closing"}
  /\ Idle \/ emitting = s
  /\ Len(sent[s]) + Len(jobs) < MaxSent
  /\ emitting' = s

\* SUBSCRIBE_GAME up to its await: getGameContext has read the snapshot.
SubscribeGame(s, g) ==
  /\ MessageArrives(s)
  /\ jobs' = Append(jobs, [socket |-> s, game |-> g, version |-> games[g]])
  /\ wanted' = IF games[g] = 0 THEN wanted ELSE [wanted EXCEPT ![s] = @ \cup {g}]
  /\ UNCHANGED <<games, serverVars, socket, subscriptionVars, sent>>

\* removeSubscription: call the unsubscribe kept for the game, and forget it.
RemoveSubscription(s, g) ==
  IF s \in known /\ g \in watched[s]
  THEN /\ watched' = [watched EXCEPT ![s] = @ \ {g}]
       /\ listeners' = [listeners EXCEPT ![g][s] = @ - 1]
  ELSE UNCHANGED <<watched, listeners>>

\* UNSUBSCRIBE_GAME, which awaits nothing.
UnsubscribeGame(s, g) ==
  /\ MessageArrives(s)
  /\ RemoveSubscription(s, g)
  /\ wanted' = [wanted EXCEPT ![s] = @ \ {g}]
  /\ UNCHANGED <<games, serverVars, socket, known, jobs, sent>>

\* A message parseWsClientMessage makes nothing of.
InvalidMessage(s) ==
  /\ MessageArrives(s)
  /\ SendWs(s, Error("INVALID_WS_MESSAGE"))
  /\ UNCHANGED <<games, serverVars, socket, subscriptionVars, jobs, wanted>>

\* The callback has emitted its messages and returns.
EndOfChunk ==
  /\ emitting # NoSocket
  /\ emitting' = NoSocket
  /\ UNCHANGED <<games, serverVars, socket, subscriptionVars, jobs, sent, wanted>>

\* addSubscription
AddAnyway(s, g) ==
  /\ watched' = [watched EXCEPT ![s] = @ \cup {g}]
  /\ listeners' = [listeners EXCEPT ![g][s] = @ + 1]
AddUnlessWatched(s, g) ==
  IF g \notin watched[s] THEN AddAnyway(s, g) ELSE UNCHANGED <<watched, listeners>>
AddSubscription(s, g) ==
  IF s \in known /\ g \notin watched[s] THEN AddAnyway(s, g)
  ELSE UNCHANGED <<watched, listeners>>

\* SUBSCRIBE_GAME after its await.
SubscriptionLoaded ==
  /\ emitting = NoSocket /\ jobs # <<>>
  /\ LET job == Head(jobs) IN
       \/ /\ job.version = 0
          /\ SendWs(job.socket, Error("GAME_NOT_FOUND"))
          /\ UNCHANGED <<watched, listeners>>
       \/ /\ job.version > 0
          /\ AddSubscription(job.socket, job.game)
          /\ SendWs(job.socket, Snapshot(job.game, job.version))
  /\ jobs' = Tail(jobs)
  /\ UNCHANGED <<games, serverVars, socket, known, emitting, wanted>>

\* cleanup, with removeAllSubscriptions.
Cleanup(s) ==
  /\ known' = known \ {s}
  /\ watched' = [watched EXCEPT ![s] = {}]
  /\ listeners' = [g \in Games |-> IF s \in known /\ g \in watched[s]
                                   THEN [listeners[g] EXCEPT ![s] = @ - 1] ELSE listeners[g]]

\* A frame ws cannot read: it starts closing the socket and emits the error,
\* before the microtasks of the messages ahead of it in the chunk.
BrokenFrame(s) ==
  /\ socket[s] \in {"open", "closing"}
  /\ Idle \/ emitting = s
  /\ socket' = [socket EXCEPT ![s] = "closing"]
  /\ Cleanup(s)
  /\ emitting' = NoSocket
  /\ wanted' = [wanted EXCEPT ![s] = {}]
  /\ UNCHANGED <<games, serverVars, jobs, sent>>

\* The close event: the client closed, the connection broke, or the close the
\* server asked for is complete.
Closed(s) ==
  /\ Idle
  /\ socket[s] \in {"open", "closing"}
  /\ socket' = [socket EXCEPT ![s] = "closed"]
  /\ Cleanup(s)
  /\ wanted' = [wanted EXCEPT ![s] = {}]
  /\ UNCHANGED <<games, serverVars, loopVars, sent>>

-----------------------------------------------------------------------------
(* Start and stop.                                                         *)

\* start; after a stop the WebSocket server stays closed.
Start ==
  /\ Idle /\ server = "down"
  /\ server' = "up"
  /\ UNCHANGED <<games, accepting, connected, socket, subscriptionVars, loopVars, sent, wanted>>

\* stop up to its first await: ws.close for every client, wsServer.close.
SocketsLeftOpen == socket
SocketsAskedToClose ==
  [s \in Sockets |-> IF socket[s] = "open" THEN "closing" ELSE socket[s]]
Stop ==
  /\ Idle /\ server = "up"
  /\ server' = "closing" /\ accepting' = FALSE
  /\ socket' = SocketsAskedToClose
  /\ UNCHANGED <<games, connected, subscriptionVars, loopVars, sent, wanted>>

\* wsServer.close calls back when the last client is gone.
NoClientLeft == \A s \in Sockets : socket[s] \in {"new", "closed"}
SocketsGone ==
  /\ Idle /\ server = "closing"
  /\ NoClientLeft
  /\ server' = "draining"
  /\ UNCHANGED <<games, accepting, connected, socket, subscriptionVars, loopVars, sent, wanted>>

\* server.close calls back when the last HTTP connection has ended.
Stopped ==
  /\ Idle /\ server = "draining"
  /\ connected = {}
  /\ server' = "down"
  /\ UNCHANGED <<games, accepting, connected, socket, subscriptionVars, loopVars, sent, wanted>>

-----------------------------------------------------------------------------

HttpRequest ==
  \E g \in Games : CreateGame(g) \/ \E v \in 1 .. MaxVersion : AcceptCommand(g, v)
HttpConnection == \E c \in Connections : HttpOpens(c) \/ HttpEnds(c)
SocketEvent(s) ==
  \/ Connect(s) \/ InvalidMessage(s) \/ BrokenFrame(s) \/ Closed(s)
  \/ \E g \in Games : SubscribeGame(s, g) \/ UnsubscribeGame(s, g)
LoopStep == EndOfChunk \/ SubscriptionLoaded
Lifecycle == Start \/ Stop \/ SocketsGone \/ Stopped

Next ==
  HttpRequest \/ HttpConnection \/ (\E s \in Sockets : SocketEvent(s)) \/ LoopStep \/ Lifecycle

\* A callback returns and microtasks run.  An event that stays ready is taken
\* at some time, however many others come; ws destroys a socket that does not
\* complete its close within 30 seconds.  Nothing ends an HTTP connection that
\* its client holds open: server.close also ends the check of request timeouts.
Fairness ==
  /\ WF_vars(LoopStep)
  /\ SF_vars(SocketsGone) /\ SF_vars(Stopped)
  /\ \A s \in Sockets : SF_vars(socket[s] = "closing" /\ Closed(s))

Spec == Init /\ [][Next]_vars /\ Fairness

-----------------------------------------------------------------------------
(* Properties.                                                             *)

MessagesOf ==
  [type : {"GAME_SNAPSHOT"}, game : Games, version : Nat]
  \cup [type : {"GAME_EVENTS"}, game : Games, after : Nat, version : Nat]
  \cup [type : {"ERROR"}, code : {"INVALID_WS_MESSAGE", "GAME_NOT_FOUND"}]

TypeOK ==
  /\ games \in [Games -> Nat]
  /\ server \in {"down", "up", "closing", "draining"} /\ accepting \in BOOLEAN
  /\ connected \subseteq Connections
  /\ socket \in [Sockets -> {"new", "open", "closing", "closed"}]
  /\ known \subseteq Sockets
  /\ watched \in [Sockets -> SUBSET Games]
  /\ listeners \in [Games -> [Sockets -> Nat]]
  /\ jobs \in Seq([socket : Sockets, game : Games, version : Nat])
  /\ emitting \in Sockets \cup {NoSocket}
  /\ sent \in [Sockets -> Seq(MessagesOf)]
  /\ wanted \in [Sockets -> SUBSET Games]

\* The registry holds one listener for each subscription kept in
\* subscriptions, and no other: none is doubled by a second SUBSCRIBE_GAME,
\* none outlives its subscription.
ListenersMatchSubscriptions ==
  \A g \in Games, s \in Sockets : listeners[g][s] = IF g \in watched[s] THEN 1 ELSE 0

\* A socket that is closed, or that ws gave up, has no subscription and gets
\* none, not even from a SUBSCRIBE_GAME still under way.
ClosedSocketsHoldNothing ==
  \A s \in Sockets :
    /\ socket[s] \in {"new", "closed"} => s \notin known
    /\ s \notin known => \A g \in Games : listeners[g][s] = 0

SnapshotsOf(g) == [type : {"GAME_SNAPSHOT"}, game : {g}, version : Nat]
UpdatesOf(g) ==
  SnapshotsOf(g) \cup [type : {"GAME_EVENTS"}, game : {g}, after : Nat, version : Nat]
Snapshots(s, g) == Kept(sent[s], SnapshotsOf(g))
Told(s, g) == Kept(sent[s], UpdatesOf(g))

\* An open socket that is subscribed to a game has been sent its newest state.
SubscribersUpToDate ==
  \A s \in Sockets : \A g \in watched[s] :
    socket[s] = "open" =>
      /\ Snapshots(s, g) # <<>>
      /\ Last(Snapshots(s, g)).version = games[g]

\* Whatever a socket is sent about a game can be followed: events start from
\* the state of the last snapshot, and the snapshot after them is the state
\* they lead to.
EventsContinueSnapshot ==
  \A s \in Sockets, g \in Games :
    LET told == Told(s, g)
    IN  \A i \in DOMAIN told : told[i].type = "GAME_EVENTS" =>
          /\ i > 1 /\ told[i - 1].type = "GAME_SNAPSHOT"
          /\ told[i].after = told[i - 1].version
          /\ i < Len(told) /\ told[i + 1].type = "GAME_SNAPSHOT"
          /\ told[i + 1].version = told[i].version

\* Once the requests of a socket are handled it follows all the games its last
\* requests asked for, however many of them one callback emitted.
WantedGamesFollowed ==
  Idle => \A s \in known : wanted[s] \subseteq watched[s]

\* And it follows no other.  (Violated for clients that unsubscribe: an
\* UNSUBSCRIBE_GAME emitted in the same callback as the SUBSCRIBE_GAME before it
\* overtakes it, because the subscription awaits its snapshot.)
LastRequestWins ==
  Idle => \A s \in known : watched[s] = wanted[s]

\* Once stop has finished no socket is open and the registry has no listener.
StopLeavesNothing ==
  server = "down" => \A s \in Sockets :
    /\ socket[s] \in {"new", "closed"}
    /\ \A g \in Games : listeners[g][s] = 0

\* stop comes to an end, whatever is done on the WebSockets, if no client holds
\* an HTTP connection for ever.
StopCompletes ==
  (\A c \in Connections : []<>(c \notin connected)) => (server = "closing" ~> server = "down")

\* It comes to an end whatever clients do.  (Violated: server.close waits for a
\* connection that is silent or whose request stays incomplete.)
StopEnds == server = "closing" ~> server = "down"

\* Listeners, subscriptions, requests and sockets stay in step through every
\* overlap of requests, closings and stop.
RuntimeInv ==
  /\ TypeOK /\ ListenersMatchSubscriptions /\ ClosedSocketsHoldNothing
  /\ WantedGamesFollowed /\ StopLeavesNothing
=============================================================================
