----------------------------- MODULE GameClient -----------------------------
(***************************************************************************)
(* connectGameSocket of the web client over the runtime: the browser's end *)
(* of a socket and the channel to the server.  What is sent on a socket    *)
(* arrives in order until the connection breaks.  The callbacks onOpen,    *)
(* onMessage and onClose belong to the page that uses the socket, so every *)
(* action here leaves the variables of the page to it.                     *)
(***************************************************************************)
EXTENDS Runtime

CONSTANT Faults   \* may connections break and HTTP requests fail?

ASSUME ClientAssumption == Faults \in BOOLEAN

VARIABLES
  ready,      \* readyState of the browser's end of each socket
  queued,     \* queuedPayloads
  requests,   \* what the browser sent and the server has not received
  read        \* how many messages of sent the browser has received

clientVars == <<ready, queued, requests, read>>

ClientInit ==
  /\ Init
  /\ ready = [s \in Sockets |-> "none"]
  /\ queued = [s \in Sockets |-> <<>>]
  /\ requests = [s \in Sockets |-> <<>>]
  /\ read = [s \in Sockets |-> 0]

Subscribe(g) == [type |-> "SUBSCRIBE_GAME", game |-> g]
Unsubscribe(g) == [type |-> "UNSUBSCRIBE_GAME", game |-> g]

\* connectGameSocket, and what is sent before the page returns to the event
\* loop: the socket is not open yet, so it is queued.
ConnectGameSocket(s, payloads) ==
  /\ ready' = [ready EXCEPT ![s] = "connecting"]
  /\ queued' = [queued EXCEPT ![s] = payloads]

\* subscribe and unsubscribe: queued unless the socket is open, also when it
\* is closed.
SendOrDrop(s, payload) ==
  /\ requests' = [requests EXCEPT ![s] = IF ready[s] = "open" THEN Append(@, payload) ELSE @]
  /\ UNCHANGED queued
Send(s, payload) ==
  IF ready[s] = "open"
  THEN requests' = [requests EXCEPT ![s] = Append(@, payload)] /\ UNCHANGED queued
  ELSE queued' = [queued EXCEPT ![s] = Append(@, payload)] /\ UNCHANGED requests

\* The handshake reaches the server.
ServerConnects(s) ==
  /\ ready[s] = "connecting"
  /\ Connect(s)
  /\ UNCHANGED clientVars

\* The open event: what was queued is sent.
SocketOpens(s) ==
  /\ ready[s] = "connecting" /\ socket[s] # "new"
  /\ ready' = [ready EXCEPT ![s] = "open"]
  /\ requests' = [requests EXCEPT ![s] = @ \o queued[s]]
  /\ queued' = [queued EXCEPT ![s] = <<>>]
  /\ UNCHANGED <<vars, read>>

ServerReceives(s) ==
  /\ requests[s] # <<>>
  /\ LET request == Head(requests[s]) IN
       \/ request.type = "SUBSCRIBE_GAME" /\ SubscribeGame(s, request.game)
       \/ request.type = "UNSUBSCRIBE_GAME" /\ UnsubscribeGame(s, request.game)
  /\ requests' = [requests EXCEPT ![s] = Tail(@)]
  /\ UNCHANGED <<ready, queued, read>>

\* The message event of the next message.
Arriving(s) == sent[s][read[s] + 1]
MessageEvent(s) ==
  /\ ready[s] = "open" /\ read[s] < Len(sent[s])
  /\ read' = [read EXCEPT ![s] = @ + 1]
  /\ UNCHANGED <<vars, ready, queued, requests>>

\* The close event at the browser, for a socket the page did not close.
SocketCloses(s) ==
  /\ ready[s] \in {"connecting", "open"}
  /\ Faults \/ socket[s] = "closed"
  /\ ready' = [ready EXCEPT ![s] = "closed"]
  /\ UNCHANGED <<vars, queued, requests, read>>

\* The close event at the server: after all the browser sent, unless the
\* connection broke.
ServerSeesClose(s) ==
  /\ Faults \/ (ready[s] = "closed" /\ requests[s] = <<>>)
  /\ Closed(s)
  /\ requests' = [requests EXCEPT ![s] = <<>>]
  /\ UNCHANGED <<ready, queued, read>>

-----------------------------------------------------------------------------

ClientTypeOK ==
  /\ TypeOK
  /\ ready \in [Sockets -> {"none", "connecting", "open", "closed"}]
  /\ queued \in [Sockets -> Seq([type : {"SUBSCRIBE_GAME", "UNSUBSCRIBE_GAME"}, game : Games])]
  /\ requests \in [Sockets -> Seq([type : {"SUBSCRIBE_GAME", "UNSUBSCRIBE_GAME"}, game : Games])]
  /\ \A s \in Sockets : read[s] \in 0 .. Len(sent[s])
=============================================================================
