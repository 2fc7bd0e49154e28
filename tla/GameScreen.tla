----------------------------- MODULE GameScreen -----------------------------
(***************************************************************************)
(* Game screens over the runtime: what GameScreenClient and game-client    *)
(* make of the HTTP answers and the messages of the socket.  A screen      *)
(* loads the game, then opens its one socket and subscribes.  HTTP         *)
(* requests are served in any order and their answers overtake each other  *)
(* and the messages of the socket, which stay in order.  The screens and   *)
(* their sockets have the same names.  The labels and errors a screen      *)
(* shows, which change nothing else, are left out.                         *)
(***************************************************************************)
EXTENDS GameClient

CONSTANTS
  Game,         \* the game of all screens
  MaxCommands   \* bound on the commands sent from each screen

ASSUME ScreenAssumption ==
  /\ Game \in Games
  /\ MaxCommands \in [Sockets -> Nat]

VARIABLES
  stage,      \* of each screen: "off", "loading", "live", "failed" or "gone"
  shown,      \* gameState: the version on the screen, 0 for null
  load,       \* the request of getGame: how far it got and what it read
  commands    \* the commands each screen has sent, oldest first

screenVars == <<stage, shown, load, commands>>
allVars == <<vars, clientVars, screenVars>>

ScreenInit ==
  /\ ClientInit
  /\ stage = [s \in Sockets |-> "off"]
  /\ shown = [s \in Sockets |-> 0]
  /\ load = [s \in Sockets |-> [at |-> "none", version |-> 0]]
  /\ commands = [s \in Sockets |-> <<>>]

Show(s, v) == shown' = [shown EXCEPT ![s] = v]

-----------------------------------------------------------------------------
(* Loading.                                                                *)

\* As Mount below, but the socket is opened without waiting for the game.
MountConnecting(s) ==
  /\ stage[s] = "off"
  /\ stage' = [stage EXCEPT ![s] = "loading"]
  /\ load' = [load EXCEPT ![s].at = "asked"]
  /\ ConnectGameSocket(s, <<Subscribe(Game)>>)
  /\ UNCHANGED <<vars, shown, requests, read, commands>>

\* The effect runs: bootstrap asks for the game.
Mount(s) ==
  /\ stage[s] = "off"
  /\ stage' = [stage EXCEPT ![s] = "loading"]
  /\ load' = [load EXCEPT ![s].at = "asked"]
  /\ UNCHANGED <<vars, clientVars, shown, commands>>

\* GET /local/games/:gameId
ServeLoad(s) ==
  /\ Idle /\ Serving
  /\ load[s].at = "asked"
  /\ load' = [load EXCEPT ![s] = [at |-> "answered", version |-> games[Game]]]
  /\ UNCHANGED <<vars, clientVars, stage, shown, commands>>

\* bootstrap after its await.
NeverCancelled(s) == FALSE
Cancelled(s) == stage[s] = "gone"
LoadArrives(s) ==
  /\ load[s].at = "answered"
  /\ load' = [load EXCEPT ![s].at = "done"]
  /\ \/ /\ Cancelled(s)
        /\ UNCHANGED <<stage, shown, ready, queued>>
     \/ /\ ~Cancelled(s) /\ load[s].version = 0
        /\ stage' = [stage EXCEPT ![s] = "failed"]
        /\ UNCHANGED <<shown, ready, queued>>
     \/ /\ ~Cancelled(s) /\ load[s].version > 0
        /\ stage' = [stage EXCEPT ![s] = "live"]
        /\ Show(s, load[s].version)
        /\ ConnectGameSocket(s, <<Subscribe(Game)>>)
  /\ UNCHANGED <<vars, requests, read, commands>>

\* The request or its answer is lost.
LoadFails(s) ==
  /\ Faults
  /\ load[s].at \in {"asked", "answered"}
  /\ load' = [load EXCEPT ![s].at = "done"]
  /\ stage' = [stage EXCEPT ![s] = IF @ = "loading" THEN "failed" ELSE @]
  /\ UNCHANGED <<vars, clientVars, shown, commands>>

-----------------------------------------------------------------------------
(* The socket.                                                             *)

\* The message event: handleSocketMessage takes over a snapshot.
HandleSocketMessage(s, m) ==
  IF m.type = "GAME_SNAPSHOT" THEN Show(s, m.version) ELSE UNCHANGED shown
MessageReceived(s) ==
  /\ MessageEvent(s)
  /\ HandleSocketMessage(s, Arriving(s))
  /\ UNCHANGED <<stage, load, commands>>

\* The other events of the socket change nothing the model keeps of a screen;
\* nothing opens another socket.
SocketStep(s) ==
  /\ ServerConnects(s) \/ SocketOpens(s) \/ ServerReceives(s)
  /\ UNCHANGED screenVars
SocketBreaks(s) ==
  /\ SocketCloses(s) \/ ServerSeesClose(s)
  /\ UNCHANGED screenVars

-----------------------------------------------------------------------------
(* Commands.                                                               *)

\* submitCommand up to its await.  Nothing keeps a player from sending a
\* second command before the first is answered; each has a key of its own.
SubmitCommand(s) ==
  /\ stage[s] = "live" /\ shown[s] > 0
  /\ Len(commands[s]) < MaxCommands[s]
  /\ commands' = [commands EXCEPT ![s] = Append(@,
       [expected |-> shown[s], outcome |-> "none", version |-> 0, waiting |-> TRUE])]
  /\ UNCHANGED <<vars, clientVars, stage, shown, load>>

\* POST .../commands: accepted, if its version is the version of the game and
\* the rules allow it, or rejected.
AnyVersion(c) == games[Game] > 0
IsCurrent(c) == c.expected = games[Game]
CommandAccepted(s, i, v) ==
  /\ commands[s][i].outcome = "none"
  /\ IsCurrent(commands[s][i])
  /\ AcceptCommand(Game, v)
  /\ commands' = [commands EXCEPT ![s][i].outcome = "accepted", ![s][i].version = v]
  /\ UNCHANGED <<clientVars, stage, shown, load>>
CommandRejected(s, i) ==
  /\ Idle /\ Serving
  /\ commands[s][i].outcome = "none"
  /\ commands' = [commands EXCEPT ![s][i].outcome = "rejected"]
  /\ UNCHANGED <<vars, clientVars, stage, shown, load>>

\* submitCommand after its await: take over the state of an accepted command.
\* A screen that is gone ignores the update.
AnswerArrives(s, i) ==
  /\ commands[s][i].waiting /\ commands[s][i].outcome # "none"
  /\ commands' = [commands EXCEPT ![s][i].waiting = FALSE]
  /\ IF commands[s][i].outcome = "accepted" /\ ~Cancelled(s)
     THEN Show(s, commands[s][i].version) ELSE UNCHANGED shown
  /\ UNCHANGED <<vars, clientVars, stage, load>>

\* The request or its answer is lost; a lost request may still be served.
RequestFails(s, i) ==
  /\ Faults
  /\ commands[s][i].waiting
  /\ commands' = [commands EXCEPT ![s][i].waiting = FALSE]
  /\ UNCHANGED <<vars, clientVars, stage, shown, load>>

-----------------------------------------------------------------------------

\* The effect is cleaned up: unsubscribe, if there is a socket, and close it.
ReadyAfterCleanup(s) == [ready EXCEPT ![s] = IF @ = "none" THEN @ ELSE "closed"]
Unmount(s) ==
  /\ stage[s] \in {"loading", "live", "failed"}
  /\ stage' = [stage EXCEPT ![s] = "gone"]
  /\ ready' = ReadyAfterCleanup(s)
  /\ IF ready[s] = "none" THEN UNCHANGED <<requests, queued>> ELSE Send(s, Unsubscribe(Game))
  /\ UNCHANGED <<vars, read, shown, load, commands>>

Network(s) ==
  \/ ServeLoad(s) \/ LoadArrives(s)
  \/ SocketStep(s) \/ MessageReceived(s) \/ SocketBreaks(s)
Answers(s) ==
  \E i \in DOMAIN commands[s] :
    \/ CommandRejected(s, i) \/ AnswerArrives(s, i)
    \/ \E v \in 1 .. MaxVersion : CommandAccepted(s, i, v)
Failures(s) == LoadFails(s) \/ \E i \in DOMAIN commands[s] : RequestFails(s, i)
Player(s) == Mount(s) \/ SubmitCommand(s) \/ Unmount(s)
ServerStep ==
  /\ Start \/ CreateGame(Game) \/ LoopStep
  /\ UNCHANGED <<clientVars, screenVars>>

ScreenNext ==
  \/ ServerStep
  \/ \E s \in Sockets : Network(s) \/ Answers(s) \/ Failures(s) \/ Player(s)

\* What has been asked is served, what has been sent arrives, and a socket
\* closed at one end closes at the other.  Players need not do anything.
ScreenFairness ==
  /\ WF_allVars(ServerStep)
  /\ \A s \in Sockets :
       /\ WF_allVars(ServeLoad(s)) /\ WF_allVars(LoadArrives(s))
       /\ WF_allVars(SocketStep(s)) /\ WF_allVars(MessageReceived(s))
       /\ WF_allVars((ready[s] = "closed" \/ socket[s] = "closed") /\ SocketBreaks(s))
       /\ WF_allVars(Answers(s))

ScreenSpec == ScreenInit /\ [][ScreenNext]_allVars /\ ScreenFairness

-----------------------------------------------------------------------------
(* Properties.                                                             *)

CommandsOf ==
  [expected : Nat, outcome : {"none", "accepted", "rejected"}, version : Nat, waiting : BOOLEAN]

ScreenTypeOK ==
  /\ ClientTypeOK
  /\ stage \in [Sockets -> {"off", "loading", "live", "failed", "gone"}]
  /\ shown \in [Sockets -> Nat]
  /\ load \in [Sockets -> [at : {"none", "asked", "answered", "done"}, version : Nat]]
  /\ \A s \in Sockets : commands[s] \in Seq(CommandsOf)

\* A screen that only watches never goes back to an older state: it asks for
\* the game before it subscribes, and what follows comes in order.
WatcherNeverGoesBack ==
  [][\A s \in Sockets : commands[s] = <<>> => shown'[s] >= shown[s]]_allVars

\* Nothing is under way between the server and screen s.
AtRest(s) ==
  /\ Idle
  /\ stage[s] = "live" /\ ready[s] = "open" /\ socket[s] = "open"
  /\ requests[s] = <<>> /\ read[s] = Len(sent[s])
  /\ \A i \in DOMAIN commands[s] : ~commands[s][i].waiting

\* Once everything has arrived, a connected screen that only watches shows
\* the newest state: none is missed between the load and the subscription.
WatchersConverge ==
  \A s \in Sockets : AtRest(s) /\ commands[s] = <<>> => shown[s] = games[Game]

\* The same of every connected screen, so that two of them show the same.
\* (Violated: an answer that comes late puts an older state on the screen.)
ScreensConverge ==
  \A s \in Sockets : AtRest(s) => shown[s] = games[Game]

\* A player whose answer is lost may send a command again, from any screen:
\* of all commands sent from one state of the game at most one is applied.
AppliedOnceFromAState ==
  \A s, t \in Sockets : \A i \in DOMAIN commands[s], j \in DOMAIN commands[t] :
    /\ commands[s][i].outcome = "accepted" /\ commands[t][j].outcome = "accepted"
    /\ commands[s][i].expected = commands[t][j].expected
    => s = t /\ i = j

\* A screen that is gone has no socket left and opens none, even if it was
\* left while it was loading.
GoneScreensHaveNoSocket ==
  [][\A s \in Sockets : stage[s] = "gone" => ready'[s] \in {"none", "closed"}]_allVars

\* The server forgets the screens that are gone.
GoneScreensAreForgotten ==
  \A s \in Sockets :
    stage[s] = "gone" ~> (s \notin known /\ \A g \in Games : listeners[g][s] = 0)

\* Every new state reaches every screen that is connected and only watches.
NewStatesReachWatchers ==
  \A s \in Sockets : \A v \in 1 .. MaxVersion :
    (ready[s] = "open" /\ commands[s] = <<>> /\ games[Game] = v)
      ~> (shown[s] >= v \/ ready[s] # "open" \/ commands[s] # <<>>)

\* A screen that stays comes to show the newest state again after its socket
\* broke.  (Violated: the screen never opens another socket.)
Resynchronised ==
  \A s \in Sockets :
    [](stage[s] = "live" => <>(stage[s] # "live" \/ shown[s] = games[Game]))

\* A screen that only watches ends up with the newest state, and everything
\* the screens keep has its type.
ScreenInv == ScreenTypeOK /\ WatchersConverge
=============================================================================
