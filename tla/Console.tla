------------------------------ MODULE Console ------------------------------
(***************************************************************************)
(* The local runtime console: one page that creates and joins games, may   *)
(* change its user, and sends commands for the game it shows.  Its sockets *)
(* are the handles connectGameSocket has returned, one after the other.    *)
(* The callbacks of a socket stay attached after the page has closed it.   *)
(* The texts of errors and results are left out.                           *)
(***************************************************************************)
EXTENDS GameClient

CONSTANTS
  NoGame,
  MaxJoins,     \* bound on the games created and joined
  MaxPosts      \* bound on the commands sent

ASSUME ConsoleAssumption ==
  /\ NoGame \notin Games
  /\ MaxJoins \in Nat /\ MaxPosts \in Nat

VARIABLES
  current,    \* socketRef.current
  closing,    \* the sockets the page has closed and whose close event is due
  active,     \* activeGameId
  state,      \* gameState: its game and version
  label,      \* connectionState
  pressed,    \* connect was pressed and has had no effect yet (history)
  asked,      \* the games it asked its socket to follow (history)
  joins,      \* the requests of createGame and getGame, oldest first
  posts       \* the commands sent, oldest first

consoleVars == <<current, closing, active, state, label, pressed, asked, joins, posts>>
systemVars == <<vars, clientVars, consoleVars>>

ConsoleInit ==
  /\ ClientInit
  /\ current = NoSocket /\ closing = {}
  /\ active = NoGame
  /\ state = [game |-> NoGame, version |-> 0]
  /\ label = "disconnected" /\ pressed = FALSE /\ asked = {}
  /\ joins = <<>> /\ posts = <<>>

-----------------------------------------------------------------------------
(* The socket of the page.                                                 *)

\* ensureSocket, followed by sending payloads: the socket at hand is taken in
\* whatever state it is.
EnsureSocket(payloads) ==
  \/ /\ current # NoSocket
     /\ \/ payloads = <<>> /\ UNCHANGED <<requests, queued>>
        \/ payloads # <<>> /\ Send(current, Head(payloads))
     /\ UNCHANGED <<ready, current, label>>
  \/ /\ current = NoSocket
     /\ \E s \in Sockets : ready[s] = "none"
     /\ current' = CHOOSE s \in Sockets : ready[s] = "none"
     /\ ConnectGameSocket(current', payloads)
     /\ label' = "connecting"
     /\ UNCHANGED requests

\* handleConnect; pressed while the page says it is connected it does nothing.
PressConnect ==
  /\ label # "connected"
  /\ EnsureSocket(<<>>)
  /\ pressed' = TRUE
  /\ UNCHANGED <<vars, read, closing, active, state, asked, joins, posts>>

\* The effect of another user id: close the socket and forget it.
HandleClosed == [ready EXCEPT ![current] = "closed"]
ChangeUser ==
  /\ current # NoSocket
  /\ ready' = HandleClosed
  /\ closing' = IF ready[current] = "closed" THEN closing ELSE closing \cup {current}
  /\ current' = NoSocket
  /\ label' = "disconnected" /\ pressed' = FALSE /\ asked' = {}
  /\ UNCHANGED <<vars, queued, requests, read, active, state, joins, posts>>

\* onOpen
OpenEvent(s) ==
  /\ SocketOpens(s)
  /\ label' = "connected" /\ pressed' = FALSE
  /\ UNCHANGED <<current, closing, active, state, asked, joins, posts>>

\* onClose, of a socket that broke and of one the page has closed.
LabelUnchanged == label
LabelAfterClose == "disconnected"
BreakEvent(s) ==
  /\ SocketCloses(s)
  /\ label' = LabelAfterClose /\ pressed' = FALSE
  /\ UNCHANGED <<current, closing, active, state, asked, joins, posts>>
CloseEvent(s) ==
  /\ s \in closing
  /\ closing' = closing \ {s}
  /\ label' = LabelAfterClose
  /\ UNCHANGED <<vars, clientVars, current, active, state, pressed, asked, joins, posts>>

\* handleSocketMessage takes over a snapshot of any game.
ConsoleMessage(s) ==
  /\ MessageEvent(s)
  /\ state' = IF Arriving(s).type = "GAME_SNAPSHOT"
              THEN [game |-> Arriving(s).game, version |-> Arriving(s).version] ELSE state
  /\ UNCHANGED <<current, closing, active, label, pressed, asked, joins, posts>>

-----------------------------------------------------------------------------
(* Creating and joining games.                                             *)

\* handleCreateGame and handleJoinGame up to their await.  The id of a game
\* that is created is new.
AskForGame(kind, g) ==
  /\ Len(joins) < MaxJoins
  /\ kind = "create" => games[g] = 0 /\ \A i \in DOMAIN joins : joins[i].game # g
  /\ joins' = Append(joins, [kind |-> kind, game |-> g, at |-> "asked", version |-> 0])
  /\ UNCHANGED <<vars, clientVars, current, closing, active, state, label, pressed, asked, posts>>

Answered(i, v) == joins' = [joins EXCEPT ![i].at = "answered", ![i].version = v]
ServeJoin(i) ==
  /\ joins[i].at = "asked"
  /\ \/ /\ joins[i].kind = "join" /\ Idle /\ Serving
        /\ Answered(i, games[joins[i].game])
        /\ UNCHANGED vars
     \/ /\ joins[i].kind = "create" /\ CreateGame(joins[i].game)
        /\ Answered(i, 1)
  /\ UNCHANGED <<clientVars, current, closing, active, state, label, pressed, asked, posts>>

\* After the await: take over the game and subscribe to it.  The game that was
\* active before stays subscribed.
JoinArrives(i) ==
  /\ joins[i].at = "answered"
  /\ joins' = [joins EXCEPT ![i].at = "done"]
  /\ \/ /\ joins[i].version = 0
        /\ UNCHANGED <<ready, queued, requests, current, active, state, label, asked>>
     \/ /\ joins[i].version > 0
        /\ active' = joins[i].game
        /\ state' = [game |-> joins[i].game, version |-> joins[i].version]
        /\ EnsureSocket(<<Subscribe(joins[i].game)>>)
        /\ asked' = asked \cup {joins[i].game}
  /\ UNCHANGED <<vars, read, closing, pressed, posts>>

-----------------------------------------------------------------------------
(* Commands.                                                               *)

\* submitCommand: the path names the active game, the command the game shown.
ConsoleSubmitCommand ==
  /\ active # NoGame /\ state.version > 0
  /\ Len(posts) < MaxPosts
  /\ posts' = Append(posts, [path |-> active, game |-> state.game, expected |-> state.version,
                             outcome |-> "none", version |-> 0, waiting |-> TRUE])
  /\ UNCHANGED <<vars, clientVars, current, closing, active, state, label, pressed, asked, joins>>

\* The route compares path and command before anything else.
PathMatches(c) == c.path = c.game
ServePost(i) ==
  LET c == posts[i] IN
    /\ c.outcome = "none"
    /\ \/ /\ PathMatches(c) /\ c.expected = games[c.game]
          /\ \E v \in 1 .. MaxVersion :
               /\ AcceptCommand(c.game, v)
               /\ posts' = [posts EXCEPT ![i].outcome = "accepted", ![i].version = v]
       \/ /\ Idle /\ Serving
          /\ posts' = [posts EXCEPT ![i].outcome =
                         IF PathMatches(c) THEN "rejected" ELSE "mismatch"]
          /\ UNCHANGED vars
    /\ UNCHANGED <<clientVars, current, closing, active, state, label, pressed, asked, joins>>

PostArrives(i) ==
  /\ posts[i].waiting /\ posts[i].outcome # "none"
  /\ posts' = [posts EXCEPT ![i].waiting = FALSE]
  /\ state' = IF posts[i].outcome = "accepted"
              THEN [game |-> posts[i].game, version |-> posts[i].version] ELSE state
  /\ UNCHANGED <<vars, clientVars, current, closing, active, label, pressed, asked, joins>>

-----------------------------------------------------------------------------

Person ==
  \/ PressConnect \/ ChangeUser \/ ConsoleSubmitCommand
  \/ \E g \in Games : AskForGame("join", g) \/ AskForGame("create", g)
ConsoleServerStep ==
  \/ (Start \/ LoopStep) /\ UNCHANGED <<clientVars, consoleVars>>
  \/ (\E s \in Sockets : ServerConnects(s) \/ ServerReceives(s)) /\ UNCHANGED consoleVars
SocketEnds == (\E s \in Sockets : ServerSeesClose(s)) /\ UNCHANGED consoleVars
SocketEvents ==
  \E s \in Sockets : OpenEvent(s) \/ BreakEvent(s) \/ CloseEvent(s) \/ ConsoleMessage(s)
ConsoleAnswers ==
  \/ \E i \in DOMAIN joins : ServeJoin(i) \/ JoinArrives(i)
  \/ \E i \in DOMAIN posts : ServePost(i) \/ PostArrives(i)

ConsoleNext == Person \/ ConsoleServerStep \/ SocketEnds \/ SocketEvents \/ ConsoleAnswers

\* The server works, and what was sent arrives.  A connection need not break.
ConsoleFairness ==
  /\ WF_systemVars(ConsoleServerStep) /\ WF_systemVars(ConsoleAnswers)
  /\ WF_systemVars(\E s \in Sockets :
       \/ OpenEvent(s) \/ CloseEvent(s) \/ ConsoleMessage(s)
       \/ socket[s] = "closed" /\ BreakEvent(s))

ConsoleSpec == ConsoleInit /\ [][ConsoleNext]_systemVars /\ ConsoleFairness

-----------------------------------------------------------------------------
(* Properties.                                                             *)

JoinsOf ==
  [kind : {"join", "create"}, game : Games, at : {"asked", "answered", "done"}, version : Nat]
PostsOf ==
  [path : Games, game : Games, expected : Nat,
   outcome : {"none", "accepted", "rejected", "mismatch"}, version : Nat, waiting : BOOLEAN]

ConsoleTypeOK ==
  /\ ClientTypeOK
  /\ current \in Sockets \cup {NoSocket} /\ closing \subseteq Sockets
  /\ active \in Games \cup {NoGame}
  /\ state \in [game : Games \cup {NoGame}, version : Nat]
  /\ label \in {"disconnected", "connecting", "connected"} /\ pressed \in BOOLEAN
  /\ asked \subseteq Games
  /\ joins \in Seq(JoinsOf) /\ posts \in Seq(PostsOf)

\* The page never says that it is connected when the socket it would use is
\* not open, whatever callbacks of earlier sockets still come.
NeverFalselyConnected ==
  label = "connected" => current # NoSocket /\ ready[current] = "open"

\* However often the user changes, the page has one socket at most: it closes
\* each one before it forgets it.
OneSocketAtATime ==
  \A s \in Sockets : ready[s] \in {"connecting", "open"} => s = current

\* The label, the handle, the sockets themselves and what the server follows
\* for them agree.
ConsoleInv ==
  ConsoleTypeOK /\ NeverFalselyConnected /\ OneSocketAtATime /\ LastRequestWins

\* A game that is joined comes to be followed, also one joined while the
\* socket is connecting, unless the user changes or the socket closes first.
JoinedGameIsFollowed ==
  \A g \in Games :
    g \in asked ~>
      \/ g \notin asked
      \/ current # NoSocket /\ (g \in watched[current] \/ ready[current] = "closed")

\* A command is sent to the game it is for.  (Violated: a snapshot or an answer
\* of a game joined earlier replaces the state but not the active game.)
CommandsSentToTheirGame == \A i \in DOMAIN posts : posts[i].path = posts[i].game

\* Pressing connect has an effect: a socket opens, or fails to.  (Violated: a
\* socket that broke is taken for the one to use.)
ConnectHasEffect == pressed ~> ~pressed
=============================================================================
