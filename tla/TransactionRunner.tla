-------------------------- MODULE TransactionRunner -------------------------
(***************************************************************************)
(* InMemoryGameTransactionRunner: one promise chain per game makes the     *)
(* operations of a game wait for each other.  The model follows the chain  *)
(* microtask by microtask, because what a caller does when run returns     *)
(* (the registry publishes the update) races with the start of the next    *)
(* operation, and only the order of the microtasks decides that race.      *)
(*                                                                         *)
(* A call of run owns three promises:                                      *)
(*   previous  the queued promise of the call before it, or a resolved one *)
(*   current   resolved by releaseCurrent                                  *)
(*   queued    previous.then(() => current), the promise kept in #locks    *)
(***************************************************************************)
EXTENDS Naturals, Sequences, FiniteSets, Subsequences

CONSTANTS
  Games,
  Calls,     \* the calls of run
  GameOf,    \* call |-> the game it is for
  NoCall

ASSUME RunnerAssumption == GameOf \in [Calls -> Games] /\ NoCall \notin Calls

VARIABLES
  microtasks, \* the queue of the event loop
  arrivals,   \* history: the calls of run in the order they were made
  phase,      \* call |-> how far its run has come
  locks,      \* #locks: game |-> the call whose queued promise is stored
  previous,   \* call |-> the call whose queued promise it awaits
  released,   \* the calls whose current promise is resolved
  queued      \* call |-> state of its queued promise

runnerVars == <<arrivals, phase, locks, previous, released, queued>>
vars == <<microtasks, runnerVars>>

Job(do, c) == [do |-> do, of |-> c]

\* The event loop runs the job at the head of the queue.
Runs(do, c) == microtasks # <<>> /\ Head(microtasks) = Job(do, c)

\* A queued promise is resolved, or there was none to wait for.
Settled(p) == p # NoCall => queued[p] = "resolved"

\* The reactions a call registers on its previous promise, in this order:
\* then(() => current), and the rest of run behind the await.
ReactionsOf(c) == <<Job("FollowCurrent", c), Job("Begin", c)>>

-----------------------------------------------------------------------------

Init ==
  /\ microtasks = <<>>
  /\ arrivals = <<>>
  /\ phase = [c \in Calls |-> "idle"]
  /\ locks = [g \in Games |-> NoCall]
  /\ previous = [c \in Calls |-> NoCall]
  /\ released = {}
  /\ queued = [c \in Calls |-> "none"]

\* #locks.get(gameId) ?? Promise.resolve()
PreviousIgnored(c) == NoCall
PreviousOf(c) == locks[GameOf[c]]

\* run up to its first await, called while rest is what the queue holds.
CallRun(c, rest) ==
  /\ phase[c] = "idle"
  /\ phase' = [phase EXCEPT ![c] = "waiting"]
  /\ previous' = [previous EXCEPT ![c] = PreviousOf(c)]
  /\ locks' = [locks EXCEPT ![GameOf[c]] = c]
  /\ queued' = [queued EXCEPT ![c] = "pending"]
  /\ arrivals' = Append(arrivals, c)
  /\ microtasks' = IF Settled(PreviousOf(c)) THEN rest \o ReactionsOf(c) ELSE rest
  /\ UNCHANGED released

\* The callback of previous.then returns current, so a further job subscribes
\* the queued promise to it.
FollowCurrent(c) ==
  /\ Runs("FollowCurrent", c)
  /\ microtasks' = Append(Tail(microtasks), Job("Subscribe", c))
  /\ UNCHANGED runnerVars

Subscribe(c) ==
  /\ Runs("Subscribe", c)
  /\ microtasks' = IF c \in released THEN Append(Tail(microtasks), Job("Settle", c))
                   ELSE Tail(microtasks)
  /\ queued' = [queued EXCEPT ![c] = "following"]
  /\ UNCHANGED <<arrivals, phase, locks, previous, released>>

\* The queued promise resolves and wakes the call that waits for it, if any.
\* There is one at most: it took the place of c in #locks.
Settle(c) ==
  /\ Runs("Settle", c)
  /\ queued' = [queued EXCEPT ![c] = "resolved"]
  /\ \/ /\ \A d \in Calls : previous[d] # c
        /\ microtasks' = Tail(microtasks)
     \/ \E d \in Calls :
          /\ previous[d] = c
          /\ microtasks' = Tail(microtasks) \o ReactionsOf(d)
  /\ UNCHANGED <<arrivals, phase, locks, previous, released>>

\* await previous is over: run calls the operation, whose first await leaves
\* the jobs in more.
BeginWith(c, more) ==
  /\ Runs("Begin", c)
  /\ phase' = [phase EXCEPT ![c] = "operating"]
  /\ microtasks' = Tail(microtasks) \o more
  /\ UNCHANGED <<arrivals, locks, previous, released, queued>>
Begin(c) == BeginWith(c, <<>>)

\* The operation returns or throws; run continues in its finally block.
OperationEnds(c) ==
  /\ phase[c] = "operating"
  /\ phase' = [phase EXCEPT ![c] = "ending"]
  /\ microtasks' = Append(microtasks, Job("Finish", c))
  /\ UNCHANGED <<arrivals, locks, previous, released, queued>>

\* if (this.#locks.get(gameId) === queued) this.#locks.delete(gameId)
LocksAlwaysDeleted(c) == [locks EXCEPT ![GameOf[c]] = NoCall]
LocksNeverDeleted(c) == locks
LocksAfterFinish(c) ==
  [locks EXCEPT ![GameOf[c]] = IF @ = c THEN NoCall ELSE @]

\* What releaseCurrent and then the return of run put into the queue.
JobsNothingReleased(c) == <<Job("Return", c)>>
JobsAfterFinish(c) ==
  IF queued[c] = "following" THEN <<Job("Settle", c), Job("Return", c)>>
  ELSE <<Job("Return", c)>>

\* The finally block.
Finish(c) ==
  /\ Runs("Finish", c)
  /\ phase' = [phase EXCEPT ![c] = "finished"]
  /\ released' = released \cup {c}
  /\ locks' = LocksAfterFinish(c)
  /\ microtasks' = Tail(microtasks) \o JobsAfterFinish(c)
  /\ UNCHANGED <<arrivals, previous, queued>>

\* The caller of run continues behind its own await.
Return(c) ==
  /\ Runs("Return", c)
  /\ phase' = [phase EXCEPT ![c] = "returned"]
  /\ microtasks' = Tail(microtasks)
  /\ UNCHANGED <<arrivals, locks, previous, released, queued>>

\* A call of run can come from any synchronous code between two microtasks.
Call(c) == CallRun(c, microtasks)

Microtask(c) ==
  FollowCurrent(c) \/ Subscribe(c) \/ Settle(c) \/ Begin(c) \/ Finish(c) \/ Return(c)

Next == \E c \in Calls : Call(c) \/ OperationEnds(c) \/ Microtask(c)

\* The event loop drains its queue, and an operation of the registry, which
\* only touches maps in memory, comes to its end.
Fairness ==
  /\ WF_vars(\E c \in Calls : Microtask(c))
  /\ \A c \in Calls : WF_vars(OperationEnds(c))

Spec == Init /\ [][Next]_vars /\ Fairness

-----------------------------------------------------------------------------
(* Properties.                                                             *)

InOperation == {c \in Calls : phase[c] \in {"operating", "ending"}}
Unfinished(c) == phase[c] \in {"waiting", "operating", "ending"}
Jobs == {"FollowCurrent", "Subscribe", "Settle", "Begin", "Finish", "Return"}

TypeOK ==
  /\ microtasks \in Seq([do : Jobs, of : Calls])
  /\ arrivals \in Seq(Calls)
  /\ phase \in [Calls -> {"idle", "waiting", "operating", "ending", "finished", "returned"}]
  /\ locks \in [Games -> Calls \cup {NoCall}]
  /\ previous \in [Calls -> Calls \cup {NoCall}]
  /\ released \subseteq Calls
  /\ queued \in [Calls -> {"none", "pending", "following", "resolved"}]

\* Two operations of one game never overlap.
OneOperationPerGame ==
  \A c, d \in InOperation : GameOf[c] = GameOf[d] => c = d

\* The calls of game g that have not finished, in the order of their arrival.
LineOf(g) == Kept(arrivals, {c \in Calls : GameOf[c] = g /\ Unfinished(c)})

\* #locks holds the queued promise of the last unfinished call of a game and
\* nothing for a game without one: no entry is lost while somebody depends on
\* it and none stays behind.
Places(g) == {i \in DOMAIN arrivals : GameOf[arrivals[i]] = g /\ Unfinished(arrivals[i])}
LocksAreTheTails ==
  \A g \in Games :
    IF Places(g) = {} THEN locks[g] = NoCall
    ELSE \E i \in Places(g) : locks[g] = arrivals[i] /\ \A j \in Places(g) : j <= i

\* Operations of a game exclude each other, and the map behind it leaks nothing.
RunnerInv == TypeOK /\ OneOperationPerGame /\ LocksAreTheTails

\* When an operation begins, every earlier call of its game has returned to
\* its caller: what the caller does right after run, it does before the next
\* operation of the game sees any state.
ReturnedBeforeNext ==
  \A c \in InOperation : \A i, j \in DOMAIN arrivals :
    i < j /\ arrivals[j] = c /\ GameOf[arrivals[i]] = GameOf[c]
      => phase[arrivals[i]] = "returned"

\* Every call of run returns to its caller.
EveryCallReturns == \A c \in Calls : phase[c] = "waiting" ~> phase[c] = "returned"

\* The promise chain is a first-come, first-served lock for each game.
Lock == INSTANCE GameLock WITH
  arrived <- {arrivals[i] : i \in DOMAIN arrivals},
  line <- [g \in Games |-> LineOf(g)],
  inside <- [g \in Games |->
    IF \E c \in InOperation : GameOf[c] = g
    THEN CHOOSE c \in InOperation : GameOf[c] = g ELSE NoCall]
ImplementsGameLock == Lock!Spec
=============================================================================
