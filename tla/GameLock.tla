------------------------------ MODULE GameLock ------------------------------
(***************************************************************************)
(* What InMemoryGameTransactionRunner promises: the operations of one game *)
(* run one at a time, in the order in which they were handed in, and each  *)
(* of them gets its turn.                                                  *)
(***************************************************************************)
EXTENDS Sequences, FiniteSets

CONSTANTS
  Games,
  Calls,     \* the calls of run
  GameOf,    \* call |-> the game it is for
  NoCall     \* none of the calls

VARIABLES
  arrived,   \* the calls made so far
  line,      \* game |-> the calls not finished, in the order they arrived
  inside     \* game |-> the call whose operation runs, or NoCall

vars == <<arrived, line, inside>>

Init ==
  /\ arrived = {}
  /\ line = [g \in Games |-> <<>>]
  /\ inside = [g \in Games |-> NoCall]

Arrive(c) ==
  /\ c \notin arrived
  /\ arrived' = arrived \cup {c}
  /\ line' = [line EXCEPT ![GameOf[c]] = Append(@, c)]
  /\ UNCHANGED inside

Begin(c) ==
  /\ inside[GameOf[c]] = NoCall
  /\ line[GameOf[c]] # <<>> /\ Head(line[GameOf[c]]) = c
  /\ inside' = [inside EXCEPT ![GameOf[c]] = c]
  /\ UNCHANGED <<arrived, line>>

Finish(c) ==
  /\ inside[GameOf[c]] = c
  /\ inside' = [inside EXCEPT ![GameOf[c]] = NoCall]
  /\ line' = [line EXCEPT ![GameOf[c]] = Tail(@)]
  /\ UNCHANGED arrived

Next == \E c \in Calls : Arrive(c) \/ Begin(c) \/ Finish(c)

Fairness == \A c \in Calls : WF_vars(Begin(c)) /\ WF_vars(Finish(c))

Spec == Init /\ [][Next]_vars /\ Fairness
=============================================================================
