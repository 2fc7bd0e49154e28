--------------------------- MODULE CommandService ---------------------------
(***************************************************************************)
(* GameCommandService.handle over LocalGameRegistryRepository: the command *)
(* pipeline from the check of the idempotency key to the published update. *)
(* Calls of handle interleave at every await.  The repositories are maps   *)
(* in memory behind async functions, so what interleaves are microtasks,   *)
(* and an action here is one of them: the code from one await to the next. *)
(*                                                                         *)
(* A game state is its version, its status and the commands it is made of; *)
(* RuleEngine says what they do to a game.  Payloads, fingerprints and the *)
(* copies the repositories make are a command's identity here.             *)
(***************************************************************************)
EXTENDS Integers, Sequences, FiniteSets, SequencesExt, Subsequences

CONSTANTS
  Games,
  Calls,        \* the calls of handle
  GameOf,       \* call |-> game its command is for
  NoCall,
  Commands,     \* the commands that are sent, some of them several times
  Key,          \* command |-> idempotencyKey, NoKey for a blank one
  NoKey,
  Expected,     \* command |-> expectedVersion
  Effect,       \* command |-> what the rule engine makes of it
  NoState,      \* a game that does not exist
  None,         \* no stored record, no answer yet
  StorageFails, \* may persistCommandSuccess throw?
  MaxInFlight   \* bound on the unanswered calls of a game

ASSUME ServiceAssumption ==
  /\ GameOf \in [Calls -> Games] /\ NoCall \notin Calls
  /\ Expected \in [Commands -> Nat]
  /\ Effect \in [Commands -> {"move", "finish", "refused"}]
  /\ StorageFails \in BOOLEAN
  /\ MaxInFlight \in Nat \ {0}

Keys == {Key[m] : m \in Commands} \ {NoKey}

VARIABLES
  microtasks, arrivals, phase, locks, previous, released, queued,
  command,    \* call |-> its command
  stored,     \* call |-> the stored success it found
  context,    \* call |-> the game state it loaded
  failed,     \* the calls whose persistence threw
  answer,     \* call |-> what handle returned
  snapshots,  \* #gameRepository: game |-> state
  records,    \* #commandRepository: game |-> key |-> stored success
  log,        \* #eventRepository: game |-> events
  published   \* game |-> the updates a listener received

Runner == INSTANCE TransactionRunner

runnerVars == <<arrivals, phase, locks, previous, released, queued>>
handleVars == <<command, stored, context, failed, answer>>
storageVars == <<snapshots, records, log>>
vars == <<microtasks, runnerVars, handleVars, storageVars, published>>

Job(do, h) == [do |-> do, of |-> h]
Runs(do, h) == Runner!Runs(do, h)
\* The job at the head is done, and the call goes on with the job named next.
ContinueAt(next, h) == microtasks' = Append(Tail(microtasks), Job(next, h))
Stops == microtasks' = Tail(microtasks)

-----------------------------------------------------------------------------
(* The rule engine, seen from the service.                                 *)

NewGame == [version |-> 1, status |-> "IN_PROGRESS", moves |-> <<>>]

\* An END_TURN that ends the game raises the version by two: TURN_ENDED and
\* GAME_ENDED.
NextState(state, m) ==
  [version |-> state.version + (IF Effect[m] = "finish" THEN 2 ELSE 1),
   status |-> IF Effect[m] = "finish" THEN "ENDED" ELSE "IN_PROGRESS",
   moves |-> Append(state.moves, m)]

\* What call h makes of the state it loaded: nextState and events.
Result(h) == NextState(context[h], command[h])
Event(v, h) == [version |-> v, of |-> command[h], by |-> h]
EventsOf(h) ==
  [i \in 1 .. Result(h).version - context[h].version |-> Event(context[h].version + i, h)]

\* Why handle turns down command m in state, in the order of its checks.
IsVersionConflict(state, m) == Expected[m] # state.version
RefusalOf(state, m) ==
  CASE state = NoState -> "STATE_NOT_FOUND"
    [] state # NoState /\ IsVersionConflict(state, m) -> "VERSION_CONFLICT"
    [] OTHER -> IF state.status # "IN_PROGRESS" THEN "STATE_NOT_ACTIVE"
                ELSE IF Effect[m] = "refused" THEN "POLICY_VIOLATION" ELSE "NONE"

-----------------------------------------------------------------------------
(* Answers.                                                                *)

Accepted(h) == [kind |-> "accepted", state |-> Result(h)]
Replayed(record) == [kind |-> "replayed", state |-> record.state]
Rejected(reason) == [kind |-> "rejected", reason |-> reason]

Answer(h, a) == answer' = [answer EXCEPT ![h] = a]

InFlight(g) == {h \in Calls : GameOf[h] = g /\ command[h] # None /\ answer[h] = None}

-----------------------------------------------------------------------------

Init ==
  /\ Runner!Init
  /\ command = [h \in Calls |-> None]
  /\ stored = [h \in Calls |-> None]
  /\ context = [h \in Calls |-> NoState]
  /\ failed = {}
  /\ answer = [h \in Calls |-> None]
  /\ snapshots = [g \in Games |-> NoState]
  /\ records = [g \in Games |-> [k \in Keys |-> None]]
  /\ log = [g \in Games |-> <<>>]
  /\ published = [g \in Games |-> <<>>]

\* createGame; for a game that exists it throws and changes nothing.
CreateGame(g) ==
  /\ snapshots[g] = NoState
  /\ snapshots' = [snapshots EXCEPT ![g] = NewGame]
  /\ UNCHANGED <<microtasks, runnerVars, handleVars, records, log, published>>

\* handle(m) up to its first await: loadStoredCommandSuccess reads the record.
Handle(h, m) ==
  /\ command[h] = None
  /\ Cardinality(InFlight(GameOf[h])) < MaxInFlight
  /\ command' = [command EXCEPT ![h] = m]
  /\ stored' = [stored EXCEPT ![h] =
                  IF Key[m] = NoKey THEN None ELSE records[GameOf[h]][Key[m]]]
  /\ microtasks' = Append(microtasks, Job("StoredReturns", h))
  /\ UNCHANGED <<runnerVars, context, failed, answer, storageVars, published>>

\* An async function of the registry returns: one more microtask.
StoredReturns(h) ==
  /\ Runs("StoredReturns", h)
  /\ ContinueAt("StoredLoaded", h)
  /\ UNCHANGED <<runnerVars, handleVars, storageVars, published>>

\* evaluateIdempotencyKey and #handleDuplicateCommand
LoadedFromStart(g) == IF snapshots[g] = NoState THEN NoState ELSE NewGame
LoadedState(g) == snapshots[g]
NeverSeen(h) == FALSE
IsDuplicate(h) == stored[h] # None
AnswerDuplicate(h) ==
  IF stored[h].command # command[h] THEN Rejected("IDEMPOTENCY_PAYLOAD_MISMATCH")
  ELSE Replayed(stored[h])

\* handle after its first await: answer a blank or a known key, otherwise
\* read the game.
StoredLoaded(h) ==
  /\ Runs("StoredLoaded", h)
  /\ \/ /\ Key[command[h]] = NoKey
        /\ Answer(h, Rejected("MISSING_IDEMPOTENCY_KEY"))
        /\ Stops
        /\ UNCHANGED context
     \/ /\ Key[command[h]] # NoKey /\ IsDuplicate(h)
        /\ Answer(h, AnswerDuplicate(h))
        /\ Stops
        /\ UNCHANGED context
     \/ /\ Key[command[h]] # NoKey /\ ~IsDuplicate(h)
        /\ context' = [context EXCEPT ![h] = LoadedState(GameOf[h])]
        /\ ContinueAt("ContextReturns", h)
        /\ UNCHANGED answer
  /\ UNCHANGED <<runnerVars, command, stored, failed, storageVars, published>>

ContextReturns(h) ==
  /\ Runs("ContextReturns", h)
  /\ ContinueAt("ContextLoaded", h)
  /\ UNCHANGED <<runnerVars, handleVars, storageVars, published>>

\* handle after its second await: check the version, ask the rule engine, and
\* hand the result to a transaction of the game.
ContextLoaded(h) ==
  LET refusal == RefusalOf(context[h], command[h])
  IN  /\ Runs("ContextLoaded", h)
      /\ \/ /\ refusal # "NONE"
            /\ Answer(h, Rejected(refusal))
            /\ Stops
            /\ UNCHANGED runnerVars
         \/ /\ refusal = "NONE"
            /\ Runner!CallRun(h, Tail(microtasks))
            /\ UNCHANGED answer
      /\ UNCHANGED <<command, stored, context, failed, storageVars, published>>

\* The transaction of persistCommandSuccess, one await after the other.
BeginTransaction(h) ==
  /\ Runner!BeginWith(h, <<Job("SnapshotLoaded", h)>>)
  /\ UNCHANGED <<handleVars, storageVars, published>>

\* The transaction throws before it has written anything; run goes on in its
\* finally block.
ThrowsPast(next, h) ==
  /\ StorageFails
  /\ Runs("SnapshotLoaded", h)
  /\ failed' = failed \cup {h}
  /\ phase' = [phase EXCEPT ![h] = "ending"]
  /\ ContinueAt(next, h)
  /\ UNCHANGED <<arrivals, locks, previous, released, queued,
                 command, stored, context, answer, storageVars, published>>
ThrowsPastFinally(h) == ThrowsPast("Return", h)
TransactionThrows(h) == ThrowsPast("Finish", h)

RecordOfContext(h) == [command |-> command[h], state |-> context[h]]
RecordOf(h) == [command |-> command[h], state |-> Result(h)]
SaveRecord(h) ==
  /\ Runs("SnapshotLoaded", h)
  /\ records' = [records EXCEPT ![GameOf[h]][Key[command[h]]] = RecordOf(h)]
  /\ ContinueAt("RecordSaved", h)
  /\ UNCHANGED <<runnerVars, handleVars, snapshots, log, published>>

AppendEvents(h) ==
  /\ Runs("RecordSaved", h)
  /\ log' = [log EXCEPT ![GameOf[h]] = @ \o EventsOf(h)]
  /\ ContinueAt("EventsAppended", h)
  /\ UNCHANGED <<runnerVars, handleVars, snapshots, records, published>>

SavedOverAgain(h) == snapshots[GameOf[h]]
SavedSnapshot(h) == Result(h)
SaveSnapshot(h) ==
  /\ Runs("EventsAppended", h)
  /\ snapshots' = [snapshots EXCEPT ![GameOf[h]] = SavedSnapshot(h)]
  /\ ContinueAt("SnapshotSaved", h)
  /\ UNCHANGED <<runnerVars, handleVars, records, log, published>>

TransactionReturns(h) ==
  /\ Runs("SnapshotSaved", h)
  /\ phase' = [phase EXCEPT ![h] = "ending"]
  /\ ContinueAt("Finish", h)
  /\ UNCHANGED <<arrivals, locks, previous, released, queued,
                 handleVars, storageVars, published>>

\* The transaction runner's own microtasks.
RunnerStep(h) ==
  /\ \/ Runner!FollowCurrent(h) \/ Runner!Subscribe(h)
     \/ Runner!Settle(h) \/ Runner!Finish(h)
  /\ UNCHANGED <<handleVars, storageVars, published>>

\* persistCommandSuccess after its transaction: publish, unless it threw.
PublishesAlways(h) == TRUE
Publishes(h) == h \notin failed
Publish(h) ==
  /\ Runs("Return", h)
  /\ phase' = [phase EXCEPT ![h] = "returned"]
  /\ published' = IF Publishes(h)
       THEN [published EXCEPT ![GameOf[h]] = Append(@, [by |-> h, state |-> Result(h)])]
       ELSE published
  /\ ContinueAt("Persisted", h)
  /\ UNCHANGED <<arrivals, locks, previous, released, queued, handleVars, storageVars>>

\* handle after its last await.
AnswerAlwaysAccepted(h) == Accepted(h)
AnswerPersisted(h) == IF h \in failed THEN Rejected("INFRA_FAILURE") ELSE Accepted(h)
Persisted(h) ==
  /\ Runs("Persisted", h)
  /\ Answer(h, AnswerPersisted(h))
  /\ Stops
  /\ UNCHANGED <<runnerVars, command, stored, context, failed, storageVars, published>>

Transaction(h) ==
  \/ BeginTransaction(h) \/ TransactionThrows(h) \/ SaveRecord(h) \/ AppendEvents(h)
  \/ SaveSnapshot(h) \/ TransactionReturns(h)

Microtask(h) ==
  \/ StoredReturns(h) \/ StoredLoaded(h) \/ ContextReturns(h) \/ ContextLoaded(h)
  \/ Transaction(h) \/ RunnerStep(h) \/ Publish(h) \/ Persisted(h)

Next ==
  \/ \E g \in Games : CreateGame(g)
  \/ \E h \in Calls : Microtask(h) \/ \E m \in Commands : Handle(h, m)

\* The event loop drains its queue of microtasks.
Fairness == WF_vars(\E h \in Calls : Microtask(h))

Spec == Init /\ [][Next]_vars /\ Fairness

-----------------------------------------------------------------------------
(* Properties.                                                             *)

StatesOf == [version : Nat, status : {"IN_PROGRESS", "ENDED"}, moves : Seq(Commands)]
AnswersOf ==
  [kind : {"accepted", "replayed"}, state : StatesOf]
  \cup [kind : {"rejected"},
        reason : {"MISSING_IDEMPOTENCY_KEY", "IDEMPOTENCY_PAYLOAD_MISMATCH",
                  "STATE_NOT_FOUND", "VERSION_CONFLICT", "STATE_NOT_ACTIVE",
                  "POLICY_VIOLATION", "INFRA_FAILURE"}]

RecordsOf == [command : Commands, state : StatesOf]

\* undefined and null are none of the values they stand for the lack of.
ASSUME LackAssumption ==
  None \notin Commands /\ None \notin RecordsOf /\ None \notin AnswersOf
  /\ NoState \notin StatesOf

TypeOK ==
  /\ command \in [Calls -> Commands \cup {None}]
  /\ stored \in [Calls -> RecordsOf \cup {None}]
  /\ context \in [Calls -> StatesOf \cup {NoState}]
  /\ failed \subseteq Calls
  /\ answer \in [Calls -> AnswersOf \cup {None}]
  /\ snapshots \in [Games -> StatesOf \cup {NoState}]
  /\ records \in [Games -> [Keys -> RecordsOf \cup {None}]]
  /\ log \in [Games -> Seq([version : Nat, of : Commands, by : Calls])]
  /\ published \in [Games -> Seq([by : Calls, state : StatesOf])]

\* The calls that committed to game g, in the order of their events.
FirstEvents ==
  {Event(context[h].version + 1, h) : h \in {d \in Calls : context[d] # NoState}}
Committed(g) ==
  LET firsts == Kept(log[g], FirstEvents) IN [i \in DOMAIN firsts |-> firsts[i].by]
CommittedCalls(g) == ToSet(Committed(g))
InTransaction(g) ==
  {h \in Calls : GameOf[h] = g /\ phase[h] \in {"operating", "ending", "finished"}}

\* Between transactions the three repositories tell the same story, whatever
\* was sent concurrently: the snapshot is the state of the last commit in the
\* log, and a key has a record exactly if one of its commands is in the log,
\* that of the last one.
StorageAgrees ==
  \A g \in Games : InTransaction(g) = {} /\ snapshots[g] # NoState =>
    /\ snapshots[g] = IF log[g] = <<>> THEN NewGame ELSE Result(Last(Committed(g)))
    /\ \A k \in Keys :
         LET mine == Kept(Committed(g), {h \in CommittedCalls(g) : Key[command[h]] = k})
         IN  records[g][k] = IF mine = <<>> THEN None ELSE RecordOf(Last(mine))

\* Every call and every store is well formed, and the stores agree.
StoresInOrder == TypeOK /\ StorageAgrees

\* A client is told the truth: accepted means that this very call is in the
\* log, once; replayed, that another call with the same command is; rejected,
\* that this call has left nothing behind.
AnswersMatchLog ==
  \A h \in Calls : answer[h] # None =>
    LET times == Len(Kept(Committed(GameOf[h]), {h}))
    IN  /\ times = IF answer[h].kind = "accepted" THEN 1 ELSE 0
        /\ answer[h].kind = "replayed" =>
             \E d \in CommittedCalls(GameOf[h]) :
               command[d] = command[h] /\ answer[h].state = Result(d)

\* A listener receives the update of every commit once, in the order of the
\* log, and nothing else; it is behind by at most the transaction under way.
UpdatesFollowLog ==
  \A g \in Games :
    LET updates == [i \in DOMAIN published[g] |-> published[g][i].by]
    IN  /\ IsPrefix(updates, Committed(g))
        /\ \A i \in DOMAIN published[g] : published[g][i].state = Result(updates[i])
        /\ Len(Committed(g)) - Len(updates) <= Cardinality(InTransaction(g))

\* Every call of handle is answered.
EveryCommandAnswered == \A h \in Calls : command[h] # None ~> answer[h] # None

\* Seen through the microtasks of the runner, the persistence of the service
\* is the runner's specification: its transactions are operations that end.
RunnerJobs ==
  [do : {"FollowCurrent", "Subscribe", "Settle", "Begin", "Finish", "Return"}, of : Calls]
RunnerView == INSTANCE TransactionRunner WITH microtasks <- Kept(microtasks, RunnerJobs)
ImplementsRunner == RunnerView!Spec

\* At most one command is applied for each idempotency key.
AppliedOnce ==
  \A g \in Games : \A i, j \in DOMAIN log[g] :
    Key[log[g][i].of] = Key[log[g][j].of] => log[g][i].by = log[g][j].by

\* The version of a game only grows.
VersionGrows ==
  [][\A g \in Games : snapshots[g] # NoState =>
       \/ snapshots'[g].version > snapshots[g].version
       \/ snapshots'[g] = snapshots[g]]_vars

\* The commands of a game are applied one after the other: a new state is made
\* from the state it replaces, so no accepted command is lost.
NoUpdateLost ==
  [][\A g \in Games : snapshots[g] # NoState =>
       IsPrefix(snapshots[g].moves, snapshots'[g].moves)]_vars

\* The events of a game are numbered without gap or repetition from the
\* version after the first on.
EventsNumbered ==
  \A g \in Games : \A i \in DOMAIN log[g] : log[g][i].version = i + 1

\* The log has every version once and every command, however often it was
\* sent, by one call only.
LogInOrder == AppliedOnce /\ EventsNumbered

\* However often a command is sent again after its answer, it is accepted at
\* most once, and every answer that is not a refusal is the same.
RetriesGetFirstAnswer ==
  \A h, d \in Calls :
    /\ h # d /\ GameOf[h] = GameOf[d] /\ command[h] = command[d]
    /\ answer[h] # None /\ answer[h].kind = "accepted"
    /\ answer[d] # None /\ answer[d].kind # "rejected"
    => answer[d] = [answer[h] EXCEPT !.kind = "replayed"]
=============================================================================
