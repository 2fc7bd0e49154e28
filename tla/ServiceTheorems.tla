-------------------------- MODULE ServiceTheorems --------------------------
(***************************************************************************)
(* The command pipeline for any games, calls, commands and keys, whatever  *)
(* overlaps and whatever fails: its persistence is the transaction runner, *)
(* and what its stores, its log, its answers and its updates say agrees.   *)
(***************************************************************************)
EXTENDS CommandService, SubsequenceTheorems, FiniteSetTheorems

-----------------------------------------------------------------------------
(* The queue.                                                              *)

\* The jobs in which handle and its transaction go on, and those of run.
TransactionNames == {"SnapshotLoaded", "RecordSaved", "EventsAppended", "SnapshotSaved"}
CheckNames == {"StoredReturns", "StoredLoaded", "ContextReturns", "ContextLoaded"}
TaskNames == CheckNames \cup TransactionNames \cup {"Persisted"}
RunnerNames == {"FollowCurrent", "Subscribe", "Settle", "Begin", "Finish", "Return"}

JobsOf == [do : TaskNames \cup RunnerNames, of : Calls]
TasksOf(h) == [do : TaskNames, of : {h}]

\* What call h goes on with: a call has one task at most.
Own == [h \in Calls |-> Kept(microtasks, TasksOf(h))]
Resting(h) == Own[h] = <<>>
OneTask == \A h \in Calls : Own[h] = <<>> \/ \E do \in TaskNames : Own[h] = <<Job(do, h)>>
QueueOK == microtasks \in Seq(JobsOf) /\ OneTask
Task == [h \in Calls |-> IF Resting(h) THEN "none" ELSE Own[h][1].do]

\* What the runner sees of the queue.
RunnerQueue == Kept(microtasks, RunnerJobs)

LEMMA KindsOfJobs ==
  ASSUME NEW h \in Calls, NEW d \in Calls, NEW do
  PROVE  /\ do \in TaskNames \cup RunnerNames <=> Job(do, h) \in JobsOf
         /\ do \in RunnerNames <=> Job(do, h) \in RunnerJobs
         /\ Job(do, h) \in TasksOf(d) <=> do \in TaskNames /\ d = h
<1>1. do \in TaskNames \cup RunnerNames <=> Job(do, h) \in JobsOf
  BY DEF Job, JobsOf
<1>2. do \in RunnerNames <=> Job(do, h) \in RunnerJobs
  BY DEF Job, RunnerJobs, RunnerNames
<1>3. Job(do, h) \in TasksOf(d) <=> do \in TaskNames /\ d = h
  BY DEF Job, TasksOf
<1>4. QED
  BY <1>1, <1>2, <1>3

LEMMA NamesDiffer == TaskNames \cap RunnerNames = {}
BY DEF TaskNames, CheckNames, TransactionNames, RunnerNames

LEMMA NothingAdded ==
  ASSUME NEW V, NEW s \in Seq(V)
  PROVE  s \o <<>> = s /\ <<>> \o s = s
OBVIOUS

\* The job at the head runs.
LEMMA HeadRuns ==
  ASSUME NEW do, NEW h, Runs(do, h)
  PROVE  microtasks # <<>> /\ Head(microtasks) = Job(do, h)
BY DEF Runs, Runner!Runs, Runner!Job, Job

\* A job has run and put the jobs in more behind the queue: what the runner
\* and what a call see of that.
LEMMA QueueMoves ==
  ASSUME QueueOK, NEW h \in Calls, NEW do, Runs(do, h), NEW more \in Seq(JobsOf),
         microtasks' = Tail(microtasks) \o more
  PROVE  /\ microtasks' \in Seq(JobsOf)
         /\ do \in TaskNames \cup RunnerNames
         /\ do \in TaskNames => RunnerQueue' = RunnerQueue \o Kept(more, RunnerJobs)
         /\ do \in RunnerNames =>
              /\ RunnerQueue # <<>> /\ Head(RunnerQueue) = Job(do, h)
              /\ RunnerQueue' = Tail(RunnerQueue) \o Kept(more, RunnerJobs)
         /\ do \in TaskNames => Own[h] = <<Job(do, h)>>
         /\ \A d \in Calls :
              Own'[d] = IF do \in TaskNames /\ d = h THEN Kept(more, TasksOf(d))
                        ELSE Own[d] \o Kept(more, TasksOf(d))
<1>1. /\ microtasks \in Seq(JobsOf) /\ microtasks # <<>> /\ Head(microtasks) = Job(do, h)
  BY HeadRuns DEF QueueOK
<1>2. Head(microtasks) \in JobsOf /\ Tail(microtasks) \o more \in Seq(JobsOf)
  BY <1>1
<1>3. do \in TaskNames \cup RunnerNames
  BY <1>1, <1>2, KindsOfJobs
<1>4. /\ Job(do, h) \in RunnerJobs =>
           /\ RunnerQueue # <<>> /\ Head(RunnerQueue) = Job(do, h)
           /\ RunnerQueue' = Tail(RunnerQueue) \o Kept(more, RunnerJobs)
      /\ Job(do, h) \notin RunnerJobs => RunnerQueue' = RunnerQueue \o Kept(more, RunnerJobs)
  BY <1>1, KeptMoves DEF RunnerQueue
<1>5. ASSUME NEW d \in Calls
      PROVE  /\ Job(do, h) \in TasksOf(d) =>
                  /\ Own[d] # <<>> /\ Head(Own[d]) = Job(do, h)
                  /\ Own'[d] = Tail(Own[d]) \o Kept(more, TasksOf(d))
             /\ Job(do, h) \notin TasksOf(d) => Own'[d] = Own[d] \o Kept(more, TasksOf(d))
  <2>1. Own[d] = Kept(microtasks, TasksOf(d)) /\ Own'[d] = Kept(microtasks', TasksOf(d))
    BY DEF Own
  <2>2. QED
    BY <1>1, <2>1, KeptMoves
<1>6. do \in TaskNames => Own[h] = <<Job(do, h)>>
  <2>1. SUFFICES ASSUME do \in TaskNames
                 PROVE  Own[h] = <<Job(do, h)>>
    OBVIOUS
  <2>2. Own[h] # <<>> /\ Head(Own[h]) = Job(do, h)
    BY <1>5, <2>1, KindsOfJobs
  <2>3. PICK x \in TaskNames : Own[h] = <<Job(x, h)>>
    BY <2>2 DEF QueueOK, OneTask
  <2>4. QED
    BY <2>2, <2>3
<1>7. ASSUME NEW d \in Calls
      PROVE  Own'[d] = IF do \in TaskNames /\ d = h THEN Kept(more, TasksOf(d))
                       ELSE Own[d] \o Kept(more, TasksOf(d))
  <2>1. CASE do \in TaskNames /\ d = h
    <3>1. Own'[d] = Tail(Own[d]) \o Kept(more, TasksOf(d)) /\ Own[d] = <<Job(do, h)>>
      BY <1>5, <1>6, <2>1, KindsOfJobs
    <3>2. Tail(Own[d]) = <<>>
      BY <3>1
    <3>3. Kept(more, TasksOf(d)) \in Seq(JobsOf)
      BY KeptType
    <3>4. QED
      BY <2>1, <3>1, <3>2, <3>3, NothingAdded
  <2>2. CASE ~(do \in TaskNames /\ d = h)
    BY <1>5, <2>2, KindsOfJobs
  <2>3. QED
    BY <2>1, <2>2
<1>8. do \in RunnerNames => do \notin TaskNames
  BY NamesDiffer
<1>9. QED
  BY <1>1, <1>2, <1>3, <1>4, <1>6, <1>7, <1>8, KindsOfJobs

LEMMA QueuesAreSequences ==
  ASSUME QueueOK
  PROVE  RunnerQueue \in Seq(JobsOf) /\ \A d \in Calls : Own[d] \in Seq(JobsOf)
BY KeptType DEF QueueOK, RunnerQueue, Own

\* The jobs that are put behind the queue.
LEMMA MoreTasks ==
  ASSUME NEW h \in Calls, NEW do \in TaskNames
  PROVE  \E more \in Seq(JobsOf) :
           /\ more = <<Job(do, h)>>
           /\ Kept(more, RunnerJobs) = <<>>
           /\ \A d \in Calls : Kept(more, TasksOf(d)) = IF d = h THEN more ELSE <<>>
<1>1. Job(do, h) \in JobsOf /\ Job(do, h) \notin RunnerJobs
      /\ \A d \in Calls : Job(do, h) \in TasksOf(d) <=> d = h
  BY KindsOfJobs, NamesDiffer
<1>2. \A S : Kept(<<Job(do, h)>>, S) = IF Job(do, h) \in S THEN <<Job(do, h)>> ELSE <<>>
  BY <1>1, KeptOne
<1>3. <<Job(do, h)>> \in Seq(JobsOf)
  BY <1>1
<1>4. QED
  BY <1>1, <1>2, <1>3

LEMMA RunnersJobs ==
  ASSUME NEW more \in Seq(RunnerJobs), NEW d \in Calls
  PROVE  /\ more \in Seq(JobsOf)
         /\ Kept(more, TasksOf(d)) = <<>>
         /\ Kept(more, RunnerJobs) = more
<1>1. RunnerJobs \subseteq JobsOf
  BY DEF RunnerJobs, JobsOf, RunnerNames
<1>2. more \in Seq(JobsOf)
  BY <1>1
<1>3. RunnerJobs \cap TasksOf(d) = {}
  BY NamesDiffer DEF RunnerJobs, TasksOf, RunnerNames
<1>4. \A i \in DOMAIN more : more[i] \notin TasksOf(d)
  BY <1>3
<1>5. QED
  BY <1>2, <1>4, NothingKept, AllKept

LEMMA TaskFollows ==
  ASSUME NEW h \in Calls, NEW do \in TaskNames
  PROVE  /\ Own[h] = <<Job(do, h)>> => Task[h] = do
         /\ QueueOK /\ Task[h] = "none" => Resting(h)
         /\ Own' = Own => Task' = Task
         /\ Own' = [Own EXCEPT ![h] = <<>>] => Task' = [Task EXCEPT ![h] = "none"]
         /\ Own' = [Own EXCEPT ![h] = <<Job(do, h)>>] => Task' = [Task EXCEPT ![h] = do]
<1>1. <<Job(do, h)>> # <<>> /\ <<Job(do, h)>>[1].do = do
  BY DEF Job
<1>2. Own[h] = <<Job(do, h)>> => Task[h] = do
  BY <1>1 DEF Task, Resting
<1>3. ASSUME QueueOK, Task[h] = "none", ~Resting(h)
      PROVE  FALSE
  <2>1. PICK x \in TaskNames : Own[h] = <<Job(x, h)>>
    BY <1>3 DEF QueueOK, OneTask, Resting
  <2>2. <<Job(x, h)>>[1].do = x
    BY DEF Job
  <2>3. x = "none"
    BY <1>3, <2>1, <2>2 DEF Task
  <2>4. QED
    BY <2>3 DEF TaskNames, CheckNames, TransactionNames
<1>4. Own' = Own => Task' = Task
  BY DEF Task, Resting
<1>5. ASSUME Own' = [Own EXCEPT ![h] = <<>>]
      PROVE  Task' = [Task EXCEPT ![h] = "none"]
  <2>1. \A d \in Calls : Own'[d] = IF d = h THEN <<>> ELSE Own[d]
    BY <1>5 DEF Own
  <2>2. \A d \in Calls : Task'[d] = IF d = h THEN "none" ELSE Task[d]
    BY <2>1 DEF Task, Resting
  <2>3. QED
    BY <2>2 DEF Task
<1>6. ASSUME Own' = [Own EXCEPT ![h] = <<Job(do, h)>>]
      PROVE  Task' = [Task EXCEPT ![h] = do]
  <2>1. \A d \in Calls : Own'[d] = IF d = h THEN <<Job(do, h)>> ELSE Own[d]
    BY <1>6 DEF Own
  <2>2. \A d \in Calls : Task'[d] = IF d = h THEN do ELSE Task[d]
    BY <1>1, <2>1 DEF Task, Resting
  <2>3. QED
    BY <2>2 DEF Task
<1>7. QED
  BY <1>2, <1>3, <1>4, <1>5, <1>6

\* The two kinds of jobs.
LEMMA QueuedTaskMoves ==
  ASSUME QueueOK, NEW h \in Calls, NEW do \in TaskNames, Runs(do, h), NEW more \in Seq(JobsOf),
         microtasks' = Tail(microtasks) \o more
  PROVE  /\ microtasks' \in Seq(JobsOf)
         /\ RunnerQueue' = RunnerQueue \o Kept(more, RunnerJobs)
         /\ Own[h] = <<Job(do, h)>>
         /\ \A d \in Calls : Own'[d] = IF d = h THEN Kept(more, TasksOf(d))
                                       ELSE Own[d] \o Kept(more, TasksOf(d))
<1>1. /\ microtasks' \in Seq(JobsOf)
      /\ do \in TaskNames \cup RunnerNames
      /\ do \in TaskNames => RunnerQueue' = RunnerQueue \o Kept(more, RunnerJobs)
      /\ do \in RunnerNames =>
           /\ RunnerQueue # <<>> /\ Head(RunnerQueue) = Job(do, h)
           /\ RunnerQueue' = Tail(RunnerQueue) \o Kept(more, RunnerJobs)
      /\ do \in TaskNames => Own[h] = <<Job(do, h)>>
      /\ \A d \in Calls :
           Own'[d] = IF do \in TaskNames /\ d = h THEN Kept(more, TasksOf(d))
                     ELSE Own[d] \o Kept(more, TasksOf(d))
  BY QueueMoves
<1>2. QED
  BY <1>1

LEMMA QueuedRunnerMoves ==
  ASSUME QueueOK, NEW h \in Calls, NEW do \in RunnerNames, Runs(do, h), NEW more \in Seq(JobsOf),
         microtasks' = Tail(microtasks) \o more
  PROVE  /\ microtasks' \in Seq(JobsOf)
         /\ RunnerQueue # <<>> /\ Head(RunnerQueue) = Job(do, h)
         /\ RunnerQueue' = Tail(RunnerQueue) \o Kept(more, RunnerJobs)
         /\ \A d \in Calls : Own'[d] = Own[d] \o Kept(more, TasksOf(d))
<1>1. do \notin TaskNames
  BY NamesDiffer
<1>2. /\ microtasks' \in Seq(JobsOf)
      /\ do \in TaskNames \cup RunnerNames
      /\ do \in TaskNames => RunnerQueue' = RunnerQueue \o Kept(more, RunnerJobs)
      /\ do \in RunnerNames =>
           /\ RunnerQueue # <<>> /\ Head(RunnerQueue) = Job(do, h)
           /\ RunnerQueue' = Tail(RunnerQueue) \o Kept(more, RunnerJobs)
      /\ do \in TaskNames => Own[h] = <<Job(do, h)>>
      /\ \A d \in Calls :
           Own'[d] = IF do \in TaskNames /\ d = h THEN Kept(more, TasksOf(d))
                     ELSE Own[d] \o Kept(more, TasksOf(d))
  BY QueueMoves
<1>3. QED
  BY <1>1, <1>2

\* A task goes on with the next one.
LEMMA TaskGoesOn ==
  ASSUME QueueOK, NEW h \in Calls, NEW do \in TaskNames, NEW next \in TaskNames,
         Runs(do, h), ContinueAt(next, h)
  PROVE  /\ QueueOK' /\ RunnerQueue' = RunnerQueue
         /\ Task[h] = do /\ Task' = [Task EXCEPT ![h] = next]
<1>1. PICK more \in Seq(JobsOf) :
        /\ more = <<Job(next, h)>>
        /\ Kept(more, RunnerJobs) = <<>>
        /\ \A d \in Calls : Kept(more, TasksOf(d)) = IF d = h THEN more ELSE <<>>
  BY MoreTasks
<1>2. microtasks' = Tail(microtasks) \o more
  BY <1>1, HeadRuns DEF QueueOK, ContinueAt
<1>3. /\ microtasks' \in Seq(JobsOf)
      /\ RunnerQueue' = RunnerQueue \o Kept(more, RunnerJobs)
      /\ Own[h] = <<Job(do, h)>>
      /\ \A d \in Calls :
           Own'[d] = IF d = h THEN Kept(more, TasksOf(d))
                     ELSE Own[d] \o Kept(more, TasksOf(d))
  BY <1>2, QueuedTaskMoves, Zenon
<1>4. RunnerQueue' = RunnerQueue
  BY <1>1, <1>3, QueuesAreSequences, NothingAdded
<1>5. \A d \in Calls : Own'[d] = IF d = h THEN <<Job(next, h)>> ELSE Own[d]
  BY <1>1, <1>3, QueuesAreSequences, NothingAdded
<1>6. Own' = [Own EXCEPT ![h] = <<Job(next, h)>>]
  BY <1>5 DEF Own
<1>7. QueueOK'
  BY <1>3, <1>5 DEF QueueOK, OneTask
<1>8. QED
  BY <1>3, <1>4, <1>6, <1>7, TaskFollows

\* A task ends; the runner may be called.
LEMMA TaskEnds ==
  ASSUME QueueOK, NEW h \in Calls, NEW do \in TaskNames, Runs(do, h),
         NEW more \in Seq(RunnerJobs), microtasks' = Tail(microtasks) \o more
  PROVE  /\ QueueOK' /\ RunnerQueue' = RunnerQueue \o more
         /\ Task[h] = do /\ Task' = [Task EXCEPT ![h] = "none"]
<1>1. more \in Seq(JobsOf) /\ Kept(more, RunnerJobs) = more
  BY RunnersJobs
<1>2. /\ microtasks' \in Seq(JobsOf)
      /\ RunnerQueue' = RunnerQueue \o more
      /\ Own[h] = <<Job(do, h)>>
      /\ \A d \in Calls : Own'[d] = IF d = h THEN Kept(more, TasksOf(d))
                                    ELSE Own[d] \o Kept(more, TasksOf(d))
  <2>1. RunnerQueue' = RunnerQueue \o Kept(more, RunnerJobs)
    BY <1>1, QueuedTaskMoves, Zenon
  <2>2. QED
    BY <1>1, <2>1, QueuedTaskMoves, Zenon
<1>3. \A d \in Calls : Kept(more, TasksOf(d)) = <<>>
  BY RunnersJobs
<1>4. \A d \in Calls : Own'[d] = IF d = h THEN <<>> ELSE Own[d]
  BY <1>2, <1>3, QueuesAreSequences, NothingAdded
<1>5. Own' = [Own EXCEPT ![h] = <<>>]
  BY <1>4 DEF Own
<1>6. QueueOK'
  BY <1>2, <1>4 DEF QueueOK, OneTask
<1>7. QED
  BY <1>2, <1>5, <1>6, TaskFollows

\* A job of the runner puts only such jobs into the queue.
LEMMA RunnerGoesOn ==
  ASSUME QueueOK, NEW h \in Calls, NEW do \in RunnerNames, Runs(do, h),
         NEW more \in Seq(RunnerJobs), microtasks' = Tail(microtasks) \o more
  PROVE  /\ QueueOK' /\ Task' = Task
         /\ RunnerQueue # <<>> /\ Head(RunnerQueue) = Job(do, h)
         /\ RunnerQueue' = Tail(RunnerQueue) \o more
<1>1. more \in Seq(JobsOf) /\ Kept(more, RunnerJobs) = more /\ do \notin TaskNames
  BY RunnersJobs, NamesDiffer
<1>2. /\ microtasks' \in Seq(JobsOf)
      /\ RunnerQueue # <<>> /\ Head(RunnerQueue) = Job(do, h)
      /\ RunnerQueue' = Tail(RunnerQueue) \o more
      /\ \A d \in Calls : Own'[d] = Own[d] \o Kept(more, TasksOf(d))
  <2>1. RunnerQueue' = Tail(RunnerQueue) \o Kept(more, RunnerJobs)
    BY <1>1, QueuedRunnerMoves, Zenon
  <2>2. QED
    BY <1>1, <2>1, QueuedRunnerMoves, Zenon
<1>3. \A d \in Calls : Kept(more, TasksOf(d)) = <<>>
  BY RunnersJobs
<1>4. \A d \in Calls : Own'[d] = Own[d]
  BY <1>2, <1>3, QueuesAreSequences, NothingAdded
<1>5. Own' = Own
  BY <1>4 DEF Own
<1>6. QueueOK'
  BY <1>2, <1>4 DEF QueueOK, OneTask
<1>7. Task' = Task
  BY <1>5 DEF Task, Resting
<1>8. QED
  BY <1>2, <1>6, <1>7

\* A job of the runner lets the call go on with a task.
LEMMA RunnerHandsOver ==
  ASSUME QueueOK, NEW h \in Calls, NEW do \in RunnerNames, Runs(do, h),
         NEW next \in TaskNames, Task[h] = "none", ContinueAt(next, h)
  PROVE  /\ QueueOK' /\ Task' = [Task EXCEPT ![h] = next]
         /\ RunnerQueue # <<>> /\ Head(RunnerQueue) = Job(do, h)
         /\ RunnerQueue' = Tail(RunnerQueue)
<1>1. PICK more \in Seq(JobsOf) :
        /\ more = <<Job(next, h)>>
        /\ Kept(more, RunnerJobs) = <<>>
        /\ \A d \in Calls : Kept(more, TasksOf(d)) = IF d = h THEN more ELSE <<>>
  BY MoreTasks
<1>2. microtasks' = Tail(microtasks) \o more /\ do \notin TaskNames
  BY <1>1, HeadRuns, NamesDiffer DEF QueueOK, ContinueAt
<1>3. /\ microtasks' \in Seq(JobsOf)
      /\ RunnerQueue # <<>> /\ Head(RunnerQueue) = Job(do, h)
      /\ RunnerQueue' = Tail(RunnerQueue) \o Kept(more, RunnerJobs)
      /\ \A d \in Calls : Own'[d] = Own[d] \o Kept(more, TasksOf(d))
  BY <1>2, QueuedRunnerMoves, Zenon
<1>4. ASSUME NEW d \in Calls
      PROVE  Own'[d] = IF d = h THEN <<Job(next, h)>> ELSE Own[d]
  <2>1. CASE d = h
    <3>1. Own'[h] = <<>> \o more
      BY <1>1, <1>3, <2>1, TaskFollows DEF Resting
    <3>2. <<>> \o more = more
      BY NothingAdded
    <3>3. QED
      BY <1>1, <2>1, <3>1, <3>2
  <2>2. CASE d # h
    BY <1>1, <1>3, <2>2, QueuesAreSequences, NothingAdded
  <2>3. QED
    BY <2>1, <2>2
<1>5. Own' = [Own EXCEPT ![h] = <<Job(next, h)>>]
  BY <1>4 DEF Own
<1>6. Tail(RunnerQueue) \in Seq(JobsOf)
  BY <1>3, QueuesAreSequences
<1>7. RunnerQueue' = Tail(RunnerQueue)
  BY <1>1, <1>3, <1>6, NothingAdded
<1>8. QueueOK'
  BY <1>3, <1>4 DEF QueueOK, OneTask
<1>9. QED
  BY <1>3, <1>5, <1>7, <1>8, TaskFollows

\* A call of handle from outside the microtasks.
LEMMA TaskStarts ==
  ASSUME QueueOK, NEW h \in Calls, NEW next \in TaskNames, Task[h] = "none",
         microtasks' = Append(microtasks, Job(next, h))
  PROVE  /\ QueueOK' /\ RunnerQueue' = RunnerQueue
         /\ Task' = [Task EXCEPT ![h] = next]
<1>1. microtasks \in Seq(JobsOf) /\ Job(next, h) \in JobsOf
  BY KindsOfJobs DEF QueueOK
<1>2. microtasks' \in Seq(JobsOf)
  BY <1>1
<1>3. RunnerQueue' = RunnerQueue
  BY <1>1, KeptStep, KindsOfJobs, NamesDiffer DEF RunnerQueue
<1>4. ASSUME NEW d \in Calls
      PROVE  Own'[d] = IF d = h THEN <<Job(next, h)>> ELSE Own[d]
  <2>1. Own[d] = Kept(microtasks, TasksOf(d)) /\ Own'[d] = Kept(microtasks', TasksOf(d))
    BY DEF Own
  <2>2. Own'[d] = IF d = h THEN Append(Own[d], Job(next, h)) ELSE Own[d]
    BY <1>1, <2>1, KeptStep, KindsOfJobs
  <2>3. Append(<<>>, Job(next, h)) = <<Job(next, h)>> /\ Own[h] = <<>>
    BY TaskFollows DEF Resting
  <2>4. QED
    BY <2>2, <2>3
<1>5. Own' = [Own EXCEPT ![h] = <<Job(next, h)>>]
  BY <1>4 DEF Own
<1>6. QueueOK'
  BY <1>2, <1>4 DEF QueueOK, OneTask
<1>7. QED
  BY <1>3, <1>5, <1>6, TaskFollows

-----------------------------------------------------------------------------
(* Where a call is.                                                        *)

View == INSTANCE RunnerTheorems WITH microtasks <- RunnerQueue

\* What the rule engine accepted has a command, a key and a game under way.
Sound(h) ==
  /\ command[h] # None /\ Key[command[h]] # NoKey
  /\ context[h] # NoState /\ RefusalOf(context[h], command[h]) = "NONE"

\* A call is in the checks of handle, with the runner, in its transaction,
\* behind it, or answered.
CallInOrder(h) ==
  /\ command[h] = None => /\ Task[h] = "none" /\ phase[h] = "idle"
                          /\ answer[h] = None /\ context[h] = NoState
  /\ Task[h] \in CheckNames => command[h] # None /\ phase[h] = "idle" /\ answer[h] = None
  /\ Task[h] \in {"ContextReturns", "ContextLoaded"} =>
       Key[command[h]] # NoKey /\ stored[h] = None
  /\ Task[h] \in TransactionNames <=> phase[h] = "operating"
  /\ Task[h] = "Persisted" => phase[h] = "returned" /\ answer[h] = None
  /\ phase[h] \in {"waiting", "operating", "ending", "finished"} => answer[h] = None
  /\ phase[h] # "idle" => Sound(h)
  /\ h \in failed => phase[h] \in {"ending", "finished", "returned"}
  /\ answer[h] # None =>
       \/ phase[h] = "idle" /\ answer[h].kind # "accepted"
       \/ phase[h] = "returned" /\ answer[h] = AnswerPersisted(h)

CallsInOrder == \A h \in Calls : CallInOrder(h)

ControlInv == QueueOK /\ TypeOK /\ View!IInv /\ CallsInOrder

LEMMA GamesOfCalls == GameOf \in [Calls -> Games] /\ NoCall \notin Calls
BY ServiceAssumption

LEMMA TaskIsName ==
  ASSUME QueueOK, NEW h \in Calls
  PROVE  Task[h] \in TaskNames \cup {"none"}
<1>1. CASE Resting(h)
  BY <1>1 DEF Task
<1>2. CASE ~Resting(h)
  <2>1. PICK do \in TaskNames : Own[h] = <<Job(do, h)>>
    BY <1>2 DEF QueueOK, OneTask, Resting
  <2>2. QED
    BY <2>1, TaskFollows
<1>3. QED
  BY <1>1, <1>2

\* What the rule engine makes of a state is a state.
LEMMA NextStateType ==
  ASSUME NEW state \in StatesOf, NEW m \in Commands
  PROVE  NextState(state, m) \in StatesOf
<1>1. PICK old \in Seq(Commands) : old = state.moves
  BY DEF StatesOf
<1>2. PICK moves \in Seq(Commands) : moves = Append(state.moves, m)
  <2>1. Append(old, m) \in Seq(Commands)
    OBVIOUS
  <2>2. QED
    BY <1>1, <2>1
<1>3. state.version + (IF Effect[m] = "finish" THEN 2 ELSE 1) \in Nat
  BY DEF StatesOf
<1>4. QED
  BY <1>2, <1>3 DEF StatesOf, NextState

LEMMA ResultType ==
  ASSUME TypeOK, NEW h \in Calls, command[h] # None, context[h] # NoState
  PROVE  Result(h) \in StatesOf /\ RecordOf(h) \in RecordsOf
<1>1. command[h] \in Commands /\ context[h] \in StatesOf
  BY DEF TypeOK
<1>2. Result(h) \in StatesOf
  BY <1>1, NextStateType DEF Result
<1>3. QED
  BY <1>1, <1>2 DEF RecordsOf, RecordOf

\* What a step leaves of a call.
SameCall(d) ==
  /\ Task'[d] = Task[d] /\ phase'[d] = phase[d]
  /\ command'[d] = command[d] /\ stored'[d] = stored[d] /\ context'[d] = context[d]
  /\ answer'[d] = answer[d] /\ (d \in failed' <=> d \in failed)

LEMMA Undisturbed ==
  ASSUME NEW d \in Calls, CallInOrder(d), SameCall(d)
  PROVE  CallInOrder(d)'
BY DEF CallInOrder, SameCall, Sound, AnswerPersisted, Accepted, Result

\* The task and the phase of a call change, those of the others do not.
TaskMoves(h, from, to) ==
  Task[h] = from /\ \A d \in Calls : Task'[d] = IF d = h THEN to ELSE Task[d]
PhaseMoves(h, from, to) ==
  phase[h] = from /\ \A d \in Calls : phase'[d] = IF d = h THEN to ELSE phase[d]

\* The runner does not see the step.
Unseen == RunnerQueue' = RunnerQueue /\ UNCHANGED runnerVars
SeenStep == View!Next \/ UNCHANGED View!vars

LEMMA UnseenIsSeen ==
  ASSUME Unseen
  PROVE  SeenStep
BY DEF Unseen, SeenStep, View!vars, View!runnerVars, runnerVars

LEMMA CreateGameInOrder ==
  ASSUME ControlInv, NEW g \in Games, CreateGame(g)
  PROVE  QueueOK' /\ TypeOK' /\ CallsInOrder' /\ Unseen /\ Task' = Task
<1>1. /\ UNCHANGED <<microtasks, runnerVars, handleVars, records, log, published>>
      /\ snapshots' = [snapshots EXCEPT ![g] = NewGame]
  BY DEF CreateGame
<1>2. QueueOK' /\ Unseen /\ Task' = Task
  BY <1>1 DEF ControlInv, QueueOK, OneTask, Own, Unseen, RunnerQueue, Task, Resting
<1>3. NewGame \in StatesOf
  BY DEF NewGame, StatesOf
<1>4. TypeOK'
  BY <1>1, <1>3 DEF ControlInv, TypeOK, handleVars
<1>5. ASSUME NEW d \in Calls
      PROVE  CallInOrder(d)'
  <2>1. SameCall(d)
    BY <1>1, <1>2 DEF SameCall, runnerVars, handleVars
  <2>2. QED
    BY <2>1, Undisturbed DEF ControlInv, CallsInOrder
<1>6. QED
  BY <1>2, <1>4, <1>5 DEF CallsInOrder

LEMMA HandleInOrder ==
  ASSUME ControlInv, NEW h \in Calls, NEW m \in Commands, Handle(h, m)
  PROVE  QueueOK' /\ TypeOK' /\ CallsInOrder' /\ Unseen
         /\ TaskMoves(h, "none", "StoredReturns")
<1>1. /\ command[h] = None /\ CallInOrder(h)
      /\ command' = [command EXCEPT ![h] = m]
      /\ microtasks' = Append(microtasks, Job("StoredReturns", h))
      /\ UNCHANGED <<runnerVars, context, failed, answer, storageVars, published>>
  BY DEF Handle, ControlInv, CallsInOrder
<1>2. /\ stored' = [stored EXCEPT ![h] =
                      IF Key[m] = NoKey THEN None ELSE records[GameOf[h]][Key[m]]]
  BY DEF Handle
<1>3. Task[h] = "none" /\ phase[h] = "idle" /\ answer[h] = None /\ h \notin failed
  BY <1>1 DEF CallInOrder
<1>4. "StoredReturns" \in TaskNames /\ "StoredReturns" \in CheckNames
      /\ "StoredReturns" \notin TransactionNames
  BY DEF TaskNames, CheckNames, TransactionNames
<1>5. QueueOK' /\ RunnerQueue' = RunnerQueue /\ Task' = [Task EXCEPT ![h] = "StoredReturns"]
  BY <1>1, <1>3, <1>4, TaskStarts DEF ControlInv
<1>6. Unseen
  BY <1>1, <1>5 DEF Unseen
<1>7. (IF Key[m] = NoKey THEN None ELSE records[GameOf[h]][Key[m]]) \in RecordsOf \cup {None}
  <2>1. GameOf[h] \in Games /\ (Key[m] # NoKey => Key[m] \in Keys)
    BY GamesOfCalls DEF Keys
  <2>2. records[GameOf[h]] \in [Keys -> RecordsOf \cup {None}]
    BY <2>1 DEF ControlInv, TypeOK
  <2>3. QED
    BY <2>1, <2>2
<1>8. TypeOK'
  BY <1>1, <1>2, <1>7 DEF ControlInv, TypeOK, storageVars
<1>9. DOMAIN Task = Calls /\ \A d \in Calls : Task'[d] = IF d = h THEN "StoredReturns" ELSE Task[d]
  BY <1>5 DEF Task
<1>10. CallInOrder(h)'
  <2>1. /\ Task'[h] = "StoredReturns" /\ command'[h] = m /\ m # None /\ phase'[h] = "idle"
        /\ answer'[h] = None /\ h \notin failed'
    BY <1>1, <1>3, <1>9, LackAssumption DEF runnerVars, ControlInv, TypeOK
  <2>2. QED
    BY <1>4, <2>1 DEF CallInOrder
<1>11. ASSUME NEW d \in Calls, d # h
       PROVE  CallInOrder(d)'
  <2>1. SameCall(d)
    BY <1>1, <1>2, <1>9, <1>11 DEF SameCall, runnerVars
  <2>2. QED
    BY <2>1, Undisturbed DEF ControlInv, CallsInOrder
<1>12. QED
  BY <1>3, <1>5, <1>6, <1>8, <1>9, <1>10, <1>11 DEF CallsInOrder, TaskMoves

\* A task that the runner does not see.
LEMMA NextTask ==
  ASSUME ControlInv, NEW h \in Calls, NEW do \in TaskNames, NEW next \in TaskNames,
         Runs(do, h), ContinueAt(next, h), UNCHANGED runnerVars
  PROVE  /\ QueueOK' /\ Unseen
         /\ Task[h] = do /\ CallInOrder(h)
         /\ \A d \in Calls : Task'[d] = IF d = h THEN next ELSE Task[d]
<1>1. /\ QueueOK' /\ RunnerQueue' = RunnerQueue
      /\ Task[h] = do /\ Task' = [Task EXCEPT ![h] = next]
  BY TaskGoesOn DEF ControlInv
<1>2. \A d \in Calls : Task'[d] = IF d = h THEN next ELSE Task[d]
  BY <1>1 DEF Task
<1>3. QED
  BY <1>1, <1>2 DEF Unseen, ControlInv, CallsInOrder

LEMMA LastTask ==
  ASSUME ControlInv, NEW h \in Calls, NEW do \in TaskNames,
         Runs(do, h), Stops, UNCHANGED runnerVars
  PROVE  /\ QueueOK' /\ Unseen
         /\ Task[h] = do /\ CallInOrder(h)
         /\ \A d \in Calls : Task'[d] = IF d = h THEN "none" ELSE Task[d]
<1>1. PICK more \in Seq(RunnerJobs) : more = <<>>
  <2>1. <<>> \in Seq(RunnerJobs)
    OBVIOUS
  <2>2. QED
    BY <2>1
<1>2. microtasks \in Seq(JobsOf) /\ microtasks # <<>>
  BY HeadRuns DEF ControlInv, QueueOK
<1>3. Tail(microtasks) \in Seq(JobsOf)
  BY <1>2
<1>4. microtasks' = Tail(microtasks) \o more
  BY <1>1, <1>3, NothingAdded DEF Stops
<1>5. /\ QueueOK' /\ RunnerQueue' = RunnerQueue \o more
      /\ Task[h] = do /\ Task' = [Task EXCEPT ![h] = "none"]
  BY <1>4, TaskEnds DEF ControlInv
<1>6. RunnerQueue' = RunnerQueue
  BY <1>1, <1>5, QueuesAreSequences, NothingAdded DEF ControlInv
<1>7. \A d \in Calls : Task'[d] = IF d = h THEN "none" ELSE Task[d]
  BY <1>5 DEF Task
<1>8. QED
  BY <1>5, <1>6, <1>7 DEF Unseen, ControlInv, CallsInOrder

\* The other calls are where they were.
LEMMA OthersInOrder ==
  ASSUME ControlInv, NEW h \in Calls, CallInOrder(h)',
         \A d \in Calls : d # h => SameCall(d)
  PROVE  CallsInOrder'
<1>1. ASSUME NEW d \in Calls, d # h
      PROVE  CallInOrder(d)'
  BY <1>1, Undisturbed DEF ControlInv, CallsInOrder
<1>2. QED
  BY <1>1 DEF CallsInOrder

LEMMA ReturnsInOrder ==
  ASSUME ControlInv, NEW h \in Calls, StoredReturns(h) \/ ContextReturns(h)
  PROVE  /\ QueueOK' /\ TypeOK' /\ CallsInOrder' /\ Unseen
         /\ \/ TaskMoves(h, "StoredReturns", "StoredLoaded")
            \/ TaskMoves(h, "ContextReturns", "ContextLoaded")
<1>1. UNCHANGED <<runnerVars, handleVars, storageVars, published>>
  BY DEF StoredReturns, ContextReturns
<1>2. PICK do \in {"StoredReturns", "ContextReturns"},
           next \in {"StoredLoaded", "ContextLoaded"} :
        /\ Runs(do, h) /\ ContinueAt(next, h)
        /\ next = "ContextLoaded" <=> do = "ContextReturns"
  BY DEF StoredReturns, ContextReturns
<1>3. /\ do \in TaskNames /\ next \in TaskNames /\ do \in CheckNames /\ next \in CheckNames
      /\ next \notin TransactionNames /\ do \notin TransactionNames
  BY DEF TaskNames, CheckNames, TransactionNames
<1>4. /\ QueueOK' /\ Unseen
      /\ Task[h] = do /\ CallInOrder(h)
      /\ \A d \in Calls : Task'[d] = IF d = h THEN next ELSE Task[d]
  BY <1>1, <1>2, <1>3, NextTask
<1>5. TypeOK'
  BY <1>1 DEF ControlInv, TypeOK, handleVars, storageVars
<1>6. CallInOrder(h)'
  <2>1. /\ Task'[h] = next /\ command'[h] = command[h] /\ command[h] # None
        /\ phase'[h] = "idle" /\ phase[h] = "idle" /\ answer'[h] = None
        /\ stored' = stored /\ failed' = failed
    BY <1>1, <1>3, <1>4 DEF CallInOrder, runnerVars, handleVars
  <2>2. h \notin failed
    BY <1>4, <2>1 DEF CallInOrder
  <2>3. next = "ContextLoaded" => Key[command[h]] # NoKey /\ stored[h] = None
    BY <1>2, <1>4 DEF CallInOrder
  <2>4. QED
    BY <1>3, <2>1, <2>2, <2>3 DEF CallInOrder
<1>7. \A d \in Calls : d # h => SameCall(d)
  BY <1>1, <1>4 DEF SameCall, runnerVars, handleVars
<1>8. QED
  BY <1>2, <1>4, <1>5, <1>6, <1>7, OthersInOrder DEF TaskMoves

LEMMA ChecksAreTasks ==
  /\ \A do \in CheckNames : do \in TaskNames /\ do \notin TransactionNames
  /\ \A do \in TransactionNames : do \in TaskNames /\ do \notin CheckNames
  /\ "Persisted" \in TaskNames /\ "Persisted" \notin CheckNames
  /\ "Persisted" \notin TransactionNames
  /\ "none" \notin TaskNames /\ "none" \notin CheckNames /\ "none" \notin TransactionNames
BY DEF TaskNames, CheckNames, TransactionNames

LEMMA StoredLoadedInOrder ==
  ASSUME ControlInv, NEW h \in Calls, StoredLoaded(h)
  PROVE  /\ QueueOK' /\ TypeOK' /\ CallsInOrder' /\ Unseen
         /\ \/ TaskMoves(h, "StoredLoaded", "none") /\ UNCHANGED context
            \/ /\ TaskMoves(h, "StoredLoaded", "ContextReturns")
               /\ Key[command[h]] # NoKey /\ stored[h] = None /\ UNCHANGED answer
<1>1. /\ UNCHANGED <<runnerVars, command, stored, failed, storageVars, published>>
      /\ Runs("StoredLoaded", h)
  BY DEF StoredLoaded
<1>2. "StoredLoaded" \in CheckNames /\ "StoredLoaded" \in TaskNames
      /\ "ContextReturns" \in CheckNames /\ "ContextReturns" \in TaskNames
  BY DEF TaskNames, CheckNames
<1>3. ASSUME Task[h] = "StoredLoaded", CallInOrder(h)
      PROVE  /\ command[h] # None /\ phase[h] = "idle" /\ answer[h] = None
             /\ h \notin failed
  BY <1>2, <1>3 DEF CallInOrder
<1>4. CASE Stops /\ UNCHANGED context /\ \E a : Answer(h, a) /\ a \in AnswersOf /\ a.kind # "accepted"
  <2>1. /\ QueueOK' /\ Unseen
        /\ Task[h] = "StoredLoaded" /\ CallInOrder(h)
        /\ \A d \in Calls : Task'[d] = IF d = h THEN "none" ELSE Task[d]
    BY <1>1, <1>2, <1>4, LastTask
  <2>2. PICK a \in AnswersOf : answer' = [answer EXCEPT ![h] = a] /\ a.kind # "accepted"
    BY <1>4 DEF Answer
  <2>3. TypeOK'
    BY <1>1, <1>4, <2>2 DEF ControlInv, TypeOK, storageVars
  <2>4. CallInOrder(h)'
    <3>1. /\ Task'[h] = "none" /\ command'[h] = command[h] /\ phase'[h] = "idle"
          /\ answer'[h] = a /\ h \notin failed'
      BY <1>1, <1>3, <2>1, <2>2 DEF runnerVars, ControlInv, TypeOK
    <3>2. QED
      BY <1>3, <2>1, <2>2, <3>1, ChecksAreTasks DEF CallInOrder
  <2>5. \A d \in Calls : d # h => SameCall(d)
    BY <1>1, <1>4, <2>1, <2>2 DEF SameCall, runnerVars
  <2>6. QED
    BY <1>4, <2>1, <2>3, <2>4, <2>5, OthersInOrder DEF TaskMoves
<1>5. CASE /\ Key[command[h]] # NoKey /\ ~IsDuplicate(h)
           /\ context' = [context EXCEPT ![h] = LoadedState(GameOf[h])]
           /\ ContinueAt("ContextReturns", h)
           /\ UNCHANGED answer
  <2>1. /\ QueueOK' /\ Unseen
        /\ Task[h] = "StoredLoaded" /\ CallInOrder(h)
        /\ \A d \in Calls : Task'[d] = IF d = h THEN "ContextReturns" ELSE Task[d]
    BY <1>1, <1>2, <1>5, NextTask
  <2>2. LoadedState(GameOf[h]) \in StatesOf \cup {NoState}
    BY GamesOfCalls DEF LoadedState, ControlInv, TypeOK
  <2>3. TypeOK'
    BY <1>1, <1>5, <2>2 DEF ControlInv, TypeOK, storageVars
  <2>4. CallInOrder(h)'
    <3>1. /\ Task'[h] = "ContextReturns" /\ command'[h] = command[h] /\ phase'[h] = "idle"
          /\ answer'[h] = None /\ h \notin failed' /\ stored'[h] = None
      BY <1>1, <1>3, <1>5, <2>1 DEF runnerVars, IsDuplicate
    <3>2. QED
      BY <1>2, <1>3, <1>5, <2>1, <3>1, ChecksAreTasks DEF CallInOrder
  <2>5. \A d \in Calls : d # h => SameCall(d)
    BY <1>1, <1>5, <2>1 DEF SameCall, runnerVars
  <2>6. QED
    BY <1>5, <2>1, <2>3, <2>4, <2>5, OthersInOrder DEF TaskMoves, IsDuplicate
<1>6. CASE Answer(h, Rejected("MISSING_IDEMPOTENCY_KEY")) /\ Stops /\ UNCHANGED context
  <2>1. Rejected("MISSING_IDEMPOTENCY_KEY") \in AnswersOf
        /\ Rejected("MISSING_IDEMPOTENCY_KEY").kind # "accepted"
    BY DEF Rejected, AnswersOf
  <2>2. QED
    BY <1>4, <1>6, <2>1
<1>7. CASE IsDuplicate(h) /\ Answer(h, AnswerDuplicate(h)) /\ Stops /\ UNCHANGED context
  <2>1. stored[h] \in RecordsOf
    BY <1>7 DEF ControlInv, TypeOK, IsDuplicate
  <2>2. stored[h].state \in StatesOf
    BY <2>1 DEF RecordsOf
  <2>3. AnswerDuplicate(h) \in AnswersOf /\ AnswerDuplicate(h).kind # "accepted"
    BY <2>2 DEF AnswerDuplicate, Rejected, Replayed, AnswersOf
  <2>4. QED
    BY <1>4, <1>7, <2>3
<1>8. QED
  BY <1>5, <1>6, <1>7 DEF StoredLoaded

\* The refusals of handle are answers.
LEMMA RefusalsAreAnswers ==
  ASSUME NEW state, NEW m
  PROVE  /\ RefusalOf(state, m) = "NONE" \/ Rejected(RefusalOf(state, m)) \in AnswersOf
         /\ RefusalOf(state, m) = "NONE" => state # NoState
<1>1. RefusalOf(state, m) \in {"STATE_NOT_FOUND", "VERSION_CONFLICT", "STATE_NOT_ACTIVE",
                               "POLICY_VIOLATION", "NONE"}
  <2>1. CASE state = NoState
    BY <2>1 DEF RefusalOf
  <2>2. CASE state # NoState /\ IsVersionConflict(state, m)
    BY <2>2 DEF RefusalOf
  <2>3. CASE state # NoState /\ ~IsVersionConflict(state, m)
    BY <2>3 DEF RefusalOf
  <2>4. QED
    BY <2>1, <2>2, <2>3
<1>2. RefusalOf(state, m) = "NONE" => state # NoState
  BY DEF RefusalOf
<1>3. QED
  BY <1>1, <1>2 DEF Rejected, AnswersOf

LEMMA ReactionsAreJobs ==
  ASSUME NEW h \in Calls
  PROVE  \E more \in Seq(RunnerJobs) :
           more = Runner!ReactionsOf(h) /\ more = View!ReactionsOf(h)
<1>1. Job("FollowCurrent", h) \in RunnerJobs /\ Job("Begin", h) \in RunnerJobs
  BY KindsOfJobs DEF RunnerNames
<1>2. <<Job("FollowCurrent", h), Job("Begin", h)>> \in Seq(RunnerJobs)
  BY <1>1
<1>3. /\ Runner!ReactionsOf(h) = <<Job("FollowCurrent", h), Job("Begin", h)>>
      /\ View!ReactionsOf(h) = <<Job("FollowCurrent", h), Job("Begin", h)>>
  BY DEF Runner!ReactionsOf, View!ReactionsOf, Runner!Job, View!Job, Job
<1>4. QED
  BY <1>2, <1>3

LEMMA ContextLoadedInOrder ==
  ASSUME ControlInv, NEW h \in Calls, ContextLoaded(h)
  PROVE  /\ QueueOK' /\ TypeOK' /\ CallsInOrder' /\ SeenStep
         /\ TaskMoves(h, "ContextLoaded", "none")
         /\ \/ UNCHANGED phase
            \/ PhaseMoves(h, "idle", "waiting") /\ UNCHANGED answer
<1> DEFINE refusal == RefusalOf(context[h], command[h])
<1>1. /\ UNCHANGED <<command, stored, context, failed, storageVars, published>>
      /\ Runs("ContextLoaded", h)
  BY DEF ContextLoaded
<1>2. "ContextLoaded" \in CheckNames /\ "ContextLoaded" \in TaskNames
  BY DEF TaskNames, CheckNames
<1>3. ASSUME Task[h] = "ContextLoaded", CallInOrder(h)
      PROVE  /\ command[h] # None /\ Key[command[h]] # NoKey /\ phase[h] = "idle"
             /\ answer[h] = None /\ h \notin failed
  BY <1>2, <1>3 DEF CallInOrder
<1>4. CASE refusal # "NONE" /\ Answer(h, Rejected(refusal)) /\ Stops /\ UNCHANGED runnerVars
  <2>1. /\ QueueOK' /\ Unseen
        /\ Task[h] = "ContextLoaded" /\ CallInOrder(h)
        /\ \A d \in Calls : Task'[d] = IF d = h THEN "none" ELSE Task[d]
    BY <1>1, <1>2, <1>4, LastTask
  <2>2. PICK a \in AnswersOf : answer' = [answer EXCEPT ![h] = a] /\ a.kind = "rejected"
    <3>1. Rejected(refusal) \in AnswersOf
      BY <1>4, RefusalsAreAnswers
    <3>2. Rejected(refusal).kind = "rejected" /\ answer' = [answer EXCEPT ![h] = Rejected(refusal)]
      BY <1>4 DEF Rejected, Answer
    <3>3. QED
      BY <3>1, <3>2
  <2>3. TypeOK'
    BY <1>1, <2>2 DEF ControlInv, TypeOK, storageVars
  <2>4. CallInOrder(h)'
    <3>1. /\ Task'[h] = "none" /\ command'[h] = command[h] /\ phase'[h] = "idle"
          /\ answer'[h] = a /\ h \notin failed'
      BY <1>1, <1>3, <1>4, <2>1, <2>2 DEF runnerVars, ControlInv, TypeOK
    <3>2. QED
      BY <1>3, <2>1, <2>2, <3>1, ChecksAreTasks DEF CallInOrder
  <2>5. \A d \in Calls : d # h => SameCall(d)
    BY <1>1, <1>4, <2>1, <2>2 DEF SameCall, runnerVars
  <2>6. QED
    BY <1>4, <2>1, <2>3, <2>4, <2>5, OthersInOrder, UnseenIsSeen DEF TaskMoves, runnerVars
<1>5. CASE refusal = "NONE" /\ Runner!CallRun(h, Tail(microtasks)) /\ UNCHANGED answer
  <2>1. PICK more \in Seq(RunnerJobs) :
          microtasks' = Tail(microtasks) \o more
          /\ more = IF Runner!Settled(Runner!PreviousOf(h)) THEN View!ReactionsOf(h) ELSE <<>>
    <3>1. PICK reactions \in Seq(RunnerJobs) :
            reactions = Runner!ReactionsOf(h) /\ reactions = View!ReactionsOf(h)
      BY ReactionsAreJobs
    <3>2. <<>> \in Seq(RunnerJobs)
      OBVIOUS
    <3>3. microtasks \in Seq(JobsOf) /\ microtasks # <<>>
      BY <1>1, HeadRuns DEF ControlInv, QueueOK
    <3>4. Tail(microtasks) = Tail(microtasks) \o <<>>
      BY <3>3
    <3>5. microtasks' = IF Runner!Settled(Runner!PreviousOf(h))
                        THEN Tail(microtasks) \o reactions ELSE Tail(microtasks)
      BY <1>5, <3>1 DEF Runner!CallRun
    <3>6. QED
      BY <3>1, <3>2, <3>4, <3>5
  <2>2. /\ QueueOK' /\ RunnerQueue' = RunnerQueue \o more
        /\ Task[h] = "ContextLoaded" /\ Task' = [Task EXCEPT ![h] = "none"]
    BY <1>1, <1>2, <2>1, TaskEnds DEF ControlInv
  <2>3. /\ phase[h] = "idle"
        /\ phase' = [phase EXCEPT ![h] = "waiting"]
        /\ UNCHANGED released
    BY <1>5 DEF Runner!CallRun
  <2>4. View!Call(h)
    <3>1. RunnerQueue' = IF View!Settled(View!PreviousOf(h))
                         THEN RunnerQueue \o View!ReactionsOf(h) ELSE RunnerQueue
      BY <2>1, <2>2, QueuesAreSequences, NothingAdded
         DEF ControlInv, View!Settled, Runner!Settled, View!PreviousOf, Runner!PreviousOf
    <3>2. QED
      BY <1>5, <3>1
         DEF Runner!CallRun, View!Call, View!CallRun, Runner!PreviousOf, View!PreviousOf
  <2>5. SeenStep
    BY <2>4 DEF SeenStep, View!Next
  <2>6. TypeOK'
    BY <1>1, <1>5 DEF ControlInv, TypeOK, storageVars
  <2>7. CallInOrder(h) /\ \A d \in Calls : Task'[d] = IF d = h THEN "none" ELSE Task[d]
    BY <2>2 DEF ControlInv, CallsInOrder, Task
  <2>8. phase'[h] = "waiting" /\ \A d \in Calls : d # h => phase'[d] = phase[d]
    <3>1. View!TypeOK
      BY DEF ControlInv, View!IInv
    <3>2. QED
      BY <2>3, <3>1 DEF View!TypeOK
  <2>9. CallInOrder(h)'
    <3>1. /\ Task'[h] = "none" /\ command'[h] = command[h]
          /\ answer'[h] = None /\ h \notin failed'
      BY <1>1, <1>3, <1>5, <2>2, <2>7
    <3>2. Sound(h)'
      BY <1>1, <1>3, <1>5, <2>2, <2>7, RefusalsAreAnswers DEF Sound
    <3>3. QED
      BY <1>3, <2>2, <2>7, <2>8, <3>1, <3>2, ChecksAreTasks DEF CallInOrder
  <2>10. \A d \in Calls : d # h => SameCall(d)
    BY <1>1, <1>5, <2>7, <2>8 DEF SameCall
  <2>11. QED
    BY <1>5, <2>2, <2>3, <2>5, <2>6, <2>7, <2>8, <2>9, <2>10, OthersInOrder
       DEF TaskMoves, PhaseMoves
<1>6. QED
  BY <1>4, <1>5 DEF ContextLoaded

\* A job of the runner goes on in the service.
LEMMA HandedOver ==
  ASSUME ControlInv, NEW h \in Calls, NEW do \in RunnerNames, Runs(do, h),
         NEW next \in TaskNames, Task[h] = "none", ContinueAt(next, h)
  PROVE  /\ QueueOK' /\ CallInOrder(h)
         /\ RunnerQueue # <<>> /\ Head(RunnerQueue) = Job(do, h)
         /\ RunnerQueue' = Tail(RunnerQueue)
         /\ \A d \in Calls : Task'[d] = IF d = h THEN next ELSE Task[d]
<1>1. /\ QueueOK' /\ Task' = [Task EXCEPT ![h] = next]
      /\ RunnerQueue # <<>> /\ Head(RunnerQueue) = Job(do, h)
      /\ RunnerQueue' = Tail(RunnerQueue)
  BY RunnerHandsOver DEF ControlInv
<1>2. \A d \in Calls : Task'[d] = IF d = h THEN next ELSE Task[d]
  BY <1>1 DEF Task
<1>3. QED
  BY <1>1, <1>2 DEF ControlInv, CallsInOrder

\* Where the runner's jobs find their calls.
LEMMA PlaceOfRun ==
  ASSUME ControlInv, NEW h \in Calls, NEW do \in RunnerNames, Runs(do, h)
  PROVE  /\ do = "Begin" => phase[h] = "waiting" /\ Task[h] = "none"
         /\ do = "Finish" => phase[h] = "ending" /\ Task[h] = "none"
         /\ do = "Return" => phase[h] = "finished" /\ Task[h] = "none"
<1>1. View!Runs(do, h)
  <2>1. PICK more \in Seq(JobsOf) : more = <<>>
    <3>1. <<>> \in Seq(JobsOf)
      OBVIOUS
    <3>2. QED
      BY <3>1
  <2>2. microtasks \in Seq(JobsOf) /\ microtasks # <<>> /\ Head(microtasks) = Job(do, h)
    BY HeadRuns DEF ControlInv, QueueOK
  <2>3. Job(do, h) \in RunnerJobs
    BY KindsOfJobs
  <2>4. RunnerQueue # <<>> /\ Head(RunnerQueue) = Job(do, h)
    BY <2>2, <2>3, KeptHead DEF RunnerQueue
  <2>5. QED
    BY <2>4 DEF View!Runs, View!Job, Job
<1>2. /\ do = "Begin" => phase[h] = "waiting"
      /\ do = "Finish" => phase[h] = "ending"
      /\ do = "Return" => phase[h] = "finished"
  <2>1. GameOf \in [Calls -> Games] /\ NoCall \notin Calls
    BY GamesOfCalls
  <2>2. View!IInv
    BY DEF ControlInv
  <2>3. /\ View!Runs("Begin", h) => phase[h] = "waiting"
        /\ View!Runs("Finish", h) => phase[h] = "ending"
        /\ View!Runs("Return", h) => phase[h] = "finished"
    BY <2>1, <2>2, View!PlaceOfJob, Zenon
  <2>4. QED
    BY <1>1, <2>3
<1>3. CallInOrder(h) /\ Task[h] \in TaskNames \cup {"none"}
  BY TaskIsName DEF ControlInv, CallsInOrder
<1>4. phase[h] \in {"waiting", "ending", "finished"} => Task[h] = "none"
  BY <1>3 DEF CallInOrder, TaskNames
<1>5. QED
  BY <1>2, <1>4

LEMMA BeginTransactionInOrder ==
  ASSUME ControlInv, NEW h \in Calls, BeginTransaction(h)
  PROVE  /\ QueueOK' /\ TypeOK' /\ CallsInOrder' /\ SeenStep
         /\ TaskMoves(h, "none", "SnapshotLoaded") /\ PhaseMoves(h, "waiting", "operating")
<1>1. /\ UNCHANGED <<handleVars, storageVars, published>>
      /\ UNCHANGED <<arrivals, locks, previous, released, queued>>
      /\ Runs("Begin", h)
      /\ phase' = [phase EXCEPT ![h] = "operating"]
      /\ microtasks' = Tail(microtasks) \o <<Job("SnapshotLoaded", h)>>
  BY DEF BeginTransaction, Runner!BeginWith, Runs
<1>2. "Begin" \in RunnerNames /\ "SnapshotLoaded" \in TaskNames
      /\ "SnapshotLoaded" \in TransactionNames
  BY DEF RunnerNames, TaskNames, TransactionNames
<1>3. phase[h] = "waiting" /\ Task[h] = "none"
  BY <1>1, <1>2, PlaceOfRun
<1>4. ContinueAt("SnapshotLoaded", h)
  <2>1. microtasks \in Seq(JobsOf) /\ microtasks # <<>> /\ Job("SnapshotLoaded", h) \in JobsOf
    BY <1>1, <1>2, HeadRuns, KindsOfJobs DEF ControlInv, QueueOK
  <2>2. Tail(microtasks) \o <<Job("SnapshotLoaded", h)>>
          = Append(Tail(microtasks), Job("SnapshotLoaded", h))
    BY <2>1
  <2>3. QED
    BY <1>1, <2>2 DEF ContinueAt
<1>5. /\ QueueOK' /\ CallInOrder(h)
      /\ RunnerQueue # <<>> /\ Head(RunnerQueue) = Job("Begin", h)
      /\ RunnerQueue' = Tail(RunnerQueue)
      /\ \A d \in Calls : Task'[d] = IF d = h THEN "SnapshotLoaded" ELSE Task[d]
  BY <1>1, <1>2, <1>3, <1>4, HandedOver
<1>6. View!Begin(h)
  <2>1. Tail(RunnerQueue) \o <<>> = Tail(RunnerQueue)
    BY <1>5, QueuesAreSequences DEF ControlInv
  <2>2. QED
    BY <1>1, <1>5, <2>1 DEF View!Begin, View!BeginWith, View!Runs, View!Job, Job
<1>7. SeenStep
  BY <1>6 DEF SeenStep, View!Next, View!Microtask
<1>8. TypeOK'
  BY <1>1 DEF ControlInv, TypeOK, handleVars, storageVars
<1>9. phase'[h] = "operating" /\ \A d \in Calls : d # h => phase'[d] = phase[d]
  BY <1>1 DEF ControlInv, View!IInv, View!TypeOK
<1>10. CallInOrder(h)'
  <2>1. /\ Task'[h] = "SnapshotLoaded" /\ answer'[h] = None /\ h \notin failed'
        /\ Sound(h)' /\ command'[h] # None
    BY <1>1, <1>3, <1>5 DEF CallInOrder, handleVars, Sound
  <2>2. QED
    BY <1>2, <1>9, <2>1, ChecksAreTasks DEF CallInOrder
<1>11. \A d \in Calls : d # h => SameCall(d)
  BY <1>1, <1>5, <1>9 DEF SameCall, handleVars
<1>12. QED
  BY <1>3, <1>5, <1>7, <1>8, <1>9, <1>10, <1>11, OthersInOrder DEF TaskMoves, PhaseMoves

LEMMA PublishInOrder ==
  ASSUME ControlInv, NEW h \in Calls, Publish(h)
  PROVE  /\ QueueOK' /\ TypeOK' /\ CallsInOrder' /\ SeenStep
         /\ TaskMoves(h, "none", "Persisted") /\ PhaseMoves(h, "finished", "returned")
<1>1. /\ UNCHANGED <<handleVars, storageVars>>
      /\ UNCHANGED <<arrivals, locks, previous, released, queued>>
      /\ Runs("Return", h)
      /\ phase' = [phase EXCEPT ![h] = "returned"]
      /\ ContinueAt("Persisted", h)
      /\ published' = IF Publishes(h)
           THEN [published EXCEPT ![GameOf[h]] = Append(@, [by |-> h, state |-> Result(h)])]
           ELSE published
  BY DEF Publish
<1>2. "Return" \in RunnerNames /\ "Persisted" \in TaskNames
  BY DEF RunnerNames, TaskNames
<1>3. phase[h] = "finished" /\ Task[h] = "none"
  BY <1>1, <1>2, PlaceOfRun
<1>4. /\ QueueOK' /\ CallInOrder(h)
      /\ RunnerQueue # <<>> /\ Head(RunnerQueue) = Job("Return", h)
      /\ RunnerQueue' = Tail(RunnerQueue)
      /\ \A d \in Calls : Task'[d] = IF d = h THEN "Persisted" ELSE Task[d]
  BY <1>1, <1>2, <1>3, HandedOver
<1>5. View!Return(h)
  BY <1>1, <1>4 DEF View!Return, View!Runs, View!Job, Job
<1>6. SeenStep
  BY <1>5 DEF SeenStep, View!Next, View!Microtask
<1>7. Sound(h) /\ command[h] # None /\ context[h] # NoState /\ answer[h] = None
  BY <1>3, <1>4 DEF CallInOrder, Sound
<1>8. TypeOK'
  <2>1. Result(h) \in StatesOf /\ GameOf[h] \in Games
    BY <1>7, ResultType, GamesOfCalls DEF ControlInv
  <2>2. PICK update \in [by : Calls, state : StatesOf] : update = [by |-> h, state |-> Result(h)]
    BY <2>1
  <2>3. PICK old \in Seq([by : Calls, state : StatesOf]) : old = published[GameOf[h]]
    BY <2>1 DEF ControlInv, TypeOK
  <2>4. Append(old, update) \in Seq([by : Calls, state : StatesOf])
    OBVIOUS
  <2>5. published' \in [Games -> Seq([by : Calls, state : StatesOf])]
    BY <1>1, <2>1, <2>2, <2>3, <2>4 DEF ControlInv, TypeOK
  <2>6. QED
    BY <1>1, <2>5 DEF ControlInv, TypeOK, handleVars, storageVars
<1>9. phase'[h] = "returned" /\ \A d \in Calls : d # h => phase'[d] = phase[d]
  BY <1>1 DEF ControlInv, View!IInv, View!TypeOK
<1>10. CallInOrder(h)'
  <2>1. /\ Task'[h] = "Persisted" /\ answer'[h] = None
        /\ Sound(h)' /\ command'[h] # None
    BY <1>1, <1>4, <1>7 DEF handleVars, Sound
  <2>2. QED
    BY <1>9, <2>1, ChecksAreTasks DEF CallInOrder
<1>11. \A d \in Calls : d # h => SameCall(d)
  BY <1>1, <1>4, <1>9 DEF SameCall, handleVars
<1>12. QED
  BY <1>3, <1>4, <1>6, <1>8, <1>9, <1>10, <1>11, OthersInOrder DEF TaskMoves, PhaseMoves

\* The steps of the transaction that write, each to one of the stores.
LEMMA WriteTypes ==
  ASSUME TypeOK, NEW h \in Calls, Sound(h)
  PROVE  /\ RecordOf(h) \in RecordsOf /\ Result(h) \in StatesOf
         /\ Key[command[h]] \in Keys
         /\ EventsOf(h) \in Seq([version : Nat, of : Commands, by : Calls])
<1>1. command[h] \in Commands /\ context[h] \in StatesOf /\ Key[command[h]] # NoKey
      /\ command[h] # None /\ context[h] # NoState
  BY DEF Sound, TypeOK
<1>2. RecordOf(h) \in RecordsOf /\ Result(h) \in StatesOf
  BY <1>1, ResultType
<1>3. Key[command[h]] \in Keys
  BY <1>1 DEF Keys
<1>4. PICK v \in Nat, n \in {1, 2} :
        /\ v = context[h].version
        /\ Result(h).version = v + n
        /\ n = IF Effect[command[h]] = "finish" THEN 2 ELSE 1
  <2>1. context[h].version \in Nat
    BY <1>1 DEF StatesOf
  <2>2. Result(h).version = context[h].version
                              + (IF Effect[command[h]] = "finish" THEN 2 ELSE 1)
    BY DEF Result, NextState
  <2>3. QED
    BY <2>1, <2>2
<1>5. Result(h).version - context[h].version = n
  BY <1>4
<1>6. EventsOf(h) = [i \in 1 .. n |-> Event(v + i, h)]
  BY <1>4, <1>5 DEF EventsOf
<1>7. \A i \in 1 .. n : Event(v + i, h) \in [version : Nat, of : Commands, by : Calls]
  BY <1>1, <1>4 DEF Event
<1>8. EventsOf(h) \in Seq([version : Nat, of : Commands, by : Calls])
  BY <1>6, <1>7
<1>9. QED
  BY <1>2, <1>3, <1>8

Writes(h) == SaveRecord(h) \/ AppendEvents(h) \/ SaveSnapshot(h)

LEMMA WritesInOrder ==
  ASSUME ControlInv, NEW h \in Calls, Writes(h)
  PROVE  /\ QueueOK' /\ TypeOK' /\ CallsInOrder' /\ Unseen
         /\ SaveRecord(h) => TaskMoves(h, "SnapshotLoaded", "RecordSaved")
         /\ AppendEvents(h) => TaskMoves(h, "RecordSaved", "EventsAppended")
         /\ SaveSnapshot(h) => TaskMoves(h, "EventsAppended", "SnapshotSaved")
<1>1. UNCHANGED <<runnerVars, handleVars, published>>
  BY DEF Writes, SaveRecord, AppendEvents, SaveSnapshot
<1>2. PICK do \in TransactionNames, next \in TransactionNames :
        Runs(do, h) /\ ContinueAt(next, h)
  BY DEF Writes, SaveRecord, AppendEvents, SaveSnapshot, TransactionNames
<1>3. do \in TaskNames /\ next \in TaskNames /\ do \notin CheckNames /\ next \notin CheckNames
  BY ChecksAreTasks
<1>4. /\ QueueOK' /\ Unseen
      /\ Task[h] = do /\ CallInOrder(h)
      /\ \A d \in Calls : Task'[d] = IF d = h THEN next ELSE Task[d]
  BY <1>1, <1>2, <1>3, NextTask
<1>5. phase[h] = "operating" /\ Sound(h) /\ answer[h] = None /\ h \notin failed
  BY <1>4 DEF CallInOrder
<1>6. /\ RecordOf(h) \in RecordsOf /\ Result(h) \in StatesOf /\ GameOf[h] \in Games
      /\ Key[command[h]] \in Keys
      /\ EventsOf(h) \in Seq([version : Nat, of : Commands, by : Calls])
  BY <1>5, WriteTypes, GamesOfCalls DEF ControlInv
<1>7. TypeOK'
  <2>1. CASE SaveRecord(h)
    BY <1>1, <1>6, <2>1 DEF SaveRecord, ControlInv, TypeOK, handleVars
  <2>2. CASE AppendEvents(h)
    <3>1. PICK old \in Seq([version : Nat, of : Commands, by : Calls]) : old = log[GameOf[h]]
      BY <1>6 DEF ControlInv, TypeOK
    <3>2. PICK new \in Seq([version : Nat, of : Commands, by : Calls]) : new = EventsOf(h)
      BY <1>6
    <3>3. old \o new \in Seq([version : Nat, of : Commands, by : Calls])
      OBVIOUS
    <3>4. log' \in [Games -> Seq([version : Nat, of : Commands, by : Calls])]
      BY <1>6, <2>2, <3>1, <3>2, <3>3 DEF AppendEvents, ControlInv, TypeOK
    <3>5. QED
      BY <1>1, <2>2, <3>4 DEF AppendEvents, ControlInv, TypeOK, handleVars
  <2>3. CASE SaveSnapshot(h)
    BY <1>1, <1>6, <2>3 DEF SaveSnapshot, SavedSnapshot, ControlInv, TypeOK, handleVars
  <2>4. QED
    BY <2>1, <2>2, <2>3 DEF Writes
<1>8. CallInOrder(h)'
  <2>1. /\ Task'[h] = next /\ phase'[h] = "operating" /\ answer'[h] = None
        /\ Sound(h)' /\ command'[h] # None /\ h \notin failed'
    BY <1>1, <1>4, <1>5 DEF runnerVars, handleVars, Sound
  <2>2. QED
    BY <1>3, <2>1, ChecksAreTasks DEF CallInOrder, CheckNames
<1>9. \A d \in Calls : d # h => SameCall(d)
  BY <1>1, <1>4 DEF SameCall, runnerVars, handleVars
<1>10. /\ SaveRecord(h) => TaskMoves(h, "SnapshotLoaded", "RecordSaved")
       /\ AppendEvents(h) => TaskMoves(h, "RecordSaved", "EventsAppended")
       /\ SaveSnapshot(h) => TaskMoves(h, "EventsAppended", "SnapshotSaved")
  <2>1. ASSUME NEW x \in TransactionNames, NEW y \in TransactionNames,
               Runs(x, h), ContinueAt(y, h)
        PROVE  TaskMoves(h, x, y)
    BY <1>1, <2>1, NextTask, ChecksAreTasks DEF TaskMoves
  <2>2. QED
    BY <2>1 DEF SaveRecord, AppendEvents, SaveSnapshot, TransactionNames
<1>11. QED
  BY <1>4, <1>7, <1>8, <1>9, <1>10, OthersInOrder

\* The transaction ends, with or without an error.
LEMMA EndInOrder ==
  ASSUME ControlInv, NEW h \in Calls, TransactionThrows(h) \/ TransactionReturns(h)
  PROVE  /\ QueueOK' /\ TypeOK' /\ CallsInOrder' /\ SeenStep
         /\ PhaseMoves(h, "operating", "ending")
         /\ \/ TaskMoves(h, "SnapshotLoaded", "none") /\ TransactionThrows(h)
            \/ TaskMoves(h, "SnapshotSaved", "none") /\ TransactionReturns(h)
<1>1. /\ UNCHANGED <<arrivals, locks, previous, released, queued>>
      /\ UNCHANGED <<command, stored, context, answer, storageVars, published>>
      /\ phase' = [phase EXCEPT ![h] = "ending"]
      /\ ContinueAt("Finish", h)
      /\ failed' \in SUBSET Calls /\ \A d \in Calls : d # h => (d \in failed' <=> d \in failed)
  BY DEF TransactionThrows, ThrowsPast, TransactionReturns, handleVars, ControlInv, TypeOK
<1>2. PICK do \in {"SnapshotLoaded", "SnapshotSaved"} :
        /\ Runs(do, h)
        /\ do = "SnapshotLoaded" => TransactionThrows(h)
        /\ do = "SnapshotSaved" => TransactionReturns(h)
  BY DEF TransactionThrows, ThrowsPast, TransactionReturns
<1>3. do \in TaskNames /\ do \in TransactionNames /\ "Finish" \in RunnerNames
  BY DEF TaskNames, TransactionNames, RunnerNames
<1>4. PICK more \in Seq(RunnerJobs) : more = <<Job("Finish", h)>>
  <2>1. Job("Finish", h) \in RunnerJobs
    BY <1>3, KindsOfJobs
  <2>2. <<Job("Finish", h)>> \in Seq(RunnerJobs)
    BY <2>1
  <2>3. QED
    BY <2>2
<1>5. microtasks' = Tail(microtasks) \o more
  BY <1>1, <1>2, <1>4, HeadRuns DEF ContinueAt, ControlInv, QueueOK
<1>6. /\ QueueOK' /\ RunnerQueue' = RunnerQueue \o more
      /\ Task[h] = do /\ Task' = [Task EXCEPT ![h] = "none"]
  BY <1>2, <1>3, <1>5, TaskEnds DEF ControlInv
<1>7. CallInOrder(h) /\ \A d \in Calls : Task'[d] = IF d = h THEN "none" ELSE Task[d]
  BY <1>6 DEF ControlInv, CallsInOrder, Task
<1>8. phase[h] = "operating" /\ Sound(h) /\ command[h] # None /\ answer[h] = None
  BY <1>3, <1>6, <1>7 DEF CallInOrder, Sound
<1>9. View!OperationEnds(h)
  <2>1. RunnerQueue' = Append(RunnerQueue, Job("Finish", h))
    BY <1>4, <1>6, QueuesAreSequences DEF ControlInv
  <2>2. QED
    BY <1>1, <1>8, <2>1 DEF View!OperationEnds, View!Job, Job
<1>10. SeenStep
  BY <1>9 DEF SeenStep, View!Next
<1>11. TypeOK'
  BY <1>1 DEF ControlInv, TypeOK, storageVars
<1>12. phase'[h] = "ending" /\ \A d \in Calls : d # h => phase'[d] = phase[d]
  BY <1>1 DEF ControlInv, View!IInv, View!TypeOK
<1>13. CallInOrder(h)'
  <2>1. Task'[h] = "none" /\ answer'[h] = None /\ Sound(h)' /\ command'[h] # None
    BY <1>1, <1>7, <1>8 DEF Sound
  <2>2. QED
    BY <1>12, <2>1, ChecksAreTasks DEF CallInOrder
<1>14. \A d \in Calls : d # h => SameCall(d)
  BY <1>1, <1>7, <1>12 DEF SameCall
<1>15. QED
  BY <1>2, <1>6, <1>7, <1>8, <1>10, <1>11, <1>12, <1>13, <1>14, OthersInOrder
     DEF TaskMoves, PhaseMoves

LEMMA PersistedInOrder ==
  ASSUME ControlInv, NEW h \in Calls, Persisted(h)
  PROVE  /\ QueueOK' /\ TypeOK' /\ CallsInOrder' /\ Unseen
         /\ TaskMoves(h, "Persisted", "none")
<1>1. /\ UNCHANGED <<runnerVars, command, stored, context, failed, storageVars, published>>
      /\ Runs("Persisted", h) /\ Stops
      /\ answer' = [answer EXCEPT ![h] = AnswerPersisted(h)]
  BY DEF Persisted, Answer
<1>2. /\ QueueOK' /\ Unseen
      /\ Task[h] = "Persisted" /\ CallInOrder(h)
      /\ \A d \in Calls : Task'[d] = IF d = h THEN "none" ELSE Task[d]
  BY <1>1, LastTask, ChecksAreTasks
<1>3. phase[h] = "returned" /\ Sound(h) /\ command[h] # None /\ context[h] # NoState
  BY <1>2 DEF CallInOrder, Sound
<1>4. AnswerPersisted(h) \in AnswersOf
  <2>1. Result(h) \in StatesOf
    BY <1>3, ResultType DEF ControlInv
  <2>2. QED
    BY <2>1 DEF AnswerPersisted, Accepted, Rejected, AnswersOf
<1>5. TypeOK'
  BY <1>1, <1>4 DEF ControlInv, TypeOK, storageVars
<1>6. CallInOrder(h)'
  <2>1. /\ Task'[h] = "none" /\ phase'[h] = "returned" /\ Sound(h)' /\ command'[h] # None
        /\ answer'[h] = AnswerPersisted(h) /\ AnswerPersisted(h)' = AnswerPersisted(h)
    BY <1>1, <1>2, <1>3
       DEF runnerVars, Sound, ControlInv, TypeOK, AnswerPersisted, Accepted, Result
  <2>2. QED
    BY <2>1, ChecksAreTasks DEF CallInOrder
<1>7. \A d \in Calls : d # h => SameCall(d)
  BY <1>1, <1>2 DEF SameCall, runnerVars
<1>8. QED
  BY <1>2, <1>5, <1>6, <1>7, OthersInOrder DEF TaskMoves

\* A job of the runner: only its own jobs follow.
LEMMA RunnerJobInOrder ==
  ASSUME ControlInv, NEW h \in Calls, NEW do \in RunnerNames, Runs(do, h),
         NEW more \in Seq(RunnerJobs), microtasks' = Tail(microtasks) \o more,
         UNCHANGED <<handleVars, storageVars, published>>,
         \/ UNCHANGED phase
         \/ do = "Finish" /\ phase' = [phase EXCEPT ![h] = "finished"]
  PROVE  /\ QueueOK' /\ TypeOK' /\ CallsInOrder'
         /\ View!Runs(do, h) /\ RunnerQueue' = Tail(RunnerQueue) \o more
         /\ Task' = Task /\ (UNCHANGED phase \/ PhaseMoves(h, "ending", "finished"))
<1>1. /\ QueueOK' /\ Task' = Task
      /\ RunnerQueue # <<>> /\ Head(RunnerQueue) = Job(do, h)
      /\ RunnerQueue' = Tail(RunnerQueue) \o more
  BY RunnerGoesOn DEF ControlInv
<1>2. View!Runs(do, h)
  BY <1>1 DEF View!Runs, View!Job, Job
<1>3. TypeOK'
  BY DEF ControlInv, TypeOK, handleVars, storageVars
<1>4. CASE UNCHANGED phase
  <2>1. \A d \in Calls : SameCall(d)
    BY <1>1, <1>4 DEF SameCall, handleVars
  <2>2. ASSUME NEW d \in Calls
        PROVE  CallInOrder(d)'
    BY <2>1, Undisturbed DEF ControlInv, CallsInOrder
  <2>3. QED
    BY <1>1, <1>2, <1>3, <1>4, <2>2 DEF CallsInOrder
<1>5. CASE do = "Finish" /\ phase' = [phase EXCEPT ![h] = "finished"]
  <2>1. phase[h] = "ending" /\ Task[h] = "none" /\ CallInOrder(h)
    BY <1>5, PlaceOfRun DEF ControlInv, CallsInOrder
  <2>2. phase'[h] = "finished" /\ \A d \in Calls : d # h => phase'[d] = phase[d]
    BY <1>5 DEF ControlInv, View!IInv, View!TypeOK
  <2>3. CallInOrder(h)'
    <3>1. /\ Task'[h] = "none" /\ Sound(h)' /\ command'[h] # None /\ answer'[h] = None
      BY <1>1, <2>1 DEF CallInOrder, Sound, handleVars
    <3>2. QED
      BY <2>2, <3>1, ChecksAreTasks DEF CallInOrder
  <2>4. \A d \in Calls : d # h => SameCall(d)
    BY <1>1, <2>2 DEF SameCall, handleVars
  <2>5. QED
    BY <1>1, <1>2, <1>3, <2>1, <2>2, <2>3, <2>4, OthersInOrder DEF PhaseMoves
<1>6. QED
  BY <1>4, <1>5

LEMMA RunnerStepInOrder ==
  ASSUME ControlInv, NEW h \in Calls, RunnerStep(h)
  PROVE  /\ QueueOK' /\ TypeOK' /\ CallsInOrder' /\ SeenStep
         /\ Task' = Task /\ (UNCHANGED phase \/ PhaseMoves(h, "ending", "finished"))
<1>1. UNCHANGED <<handleVars, storageVars, published>>
  BY DEF RunnerStep
<1>2. PICK none \in Seq(RunnerJobs) : none = <<>>
  <2>1. <<>> \in Seq(RunnerJobs)
    OBVIOUS
  <2>2. QED
    BY <2>1
<1>3. ASSUME NEW do \in RunnerNames
      PROVE  \E more \in Seq(RunnerJobs) : more = <<Job(do, h)>>
  <2>1. Job(do, h) \in RunnerJobs
    BY KindsOfJobs
  <2>2. <<Job(do, h)>> \in Seq(RunnerJobs)
    BY <2>1
  <2>3. QED
    BY <2>2
<1>4. ASSUME NEW do, Runs(do, h)
      PROVE  /\ Tail(microtasks) = Tail(microtasks) \o none
             /\ \A next : Append(Tail(microtasks), Job(next, h))
                            = Tail(microtasks) \o <<Job(next, h)>>
  BY <1>2, <1>4, HeadRuns DEF ControlInv, QueueOK
<1>5. CASE Runner!FollowCurrent(h)
  <2>1. /\ Runs("FollowCurrent", h) /\ "FollowCurrent" \in RunnerNames
        /\ "Subscribe" \in RunnerNames
        /\ microtasks' = Append(Tail(microtasks), Job("Subscribe", h))
        /\ UNCHANGED runnerVars
    BY <1>5 DEF Runner!FollowCurrent, Runner!Job, Job, Runs, RunnerNames,
                Runner!runnerVars, runnerVars
  <2>2. PICK more \in Seq(RunnerJobs) : more = <<Job("Subscribe", h)>>
    BY <1>3, <2>1
  <2>3. microtasks' = Tail(microtasks) \o more
    BY <1>4, <2>1, <2>2
  <2>4. /\ QueueOK' /\ TypeOK' /\ CallsInOrder' /\ Task' = Task
        /\ UNCHANGED phase \/ PhaseMoves(h, "ending", "finished")
        /\ View!Runs("FollowCurrent", h) /\ RunnerQueue' = Tail(RunnerQueue) \o more
    BY <1>1, <2>1, <2>3, RunnerJobInOrder DEF runnerVars
  <2>5. RunnerQueue' = Append(Tail(RunnerQueue), Job("Subscribe", h))
    BY <2>2, <2>4, QueuesAreSequences DEF ControlInv, View!Runs
  <2>6. View!FollowCurrent(h)
    BY <2>1, <2>4, <2>5 DEF View!FollowCurrent, View!Job, Job, View!runnerVars, runnerVars
  <2>7. QED
    BY <2>4, <2>6 DEF SeenStep, View!Next, View!Microtask
<1>6. CASE Runner!Subscribe(h)
  <2>1. /\ Runs("Subscribe", h) /\ "Subscribe" \in RunnerNames /\ "Settle" \in RunnerNames
        /\ microtasks' = IF h \in released THEN Append(Tail(microtasks), Job("Settle", h))
                         ELSE Tail(microtasks)
        /\ queued' = [queued EXCEPT ![h] = "following"]
        /\ UNCHANGED <<arrivals, phase, locks, previous, released>>
    BY <1>6 DEF Runner!Subscribe, Runner!Job, Job, Runs, RunnerNames
  <2>2. PICK more \in Seq(RunnerJobs) :
          more = IF h \in released THEN <<Job("Settle", h)>> ELSE <<>>
    BY <1>2, <1>3, <2>1
  <2>3. microtasks' = Tail(microtasks) \o more
    BY <1>2, <1>4, <2>1, <2>2
  <2>4. /\ QueueOK' /\ TypeOK' /\ CallsInOrder' /\ Task' = Task
        /\ UNCHANGED phase \/ PhaseMoves(h, "ending", "finished")
        /\ View!Runs("Subscribe", h) /\ RunnerQueue' = Tail(RunnerQueue) \o more
    BY <1>1, <2>1, <2>3, RunnerJobInOrder
  <2>5. RunnerQueue' = IF h \in released THEN Append(Tail(RunnerQueue), Job("Settle", h))
                       ELSE Tail(RunnerQueue)
    BY <2>2, <2>4, QueuesAreSequences DEF ControlInv, View!Runs
  <2>6. View!Subscribe(h)
    BY <2>1, <2>4, <2>5 DEF View!Subscribe, View!Job, Job
  <2>7. QED
    BY <2>4, <2>6 DEF SeenStep, View!Next, View!Microtask
<1>7. CASE Runner!Settle(h)
  <2>1. /\ Runs("Settle", h) /\ "Settle" \in RunnerNames
        /\ queued' = [queued EXCEPT ![h] = "resolved"]
        /\ \/ (\A d \in Calls : previous[d] # h) /\ microtasks' = Tail(microtasks)
           \/ \E d \in Calls :
                previous[d] = h /\ microtasks' = Tail(microtasks) \o Runner!ReactionsOf(d)
        /\ UNCHANGED <<arrivals, phase, locks, previous, released>>
    BY <1>7 DEF Runner!Settle, Runs, RunnerNames
  <2>2. PICK more \in Seq(RunnerJobs) :
          /\ microtasks' = Tail(microtasks) \o more
          /\ \/ (\A d \in Calls : previous[d] # h) /\ more = <<>>
             \/ \E d \in Calls : previous[d] = h /\ more = View!ReactionsOf(d)
    <3>1. CASE (\A d \in Calls : previous[d] # h) /\ microtasks' = Tail(microtasks)
      BY <1>2, <1>4, <2>1, <3>1
    <3>2. CASE \E d \in Calls :
                 previous[d] = h /\ microtasks' = Tail(microtasks) \o Runner!ReactionsOf(d)
      <4>1. PICK d \in Calls :
              previous[d] = h /\ microtasks' = Tail(microtasks) \o Runner!ReactionsOf(d)
        BY <3>2
      <4>2. PICK more \in Seq(RunnerJobs) :
              more = Runner!ReactionsOf(d) /\ more = View!ReactionsOf(d)
        BY ReactionsAreJobs
      <4>3. QED
        BY <4>1, <4>2
    <3>3. QED
      BY <2>1, <3>1, <3>2
  <2>3. /\ QueueOK' /\ TypeOK' /\ CallsInOrder' /\ Task' = Task
        /\ UNCHANGED phase \/ PhaseMoves(h, "ending", "finished")
        /\ View!Runs("Settle", h) /\ RunnerQueue' = Tail(RunnerQueue) \o more
    BY <1>1, <2>1, <2>2, RunnerJobInOrder
  <2>4. Tail(RunnerQueue) \o <<>> = Tail(RunnerQueue)
    BY <2>3, QueuesAreSequences DEF ControlInv, View!Runs
  <2>5. View!Settle(h)
    BY <2>1, <2>2, <2>3, <2>4 DEF View!Settle
  <2>6. QED
    BY <2>3, <2>5 DEF SeenStep, View!Next, View!Microtask
<1>8. CASE Runner!Finish(h)
  <2>1. /\ Runs("Finish", h) /\ "Finish" \in RunnerNames
        /\ "Settle" \in RunnerNames /\ "Return" \in RunnerNames
        /\ phase' = [phase EXCEPT ![h] = "finished"]
        /\ microtasks' = Tail(microtasks) \o Runner!JobsAfterFinish(h)
    BY <1>8 DEF Runner!Finish, Runs, RunnerNames
  <2>2. PICK more \in Seq(RunnerJobs) :
          more = Runner!JobsAfterFinish(h) /\ more = View!JobsAfterFinish(h)
    <3>1. Job("Settle", h) \in RunnerJobs /\ Job("Return", h) \in RunnerJobs
      BY <2>1, KindsOfJobs
    <3>2. /\ <<Job("Settle", h), Job("Return", h)>> \in Seq(RunnerJobs)
          /\ <<Job("Return", h)>> \in Seq(RunnerJobs)
      BY <3>1
    <3>3. QED
      BY <3>2 DEF Runner!JobsAfterFinish, View!JobsAfterFinish, Runner!Job, View!Job, Job
  <2>3. /\ QueueOK' /\ TypeOK' /\ CallsInOrder' /\ Task' = Task
        /\ UNCHANGED phase \/ PhaseMoves(h, "ending", "finished")
        /\ View!Runs("Finish", h) /\ RunnerQueue' = Tail(RunnerQueue) \o more
    BY <1>1, <2>1, <2>2, RunnerJobInOrder
  <2>4. View!Finish(h)
    BY <1>8, <2>2, <2>3
       DEF Runner!Finish, View!Finish, Runner!LocksAfterFinish, View!LocksAfterFinish
  <2>5. QED
    BY <2>3, <2>4 DEF SeenStep, View!Next, View!Microtask
<1>9. QED
  BY <1>5, <1>6, <1>7, <1>8 DEF RunnerStep

LEMMA StepInOrder ==
  ASSUME ControlInv, Next
  PROVE  QueueOK' /\ TypeOK' /\ CallsInOrder' /\ SeenStep
<1>1. CASE \E g \in Games : CreateGame(g)
  BY <1>1, CreateGameInOrder, UnseenIsSeen
<1>2. CASE \E h \in Calls, m \in Commands : Handle(h, m)
  BY <1>2, HandleInOrder, UnseenIsSeen
<1>3. ASSUME NEW h \in Calls, Microtask(h)
      PROVE  QueueOK' /\ TypeOK' /\ CallsInOrder' /\ SeenStep
  <2>1. CASE StoredReturns(h) \/ ContextReturns(h)
    BY <2>1, ReturnsInOrder, UnseenIsSeen
  <2>2. CASE StoredLoaded(h)
    BY <2>2, StoredLoadedInOrder, UnseenIsSeen
  <2>3. CASE ContextLoaded(h)
    BY <2>3, ContextLoadedInOrder
  <2>4. CASE BeginTransaction(h)
    BY <2>4, BeginTransactionInOrder
  <2>5. CASE TransactionThrows(h) \/ TransactionReturns(h)
    BY <2>5, EndInOrder
  <2>6. CASE SaveRecord(h) \/ AppendEvents(h) \/ SaveSnapshot(h)
    BY <2>6, WritesInOrder, UnseenIsSeen DEF Writes
  <2>7. CASE RunnerStep(h)
    BY <2>7, RunnerStepInOrder
  <2>8. CASE Publish(h)
    BY <2>8, PublishInOrder
  <2>9. CASE Persisted(h)
    BY <2>9, PersistedInOrder, UnseenIsSeen
  <2>10. QED
    BY <1>3, <2>1, <2>2, <2>3, <2>4, <2>5, <2>6, <2>7, <2>8, <2>9 DEF Microtask, Transaction
<1>4. QED
  BY <1>1, <1>2, <1>3 DEF Next

LEMMA StartsInOrder ==
  ASSUME Init
  PROVE  ControlInv
<1>1. /\ Runner!Init
      /\ command = [h \in Calls |-> None] /\ stored = [h \in Calls |-> None]
      /\ context = [h \in Calls |-> NoState] /\ failed = {}
      /\ answer = [h \in Calls |-> None] /\ snapshots = [g \in Games |-> NoState]
      /\ records = [g \in Games |-> [k \in Keys |-> None]]
      /\ log = [g \in Games |-> <<>>] /\ published = [g \in Games |-> <<>>]
  BY DEF Init
<1>2. microtasks = <<>> /\ phase = [h \in Calls |-> "idle"]
  BY <1>1 DEF Runner!Init
<1>3. \A h \in Calls : Resting(h)
  BY <1>2, KeptEmpty DEF Resting, Own
<1>4. QueueOK
  BY <1>2, <1>3 DEF QueueOK, OneTask, Resting
<1>5. TypeOK
  BY <1>1 DEF TypeOK
<1>6. View!IInv
  <2>1. RunnerQueue = <<>>
    BY <1>2, KeptEmpty DEF RunnerQueue
  <2>2. View!Init
    BY <1>1, <2>1 DEF Runner!Init, View!Init
  <2>3. GameOf \in [Calls -> Games] /\ NoCall \notin Calls
    BY GamesOfCalls
  <2>4. QED
    BY <2>2, <2>3, View!StartsInOrder, Zenon
<1>7. ASSUME NEW h \in Calls
      PROVE  CallInOrder(h)
  BY <1>1, <1>2, <1>3, ChecksAreTasks DEF CallInOrder, Task, CheckNames
<1>8. QED
  BY <1>4, <1>5, <1>6, <1>7 DEF ControlInv, CallsInOrder

LEMMA StaysInOrder ==
  ASSUME ControlInv, [Next]_vars
  PROVE  ControlInv' /\ [View!Next]_(View!vars)
<1>1. CASE Next
  <2>1. QueueOK' /\ TypeOK' /\ CallsInOrder' /\ SeenStep
    BY <1>1, StepInOrder
  <2>2. [View!Next]_(View!vars)
    BY <2>1 DEF SeenStep
  <2>3. View!IInv /\ GameOf \in [Calls -> Games] /\ NoCall \notin Calls
    BY GamesOfCalls DEF ControlInv
  <2>4. View!IInv'
    BY <2>2, <2>3, View!StaysInOrder, Zenon
  <2>5. QED
    BY <2>1, <2>2, <2>4 DEF ControlInv
<1>2. CASE UNCHANGED vars
  <2>1. UNCHANGED <<microtasks, runnerVars, handleVars, storageVars, published>>
    BY <1>2 DEF vars
  <2>2. QueueOK' /\ Task' = Task /\ UNCHANGED View!vars
    BY <2>1 DEF ControlInv, QueueOK, OneTask, Own, Task, Resting, RunnerQueue,
                View!vars, View!runnerVars, runnerVars
  <2>3. TypeOK'
    BY <2>1 DEF ControlInv, TypeOK, handleVars, storageVars
  <2>4. View!IInv /\ GameOf \in [Calls -> Games] /\ NoCall \notin Calls
    BY GamesOfCalls DEF ControlInv
  <2>5. [View!Next]_(View!vars)
    BY <2>2
  <2>6. View!IInv'
    BY <2>4, <2>5, View!StaysInOrder, Zenon
  <2>7. ASSUME NEW d \in Calls
        PROVE  CallInOrder(d)'
    <3>1. SameCall(d)
      BY <2>1, <2>2 DEF SameCall, runnerVars, handleVars
    <3>2. QED
      BY <3>1, Undisturbed DEF ControlInv, CallsInOrder
  <2>8. QED
    BY <2>2, <2>3, <2>5, <2>6, <2>7 DEF ControlInv, CallsInOrder
<1>3. QED
  BY <1>1, <1>2

LEMMA ControlHolds == Spec => []ControlInv
<1>1. Init => ControlInv
  BY StartsInOrder
<1>2. ControlInv /\ [Next]_vars => ControlInv'
  BY StaysInOrder
<1>3. QED
  BY <1>1, <1>2, PTL DEF Spec

-----------------------------------------------------------------------------
(* The service and its runner.                                             *)

\* What a call of handle loads, finds, makes and answers is always a state, a
\* record or an answer, and so is what the repositories keep.
THEOREM ServiceTypeCorrect == Spec => []TypeOK
<1>1. ControlInv => TypeOK
  BY DEF ControlInv
<1>2. QED
  BY <1>1, ControlHolds, PTL

\* What ImplementsRunner says without its fairness.
RunnerSafety == RunnerView!Init /\ [][RunnerView!Next]_(RunnerView!vars)

LEMMA ViewIsRunnerView ==
  /\ View!Init => RunnerView!Init
  /\ [View!Next]_(View!vars) => [RunnerView!Next]_(RunnerView!vars)
<1>1. View!Init => RunnerView!Init
  BY DEF View!Init, RunnerView!Init, RunnerQueue
<1>2. View!vars = RunnerView!vars /\ (UNCHANGED View!vars => UNCHANGED RunnerView!vars)
  BY DEF View!vars, RunnerView!vars, View!runnerVars, RunnerView!runnerVars, RunnerQueue
<1>3. ASSUME NEW c \in Calls
      PROVE  /\ View!Call(c) => RunnerView!Call(c)
             /\ View!OperationEnds(c) => RunnerView!OperationEnds(c)
             /\ View!FollowCurrent(c) => RunnerView!FollowCurrent(c)
             /\ View!Subscribe(c) => RunnerView!Subscribe(c)
             /\ View!Settle(c) => RunnerView!Settle(c)
             /\ View!Begin(c) => RunnerView!Begin(c)
             /\ View!Finish(c) => RunnerView!Finish(c)
             /\ View!Return(c) => RunnerView!Return(c)
  <2>1. /\ \A do : View!Runs(do, c) <=> RunnerView!Runs(do, c)
        /\ \A do, d : View!Job(do, d) = RunnerView!Job(do, d)
        /\ \A d : View!ReactionsOf(d) = RunnerView!ReactionsOf(d)
    BY DEF View!Runs, RunnerView!Runs, View!Job, RunnerView!Job, RunnerQueue,
           View!ReactionsOf, RunnerView!ReactionsOf
  <2>2. View!Call(c) => RunnerView!Call(c)
    BY <2>1 DEF View!Call, RunnerView!Call, View!CallRun, RunnerView!CallRun, RunnerQueue,
           View!Settled, RunnerView!Settled, View!PreviousOf, RunnerView!PreviousOf
  <2>3. View!OperationEnds(c) => RunnerView!OperationEnds(c)
    BY <2>1 DEF View!OperationEnds, RunnerView!OperationEnds, RunnerQueue
  <2>4. View!FollowCurrent(c) => RunnerView!FollowCurrent(c)
    BY <2>1 DEF View!FollowCurrent, RunnerView!FollowCurrent, RunnerQueue,
                View!runnerVars, RunnerView!runnerVars
  <2>5. View!Subscribe(c) => RunnerView!Subscribe(c)
    BY <2>1 DEF View!Subscribe, RunnerView!Subscribe, RunnerQueue
  <2>6. View!Settle(c) => RunnerView!Settle(c)
    BY <2>1 DEF View!Settle, RunnerView!Settle, RunnerQueue
  <2>7. View!Begin(c) => RunnerView!Begin(c)
    BY <2>1 DEF View!Begin, RunnerView!Begin, View!BeginWith, RunnerView!BeginWith, RunnerQueue
  <2>8. View!Finish(c) => RunnerView!Finish(c)
    BY <2>1 DEF View!Finish, RunnerView!Finish, RunnerQueue, View!LocksAfterFinish,
                RunnerView!LocksAfterFinish, View!JobsAfterFinish, RunnerView!JobsAfterFinish
  <2>9. View!Return(c) => RunnerView!Return(c)
    BY <2>1 DEF View!Return, RunnerView!Return, RunnerQueue
  <2>10. QED
    BY <2>2, <2>3, <2>4, <2>5, <2>6, <2>7, <2>8, <2>9
<1>4. View!Next => RunnerView!Next
  BY <1>3 DEF View!Next, RunnerView!Next, View!Microtask, RunnerView!Microtask
<1>5. QED
  BY <1>1, <1>2, <1>4

\* Whatever handle does between its microtasks, the transaction runner goes
\* through its own steps only: run is called once for a call of handle, and
\* its operation begins and ends where the runner expects it to.
THEOREM ServiceUsesTheRunner == Spec => RunnerSafety
<1>1. Init => RunnerView!Init
  <2> SUFFICES ASSUME Init PROVE RunnerView!Init
    OBVIOUS
  <2>1. RunnerQueue = <<>>
    BY KeptEmpty DEF Init, Runner!Init, RunnerQueue
  <2>2. QED
    BY <2>1 DEF Init, Runner!Init, RunnerView!Init, RunnerQueue
<1>2. ControlInv /\ [Next]_vars => [RunnerView!Next]_(RunnerView!vars)
  BY StaysInOrder, ViewIsRunnerView
<1>3. QED
  BY <1>1, <1>2, ControlHolds, PTL DEF Spec, RunnerSafety

-----------------------------------------------------------------------------
(* One transaction of a game at a time.                                    *)

Inside(h) == phase[h] \in {"operating", "ending", "finished"}
Alone ==
  \A h, d \in Calls :
    phase[h] \in {"operating", "ending"} /\ d # h /\ GameOf[d] = GameOf[h] => ~Inside(d)
OneInside ==
  \A h, d \in Calls : Inside(h) /\ Inside(d) /\ GameOf[h] = GameOf[d] => h = d

LEMMA OperatesAlone == ControlInv => Alone
<1> SUFFICES ASSUME ControlInv, NEW h \in Calls, NEW d \in Calls,
                    phase[h] \in {"operating", "ending"}, d # h, GameOf[d] = GameOf[h]
             PROVE  ~Inside(d)
  BY DEF Alone
<1>1. View!IInv /\ GameOf \in [Calls -> Games] /\ NoCall \notin Calls
  BY GamesOfCalls DEF ControlInv
<1>2. phase[d] \in {"idle", "waiting", "returned"}
  BY <1>1, View!OperatesAlone, Zenon
<1>3. QED
  BY <1>2 DEF Inside

-----------------------------------------------------------------------------
(* What the repositories, the log and the answers say.                     *)

Doing(do) == {h \in Calls : Task[h] = do}

\* The calls whose events are in the log, and those of them whose update is
\* not published yet.
Committers ==
  {h \in Calls : \/ Task[h] \in {"EventsAppended", "SnapshotSaved"}
                 \/ phase[h] \in {"ending", "finished", "returned"} /\ h \notin failed}
Behind == {h \in Committers : phase[h] # "returned"}

CommittedTo == [g \in Games |-> Committed(g)]
UpdatesTo == [g \in Games |-> [i \in DOMAIN published[g] |-> published[g][i].by]]
In(s, h) == \E i \in DOMAIN s : s[i] = h
NoneTwice(s) == \A i, j \in DOMAIN s : s[i] = s[j] => i = j

\* The log holds the events of the calls that have committed, each call's once.
LogInv ==
  \A g \in Games :
    /\ \A i \in DOMAIN log[g] : GameOf[log[g][i].by] = g /\ log[g][i].by \in Committers
    /\ \A h \in Calls : In(CommittedTo[g], h) <=> GameOf[h] = g /\ h \in Committers
    /\ NoneTwice(CommittedTo[g])
    /\ CommittedTo[g] = <<>> => log[g] = <<>>

\* A snapshot is the state of the last commit, except between its events and
\* itself.
LastState(g) ==
  IF CommittedTo[g] = <<>> THEN NewGame ELSE Result(Last(CommittedTo[g]))
SnapshotInv ==
  /\ \A h \in Calls : context[h] # NoState => snapshots[GameOf[h]] # NoState
  /\ \A h \in Doing("EventsAppended") :
       CommittedTo[GameOf[h]] # <<>> /\ Last(CommittedTo[GameOf[h]]) = h
  /\ \A g \in Games :
       snapshots[g] # NoState /\ (\A h \in Doing("EventsAppended") : GameOf[h] # g)
       => snapshots[g] = LastState(g)

\* A record is that of the last commit with its key, except between itself
\* and the events.
WithKey(k) == {h \in Calls : command[h] # None /\ Key[command[h]] = k}
Mine(g, k) == Kept(CommittedTo[g], WithKey(k))
Recording(g, k) == {h \in WithKey(k) : GameOf[h] = g /\ h \in Doing("RecordSaved")}
RecordInv ==
  \A g \in Games : \A k \in Keys :
    /\ \A h \in Recording(g, k) : records[g][k] = RecordOf(h)
    /\ Recording(g, k) = {} =>
         records[g][k] = IF Mine(g, k) = <<>> THEN None ELSE RecordOf(Last(Mine(g, k)))

\* A listener is behind by the transaction under way.
UpdateInv ==
  \A g \in Games :
    /\ \A i \in DOMAIN published[g] : /\ published[g][i].by \in Committers
                                      /\ published[g][i].state = Result(published[g][i].by)
    /\ \A h \in Behind : GameOf[h] = g => CommittedTo[g] = Append(UpdatesTo[g], h)
    /\ (\A h \in Behind : GameOf[h] # g) => CommittedTo[g] = UpdatesTo[g]

\* A success that was found belongs to a commit, or to a transaction whose
\* events are appended before the call that found it goes on.
Pair(h, d) == Kept(microtasks, TasksOf(h) \cup TasksOf(d))
FoundFrom(h, d) ==
  /\ GameOf[d] = GameOf[h]
  /\ \/ d \in Committers
     \/ /\ Task[d] = "RecordSaved"
        /\ Pair(h, d) = <<Job("RecordSaved", d), Job("StoredReturns", h)>>
  /\ stored[h] = RecordOf(d)
FoundInv == \A h \in Calls : stored[h] # None => \E d \in Calls : FoundFrom(h, d)

\* A replayed answer is the state that a commit of the same command made.
ReplayInv ==
  \A h \in Calls : answer[h] # None /\ answer[h].kind = "replayed" =>
    \E d \in Committers : /\ GameOf[d] = GameOf[h] /\ command[d] = command[h]
                          /\ answer[h].state = Result(d)

StoresInv == LogInv /\ SnapshotInv /\ RecordInv /\ UpdateInv
DataInv == OneInside /\ StoresInv /\ FoundInv /\ ReplayInv

-----------------------------------------------------------------------------
(* The steps, as far as the stores are concerned.                          *)

\* What a call has is not changed under way.
Fixed ==
  \A d \in Calls :
    /\ command[d] # None => command'[d] = command[d]
    /\ phase[d] # "idle" => phase'[d] # "idle" /\ context'[d] = context[d]

\* Nothing is stored or published, and what there is means what it meant.
Rests ==
  /\ UNCHANGED <<storageVars, published>>
  /\ Committers' = Committers /\ Behind' = Behind
  /\ Doing("RecordSaved")' = Doing("RecordSaved")
  /\ Doing("EventsAppended")' = Doing("EventsAppended")

\* A context is loaded from the snapshot.
Loads ==
  \A d \in Calls : context'[d] = context[d] \/ context'[d] = snapshots[GameOf[d]]

\* The steps that do nothing but these.
Checks(h) ==
  \/ StoredReturns(h) \/ StoredLoaded(h) \/ ContextReturns(h) \/ ContextLoaded(h)
  \/ Persisted(h) \/ RunnerStep(h)
  \/ BeginTransaction(h) \/ TransactionThrows(h) \/ TransactionReturns(h)

LEMMA SameTasks ==
  ASSUME NEW h \in Calls, NEW a, NEW b, TaskMoves(h, a, b),
         a \notin {"RecordSaved", "EventsAppended", "SnapshotSaved"},
         b \notin {"RecordSaved", "EventsAppended", "SnapshotSaved"}
  PROVE  /\ Doing("RecordSaved")' = Doing("RecordSaved")
         /\ Doing("EventsAppended")' = Doing("EventsAppended")
         /\ \A d \in Calls : Task'[d] \in {"EventsAppended", "SnapshotSaved"}
                               <=> Task[d] \in {"EventsAppended", "SnapshotSaved"}
BY DEF TaskMoves, Doing

LEMMA SameSets ==
  ASSUME UNCHANGED phase, UNCHANGED failed,
         \A d \in Calls : Task'[d] \in {"EventsAppended", "SnapshotSaved"}
                            <=> Task[d] \in {"EventsAppended", "SnapshotSaved"}
  PROVE  Committers' = Committers /\ Behind' = Behind
BY DEF Committers, Behind

LEMMA ChecksRest ==
  ASSUME ControlInv, NEW h \in Calls, Checks(h)
  PROVE  Rests /\ Fixed /\ Loads
<1>1. CASE StoredReturns(h) \/ ContextReturns(h)
  <2>1. UNCHANGED <<runnerVars, handleVars, storageVars, published>>
    BY <1>1 DEF StoredReturns, ContextReturns
  <2>2. \/ TaskMoves(h, "StoredReturns", "StoredLoaded")
        \/ TaskMoves(h, "ContextReturns", "ContextLoaded")
    BY <1>1, ReturnsInOrder
  <2>3. QED
    BY <2>1, <2>2, SameTasks, SameSets DEF Rests, Fixed, Loads, runnerVars, handleVars
<1>2. CASE StoredLoaded(h)
  <2>1. /\ UNCHANGED <<runnerVars, command, stored, failed, storageVars, published>>
        /\ \A d \in Calls : \/ context'[d] = context[d]
                            \/ d = h /\ context'[d] = snapshots[GameOf[d]]
    BY <1>2 DEF StoredLoaded, LoadedState, ControlInv, TypeOK
  <2>2. TaskMoves(h, "StoredLoaded", "none") \/ TaskMoves(h, "StoredLoaded", "ContextReturns")
    BY <1>2, StoredLoadedInOrder
  <2>3. phase[h] = "idle"
    BY <2>2 DEF TaskMoves, ControlInv, CallsInOrder, CallInOrder, CheckNames
  <2>4. QED
    BY <2>1, <2>2, <2>3, SameTasks, SameSets DEF Rests, Fixed, Loads, runnerVars
<1>3. CASE ContextLoaded(h)
  <2>1. /\ UNCHANGED <<command, stored, context, failed, storageVars, published>>
        /\ TaskMoves(h, "ContextLoaded", "none")
        /\ UNCHANGED phase \/ PhaseMoves(h, "idle", "waiting")
    BY <1>3, ContextLoadedInOrder DEF ContextLoaded
  <2>2. h \notin failed
    BY <2>1 DEF TaskMoves, ControlInv, CallsInOrder, CallInOrder, CheckNames
  <2>3. Committers' = Committers /\ Behind' = Behind
    BY <2>1, <2>2, SameTasks DEF Committers, Behind, PhaseMoves
  <2>4. QED
    BY <2>1, <2>3, SameTasks DEF Rests, Fixed, Loads, PhaseMoves
<1>4. CASE Persisted(h)
  <2>1. UNCHANGED <<runnerVars, command, stored, context, failed, storageVars, published>>
    BY <1>4 DEF Persisted
  <2>2. TaskMoves(h, "Persisted", "none")
    BY <1>4, PersistedInOrder
  <2>3. QED
    BY <2>1, <2>2, SameTasks, SameSets DEF Rests, Fixed, Loads, runnerVars
<1>5. CASE RunnerStep(h)
  <2>1. /\ UNCHANGED <<handleVars, storageVars, published>>
        /\ Task' = Task /\ (UNCHANGED phase \/ PhaseMoves(h, "ending", "finished"))
    BY <1>5, RunnerStepInOrder DEF RunnerStep
  <2>2. Committers' = Committers /\ Behind' = Behind
    BY <2>1 DEF Committers, Behind, PhaseMoves, handleVars
  <2>3. QED
    BY <2>1, <2>2 DEF Rests, Fixed, Loads, PhaseMoves, handleVars, Doing
<1>6. CASE BeginTransaction(h)
  <2>1. /\ UNCHANGED <<handleVars, storageVars, published>>
        /\ TaskMoves(h, "none", "SnapshotLoaded") /\ PhaseMoves(h, "waiting", "operating")
    BY <1>6, BeginTransactionInOrder DEF BeginTransaction
  <2>2. Committers' = Committers /\ Behind' = Behind
    BY <2>1, SameTasks DEF Committers, Behind, PhaseMoves, handleVars
  <2>3. QED
    BY <2>1, <2>2, SameTasks DEF Rests, Fixed, Loads, PhaseMoves, handleVars
<1>7. CASE TransactionThrows(h) \/ TransactionReturns(h)
  <2>1. /\ UNCHANGED <<command, context, storageVars, published>>
        /\ PhaseMoves(h, "operating", "ending")
        /\ \/ TaskMoves(h, "SnapshotLoaded", "none") /\ TransactionThrows(h)
           \/ TaskMoves(h, "SnapshotSaved", "none") /\ TransactionReturns(h)
    BY <1>7, EndInOrder DEF TransactionThrows, ThrowsPast, TransactionReturns, handleVars
  <2>2. h \notin failed
    BY <2>1 DEF PhaseMoves, ControlInv, CallsInOrder, CallInOrder
  <2>3. /\ TaskMoves(h, "SnapshotLoaded", "none") => failed' = failed \cup {h}
        /\ TaskMoves(h, "SnapshotSaved", "none") => failed' = failed
    BY <2>1 DEF TaskMoves, TransactionThrows, ThrowsPast, TransactionReturns, handleVars
  <2>4. Committers' = Committers /\ Behind' = Behind
    BY <2>1, <2>2, <2>3 DEF Committers, Behind, PhaseMoves, TaskMoves
  <2>5. Doing("RecordSaved")' = Doing("RecordSaved")
        /\ Doing("EventsAppended")' = Doing("EventsAppended")
    BY <2>1 DEF TaskMoves, Doing
  <2>6. QED
    BY <2>1, <2>4, <2>5 DEF Rests, Fixed, Loads, PhaseMoves
<1>8. QED
  BY <1>1, <1>2, <1>3, <1>4, <1>5, <1>6, <1>7 DEF Checks

LEMMA HandleRests ==
  ASSUME ControlInv, NEW h \in Calls, NEW m \in Commands, Handle(h, m)
  PROVE  Rests /\ Fixed /\ Loads
<1>1. /\ command[h] = None /\ command' = [command EXCEPT ![h] = m]
      /\ UNCHANGED <<runnerVars, context, failed, storageVars, published>>
      /\ TaskMoves(h, "none", "StoredReturns")
  BY HandleInOrder DEF Handle
<1>2. \A d \in Calls : d # h => command'[d] = command[d]
  BY <1>1 DEF ControlInv, TypeOK
<1>3. QED
  BY <1>1, <1>2, SameTasks, SameSets DEF Rests, Fixed, Loads, runnerVars

\* A call that has committed is sound, and so is one that is inside.
LEMMA Soundness ==
  ASSUME ControlInv, NEW d \in Calls,
         d \in Committers \/ Inside(d) \/ Task[d] \in TransactionNames
  PROVE  /\ phase[d] \notin {"idle", "waiting"} /\ Sound(d) /\ command[d] \in Commands
         /\ command[d] # None /\ context[d] # NoState /\ context[d] \in StatesOf
         /\ Key[command[d]] \in Keys /\ GameOf[d] \in Games
<1>1. CallInOrder(d)
  BY DEF ControlInv, CallsInOrder
<1>2. phase[d] \notin {"idle", "waiting"}
  BY <1>1 DEF Committers, Inside, CallInOrder, TransactionNames
<1>3. Sound(d)
  BY <1>1, <1>2 DEF CallInOrder
<1>4. QED
  BY <1>2, <1>3, GamesOfCalls DEF Sound, Keys, ControlInv, TypeOK

LEMMA FixedResults ==
  ASSUME ControlInv, Fixed, NEW d \in Calls, phase[d] # "idle"
  PROVE  /\ command'[d] = command[d] /\ context'[d] = context[d]
         /\ Result(d)' = Result(d) /\ RecordOf(d)' = RecordOf(d)
<1>1. Sound(d)
  BY DEF ControlInv, CallsInOrder, CallInOrder
<1>2. command'[d] = command[d] /\ context'[d] = context[d]
  BY <1>1 DEF Fixed, Sound
<1>3. QED
  BY <1>2 DEF Result, RecordOf

\* The events of a committed call say which of them is the first, whatever
\* the other calls load.
LEMMA FirstEventsStay ==
  ASSUME ControlInv, Fixed, NEW e, e.by \in Calls, phase[e.by] # "idle"
  PROVE  e \in FirstEvents' <=> e \in FirstEvents
<1>1. /\ command'[e.by] = command[e.by] /\ context'[e.by] = context[e.by]
  BY FixedResults
<1>2. \A v, d : Event(v, d).by = d
  BY DEF Event
<1>3. e \in FirstEvents <=> context[e.by] # NoState /\ e = Event(context[e.by].version + 1, e.by)
  BY <1>2 DEF FirstEvents
<1>4. e \in FirstEvents' <=> context'[e.by] # NoState /\ e = Event(context[e.by].version + 1, e.by)
  <2>1. Event(context[e.by].version + 1, e.by)' = Event(context[e.by].version + 1, e.by)
    BY <1>1 DEF Event
  <2>2. \A d \in Calls : [version |-> context'[d].version + 1, of |-> command'[d], by |-> d].by = d
    OBVIOUS
  <2>3. e \in FirstEvents' <=>
          /\ context'[e.by] # NoState
          /\ e = [version |-> context'[e.by].version + 1, of |-> command'[e.by], by |-> e.by]
    BY <2>2 DEF FirstEvents, Event
  <2>4. QED
    BY <1>1, <2>3 DEF Event
<1>5. QED
  BY <1>1, <1>3, <1>4

EventsType == [version : Nat, of : Commands, by : Calls]

LEMMA EventsHaveCalls ==
  ASSUME NEW s \in Seq(EventsType), NEW i \in DOMAIN s
  PROVE  s[i].by \in Calls
<1>1. s[i] \in EventsType
  OBVIOUS
<1>2. QED
  BY <1>1 DEF EventsType

LEMMA SameLog ==
  ASSUME ControlInv, LogInv, Fixed, UNCHANGED log
  PROVE  CommittedTo' = CommittedTo
<1>1. ASSUME NEW g \in Games
      PROVE  Kept(log[g], FirstEvents)' = Kept(log[g], FirstEvents)
  <2>1. PICK s \in Seq(EventsType) : s = log[g]
    BY DEF ControlInv, TypeOK, EventsType
  <2>2. PICK S : S = FirstEvents
    OBVIOUS
  <2>3. PICK R : R = FirstEvents'
    OBVIOUS
  <2>4. ASSUME NEW i \in DOMAIN s
        PROVE  s[i] \in S <=> s[i] \in R
    <3>1. s[i].by \in Calls
      BY EventsHaveCalls
    <3>2. s[i].by \in Committers
      BY <2>1 DEF LogInv
    <3>3. QED
      BY <2>2, <2>3, <3>1, <3>2, Soundness, FirstEventsStay
  <2>5. Kept(s, S) = Kept(s, R)
    BY <2>4, KeptSame
  <2>6. QED
    BY <2>1, <2>2, <2>3, <2>5
<1>2. \A g \in Games : CommittedTo'[g] = CommittedTo[g]
  BY <1>1 DEF CommittedTo, Committed
<1>3. QED
  BY <1>2 DEF CommittedTo

\* The commits of a game are calls of handle.
LEMMA CommitsType ==
  ASSUME ControlInv, NEW g \in Games
  PROVE  CommittedTo[g] \in Seq(Calls)
<1>1. PICK s \in Seq(EventsType) : s = log[g]
  BY DEF ControlInv, TypeOK, EventsType
<1>2. PICK firsts \in Seq(EventsType) : firsts = Kept(log[g], FirstEvents)
  BY <1>1, KeptType
<1>3. \A i \in DOMAIN firsts : firsts[i].by \in Calls
  BY EventsHaveCalls
<1>4. [i \in DOMAIN firsts |-> firsts[i].by] \in Seq(Calls)
  BY <1>3
<1>5. QED
  BY <1>2, <1>4 DEF CommittedTo, Committed

\* Of the events of a call, the first one stands for its commit.
LEMMA FirstEventKept ==
  ASSUME ControlInv, NEW h \in Calls, Sound(h)
  PROVE  \E e \in EventsType, more \in Seq(EventsType) :
           /\ e.by = h /\ more = EventsOf(h) /\ more # <<>>
           /\ \A i \in DOMAIN more : more[i].by = h
           /\ Kept(more, FirstEvents) = <<e>>
<1>1. /\ context[h] # NoState /\ context[h] \in StatesOf /\ command[h] \in Commands
  BY DEF Sound, ControlInv, TypeOK
<1>2. PICK v \in Nat : v = context[h].version
  BY <1>1 DEF StatesOf
<1>3. PICK n \in {1, 2} : Result(h).version = v + n
  BY <1>2 DEF Result, NextState
<1>4. PICK e \in EventsType : e = Event(v + 1, h)
  <2>1. Event(v + 1, h) \in EventsType
    BY <1>1 DEF Event, EventsType
  <2>2. QED
    BY <2>1
<1>5. PICK f \in EventsType : f = Event(v + 2, h)
  <2>1. Event(v + 2, h) \in EventsType
    BY <1>1 DEF Event, EventsType
  <2>2. QED
    BY <2>1
<1>6. e.by = h /\ f.by = h /\ e.version = v + 1 /\ f.version = v + 2
  BY <1>4, <1>5 DEF Event
<1>7. e \in FirstEvents
  BY <1>1, <1>2, <1>4 DEF FirstEvents
<1>8. f \notin FirstEvents
  <2>1. SUFFICES ASSUME NEW d \in Calls, f = Event(context[d].version + 1, d)
                 PROVE  FALSE
    BY DEF FirstEvents
  <2>2. d = h /\ f.version = v + 1
    BY <1>2, <1>6, <2>1 DEF Event
  <2>3. QED
    BY <1>6, <2>2
<1>9. EventsOf(h) = [i \in 1 .. n |-> Event(v + i, h)]
  BY <1>2, <1>3 DEF EventsOf
<1>10. PICK one \in Seq(EventsType) : one = <<e>>
  <2>1. <<e>> \in Seq(EventsType)
    OBVIOUS
  <2>2. QED
    BY <2>1
<1>11. PICK two \in Seq(EventsType) : two = Append(one, f)
  <2>1. Append(one, f) \in Seq(EventsType)
    OBVIOUS
  <2>2. QED
    BY <2>1
<1>12. Kept(one, FirstEvents) = <<e>>
  BY <1>7, <1>10, KeptOne
<1>13. Kept(two, FirstEvents) = <<e>>
  BY <1>8, <1>11, <1>12, KeptStep
<1>14. EventsOf(h) = IF n = 1 THEN one ELSE two
  <2>1. CASE n = 1
    <3>1. EventsOf(h) = [i \in 1 .. 1 |-> e]
      BY <1>4, <1>9, <2>1
    <3>2. QED
      BY <1>10, <2>1, <3>1
  <2>2. CASE n = 2
    <3>1. EventsOf(h) = [i \in 1 .. 2 |-> IF i = 1 THEN e ELSE f]
      BY <1>4, <1>5, <1>9, <2>2
    <3>2. two = [i \in 1 .. 2 |-> IF i = 1 THEN e ELSE f]
      BY <1>10, <1>11
    <3>3. QED
      BY <2>2, <3>1, <3>2
  <2>3. QED
    BY <2>1, <2>2
<1>15. /\ one # <<>> /\ two # <<>>
       /\ \A i \in DOMAIN one : one[i].by = h
       /\ \A i \in DOMAIN two : two[i].by = h
  BY <1>6, <1>10, <1>11
<1>16. QED
  BY <1>6, <1>12, <1>13, <1>14, <1>15

\* The calls that a sequence names.
LEMMA CallsOfType ==
  ASSUME NEW V, \A x \in V : x.by \in Calls, NEW s \in Seq(V)
  PROVE  [i \in DOMAIN s |-> s[i].by] \in Seq(Calls)
<1>1. PICK n \in Nat : n = Len(s) /\ DOMAIN s = 1 .. n
  OBVIOUS
<1>2. \A i \in 1 .. n : s[i].by \in Calls
  BY <1>1
<1>3. [i \in 1 .. n |-> s[i].by] \in Seq(Calls)
  BY <1>2
<1>4. QED
  BY <1>1, <1>3

LEMMA CallsAppended ==
  ASSUME NEW V, \A x \in V : x.by \in Calls, NEW s \in Seq(V), NEW e \in V
  PROVE  [i \in DOMAIN Append(s, e) |-> Append(s, e)[i].by]
           = Append([i \in DOMAIN s |-> s[i].by], e.by)
<1>1. PICK n \in Nat : n = Len(s) /\ DOMAIN s = 1 .. n
  OBVIOUS
<1>2. PICK by \in Seq(Calls) : by = [i \in DOMAIN s |-> s[i].by]
  BY CallsOfType
<1>3. PICK all \in Seq(V) : all = Append(s, e)
  <2>1. Append(s, e) \in Seq(V)
    OBVIOUS
  <2>2. QED
    BY <2>1
<1>4. /\ DOMAIN all = 1 .. n + 1 /\ all[n + 1] = e /\ \A i \in 1 .. n : all[i] = s[i]
  BY <1>1, <1>3
<1>5. e.by \in Calls
  OBVIOUS
<1>6. DOMAIN by = 1 .. n /\ \A i \in 1 .. n : by[i] = s[i].by
  BY <1>1, <1>2
<1>7. PICK longer \in Seq(Calls) : longer = Append(by, e.by)
  <2>1. Append(by, e.by) \in Seq(Calls)
    BY <1>5
  <2>2. QED
    BY <2>1
<1>8. /\ DOMAIN longer = 1 .. n + 1 /\ longer[n + 1] = e.by
      /\ \A i \in 1 .. n : longer[i] = by[i]
  BY <1>6, <1>7
<1>9. \A i \in 1 .. n + 1 : i = n + 1 \/ i \in 1 .. n
  OBVIOUS
<1>10. \A i \in 1 .. n + 1 : longer[i] = all[i].by
  BY <1>4, <1>6, <1>8, <1>9
<1>11. longer = [i \in 1 .. n + 1 |-> all[i].by]
  <2>1. longer = [i \in 1 .. n + 1 |-> longer[i]]
    BY <1>8
  <2>2. QED
    BY <1>10, <2>1
<1>12. QED
  BY <1>2, <1>3, <1>4, <1>7, <1>11, Zenon

LEMMA CommitAdded ==
  ASSUME ControlInv, NEW h \in Calls, AppendEvents(h)
  PROVE  /\ Sound(h) /\ GameOf[h] \in Games
         /\ \A g \in Games :
              CommittedTo'[g] = IF g = GameOf[h] THEN Append(CommittedTo[g], h) ELSE CommittedTo[g]
<1>1. /\ UNCHANGED <<runnerVars, handleVars, snapshots, records, published>>
      /\ log' = [log EXCEPT ![GameOf[h]] = @ \o EventsOf(h)]
      /\ TaskMoves(h, "RecordSaved", "EventsAppended")
  BY WritesInOrder DEF AppendEvents, Writes
<1>2. Sound(h) /\ GameOf[h] \in Games
  BY <1>1, Soundness DEF TaskMoves, TransactionNames
<1>3. FirstEvents' = FirstEvents
  BY <1>1 DEF FirstEvents, Event, handleVars
<1>4. ASSUME NEW g \in Games, g # GameOf[h]
      PROVE  CommittedTo'[g] = CommittedTo[g]
  <2>1. log'[g] = log[g]
    BY <1>1, <1>4 DEF ControlInv, TypeOK
  <2>2. QED
    BY <1>3, <2>1 DEF CommittedTo, Committed
<1>5. ASSUME NEW g \in Games, g = GameOf[h]
      PROVE  CommittedTo'[g] = Append(CommittedTo[g], h)
  <2>1. PICK e \in EventsType, more \in Seq(EventsType) :
          /\ e.by = h /\ more = EventsOf(h)
          /\ Kept(more, FirstEvents) = <<e>>
    BY <1>2, FirstEventKept
  <2>2. PICK s \in Seq(EventsType) : s = log[g]
    BY DEF ControlInv, TypeOK, EventsType
  <2>3. log'[g] = s \o more
    BY <1>1, <1>2, <1>5, <2>1, <2>2 DEF ControlInv, TypeOK
  <2>4. PICK firsts \in Seq(EventsType) : firsts = Kept(s, FirstEvents)
    BY KeptType
  <2>5. Kept(s \o more, FirstEvents) = firsts \o <<e>>
    <3>1. Kept(s \o more, FirstEvents) = Kept(s, FirstEvents) \o Kept(more, FirstEvents)
      BY KeptConcat
    <3>2. QED
      BY <2>1, <2>4, <3>1, Zenon
  <2>6. firsts \o <<e>> = Append(firsts, e)
    OBVIOUS
  <2>7. [i \in DOMAIN Append(firsts, e) |-> Append(firsts, e)[i].by]
          = Append([i \in DOMAIN firsts |-> firsts[i].by], h)
    <3>1. \A x \in EventsType : x.by \in Calls
      BY DEF EventsType
    <3>2. QED
      BY <2>1, <3>1, CallsAppended
  <2>8. CommittedTo[g] = [i \in DOMAIN firsts |-> firsts[i].by]
    BY <2>2, <2>4 DEF CommittedTo, Committed
  <2>9. CommittedTo'[g] = [i \in DOMAIN Append(firsts, e) |-> Append(firsts, e)[i].by]
    BY <1>3, <2>3, <2>5, <2>6 DEF CommittedTo, Committed
  <2>10. QED
    BY <2>7, <2>8, <2>9
<1>6. QED
  BY <1>2, <1>4, <1>5

\* The last of a sequence is in it, and what is appended is last.
LEMMA LastIsIn ==
  ASSUME NEW V, NEW s \in Seq(V), s # <<>>
  PROVE  Last(s) \in V /\ In(s, Last(s))
<1>1. Len(s) \in DOMAIN s
  OBVIOUS
<1>2. QED
  BY <1>1 DEF Last, In

LEMMA LastAppended ==
  ASSUME NEW V, NEW s \in Seq(V), NEW e \in V
  PROVE  Append(s, e) # <<>> /\ Last(Append(s, e)) = e
BY DEF Last

LEMMA LastOfCommits ==
  ASSUME ControlInv, LogInv, NEW g \in Games, CommittedTo[g] # <<>>
  PROVE  /\ Last(CommittedTo[g]) \in Calls /\ Last(CommittedTo[g]) \in Committers
         /\ GameOf[Last(CommittedTo[g])] = g
<1>1. CommittedTo[g] \in Seq(Calls)
  BY CommitsType
<1>2. Last(CommittedTo[g]) \in Calls /\ In(CommittedTo[g], Last(CommittedTo[g]))
  BY <1>1, LastIsIn
<1>3. QED
  BY <1>2 DEF LogInv

LEMMA CommittersFixed ==
  ASSUME ControlInv, Fixed, NEW d \in Committers
  PROVE  /\ d \in Calls /\ command'[d] = command[d] /\ context'[d] = context[d]
         /\ Result(d)' = Result(d) /\ RecordOf(d)' = RecordOf(d)
<1>1. d \in Calls
  BY DEF Committers
<1>2. phase[d] # "idle"
  BY <1>1, Soundness
<1>3. QED
  BY <1>1, <1>2, FixedResults

LEMMA SameLastState ==
  ASSUME ControlInv, LogInv, Fixed, NEW g \in Games, CommittedTo'[g] = CommittedTo[g]
  PROVE  LastState(g)' = LastState(g)
<1>1. CASE CommittedTo[g] = <<>>
  BY <1>1 DEF LastState, NewGame
<1>2. CASE CommittedTo[g] # <<>>
  <2>1. PICK d \in Committers : d = Last(CommittedTo[g])
    BY <1>2, LastOfCommits
  <2>2. Result(d)' = Result(d)
    BY <2>1, CommittersFixed
  <2>3. LastState(g)' = Result(d)' /\ LastState(g) = Result(d)
    BY <1>2, <2>1 DEF LastState, Result
  <2>4. QED
    BY <2>2, <2>3
<1>3. QED
  BY <1>1, <1>2

LEMMA SameMine ==
  ASSUME ControlInv, LogInv, Fixed, NEW g \in Games, NEW k, CommittedTo'[g] = CommittedTo[g]
  PROVE  /\ Mine(g, k)' = Mine(g, k)
         /\ Mine(g, k) # <<>> =>
              /\ Last(Mine(g, k)) \in Committers
              /\ RecordOf(Last(Mine(g, k)))' = RecordOf(Last(Mine(g, k)))
<1>1. PICK s \in Seq(Calls) : s = CommittedTo[g]
  BY CommitsType
<1>2. PICK S : S = WithKey(k)
  OBVIOUS
<1>3. PICK R : R = WithKey(k)'
  OBVIOUS
<1>4. ASSUME NEW i \in DOMAIN s
      PROVE  s[i] \in Committers /\ (s[i] \in S <=> s[i] \in R)
  <2>1. s[i] \in Calls /\ In(CommittedTo[g], s[i])
    BY <1>1 DEF In
  <2>2. s[i] \in Committers
    BY <2>1 DEF LogInv
  <2>3. command'[s[i]] = command[s[i]]
    BY <2>2, CommittersFixed
  <2>4. QED
    BY <1>2, <1>3, <2>1, <2>2, <2>3 DEF WithKey
<1>5. Kept(s, S) = Kept(s, R)
  BY <1>4, KeptSame
<1>6. Mine(g, k)' = Mine(g, k)
  BY <1>1, <1>2, <1>3, <1>5 DEF Mine
<1>7. ASSUME Mine(g, k) # <<>>
      PROVE  Last(Mine(g, k)) \in Committers
  <2>1. Mine(g, k) = Kept(s, S)
    BY <1>1, <1>2 DEF Mine
  <2>2. PICK mine \in Seq(Calls) : mine = Kept(s, S)
    BY KeptType
  <2>3. In(mine, Last(mine))
    BY <1>7, <2>1, <2>2, LastIsIn
  <2>4. \E i \in DOMAIN s : s[i] = Last(mine)
    <3>1. PICK e : e = Last(mine)
      OBVIOUS
    <3>2. \E i \in DOMAIN Kept(s, S) : Kept(s, S)[i] = e
      BY <2>2, <2>3, <3>1 DEF In
    <3>3. (\E i \in DOMAIN Kept(s, S) : Kept(s, S)[i] = e)
            <=> e \in S /\ \E i \in DOMAIN s : s[i] = e
      BY KeptElements
    <3>4. QED
      BY <3>1, <3>2, <3>3
  <2>5. QED
    BY <1>4, <2>1, <2>2, <2>4
<1>8. ASSUME Mine(g, k) # <<>>
      PROVE  RecordOf(Last(Mine(g, k)))' = RecordOf(Last(Mine(g, k)))
  <2>1. PICK d \in Committers : d = Last(Mine(g, k))
    BY <1>7, <1>8
  <2>2. RecordOf(d)' = RecordOf(d)
    BY <2>1, CommittersFixed
  <2>3. RecordOf(Last(Mine(g, k)))' = RecordOf(d)'
    BY <1>6, <2>1 DEF RecordOf, Result
  <2>4. QED
    BY <2>1, <2>2, <2>3
<1>9. QED
  BY <1>6, <1>7, <1>8

\* The calls that have saved their record keep their key.
LEMMA SameRecording ==
  ASSUME ControlInv, Fixed, NEW g \in Games, NEW k,
         \A d \in Calls : GameOf[d] = g =>
           (d \in Doing("RecordSaved")' <=> d \in Doing("RecordSaved"))
  PROVE  /\ Recording(g, k)' = Recording(g, k)
         /\ \A d \in Recording(g, k) : RecordOf(d)' = RecordOf(d)
<1>1. ASSUME NEW d \in Doing("RecordSaved")
      PROVE  d \in Calls /\ command'[d] = command[d] /\ RecordOf(d)' = RecordOf(d)
  <2>1. d \in Calls /\ Task[d] \in TransactionNames
    BY DEF Doing, TransactionNames
  <2>2. phase[d] # "idle"
    BY <2>1, Soundness
  <2>3. QED
    BY <2>1, <2>2, FixedResults
<1>2. ASSUME NEW d
      PROVE  d \in Recording(g, k)' <=> d \in Recording(g, k)
  <2>1. CASE d \in Doing("RecordSaved") /\ GameOf[d] = g
    BY <1>1, <2>1 DEF Recording, WithKey
  <2>2. CASE ~(d \in Doing("RecordSaved") /\ GameOf[d] = g)
    BY <2>2 DEF Recording, WithKey
  <2>3. QED
    BY <2>1, <2>2
<1>3. \A d \in Recording(g, k) : RecordOf(d)' = RecordOf(d)
  BY <1>1 DEF Recording
<1>4. QED
  BY <1>2, <1>3

LEMMA RestsKeepStores ==
  ASSUME ControlInv, StoresInv, Rests, Fixed, Loads
  PROVE  StoresInv'
<1>1. /\ CommittedTo' = CommittedTo /\ UNCHANGED <<snapshots, records, log, published>>
      /\ Committers' = Committers /\ Behind' = Behind
      /\ Doing("RecordSaved")' = Doing("RecordSaved")
      /\ Doing("EventsAppended")' = Doing("EventsAppended")
  BY SameLog DEF Rests, StoresInv, storageVars
<1>2. LogInv /\ SnapshotInv /\ RecordInv /\ UpdateInv
  BY DEF StoresInv
<1>3. LogInv'
  BY <1>1, <1>2 DEF LogInv
<1>4. SnapshotInv'
  <2>1. \A h \in Calls : context'[h] # NoState => snapshots'[GameOf[h]] # NoState
    BY <1>1, <1>2 DEF SnapshotInv, Loads
  <2>2. ASSUME NEW g \in Games
        PROVE  LastState(g)' = LastState(g)
    BY <1>1, <1>2, SameLastState
  <2>3. QED
    BY <1>1, <1>2, <2>1, <2>2 DEF SnapshotInv
<1>5. RecordInv'
  <2>1. ASSUME NEW g \in Games, NEW k \in Keys
        PROVE  /\ \A h \in Recording(g, k)' : records'[g][k] = RecordOf(h)'
               /\ Recording(g, k)' = {} =>
                    records'[g][k] = IF Mine(g, k)' = <<>> THEN None
                                     ELSE RecordOf(Last(Mine(g, k)))'
    <3>1. /\ Recording(g, k)' = Recording(g, k)
          /\ \A d \in Recording(g, k) : RecordOf(d)' = RecordOf(d)
      BY <1>1, SameRecording
    <3>2. /\ Mine(g, k)' = Mine(g, k)
          /\ Mine(g, k) # <<>> => RecordOf(Last(Mine(g, k)))' = RecordOf(Last(Mine(g, k)))
      BY <1>1, <1>2, SameMine
    <3>3. QED
      BY <1>1, <1>2, <3>1, <3>2 DEF RecordInv
  <2>2. QED
    BY <2>1 DEF RecordInv
<1>6. UpdateInv'
  <2>1. UpdatesTo' = UpdatesTo
    BY <1>1 DEF UpdatesTo
  <2>2. \A d \in Committers : Result(d)' = Result(d)
    BY CommittersFixed
  <2>3. QED
    BY <1>1, <1>2, <2>1, <2>2 DEF UpdateInv
<1>7. QED
  BY <1>3, <1>4, <1>5, <1>6 DEF StoresInv

LEMMA InsideAlone ==
  ASSUME ControlInv, OneInside, NEW h \in Calls, Inside(h)
  PROVE  \A d \in Calls : d # h /\ GameOf[d] = GameOf[h] =>
           /\ ~Inside(d) /\ d \notin Behind
           /\ d \notin Doing("RecordSaved") /\ d \notin Doing("EventsAppended")
<1> SUFFICES ASSUME NEW d \in Calls, d # h, GameOf[d] = GameOf[h]
             PROVE  /\ ~Inside(d) /\ d \notin Behind
                    /\ d \notin Doing("RecordSaved") /\ d \notin Doing("EventsAppended")
  OBVIOUS
<1>1. ~Inside(d)
  BY DEF OneInside
<1>2. CallInOrder(d)
  BY DEF ControlInv, CallsInOrder
<1>3. d \notin Behind
  BY <1>1, <1>2 DEF Behind, Committers, Inside, CallInOrder, TransactionNames
<1>4. d \notin Doing("RecordSaved") /\ d \notin Doing("EventsAppended")
  BY <1>1, <1>2 DEF Doing, Inside, CallInOrder, TransactionNames
<1>5. QED
  BY <1>1, <1>3, <1>4

\* What the task and the phase of a call say of it.
LEMMA TaskSays ==
  ASSUME ControlInv, NEW h \in Calls
  PROVE  /\ Task[h] \in TransactionNames => Inside(h) /\ phase[h] = "operating" /\ h \notin failed
         /\ Task[h] \in {"SnapshotLoaded", "RecordSaved"} => h \notin Committers
         /\ Task[h] \in {"EventsAppended", "SnapshotSaved"} => h \in Committers /\ h \in Behind
<1>1. CallInOrder(h)
  BY DEF ControlInv, CallsInOrder
<1>2. QED
  BY <1>1 DEF CallInOrder, Inside, Committers, Behind, TransactionNames

\* A write changes no call.
LEMMA WritesFix ==
  ASSUME ControlInv, NEW h \in Calls, Writes(h)
  PROVE  /\ Fixed /\ UNCHANGED <<phase, published>>
         /\ \A d \in Calls : /\ context'[d] = context[d] /\ command'[d] = command[d]
                             /\ Result(d)' = Result(d) /\ RecordOf(d)' = RecordOf(d)
<1>1. UNCHANGED <<runnerVars, handleVars, published>>
  BY DEF Writes, SaveRecord, AppendEvents, SaveSnapshot
<1>2. ASSUME NEW d \in Calls
      PROVE  Result(d)' = Result(d) /\ RecordOf(d)' = RecordOf(d)
  BY <1>1 DEF Result, RecordOf, handleVars
<1>3. QED
  BY <1>1, <1>2 DEF Fixed, runnerVars, handleVars

LEMMA CreateGameKeepsStores ==
  ASSUME ControlInv, StoresInv, NEW g \in Games, CreateGame(g)
  PROVE  StoresInv' /\ Fixed
<1>1. /\ UNCHANGED <<runnerVars, handleVars, records, log, published>> /\ Task' = Task
      /\ snapshots[g] = NoState /\ snapshots' = [snapshots EXCEPT ![g] = NewGame]
  BY CreateGameInOrder DEF CreateGame
<1>2. /\ Fixed /\ Committers' = Committers /\ Behind' = Behind
      /\ Doing("RecordSaved")' = Doing("RecordSaved")
      /\ Doing("EventsAppended")' = Doing("EventsAppended")
      /\ UpdatesTo' = UpdatesTo
      /\ \A d \in Calls : Result(d)' = Result(d) /\ RecordOf(d)' = RecordOf(d)
  BY <1>1 DEF Fixed, Committers, Behind, Doing, UpdatesTo, Result, RecordOf,
              runnerVars, handleVars
<1>3. LogInv /\ SnapshotInv /\ RecordInv /\ UpdateInv
  BY DEF StoresInv
<1>4. CommittedTo' = CommittedTo
  BY <1>1, <1>2, <1>3, SameLog
<1>5. NewGame # NoState
  <2>1. NewGame \in StatesOf
    BY DEF NewGame, StatesOf
  <2>2. QED
    BY <2>1, LackAssumption
<1>6. \A f \in Games : snapshots'[f] = IF f = g THEN NewGame ELSE snapshots[f]
  BY <1>1 DEF ControlInv, TypeOK
<1>7. LogInv'
  BY <1>1, <1>2, <1>3, <1>4 DEF LogInv
<1>8. SnapshotInv'
  <2>1. CommittedTo[g] = <<>>
    <3>1. SUFFICES ASSUME CommittedTo[g] # <<>> PROVE FALSE
      OBVIOUS
    <3>2. PICK d \in Calls : d \in Committers /\ GameOf[d] = g
      BY <1>3, <3>1, LastOfCommits
    <3>3. context[d] # NoState
      BY <3>2, Soundness
    <3>4. QED
      BY <1>1, <1>3, <3>2, <3>3 DEF SnapshotInv
  <2>2. ASSUME NEW f \in Games
        PROVE  LastState(f)' = LastState(f)
    BY <1>2, <1>3, <1>4, SameLastState
  <2>3. LastState(g) = NewGame
    BY <2>1 DEF LastState
  <2>4. \A h \in Calls : context'[h] # NoState => snapshots'[GameOf[h]] # NoState
    BY <1>1, <1>3, <1>5, <1>6, GamesOfCalls DEF SnapshotInv, handleVars
  <2>5. QED
    BY <1>2, <1>3, <1>4, <1>6, <2>2, <2>3, <2>4 DEF SnapshotInv
<1>9. RecordInv'
  <2>1. ASSUME NEW f \in Games, NEW k \in Keys
        PROVE  /\ \A h \in Recording(f, k)' : records'[f][k] = RecordOf(h)'
               /\ Recording(f, k)' = {} =>
                    records'[f][k] = IF Mine(f, k)' = <<>> THEN None
                                     ELSE RecordOf(Last(Mine(f, k)))'
    <3>1. /\ Recording(f, k)' = Recording(f, k)
          /\ \A d \in Recording(f, k) : RecordOf(d)' = RecordOf(d)
      BY <1>2, SameRecording
    <3>2. /\ Mine(f, k)' = Mine(f, k)
          /\ Mine(f, k) # <<>> => RecordOf(Last(Mine(f, k)))' = RecordOf(Last(Mine(f, k)))
      BY <1>2, <1>3, <1>4, SameMine
    <3>3. QED
      BY <1>1, <1>3, <3>1, <3>2 DEF RecordInv
  <2>2. QED
    BY <2>1 DEF RecordInv
<1>10. UpdateInv'
  <2>1. \A d \in Committers : Result(d)' = Result(d)
    BY <1>2, CommittersFixed
  <2>2. QED
    BY <1>1, <1>2, <1>3, <1>4, <2>1 DEF UpdateInv
<1>11. QED
  BY <1>2, <1>7, <1>8, <1>9, <1>10 DEF StoresInv

LEMMA SaveRecordKeepsStores ==
  ASSUME ControlInv, OneInside, StoresInv, NEW h \in Calls, SaveRecord(h)
  PROVE  StoresInv' /\ Committers' = Committers
<1> DEFINE key == Key[command[h]]
<1>1. /\ UNCHANGED <<runnerVars, handleVars, snapshots, log, published>>
      /\ records' = [records EXCEPT ![GameOf[h]][key] = RecordOf(h)]
      /\ TaskMoves(h, "SnapshotLoaded", "RecordSaved")
  BY WritesInOrder DEF SaveRecord, Writes
<1>2. /\ Fixed /\ \A d \in Calls : /\ context'[d] = context[d] /\ command'[d] = command[d]
                                   /\ Result(d)' = Result(d) /\ RecordOf(d)' = RecordOf(d)
  BY WritesFix DEF Writes
<1>3. LogInv /\ SnapshotInv /\ RecordInv /\ UpdateInv
  BY DEF StoresInv
<1>4. CommittedTo' = CommittedTo
  BY <1>1, <1>2, <1>3, SameLog
<1>5. /\ Inside(h) /\ h \notin failed /\ Sound(h) /\ key \in Keys /\ GameOf[h] \in Games
      /\ command[h] # None
  BY <1>1, TaskSays, Soundness DEF TaskMoves, TransactionNames
<1>6. /\ Committers' = Committers /\ Behind' = Behind
      /\ Doing("EventsAppended")' = Doing("EventsAppended")
      /\ \A d \in Calls : d \in Doing("RecordSaved")' <=> d \in Doing("RecordSaved") \/ d = h
  BY <1>1 DEF TaskMoves, Committers, Behind, Doing, runnerVars, handleVars
<1>7. UpdatesTo' = UpdatesTo
  BY <1>1 DEF UpdatesTo
<1>8. LogInv'
  BY <1>1, <1>3, <1>4, <1>6 DEF LogInv
<1>9. SnapshotInv'
  <2>1. ASSUME NEW f \in Games
        PROVE  LastState(f)' = LastState(f)
    BY <1>2, <1>3, <1>4, SameLastState
  <2>2. QED
    BY <1>1, <1>2, <1>3, <1>4, <1>6, <2>1 DEF SnapshotInv
<1>10. RecordInv'
  <2>1. ASSUME NEW f \in Games, NEW k \in Keys
        PROVE  /\ \A d \in Recording(f, k)' : records'[f][k] = RecordOf(d)'
               /\ Recording(f, k)' = {} =>
                    records'[f][k] = IF Mine(f, k)' = <<>> THEN None
                                     ELSE RecordOf(Last(Mine(f, k)))'
    <3>1. records'[f][k] = IF f = GameOf[h] /\ k = key THEN RecordOf(h) ELSE records[f][k]
      BY <1>1, <1>5 DEF ControlInv, TypeOK
    <3>2. /\ Mine(f, k)' = Mine(f, k)
          /\ Mine(f, k) # <<>> => RecordOf(Last(Mine(f, k)))' = RecordOf(Last(Mine(f, k)))
      BY <1>2, <1>3, <1>4, SameMine
    <3>3. CASE f = GameOf[h] /\ k = key
      <4>1. h \in Recording(f, k)' /\ \A d \in Recording(f, k)' : d = h
        BY <1>2, <1>5, <1>6, <3>3, InsideAlone DEF Recording, WithKey
      <4>2. QED
        BY <1>2, <3>1, <3>3, <4>1
    <3>4. CASE ~(f = GameOf[h] /\ k = key)
      <4>1. Recording(f, k)' = Recording(f, k)
        BY <1>2, <1>5, <1>6, <3>4 DEF Recording, WithKey
      <4>2. \A d \in Recording(f, k) : RecordOf(d)' = RecordOf(d)
        BY <1>2 DEF Recording, WithKey
      <4>3. QED
        BY <1>3, <3>1, <3>2, <3>4, <4>1, <4>2 DEF RecordInv
    <3>5. QED
      BY <3>3, <3>4
  <2>2. QED
    BY <2>1 DEF RecordInv
<1>11. UpdateInv'
  <2>1. \A d \in Committers : Result(d)' = Result(d)
    BY <1>2, CommittersFixed
  <2>2. QED
    BY <1>1, <1>3, <1>4, <1>6, <1>7, <2>1 DEF UpdateInv
<1>12. QED
  BY <1>6, <1>8, <1>9, <1>10, <1>11 DEF StoresInv

\* A call is put behind those that have committed.
LEMMA OneMore ==
  ASSUME NEW s \in Seq(Calls), NEW h \in Calls
  PROVE  /\ \A d \in Calls : In(Append(s, h), d) <=> In(s, d) \/ d = h
         /\ NoneTwice(s) /\ ~In(s, h) => NoneTwice(Append(s, h))
<1>1. PICK n \in Nat : n = Len(s) /\ DOMAIN s = 1 .. n
  OBVIOUS
<1>2. PICK t \in Seq(Calls) : t = Append(s, h)
  <2>1. Append(s, h) \in Seq(Calls)
    OBVIOUS
  <2>2. QED
    BY <2>1
<1>3. DOMAIN t = 1 .. n + 1 /\ t[n + 1] = h /\ \A i \in 1 .. n : t[i] = s[i]
  BY <1>1, <1>2
<1>4. \A i \in 1 .. n + 1 : i = n + 1 \/ i \in 1 .. n
  OBVIOUS
<1>5. n + 1 \in 1 .. n + 1 /\ \A i \in 1 .. n : i \in 1 .. n + 1
  OBVIOUS
<1>6. \A d \in Calls : In(t, d) <=> In(s, d) \/ d = h
  BY <1>1, <1>3, <1>4, <1>5 DEF In
<1>7. NoneTwice(s) /\ ~In(s, h) => NoneTwice(t)
  BY <1>1, <1>3, <1>4 DEF In, NoneTwice
<1>8. QED
  BY <1>2, <1>6, <1>7

LEMMA AppendEventsKeepsLog ==
  ASSUME ControlInv, LogInv, NEW h \in Calls, AppendEvents(h),
         h \notin Committers, \A d \in Calls : d \in Committers' <=> d \in Committers \/ d = h
  PROVE  LogInv'
<1>1. /\ log' = [log EXCEPT ![GameOf[h]] = @ \o EventsOf(h)]
  BY DEF AppendEvents
<1>2. /\ Sound(h) /\ GameOf[h] \in Games
      /\ \A g \in Games :
           CommittedTo'[g] = IF g = GameOf[h] THEN Append(CommittedTo[g], h) ELSE CommittedTo[g]
  BY CommitAdded
<1>3. PICK more \in Seq(EventsType) :
        more = EventsOf(h) /\ more # <<>> /\ \A i \in DOMAIN more : more[i].by = h
  BY <1>2, FirstEventKept
<1>4. ASSUME NEW g \in Games, g # GameOf[h]
      PROVE  log'[g] = log[g]
  BY <1>1, <1>4 DEF ControlInv, TypeOK
<1>5. ASSUME NEW g \in Games, g = GameOf[h]
      PROVE  log'[g] # <<>> /\ \A i \in DOMAIN log'[g] :
               log'[g][i].by = h \/ \E j \in DOMAIN log[g] : log'[g][i].by = log[g][j].by
  <2>1. PICK s \in Seq(EventsType) : s = log[g]
    BY DEF ControlInv, TypeOK, EventsType
  <2>2. log'[g] = s \o more
    BY <1>1, <1>2, <1>3, <1>5, <2>1 DEF ControlInv, TypeOK
  <2>3. PICK n \in Nat, m \in Nat :
          n = Len(s) /\ m = Len(more) /\ DOMAIN s = 1 .. n /\ DOMAIN more = 1 .. m
    OBVIOUS
  <2>4. PICK t \in Seq(EventsType) : t = s \o more
    <3>1. s \o more \in Seq(EventsType)
      OBVIOUS
    <3>2. QED
      BY <3>1
  <2>5. /\ DOMAIN t = 1 .. n + m
        /\ \A i \in 1 .. n + m : t[i] = IF i <= n THEN s[i] ELSE more[i - n]
    BY <2>3, <2>4
  <2>6. \A i \in 1 .. n + m : i \in 1 .. n \/ (i > n /\ i - n \in 1 .. m)
    OBVIOUS
  <2>7. t # <<>>
    BY <1>3, <2>4
  <2>8. \A i \in DOMAIN t : t[i].by = h \/ \E j \in DOMAIN s : t[i].by = s[j].by
    <3>1. ASSUME NEW i \in 1 .. n
          PROVE  t[i] = s[i] /\ i \in DOMAIN s
      BY <2>3, <2>5
    <3>2. ASSUME NEW i \in 1 .. n + m, i > n
          PROVE  t[i] = more[i - n] /\ i - n \in DOMAIN more
      BY <2>3, <2>5, <2>6, <3>2
    <3>3. QED
      BY <1>3, <2>5, <2>6, <3>1, <3>2
  <2>9. QED
    BY <2>1, <2>2, <2>4, <2>7, <2>8
<1>6. ASSUME NEW g \in Games
      PROVE  /\ \A i \in DOMAIN log'[g] :
                  GameOf[log'[g][i].by] = g /\ log'[g][i].by \in Committers'
             /\ \A d \in Calls : In(CommittedTo'[g], d) <=> GameOf[d] = g /\ d \in Committers'
             /\ NoneTwice(CommittedTo'[g])
             /\ CommittedTo'[g] = <<>> => log'[g] = <<>>
  <2>0. Committers \subseteq Calls
    BY DEF Committers
  <2>1. PICK s \in Seq(Calls) : s = CommittedTo[g]
    BY CommitsType
  <2>2. /\ \A d \in Calls : In(s, d) <=> GameOf[d] = g /\ d \in Committers
        /\ NoneTwice(s) /\ (s = <<>> => log[g] = <<>>)
        /\ \A i \in DOMAIN log[g] : GameOf[log[g][i].by] = g /\ log[g][i].by \in Committers
    BY <2>1 DEF LogInv
  <2>3. CASE g # GameOf[h]
    BY <1>2, <1>4, <2>0, <2>1, <2>2, <2>3
  <2>4. CASE g = GameOf[h]
    <3>1. CommittedTo'[g] = Append(s, h) /\ ~In(s, h)
      BY <1>2, <2>1, <2>2, <2>4
    <3>2. /\ \A d \in Calls : In(Append(s, h), d) <=> In(s, d) \/ d = h
          /\ NoneTwice(Append(s, h))
      BY <2>2, <3>1, OneMore
    <3>3. Append(s, h) # <<>>
      OBVIOUS
    <3>4. \A i \in DOMAIN log'[g] :
            GameOf[log'[g][i].by] = g /\ log'[g][i].by \in Committers'
      BY <1>5, <2>0, <2>2, <2>4
    <3>5. QED
      BY <2>2, <2>4, <3>1, <3>2, <3>3, <3>4
  <2>5. QED
    BY <2>3, <2>4
<1>7. QED
  BY <1>6 DEF LogInv

LEMMA AppendEventsKeepsStores ==
  ASSUME ControlInv, OneInside, StoresInv, NEW h \in Calls, AppendEvents(h)
  PROVE  /\ StoresInv' /\ h \in Committers'
         /\ \A d \in Calls : d \in Committers => d \in Committers'
<1> DEFINE game == GameOf[h]
           key == Key[command[h]]
<1>1. /\ UNCHANGED <<runnerVars, handleVars, snapshots, records, published>>
      /\ TaskMoves(h, "RecordSaved", "EventsAppended")
  BY WritesInOrder DEF AppendEvents, Writes
<1>2. /\ Fixed /\ \A d \in Calls : /\ context'[d] = context[d] /\ command'[d] = command[d]
                                   /\ Result(d)' = Result(d) /\ RecordOf(d)' = RecordOf(d)
  BY WritesFix DEF Writes
<1>3. LogInv /\ SnapshotInv /\ RecordInv /\ UpdateInv
  BY DEF StoresInv
<1>4. \A g \in Games :
        CommittedTo'[g] = IF g = game THEN Append(CommittedTo[g], h) ELSE CommittedTo[g]
  BY CommitAdded
<1>5. /\ Inside(h) /\ phase[h] = "operating" /\ h \notin Committers
      /\ Sound(h) /\ key \in Keys /\ game \in Games /\ command[h] # None
  BY <1>1, TaskSays, Soundness DEF TaskMoves, TransactionNames
<1>6. /\ \A d \in Calls : d \in Committers' <=> d \in Committers \/ d = h
      /\ \A d \in Calls : d \in Behind' <=> d \in Behind \/ d = h
      /\ \A d \in Calls : d \in Doing("EventsAppended")' <=> d \in Doing("EventsAppended") \/ d = h
      /\ \A d \in Calls : d \in Doing("RecordSaved")' <=> d \in Doing("RecordSaved") /\ d # h
      /\ h \in Doing("RecordSaved")
  BY <1>1, <1>5 DEF TaskMoves, Committers, Behind, Doing, runnerVars, handleVars
<1>7. UpdatesTo' = UpdatesTo
  BY <1>1 DEF UpdatesTo
<1>8. /\ Committers \subseteq Calls /\ Behind' \subseteq Calls /\ Behind \subseteq Calls
      /\ Doing("EventsAppended")' \subseteq Calls /\ Doing("EventsAppended") \subseteq Calls
  BY DEF Committers, Behind, Doing
<1>9. LogInv'
  BY <1>3, <1>5, <1>6, AppendEventsKeepsLog
<1>10. \A d \in Calls : d # h /\ GameOf[d] = game =>
         d \notin Behind /\ d \notin Doing("RecordSaved") /\ d \notin Doing("EventsAppended")
  BY <1>5, InsideAlone
<1>11. SnapshotInv'
  <2>1. ASSUME NEW d \in Doing("EventsAppended")'
        PROVE  CommittedTo'[GameOf[d]] # <<>> /\ Last(CommittedTo'[GameOf[d]]) = d
    <3>1. d \in Calls /\ GameOf[d] \in Games
      BY <1>8, GamesOfCalls
    <3>2. CASE d = h
      <4>1. PICK s \in Seq(Calls) : s = CommittedTo[game]
        BY <1>5, CommitsType
      <4>2. Append(s, h) # <<>> /\ Last(Append(s, h)) = h
        BY LastAppended
      <4>3. QED
        BY <1>4, <1>5, <3>2, <4>1, <4>2
    <3>3. CASE d # h
      <4>1. d \in Doing("EventsAppended") /\ GameOf[d] # game
        BY <1>6, <1>10, <3>1, <3>3
      <4>2. QED
        BY <1>3, <1>4, <3>1, <4>1 DEF SnapshotInv
    <3>4. QED
      BY <3>2, <3>3
  <2>2. ASSUME NEW f \in Games, snapshots'[f] # NoState,
               \A d \in Doing("EventsAppended")' : GameOf[d] # f
        PROVE  snapshots'[f] = LastState(f)'
    <3>1. f # game
      BY <1>6, <2>2
    <3>2. LastState(f)' = LastState(f)
      BY <1>2, <1>3, <1>4, <3>1, SameLastState
    <3>3. QED
      BY <1>1, <1>3, <1>6, <1>8, <2>2, <3>2 DEF SnapshotInv
  <2>3. QED
    BY <1>1, <1>2, <1>3, <2>1, <2>2 DEF SnapshotInv
<1>12. RecordInv'
  <2>1. ASSUME NEW f \in Games, NEW k \in Keys
        PROVE  /\ \A d \in Recording(f, k)' : records'[f][k] = RecordOf(d)'
               /\ Recording(f, k)' = {} =>
                    records'[f][k] = IF Mine(f, k)' = <<>> THEN None
                                     ELSE RecordOf(Last(Mine(f, k)))'
    <3>1. CASE f # game
      <4>1. /\ Recording(f, k)' = Recording(f, k)
            /\ \A d \in Recording(f, k) : RecordOf(d)' = RecordOf(d)
        BY <1>2, <1>6, <3>1, SameRecording
      <4>2. /\ Mine(f, k)' = Mine(f, k)
            /\ Mine(f, k) # <<>> => RecordOf(Last(Mine(f, k)))' = RecordOf(Last(Mine(f, k)))
        BY <1>2, <1>3, <1>4, <3>1, SameMine
      <4>3. QED
        BY <1>1, <1>3, <4>1, <4>2 DEF RecordInv
    <3>2. CASE f = game
      <4>1. Recording(f, k)' = {}
        BY <1>6, <1>10, <3>2 DEF Recording, WithKey
      <4>2. PICK s \in Seq(Calls) : s = CommittedTo[f]
        BY CommitsType
      <4>3. WithKey(k)' = WithKey(k)
        BY <1>2 DEF WithKey
      <4>4. Mine(f, k)' = Kept(Append(s, h), WithKey(k)) /\ Mine(f, k) = Kept(s, WithKey(k))
        BY <1>4, <3>2, <4>2, <4>3 DEF Mine
      <4>5. Mine(f, k)' = IF h \in WithKey(k) THEN Append(Mine(f, k), h) ELSE Mine(f, k)
        BY <4>4, KeptStep
      <4>6. PICK mine \in Seq(Calls) : mine = Mine(f, k)
        BY <4>4, KeptType
      <4>7. CASE h \in WithKey(k)
        <5>1. Mine(f, k)' # <<>> /\ Last(Mine(f, k)') = h
          BY <4>5, <4>6, <4>7 DEF Last
        <5>2. records[f][k] = RecordOf(h)
          BY <1>3, <1>6, <3>2, <4>7 DEF RecordInv, Recording
        <5>3. RecordOf(Last(Mine(f, k)))' = RecordOf(h)
          BY <1>2, <5>1 DEF RecordOf, Result
        <5>4. QED
          BY <1>1, <4>1, <5>1, <5>2, <5>3
      <4>8. CASE h \notin WithKey(k)
        <5>1. Recording(f, k) = {}
          BY <1>10, <3>2, <4>8 DEF Recording, WithKey
        <5>2. Mine(f, k) # <<>> =>
                Last(Mine(f, k)) \in Calls
          BY <4>6, LastIsIn
        <5>3. Mine(f, k)' # <<>> => RecordOf(Last(Mine(f, k)))' = RecordOf(Last(Mine(f, k)))
          BY <1>2, <4>5, <4>8, <5>2 DEF RecordOf, Result
        <5>4. QED
          BY <1>1, <1>3, <4>1, <4>5, <4>8, <5>1, <5>3 DEF RecordInv
      <4>9. QED
        BY <4>7, <4>8
    <3>3. QED
      BY <3>1, <3>2
  <2>2. QED
    BY <2>1 DEF RecordInv
<1>13. UpdateInv'
  <2>1. ASSUME NEW f \in Games
        PROVE  /\ \A d \in Behind' : GameOf[d] = f => CommittedTo'[f] = Append(UpdatesTo'[f], d)
               /\ (\A d \in Behind' : GameOf[d] # f) => CommittedTo'[f] = UpdatesTo'[f]
    <3>1. CASE f # game
      BY <1>3, <1>4, <1>6, <1>7, <1>8, <3>1 DEF UpdateInv
    <3>2. CASE f = game
      <4>1. \A d \in Behind : GameOf[d] # f
        <5>1. h \notin Behind
          BY <1>5 DEF Behind
        <5>2. QED
          BY <1>8, <1>10, <3>2, <5>1
      <4>2. CommittedTo[f] = UpdatesTo[f]
        BY <1>3, <4>1 DEF UpdateInv
      <4>3. \A d \in Behind' : GameOf[d] = f => d = h
        BY <1>6, <1>8, <4>1
      <4>4. h \in Behind'
        BY <1>6
      <4>5. QED
        BY <1>4, <1>7, <3>2, <4>2, <4>3, <4>4
    <3>3. QED
      BY <3>1, <3>2
  <2>2. \A d \in Committers : Result(d)' = Result(d)
    BY <1>2, <1>8
  <2>3. QED
    BY <1>1, <1>3, <1>6, <1>8, <2>1, <2>2 DEF UpdateInv
<1>14. QED
  BY <1>6, <1>9, <1>11, <1>12, <1>13 DEF StoresInv

LEMMA SaveSnapshotKeepsStores ==
  ASSUME ControlInv, OneInside, StoresInv, NEW h \in Calls, SaveSnapshot(h)
  PROVE  StoresInv' /\ Committers' = Committers
<1> DEFINE game == GameOf[h]
<1>1. /\ UNCHANGED <<runnerVars, handleVars, records, log, published>>
      /\ snapshots' = [snapshots EXCEPT ![game] = Result(h)]
      /\ TaskMoves(h, "EventsAppended", "SnapshotSaved")
  BY WritesInOrder DEF SaveSnapshot, SavedSnapshot, Writes
<1>2. /\ Fixed /\ \A d \in Calls : /\ context'[d] = context[d] /\ command'[d] = command[d]
                                   /\ Result(d)' = Result(d) /\ RecordOf(d)' = RecordOf(d)
  BY WritesFix DEF Writes
<1>3. LogInv /\ SnapshotInv /\ RecordInv /\ UpdateInv
  BY DEF StoresInv
<1>4. CommittedTo' = CommittedTo
  BY <1>1, <1>2, <1>3, SameLog
<1>5. /\ Inside(h) /\ Sound(h) /\ game \in Games /\ command[h] # None /\ context[h] # NoState
  BY <1>1, TaskSays, Soundness DEF TaskMoves, TransactionNames
<1>6. /\ Committers' = Committers /\ Behind' = Behind
      /\ Doing("RecordSaved")' = Doing("RecordSaved")
      /\ \A d \in Calls : d \in Doing("EventsAppended")' <=> d \in Doing("EventsAppended") /\ d # h
      /\ h \in Doing("EventsAppended")
  BY <1>1 DEF TaskMoves, Committers, Behind, Doing, runnerVars, handleVars
<1>7. UpdatesTo' = UpdatesTo
  BY <1>1 DEF UpdatesTo
<1>8. Doing("EventsAppended")' \subseteq Calls /\ Doing("EventsAppended") \subseteq Calls
  BY DEF Doing
<1>9. LogInv'
  BY <1>1, <1>3, <1>4, <1>6 DEF LogInv
<1>10. \A f \in Games : snapshots'[f] = IF f = game THEN Result(h) ELSE snapshots[f]
  BY <1>1 DEF ControlInv, TypeOK
<1>11. SnapshotInv'
  <2>1. ASSUME NEW f \in Games
        PROVE  LastState(f)' = LastState(f)
    BY <1>2, <1>3, <1>4, SameLastState
  <2>2. LastState(game) = Result(h)
    BY <1>3, <1>6 DEF SnapshotInv, LastState
  <2>3. Result(h) # NoState
    <3>1. Result(h) \in StatesOf
      BY <1>5, ResultType DEF ControlInv
    <3>2. QED
      BY <3>1, LackAssumption
  <2>4. \A d \in Calls : context'[d] # NoState => snapshots'[GameOf[d]] # NoState
    BY <1>2, <1>3, <1>10, <2>3, GamesOfCalls DEF SnapshotInv
  <2>5. ASSUME NEW f \in Games, snapshots'[f] # NoState,
               \A d \in Doing("EventsAppended")' : GameOf[d] # f
        PROVE  snapshots'[f] = LastState(f)'
    <3>1. CASE f = game
      BY <1>10, <2>1, <2>2, <3>1
    <3>2. CASE f # game
      BY <1>3, <1>6, <1>8, <1>10, <2>1, <2>5, <3>2 DEF SnapshotInv
    <3>3. QED
      BY <3>1, <3>2
  <2>6. QED
    BY <1>3, <1>4, <1>6, <1>8, <2>4, <2>5 DEF SnapshotInv
<1>12. RecordInv'
  <2>1. ASSUME NEW f \in Games, NEW k \in Keys
        PROVE  /\ \A d \in Recording(f, k)' : records'[f][k] = RecordOf(d)'
               /\ Recording(f, k)' = {} =>
                    records'[f][k] = IF Mine(f, k)' = <<>> THEN None
                                     ELSE RecordOf(Last(Mine(f, k)))'
    <3>1. /\ Recording(f, k)' = Recording(f, k)
          /\ \A d \in Recording(f, k) : RecordOf(d)' = RecordOf(d)
      BY <1>2, <1>6, SameRecording
    <3>2. /\ Mine(f, k)' = Mine(f, k)
          /\ Mine(f, k) # <<>> => RecordOf(Last(Mine(f, k)))' = RecordOf(Last(Mine(f, k)))
      BY <1>2, <1>3, <1>4, SameMine
    <3>3. QED
      BY <1>1, <1>3, <3>1, <3>2 DEF RecordInv
  <2>2. QED
    BY <2>1 DEF RecordInv
<1>13. UpdateInv'
  <2>1. \A d \in Committers : Result(d)' = Result(d)
    BY <1>2, CommittersFixed
  <2>2. QED
    BY <1>1, <1>3, <1>4, <1>6, <1>7, <2>1 DEF UpdateInv
<1>14. QED
  BY <1>6, <1>9, <1>11, <1>12, <1>13 DEF StoresInv

\* A transaction that has failed publishes nothing.
LEMMA FailedPublishRests ==
  ASSUME ControlInv, NEW h \in Calls, Publish(h), h \in failed
  PROVE  Rests /\ Fixed /\ Loads
<1>1. UNCHANGED <<handleVars, storageVars, published>>
  BY DEF Publish, Publishes
<1>2. TaskMoves(h, "none", "Persisted") /\ PhaseMoves(h, "finished", "returned")
  BY PublishInOrder
<1>3. /\ h \notin Committers /\ h \notin Committers'
      /\ \A d \in Calls : d # h =>
           (d \in Committers' <=> d \in Committers) /\ (d \in Behind' <=> d \in Behind)
  BY <1>1, <1>2 DEF Committers, Behind, PhaseMoves, TaskMoves, handleVars
<1>4. Committers' = Committers /\ Behind' = Behind
  BY <1>3 DEF Committers, Behind
<1>5. QED
  BY <1>1, <1>2, <1>4, SameTasks DEF Rests, Fixed, Loads, PhaseMoves, handleVars

LEMMA PublishKeepsStores ==
  ASSUME ControlInv, OneInside, StoresInv, NEW h \in Calls, Publish(h), h \notin failed
  PROVE  StoresInv' /\ Fixed /\ Committers' = Committers
<1> DEFINE game == GameOf[h]
           update == [by |-> h, state |-> Result(h)]
           UpdatesType == [by : Calls, state : StatesOf]
<1>1. /\ UNCHANGED <<handleVars, storageVars>>
      /\ published' = [published EXCEPT ![game] = Append(@, update)]
      /\ TaskMoves(h, "none", "Persisted") /\ PhaseMoves(h, "finished", "returned")
  BY PublishInOrder DEF Publish, Publishes
<1>2. /\ Fixed /\ Loads
      /\ \A d \in Calls : Result(d)' = Result(d) /\ RecordOf(d)' = RecordOf(d)
  BY <1>1 DEF Fixed, Loads, PhaseMoves, handleVars, Result, RecordOf
<1>3. LogInv /\ SnapshotInv /\ RecordInv /\ UpdateInv
  BY DEF StoresInv
<1>4. CommittedTo' = CommittedTo
  BY <1>1, <1>2, <1>3, SameLog DEF storageVars
<1>5. /\ Inside(h) /\ h \in Committers /\ h \in Behind
  BY <1>1 DEF PhaseMoves, Inside, Committers, Behind
<1>6. Sound(h) /\ game \in Games /\ command[h] # None /\ context[h] # NoState
  BY <1>5, Soundness
<1>7. /\ Committers' = Committers
      /\ Doing("RecordSaved")' = Doing("RecordSaved")
      /\ Doing("EventsAppended")' = Doing("EventsAppended")
  BY <1>1, SameTasks DEF Committers, PhaseMoves, handleVars
<1>8. \A d \in Calls : d \in Behind' <=> d \in Behind /\ d # h
  BY <1>1, <1>7 DEF Behind, PhaseMoves
<1>9. Behind \subseteq Calls /\ Behind' \subseteq Calls
  BY <1>7 DEF Behind, Committers
<1>10. LogInv'
  BY <1>1, <1>3, <1>4, <1>7 DEF LogInv, storageVars
<1>11. SnapshotInv'
  <2>1. ASSUME NEW f \in Games
        PROVE  LastState(f)' = LastState(f)
    BY <1>2, <1>3, <1>4, SameLastState
  <2>2. QED
    BY <1>1, <1>3, <1>4, <1>7, <2>1 DEF SnapshotInv, handleVars, storageVars
<1>12. RecordInv'
  <2>1. ASSUME NEW f \in Games, NEW k \in Keys
        PROVE  /\ \A d \in Recording(f, k)' : records'[f][k] = RecordOf(d)'
               /\ Recording(f, k)' = {} =>
                    records'[f][k] = IF Mine(f, k)' = <<>> THEN None
                                     ELSE RecordOf(Last(Mine(f, k)))'
    <3>1. /\ Recording(f, k)' = Recording(f, k)
          /\ \A d \in Recording(f, k) : RecordOf(d)' = RecordOf(d)
      BY <1>2, <1>7, SameRecording
    <3>2. /\ Mine(f, k)' = Mine(f, k)
          /\ Mine(f, k) # <<>> => RecordOf(Last(Mine(f, k)))' = RecordOf(Last(Mine(f, k)))
      BY <1>2, <1>3, <1>4, SameMine
    <3>3. QED
      BY <1>1, <1>3, <3>1, <3>2 DEF RecordInv, storageVars
  <2>2. QED
    BY <2>1 DEF RecordInv
<1>13. UpdateInv'
  <2>1. \A d \in Committers : Result(d)' = Result(d)
    BY <1>2, CommittersFixed
  <2>2. ASSUME NEW f \in Games, f # game
        PROVE  published'[f] = published[f] /\ UpdatesTo'[f] = UpdatesTo[f]
    BY <1>1, <2>2 DEF ControlInv, TypeOK, UpdatesTo
  <2>3. PICK s \in Seq(UpdatesType), e \in UpdatesType : s = published[game] /\ e = update
    <3>1. Result(h) \in StatesOf
      BY <1>6, ResultType DEF ControlInv
    <3>2. update \in UpdatesType
      BY <3>1
    <3>3. QED
      BY <1>6, <3>2 DEF ControlInv, TypeOK
  <2>4. published'[game] = Append(s, e)
    BY <1>1, <1>6, <2>3 DEF ControlInv, TypeOK
  <2>5. UpdatesTo'[game] = Append(UpdatesTo[game], h)
    <3>1. \A x \in UpdatesType : x.by \in Calls
      OBVIOUS
    <3>2. [i \in DOMAIN Append(s, e) |-> Append(s, e)[i].by]
            = Append([i \in DOMAIN s |-> s[i].by], e.by)
      BY <3>1, CallsAppended
    <3>3. e.by = h
      BY <2>3
    <3>4. QED
      BY <1>6, <2>3, <2>4, <3>2, <3>3 DEF UpdatesTo
  <2>6. CommittedTo[game] = Append(UpdatesTo[game], h)
    BY <1>3, <1>5, <1>6 DEF UpdateInv
  <2>7. ASSUME NEW f \in Games, NEW i \in DOMAIN published'[f]
        PROVE  \E d \in Committers : /\ published'[f][i].by = d
                                     /\ published'[f][i].state = Result(d)
    <3>1. CASE f # game
      BY <1>3, <2>2, <2>7, <3>1 DEF UpdateInv
    <3>2. CASE f = game
      <4>1. PICK t \in Seq(UpdatesType) : t = Append(s, e)
        <5>1. Append(s, e) \in Seq(UpdatesType)
          OBVIOUS
        <5>2. QED
          BY <5>1
      <4>2. \/ t[i] = e
            \/ i \in DOMAIN s /\ t[i] = s[i]
        <5>1. PICK n \in Nat : n = Len(s) /\ DOMAIN s = 1 .. n
          OBVIOUS
        <5>2. DOMAIN t = 1 .. n + 1 /\ t[n + 1] = e /\ \A x \in 1 .. n : t[x] = s[x]
          BY <4>1, <5>1
        <5>3. i \in DOMAIN t
          BY <2>4, <2>7, <3>2, <4>1
        <5>4. i \in 1 .. n + 1
          BY <5>2, <5>3
        <5>5. i = n + 1 \/ i \in 1 .. n
          BY <5>4
        <5>6. QED
          BY <5>1, <5>2, <5>5
      <4>3. CASE t[i] = e
        BY <1>5, <2>3, <2>4, <3>2, <4>1, <4>3
      <4>4. CASE i \in DOMAIN s /\ t[i] = s[i]
        <5>1. s[i].by \in Committers /\ s[i].state = Result(s[i].by)
          BY <1>3, <1>6, <2>3, <4>4 DEF UpdateInv
        <5>2. published'[f][i] = s[i]
          BY <2>4, <3>2, <4>1, <4>4
        <5>3. QED
          BY <5>1, <5>2
      <4>5. QED
        BY <4>2, <4>3, <4>4
    <3>3. QED
      BY <3>1, <3>2
  <2>8. ASSUME NEW f \in Games
        PROVE  /\ \A d \in Behind' : GameOf[d] = f => CommittedTo'[f] = Append(UpdatesTo'[f], d)
               /\ (\A d \in Behind' : GameOf[d] # f) => CommittedTo'[f] = UpdatesTo'[f]
    <3>1. CASE f # game
      BY <1>3, <1>4, <1>8, <1>9, <2>2, <3>1 DEF UpdateInv
    <3>2. CASE f = game
      <4>1. \A d \in Behind' : GameOf[d] # f
        BY <1>5, <1>8, <1>9, <3>2, InsideAlone
      <4>2. CommittedTo'[f] = UpdatesTo'[f]
        BY <1>4, <2>5, <2>6, <3>2
      <4>3. QED
        BY <4>1, <4>2
    <3>3. QED
      BY <3>1, <3>2
  <2>9. QED
    BY <1>7, <2>1, <2>7, <2>8 DEF UpdateInv
<1>14. QED
  BY <1>2, <1>7, <1>10, <1>11, <1>12, <1>13 DEF StoresInv

\* Whatever happens, the stores go on agreeing, and a commit stays one.
LEMMA StoresKept ==
  ASSUME ControlInv, OneInside, StoresInv, Next
  PROVE  StoresInv' /\ Fixed /\ Committers \subseteq Committers'
<1>1. ASSUME Rests, Fixed, Loads
      PROVE  StoresInv' /\ Fixed /\ Committers \subseteq Committers'
  BY <1>1, RestsKeepStores DEF Rests
<1>2. CASE \E g \in Games : CreateGame(g)
  <2>1. PICK g \in Games : CreateGame(g)
    BY <1>2
  <2>2. Committers' = Committers
    BY <2>1, CreateGameInOrder DEF CreateGame, Committers, runnerVars, handleVars
  <2>3. QED
    BY <2>1, <2>2, CreateGameKeepsStores
<1>3. CASE \E h \in Calls, m \in Commands : Handle(h, m)
  BY <1>1, <1>3, HandleRests
<1>4. ASSUME NEW h \in Calls, Microtask(h)
      PROVE  StoresInv' /\ Fixed /\ Committers \subseteq Committers'
  <2>1. CASE Checks(h)
    BY <1>1, <2>1, ChecksRest
  <2>2. CASE SaveRecord(h)
    BY <2>2, SaveRecordKeepsStores, WritesFix DEF Writes
  <2>3. CASE AppendEvents(h)
    <3>1. StoresInv' /\ \A d \in Calls : d \in Committers => d \in Committers'
      BY <2>3, AppendEventsKeepsStores
    <3>2. Committers \subseteq Calls
      BY DEF Committers
    <3>3. QED
      BY <2>3, <3>1, <3>2, WritesFix DEF Writes
  <2>4. CASE SaveSnapshot(h)
    BY <2>4, SaveSnapshotKeepsStores, WritesFix DEF Writes
  <2>5. CASE Publish(h)
    <3>1. CASE h \in failed
      BY <1>1, <2>5, <3>1, FailedPublishRests
    <3>2. CASE h \notin failed
      BY <2>5, <3>2, PublishKeepsStores
    <3>3. QED
      BY <3>1, <3>2
  <2>6. QED
    BY <1>4, <2>1, <2>2, <2>3, <2>4, <2>5 DEF Microtask, Transaction, Checks
<1>5. QED
  BY <1>2, <1>3, <1>4 DEF Next

\* The ways a transaction goes.
PhaseStep ==
  \/ UNCHANGED phase
  \/ \E h \in Calls : \/ PhaseMoves(h, "idle", "waiting")
                      \/ PhaseMoves(h, "waiting", "operating")
                      \/ PhaseMoves(h, "operating", "ending")
                      \/ PhaseMoves(h, "ending", "finished")
                      \/ PhaseMoves(h, "finished", "returned")

LEMMA PhasesStep ==
  ASSUME ControlInv, Next
  PROVE  PhaseStep
<1>1. CASE \E g \in Games : CreateGame(g)
  BY <1>1 DEF CreateGame, runnerVars, PhaseStep
<1>2. CASE \E h \in Calls, m \in Commands : Handle(h, m)
  BY <1>2 DEF Handle, runnerVars, PhaseStep
<1>3. ASSUME NEW h \in Calls, Microtask(h)
      PROVE  PhaseStep
  <2>1. CASE StoredReturns(h) \/ ContextReturns(h) \/ StoredLoaded(h) \/ Persisted(h)
    BY <2>1 DEF StoredReturns, ContextReturns, StoredLoaded, Persisted, runnerVars, PhaseStep
  <2>2. CASE ContextLoaded(h)
    BY <2>2, ContextLoadedInOrder DEF PhaseStep
  <2>3. CASE BeginTransaction(h)
    BY <2>3, BeginTransactionInOrder DEF PhaseStep
  <2>4. CASE TransactionThrows(h) \/ TransactionReturns(h)
    BY <2>4, EndInOrder DEF PhaseStep
  <2>5. CASE SaveRecord(h) \/ AppendEvents(h) \/ SaveSnapshot(h)
    BY <2>5 DEF SaveRecord, AppendEvents, SaveSnapshot, runnerVars, PhaseStep
  <2>6. CASE RunnerStep(h)
    BY <2>6, RunnerStepInOrder DEF PhaseStep
  <2>7. CASE Publish(h)
    BY <2>7, PublishInOrder DEF PhaseStep
  <2>8. QED
    BY <1>3, <2>1, <2>2, <2>3, <2>4, <2>5, <2>6, <2>7 DEF Microtask, Transaction
<1>4. QED
  BY <1>1, <1>2, <1>3 DEF Next

LEMMA OneInsideStays ==
  ASSUME Alone, Alone', OneInside, PhaseStep
  PROVE  OneInside'
<1> SUFFICES ASSUME NEW h \in Calls, NEW d \in Calls, Inside(h)', Inside(d)',
                    GameOf[h] = GameOf[d], h # d
             PROVE  FALSE
  BY DEF OneInside
<1>1. phase'[h] = "finished" /\ phase'[d] = "finished"
  BY DEF Alone, Inside
<1>2. CASE UNCHANGED phase
  BY <1>2 DEF OneInside, Inside
<1>3. CASE \E c \in Calls : PhaseMoves(c, "ending", "finished")
  <2>1. PICK c \in Calls : PhaseMoves(c, "ending", "finished")
    BY <1>3
  <2>2. CASE c \in {h, d}
    BY <1>1, <2>1, <2>2 DEF PhaseMoves, Alone, Inside
  <2>3. CASE c \notin {h, d}
    BY <1>1, <2>1, <2>3 DEF PhaseMoves, OneInside, Inside
  <2>4. QED
    BY <2>2, <2>3
<1>4. ASSUME NEW c \in Calls, NEW from, NEW to, to # "finished", PhaseMoves(c, from, to)
      PROVE  FALSE
  BY <1>1, <1>4 DEF PhaseMoves, OneInside, Inside
<1>5. QED
  BY <1>2, <1>3, <1>4 DEF PhaseStep

\* Every microtask is done with the job at the head, may put others behind the
\* queue, and leaves the tasks of the other calls alone.
LEMMA JobsFollow ==
  ASSUME ControlInv, NEW h \in Calls, Microtask(h)
  PROVE  \E do \in TaskNames \cup RunnerNames, more \in Seq(JobsOf) :
           /\ Runs(do, h) /\ microtasks' = Tail(microtasks) \o more
           /\ do = "RecordSaved" => AppendEvents(h)
           /\ \A d \in Calls : d # h => Task'[d] = Task[d]
           /\ do \in TaskNames \/ Task'[h] = Task[h] \/ Task[h] = "none"
<1> DEFINE Follows(do) ==
             /\ Runs(do, h) /\ \E more \in Seq(JobsOf) : microtasks' = Tail(microtasks) \o more
             /\ do = "RecordSaved" => AppendEvents(h)
             /\ \A d \in Calls : d # h => Task'[d] = Task[d]
             /\ do \in TaskNames \/ Task'[h] = Task[h] \/ Task[h] = "none"
<1>1. SUFFICES \E do \in TaskNames \cup RunnerNames : Follows(do)
  OBVIOUS
<1>2. ASSUME NEW do, Runs(do, h), Stops
      PROVE  \E more \in Seq(JobsOf) : microtasks' = Tail(microtasks) \o more
  <2>1. PICK more \in Seq(JobsOf) : more = <<>>
    <3>1. <<>> \in Seq(JobsOf)
      OBVIOUS
    <3>2. QED
      BY <3>1
  <2>2. Tail(microtasks) \in Seq(JobsOf)
    BY <1>2, HeadRuns DEF ControlInv, QueueOK
  <2>3. Tail(microtasks) \o more = Tail(microtasks)
    BY <2>1, <2>2
  <2>4. QED
    BY <1>2, <2>3 DEF Stops
<1>3. ASSUME NEW do, Runs(do, h), NEW next \in TaskNames \cup RunnerNames, ContinueAt(next, h)
      PROVE  \E more \in Seq(JobsOf) : microtasks' = Tail(microtasks) \o more
  <2>1. PICK e \in JobsOf : e = Job(next, h)
    BY KindsOfJobs
  <2>2. PICK more \in Seq(JobsOf) : more = <<e>>
    <3>1. <<e>> \in Seq(JobsOf)
      OBVIOUS
    <3>2. QED
      BY <3>1
  <2>3. Tail(microtasks) \in Seq(JobsOf)
    BY <1>3, HeadRuns DEF ControlInv, QueueOK
  <2>4. Tail(microtasks) \o more = Append(Tail(microtasks), e)
    BY <2>2, <2>3
  <2>5. QED
    BY <1>3, <2>1, <2>4 DEF ContinueAt
<1>4. ASSUME NEW more \in Seq(RunnerJobs)
      PROVE  more \in Seq(JobsOf)
  BY <1>4, RunnersJobs
<1> USE DEF TaskNames, CheckNames, TransactionNames, RunnerNames
<1>5. CASE StoredReturns(h)
  <2>1. Runs("StoredReturns", h) /\ ContinueAt("StoredLoaded", h)
    BY <1>5 DEF StoredReturns
  <2>2. Follows("StoredReturns")
    BY <1>3, <1>5, <2>1, ReturnsInOrder DEF TaskMoves
  <2>3. QED
    BY <2>2
<1>6. CASE ContextReturns(h)
  <2>1. Runs("ContextReturns", h) /\ ContinueAt("ContextLoaded", h)
    BY <1>6 DEF ContextReturns
  <2>2. Follows("ContextReturns")
    BY <1>3, <1>6, <2>1, ReturnsInOrder DEF TaskMoves
  <2>3. QED
    BY <2>2
<1>7. CASE StoredLoaded(h)
  <2>1. Runs("StoredLoaded", h) /\ (Stops \/ ContinueAt("ContextReturns", h))
    BY <1>7 DEF StoredLoaded
  <2>2. Follows("StoredLoaded")
    BY <1>2, <1>3, <1>7, <2>1, StoredLoadedInOrder DEF TaskMoves
  <2>3. QED
    BY <2>2
<1>8. CASE ContextLoaded(h)
  <2>1. /\ Runs("ContextLoaded", h)
        /\ \/ Stops
           \/ microtasks' = Tail(microtasks) \o Runner!ReactionsOf(h)
           \/ microtasks' = Tail(microtasks)
    BY <1>8 DEF ContextLoaded, Runner!CallRun
  <2>2. Runner!ReactionsOf(h) \in Seq(JobsOf)
    BY <1>4, ReactionsAreJobs
  <2>3. \E more \in Seq(JobsOf) : microtasks' = Tail(microtasks) \o more
    BY <1>2, <2>1, <2>2 DEF Stops
  <2>4. Follows("ContextLoaded")
    BY <1>8, <2>1, <2>3, ContextLoadedInOrder DEF TaskMoves
  <2>5. QED
    BY <2>4
<1>9. CASE BeginTransaction(h)
  <2>1. /\ Runs("Begin", h)
        /\ microtasks' = Tail(microtasks) \o <<Job("SnapshotLoaded", h)>>
    BY <1>9 DEF BeginTransaction, Runner!BeginWith, Runs
  <2>2. <<Job("SnapshotLoaded", h)>> \in Seq(JobsOf)
    <3>1. PICK e \in JobsOf : e = Job("SnapshotLoaded", h)
      BY KindsOfJobs
    <3>2. <<e>> \in Seq(JobsOf)
      OBVIOUS
    <3>3. QED
      BY <3>1, <3>2
  <2>3. Follows("Begin")
    BY <1>9, <2>1, <2>2, BeginTransactionInOrder DEF TaskMoves
  <2>4. QED
    BY <2>3
<1>10. CASE TransactionThrows(h)
  <2>1. Runs("SnapshotLoaded", h) /\ ContinueAt("Finish", h)
    BY <1>10 DEF TransactionThrows, ThrowsPast
  <2>2. Follows("SnapshotLoaded")
    BY <1>3, <1>10, <2>1, EndInOrder DEF TaskMoves
  <2>3. QED
    BY <2>2
<1>11. CASE TransactionReturns(h)
  <2>1. Runs("SnapshotSaved", h) /\ ContinueAt("Finish", h)
    BY <1>11 DEF TransactionReturns
  <2>2. Follows("SnapshotSaved")
    BY <1>3, <1>11, <2>1, EndInOrder DEF TaskMoves
  <2>3. QED
    BY <2>2
<1>12. CASE SaveRecord(h)
  <2>1. Runs("SnapshotLoaded", h) /\ ContinueAt("RecordSaved", h)
    BY <1>12 DEF SaveRecord
  <2>2. Follows("SnapshotLoaded")
    BY <1>3, <1>12, <2>1, WritesInOrder DEF TaskMoves, Writes
  <2>3. QED
    BY <2>2
<1>13. CASE AppendEvents(h)
  <2>1. Runs("RecordSaved", h) /\ ContinueAt("EventsAppended", h)
    BY <1>13 DEF AppendEvents
  <2>2. Follows("RecordSaved")
    BY <1>3, <1>13, <2>1, WritesInOrder DEF TaskMoves, Writes
  <2>3. QED
    BY <2>2
<1>14. CASE SaveSnapshot(h)
  <2>1. Runs("EventsAppended", h) /\ ContinueAt("SnapshotSaved", h)
    BY <1>14 DEF SaveSnapshot
  <2>2. Follows("EventsAppended")
    BY <1>3, <1>14, <2>1, WritesInOrder DEF TaskMoves, Writes
  <2>3. QED
    BY <2>2
<1>15. CASE RunnerStep(h)
  <2>1. Task' = Task
    BY <1>15, RunnerStepInOrder
  <2>2. CASE Runner!FollowCurrent(h)
    <3>1. Runs("FollowCurrent", h) /\ ContinueAt("Subscribe", h)
      BY <2>2 DEF Runner!FollowCurrent, Runs, ContinueAt, Runner!Job, Job
    <3>2. Follows("FollowCurrent")
      BY <1>3, <2>1, <3>1
    <3>3. QED
      BY <3>2
  <2>3. CASE Runner!Subscribe(h)
    <3>1. Runs("Subscribe", h) /\ (ContinueAt("Settle", h) \/ Stops)
      BY <2>3 DEF Runner!Subscribe, Runs, ContinueAt, Stops, Runner!Job, Job
    <3>2. Follows("Subscribe")
      BY <1>2, <1>3, <2>1, <3>1
    <3>3. QED
      BY <3>2
  <2>4. CASE Runner!Settle(h)
    <3>1. /\ Runs("Settle", h)
          /\ \/ Stops
             \/ \E d \in Calls : microtasks' = Tail(microtasks) \o Runner!ReactionsOf(d)
      BY <2>4 DEF Runner!Settle, Runs, Stops
    <3>2. \A d \in Calls : Runner!ReactionsOf(d) \in Seq(JobsOf)
      BY <1>4, ReactionsAreJobs
    <3>3. Follows("Settle")
      BY <1>2, <2>1, <3>1, <3>2
    <3>4. QED
      BY <3>3
  <2>5. CASE Runner!Finish(h)
    <3>1. Runs("Finish", h) /\ microtasks' = Tail(microtasks) \o Runner!JobsAfterFinish(h)
      BY <2>5 DEF Runner!Finish, Runs
    <3>2. Runner!JobsAfterFinish(h) \in Seq(JobsOf)
      <4>1. PICK e \in JobsOf, f \in JobsOf : e = Job("Settle", h) /\ f = Job("Return", h)
        BY KindsOfJobs
      <4>2. <<e, f>> \in Seq(JobsOf) /\ <<f>> \in Seq(JobsOf)
        OBVIOUS
      <4>3. QED
        BY <4>1, <4>2 DEF Runner!JobsAfterFinish, Runner!Job, Job
    <3>3. Follows("Finish")
      BY <2>1, <3>1, <3>2
    <3>4. QED
      BY <3>3
  <2>6. QED
    BY <1>15, <2>2, <2>3, <2>4, <2>5 DEF RunnerStep
<1>16. CASE Publish(h)
  <2>1. Runs("Return", h) /\ ContinueAt("Persisted", h)
    BY <1>16 DEF Publish
  <2>2. Follows("Return")
    BY <1>3, <1>16, <2>1, PublishInOrder DEF TaskMoves
  <2>3. QED
    BY <2>2
<1>17. CASE Persisted(h)
  <2>1. Runs("Persisted", h) /\ Stops
    BY <1>17 DEF Persisted
  <2>2. Follows("Persisted")
    BY <1>2, <1>17, <2>1, PersistedInOrder DEF TaskMoves
  <2>3. QED
    BY <2>2
<1>18. QED
  BY <1>5, <1>6, <1>7, <1>8, <1>9, <1>10, <1>11, <1>12, <1>13, <1>14, <1>15, <1>16, <1>17
     DEF Microtask, Transaction

\* The tasks of two calls, in the order of the queue.
LEMMA PairSays ==
  ASSUME ControlInv, NEW h \in Calls, NEW d \in Calls,
         Pair(h, d) = <<Job("RecordSaved", d), Job("StoredReturns", h)>>
  PROVE  /\ Task[h] = "StoredReturns" /\ h # d
         /\ microtasks # <<>>
         /\ Head(microtasks) \in TasksOf(h) \cup TasksOf(d) =>
              Head(microtasks) = Job("RecordSaved", d)
<1>1. microtasks \in Seq(JobsOf) /\ Pair(h, d) = Kept(microtasks, TasksOf(h) \cup TasksOf(d))
  BY DEF ControlInv, QueueOK, Pair
<1>2. microtasks # <<>>
  <2>1. Pair(h, d) # <<>>
    OBVIOUS
  <2>2. QED
    BY <1>1, <2>1, KeptEmpty
<1>3. Head(microtasks) \in TasksOf(h) \cup TasksOf(d) =>
        Head(microtasks) = Job("RecordSaved", d)
  <2>1. Head(microtasks) \in TasksOf(h) \cup TasksOf(d) =>
          Head(Pair(h, d)) = Head(microtasks)
    BY <1>1, <1>2, KeptHead
  <2>2. Head(Pair(h, d)) = Job("RecordSaved", d)
    OBVIOUS
  <2>3. QED
    BY <2>1, <2>2
<1>4. Job("StoredReturns", h) # Job("RecordSaved", d) /\ "StoredReturns" \in TaskNames
  BY DEF Job, TaskNames, CheckNames
<1>5. PICK e : e = Job("StoredReturns", h)
  OBVIOUS
<1>6. \E i \in DOMAIN microtasks : microtasks[i] = e
  <2>1. \E i \in DOMAIN Pair(h, d) : Pair(h, d)[i] = e
    <3>1. 2 \in DOMAIN Pair(h, d) /\ Pair(h, d)[2] = e
      BY <1>5
    <3>2. QED
      BY <3>1
  <2>2. (\E i \in DOMAIN Pair(h, d) : Pair(h, d)[i] = e)
          <=> e \in TasksOf(h) \cup TasksOf(d) /\ \E i \in DOMAIN microtasks : microtasks[i] = e
    <3>1. PICK S : S = TasksOf(h) \cup TasksOf(d)
      OBVIOUS
    <3>2. (\E i \in DOMAIN Kept(microtasks, S) : Kept(microtasks, S)[i] = e)
            <=> e \in S /\ \E i \in DOMAIN microtasks : microtasks[i] = e
      BY <1>1, KeptElements
    <3>3. Pair(h, d) = Kept(microtasks, S)
      BY <1>1, <3>1
    <3>4. QED
      BY <3>1, <3>2, <3>3
  <2>3. QED
    BY <2>1, <2>2
<1>7. Task[h] = "StoredReturns"
  <2>1. e \in TasksOf(h)
    BY <1>4, <1>5, KindsOfJobs
  <2>2. (\E i \in DOMAIN Own[h] : Own[h][i] = e)
          <=> e \in TasksOf(h) /\ \E i \in DOMAIN microtasks : microtasks[i] = e
    <3>1. Own[h] = Kept(microtasks, TasksOf(h))
      BY DEF Own
    <3>2. QED
      BY <1>1, <3>1, KeptElements
  <2>3. PICK i \in DOMAIN Own[h] : Own[h][i] = e
    BY <1>6, <2>1, <2>2
  <2>4. Own[h] # <<>>
    BY <2>3
  <2>5. PICK do \in TaskNames : Own[h] = <<Job(do, h)>>
    BY <2>4 DEF ControlInv, QueueOK, OneTask
  <2>6. Job(do, h) = e
    <3>1. DOMAIN Own[h] = {1} /\ Own[h][1] = Job(do, h)
      BY <2>5
    <3>2. QED
      BY <2>3, <3>1
  <2>7. do = "StoredReturns"
    BY <1>5, <2>6 DEF Job
  <2>8. QED
    BY <2>5, <2>7, TaskFollows
<1>8. h # d
  <2>1. SUFFICES ASSUME h = d PROVE FALSE
    OBVIOUS
  <2>2. Own[h] = Pair(h, d)
    BY <2>1 DEF Own, Pair
  <2>3. Len(Own[h]) = 2
    BY <2>2
  <2>4. Own[h] = <<>> \/ \E do \in TaskNames : Own[h] = <<Job(do, h)>>
    BY DEF ControlInv, QueueOK, OneTask
  <2>5. Len(Own[h]) # 2
    <3>1. CASE Own[h] = <<>>
      BY <3>1
    <3>2. CASE \E do \in TaskNames : Own[h] = <<Job(do, h)>>
      <4>1. PICK do : Own[h] = <<Job(do, h)>>
        BY <3>2
      <4>2. Len(Own[h]) = 1
        BY <4>1
      <4>3. QED
        BY <4>2
    <3>3. QED
      BY <2>4, <3>1, <3>2
  <2>6. QED
    BY <2>3, <2>5
<1>9. QED
  BY <1>2, <1>3, <1>7, <1>8

\* A job that is neither call's leaves the pair, or it is the one at its head.
LEMMA PairStays ==
  ASSUME ControlInv, ControlInv', NEW c \in Calls, Microtask(c),
         NEW h \in Calls, NEW d \in Calls, Task[d] = "RecordSaved",
         Pair(h, d) = <<Job("RecordSaved", d), Job("StoredReturns", h)>>
  PROVE  \/ c = d /\ AppendEvents(d)
         \/ Task'[d] = "RecordSaved" /\ Pair(h, d)' = Pair(h, d)
<1>1. PICK do \in TaskNames \cup RunnerNames, more \in Seq(JobsOf) :
        /\ Runs(do, c) /\ microtasks' = Tail(microtasks) \o more
        /\ do = "RecordSaved" => AppendEvents(c)
        /\ \A e \in Calls : e # c => Task'[e] = Task[e]
        /\ do \in TaskNames \/ Task'[c] = Task[c] \/ Task[c] = "none"
  BY JobsFollow
<1>2. /\ microtasks \in Seq(JobsOf) /\ microtasks # <<>> /\ Head(microtasks) = Job(do, c)
  BY <1>1, HeadRuns DEF ControlInv, QueueOK
<1>3. Task[h] = "StoredReturns" /\ h # d
  BY PairSays
<1>4. CASE Job(do, c) \in TasksOf(h) \cup TasksOf(d)
  <2>1. Job(do, c) = Job("RecordSaved", d)
    BY <1>2, <1>4, PairSays
  <2>2. do = "RecordSaved" /\ c = d
    BY <2>1 DEF Job
  <2>3. QED
    BY <1>1, <2>2
<1>5. CASE Job(do, c) \notin TasksOf(h) \cup TasksOf(d)
  <2>1. /\ do \in TaskNames => c # h /\ c # d
    BY <1>5, KindsOfJobs
  <2>2. Task'[h] = Task[h] /\ Task'[d] = Task[d]
    BY <1>1, <1>3, <2>1
  <2>3. ASSUME NEW e \in {h, d}, NEW name \in TaskNames, Task[e] = name, Task'[e] = name
        PROVE  Own'[e] = Own[e]
    <3>1. Own[e] # <<>> /\ Own'[e] # <<>>
      BY <2>3 DEF Task, Resting, TaskNames, CheckNames, TransactionNames
    <3>2. PICK a \in TaskNames : Own[e] = <<Job(a, e)>>
      BY <3>1 DEF ControlInv, QueueOK, OneTask
    <3>3. PICK b \in TaskNames : Own'[e] = <<Job(b, e)>>
      BY <3>1 DEF ControlInv, QueueOK, OneTask
    <3>4. Task[e] = a /\ Task'[e] = b
      <4>1. <<Job(a, e)>>[1].do = a /\ <<Job(b, e)>>[1].do = b
        BY DEF Job
      <4>2. QED
        BY <3>1, <3>2, <3>3, <4>1 DEF Task, Resting
    <3>5. QED
      BY <2>3, <3>2, <3>3, <3>4
  <2>4. Own'[h] = Own[h] /\ Own'[d] = Own[d]
    <3>1. "StoredReturns" \in TaskNames /\ "RecordSaved" \in TaskNames
      BY DEF TaskNames, CheckNames, TransactionNames
    <3>2. QED
      BY <1>3, <2>2, <2>3, <3>1
  <2>5. ASSUME NEW e \in {h, d}
        PROVE  \A i \in DOMAIN more : more[i] \notin TasksOf(e)
    <3>1. Own[e] = Kept(microtasks, TasksOf(e)) /\ Own'[e] = Kept(microtasks', TasksOf(e))
      BY DEF Own
    <3>2. Own'[e] = Own[e] \o Kept(more, TasksOf(e))
      <4>1. Head(microtasks) \notin TasksOf(e)
        BY <1>2, <1>5
      <4>2. Kept(Tail(microtasks) \o more, TasksOf(e)) = Kept(microtasks, TasksOf(e)) \o Kept(more, TasksOf(e))
        BY <1>2, <4>1, KeptMoves
      <4>3. QED
        BY <1>1, <3>1, <4>2
    <3>3. PICK own \in Seq(JobsOf), added \in Seq(JobsOf) :
            own = Own[e] /\ added = Kept(more, TasksOf(e))
      BY <1>2, <3>1, KeptType
    <3>4. own \o added = own
      BY <2>4, <3>2, <3>3
    <3>5. added = <<>>
      <4>1. Len(own \o added) = Len(own) + Len(added) /\ Len(own) \in Nat /\ Len(added) \in Nat
        OBVIOUS
      <4>2. Len(added) = 0
        BY <3>4, <4>1
      <4>3. QED
        BY <4>2
    <3>6. ASSUME NEW i \in DOMAIN more, more[i] \in TasksOf(e)
          PROVE  FALSE
      <4>1. PICK x, S : x = more[i] /\ S = TasksOf(e)
        OBVIOUS
      <4>2. more \in Seq(JobsOf) /\ x \in S /\ \E j \in DOMAIN more : more[j] = x
        BY <1>2, <3>6, <4>1
      <4>3. \E j \in DOMAIN Kept(more, S) : Kept(more, S)[j] = x
        BY <4>2, KeptElements
      <4>4. Kept(more, S) = <<>>
        BY <3>3, <3>5, <4>1
      <4>5. \E j \in DOMAIN <<>> : <<>>[j] = x
        BY <4>3, <4>4, Zenon
      <4>6. QED
        BY <4>5
    <3>7. QED
      BY <3>6
  <2>6. Kept(more, TasksOf(h) \cup TasksOf(d)) = <<>>
    <3>1. \A i \in DOMAIN more : more[i] \notin TasksOf(h) \cup TasksOf(d)
      BY <2>5
    <3>2. QED
      BY <3>1, NothingKept
  <2>7. Kept(microtasks', TasksOf(h) \cup TasksOf(d))
          = Kept(microtasks, TasksOf(h) \cup TasksOf(d)) \o Kept(more, TasksOf(h) \cup TasksOf(d))
    <3>1. PICK S : S = TasksOf(h) \cup TasksOf(d)
      OBVIOUS
    <3>2. Head(microtasks) \notin S
      BY <1>2, <1>5, <3>1
    <3>3. Kept(Tail(microtasks) \o more, S) = Kept(microtasks, S) \o Kept(more, S)
      BY <1>2, <3>2, KeptMoves
    <3>4. QED
      BY <1>1, <3>1, <3>3
  <2>8. Kept(microtasks, TasksOf(h) \cup TasksOf(d)) \in Seq(JobsOf)
    BY <1>2, KeptType
  <2>9. Pair(h, d)' = Pair(h, d)
    <3>1. Kept(microtasks, TasksOf(h) \cup TasksOf(d)) \o <<>>
            = Kept(microtasks, TasksOf(h) \cup TasksOf(d))
      BY <2>8, NothingAdded
    <3>2. QED
      BY <2>6, <2>7, <3>1 DEF Pair
  <2>10. QED
    BY <2>2, <2>9
<1>6. QED
  BY <1>4, <1>5

\* The last commit with a key.
LEMMA LastOfMine ==
  ASSUME ControlInv, LogInv, NEW g \in Games, NEW k, Mine(g, k) # <<>>
  PROVE  /\ Last(Mine(g, k)) \in Committers /\ GameOf[Last(Mine(g, k))] = g
         /\ Last(Mine(g, k)) \in WithKey(k)
<1>a. PICK S : S = WithKey(k)
  OBVIOUS
<1>b. PICK s \in Seq(Calls) : s = CommittedTo[g]
  BY CommitsType
<1>1. s = CommittedTo[g] /\ S = WithKey(k)
  BY <1>a, <1>b
<1>2. PICK mine \in Seq(Calls) : mine = Kept(s, S) /\ mine = Mine(g, k)
  BY <1>1, KeptType DEF Mine
<1>3. PICK e : e = Last(mine)
  OBVIOUS
<1>4. e \in Calls /\ \E i \in DOMAIN Kept(s, S) : Kept(s, S)[i] = e
  BY <1>2, <1>3, LastIsIn DEF In
<1>5. (\E i \in DOMAIN Kept(s, S) : Kept(s, S)[i] = e)
        <=> e \in S /\ \E i \in DOMAIN s : s[i] = e
  BY KeptElements
<1>6. e \in S /\ In(CommittedTo[g], e)
  BY <1>1, <1>4, <1>5 DEF In
<1>7. QED
  BY <1>1, <1>2, <1>3, <1>4, <1>6 DEF LogInv

LEMMA MicrotasksStoreNothing ==
  ASSUME NEW h \in Calls, Microtask(h)
  PROVE  UNCHANGED <<command, stored>>
<1>1. CASE StoredReturns(h) \/ StoredLoaded(h) \/ ContextReturns(h) \/ ContextLoaded(h)
  BY <1>1 DEF StoredReturns, StoredLoaded, ContextReturns, ContextLoaded, handleVars
<1>2. CASE Transaction(h)
  BY <1>2 DEF Transaction, BeginTransaction, TransactionThrows, ThrowsPast, SaveRecord,
              AppendEvents, SaveSnapshot, TransactionReturns, handleVars
<1>3. CASE RunnerStep(h) \/ Publish(h) \/ Persisted(h)
  BY <1>3 DEF RunnerStep, Publish, Persisted, handleVars
<1>4. QED
  BY <1>1, <1>2, <1>3 DEF Microtask

\* A success that was found stays one that is being or has been committed.
LEMMA FoundStays ==
  ASSUME ControlInv, ControlInv', StoresInv, FoundInv, Next,
         Fixed, Committers \subseteq Committers'
  PROVE  FoundInv'
<1>0. LogInv /\ RecordInv
  BY DEF StoresInv
<1> SUFFICES ASSUME NEW h \in Calls, stored'[h] # None
             PROVE  \E d \in Calls : FoundFrom(h, d)'
  BY DEF FoundInv
<1>1. ASSUME NEW d \in Calls, GameOf[d] = GameOf[h], d \in Committers,
             stored'[h] = RecordOf(d)
      PROVE  FoundFrom(h, d)'
  <2>1. RecordOf(d)' = RecordOf(d)
    BY <1>1, CommittersFixed
  <2>2. QED
    BY <1>1, <2>1 DEF FoundFrom
<1>2. ASSUME NEW d \in Calls, Task[d] = "RecordSaved"
      PROVE  /\ RecordOf(d)' = RecordOf(d)
             /\ Job("RecordSaved", d) \in JobsOf /\ Own[d] = <<Job("RecordSaved", d)>>
  <2>1. "RecordSaved" \in TransactionNames /\ "RecordSaved" \in TaskNames
    BY DEF TransactionNames, TaskNames
  <2>2. RecordOf(d)' = RecordOf(d)
    BY <1>2, <2>1, Soundness, FixedResults
  <2>3. Own[d] # <<>>
    BY <1>2, ChecksAreTasks, <2>1 DEF Task, Resting
  <2>4. PICK do \in TaskNames : Own[d] = <<Job(do, d)>>
    BY <2>3 DEF ControlInv, QueueOK, OneTask
  <2>5. Task[d] = do
    BY <2>4, TaskFollows
  <2>6. QED
    BY <1>2, <2>1, <2>2, <2>4, <2>5, KindsOfJobs
<1>3. CASE \E m \in Commands : Handle(h, m)
  <2>1. PICK m \in Commands : Handle(h, m)
    BY <1>3
  <2>2. /\ microtasks' = Append(microtasks, Job("StoredReturns", h))
        /\ UNCHANGED <<runnerVars, context, failed, storageVars>>
        /\ stored' = [stored EXCEPT ![h] = IF Key[m] = NoKey THEN None
                                           ELSE records[GameOf[h]][Key[m]]]
        /\ TaskMoves(h, "none", "StoredReturns")
    BY <2>1, HandleInOrder DEF Handle
  <2>3. PICK g \in Games, k \in Keys : g = GameOf[h] /\ k = Key[m] /\ stored'[h] = records[g][k]
    BY <2>2, GamesOfCalls DEF Keys, ControlInv, TypeOK
  <2>4. CASE Recording(g, k) = {}
    <3>1. Mine(g, k) # <<>> /\ records[g][k] = RecordOf(Last(Mine(g, k)))
      BY <1>0, <2>3, <2>4 DEF RecordInv
    <3>2. PICK d \in Committers : d = Last(Mine(g, k))
      BY <1>0, <3>1, LastOfMine
    <3>3. d \in Calls /\ GameOf[d] = g
      BY <1>0, <3>1, <3>2, LastOfMine DEF Committers
    <3>4. QED
      BY <1>1, <2>3, <3>1, <3>2, <3>3
  <2>5. CASE Recording(g, k) # {}
    <3>1. PICK d \in Recording(g, k) : records[g][k] = RecordOf(d)
      BY <1>0, <2>5 DEF RecordInv
    <3>2. /\ d \in Calls /\ GameOf[d] = g /\ Task[d] = "RecordSaved"
      BY <3>1 DEF Recording, WithKey, Doing
    <3>3. PICK a \in JobsOf, b \in JobsOf :
            a = Job("RecordSaved", d) /\ b = Job("StoredReturns", h)
      <4>1. "StoredReturns" \in TaskNames
        BY DEF TaskNames, CheckNames
      <4>2. QED
        BY <1>2, <3>2, <4>1, KindsOfJobs
    <3>4. d # h /\ Task'[d] = "RecordSaved"
      BY <2>2, <3>2 DEF TaskMoves
    <3>5. Pair(h, d) = <<a>>
      <4>1. microtasks \in Seq(JobsOf) /\ Own[h] = Kept(microtasks, TasksOf(h))
            /\ Own[d] = Kept(microtasks, TasksOf(d))
        BY <3>2 DEF ControlInv, QueueOK, Own
      <4>2. Own[h] = <<>>
        BY <2>2, TaskFollows DEF TaskMoves, ControlInv, Resting, TaskNames
      <4>3. ASSUME NEW i \in DOMAIN microtasks
            PROVE  microtasks[i] \notin TasksOf(h)
        <5>1. PICK e : e = microtasks[i]
          OBVIOUS
        <5>2. (\E j \in DOMAIN Kept(microtasks, TasksOf(h)) :
                 Kept(microtasks, TasksOf(h))[j] = e)
                <=> e \in TasksOf(h) /\ \E j \in DOMAIN microtasks : microtasks[j] = e
          BY <4>1, KeptElements
        <5>3. ~\E j \in DOMAIN <<>> : <<>>[j] = e
          OBVIOUS
        <5>4. QED
          BY <4>1, <4>2, <5>1, <5>2, <5>3
      <4>4. Kept(microtasks, TasksOf(d)) = Kept(microtasks, TasksOf(h) \cup TasksOf(d))
        <5>1. PICK S : S = TasksOf(h) \cup TasksOf(d)
          OBVIOUS
        <5>2. \A i \in DOMAIN microtasks :
                microtasks[i] \in TasksOf(d) <=> microtasks[i] \in S
          BY <4>3, <5>1
        <5>3. Kept(microtasks, TasksOf(d)) = Kept(microtasks, S)
          BY <4>1, <5>2, KeptSame
        <5>4. QED
          BY <5>1, <5>3
      <4>5. QED
        BY <1>2, <3>2, <3>3, <4>1, <4>4 DEF Pair
    <3>6. Pair(h, d)' = Append(<<a>>, b)
      <4>1. PICK S : S = TasksOf(h) \cup TasksOf(d)
        OBVIOUS
      <4>2. b \in S
        <5>1. "StoredReturns" \in TaskNames
          BY DEF TaskNames, CheckNames
        <5>2. QED
          BY <3>3, <4>1, <5>1, KindsOfJobs
      <4>3. Kept(Append(microtasks, b), S) = Append(Kept(microtasks, S), b)
        BY <4>2, KeptStep DEF ControlInv, QueueOK
      <4>4. QED
        BY <2>2, <3>3, <3>5, <4>1, <4>3 DEF Pair
    <3>7. Append(<<a>>, b) = <<a, b>>
      <4>1. PICK one \in Seq(JobsOf) : one = <<a>>
        <5>1. <<a>> \in Seq(JobsOf)
          OBVIOUS
        <5>2. QED
          BY <5>1
      <4>2. Append(one, b) = [i \in 1 .. 2 |-> IF i = 1 THEN a ELSE b]
        BY <4>1
      <4>3. <<a, b>> = [i \in 1 .. 2 |-> IF i = 1 THEN a ELSE b]
        OBVIOUS
      <4>4. QED
        BY <4>1, <4>2, <4>3
    <3>8. FoundFrom(h, d)'
      BY <1>2, <2>3, <3>1, <3>2, <3>3, <3>4, <3>6, <3>7 DEF FoundFrom, Job
    <3>9. QED
      BY <3>2, <3>8
  <2>6. QED
    BY <2>4, <2>5
<1>4. ASSUME stored'[h] = stored[h],
             \A d \in Calls :
               /\ Task[d] = "RecordSaved"
               /\ Pair(h, d) = <<Job("RecordSaved", d), Job("StoredReturns", h)>>
               => \/ d \in Committers'
                  \/ Task'[d] = "RecordSaved" /\ Pair(h, d)' = Pair(h, d)
      PROVE  \E d \in Calls : FoundFrom(h, d)'
  <2>1. PICK d \in Calls : FoundFrom(h, d)
    BY <1>4 DEF FoundInv
  <2>2. CASE d \in Committers
    BY <1>1, <1>4, <2>1, <2>2 DEF FoundFrom
  <2>3. CASE /\ Task[d] = "RecordSaved"
             /\ Pair(h, d) = <<Job("RecordSaved", d), Job("StoredReturns", h)>>
    <3>1. RecordOf(d)' = RecordOf(d)
      BY <1>2, <2>3
    <3>2. FoundFrom(h, d)'
      BY <1>4, <2>1, <2>3, <3>1 DEF FoundFrom, Job
    <3>3. QED
      BY <3>2
  <2>4. QED
    BY <2>1, <2>2, <2>3 DEF FoundFrom
<1>5. CASE \E g \in Games : CreateGame(g)
  <2>1. UNCHANGED <<microtasks, handleVars>> /\ Task' = Task
    BY <1>5, CreateGameInOrder DEF CreateGame
  <2>2. QED
    BY <1>4, <2>1 DEF handleVars, Pair
<1>6. CASE \E c \in Calls \ {h}, m \in Commands : Handle(c, m)
  <2>1. PICK c \in Calls \ {h}, m \in Commands : Handle(c, m)
    BY <1>6
  <2>2. /\ microtasks' = Append(microtasks, Job("StoredReturns", c))
        /\ stored'[h] = stored[h]
        /\ TaskMoves(c, "none", "StoredReturns")
    BY <2>1, HandleInOrder DEF Handle, ControlInv, TypeOK
  <2>3. ASSUME NEW d \in Calls, Task[d] = "RecordSaved"
        PROVE  Task'[d] = "RecordSaved" /\ Pair(h, d)' = Pair(h, d)
    <3>1. c # d /\ Task'[d] = "RecordSaved"
      BY <2>2, <2>3 DEF TaskMoves
    <3>2. PICK e \in JobsOf : e = Job("StoredReturns", c)
      <4>1. "StoredReturns" \in TaskNames
        BY DEF TaskNames, CheckNames
      <4>2. QED
        BY <4>1, KindsOfJobs
    <3>3. PICK S : S = TasksOf(h) \cup TasksOf(d)
      OBVIOUS
    <3>4. e \notin S
      BY <3>1, <3>2, <3>3, KindsOfJobs
    <3>5. Kept(Append(microtasks, e), S) = Kept(microtasks, S)
      BY <3>4, KeptStep DEF ControlInv, QueueOK
    <3>6. QED
      BY <2>2, <3>1, <3>2, <3>3, <3>5 DEF Pair
  <2>4. QED
    BY <1>4, <2>2, <2>3
<1>7. ASSUME NEW c \in Calls, Microtask(c)
      PROVE  \E d \in Calls : FoundFrom(h, d)'
  <2>1. stored' = stored
    BY <1>7, MicrotasksStoreNothing
  <2>2. ASSUME NEW d \in Calls, Task[d] = "RecordSaved",
               Pair(h, d) = <<Job("RecordSaved", d), Job("StoredReturns", h)>>
        PROVE  \/ d \in Committers'
               \/ Task'[d] = "RecordSaved" /\ Pair(h, d)' = Pair(h, d)
    <3>1. AppendEvents(d) => d \in Committers'
      <4>1. AppendEvents(d) => TaskMoves(d, "RecordSaved", "EventsAppended")
        BY WritesInOrder DEF Writes
      <4>2. QED
        BY <4>1 DEF TaskMoves, Committers
    <3>2. QED
      BY <1>7, <2>2, <3>1, PairStays
  <2>3. QED
    BY <1>4, <2>1, <2>2
<1>8. QED
  BY <1>3, <1>5, <1>6, <1>7 DEF Next

\* The steps that answer a call.
LEMMA WhoAnswers ==
  ASSUME ControlInv, Next, NEW h \in Calls
  PROVE  \/ answer'[h] = answer[h]
         \/ StoredLoaded(h) \/ Persisted(h)
         \/ ContextLoaded(h) /\ answer'[h].kind = "rejected"
<1>1. CASE \E g \in Games : CreateGame(g)
  BY <1>1 DEF CreateGame, handleVars
<1>2. CASE \E c \in Calls, m \in Commands : Handle(c, m)
  BY <1>2 DEF Handle
<1>3. ASSUME NEW c \in Calls, Microtask(c)
      PROVE  \/ answer'[h] = answer[h]
             \/ StoredLoaded(h) \/ Persisted(h)
             \/ ContextLoaded(h) /\ answer'[h].kind = "rejected"
  <2>1. CASE StoredReturns(c) \/ ContextReturns(c)
    BY <2>1 DEF StoredReturns, ContextReturns, handleVars
  <2>2. CASE StoredLoaded(c)
    BY <2>2 DEF StoredLoaded, Answer, ControlInv, TypeOK
  <2>3. CASE ContextLoaded(c)
    <3>1. \/ UNCHANGED answer
          \/ answer' = [answer EXCEPT ![c] = Rejected(RefusalOf(context[c], command[c]))]
      BY <2>3 DEF ContextLoaded, Answer
    <3>2. Rejected(RefusalOf(context[c], command[c])).kind = "rejected"
      BY DEF Rejected
    <3>3. QED
      BY <2>3, <3>1, <3>2 DEF ControlInv, TypeOK
  <2>4. CASE Persisted(c)
    BY <2>4 DEF Persisted, Answer, ControlInv, TypeOK
  <2>5. CASE Transaction(c)
    BY <2>5 DEF Transaction, BeginTransaction, TransactionThrows, ThrowsPast, SaveRecord,
                AppendEvents, SaveSnapshot, TransactionReturns, handleVars
  <2>6. CASE RunnerStep(c) \/ Publish(c)
    BY <2>6 DEF RunnerStep, Publish, handleVars
  <2>7. QED
    BY <1>3, <2>1, <2>2, <2>3, <2>4, <2>5, <2>6 DEF Microtask
<1>4. QED
  BY <1>1, <1>2, <1>3 DEF Next

LEMMA ReplaysStay ==
  ASSUME ControlInv, FoundInv, ReplayInv, Next, Fixed, Committers \subseteq Committers'
  PROVE  ReplayInv'
<1> SUFFICES ASSUME NEW h \in Calls, answer'[h] # None, answer'[h].kind = "replayed"
             PROVE  \E d \in Committers' :
                      /\ GameOf[d] = GameOf[h] /\ command'[d] = command'[h]
                      /\ answer'[h].state = Result(d)'
  BY DEF ReplayInv
<1>1. ASSUME NEW d \in Committers, GameOf[d] = GameOf[h], command[d] = command[h],
             answer'[h].state = Result(d), command'[h] = command[h]
      PROVE  \E e \in Committers' :
               /\ GameOf[e] = GameOf[h] /\ command'[e] = command'[h]
               /\ answer'[h].state = Result(e)'
  <2>1. command'[d] = command[d] /\ Result(d)' = Result(d)
    BY CommittersFixed
  <2>2. QED
    BY <1>1, <2>1
<1>2. CASE answer'[h] = answer[h]
  <2>1. PICK d \in Committers : /\ GameOf[d] = GameOf[h] /\ command[d] = command[h]
                                /\ answer[h].state = Result(d)
    BY <1>2 DEF ReplayInv
  <2>2. command[h] # None
    BY <1>2 DEF ControlInv, CallsInOrder, CallInOrder
  <2>3. command'[h] = command[h]
    BY <2>2 DEF Fixed
  <2>4. QED
    BY <1>1, <1>2, <2>1, <2>3
<1>3. CASE StoredLoaded(h)
  <2>1. CASE answer'[h] = answer[h]
    BY <1>2, <2>1
  <2>2. CASE answer'[h] # answer[h]
    <3>1. /\ stored[h] # None /\ stored[h].command = command[h]
          /\ answer'[h] = Replayed(stored[h]) /\ command' = command
      <4>1. /\ command' = command
            /\ \/ answer'[h] = Rejected("MISSING_IDEMPOTENCY_KEY")
               \/ stored[h] # None /\ answer'[h] = AnswerDuplicate(h)
        BY <1>3, <2>2 DEF StoredLoaded, Answer, IsDuplicate, ControlInv, TypeOK
      <4>2. QED
        BY <4>1 DEF AnswerDuplicate, Rejected
    <3>2. PICK d \in Calls : FoundFrom(h, d)
      BY <3>1 DEF FoundInv
    <3>3. Task[h] = "StoredLoaded"
      BY <1>3, StoredLoadedInOrder DEF TaskMoves
    <3>4. d \in Committers
      BY <3>2, <3>3, PairSays DEF FoundFrom
    <3>5. stored[h].command = command[d] /\ stored[h].state = Result(d)
      BY <3>2 DEF FoundFrom, RecordOf
    <3>6. answer'[h].state = Result(d)
      BY <3>1, <3>5 DEF Replayed
    <3>7. QED
      BY <1>1, <3>1, <3>2, <3>4, <3>5, <3>6 DEF FoundFrom
  <2>3. QED
    BY <2>1, <2>2
<1>4. CASE Persisted(h)
  <2>1. answer'[h] = AnswerPersisted(h)
    BY <1>4 DEF Persisted, Answer, ControlInv, TypeOK
  <2>2. AnswerPersisted(h).kind # "replayed"
    BY DEF AnswerPersisted, Rejected, Accepted
  <2>3. QED
    BY <2>1, <2>2
<1>5. QED
  BY <1>2, <1>3, <1>4, WhoAnswers

LEMMA DataStarts ==
  ASSUME Init
  PROVE  DataInv
<1>1. ControlInv
  BY StartsInOrder
<1>2. /\ Runner!Init
      /\ stored = [h \in Calls |-> None]
      /\ context = [h \in Calls |-> NoState] /\ failed = {}
      /\ answer = [h \in Calls |-> None] /\ snapshots = [g \in Games |-> NoState]
      /\ records = [g \in Games |-> [k \in Keys |-> None]]
      /\ log = [g \in Games |-> <<>>] /\ published = [g \in Games |-> <<>>]
  BY DEF Init
<1>3. microtasks = <<>> /\ phase = [h \in Calls |-> "idle"]
  BY <1>2 DEF Runner!Init
<1>4. Task = [h \in Calls |-> "none"]
  BY <1>3, KeptEmpty DEF Task, Resting, Own
<1>5. Committers = {} /\ Behind = {} /\ \A do : do # "none" => Doing(do) = {}
  BY <1>3, <1>4 DEF Committers, Behind, Doing
<1>6. ASSUME NEW g \in Games
      PROVE  CommittedTo[g] = <<>> /\ UpdatesTo[g] = <<>>
  <2>1. Kept(log[g], FirstEvents) = <<>>
    BY <1>2, KeptEmpty
  <2>2. QED
    BY <1>2, <2>1 DEF CommittedTo, Committed, UpdatesTo
<1>7. OneInside /\ FoundInv /\ ReplayInv
  BY <1>2, <1>3 DEF OneInside, Inside, FoundInv, ReplayInv
<1>8. LogInv
  BY <1>2, <1>5, <1>6 DEF LogInv, In, NoneTwice
<1>9. SnapshotInv
  BY <1>2, <1>5 DEF SnapshotInv
<1>10. RecordInv
  <2>1. ASSUME NEW g \in Games, NEW k \in Keys
        PROVE  /\ Recording(g, k) = {} /\ Mine(g, k) = <<>>
    <3>1. Mine(g, k) = <<>>
      BY <1>6, KeptEmpty DEF Mine
    <3>2. QED
      BY <1>5, <3>1 DEF Recording
  <2>2. QED
    BY <1>2, <2>1 DEF RecordInv
<1>11. UpdateInv
  BY <1>2, <1>5, <1>6 DEF UpdateInv
<1>12. QED
  BY <1>7, <1>8, <1>9, <1>10, <1>11 DEF DataInv, StoresInv

\* Nothing happens, and nothing changes.
LEMMA DataRests ==
  ASSUME ControlInv, DataInv, UNCHANGED vars
  PROVE  DataInv'
<1>1. UNCHANGED <<microtasks, runnerVars, handleVars, storageVars, published>>
  BY DEF vars
<1>2. Own' = Own /\ Task' = Task
  BY <1>1 DEF Task, Resting, Own
<1>3. Committers' = Committers /\ Behind' = Behind /\ \A do : Doing(do)' = Doing(do)
  BY <1>1, <1>2 DEF Committers, Behind, Doing, runnerVars, handleVars
<1>4. Rests /\ Fixed /\ Loads
  BY <1>1, <1>2, <1>3 DEF Rests, Fixed, Loads, Doing, runnerVars, handleVars
<1>5. StoresInv'
  BY <1>4, RestsKeepStores DEF DataInv
<1>6. OneInside'
  BY <1>1 DEF DataInv, OneInside, Inside, runnerVars
<1>7. FoundInv'
  BY <1>1, <1>2, <1>3 DEF DataInv, FoundInv, FoundFrom, Pair, RecordOf, Result, handleVars
<1>8. ReplayInv'
  BY <1>1, <1>3 DEF DataInv, ReplayInv, Result, handleVars
<1>9. QED
  BY <1>5, <1>6, <1>7, <1>8 DEF DataInv

LEMMA DataStays ==
  ASSUME ControlInv, ControlInv', Alone, Alone', DataInv, [Next]_vars
  PROVE  DataInv'
<1>1. CASE Next
  <2>1. OneInside /\ StoresInv /\ FoundInv /\ ReplayInv
    BY DEF DataInv
  <2>2. StoresInv' /\ Fixed /\ Committers \subseteq Committers'
    BY <1>1, <2>1, StoresKept
  <2>3. OneInside'
    BY <1>1, <2>1, PhasesStep, OneInsideStays
  <2>4. FoundInv'
    BY <1>1, <2>1, <2>2, FoundStays
  <2>5. ReplayInv'
    BY <1>1, <2>1, <2>2, ReplaysStay
  <2>6. QED
    BY <2>2, <2>3, <2>4, <2>5 DEF DataInv
<1>2. CASE UNCHANGED vars
  BY <1>2, DataRests
<1>3. QED
  BY <1>1, <1>2

LEMMA DataHolds == Spec => [](ControlInv /\ DataInv)
<1>1. Init => DataInv
  BY DataStarts
<1>2. ControlInv => Alone
  BY OperatesAlone
<1>3. ControlInv /\ ControlInv' /\ Alone /\ Alone' /\ DataInv /\ [Next]_vars => DataInv'
  BY DataStays
<1>4. QED
  BY <1>1, <1>2, <1>3, ControlHolds, PTL DEF Spec

-----------------------------------------------------------------------------
(* What the stores, the answers and the updates promise.                   *)

LEMMA StoresAgree ==
  ASSUME ControlInv, DataInv
  PROVE  StorageAgrees
<1>1. LogInv /\ SnapshotInv /\ RecordInv
  BY DEF DataInv, StoresInv
<1> SUFFICES ASSUME NEW g \in Games, InTransaction(g) = {}, snapshots[g] # NoState
             PROVE  /\ snapshots[g] = IF log[g] = <<>> THEN NewGame
                                      ELSE Result(Last(Committed(g)))
                    /\ \A k \in Keys :
                         LET mine == Kept(Committed(g),
                                          {h \in CommittedCalls(g) : Key[command[h]] = k})
                         IN  records[g][k] = IF mine = <<>> THEN None
                                             ELSE RecordOf(Last(mine))
  BY DEF StorageAgrees
<1>2. PICK s \in Seq(Calls) : s = CommittedTo[g] /\ s = Committed(g)
  BY CommitsType DEF CommittedTo
<1>3. ASSUME NEW h \in Calls, GameOf[h] = g
      PROVE  h \notin Doing("EventsAppended") /\ h \notin Doing("RecordSaved")
  <2>1. ~Inside(h)
    BY <1>3 DEF InTransaction, Inside
  <2>2. Task[h] \notin TransactionNames
    BY <2>1, TaskSays
  <2>3. QED
    BY <2>2 DEF Doing, TransactionNames
<1>4. s = <<>> <=> log[g] = <<>>
  <2>1. log[g] = <<>> => Kept(log[g], FirstEvents) = <<>>
    BY KeptEmpty
  <2>2. log[g] = <<>> => s = <<>>
    BY <1>2, <2>1 DEF Committed
  <2>3. QED
    BY <1>1, <1>2, <2>2 DEF LogInv
<1>5. snapshots[g] = IF log[g] = <<>> THEN NewGame ELSE Result(Last(Committed(g)))
  <2>1. \A h \in Doing("EventsAppended") : GameOf[h] # g
    BY <1>3 DEF Doing
  <2>2. snapshots[g] = LastState(g)
    BY <1>1, <2>1 DEF SnapshotInv
  <2>3. QED
    BY <1>2, <1>4, <2>2 DEF LastState
<1>6. ASSUME NEW k \in Keys
      PROVE  LET mine == Kept(Committed(g), {h \in CommittedCalls(g) : Key[command[h]] = k})
             IN  records[g][k] = IF mine = <<>> THEN None ELSE RecordOf(Last(mine))
  <2>1. PICK S : S = {h \in CommittedCalls(g) : Key[command[h]] = k}
    OBVIOUS
  <2>2. PICK R : R = WithKey(k)
    OBVIOUS
  <2>3. ASSUME NEW i \in DOMAIN s
        PROVE  s[i] \in S <=> s[i] \in R
    <3>1. s[i] \in Calls /\ In(CommittedTo[g], s[i]) /\ s[i] \in CommittedCalls(g)
      BY <1>2 DEF In, CommittedCalls, ToSet
    <3>2. s[i] \in Committers
      BY <1>1, <3>1 DEF LogInv
    <3>3. command[s[i]] # None
      BY <3>1, <3>2, Soundness
    <3>4. QED
      BY <2>1, <2>2, <3>1, <3>3 DEF WithKey
  <2>4. Kept(s, S) = Kept(s, R)
    BY <2>3, KeptSame
  <2>5. Kept(Committed(g), {h \in CommittedCalls(g) : Key[command[h]] = k}) = Mine(g, k)
    BY <1>2, <2>1, <2>2, <2>4 DEF Mine
  <2>6. Recording(g, k) = {}
    BY <1>3 DEF Recording, WithKey
  <2>7. records[g][k] = IF Mine(g, k) = <<>> THEN None ELSE RecordOf(Last(Mine(g, k)))
    BY <1>1, <2>6 DEF RecordInv
  <2>8. QED
    BY <2>5, <2>7
<1>7. QED
  BY <1>5, <1>6

\* However calls overlap and whichever transactions throw, between
\* transactions the snapshot of a game is the state of the last commit in its
\* log and a key has the record of its last commit, or none.
THEOREM StoresAreInOrder == Spec => []StoresInOrder
<1>1. ControlInv /\ DataInv => StoresInOrder
  BY StoresAgree DEF StoresInOrder, ControlInv
<1>2. QED
  BY <1>1, DataHolds, PTL

\* A call is in the log once or not at all.
LEMMA TimesIn ==
  ASSUME NEW s \in Seq(Calls), NoneTwice(s), NEW h \in Calls
  PROVE  Len(Kept(s, {h})) = IF In(s, h) THEN 1 ELSE 0
<1>1. CASE In(s, h)
  <2>1. PICK i \in DOMAIN s : s[i] = h
    BY <1>1 DEF In
  <2>2. PICK kept \in Seq(Calls) : kept = Kept(s, {h})
    BY KeptType
  <2>3. \A j \in DOMAIN s : s[j] = h => j = i
    BY <2>1 DEF NoneTwice
  <2>4. kept # <<>> /\ Kept(s, {h} \ {h}) = Tail(kept)
    <3>1. PICK S : S = {h}
      OBVIOUS
    <3>2. s[i] \in S /\ \A j \in DOMAIN s : j < i => s[j] \notin S
      <4>1. i \in Nat
        OBVIOUS
      <4>2. QED
        BY <2>1, <2>3, <3>1, <4>1
    <3>3. /\ Kept(s, S) # <<>>
          /\ (\A j \in DOMAIN s : s[j] = s[i] => j = i) => Kept(s, S \ {s[i]}) = Tail(Kept(s, S))
      BY <3>2, KeptFirst
    <3>4. QED
      BY <2>1, <2>2, <2>3, <3>1, <3>3
  <2>5. Kept(s, {h} \ {h}) = <<>>
    BY NothingKept
  <2>6. Len(kept) = 1
    <3>1. Tail(kept) = <<>> /\ kept # <<>>
      BY <2>4, <2>5
    <3>2. Len(Tail(kept)) = Len(kept) - 1 /\ Len(kept) \in Nat
      BY <3>1
    <3>3. Len(Tail(kept)) = 0
      <4>1. PICK t : t = Tail(kept)
        OBVIOUS
      <4>2. t = <<>>
        BY <3>1, <4>1
      <4>3. Len(t) = 0
        BY <4>2
      <4>4. QED
        BY <4>1, <4>3
    <3>4. QED
      BY <3>2, <3>3
  <2>7. QED
    BY <1>1, <2>2, <2>6
<1>2. CASE ~In(s, h)
  <2>1. \A i \in DOMAIN s : s[i] \notin {h}
    BY <1>2 DEF In
  <2>2. Kept(s, {h}) = <<>>
    BY <2>1, NothingKept
  <2>3. QED
    BY <1>2, <2>2
<1>3. QED
  BY <1>1, <1>2

LEMMA AnswersAreRight ==
  ASSUME ControlInv, DataInv
  PROVE  AnswersMatchLog
<1>1. LogInv /\ ReplayInv
  BY DEF DataInv, StoresInv
<1> SUFFICES ASSUME NEW h \in Calls, answer[h] # None
             PROVE  /\ Len(Kept(Committed(GameOf[h]), {h}))
                         = IF answer[h].kind = "accepted" THEN 1 ELSE 0
                    /\ answer[h].kind = "replayed" =>
                         \E d \in CommittedCalls(GameOf[h]) :
                           command[d] = command[h] /\ answer[h].state = Result(d)
  BY DEF AnswersMatchLog
<1>2. PICK g \in Games : g = GameOf[h]
  BY GamesOfCalls
<1>3. PICK s \in Seq(Calls) : s = CommittedTo[g] /\ s = Committed(g)
  BY CommitsType DEF CommittedTo
<1>4. answer[h].kind = "accepted" <=> h \in Committers
  <2>1. CallInOrder(h)
    BY DEF ControlInv, CallsInOrder
  <2>2. CASE phase[h] = "idle" /\ answer[h].kind # "accepted"
    BY <2>1, <2>2 DEF CallInOrder, Committers, TransactionNames
  <2>3. CASE phase[h] = "returned" /\ answer[h] = AnswerPersisted(h)
    BY <2>1, <2>3
       DEF CallInOrder, Committers, TransactionNames, AnswerPersisted, Accepted, Rejected
  <2>4. QED
    BY <2>1, <2>2, <2>3 DEF CallInOrder
<1>5. /\ NoneTwice(s)
      /\ \A d \in Calls : In(s, d) <=> GameOf[d] = g /\ d \in Committers
  <2>1. /\ NoneTwice(CommittedTo[g])
        /\ \A d \in Calls : In(CommittedTo[g], d) <=> GameOf[d] = g /\ d \in Committers
    BY <1>1 DEF LogInv
  <2>2. QED
    BY <1>3, <2>1
<1>6. Len(Kept(s, {h})) = IF answer[h].kind = "accepted" THEN 1 ELSE 0
  BY <1>2, <1>4, <1>5, TimesIn
<1>7. ASSUME answer[h].kind = "replayed"
      PROVE  \E d \in CommittedCalls(g) :
               command[d] = command[h] /\ answer[h].state = Result(d)
  <2>1. PICK d \in Committers : /\ GameOf[d] = g /\ command[d] = command[h]
                                /\ answer[h].state = Result(d)
    BY <1>1, <1>2, <1>7 DEF ReplayInv
  <2>2. d \in CommittedCalls(g)
    <3>1. In(s, d)
      BY <1>5, <2>1 DEF Committers
    <3>2. QED
      BY <1>3, <3>1 DEF In, CommittedCalls, ToSet
  <2>3. QED
    BY <2>1, <2>2
<1>8. QED
  BY <1>2, <1>3, <1>6, <1>7

\* An accepted call is in the log once, a rejected or replayed one is not, and
\* a replayed one got the state that a commit of the same command made.
THEOREM AnswersAreTrue == Spec => []AnswersMatchLog
<1>1. ControlInv /\ DataInv => AnswersMatchLog
  BY AnswersAreRight
<1>2. QED
  BY <1>1, DataHolds, PTL

LEMMA UpdatesAreInOrder ==
  ASSUME ControlInv, DataInv
  PROVE  UpdatesFollowLog
<1>1. OneInside /\ UpdateInv
  BY DEF DataInv, StoresInv
<1> SUFFICES ASSUME NEW g \in Games
             PROVE  LET updates == [i \in DOMAIN published[g] |-> published[g][i].by]
                    IN  /\ IsPrefix(updates, Committed(g))
                        /\ \A i \in DOMAIN published[g] :
                             published[g][i].state = Result(updates[i])
                        /\ Len(Committed(g)) - Len(updates) <= Cardinality(InTransaction(g))
  BY DEF UpdatesFollowLog
<1> DEFINE updates == [i \in DOMAIN published[g] |-> published[g][i].by]
<1>2. PICK s \in Seq(Calls) : s = CommittedTo[g] /\ s = Committed(g)
  BY CommitsType DEF CommittedTo
<1>3. PICK u \in Seq(Calls) : u = UpdatesTo[g] /\ u = updates
  <2>1. PICK all \in Seq([by : Calls, state : StatesOf]) : all = published[g]
    BY DEF ControlInv, TypeOK
  <2>2. \A x \in [by : Calls, state : StatesOf] : x.by \in Calls
    OBVIOUS
  <2>3. [i \in DOMAIN all |-> all[i].by] \in Seq(Calls)
    BY <2>2, CallsOfType
  <2>4. QED
    BY <2>1, <2>3 DEF UpdatesTo
<1>4. \A i \in DOMAIN published[g] : published[g][i].state = Result(updates[i])
  BY <1>1 DEF UpdateInv
<1>5. IsFiniteSet(InTransaction(g)) /\ Cardinality(InTransaction(g)) \in Nat
  <2>1. CASE InTransaction(g) = {}
    BY <2>1, FS_EmptySet
  <2>2. CASE InTransaction(g) # {}
    <3>1. PICK h \in Calls : InTransaction(g) = {h}
      BY <1>1, <2>2 DEF OneInside, Inside, InTransaction
    <3>2. IsFiniteSet({h}) /\ Cardinality({h}) = 1
      BY FS_Singleton
    <3>3. IsFiniteSet(InTransaction(g)) /\ Cardinality(InTransaction(g)) = 1
      BY <3>1, <3>2, Zenon
    <3>4. QED
      BY <3>3
  <2>3. QED
    BY <2>1, <2>2
<1>6. IsPrefix(u, s) /\ Len(s) - Len(u) <= Cardinality(InTransaction(g))
  <2>1. CASE \A h \in Behind : GameOf[h] # g
    <3>1. s = u
      BY <1>1, <1>2, <1>3, <2>1 DEF UpdateInv
    <3>2. QED
      BY <1>5, <3>1 DEF IsPrefix
  <2>2. CASE \E h \in Behind : GameOf[h] = g
    <3>1. PICK h \in Behind : GameOf[h] = g
      BY <2>2
    <3>2. h \in Calls /\ s = Append(u, h)
      <4>1. h \in Calls
        BY DEF Behind, Committers
      <4>2. CommittedTo[g] = Append(UpdatesTo[g], h)
        BY <1>1, <3>1 DEF UpdateInv
      <4>3. QED
        BY <1>2, <1>3, <4>1, <4>2
    <3>3. Len(s) = Len(u) + 1 /\ SubSeq(s, 1, Len(u)) = SubSeq(u, 1, Len(u))
      <4>1. Len(s) = Len(u) + 1 /\ \A i \in 1 .. Len(u) : s[i] = u[i]
        BY <3>2
      <4>2. /\ SubSeq(s, 1, Len(u)) = [i \in 1 .. Len(u) |-> s[i]]
            /\ SubSeq(u, 1, Len(u)) = [i \in 1 .. Len(u) |-> u[i]]
        OBVIOUS
      <4>3. QED
        BY <4>1, <4>2
    <3>4. Inside(h)
      BY <3>1, <3>2, TaskSays DEF Behind, Committers, Inside, TransactionNames
    <3>5. InTransaction(g) = {h}
      BY <1>1, <3>1, <3>2, <3>4 DEF OneInside, Inside, InTransaction
    <3>6. Cardinality(InTransaction(g)) = 1
      BY <3>5, FS_Singleton
    <3>7. Len(u) \in Nat
      OBVIOUS
    <3>8. QED
      BY <3>3, <3>6, <3>7 DEF IsPrefix
  <2>3. QED
    BY <2>1, <2>2
<1>7. QED
  BY <1>2, <1>3, <1>4, <1>6

\* The updates a listener receives are the commits of the log, each once and
\* in order, and it is behind by the transaction under way at most.
THEOREM UpdatesAreComplete == Spec => []UpdatesFollowLog
<1>1. ControlInv /\ DataInv => UpdatesFollowLog
  BY UpdatesAreInOrder
<1>2. QED
  BY <1>1, DataHolds, PTL

-----------------------------------------------------------------------------
(* A game whose commands are sent one after the other's answer.            *)

\* Sent, and not answered yet.
Sent(h) == command[h] # None /\ answer[h] = None
OneSent == \A h, d \in Calls : Sent(h) /\ Sent(d) /\ GameOf[h] = GameOf[d] => h = d

\* What a call has loaded is what it is about to replace.
LoadedInv ==
  \A h \in Calls : Sent(h) /\ (h \notin Committers \/ Task[h] = "EventsAppended") =>
    context[h] = NoState \/ context[h] = snapshots[GameOf[h]]

\* A key has at most one commit: a call that has found nothing under its key
\* is the first one with it.
FreshInv ==
  \A h \in Calls :
    /\ phase[h] # "idle" => stored[h] = None
    /\ Sent(h) /\ stored[h] = None /\ h \notin Committers =>
         \A d \in Committers : GameOf[d] = GameOf[h] => Key[command[d]] # Key[command[h]]
OnceInv ==
  \A h, d \in Committers :
    GameOf[h] = GameOf[d] /\ Key[command[h]] = Key[command[d]] => h = d

\* The log is numbered up to the version of the last commit.
NumberInv ==
  \A g \in Games :
    /\ \A i \in DOMAIN log[g] : /\ log[g][i].version = i + 1
                                /\ log[g][i].of = command[log[g][i].by]
    /\ LastState(g).version = Len(log[g]) + 1

SequenceInv == OneSent /\ LoadedInv /\ FreshInv /\ OnceInv /\ NumberInv


\* The other steps create a game, receive a command, save a snapshot or append
\* events.
Quiet ==
  /\ UNCHANGED <<command, stored, snapshots, log>> /\ Loads
  /\ Committers' = Committers /\ Doing("EventsAppended")' = Doing("EventsAppended")
Kinds ==
  \/ \E g \in Games : CreateGame(g)
  \/ \E h \in Calls, m \in Commands : Handle(h, m)
  \/ \E h \in Calls : SaveSnapshot(h) \/ AppendEvents(h)
  \/ Quiet

LEMMA KindsOfSteps ==
  ASSUME ControlInv, OneInside, StoresInv, [Next]_vars
  PROVE  Kinds
<1>1. ASSUME Rests, Loads, UNCHANGED <<command, stored>>
      PROVE  Quiet
  BY <1>1 DEF Rests, Quiet, storageVars
<1>2. CASE UNCHANGED vars
  <2>1. UNCHANGED <<microtasks, runnerVars, handleVars, storageVars, published>>
    BY <1>2 DEF vars
  <2>2. Own' = Own /\ Task' = Task
    BY <2>1 DEF Task, Resting, Own
  <2>3. QED
    BY <2>1, <2>2 DEF Kinds, Quiet, Loads, Committers, Doing, runnerVars, handleVars, storageVars
<1>3. ASSUME NEW h \in Calls, Microtask(h)
      PROVE  Kinds
  <2>1. UNCHANGED <<command, stored>>
    BY <1>3, MicrotasksStoreNothing
  <2>2. CASE Checks(h)
    BY <1>1, <2>1, <2>2, ChecksRest DEF Kinds
  <2>3. CASE SaveRecord(h)
    <3>1. /\ UNCHANGED <<runnerVars, handleVars, snapshots, log>>
          /\ TaskMoves(h, "SnapshotLoaded", "RecordSaved")
      BY <2>3, WritesInOrder DEF SaveRecord, Writes
    <3>2. Quiet
      BY <3>1 DEF Quiet, Loads, Committers, Doing, TaskMoves, runnerVars, handleVars
    <3>3. QED
      BY <3>2 DEF Kinds
  <2>4. CASE Publish(h)
    <3>1. UNCHANGED <<handleVars, storageVars>> /\ TaskMoves(h, "none", "Persisted")
      BY <2>4, PublishInOrder DEF Publish
    <3>2. Committers' = Committers
      BY <2>4, FailedPublishRests, PublishKeepsStores DEF Rests
    <3>3. Quiet
      BY <3>1, <3>2, SameTasks DEF Quiet, Loads, handleVars, storageVars
    <3>4. QED
      BY <3>3 DEF Kinds
  <2>5. QED
    BY <1>3, <2>2, <2>3, <2>4 DEF Microtask, Transaction, Checks, Kinds
<1>4. QED
  BY <1>2, <1>3 DEF Next, Kinds

\* An answer is not taken back.
LEMMA AnswersStay ==
  ASSUME ControlInv, [Next]_vars, NEW h \in Calls, answer[h] # None
  PROVE  answer'[h] = answer[h]
<1>1. CASE UNCHANGED vars
  BY <1>1 DEF vars, handleVars
<1>2. CASE StoredLoaded(h) \/ Persisted(h) \/ ContextLoaded(h)
  <2>1. Task[h] \in {"StoredLoaded", "Persisted", "ContextLoaded"}
    BY <1>2, StoredLoadedInOrder, PersistedInOrder, ContextLoadedInOrder DEF TaskMoves
  <2>2. QED
    BY <2>1 DEF ControlInv, CallsInOrder, CallInOrder, CheckNames
<1>3. QED
  BY <1>1, <1>2, WhoAnswers

\* A call is sent by handle.
LEMMA SentByHandle ==
  ASSUME ControlInv, [Next]_vars, NEW h \in Calls, Sent(h)', ~Sent(h)
  PROVE  command[h] = None /\ \E m \in Commands : Handle(h, m)
<1>1. command[h] = None
  BY AnswersStay DEF Sent
<1>2. ASSUME UNCHANGED command
      PROVE  FALSE
  BY <1>1, <1>2 DEF Sent
<1>3. ~\E c \in Calls : Microtask(c)
  BY <1>2, MicrotasksStoreNothing
<1>4. ~(\E g \in Games : CreateGame(g)) /\ ~(UNCHANGED vars)
  BY <1>2 DEF CreateGame, vars, handleVars
<1>5. PICK c \in Calls, m \in Commands : Handle(c, m)
  BY <1>3, <1>4 DEF Next
<1>6. c = h
  BY <1>1, <1>5 DEF Handle, Sent, ControlInv, TypeOK
<1>7. QED
  BY <1>1, <1>5, <1>6

LEMMA OneIsSent ==
  ASSUME MaxInFlight = 1, ControlInv, OneSent, [Next]_vars
  PROVE  OneSent'
<1>1. ASSUME NEW h \in Calls, NEW d \in Calls, h # d, GameOf[h] = GameOf[d],
             Sent(d)', ~Sent(h), Sent(h)'
      PROVE  FALSE
  <2>1. PICK m \in Commands : Handle(h, m)
    BY <1>1, SentByHandle
  <2>2. Sent(d)
    BY <1>1, <2>1 DEF Handle, Sent, ControlInv, TypeOK
  <2>3. InFlight(GameOf[h]) = {d}
    BY <1>1, <2>2 DEF OneSent, Sent, InFlight
  <2>4. Cardinality(InFlight(GameOf[h])) = 1
    BY <2>3, FS_Singleton
  <2>5. QED
    BY <2>1, <2>4 DEF Handle
<1>2. QED
  BY <1>1 DEF OneSent


\* Who is in a transaction, or about to be, has been sent.
LEMMA InsideIsSent ==
  ASSUME ControlInv, NEW h \in Calls, Inside(h)
  PROVE  Sent(h)
BY DEF ControlInv, CallsInOrder, CallInOrder, Inside, Sent, Sound

LEMMA LoadedStays ==
  ASSUME ControlInv, DataInv, OneSent, LoadedInv, [Next]_vars,
         Fixed, Committers \subseteq Committers'
  PROVE  LoadedInv'
<1>0. OneInside /\ StoresInv /\ SnapshotInv /\ LogInv
  BY DEF DataInv, StoresInv
<1> SUFFICES ASSUME NEW h \in Calls, Sent(h)',
                    h \notin Committers' \/ Task'[h] = "EventsAppended",
                    context'[h] # NoState
             PROVE  context'[h] = snapshots'[GameOf[h]]
  BY DEF LoadedInv
<1>1. CASE \E g \in Games : CreateGame(g)
  <2>1. PICK g \in Games : CreateGame(g)
    BY <1>1
  <2>2. /\ UNCHANGED <<runnerVars, handleVars>> /\ Task' = Task
        /\ snapshots[g] = NoState /\ snapshots' = [snapshots EXCEPT ![g] = NewGame]
    BY <2>1, CreateGameInOrder DEF CreateGame
  <2>3. /\ context'[h] = context[h] /\ Sent(h)
        /\ (h \in Committers' <=> h \in Committers)
    BY <2>2 DEF Sent, Committers, runnerVars, handleVars
  <2>4. GameOf[h] # g
    BY <1>0, <2>2, <2>3 DEF SnapshotInv
  <2>5. snapshots'[GameOf[h]] = snapshots[GameOf[h]]
    BY <2>2, <2>4, GamesOfCalls DEF ControlInv, TypeOK
  <2>6. QED
    BY <2>2, <2>3, <2>5 DEF LoadedInv
<1>2. CASE \E c \in Calls, m \in Commands : Handle(c, m)
  <2>1. PICK c \in Calls, m \in Commands : Handle(c, m)
    BY <1>2
  <2>2. /\ command[c] = None /\ command' = [command EXCEPT ![c] = m]
        /\ UNCHANGED <<context, answer, snapshots>>
        /\ TaskMoves(c, "none", "StoredReturns") /\ Committers' = Committers
    BY <2>1, HandleInOrder, HandleRests DEF Handle, storageVars, Rests
  <2>3. h # c
    BY <2>2 DEF ControlInv, CallsInOrder, CallInOrder
  <2>4. Sent(h) /\ Task'[h] = Task[h]
    BY <2>2, <2>3 DEF Sent, TaskMoves, ControlInv, TypeOK
  <2>5. QED
    BY <2>2, <2>4 DEF LoadedInv
<1>3. CASE \E c \in Calls : SaveSnapshot(c)
  <2>1. PICK c \in Calls : SaveSnapshot(c)
    BY <1>3
  <2>2. /\ UNCHANGED <<runnerVars, handleVars>>
        /\ snapshots' = [snapshots EXCEPT ![GameOf[c]] = Result(c)]
        /\ TaskMoves(c, "EventsAppended", "SnapshotSaved")
    BY <2>1, WritesInOrder DEF SaveSnapshot, SavedSnapshot, Writes
  <2>3. Sent(c) /\ Committers' = Committers
    BY <1>0, <2>1, <2>2, TaskSays, InsideIsSent, SaveSnapshotKeepsStores DEF TaskMoves, TransactionNames
  <2>4. Sent(h) /\ context'[h] = context[h]
    BY <2>2 DEF Sent, handleVars
  <2>5. h # c
    BY <2>2, <2>3, TaskSays DEF TaskMoves
  <2>6. GameOf[h] # GameOf[c]
    BY <2>3, <2>4, <2>5 DEF OneSent
  <2>7. snapshots'[GameOf[h]] = snapshots[GameOf[h]] /\ Task'[h] = Task[h]
    BY <2>2, <2>5, <2>6, GamesOfCalls DEF ControlInv, TypeOK, TaskMoves
  <2>8. QED
    BY <2>3, <2>4, <2>7 DEF LoadedInv
<1>4. CASE \E c \in Calls : AppendEvents(c)
  <2>1. PICK c \in Calls : AppendEvents(c)
    BY <1>4
  <2>2. /\ UNCHANGED <<runnerVars, handleVars, snapshots>>
        /\ TaskMoves(c, "RecordSaved", "EventsAppended")
    BY <2>1, WritesInOrder DEF AppendEvents, Writes
  <2>3. Sent(h) /\ context'[h] = context[h] /\ c \notin Committers
    BY <2>2, TaskSays DEF Sent, handleVars, TaskMoves
  <2>4. h \notin Committers \/ Task[h] = "EventsAppended"
    BY <2>2, <2>3 DEF TaskMoves
  <2>5. QED
    BY <2>2, <2>3, <2>4 DEF LoadedInv
<1>5. CASE Quiet
  <2>1. /\ UNCHANGED <<command, snapshots>> /\ Loads
        /\ Committers' = Committers /\ Doing("EventsAppended")' = Doing("EventsAppended")
    BY <1>5 DEF Quiet
  <2>2. Sent(h)
    BY <2>1, AnswersStay DEF Sent
  <2>3. h \notin Committers \/ Task[h] = "EventsAppended"
    BY <2>1 DEF Doing
  <2>4. QED
    BY <2>1, <2>2, <2>3 DEF LoadedInv, Loads
<1>6. QED
  BY <1>0, <1>1, <1>2, <1>3, <1>4, <1>5, KindsOfSteps DEF Kinds


\* A call reaches the runner with nothing found under its key.
LEMMA WhoWaits ==
  ASSUME ControlInv, [Next]_vars, NEW h \in Calls, phase[h] = "idle", phase'[h] # "idle"
  PROVE  stored'[h] = None
<1>1. CASE UNCHANGED vars
  BY <1>1 DEF vars, runnerVars
<1>2. CASE \E g \in Games : CreateGame(g)
  BY <1>2 DEF CreateGame, runnerVars
<1>3. CASE \E c \in Calls, m \in Commands : Handle(c, m)
  BY <1>3 DEF Handle, runnerVars
<1>4. ASSUME NEW c \in Calls, Microtask(c)
      PROVE  stored'[h] = None
  <2>1. CASE StoredReturns(c) \/ ContextReturns(c) \/ StoredLoaded(c) \/ Persisted(c)
    BY <2>1 DEF StoredReturns, ContextReturns, StoredLoaded, Persisted, runnerVars
  <2>2. CASE ContextLoaded(c)
    <3>1. Task[c] = "ContextLoaded" /\ (UNCHANGED phase \/ PhaseMoves(c, "idle", "waiting"))
      BY <2>2, ContextLoadedInOrder DEF TaskMoves
    <3>2. c = h
      BY <3>1 DEF PhaseMoves
    <3>3. stored[h] = None
      BY <3>1, <3>2 DEF ControlInv, CallsInOrder, CallInOrder
    <3>4. QED
      BY <2>2, <3>3 DEF ContextLoaded
  <2>3. CASE BeginTransaction(c)
    BY <2>3, BeginTransactionInOrder DEF PhaseMoves
  <2>4. CASE TransactionThrows(c) \/ TransactionReturns(c)
    BY <2>4, EndInOrder DEF PhaseMoves
  <2>5. CASE SaveRecord(c) \/ AppendEvents(c) \/ SaveSnapshot(c)
    BY <2>5 DEF SaveRecord, AppendEvents, SaveSnapshot, runnerVars
  <2>6. CASE RunnerStep(c)
    BY <2>6, RunnerStepInOrder DEF PhaseMoves
  <2>7. CASE Publish(c)
    BY <2>7, PublishInOrder DEF PhaseMoves
  <2>8. QED
    BY <1>4, <2>1, <2>2, <2>3, <2>4, <2>5, <2>6, <2>7 DEF Microtask, Transaction
<1>5. QED
  BY <1>1, <1>2, <1>3, <1>4 DEF Next

\* A commit is made by a call that has been sent and not answered.
LEMMA NewCommitter ==
  ASSUME ControlInv, OneInside, StoresInv, [Next]_vars,
         NEW d \in Calls, d \in Committers', d \notin Committers
  PROVE  AppendEvents(d) /\ Sent(d) /\ phase[d] # "idle"
<1>1. CASE \E g \in Games : CreateGame(g)
  BY <1>1, CreateGameInOrder DEF CreateGame, Committers, runnerVars, handleVars
<1>2. CASE \E c \in Calls, m \in Commands : Handle(c, m)
  BY <1>2, HandleRests DEF Rests
<1>3. CASE \E c \in Calls : SaveSnapshot(c)
  BY <1>3, SaveSnapshotKeepsStores
<1>4. CASE Quiet
  BY <1>4 DEF Quiet
<1>5. ASSUME NEW c \in Calls, AppendEvents(c)
      PROVE  AppendEvents(d) /\ Sent(d) /\ phase[d] # "idle"
  <2>1. /\ UNCHANGED <<runnerVars, handleVars>> /\ TaskMoves(c, "RecordSaved", "EventsAppended")
    BY <1>5, WritesInOrder DEF AppendEvents, Writes
  <2>2. c = d
    BY <2>1 DEF Committers, TaskMoves, runnerVars, handleVars
  <2>3. Inside(d)
    BY <2>1, <2>2, TaskSays DEF TaskMoves, TransactionNames
  <2>4. QED
    BY <1>5, <2>2, <2>3, InsideIsSent, Soundness
<1>6. QED
  BY <1>1, <1>2, <1>3, <1>4, <1>5, KindsOfSteps DEF Kinds

\* The record of a key tells whether a command with it has been committed.
LEMMA NothingFound ==
  ASSUME ControlInv, LogInv, RecordInv, NEW g \in Games, NEW k \in Keys,
         records[g][k] = None, Recording(g, k) = {}
  PROVE  \A d \in Committers : GameOf[d] = g => Key[command[d]] # k
<1> SUFFICES ASSUME NEW d \in Committers, GameOf[d] = g, Key[command[d]] = k
             PROVE  FALSE
  OBVIOUS
<1>1. Mine(g, k) = <<>>
  <2>1. SUFFICES ASSUME Mine(g, k) # <<>> PROVE FALSE
    OBVIOUS
  <2>2. PICK c \in Committers : c = Last(Mine(g, k))
    BY <2>1, LastOfMine
  <2>3. RecordOf(c) \in RecordsOf
    <3>1. c \in Calls
      BY DEF Committers
    <3>2. QED
      BY <3>1, Soundness, ResultType DEF ControlInv
  <2>4. records[g][k] = RecordOf(c)
    BY <2>1, <2>2 DEF RecordInv
  <2>5. QED
    BY <2>3, <2>4, LackAssumption
<1>2. d \in Calls
  BY DEF Committers
<1>3. PICK S : S = WithKey(k)
  OBVIOUS
<1>4. PICK s \in Seq(Calls) : s = CommittedTo[g]
  BY CommitsType
<1>5. d \in S /\ \E i \in DOMAIN s : s[i] = d
  <2>1. In(s, d)
    BY <1>2, <1>4 DEF LogInv
  <2>2. d \in WithKey(k)
    BY <1>2, Soundness DEF WithKey
  <2>3. QED
    BY <1>3, <2>1, <2>2 DEF In
<1>6. (\E i \in DOMAIN Kept(s, S) : Kept(s, S)[i] = d)
        <=> d \in S /\ \E i \in DOMAIN s : s[i] = d
  BY KeptElements
<1>7. Kept(s, S) = <<>>
  BY <1>1, <1>3, <1>4 DEF Mine
<1>8. QED
  BY <1>5, <1>6, <1>7

LEMMA FreshStays ==
  ASSUME ControlInv, DataInv, OneSent, OneSent', FreshInv, [Next]_vars,
         Fixed, Committers \subseteq Committers'
  PROVE  FreshInv'
<1>0. OneInside /\ StoresInv /\ LogInv /\ RecordInv
  BY DEF DataInv, StoresInv
<1>1. ASSUME NEW h \in Calls
      PROVE  \/ stored'[h] = stored[h]
             \/ command[h] = None /\ \E m \in Commands : Handle(h, m)
  <2>1. CASE \E c \in Calls, m \in Commands : Handle(c, m)
    <3>1. PICK c \in Calls, m \in Commands : Handle(c, m)
      BY <2>1
    <3>2. \/ c = h
          \/ stored'[h] = stored[h]
      BY <3>1 DEF Handle, ControlInv, TypeOK
    <3>3. QED
      BY <3>1, <3>2 DEF Handle
  <2>2. CASE (\E g \in Games : CreateGame(g)) \/ Quiet
    BY <2>2 DEF CreateGame, Quiet, handleVars
  <2>3. CASE \E c \in Calls : SaveSnapshot(c) \/ AppendEvents(c)
    BY <2>3 DEF SaveSnapshot, AppendEvents, handleVars
  <2>4. QED
    BY <1>0, <2>1, <2>2, <2>3, KindsOfSteps DEF Kinds
<1>2. ASSUME NEW h \in Calls, phase'[h] # "idle"
      PROVE  stored'[h] = None
  <2>1. CASE phase[h] = "idle"
    BY <1>2, <2>1, WhoWaits
  <2>2. CASE phase[h] # "idle"
    <3>1. command[h] # None /\ stored[h] = None
      BY <2>2 DEF ControlInv, CallsInOrder, CallInOrder, FreshInv
    <3>2. QED
      BY <1>1, <3>1
  <2>3. QED
    BY <2>1, <2>2
<1>3. ASSUME NEW h \in Calls, Sent(h)', stored'[h] = None, h \notin Committers',
             NEW d \in Calls, d \in Committers', GameOf[d] = GameOf[h],
             Key[command'[d]] = Key[command'[h]]
      PROVE  FALSE
  <2>1. d \in Committers
    <3>1. SUFFICES ASSUME d \notin Committers PROVE FALSE
      OBVIOUS
    <3>2. AppendEvents(d) /\ Sent(d)
      BY <1>0, <1>3, <3>1, NewCommitter
    <3>3. Sent(d)'
      BY <3>2 DEF AppendEvents, Sent, handleVars
    <3>4. QED
      BY <1>3, <3>3 DEF OneSent
  <2>2. command'[d] = command[d] /\ Key[command[d]] \in Keys
    BY <2>1, CommittersFixed, Soundness
  <2>3. CASE Sent(h)
    <3>1. command'[h] = command[h] /\ stored[h] = None
      BY <1>1, <1>3, <2>3 DEF Sent, Fixed
    <3>2. QED
      BY <1>3, <2>1, <2>2, <2>3, <3>1 DEF FreshInv
  <2>4. CASE ~Sent(h)
    <3>1. PICK m \in Commands : Handle(h, m)
      BY <1>3, <2>4, SentByHandle
    <3>2. /\ command[h] = None /\ command'[h] = m /\ answer' = answer
          /\ stored'[h] = IF Key[m] = NoKey THEN None ELSE records[GameOf[h]][Key[m]]
          /\ command' = [command EXCEPT ![h] = m]
      BY <3>1 DEF Handle, ControlInv, TypeOK
    <3>3. Key[m] \in Keys /\ records[GameOf[h]][Key[m]] = None
      BY <1>3, <2>2, <3>2 DEF Keys
    <3>4. Recording(GameOf[h], Key[m]) = {}
      <4>1. SUFFICES ASSUME NEW c \in Calls, GameOf[c] = GameOf[h], Task[c] = "RecordSaved"
                     PROVE  FALSE
        BY DEF Recording, Doing
      <4>2. Sent(c)
        BY <4>1, TaskSays, InsideIsSent DEF TransactionNames
      <4>3. c # h
        BY <3>2, <4>2 DEF Sent
      <4>4. Sent(c)'
        BY <3>2, <4>2, <4>3 DEF Sent, ControlInv, TypeOK
      <4>5. QED
        BY <1>3, <4>1, <4>3, <4>4 DEF OneSent
    <3>5. PICK g \in Games, k \in Keys : g = GameOf[h] /\ k = Key[m]
      BY <3>3, GamesOfCalls
    <3>6. \A e \in Committers : GameOf[e] = g => Key[command[e]] # k
      BY <1>0, <3>3, <3>4, <3>5, NothingFound
    <3>7. QED
      BY <1>3, <2>1, <2>2, <3>2, <3>5, <3>6
  <2>5. QED
    BY <2>3, <2>4
<1>4. QED
  <2>1. Committers' \subseteq Calls
    BY DEF Committers
  <2>2. QED
    BY <1>2, <1>3, <2>1 DEF FreshInv

LEMMA OnceStays ==
  ASSUME ControlInv, DataInv, OneSent, FreshInv, OnceInv, [Next]_vars,
         Fixed, Committers \subseteq Committers'
  PROVE  OnceInv'
<1>0. OneInside /\ StoresInv /\ Committers' \subseteq Calls /\ Committers \subseteq Calls
  BY DEF DataInv, Committers
<1>1. ASSUME NEW h \in Committers', h \notin Committers,
             NEW d \in Committers', GameOf[h] = GameOf[d], Key[command'[h]] = Key[command'[d]]
      PROVE  h = d
  <2>1. AppendEvents(h) /\ Sent(h) /\ phase[h] # "idle"
    BY <1>0, <1>1, NewCommitter
  <2>2. CASE d \in Committers
    <3>1. command' = command
      BY <2>1 DEF AppendEvents, handleVars
    <3>2. stored[h] = None
      BY <1>0, <2>1 DEF FreshInv
    <3>3. QED
      BY <1>0, <1>1, <2>1, <2>2, <3>1, <3>2 DEF FreshInv
  <2>3. CASE d \notin Committers
    BY <1>0, <1>1, <2>1, <2>3, NewCommitter DEF OneSent
  <2>4. QED
    BY <2>2, <2>3
<1>2. ASSUME NEW h \in Committers, NEW d \in Committers,
             GameOf[h] = GameOf[d], Key[command'[h]] = Key[command'[d]]
      PROVE  h = d
  BY <1>2, CommittersFixed DEF OnceInv
<1>3. QED
  BY <1>1, <1>2 DEF OnceInv


LEMMA NumbersRest ==
  ASSUME ControlInv, LogInv, Fixed, NumberInv, UNCHANGED log
  PROVE  NumberInv'
<1>1. CommittedTo' = CommittedTo
  BY SameLog
<1>2. ASSUME NEW g \in Games
      PROVE  /\ \A i \in DOMAIN log'[g] : /\ log'[g][i].version = i + 1
                                          /\ log'[g][i].of = command'[log'[g][i].by]
             /\ LastState(g)'.version = Len(log'[g]) + 1
  <2>1. LastState(g)' = LastState(g)
    BY <1>1, SameLastState
  <2>2. \A i \in DOMAIN log[g] : command'[log[g][i].by] = command[log[g][i].by]
    BY CommittersFixed DEF LogInv
  <2>3. QED
    BY <2>1, <2>2 DEF NumberInv
<1>3. QED
  BY <1>2 DEF NumberInv

\* The events of a call continue the numbers from the state it has loaded.
LEMMA EventsContinue ==
  ASSUME ControlInv, NEW h \in Calls, Sound(h)
  PROVE  \E v \in Nat, n \in {1, 2} :
           /\ v = context[h].version /\ Result(h).version = v + n
           /\ EventsOf(h) = [i \in 1 .. n |-> Event(v + i, h)]
<1>1. context[h] \in StatesOf
  BY DEF Sound, ControlInv, TypeOK
<1>2. PICK v \in Nat : v = context[h].version
  BY <1>1 DEF StatesOf
<1>3. PICK n \in {1, 2} : Result(h).version = v + n
  BY <1>2 DEF Result, NextState
<1>4. Result(h).version - context[h].version = n
  BY <1>2, <1>3
<1>5. QED
  BY <1>2, <1>3, <1>4 DEF EventsOf

LEMMA NumbersContinue ==
  ASSUME ControlInv, DataInv, LoadedInv, NumberInv, NEW h \in Calls, AppendEvents(h)
  PROVE  NumberInv'
<1>0. OneInside /\ LogInv /\ SnapshotInv
  BY DEF DataInv, StoresInv
<1>1. /\ UNCHANGED <<runnerVars, handleVars, snapshots, records, published>>
      /\ log' = [log EXCEPT ![GameOf[h]] = @ \o EventsOf(h)]
      /\ TaskMoves(h, "RecordSaved", "EventsAppended")
  BY WritesInOrder DEF AppendEvents, Writes
<1>2. /\ Fixed /\ \A d \in Calls : command'[d] = command[d] /\ Result(d)' = Result(d)
  BY WritesFix DEF Writes
<1>3. /\ Sound(h) /\ GameOf[h] \in Games
      /\ \A g \in Games :
           CommittedTo'[g] = IF g = GameOf[h] THEN Append(CommittedTo[g], h) ELSE CommittedTo[g]
  BY CommitAdded
<1>4. Task[h] = "RecordSaved" /\ Inside(h) /\ h \notin Committers /\ Sent(h)
  BY <1>1, TaskSays, InsideIsSent DEF TaskMoves, TransactionNames
<1>5. ASSUME NEW g \in Games, g # GameOf[h]
      PROVE  /\ \A i \in DOMAIN log'[g] : /\ log'[g][i].version = i + 1
                                          /\ log'[g][i].of = command'[log'[g][i].by]
             /\ LastState(g)'.version = Len(log'[g]) + 1
  <2>1. log'[g] = log[g]
    BY <1>1, <1>5 DEF ControlInv, TypeOK
  <2>2. LastState(g)' = LastState(g)
    BY <1>0, <1>2, <1>3, <1>5, SameLastState
  <2>3. QED
    BY <1>1, <2>1, <2>2 DEF NumberInv, handleVars
<1>6. ASSUME NEW g \in Games, g = GameOf[h]
      PROVE  /\ \A i \in DOMAIN log'[g] : /\ log'[g][i].version = i + 1
                                          /\ log'[g][i].of = command'[log'[g][i].by]
             /\ LastState(g)'.version = Len(log'[g]) + 1
  <2>1. PICK s \in Seq(EventsType) : s = log[g]
    BY DEF ControlInv, TypeOK, EventsType
  <2>2. PICK v \in Nat, n \in {1, 2} :
          /\ v = context[h].version /\ Result(h).version = v + n
          /\ EventsOf(h) = [i \in 1 .. n |-> Event(v + i, h)]
    BY <1>3, EventsContinue
  <2>3. PICK more \in Seq(EventsType) : more = EventsOf(h)
    BY <1>3, FirstEventKept
  <2>4. v = Len(s) + 1
    <3>1. context[h] = snapshots[g] /\ snapshots[g] # NoState
      BY <1>3, <1>4, <1>6 DEF LoadedInv, Sound, SnapshotInv
    <3>2. \A d \in Doing("EventsAppended") : GameOf[d] # g
      BY <1>0, <1>4, <1>6, InsideAlone DEF Doing
    <3>3. snapshots[g] = LastState(g)
      BY <1>0, <3>1, <3>2 DEF SnapshotInv
    <3>4. LastState(g).version = Len(s) + 1
      BY <2>1 DEF NumberInv
    <3>5. QED
      BY <2>2, <3>1, <3>3, <3>4
  <2>5. log'[g] = s \o more
    BY <1>1, <1>3, <1>6, <2>1, <2>3 DEF ControlInv, TypeOK
  <2>6. PICK t \in Seq(EventsType) : t = s \o more
    <3>1. s \o more \in Seq(EventsType)
      OBVIOUS
    <3>2. QED
      BY <3>1
  <2>7. PICK l \in Nat : l = Len(s) /\ DOMAIN s = 1 .. l
    OBVIOUS
  <2>8. Len(more) = n /\ \A i \in 1 .. n : more[i] = Event(v + i, h)
    BY <2>2, <2>3
  <2>9. /\ DOMAIN t = 1 .. l + n /\ Len(t) = l + n
        /\ \A i \in 1 .. l : t[i] = s[i]
        /\ \A i \in 1 .. n : t[l + i] = more[i]
    BY <2>6, <2>7, <2>8
  <2>10. ASSUME NEW i \in 1 .. l + n
         PROVE  t[i].version = i + 1 /\ t[i].of = command[t[i].by]
    <3>1. CASE i \in 1 .. l
      BY <2>1, <2>7, <2>9, <3>1 DEF NumberInv
    <3>2. CASE i \notin 1 .. l
      <4>1. PICK j \in 1 .. n : i = l + j
        <5>1. i - l \in 1 .. n /\ i = l + (i - l)
          BY <3>2
        <5>2. QED
          BY <5>1
      <4>2. t[i] = Event(v + j, h)
        BY <2>8, <2>9, <4>1
      <4>3. QED
        BY <2>4, <2>7, <4>1, <4>2 DEF Event
    <3>3. QED
      BY <3>1, <3>2
  <2>11. LastState(g)' = Result(h)
    <3>1. PICK commits \in Seq(Calls) : commits = CommittedTo[g]
      BY CommitsType
    <3>2. CommittedTo'[g] = Append(commits, h)
      BY <1>3, <1>6, <3>1
    <3>3. CommittedTo'[g] # <<>> /\ Last(CommittedTo'[g]) = h
      BY <3>2, LastAppended
    <3>4. LastState(g)' = Result(h)'
      BY <3>3 DEF LastState, Result
    <3>5. QED
      BY <1>2, <3>4
  <2>12. LastState(g)'.version = Len(log'[g]) + 1
    BY <2>2, <2>4, <2>5, <2>6, <2>7, <2>9, <2>11
  <2>13. QED
    BY <1>1, <2>5, <2>6, <2>9, <2>10, <2>12 DEF handleVars
<1>7. QED
  BY <1>5, <1>6 DEF NumberInv

LEMMA NumbersStay ==
  ASSUME ControlInv, DataInv, LoadedInv, NumberInv, [Next]_vars, Fixed
  PROVE  NumberInv'
<1>1. OneInside /\ StoresInv /\ LogInv
  BY DEF DataInv, StoresInv
<1>2. CASE \E h \in Calls : AppendEvents(h)
  BY <1>2, NumbersContinue
<1>3. CASE UNCHANGED log
  BY <1>1, <1>3, NumbersRest
<1>4. CASE \E g \in Games : CreateGame(g)
  BY <1>3, <1>4 DEF CreateGame
<1>5. CASE \E h \in Calls, m \in Commands : Handle(h, m)
  BY <1>3, <1>5 DEF Handle, storageVars
<1>6. CASE (\E h \in Calls : SaveSnapshot(h)) \/ Quiet
  BY <1>3, <1>6 DEF SaveSnapshot, Quiet
<1>7. QED
  BY <1>1, <1>2, <1>4, <1>5, <1>6, KindsOfSteps DEF Kinds


LEMMA StepsFix ==
  ASSUME ControlInv, DataInv, [Next]_vars
  PROVE  Fixed /\ Committers \subseteq Committers'
<1>1. CASE Next
  BY <1>1, StoresKept DEF DataInv
<1>2. CASE UNCHANGED vars
  <2>1. UNCHANGED <<microtasks, runnerVars, handleVars>>
    BY <1>2 DEF vars
  <2>2. Own' = Own /\ Task' = Task
    BY <2>1 DEF Task, Resting, Own
  <2>3. QED
    BY <2>1, <2>2 DEF Fixed, Committers, runnerVars, handleVars
<1>3. QED
  BY <1>1, <1>2

LEMMA SequenceStarts ==
  ASSUME Init
  PROVE  SequenceInv
<1>1. /\ Runner!Init /\ command = [h \in Calls |-> None]
      /\ stored = [h \in Calls |-> None]
      /\ context = [h \in Calls |-> NoState]
      /\ log = [g \in Games |-> <<>>]
  BY DEF Init
<1>2. microtasks = <<>> /\ phase = [h \in Calls |-> "idle"]
  BY <1>1 DEF Runner!Init
<1>3. Task = [h \in Calls |-> "none"]
  BY <1>2, KeptEmpty DEF Task, Resting, Own
<1>4. Committers = {}
  BY <1>2, <1>3 DEF Committers
<1>5. ASSUME NEW g \in Games
      PROVE  LastState(g).version = Len(log[g]) + 1
  <2>1. Kept(log[g], FirstEvents) = <<>>
    BY <1>1, KeptEmpty
  <2>2. CommittedTo[g] = <<>>
    BY <1>1, <2>1 DEF CommittedTo, Committed
  <2>3. LastState(g).version = 1 /\ Len(log[g]) = 0
    BY <1>1, <2>2 DEF LastState, NewGame
  <2>4. QED
    BY <2>3
<1>6. QED
  BY <1>1, <1>2, <1>4, <1>5
     DEF SequenceInv, OneSent, Sent, LoadedInv, FreshInv, OnceInv, NumberInv

LEMMA SequenceStays ==
  ASSUME MaxInFlight = 1, ControlInv, DataInv, SequenceInv, [Next]_vars
  PROVE  SequenceInv'
<1>1. OneSent /\ LoadedInv /\ FreshInv /\ OnceInv /\ NumberInv
  BY DEF SequenceInv
<1>2. Fixed /\ Committers \subseteq Committers'
  BY StepsFix
<1>3. OneSent'
  BY <1>1, OneIsSent
<1>4. LoadedInv'
  BY <1>1, <1>2, LoadedStays
<1>5. FreshInv'
  BY <1>1, <1>2, <1>3, FreshStays
<1>6. OnceInv'
  BY <1>1, <1>2, OnceStays
<1>7. NumberInv'
  BY <1>1, <1>2, NumbersStay
<1>8. QED
  BY <1>3, <1>4, <1>5, <1>6, <1>7 DEF SequenceInv

LEMMA SequenceHolds ==
  ASSUME MaxInFlight = 1
  PROVE  Spec => [](ControlInv /\ DataInv /\ SequenceInv)
<1>1. Init => SequenceInv
  BY SequenceStarts
<1>2. ControlInv /\ DataInv /\ SequenceInv /\ [Next]_vars => SequenceInv'
  BY SequenceStays
<1>3. QED
  BY <1>1, <1>2, DataHolds, PTL DEF Spec

\* If the commands of a game are sent one after the other's answer, a key is
\* applied once at most and the events are numbered without a gap.
THEOREM LogIsInOrder ==
  ASSUME MaxInFlight = 1
  PROVE  Spec => []LogInOrder
<1>1. ASSUME ControlInv, DataInv, SequenceInv
      PROVE  LogInOrder
  <2>1. LogInv /\ OnceInv /\ NumberInv
    BY <1>1 DEF DataInv, StoresInv, SequenceInv
  <2>2. ASSUME NEW g \in Games, NEW i \in DOMAIN log[g], NEW j \in DOMAIN log[g],
               Key[log[g][i].of] = Key[log[g][j].of]
        PROVE  log[g][i].by = log[g][j].by
    <3>1. /\ log[g][i].by \in Committers /\ GameOf[log[g][i].by] = g
          /\ log[g][j].by \in Committers /\ GameOf[log[g][j].by] = g
      BY <2>1 DEF LogInv
    <3>2. /\ log[g][i].of = command[log[g][i].by]
          /\ log[g][j].of = command[log[g][j].by]
      BY <2>1 DEF NumberInv
    <3>3. QED
      BY <2>1, <2>2, <3>1, <3>2 DEF OnceInv
  <2>3. EventsNumbered
    BY <2>1 DEF NumberInv, EventsNumbered
  <2>4. QED
    BY <2>2, <2>3 DEF LogInOrder, AppliedOnce
<1>2. ControlInv /\ DataInv /\ SequenceInv => LogInOrder
  BY <1>1
<1>3. QED
  BY <1>2, SequenceHolds, PTL

\* An accepted answer is the state of the call's own commit.
LEMMA AcceptedCommits ==
  ASSUME ControlInv, NEW h \in Calls, answer[h] # None, answer[h].kind = "accepted"
  PROVE  h \in Committers /\ answer[h] = Accepted(h)
<1>1. phase[h] = "returned" /\ answer[h] = AnswerPersisted(h)
  BY DEF ControlInv, CallsInOrder, CallInOrder
<1>2. h \notin failed
  BY <1>1 DEF AnswerPersisted, Rejected
<1>3. QED
  BY <1>1, <1>2 DEF Committers, AnswerPersisted

\* If the commands of a game are sent one after the other's answer, a command
\* that is sent again gets the answer it got, marked as replayed.
THEOREM RetriesAreAnswered ==
  ASSUME MaxInFlight = 1
  PROVE  Spec => []RetriesGetFirstAnswer
<1>1. ASSUME ControlInv, DataInv, SequenceInv
      PROVE  RetriesGetFirstAnswer
  <2> SUFFICES ASSUME NEW h \in Calls, NEW d \in Calls, h # d,
                      GameOf[h] = GameOf[d], command[h] = command[d],
                      answer[h] # None, answer[h].kind = "accepted",
                      answer[d] # None, answer[d].kind # "rejected"
               PROVE  answer[d] = [answer[h] EXCEPT !.kind = "replayed"]
    BY DEF RetriesGetFirstAnswer
  <2>1. ReplayInv /\ OnceInv
    BY <1>1 DEF DataInv, SequenceInv
  <2>2. h \in Committers /\ answer[h] = Accepted(h)
    BY <1>1, AcceptedCommits
  <2>3. answer[d] \in [kind : {"accepted", "replayed"}, state : StatesOf]
    <3>1. answer[d] \in AnswersOf
      BY <1>1 DEF ControlInv, TypeOK
    <3>2. QED
      BY <3>1 DEF AnswersOf
  <2>4. answer[d].kind # "accepted"
    BY <1>1, <2>1, <2>2, AcceptedCommits DEF OnceInv
  <2>5. answer[d].kind = "replayed"
    BY <2>3, <2>4
  <2>6. PICK e \in Committers : /\ GameOf[e] = GameOf[d] /\ command[e] = command[d]
                                /\ answer[d].state = Result(e)
    BY <2>1, <2>5 DEF ReplayInv
  <2>7. e = h
    BY <2>1, <2>2, <2>6 DEF OnceInv
  <2>8. answer[d] = [kind |-> "replayed", state |-> Result(h)]
    BY <2>3, <2>5, <2>6, <2>7
  <2>9. QED
    BY <2>2, <2>8 DEF Accepted
<1>2. ControlInv /\ DataInv /\ SequenceInv => RetriesGetFirstAnswer
  BY <1>1
<1>3. QED
  BY <1>2, SequenceHolds, PTL

LEMMA AppendedIsLonger ==
  ASSUME NEW V, NEW s \in Seq(V), NEW e \in V
  PROVE  IsPrefix(s, Append(s, e))
<1>1. PICK t \in Seq(V) : t = Append(s, e)
  <2>1. Append(s, e) \in Seq(V)
    OBVIOUS
  <2>2. QED
    BY <2>1
<1>2. Len(t) = Len(s) + 1 /\ \A i \in 1 .. Len(s) : t[i] = s[i]
  BY <1>1
<1>3. SubSeq(s, 1, Len(s)) = SubSeq(t, 1, Len(s))
  <2>1. /\ SubSeq(s, 1, Len(s)) = [i \in 1 .. Len(s) |-> s[i]]
        /\ SubSeq(t, 1, Len(s)) = [i \in 1 .. Len(s) |-> t[i]]
    BY <1>2
  <2>2. QED
    BY <1>2, <2>1
<1>4. QED
  BY <1>1, <1>2, <1>3 DEF IsPrefix

\* If the commands of a game are sent one after the other's answer, no step
\* takes a move out of a stored game.
THEOREM UpdatesAreKept ==
  ASSUME MaxInFlight = 1
  PROVE  Spec => NoUpdateLost
<1>1. ASSUME ControlInv, DataInv, SequenceInv, [Next]_vars,
             NEW g \in Games, snapshots[g] # NoState
      PROVE  IsPrefix(snapshots[g].moves, snapshots'[g].moves)
  <2>0. OneInside /\ StoresInv /\ LoadedInv
    BY <1>1 DEF DataInv, SequenceInv
  <2>1. PICK moves \in Seq(Commands) : moves = snapshots[g].moves
    BY <1>1 DEF ControlInv, TypeOK, StatesOf
  <2>2. CASE snapshots'[g] = snapshots[g]
    BY <2>1, <2>2 DEF IsPrefix
  <2>3. CASE \E f \in Games : CreateGame(f)
    BY <1>1, <2>2, <2>3 DEF CreateGame, ControlInv, TypeOK
  <2>4. CASE \E h \in Calls, m \in Commands : Handle(h, m)
    BY <2>2, <2>4 DEF Handle, storageVars
  <2>5. CASE (\E h \in Calls : AppendEvents(h)) \/ Quiet
    BY <2>2, <2>5 DEF AppendEvents, Quiet
  <2>6. ASSUME NEW h \in Calls, SaveSnapshot(h)
        PROVE  IsPrefix(snapshots[g].moves, snapshots'[g].moves)
    <3>1. /\ snapshots' = [snapshots EXCEPT ![GameOf[h]] = Result(h)]
          /\ Task[h] = "EventsAppended"
      BY <1>1, <2>6, WritesInOrder DEF SaveSnapshot, SavedSnapshot, Writes, TaskMoves
    <3>2. CASE GameOf[h] # g
      BY <1>1, <2>2, <3>1, <3>2 DEF ControlInv, TypeOK
    <3>3. CASE GameOf[h] = g
      <4>1. Sent(h) /\ context[h] # NoState /\ command[h] \in Commands
        BY <1>1, <3>1, TaskSays, InsideIsSent, Soundness DEF TransactionNames
      <4>2. context[h] = snapshots[g]
        BY <2>0, <3>1, <3>3, <4>1 DEF LoadedInv
      <4>3. snapshots'[g] = Result(h)
        BY <1>1, <3>1, <3>3 DEF ControlInv, TypeOK
      <4>4. snapshots'[g].moves = Append(moves, command[h])
        BY <2>1, <4>2, <4>3 DEF Result, NextState
      <4>5. QED
        BY <2>1, <4>1, <4>4, AppendedIsLonger
    <3>4. QED
      BY <3>2, <3>3
  <2>7. QED
    BY <1>1, <2>0, <2>3, <2>4, <2>5, <2>6, KindsOfSteps DEF Kinds
<1>2. ControlInv /\ DataInv /\ SequenceInv /\ [Next]_vars =>
        [\A g \in Games : snapshots[g] # NoState =>
           IsPrefix(snapshots[g].moves, snapshots'[g].moves)]_vars
  BY <1>1
<1>3. QED
  BY <1>2, SequenceHolds, PTL DEF NoUpdateLost, Spec
=============================================================================
