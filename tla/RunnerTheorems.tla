--------------------------- MODULE RunnerTheorems ---------------------------
(***************************************************************************)
(* The promise chains of the transaction runner admit the operations of a  *)
(* game one at a time and in order, for any number of calls and games and  *)
(* however their microtasks interleave.                                    *)
(***************************************************************************)
EXTENDS TransactionRunner, SubsequenceTheorems

-----------------------------------------------------------------------------
(* Queues of jobs.                                                         *)

InQueue(q, j) == \E i \in DOMAIN q : q[i] = j
Once(q) == \A i, j \in DOMAIN q : q[i] = q[j] => i = j

JobsOf == [do : Jobs, of : Calls]

\* The job at the head is run and the jobs in more are queued behind the rest.
LEMMA QueueAfterJob ==
  ASSUME NEW S, NEW q \in Seq(S), q # <<>>, NEW more \in Seq(S), Once(q), Once(more),
         \A i \in DOMAIN more : ~InQueue(q, more[i])
  PROVE  /\ Once(Tail(q) \o more)
         /\ \A j : InQueue(Tail(q) \o more, j) =>
                     (InQueue(q, j) /\ j # Head(q)) \/ InQueue(more, j)
<1> DEFINE n == Len(q)
           r == Tail(q) \o more
<1>1. n \in Nat \ {0} /\ Len(more) \in Nat /\ Len(r) = n - 1 + Len(more)
  OBVIOUS
<1>2. DOMAIN q = 1 .. n /\ DOMAIN more = 1 .. Len(more) /\ DOMAIN r = 1 .. n - 1 + Len(more)
  BY <1>1
<1>3. \A i \in DOMAIN r : r[i] = IF i < n THEN q[i + 1] ELSE more[i - (n - 1)]
  BY <1>1
<1>4. Head(q) = q[1]
  OBVIOUS
<1> HIDE DEF n, r
<1>5. Once(r)
  <2> SUFFICES ASSUME NEW i \in DOMAIN r, NEW j \in DOMAIN r, r[i] = r[j], i < j
               PROVE  FALSE
    BY <1>1, <1>2 DEF Once
  <2>1. CASE j < n
    BY <1>1, <1>2, <1>3, <2>1 DEF Once
  <2>2. CASE i < n /\ j >= n
    <3>1. i + 1 \in DOMAIN q /\ j - (n - 1) \in DOMAIN more
      BY <1>1, <1>2, <2>2
    <3>2. q[i + 1] = more[j - (n - 1)]
      BY <1>1, <1>2, <1>3, <2>2
    <3>3. QED
      BY <3>1, <3>2 DEF InQueue
  <2>3. CASE i >= n
    <3>1. /\ i - (n - 1) \in DOMAIN more /\ j - (n - 1) \in DOMAIN more
          /\ i - (n - 1) # j - (n - 1)
      BY <1>1, <1>2, <2>3
    <3>2. more[i - (n - 1)] = more[j - (n - 1)]
      BY <1>1, <1>2, <1>3, <2>3
    <3>3. QED
      BY <3>1, <3>2 DEF Once
  <2>4. QED
    BY <1>1, <1>2, <2>1, <2>2, <2>3
<1>6. ASSUME NEW j, InQueue(r, j)
      PROVE  (InQueue(q, j) /\ j # Head(q)) \/ InQueue(more, j)
  <2>1. PICK i \in DOMAIN r : r[i] = j
    BY <1>6 DEF InQueue
  <2>2. CASE i < n
    <3>1. i + 1 \in DOMAIN q /\ 1 \in DOMAIN q /\ i + 1 # 1 /\ q[i + 1] = j
      BY <1>1, <1>2, <1>3, <2>1, <2>2
    <3>2. QED
      BY <1>4, <3>1 DEF InQueue, Once
  <2>3. CASE i >= n
    <3>1. i - (n - 1) \in DOMAIN more /\ more[i - (n - 1)] = j
      BY <1>1, <1>2, <1>3, <2>1, <2>3
    <3>2. QED
      BY <3>1 DEF InQueue
  <2>4. QED
    BY <1>1, <1>2, <2>2, <2>3
<1>7. QED
  BY <1>5, <1>6 DEF r

\* Jobs are queued by code that runs between two microtasks.
LEMMA QueueAfterCall ==
  ASSUME NEW S, NEW q \in Seq(S), NEW more \in Seq(S), Once(q), Once(more),
         \A i \in DOMAIN more : ~InQueue(q, more[i])
  PROVE  /\ Once(q \o more)
         /\ \A j : InQueue(q \o more, j) => InQueue(q, j) \/ InQueue(more, j)
<1> DEFINE n == Len(q)
           r == q \o more
<1>1. n \in Nat /\ Len(more) \in Nat /\ Len(r) = n + Len(more)
  OBVIOUS
<1>2. DOMAIN q = 1 .. n /\ DOMAIN more = 1 .. Len(more) /\ DOMAIN r = 1 .. n + Len(more)
  BY <1>1
<1>3. \A i \in DOMAIN r : r[i] = IF i <= n THEN q[i] ELSE more[i - n]
  BY <1>1
<1> HIDE DEF n, r
<1>4. Once(r)
  <2> SUFFICES ASSUME NEW i \in DOMAIN r, NEW j \in DOMAIN r, r[i] = r[j], i < j
               PROVE  FALSE
    BY <1>1, <1>2 DEF Once
  <2>1. CASE j <= n
    BY <1>1, <1>2, <1>3, <2>1 DEF Once
  <2>2. CASE i <= n /\ j > n
    <3>1. i \in DOMAIN q /\ j - n \in DOMAIN more /\ q[i] = more[j - n]
      BY <1>1, <1>2, <1>3, <2>2
    <3>2. QED
      BY <3>1 DEF InQueue
  <2>3. CASE i > n
    <3>1. i - n \in DOMAIN more /\ j - n \in DOMAIN more /\ i - n # j - n
      BY <1>1, <1>2, <2>3
    <3>2. more[i - n] = more[j - n]
      BY <1>1, <1>2, <1>3, <2>3
    <3>3. QED
      BY <3>1, <3>2 DEF Once
  <2>4. QED
    BY <1>1, <1>2, <2>1, <2>2, <2>3
<1>5. ASSUME NEW j, InQueue(r, j)
      PROVE  InQueue(q, j) \/ InQueue(more, j)
  <2>1. PICK i \in DOMAIN r : r[i] = j
    BY <1>5 DEF InQueue
  <2>2. CASE i <= n
    BY <1>1, <1>2, <1>3, <2>1, <2>2 DEF InQueue
  <2>3. CASE i > n
    <3>1. i - n \in DOMAIN more /\ more[i - n] = j
      BY <1>1, <1>2, <1>3, <2>1, <2>3
    <3>2. QED
      BY <3>1 DEF InQueue
  <2>4. QED
    BY <1>1, <1>2, <2>2, <2>3
<1>6. QED
  BY <1>4, <1>5 DEF r

-----------------------------------------------------------------------------
(* A call and its promises.                                                *)

Pending(do, c) == InQueue(microtasks, Job(do, c))

\* Where call c is: in run itself (phase), and with its queued promise.
CallInOrder(c) ==
  /\ c \in released <=> phase[c] \in {"finished", "returned"}
  /\ queued[c] = "none" <=> phase[c] = "idle"
  /\ queued[c] = "resolved" => c \in released
  /\ ~Settled(previous[c]) => phase[c] = "waiting" /\ queued[c] = "pending"
  /\ Pending("FollowCurrent", c) =>
       queued[c] = "pending" /\ Settled(previous[c]) /\ ~Pending("Subscribe", c)
  /\ Pending("Subscribe", c) => queued[c] = "pending" /\ Settled(previous[c])
  /\ Pending("Settle", c) => queued[c] = "following" /\ c \in released
  /\ Pending("Begin", c) => phase[c] = "waiting" /\ Settled(previous[c])
  /\ Pending("Finish", c) => phase[c] = "ending"
  /\ Pending("Return", c) => phase[c] = "finished"

CallsInOrder == Once(microtasks) /\ \A c \in Calls : CallInOrder(c)

\* The queue after a job, or after a call between two jobs.
JobRun(do, c, more) ==
  /\ ~InQueue(microtasks', Job(do, c)) \/ InQueue(more, Job(do, c))
  /\ \A j : InQueue(microtasks', j) => InQueue(microtasks, j) \/ InQueue(more, j)

LEMMA AfterJob ==
  ASSUME TypeOK, Once(microtasks), NEW do, NEW c \in Calls, NEW more \in Seq(JobsOf),
         Runs(do, c), Once(more), microtasks' = Tail(microtasks) \o more,
         \A i \in DOMAIN more : ~InQueue(microtasks, more[i])
  PROVE  /\ Once(microtasks') /\ JobRun(do, c, more)
         /\ microtasks' \in Seq(JobsOf)
<1>1. microtasks \in Seq(JobsOf) /\ microtasks # <<>> /\ Head(microtasks) = Job(do, c)
  BY DEF TypeOK, JobsOf, Runs
<1>2. /\ Once(Tail(microtasks) \o more)
      /\ \A j : InQueue(Tail(microtasks) \o more, j) =>
                  (InQueue(microtasks, j) /\ j # Head(microtasks)) \/ InQueue(more, j)
  BY <1>1, QueueAfterJob
<1>3. QED
  BY <1>1, <1>2 DEF JobRun

LEMMA JobEquality ==
  \A x, y, c, d : Job(x, c) = Job(y, d) <=> x = y /\ c = d
BY DEF Job

LEMMA NoJob ==
  <<>> \in Seq(JobsOf) /\ Once(<<>>) /\ \A j : ~InQueue(<<>>, j)
BY DEF InQueue, Once

LEMMA OneJob ==
  ASSUME NEW c \in Calls, NEW x \in Jobs
  PROVE  /\ <<Job(x, c)>> \in Seq(JobsOf) /\ Once(<<Job(x, c)>>)
         /\ \A j : InQueue(<<Job(x, c)>>, j) <=> j = Job(x, c)
<1>1. Job(x, c) \in JobsOf
  BY DEF Job, JobsOf
<1>2. QED
  BY <1>1 DEF InQueue, Once

LEMMA TwoJobs ==
  ASSUME NEW c \in Calls, NEW x \in Jobs, NEW y \in Jobs, x # y
  PROVE  /\ <<Job(x, c), Job(y, c)>> \in Seq(JobsOf) /\ Once(<<Job(x, c), Job(y, c)>>)
         /\ \A j : InQueue(<<Job(x, c), Job(y, c)>>, j) <=> j = Job(x, c) \/ j = Job(y, c)
<1>1. Job(x, c) \in JobsOf /\ Job(y, c) \in JobsOf /\ Job(x, c) # Job(y, c)
  BY DEF Job, JobsOf
<1>2. QED
  BY <1>1 DEF InQueue, Once

LEMMA RunsIsPending ==
  ASSUME TypeOK, NEW do, NEW c, Runs(do, c)
  PROVE  Pending(do, c)
<1>1. microtasks # <<>> /\ microtasks \in Seq(JobsOf) /\ Head(microtasks) = Job(do, c)
  BY DEF TypeOK, JobsOf, Runs
<1>2. 1 \in DOMAIN microtasks /\ microtasks[1] = Job(do, c)
  BY <1>1
<1>3. QED
  BY <1>2 DEF Pending, InQueue

\* The queue after a job that queues nothing, one job or two jobs.
LEMMA AfterLastJob ==
  ASSUME TypeOK, Once(microtasks), NEW do \in Jobs, NEW c \in Calls, Runs(do, c),
         microtasks' = Tail(microtasks)
  PROVE  /\ Once(microtasks') /\ microtasks' \in Seq(JobsOf)
         /\ \A x \in Jobs, d \in Calls :
              Pending(x, d)' => Pending(x, d) /\ ~(x = do /\ d = c)
<1>1. Tail(microtasks) \o <<>> = Tail(microtasks)
  BY DEF TypeOK, Runs
<1>2. /\ Once(microtasks') /\ JobRun(do, c, <<>>) /\ microtasks' \in Seq(JobsOf)
  <2>1. \A i \in DOMAIN <<>> : ~InQueue(microtasks, <<>>[i])
    OBVIOUS
  <2>2. QED
    BY <1>1, <2>1, AfterJob, NoJob
<1>3. QED
  BY <1>2, JobEquality, NoJob DEF JobRun, Pending

LEMMA AfterOneJob ==
  ASSUME TypeOK, Once(microtasks), NEW do \in Jobs, NEW c \in Calls, Runs(do, c),
         NEW next \in Jobs, next # do, ~Pending(next, c),
         microtasks' = Append(Tail(microtasks), Job(next, c))
  PROVE  /\ Once(microtasks') /\ microtasks' \in Seq(JobsOf)
         /\ \A x \in Jobs, d \in Calls :
              Pending(x, d)' => \/ Pending(x, d) /\ ~(x = do /\ d = c)
                                \/ x = next /\ d = c
<1>1. microtasks' = Tail(microtasks) \o <<Job(next, c)>>
  BY DEF TypeOK, Runs
<1>2. \A i \in DOMAIN <<Job(next, c)>> : ~InQueue(microtasks, <<Job(next, c)>>[i])
  BY DEF Pending
<1>3. /\ Once(microtasks') /\ JobRun(do, c, <<Job(next, c)>>) /\ microtasks' \in Seq(JobsOf)
  BY <1>1, <1>2, AfterJob, OneJob
<1>4. QED
  BY <1>3, JobEquality, OneJob DEF JobRun, Pending

LEMMA AfterTwoJobs ==
  ASSUME TypeOK, Once(microtasks), NEW do \in Jobs, NEW c \in Calls, Runs(do, c),
         NEW e \in Calls, NEW first \in Jobs, NEW second \in Jobs, first # second,
         ~Pending(first, e), ~Pending(second, e), first # do \/ e # c, second # do \/ e # c,
         microtasks' = Tail(microtasks) \o <<Job(first, e), Job(second, e)>>
  PROVE  /\ Once(microtasks') /\ microtasks' \in Seq(JobsOf)
         /\ \A x \in Jobs, d \in Calls :
              Pending(x, d)' => \/ Pending(x, d) /\ ~(x = do /\ d = c)
                                \/ x \in {first, second} /\ d = e
<1> DEFINE more == <<Job(first, e), Job(second, e)>>
<1>1. \A i \in DOMAIN more : ~InQueue(microtasks, more[i])
  BY DEF Pending
<1>2. /\ more \in Seq(JobsOf) /\ Once(more)
      /\ \A j : InQueue(more, j) <=> j = Job(first, e) \/ j = Job(second, e)
  BY TwoJobs
<1>3. /\ Once(microtasks') /\ JobRun(do, c, more) /\ microtasks' \in Seq(JobsOf)
  BY <1>1, <1>2, AfterJob
<1> HIDE DEF more
<1>4. ~InQueue(microtasks', Job(do, c))
  BY <1>2, <1>3, JobEquality DEF JobRun
<1>5. ASSUME NEW x \in Jobs, NEW d \in Calls, InQueue(microtasks', Job(x, d))
      PROVE  \/ InQueue(microtasks, Job(x, d)) /\ ~(x = do /\ d = c)
             \/ x \in {first, second} /\ d = e
  <2>1. InQueue(microtasks, Job(x, d)) \/ InQueue(more, Job(x, d))
    BY <1>3, <1>5 DEF JobRun
  <2>2. ~(x = do /\ d = c)
    BY <1>4, <1>5
  <2>3. QED
    BY <1>2, <2>1, <2>2, JobEquality
<1>6. QED
  BY <1>3, <1>5 DEF Pending

LEMMA AfterReactions ==
  ASSUME TypeOK, Once(microtasks), NEW c \in Calls,
         ~Pending("FollowCurrent", c), ~Pending("Begin", c),
         microtasks' = microtasks \o ReactionsOf(c)
  PROVE  /\ Once(microtasks') /\ microtasks' \in Seq(JobsOf)
         /\ \A x \in Jobs, d \in Calls :
              Pending(x, d)' => \/ Pending(x, d)
                                \/ x \in {"FollowCurrent", "Begin"} /\ d = c
<1> DEFINE more == ReactionsOf(c)
<1>1. \A i \in DOMAIN more : ~InQueue(microtasks, more[i])
  BY DEF Pending, ReactionsOf
<1>2. /\ more \in Seq(JobsOf) /\ Once(more)
      /\ \A j : InQueue(more, j) <=> j = Job("FollowCurrent", c) \/ j = Job("Begin", c)
  BY TwoJobs DEF ReactionsOf, Jobs
<1>3. microtasks \in Seq(JobsOf)
  BY DEF TypeOK, JobsOf
<1> HIDE DEF more
<1>4. /\ Once(microtasks \o more)
      /\ \A j : InQueue(microtasks \o more, j) => InQueue(microtasks, j) \/ InQueue(more, j)
  BY <1>1, <1>2, <1>3, QueueAfterCall
<1>5. microtasks' = microtasks \o more
  BY DEF more
<1>6. microtasks' \in Seq(JobsOf)
  BY <1>2, <1>3, <1>5
<1>7. ASSUME NEW x \in Jobs, NEW d \in Calls, InQueue(microtasks', Job(x, d))
      PROVE  \/ InQueue(microtasks, Job(x, d))
             \/ x \in {"FollowCurrent", "Begin"} /\ d = c
  <2>1. InQueue(microtasks, Job(x, d)) \/ InQueue(more, Job(x, d))
    BY <1>4, <1>5, <1>7
  <2>2. CASE Job(x, d) = Job("FollowCurrent", c)
    BY <2>2 DEF Job
  <2>3. CASE Job(x, d) = Job("Begin", c)
    BY <2>3 DEF Job
  <2>4. QED
    BY <1>2, <2>1, <2>2, <2>3
<1>8. QED
  BY <1>4, <1>5, <1>6, <1>7 DEF Pending

\* What TypeOK says besides the queue.
StateTypes ==
  /\ arrivals \in Seq(Calls)
  /\ phase \in [Calls -> {"idle", "waiting", "operating", "ending", "finished", "returned"}]
  /\ locks \in [Games -> Calls \cup {NoCall}]
  /\ previous \in [Calls -> Calls \cup {NoCall}]
  /\ released \subseteq Calls
  /\ queued \in [Calls -> {"none", "pending", "following", "resolved"}]

LEMMA CallRunInOrder ==
  ASSUME TypeOK, CallsInOrder, NEW c \in Calls, Call(c)
  PROVE  TypeOK' /\ CallsInOrder'
<1>1. /\ phase[c] = "idle" /\ queued[c] = "none" /\ c \notin released
      /\ PreviousOf(c) \in Calls \cup {NoCall} /\ GameOf[c] \in Games
      /\ ~Pending("FollowCurrent", c) /\ ~Pending("Begin", c)
      /\ \A d \in Calls : CallInOrder(d)
  BY RunnerAssumption DEF Call, CallRun, PreviousOf, CallsInOrder, CallInOrder, TypeOK
<1>2. /\ Once(microtasks') /\ microtasks' \in Seq(JobsOf)
      /\ \A x \in Jobs, d \in Calls :
           Pending(x, d)' => \/ Pending(x, d)
                             \/ x \in {"FollowCurrent", "Begin"} /\ d = c /\ Settled(PreviousOf(c))
  <2>1. CASE Settled(PreviousOf(c))
    BY <1>1, <2>1, AfterReactions DEF Call, CallRun, CallsInOrder
  <2>2. CASE ~Settled(PreviousOf(c))
    <3>1. microtasks' = microtasks
      BY <2>2 DEF Call, CallRun
    <3>2. QED
      BY <3>1 DEF CallsInOrder, TypeOK, JobsOf, Pending
  <2>3. QED
    BY <2>1, <2>2
<1>3. /\ phase' = [phase EXCEPT ![c] = "waiting"]
      /\ previous' = [previous EXCEPT ![c] = PreviousOf(c)]
      /\ queued' = [queued EXCEPT ![c] = "pending"]
      /\ released' = released
  BY DEF Call, CallRun
<1>4. StateTypes'
  <2>1. locks' \in [Games -> Calls \cup {NoCall}] /\ arrivals' \in Seq(Calls)
    BY <1>1 DEF Call, CallRun, TypeOK
  <2>2. QED
    BY <1>1, <1>3, <2>1 DEF StateTypes, TypeOK
<1>5. \A p \in Calls \cup {NoCall} : Settled(p) => p = NoCall \/ queued'[p] = "resolved"
  BY <1>1, <1>3 DEF Settled, TypeOK
<1>6. ASSUME NEW d \in Calls
      PROVE  CallInOrder(d)'
  <2>1. CASE d # c
    <3>1. /\ phase'[d] = phase[d] /\ previous'[d] = previous[d] /\ queued'[d] = queued[d]
          /\ previous[d] \in Calls \cup {NoCall}
      BY <1>3, <2>1 DEF TypeOK
    <3>2. Settled(previous[d]) => Settled(previous[d])'
      BY <1>5, <3>1 DEF Settled
    <3>3. \A x \in Jobs : Pending(x, d)' => Pending(x, d)
      BY <1>2, <2>1
    <3>4. QED
      BY <1>1, <1>3, <3>1, <3>2, <3>3 DEF CallInOrder, Jobs
  <2>2. CASE d = c
    <3>1. phase'[c] = "waiting" /\ previous'[c] = PreviousOf(c) /\ queued'[c] = "pending"
      BY <1>3 DEF TypeOK
    <3>2. Settled(PreviousOf(c)) => Settled(previous[c])'
      BY <1>1, <1>5, <3>1 DEF Settled
    <3>3. \A x \in Jobs : ~Pending(x, c)
      BY <1>1 DEF CallInOrder, Jobs
    <3>4. QED
      BY <1>1, <1>2, <1>3, <2>2, <3>1, <3>2, <3>3 DEF CallInOrder, Jobs
  <2>3. QED
    BY <2>1, <2>2
<1>7. TypeOK'
  BY <1>2, <1>4 DEF TypeOK, StateTypes, JobsOf
<1>8. QED
  BY <1>2, <1>6, <1>7 DEF CallsInOrder

\* Once the queue is known, the rest of a step is about one call.
LEMMA FollowCurrentInOrder ==
  ASSUME TypeOK, CallsInOrder, NEW c \in Calls, FollowCurrent(c)
  PROVE  TypeOK' /\ CallsInOrder'
<1>1. /\ Pending("FollowCurrent", c) /\ ~Pending("Subscribe", c)
      /\ queued[c] = "pending" /\ Settled(previous[c])
  BY RunsIsPending DEF FollowCurrent, CallsInOrder, CallInOrder
<1>2. /\ Once(microtasks') /\ microtasks' \in Seq(JobsOf)
      /\ \A x \in Jobs, d \in Calls :
           Pending(x, d)' => \/ Pending(x, d) /\ ~(x = "FollowCurrent" /\ d = c)
                             \/ x = "Subscribe" /\ d = c
  BY <1>1, AfterOneJob DEF FollowCurrent, CallsInOrder, Jobs
<1>3. UNCHANGED runnerVars
  BY DEF FollowCurrent
<1>4. TypeOK'
  BY <1>2, <1>3 DEF TypeOK, JobsOf, runnerVars
<1>5. ASSUME NEW d \in Calls
      PROVE  CallInOrder(d)'
  <2>1. CallInOrder(d) /\ Settled(previous[d])' = Settled(previous[d])
    BY <1>3 DEF CallsInOrder, runnerVars, Settled
  <2>2. QED
    BY <1>1, <1>2, <1>3, <2>1 DEF CallInOrder, runnerVars, Jobs
<1>6. QED
  BY <1>2, <1>4, <1>5 DEF CallsInOrder

LEMMA SubscribeInOrder ==
  ASSUME TypeOK, CallsInOrder, NEW c \in Calls, Subscribe(c)
  PROVE  TypeOK' /\ CallsInOrder'
<1>1. /\ Pending("Subscribe", c) /\ ~Pending("FollowCurrent", c) /\ ~Pending("Settle", c)
      /\ queued[c] = "pending" /\ Settled(previous[c])
  BY RunsIsPending DEF Subscribe, CallsInOrder, CallInOrder
<1>2. /\ Once(microtasks') /\ microtasks' \in Seq(JobsOf)
      /\ \A x \in Jobs, d \in Calls :
           Pending(x, d)' => \/ Pending(x, d) /\ ~(x = "Subscribe" /\ d = c)
                             \/ x = "Settle" /\ d = c /\ c \in released
  <2>1. CASE c \in released
    BY <1>1, <2>1, AfterOneJob DEF Subscribe, CallsInOrder, Jobs
  <2>2. CASE c \notin released
    BY <1>1, <2>2, AfterLastJob DEF Subscribe, CallsInOrder, Jobs
  <2>3. QED
    BY <2>1, <2>2
<1>3. /\ queued' = [queued EXCEPT ![c] = "following"]
      /\ UNCHANGED <<arrivals, phase, locks, previous, released>>
  BY DEF Subscribe
<1>4. TypeOK'
  BY <1>2, <1>3 DEF TypeOK, JobsOf
<1>5. ASSUME NEW d \in Calls
      PROVE  CallInOrder(d)'
  <2>1. CallInOrder(d) /\ Settled(previous[d])' = Settled(previous[d])
    BY <1>1, <1>3 DEF CallsInOrder, Settled, TypeOK
  <2>2. queued'[d] = IF d = c THEN "following" ELSE queued[d]
    BY <1>3 DEF TypeOK
  <2>3. CASE d = c
    BY <1>1, <1>2, <1>3, <2>1, <2>2, <2>3 DEF CallInOrder, Jobs
  <2>4. CASE d # c
    BY <1>2, <1>3, <2>1, <2>2, <2>4 DEF CallInOrder, Jobs
  <2>5. QED
    BY <2>3, <2>4
<1>6. QED
  BY <1>2, <1>4, <1>5 DEF CallsInOrder

LEMMA SettleInOrder ==
  ASSUME TypeOK, CallsInOrder, NEW c \in Calls, Settle(c)
  PROVE  TypeOK' /\ CallsInOrder'
<1>1. Pending("Settle", c) /\ queued[c] = "following" /\ c \in released
  BY RunsIsPending DEF Settle, CallsInOrder, CallInOrder
<1>2. \A d \in Calls : previous[d] = c => ~Settled(previous[d])
  BY <1>1, RunnerAssumption DEF Settled
<1>3. \A d \in Calls : previous[d] = c =>
        /\ phase[d] = "waiting" /\ queued[d] = "pending" /\ d # c
        /\ ~Pending("FollowCurrent", d) /\ ~Pending("Subscribe", d) /\ ~Pending("Begin", d)
  BY <1>1, <1>2 DEF CallsInOrder, CallInOrder
<1>4. /\ Once(microtasks') /\ microtasks' \in Seq(JobsOf)
      /\ \A x \in Jobs, d \in Calls :
           Pending(x, d)' => \/ Pending(x, d) /\ ~(x = "Settle" /\ d = c)
                             \/ x \in {"FollowCurrent", "Begin"} /\ previous[d] = c
  <2>1. CASE microtasks' = Tail(microtasks)
    BY <2>1, AfterLastJob DEF Settle, CallsInOrder, Jobs
  <2>2. ASSUME NEW e \in Calls, previous[e] = c,
               microtasks' = Tail(microtasks) \o ReactionsOf(e)
        PROVE  /\ Once(microtasks') /\ microtasks' \in Seq(JobsOf)
               /\ \A x \in Jobs, d \in Calls :
                    Pending(x, d)' => \/ Pending(x, d) /\ ~(x = "Settle" /\ d = c)
                                      \/ x \in {"FollowCurrent", "Begin"} /\ d = e
    <3>1. /\ Runs("Settle", c) /\ Once(microtasks)
          /\ ~Pending("FollowCurrent", e) /\ ~Pending("Begin", e)
          /\ microtasks' = Tail(microtasks) \o <<Job("FollowCurrent", e), Job("Begin", e)>>
      BY <1>3, <2>2 DEF Settle, CallsInOrder, Jobs, ReactionsOf
    <3>2. "Settle" \in Jobs /\ "FollowCurrent" \in Jobs /\ "Begin" \in Jobs
      BY DEF Jobs
    <3>3. "FollowCurrent" # "Begin" /\ "FollowCurrent" # "Settle" /\ "Begin" # "Settle"
      OBVIOUS
    <3>4. \A x \in Jobs, d \in Calls :
            Pending(x, d)' => \/ Pending(x, d) /\ ~(x = "Settle" /\ d = c)
                              \/ x \in {"FollowCurrent", "Begin"} /\ d = e
      BY <3>1, <3>2, <3>3, AfterTwoJobs
    <3>5. Once(microtasks') /\ microtasks' \in Seq(JobsOf)
      BY <3>1, <3>2, <3>3, AfterTwoJobs
    <3>6. QED
      BY <3>4, <3>5
  <2>3. QED
    BY <2>1, <2>2 DEF Settle
<1>5. /\ queued' = [queued EXCEPT ![c] = "resolved"]
      /\ UNCHANGED <<arrivals, phase, locks, previous, released>>
  BY DEF Settle
<1>6. TypeOK'
  BY <1>4, <1>5 DEF TypeOK, JobsOf
<1>7. ASSUME NEW d \in Calls
      PROVE  CallInOrder(d)'
  <2>1. CallInOrder(d)
    BY DEF CallsInOrder
  <2>2. Settled(previous[d])' <=> Settled(previous[d]) \/ previous[d] = c
    BY <1>5, RunnerAssumption DEF Settled, TypeOK
  <2>3. queued'[d] = IF d = c THEN "resolved" ELSE queued[d]
    BY <1>5 DEF TypeOK
  <2>4. CASE d = c
    BY <1>1, <1>3, <1>4, <1>5, <2>1, <2>2, <2>3, <2>4 DEF CallInOrder, Jobs
  <2>5. CASE d # c
    BY <1>3, <1>4, <1>5, <2>1, <2>2, <2>3, <2>5 DEF CallInOrder, Jobs
  <2>6. QED
    BY <2>4, <2>5
<1>8. QED
  BY <1>4, <1>6, <1>7 DEF CallsInOrder

LEMMA BeginInOrder ==
  ASSUME TypeOK, CallsInOrder, NEW c \in Calls, Begin(c)
  PROVE  TypeOK' /\ CallsInOrder'
<1>1. Pending("Begin", c) /\ phase[c] = "waiting" /\ Settled(previous[c])
  BY RunsIsPending DEF Begin, BeginWith, CallsInOrder, CallInOrder
<1>2. /\ Once(microtasks') /\ microtasks' \in Seq(JobsOf)
      /\ \A x \in Jobs, d \in Calls :
           Pending(x, d)' => Pending(x, d) /\ ~(x = "Begin" /\ d = c)
  <2>1. microtasks' = Tail(microtasks)
    BY DEF Begin, BeginWith, TypeOK, Runs
  <2>2. QED
    BY <2>1, AfterLastJob DEF Begin, BeginWith, CallsInOrder, Jobs
<1>3. /\ phase' = [phase EXCEPT ![c] = "operating"]
      /\ UNCHANGED <<arrivals, locks, previous, released, queued>>
  BY DEF Begin, BeginWith
<1>4. TypeOK'
  BY <1>2, <1>3 DEF TypeOK, JobsOf
<1>5. ASSUME NEW d \in Calls
      PROVE  CallInOrder(d)'
  <2>1. CallInOrder(d) /\ Settled(previous[d])' = Settled(previous[d])
    BY <1>3 DEF CallsInOrder, Settled
  <2>2. phase'[d] = IF d = c THEN "operating" ELSE phase[d]
    BY <1>3 DEF TypeOK
  <2>3. CASE d = c
    BY <1>1, <1>2, <1>3, <2>1, <2>2, <2>3 DEF CallInOrder, Jobs
  <2>4. CASE d # c
    BY <1>2, <1>3, <2>1, <2>2, <2>4 DEF CallInOrder, Jobs
  <2>5. QED
    BY <2>3, <2>4
<1>6. QED
  BY <1>2, <1>4, <1>5 DEF CallsInOrder

LEMMA OperationEndsInOrder ==
  ASSUME TypeOK, CallsInOrder, NEW c \in Calls, OperationEnds(c)
  PROVE  TypeOK' /\ CallsInOrder'
<1>1. phase[c] = "operating" /\ ~Pending("Finish", c) /\ CallInOrder(c)
  BY DEF OperationEnds, CallsInOrder, CallInOrder
<1>2. /\ Once(microtasks') /\ microtasks' \in Seq(JobsOf)
      /\ \A x \in Jobs, d \in Calls :
           Pending(x, d)' => Pending(x, d) \/ (x = "Finish" /\ d = c)
  <2> DEFINE more == <<Job("Finish", c)>>
  <2>1. more \in Seq(JobsOf) /\ Once(more) /\ \A j : InQueue(more, j) <=> j = Job("Finish", c)
    BY OneJob DEF Jobs
  <2>2. \A i \in DOMAIN more : ~InQueue(microtasks, more[i])
    BY <1>1 DEF Pending
  <2>3. microtasks \in Seq(JobsOf) /\ Once(microtasks) /\ microtasks' = microtasks \o more
    BY DEF OperationEnds, CallsInOrder, TypeOK, JobsOf
  <2> HIDE DEF more
  <2>4. /\ Once(microtasks')
        /\ \A j : InQueue(microtasks', j) => InQueue(microtasks, j) \/ InQueue(more, j)
    BY <2>1, <2>2, <2>3, QueueAfterCall
  <2>5. microtasks' \in Seq(JobsOf)
    BY <2>1, <2>3
  <2>6. QED
    BY <2>1, <2>4, <2>5, JobEquality DEF Pending
<1>3. /\ phase' = [phase EXCEPT ![c] = "ending"]
      /\ UNCHANGED <<arrivals, locks, previous, released, queued>>
  BY DEF OperationEnds
<1>4. TypeOK'
  BY <1>2, <1>3 DEF TypeOK, JobsOf
<1>5. ASSUME NEW d \in Calls
      PROVE  CallInOrder(d)'
  <2>1. CallInOrder(d) /\ Settled(previous[d])' = Settled(previous[d])
    BY <1>3 DEF CallsInOrder, Settled
  <2>2. phase'[d] = IF d = c THEN "ending" ELSE phase[d]
    BY <1>3 DEF TypeOK
  <2>3. CASE d = c
    BY <1>1, <1>2, <1>3, <2>1, <2>2, <2>3 DEF CallInOrder, Jobs
  <2>4. CASE d # c
    BY <1>2, <1>3, <2>1, <2>2, <2>4 DEF CallInOrder, Jobs
  <2>5. QED
    BY <2>3, <2>4
<1>6. QED
  BY <1>2, <1>4, <1>5 DEF CallsInOrder

LEMMA FinishInOrder ==
  ASSUME TypeOK, CallsInOrder, NEW c \in Calls, Finish(c)
  PROVE  TypeOK' /\ CallsInOrder'
<1>1. /\ Pending("Finish", c) /\ phase[c] = "ending" /\ c \notin released /\ CallInOrder(c)
      /\ ~Pending("Settle", c) /\ ~Pending("Return", c)
  BY RunsIsPending DEF Finish, CallsInOrder, CallInOrder
<1>2. /\ Once(microtasks') /\ microtasks' \in Seq(JobsOf)
      /\ \A x \in Jobs, d \in Calls :
           Pending(x, d)' => \/ Pending(x, d) /\ ~(x = "Finish" /\ d = c)
                             \/ x = "Settle" /\ d = c /\ queued[c] = "following"
                             \/ x = "Return" /\ d = c
  <2>1. CASE queued[c] = "following"
    <3>1. /\ Runs("Finish", c) /\ Once(microtasks)
          /\ ~Pending("Settle", c) /\ ~Pending("Return", c)
          /\ microtasks' = Tail(microtasks) \o <<Job("Settle", c), Job("Return", c)>>
      BY <1>1, <2>1 DEF Finish, JobsAfterFinish, CallsInOrder
    <3>2. "Settle" \in Jobs /\ "Finish" \in Jobs /\ "Return" \in Jobs
      BY DEF Jobs
    <3>3. "Settle" # "Return" /\ "Settle" # "Finish" /\ "Return" # "Finish"
      OBVIOUS
    <3>4. \A x \in Jobs, d \in Calls :
            Pending(x, d)' => \/ Pending(x, d) /\ ~(x = "Finish" /\ d = c)
                              \/ x \in {"Settle", "Return"} /\ d = c
      BY <3>1, <3>2, <3>3, AfterTwoJobs
    <3>5. Once(microtasks') /\ microtasks' \in Seq(JobsOf)
      BY <3>1, <3>2, <3>3, AfterTwoJobs
    <3>6. QED
      BY <2>1, <3>4, <3>5
  <2>2. CASE queued[c] # "following"
    <3>1. microtasks' = Append(Tail(microtasks), Job("Return", c))
      BY <2>2 DEF Finish, JobsAfterFinish, TypeOK, Runs
    <3>2. QED
      BY <1>1, <3>1, AfterOneJob DEF Finish, CallsInOrder, Jobs
  <2>3. QED
    BY <2>1, <2>2
<1>3. /\ phase' = [phase EXCEPT ![c] = "finished"]
      /\ released' = released \cup {c}
      /\ UNCHANGED <<arrivals, previous, queued>>
  BY DEF Finish
<1>4. TypeOK'
  <2>1. locks' \in [Games -> Calls \cup {NoCall}]
    BY DEF Finish, LocksAfterFinish, TypeOK
  <2>2. QED
    BY <1>2, <1>3, <2>1 DEF TypeOK, JobsOf
<1>5. ASSUME NEW d \in Calls
      PROVE  CallInOrder(d)'
  <2>1. CallInOrder(d) /\ Settled(previous[d])' = Settled(previous[d])
    BY <1>3 DEF CallsInOrder, Settled
  <2>2. phase'[d] = IF d = c THEN "finished" ELSE phase[d]
    BY <1>3 DEF TypeOK
  <2>3. CASE d = c
    BY <1>1, <1>2, <1>3, <2>1, <2>2, <2>3 DEF CallInOrder, Jobs
  <2>4. CASE d # c
    BY <1>2, <1>3, <2>1, <2>2, <2>4 DEF CallInOrder, Jobs
  <2>5. QED
    BY <2>3, <2>4
<1>6. QED
  BY <1>2, <1>4, <1>5 DEF CallsInOrder

LEMMA ReturnInOrder ==
  ASSUME TypeOK, CallsInOrder, NEW c \in Calls, Return(c)
  PROVE  TypeOK' /\ CallsInOrder'
<1>1. Pending("Return", c) /\ phase[c] = "finished" /\ CallInOrder(c)
  BY RunsIsPending DEF Return, CallsInOrder, CallInOrder
<1>2. /\ Once(microtasks') /\ microtasks' \in Seq(JobsOf)
      /\ \A x \in Jobs, d \in Calls :
           Pending(x, d)' => Pending(x, d) /\ ~(x = "Return" /\ d = c)
  BY AfterLastJob DEF Return, CallsInOrder, Jobs
<1>3. /\ phase' = [phase EXCEPT ![c] = "returned"]
      /\ UNCHANGED <<arrivals, locks, previous, released, queued>>
  BY DEF Return
<1>4. TypeOK'
  BY <1>2, <1>3 DEF TypeOK, JobsOf
<1>5. ASSUME NEW d \in Calls
      PROVE  CallInOrder(d)'
  <2>1. CallInOrder(d) /\ Settled(previous[d])' = Settled(previous[d])
    BY <1>3 DEF CallsInOrder, Settled
  <2>2. phase'[d] = IF d = c THEN "returned" ELSE phase[d]
    BY <1>3 DEF TypeOK
  <2>3. CASE d = c
    BY <1>1, <1>2, <1>3, <2>1, <2>2, <2>3 DEF CallInOrder, Jobs
  <2>4. CASE d # c
    BY <1>2, <1>3, <2>1, <2>2, <2>4 DEF CallInOrder, Jobs
  <2>5. QED
    BY <2>3, <2>4
<1>6. QED
  BY <1>2, <1>4, <1>5 DEF CallsInOrder

LEMMA StepInOrder ==
  ASSUME TypeOK, CallsInOrder, [Next]_vars
  PROVE  TypeOK' /\ CallsInOrder'
<1>1. CASE UNCHANGED vars
  BY <1>1 DEF vars, runnerVars, TypeOK, CallsInOrder, CallInOrder, Pending, Settled, JobsOf
<1>2. QED
  BY <1>1, CallRunInOrder, FollowCurrentInOrder, SubscribeInOrder, SettleInOrder, BeginInOrder,
     OperationEndsInOrder, FinishInOrder, ReturnInOrder DEF Next, Microtask

-----------------------------------------------------------------------------
(* The line of a game.                                                     *)

\* Every call is in arrivals once, from its call on.
ArrivalsInv ==
  /\ \A i, j \in DOMAIN arrivals : arrivals[i] = arrivals[j] => i = j
  /\ \A c \in Calls : phase[c] # "idle" <=> \E i \in DOMAIN arrivals : arrivals[i] = c

SameGame(i, j) == GameOf[arrivals[i]] = GameOf[arrivals[j]]

\* While a call has not finished, the later ones of its game wait.
FirstComeFirstServed ==
  \A i, j \in DOMAIN arrivals :
    i < j /\ SameGame(i, j) /\ Unfinished(arrivals[i]) => phase[arrivals[j]] = "waiting"

\* And they wait for it or for a call between them.
WaitsForEarlier ==
  \A i, j \in DOMAIN arrivals :
    i < j /\ SameGame(i, j) /\ Unfinished(arrivals[i]) =>
      \E k \in DOMAIN arrivals :
        i <= k /\ k < j /\ SameGame(k, j) /\ previous[arrivals[j]] = arrivals[k]

\* An unfinished call is found in #locks, or one behind it is; and what is
\* found there has not finished.
LocksInv ==
  /\ \A i \in DOMAIN arrivals : Unfinished(arrivals[i]) =>
       \E k \in DOMAIN arrivals :
         i <= k /\ SameGame(i, k) /\ locks[GameOf[arrivals[i]]] = arrivals[k]
  /\ \A g \in Games : locks[g] # NoCall => Unfinished(locks[g]) /\ GameOf[locks[g]] = g

LineInv == ArrivalsInv /\ FirstComeFirstServed /\ WaitsForEarlier /\ LocksInv

\* Steps that leave the line alone: of the phases they change at most one, to
\* one that means the same for the line.
LEMMA LineUndisturbed ==
  ASSUME TypeOK, TypeOK', LineInv, UNCHANGED <<arrivals, locks, previous>>,
         \A c \in Calls : /\ phase'[c] = "idle" <=> phase[c] = "idle"
                          /\ phase'[c] = "waiting" <=> phase[c] = "waiting"
                          /\ Unfinished(c)' <=> Unfinished(c)
  PROVE  LineInv'
<1>1. \A i \in DOMAIN arrivals : arrivals[i] \in Calls
  BY DEF TypeOK
<1>2. ArrivalsInv'
  BY DEF LineInv, ArrivalsInv
<1>3. FirstComeFirstServed'
  BY <1>1 DEF LineInv, FirstComeFirstServed, SameGame
<1>4. WaitsForEarlier'
  BY <1>1 DEF LineInv, WaitsForEarlier, SameGame
<1>5. LocksInv'
  BY <1>1 DEF LineInv, LocksInv, SameGame, TypeOK
<1>6. QED
  BY <1>2, <1>3, <1>4, <1>5 DEF LineInv

\* A call enters the line at its end, behind what #locks has.
LEMMA CallRunKeepsLine ==
  ASSUME TypeOK, LineInv, NEW c \in Calls, Call(c)
  PROVE  LineInv'
<1> DEFINE n == Len(arrivals)
<1>1. /\ n \in Nat /\ DOMAIN arrivals = 1 .. n
      /\ DOMAIN arrivals' = 1 .. n + 1
      /\ \A i \in 1 .. n : arrivals'[i] = arrivals[i] /\ arrivals[i] \in Calls
      /\ arrivals'[n + 1] = c
  BY DEF Call, CallRun, TypeOK
<1>2. \A i \in 1 .. n : arrivals[i] # c
  BY <1>1 DEF Call, CallRun, LineInv, ArrivalsInv
<1>3. /\ phase' = [phase EXCEPT ![c] = "waiting"]
      /\ previous' = [previous EXCEPT ![c] = locks[GameOf[c]]]
      /\ locks' = [locks EXCEPT ![GameOf[c]] = c]
      /\ GameOf[c] \in Games /\ phase[c] = "idle" /\ c # NoCall
  BY RunnerAssumption DEF Call, CallRun, PreviousOf
<1>4. \A d \in Calls : d # c =>
        phase'[d] = phase[d] /\ previous'[d] = previous[d] /\ (Unfinished(d)' <=> Unfinished(d))
  BY <1>3 DEF TypeOK, Unfinished
<1>5. phase'[c] = "waiting" /\ previous'[c] = locks[GameOf[c]] /\ Unfinished(c)'
  BY <1>3 DEF TypeOK, Unfinished
<1> HIDE DEF n
<1>6. ArrivalsInv'
  <2>1. \A i, j \in 1 .. n + 1 : arrivals'[i] = arrivals'[j] => i = j
    BY <1>1, <1>2 DEF LineInv, ArrivalsInv
  <2>2. ASSUME NEW d \in Calls
        PROVE  phase'[d] # "idle" <=> \E i \in 1 .. n + 1 : arrivals'[i] = d
    <3>1. CASE d = c
      BY <1>1, <1>5, <3>1
    <3>2. CASE d # c
      BY <1>1, <1>4, <3>2 DEF LineInv, ArrivalsInv
    <3>3. QED
      BY <3>1, <3>2
  <2>3. QED
    BY <1>1, <2>1, <2>2 DEF ArrivalsInv
<1>7. ASSUME NEW i \in 1 .. n, GameOf[arrivals[i]] = GameOf[c], Unfinished(arrivals[i])
      PROVE  \E k \in 1 .. n : /\ i <= k /\ GameOf[arrivals[k]] = GameOf[c]
                               /\ locks[GameOf[c]] = arrivals[k]
  BY <1>1, <1>7 DEF LineInv, LocksInv, SameGame
<1>8. FirstComeFirstServed'
  <2> SUFFICES ASSUME NEW i \in 1 .. n + 1, NEW j \in 1 .. n + 1, i < j,
                      GameOf[arrivals'[i]] = GameOf[arrivals'[j]], Unfinished(arrivals[i])'
               PROVE  phase'[arrivals'[j]] = "waiting"
    BY <1>1 DEF FirstComeFirstServed, SameGame, Unfinished
  <2>1. i \in 1 .. n /\ arrivals'[i] = arrivals[i] /\ Unfinished(arrivals[i])
    BY <1>1, <1>2, <1>4 DEF Unfinished
  <2>2. CASE j = n + 1
    BY <1>1, <1>5, <2>2
  <2>3. CASE j # n + 1
    BY <1>1, <1>2, <1>4, <2>1, <2>3 DEF LineInv, FirstComeFirstServed, SameGame
  <2>4. QED
    BY <2>2, <2>3
<1>9. WaitsForEarlier'
  <2> SUFFICES ASSUME NEW i \in 1 .. n + 1, NEW j \in 1 .. n + 1, i < j,
                      GameOf[arrivals'[i]] = GameOf[arrivals'[j]], Unfinished(arrivals[i])'
               PROVE  \E k \in 1 .. n + 1 :
                        /\ i <= k /\ k < j /\ GameOf[arrivals'[k]] = GameOf[arrivals'[j]]
                        /\ previous'[arrivals'[j]] = arrivals'[k]
    BY <1>1 DEF WaitsForEarlier, SameGame, Unfinished
  <2>1. i \in 1 .. n /\ arrivals'[i] = arrivals[i] /\ Unfinished(arrivals[i])
    BY <1>1, <1>2, <1>4 DEF Unfinished
  <2>2. CASE j = n + 1
    <3>1. PICK k \in 1 .. n : /\ i <= k /\ GameOf[arrivals[k]] = GameOf[c]
                              /\ locks[GameOf[c]] = arrivals[k]
      BY <1>1, <1>7, <2>1, <2>2
    <3>2. QED
      BY <1>1, <1>5, <2>2, <3>1
  <2>3. CASE j # n + 1
    <3>1. j \in 1 .. n /\ arrivals'[j] = arrivals[j]
      BY <1>1, <2>3
    <3>2. PICK k \in 1 .. n : /\ i <= k /\ k < j
                              /\ GameOf[arrivals[k]] = GameOf[arrivals[j]]
                              /\ previous[arrivals[j]] = arrivals[k]
      BY <1>1, <2>1, <3>1 DEF LineInv, WaitsForEarlier, SameGame
    <3>3. QED
      BY <1>1, <1>2, <1>4, <3>1, <3>2
  <2>4. QED
    BY <2>2, <2>3
<1>10. LocksInv'
  <2>1. ASSUME NEW i \in 1 .. n + 1, Unfinished(arrivals[i])'
        PROVE  \E k \in 1 .. n + 1 :
                 /\ i <= k /\ GameOf[arrivals'[i]] = GameOf[arrivals'[k]]
                 /\ locks'[GameOf[arrivals'[i]]] = arrivals'[k]
    <3>1. CASE GameOf[arrivals'[i]] = GameOf[c]
      <4>1. locks'[GameOf[c]] = c
        BY <1>3 DEF TypeOK
      <4>2. QED
        BY <1>1, <3>1, <4>1
    <3>2. CASE GameOf[arrivals'[i]] # GameOf[c]
      <4>1. i \in 1 .. n /\ arrivals'[i] = arrivals[i] /\ Unfinished(arrivals[i])
        BY <1>1, <1>2, <1>4, <2>1, <3>2 DEF Unfinished
      <4>2. locks'[GameOf[arrivals[i]]] = locks[GameOf[arrivals[i]]]
        BY <1>1, <1>3, <3>2, <4>1, RunnerAssumption DEF TypeOK
      <4>3. PICK k \in 1 .. n : /\ i <= k /\ GameOf[arrivals[i]] = GameOf[arrivals[k]]
                                /\ locks[GameOf[arrivals[i]]] = arrivals[k]
        BY <1>1, <4>1 DEF LineInv, LocksInv, SameGame
      <4>4. QED
        BY <1>1, <4>1, <4>2, <4>3
    <3>3. QED
      BY <3>1, <3>2
  <2>2. ASSUME NEW g \in Games, locks'[g] # NoCall
        PROVE  Unfinished(locks[g])' /\ GameOf[locks'[g]] = g
    <3>1. CASE g = GameOf[c]
      BY <1>3, <1>5, <3>1 DEF TypeOK
    <3>2. CASE g # GameOf[c]
      <4>1. locks'[g] = locks[g] /\ locks[g] \in Calls \cup {NoCall}
        BY <1>3, <3>2 DEF TypeOK
      <4>2. Unfinished(locks[g]) /\ GameOf[locks[g]] = g /\ locks[g] # c
        BY <2>2, <3>2, <4>1 DEF LineInv, LocksInv
      <4>3. QED
        BY <1>4, <2>2, <4>1, <4>2 DEF Unfinished
    <3>3. QED
      BY <3>1, <3>2
  <2>3. QED
    BY <1>1, <2>1, <2>2 DEF LocksInv, SameGame, Unfinished
<1>11. QED
  BY <1>6, <1>8, <1>9, <1>10 DEF LineInv

\* The call that begins was first in line: the one it waited for has finished,
\* and an unfinished call before that would have kept it from beginning.
LEMMA BeginKeepsLine ==
  ASSUME TypeOK, TypeOK', CallsInOrder, LineInv, NEW c \in Calls, Begin(c)
  PROVE  LineInv'
<1>1. phase[c] = "waiting" /\ Settled(previous[c])
  BY RunsIsPending DEF Begin, BeginWith, CallsInOrder, CallInOrder
<1>2. /\ phase' = [phase EXCEPT ![c] = "operating"]
      /\ UNCHANGED <<arrivals, locks, previous>>
  BY DEF Begin, BeginWith
<1>3. \A i \in DOMAIN arrivals : arrivals[i] \in Calls
  BY DEF TypeOK
<1>4. \A d \in Calls : /\ Unfinished(d)' <=> Unfinished(d)
                       /\ phase'[d] = "idle" <=> phase[d] = "idle"
                       /\ d # c => phase'[d] = phase[d]
  BY <1>1, <1>2 DEF Unfinished, TypeOK
<1>5. ASSUME NEW i \in DOMAIN arrivals, NEW j \in DOMAIN arrivals,
             i < j, SameGame(i, j), Unfinished(arrivals[i]), arrivals[j] = c
      PROVE  FALSE
  <2>1. PICK k \in DOMAIN arrivals :
          i <= k /\ k < j /\ SameGame(k, j) /\ previous[c] = arrivals[k]
    BY <1>5 DEF LineInv, WaitsForEarlier
  <2>2. queued[arrivals[k]] = "resolved"
    BY <1>1, <1>3, <2>1, RunnerAssumption DEF Settled
  <2>3. phase[arrivals[k]] \in {"finished", "returned"}
    BY <1>3, <2>2 DEF CallsInOrder, CallInOrder
  <2>4. i # k
    BY <1>5, <2>3 DEF Unfinished
  <2>5. i < k /\ SameGame(i, k)
    BY <1>5, <2>1, <2>4 DEF SameGame, TypeOK
  <2>6. phase[arrivals[k]] = "waiting"
    BY <1>5, <2>5 DEF LineInv, FirstComeFirstServed
  <2>7. QED
    BY <2>3, <2>6
<1>6. ArrivalsInv'
  BY <1>2, <1>4 DEF LineInv, ArrivalsInv
<1>7. FirstComeFirstServed'
  BY <1>2, <1>3, <1>4, <1>5 DEF LineInv, FirstComeFirstServed, SameGame
<1>8. WaitsForEarlier'
  BY <1>2, <1>3, <1>4 DEF LineInv, WaitsForEarlier, SameGame
<1>9. LocksInv'
  BY <1>2, <1>3, <1>4 DEF LineInv, LocksInv, SameGame, TypeOK
<1>10. QED
  BY <1>6, <1>7, <1>8, <1>9 DEF LineInv

\* The call that finishes was first in line, so nobody is in front of the
\* entry it deletes.
LEMMA FinishKeepsLine ==
  ASSUME TypeOK, TypeOK', CallsInOrder, LineInv, NEW c \in Calls, Finish(c)
  PROVE  LineInv'
<1>1. phase[c] = "ending"
  BY RunsIsPending DEF Finish, CallsInOrder, CallInOrder
<1>2. /\ phase' = [phase EXCEPT ![c] = "finished"]
      /\ UNCHANGED <<arrivals, previous>>
      /\ \A g \in Games :
           locks'[g] = IF g = GameOf[c] /\ locks[g] = c THEN NoCall ELSE locks[g]
  BY DEF Finish, LocksAfterFinish, TypeOK
<1>3. \A i \in DOMAIN arrivals : arrivals[i] \in Calls /\ GameOf[arrivals[i]] \in Games
  BY RunnerAssumption DEF TypeOK
<1>4. \A d \in Calls : /\ Unfinished(d)' <=> Unfinished(d) /\ d # c
                       /\ phase'[d] = "idle" <=> phase[d] = "idle"
                       /\ phase[d] = "waiting" => phase'[d] = "waiting"
  BY <1>1, <1>2 DEF Unfinished, TypeOK
<1>5. ArrivalsInv'
  BY <1>2, <1>4 DEF LineInv, ArrivalsInv
<1>6. FirstComeFirstServed'
  BY <1>2, <1>3, <1>4 DEF LineInv, FirstComeFirstServed, SameGame
<1>7. WaitsForEarlier'
  BY <1>2, <1>3, <1>4 DEF LineInv, WaitsForEarlier, SameGame
<1>8. ASSUME NEW i \in DOMAIN arrivals, Unfinished(arrivals[i])'
      PROVE  \E k \in DOMAIN arrivals :
               i <= k /\ SameGame(i, k) /\ locks'[GameOf[arrivals[i]]] = arrivals[k]
  <2>1. Unfinished(arrivals[i]) /\ arrivals[i] # c
    BY <1>2, <1>3, <1>4, <1>8 DEF Unfinished
  <2>2. PICK k \in DOMAIN arrivals :
          i <= k /\ SameGame(i, k) /\ locks[GameOf[arrivals[i]]] = arrivals[k]
    BY <2>1 DEF LineInv, LocksInv
  <2>3. arrivals[k] # c
    <3>1. SUFFICES ASSUME arrivals[k] = c PROVE FALSE
      OBVIOUS
    <3>2. i < k
      BY <2>1, <2>2, <3>1 DEF TypeOK
    <3>3. phase[c] = "waiting"
      BY <2>1, <2>2, <3>1, <3>2 DEF LineInv, FirstComeFirstServed
    <3>4. QED
      BY <1>1, <3>3
  <2>4. QED
    BY <1>2, <1>3, <2>2, <2>3
<1>9. ASSUME NEW g \in Games, locks'[g] # NoCall
      PROVE  Unfinished(locks[g])' /\ GameOf[locks'[g]] = g
  <2>1. locks'[g] = locks[g] /\ locks[g] \in Calls \cup {NoCall}
    BY <1>2, <1>9 DEF TypeOK
  <2>2. Unfinished(locks[g]) /\ GameOf[locks[g]] = g
    BY <1>9, <2>1 DEF LineInv, LocksInv
  <2>3. locks[g] # c
    BY <1>2, <1>9, <2>2
  <2>4. QED
    BY <1>4, <1>9, <2>1, <2>2, <2>3 DEF Unfinished
<1>10. LocksInv'
  BY <1>2, <1>8, <1>9 DEF LocksInv, SameGame, Unfinished
<1>11. QED
  BY <1>5, <1>6, <1>7, <1>10 DEF LineInv

LEMMA StepKeepsLine ==
  ASSUME TypeOK, TypeOK', CallsInOrder, LineInv, [Next]_vars
  PROVE  LineInv'
<1>1. ASSUME NEW c \in Calls, OperationEnds(c)
      PROVE  LineInv'
  <2>1. /\ UNCHANGED <<arrivals, locks, previous>>
        /\ \A d \in Calls : /\ phase'[d] = "idle" <=> phase[d] = "idle"
                            /\ phase'[d] = "waiting" <=> phase[d] = "waiting"
                            /\ Unfinished(d)' <=> Unfinished(d)
    BY <1>1 DEF OperationEnds, Unfinished, TypeOK
  <2>2. QED
    BY <2>1, LineUndisturbed
<1>2. ASSUME NEW c \in Calls, Return(c)
      PROVE  LineInv'
  <2>1. phase[c] = "finished"
    BY <1>2, RunsIsPending DEF Return, CallsInOrder, CallInOrder
  <2>2. /\ UNCHANGED <<arrivals, locks, previous>>
        /\ \A d \in Calls : /\ phase'[d] = "idle" <=> phase[d] = "idle"
                            /\ phase'[d] = "waiting" <=> phase[d] = "waiting"
                            /\ Unfinished(d)' <=> Unfinished(d)
    BY <1>2, <2>1 DEF Return, Unfinished, TypeOK
  <2>3. QED
    BY <2>2, LineUndisturbed
<1>3. ASSUME UNCHANGED <<arrivals, phase, locks, previous>>
      PROVE  LineInv'
  BY <1>3, LineUndisturbed DEF Unfinished
<1>4. ASSUME NEW c \in Calls, FollowCurrent(c) \/ Subscribe(c) \/ Settle(c)
      PROVE  LineInv'
  BY <1>3, <1>4 DEF FollowCurrent, Subscribe, Settle, runnerVars
<1>5. CASE UNCHANGED vars
  BY <1>3, <1>5 DEF vars, runnerVars
<1>6. QED
  BY <1>1, <1>2, <1>4, <1>5, CallRunKeepsLine, BeginKeepsLine, FinishKeepsLine
  DEF Next, Microtask

-----------------------------------------------------------------------------
(* The return of a call and the start of the next one.                     *)

\* In queue q no b is met before an a.
Precedes(q, a, b) ==
  \A j \in DOMAIN q : q[j] = b => \E k \in DOMAIN q : k < j /\ q[k] = a

\* What is left of q: all of it, or all but its head, which is no a.
LeftOf(q, front, a) == front = q \/ (q # <<>> /\ front = Tail(q) /\ Head(q) # a)

\* What a queue keeps of its order when its head may be taken and the jobs in
\* more are put behind the rest.
LEMMA OrderInQueue ==
  ASSUME NEW S, NEW q \in Seq(S), NEW front \in Seq(S), NEW more \in Seq(S), NEW a, NEW b,
         LeftOf(q, front, a)
  PROVE  /\ InQueue(q, a) => InQueue(front \o more, a)
         /\ Precedes(q, a, b) /\ ~InQueue(more, b) => Precedes(front \o more, a, b)
         /\ InQueue(q, a) /\ ~InQueue(front, b) => Precedes(front \o more, a, b)
<1> DEFINE m == Len(front)
           r == front \o more
<1>1. m \in Nat /\ Len(more) \in Nat /\ Len(q) \in Nat /\ Len(r) = m + Len(more)
  OBVIOUS
<1>2. /\ DOMAIN front = 1 .. m /\ DOMAIN more = 1 .. Len(more) /\ DOMAIN q = 1 .. Len(q)
      /\ DOMAIN r = 1 .. m + Len(more)
  BY <1>1
<1>3. \A i \in DOMAIN r : r[i] = IF i <= m THEN front[i] ELSE more[i - m]
  BY <1>1
<1>4. PICK s \in Nat : /\ Len(q) = m + s
                       /\ \A i \in 1 .. m : front[i] = q[i + s]
                       /\ \A i \in 1 .. s : q[i] # a
  <2>1. CASE front = q
    <3>1. Len(q) = m + 0 /\ \A i \in 1 .. m : front[i] = q[i + 0]
      BY <1>1, <2>1
    <3>2. 0 \in Nat /\ \A i \in 1 .. 0 : q[i] # a
      OBVIOUS
    <3>3. QED
      BY <3>1, <3>2
  <2>2. CASE q # <<>> /\ front = Tail(q) /\ Head(q) # a
    <3>1. Len(q) = m + 1 /\ \A i \in 1 .. m : front[i] = q[i + 1]
      BY <1>1, <2>2
    <3>2. \A i \in 1 .. 1 : q[i] # a
      BY <2>2
    <3>3. QED
      BY <3>1, <3>2
  <2>3. QED
    BY <2>1, <2>2 DEF LeftOf
<1> HIDE DEF m, r
<1>5. ASSUME InQueue(q, a)
      PROVE  \E i \in 1 .. m : i \in DOMAIN r /\ r[i] = a
  <2>1. PICK i \in DOMAIN q : q[i] = a
    BY <1>5 DEF InQueue
  <2>2. i - s \in 1 .. m /\ i = (i - s) + s /\ front[i - s] = a
    BY <1>1, <1>2, <1>4, <2>1
  <2>3. PICK k \in 1 .. m : front[k] = a
    BY <2>2
  <2>4. k \in DOMAIN r /\ r[k] = a
    BY <1>1, <1>2, <1>3, <2>3
  <2>5. QED
    BY <2>4
<1>6. ASSUME Precedes(q, a, b), ~InQueue(more, b)
      PROVE  Precedes(r, a, b)
  <2> SUFFICES ASSUME NEW j \in DOMAIN r, r[j] = b
               PROVE  \E k \in DOMAIN r : k < j /\ r[k] = a
    BY DEF Precedes
  <2>1. j <= m
    <3>1. SUFFICES ASSUME j > m PROVE FALSE
      BY <1>1, <1>2
    <3>2. j - m \in DOMAIN more /\ more[j - m] = b
      BY <1>1, <1>2, <1>3, <3>1
    <3>3. QED
      BY <1>6, <3>2 DEF InQueue
  <2>2. j + s \in DOMAIN q /\ q[j + s] = b
    BY <1>1, <1>2, <1>3, <1>4, <2>1
  <2>3. PICK k \in DOMAIN q : k < j + s /\ q[k] = a
    BY <1>6, <2>2 DEF Precedes
  <2>4. k - s \in 1 .. m /\ k = (k - s) + s /\ front[k - s] = a /\ k - s < j
    BY <1>1, <1>2, <1>4, <2>1, <2>3
  <2>5. QED
    BY <1>1, <1>2, <1>3, <2>4
<1>7. ASSUME InQueue(q, a), ~InQueue(front, b)
      PROVE  Precedes(r, a, b)
  <2> SUFFICES ASSUME NEW j \in DOMAIN r, r[j] = b
               PROVE  \E k \in DOMAIN r : k < j /\ r[k] = a
    BY DEF Precedes
  <2>1. ~(j <= m)
    BY <1>1, <1>2, <1>3, <1>7 DEF InQueue
  <2>2. PICK i \in 1 .. m : i \in DOMAIN r /\ r[i] = a
    BY <1>5, <1>7
  <2>3. QED
    BY <1>1, <1>2, <2>1, <2>2
<1>8. QED
  BY <1>5, <1>6, <1>7 DEF InQueue, r

LEMMA InQueueBehind ==
  ASSUME NEW S, NEW front \in Seq(S), NEW more \in Seq(S), NEW a, InQueue(more, a)
  PROVE  InQueue(front \o more, a)
<1>1. PICK i \in DOMAIN more : more[i] = a
  BY DEF InQueue
<1>2. i + Len(front) \in DOMAIN (front \o more) /\ (front \o more)[i + Len(front)] = a
  BY <1>1
<1>3. QED
  BY <1>2 DEF InQueue

\* An earlier call of the game of c has returned, or it returns before c begins.
ReturnsBefore(d, c) ==
  \/ phase[d] = "returned"
  \/ phase[d] = "finished" /\ Precedes(microtasks, Job("Return", d), Job("Begin", c))

ReturnOrder ==
  /\ \A d \in Calls : phase[d] = "finished" => Pending("Return", d)
  /\ \A i, j \in DOMAIN arrivals : i < j /\ SameGame(i, j) =>
       /\ phase[arrivals[j]] \in {"operating", "ending"} => phase[arrivals[i]] = "returned"
       /\ Pending("Begin", arrivals[j]) => ReturnsBefore(arrivals[i], arrivals[j])

\* The queue loses at most its head and gets the jobs in more at its end.
QueueStep(front, more) ==
  /\ front \in Seq(JobsOf) /\ more \in Seq(JobsOf)
  /\ front = microtasks \/ (microtasks # <<>> /\ front = Tail(microtasks))
  /\ microtasks' = front \o more

Taken(front, do, c) == front # microtasks /\ Runs(do, c)

\* Every call in front of d has returned.
FirstNow(d) ==
  /\ phase[d] # "idle"
  /\ \A i, j \in DOMAIN arrivals :
       i < j /\ SameGame(i, j) /\ arrivals[j] = d => phase[arrivals[i]] = "returned"

\* A step keeps the order if the calls it finishes are about to return, those
\* it makes ready to begin have only finished calls in front of them, and the
\* one that begins has only returned ones.
LEMMA OrderKept ==
  ASSUME TypeOK, TypeOK', CallsInOrder, ReturnOrder,
         NEW front, NEW more, QueueStep(front, more),
         DOMAIN arrivals \subseteq DOMAIN arrivals',
         \A i \in DOMAIN arrivals : arrivals'[i] = arrivals[i],
         \A i \in DOMAIN arrivals' \ DOMAIN arrivals : phase[arrivals'[i]] = "idle",
         \A d \in Calls :
           /\ phase[d] = "returned" => phase'[d] = "returned"
           /\ phase[d] = "finished" =>
                phase'[d] = "returned" \/ (phase'[d] = "finished" /\ ~Taken(front, "Return", d))
           /\ phase'[d] = "finished" => phase[d] = "finished" \/ InQueue(more, Job("Return", d))
           /\ phase'[d] \in {"operating", "ending"} =>
                phase[d] \in {"operating", "ending"} \/ FirstNow(d)
           /\ InQueue(more, Job("Begin", d)) => ~InQueue(front, Job("Begin", d)),
         \A i, j \in DOMAIN arrivals' :
           i < j /\ SameGame(i, j)' /\ InQueue(more, Job("Begin", arrivals'[j]))
             => phase[arrivals'[i]] \in {"finished", "returned"}
  PROVE  ReturnOrder'
<1>1. /\ microtasks \in Seq(JobsOf)
      /\ \A i \in DOMAIN arrivals : arrivals[i] \in Calls
      /\ \A i \in DOMAIN arrivals' : arrivals'[i] \in Calls
  BY DEF TypeOK, JobsOf
<1>2. front \in Seq(JobsOf) /\ more \in Seq(JobsOf) /\ microtasks' = front \o more
  BY DEF QueueStep
<1>3. ASSUME NEW d \in Calls, NEW b, ~Taken(front, "Return", d)
      PROVE  /\ Pending("Return", d) => Pending("Return", d)'
             /\ Precedes(microtasks, Job("Return", d), b) /\ ~InQueue(more, b)
                  => Precedes(microtasks', Job("Return", d), b)
             /\ Pending("Return", d) /\ ~InQueue(front, b)
                  => Precedes(microtasks', Job("Return", d), b)
  <2>1. LeftOf(microtasks, front, Job("Return", d))
    BY <1>3 DEF QueueStep, Taken, Runs, LeftOf
  <2>2. QED
    BY <1>1, <1>2, <2>1, OrderInQueue DEF Pending
<1>4. ASSUME NEW d \in Calls, Pending("Begin", d)', ~InQueue(more, Job("Begin", d))
      PROVE  Pending("Begin", d)
  <2>1. PICK j \in DOMAIN microtasks' : microtasks'[j] = Job("Begin", d)
    BY <1>4 DEF Pending, InQueue
  <2>2. CASE j <= Len(front)
    <3>1. j \in DOMAIN front /\ front[j] = Job("Begin", d)
      BY <1>2, <2>1, <2>2
    <3>2. CASE front = microtasks
      BY <3>1, <3>2 DEF Pending, InQueue
    <3>3. CASE microtasks # <<>> /\ front = Tail(microtasks)
      <4>1. j + 1 \in DOMAIN microtasks /\ microtasks[j + 1] = Job("Begin", d)
        BY <1>1, <3>1, <3>3
      <4>2. QED
        BY <4>1 DEF Pending, InQueue
    <3>4. QED
      BY <3>2, <3>3 DEF QueueStep
  <2>3. CASE j > Len(front)
    <3>1. j - Len(front) \in DOMAIN more /\ more[j - Len(front)] = Job("Begin", d)
      BY <1>2, <2>1, <2>3
    <3>2. QED
      BY <1>4, <3>1 DEF InQueue
  <2>4. QED
    BY <1>2, <2>1, <2>2, <2>3
<1>5. ASSUME NEW d \in Calls, phase'[d] = "finished"
      PROVE  Pending("Return", d)'
  <2>1. CASE phase[d] = "finished"
    BY <1>3, <1>5, <2>1 DEF ReturnOrder
  <2>2. CASE InQueue(more, Job("Return", d))
    BY <1>2, <2>2, InQueueBehind DEF Pending
  <2>3. QED
    BY <1>5, <2>1, <2>2
<1>6. ASSUME NEW i \in DOMAIN arrivals', NEW j \in DOMAIN arrivals', i < j, SameGame(i, j)'
      PROVE  (/\ phase[arrivals[j]] \in {"operating", "ending"} => phase[arrivals[i]] = "returned"
              /\ Pending("Begin", arrivals[j]) => ReturnsBefore(arrivals[i], arrivals[j]))'
  <2>1. PICK d \in Calls, c \in Calls : d = arrivals'[i] /\ c = arrivals'[j]
    BY <1>1
  <2>2. CASE j \notin DOMAIN arrivals
    <3>1. phase[c] = "idle"
      BY <2>1, <2>2
    <3>2. ~Pending("Begin", c)
      BY <2>1, <3>1 DEF CallsInOrder, CallInOrder
    <3>3. phase'[c] \notin {"operating", "ending"}
      BY <2>1, <3>1 DEF FirstNow
    <3>4. ASSUME Pending("Begin", c)'
          PROVE  ReturnsBefore(d, c)'
      <4>1. InQueue(more, Job("Begin", c)) /\ ~InQueue(front, Job("Begin", c))
        BY <1>4, <2>1, <3>2, <3>4
      <4>2. phase[d] \in {"finished", "returned"}
        BY <1>6, <2>1, <4>1
      <4>3. QED
        BY <1>3, <2>1, <4>1, <4>2 DEF ReturnsBefore, ReturnOrder
    <3>5. QED
      BY <2>1, <3>3, <3>4
  <2>3. CASE j \in DOMAIN arrivals
    <3>1. i \in DOMAIN arrivals /\ d = arrivals[i] /\ c = arrivals[j] /\ SameGame(i, j)
      <4>1. i \in DOMAIN arrivals
        BY <1>6, <2>3 DEF TypeOK
      <4>2. QED
        BY <1>6, <2>1, <2>3, <4>1 DEF SameGame
    <3>2. phase'[c] \in {"operating", "ending"} => phase'[d] = "returned"
      BY <1>6, <2>1, <2>3, <3>1 DEF ReturnOrder, FirstNow
    <3>3. ASSUME Pending("Begin", c)'
          PROVE  ReturnsBefore(d, c)'
      <4>1. CASE InQueue(more, Job("Begin", c))
        <5>1. phase[d] \in {"finished", "returned"}
          BY <1>6, <2>1, <4>1
        <5>2. QED
          BY <1>3, <2>1, <4>1, <5>1 DEF ReturnsBefore, ReturnOrder
      <4>2. CASE ~InQueue(more, Job("Begin", c))
        <5>1. ReturnsBefore(d, c)
          BY <1>4, <1>6, <2>1, <2>3, <3>1, <3>3, <4>2 DEF ReturnOrder
        <5>2. QED
          BY <1>3, <2>1, <4>2, <5>1 DEF ReturnsBefore
      <4>3. QED
        BY <4>1, <4>2
    <3>4. QED
      BY <2>1, <3>2, <3>3
  <2>4. QED
    BY <2>2, <2>3
<1>7. QED
  BY <1>5, <1>6 DEF ReturnOrder

\* A call whose previous one is settled has only finished calls in front of it.
LEMMA ReadyAfterFinished ==
  ASSUME TypeOK, CallsInOrder, LineInv, NEW j \in DOMAIN arrivals, NEW i \in DOMAIN arrivals,
         i < j, SameGame(i, j),
         \/ Settled(previous[arrivals[j]])
         \/ previous[arrivals[j]] \in released
  PROVE  phase[arrivals[i]] \in {"finished", "returned"}
<1>1. \A k \in DOMAIN arrivals : arrivals[k] \in Calls
  BY DEF TypeOK
<1>2. phase[arrivals[i]] # "idle"
  BY <1>1 DEF LineInv, ArrivalsInv
<1>3. ASSUME Unfinished(arrivals[i])
      PROVE  FALSE
  <2>1. PICK k \in DOMAIN arrivals :
          i <= k /\ k < j /\ SameGame(k, j) /\ previous[arrivals[j]] = arrivals[k]
    BY <1>3 DEF LineInv, WaitsForEarlier
  <2>2. arrivals[k] \in released
    BY <1>1, <2>1, RunnerAssumption DEF Settled, CallsInOrder, CallInOrder
  <2>3. phase[arrivals[k]] \in {"finished", "returned"}
    BY <1>1, <2>2 DEF CallsInOrder, CallInOrder
  <2>4. i # k
    BY <1>3, <2>3 DEF Unfinished
  <2>5. i < k /\ SameGame(i, k)
    BY <2>1, <2>4 DEF SameGame, TypeOK
  <2>6. phase[arrivals[k]] = "waiting"
    BY <1>3, <2>5 DEF LineInv, FirstComeFirstServed
  <2>7. QED
    BY <2>3, <2>6
<1>4. QED
  BY <1>1, <1>2, <1>3 DEF Unfinished, TypeOK

\* What the actions put behind the queue.
LEMMA BehindTheQueue ==
  ASSUME NEW c \in Calls
  PROVE  /\ <<>> \in Seq(JobsOf) /\ \A x, d : ~InQueue(<<>>, Job(x, d))
         /\ \A y \in Jobs :
              /\ <<Job(y, c)>> \in Seq(JobsOf)
              /\ \A x, d : InQueue(<<Job(y, c)>>, Job(x, d)) <=> x = y /\ d = c
         /\ ReactionsOf(c) \in Seq(JobsOf)
         /\ \A x, d : InQueue(ReactionsOf(c), Job(x, d))
                        <=> x \in {"FollowCurrent", "Begin"} /\ d = c
         /\ JobsAfterFinish(c) \in Seq(JobsOf)
         /\ \A d : InQueue(JobsAfterFinish(c), Job("Return", d)) <=> d = c
         /\ \A d : ~InQueue(JobsAfterFinish(c), Job("Begin", d))
<1>1. <<>> \in Seq(JobsOf) /\ \A x, d : ~InQueue(<<>>, Job(x, d))
  BY NoJob
<1>2. ASSUME NEW y \in Jobs
      PROVE  /\ <<Job(y, c)>> \in Seq(JobsOf)
             /\ \A x, d : InQueue(<<Job(y, c)>>, Job(x, d)) <=> x = y /\ d = c
  BY OneJob, JobEquality
<1>3. /\ ReactionsOf(c) \in Seq(JobsOf)
      /\ \A x, d : InQueue(ReactionsOf(c), Job(x, d))
                     <=> x \in {"FollowCurrent", "Begin"} /\ d = c
  <2>1. "FollowCurrent" \in Jobs /\ "Begin" \in Jobs /\ "FollowCurrent" # "Begin"
    BY DEF Jobs
  <2>2. QED
    BY <2>1, TwoJobs, JobEquality DEF ReactionsOf
<1>4. /\ JobsAfterFinish(c) \in Seq(JobsOf)
      /\ \A d : InQueue(JobsAfterFinish(c), Job("Return", d)) <=> d = c
      /\ \A d : ~InQueue(JobsAfterFinish(c), Job("Begin", d))
  <2>1. "Settle" \in Jobs /\ "Return" \in Jobs /\ "Settle" # "Return"
        /\ "Begin" # "Settle" /\ "Begin" # "Return"
    BY DEF Jobs
  <2>2. CASE queued[c] = "following"
    BY <2>1, <2>2, TwoJobs, JobEquality DEF JobsAfterFinish
  <2>3. CASE queued[c] # "following"
    BY <1>2, <2>1, <2>3 DEF JobsAfterFinish
  <2>4. QED
    BY <2>2, <2>3
<1>5. QED
  BY <1>1, <1>2, <1>3, <1>4

\* The steps that leave arrivals and the phases alone.
LEMMA PromisesKeepOrder ==
  ASSUME TypeOK, TypeOK', CallsInOrder, LineInv, ReturnOrder, NEW c \in Calls,
         FollowCurrent(c) \/ Subscribe(c) \/ Settle(c)
  PROVE  ReturnOrder'
<1>1. /\ UNCHANGED <<arrivals, phase>>
      /\ \A d : ~Runs("Return", d)
      /\ microtasks \in Seq(JobsOf) /\ microtasks # <<>> /\ Tail(microtasks) \in Seq(JobsOf)
  BY JobEquality DEF FollowCurrent, Subscribe, Settle, Runs, runnerVars, TypeOK, JobsOf
<1>2. "Subscribe" \in Jobs /\ "Settle" \in Jobs
  BY DEF Jobs
<1>3. ASSUME NEW more \in Seq(JobsOf), microtasks' = Tail(microtasks) \o more,
             \A d \in Calls : ~InQueue(more, Job("Begin", d))
      PROVE  ReturnOrder'
  <2>1. QueueStep(Tail(microtasks), more)
    BY <1>1, <1>3 DEF QueueStep
  <2>2. \A d \in Calls : ~Taken(Tail(microtasks), "Return", d)
    BY <1>1 DEF Taken
  <2>3. \A i, j \in DOMAIN arrivals' : ~InQueue(more, Job("Begin", arrivals'[j]))
    BY <1>3 DEF TypeOK
  <2>4. QED
    BY <1>1, <1>3, <2>1, <2>2, <2>3, OrderKept
<1>4. CASE microtasks' = Tail(microtasks)
  <2>1. microtasks' = Tail(microtasks) \o <<>>
    BY <1>1, <1>4
  <2>2. QED
    BY <1>3, <2>1, NoJob
<1>5. ASSUME NEW x \in {"Subscribe", "Settle"},
             microtasks' = Append(Tail(microtasks), Job(x, c))
      PROVE  ReturnOrder'
  <2>1. microtasks' = Tail(microtasks) \o <<Job(x, c)>>
    BY <1>1, <1>5
  <2>2. /\ <<Job(x, c)>> \in Seq(JobsOf) /\ x # "Begin"
        /\ \A y, d : InQueue(<<Job(x, c)>>, Job(y, d)) <=> y = x /\ d = c
    BY <1>2, BehindTheQueue
  <2>3. QED
    BY <1>3, <2>1, <2>2
<1>6. ASSUME NEW e \in Calls, Runs("Settle", c), previous[e] = c,
             microtasks' = Tail(microtasks) \o ReactionsOf(e)
      PROVE  ReturnOrder'
  <2>1. /\ c \in released /\ ~Settled(previous[e]) /\ ~Pending("Begin", e)
    <3>1. c \in released /\ queued[c] = "following"
      BY <1>6, RunsIsPending DEF CallsInOrder, CallInOrder
    <3>2. ~Settled(previous[e])
      BY <1>6, <3>1, RunnerAssumption DEF Settled
    <3>3. QED
      BY <3>1, <3>2 DEF CallsInOrder, CallInOrder
  <2>2. QueueStep(Tail(microtasks), ReactionsOf(e))
    BY <1>1, <1>6, BehindTheQueue DEF QueueStep
  <2>3. \A d \in Calls : ~Taken(Tail(microtasks), "Return", d)
    BY <1>1 DEF Taken
  <2>4. ASSUME NEW d \in Calls, InQueue(ReactionsOf(e), Job("Begin", d))
        PROVE  ~InQueue(Tail(microtasks), Job("Begin", d))
    <3>1. d = e
      BY <2>4, BehindTheQueue
    <3>2. \A i \in DOMAIN Tail(microtasks) :
            i + 1 \in DOMAIN microtasks /\ Tail(microtasks)[i] = microtasks[i + 1]
      BY <1>1
    <3>3. QED
      BY <2>1, <3>1, <3>2 DEF Pending, InQueue
  <2>5. ASSUME NEW i \in DOMAIN arrivals', NEW j \in DOMAIN arrivals', i < j, SameGame(i, j)',
               InQueue(ReactionsOf(e), Job("Begin", arrivals'[j]))
        PROVE  phase[arrivals'[i]] \in {"finished", "returned"}
    <3>1. arrivals'[j] = e /\ arrivals' = arrivals /\ SameGame(i, j)
      BY <1>1, <2>5, BehindTheQueue DEF SameGame
    <3>2. previous[arrivals[j]] \in released
      BY <1>6, <2>1, <3>1
    <3>3. QED
      BY <2>5, <3>1, <3>2, ReadyAfterFinished
  <2>6. QED
    BY <1>1, <2>2, <2>3, <2>4, <2>5, OrderKept
<1>7. CASE FollowCurrent(c)
  BY <1>5, <1>7 DEF FollowCurrent
<1>8. CASE Subscribe(c)
  BY <1>4, <1>5, <1>8 DEF Subscribe
<1>9. CASE Settle(c)
  BY <1>4, <1>6, <1>9 DEF Settle
<1>10. QED
  BY <1>7, <1>8, <1>9

\* A call whose game is free, or whose previous call settled long ago, is ready
\* at once, behind the return of every earlier one.
LEMMA CallKeepsOrder ==
  ASSUME TypeOK, TypeOK', CallsInOrder, LineInv, ReturnOrder, NEW c \in Calls, Call(c)
  PROVE  ReturnOrder'
<1> DEFINE n == Len(arrivals)
<1>1. /\ n \in Nat /\ DOMAIN arrivals = 1 .. n
      /\ DOMAIN arrivals' = 1 .. n + 1
      /\ \A i \in 1 .. n : arrivals'[i] = arrivals[i] /\ arrivals[i] \in Calls
      /\ arrivals'[n + 1] = c
  BY DEF Call, CallRun, TypeOK
<1>2. /\ phase[c] = "idle" /\ GameOf[c] \in Games
      /\ microtasks \in Seq(JobsOf)
      /\ \A d \in Calls : phase'[d] = IF d = c THEN "waiting" ELSE phase[d]
  BY RunnerAssumption DEF Call, CallRun, TypeOK, JobsOf
<1>3. ~Pending("Begin", c) /\ \A i \in 1 .. n : arrivals[i] # c /\ phase[arrivals[i]] # "idle"
  BY <1>1, <1>2 DEF CallsInOrder, CallInOrder, LineInv, ArrivalsInv
<1> HIDE DEF n
<1>4. ASSUME Settled(PreviousOf(c)), NEW i \in 1 .. n, GameOf[arrivals[i]] = GameOf[c]
      PROVE  phase[arrivals[i]] \in {"finished", "returned"}
  <2>1. SUFFICES ASSUME Unfinished(arrivals[i]) PROVE FALSE
    BY <1>1, <1>3 DEF Unfinished, TypeOK
  <2>2. locks[GameOf[c]] # NoCall
    BY <1>1, <1>4, <2>1, RunnerAssumption DEF LineInv, LocksInv, SameGame
  <2>3. locks[GameOf[c]] \in Calls /\ Unfinished(locks[GameOf[c]])
    BY <1>2, <2>2 DEF LineInv, LocksInv, TypeOK
  <2>4. queued[locks[GameOf[c]]] = "resolved"
    BY <1>4, <2>2 DEF Settled, PreviousOf
  <2>5. QED
    BY <2>3, <2>4 DEF CallsInOrder, CallInOrder, Unfinished
<1>5. PICK more \in {<<>>, ReactionsOf(c)} :
        /\ microtasks' = microtasks \o more
        /\ more # <<>> => Settled(PreviousOf(c))
  <2>1. CASE Settled(PreviousOf(c))
    BY <2>1 DEF Call, CallRun
  <2>2. CASE ~Settled(PreviousOf(c))
    <3>1. microtasks' = microtasks \o <<>>
      BY <1>2, <2>2 DEF Call, CallRun
    <3>2. QED
      BY <3>1
  <2>3. QED
    BY <2>1, <2>2
<1>6. /\ more \in Seq(JobsOf)
      /\ \A x, d : InQueue(more, Job(x, d)) =>
           x \in {"FollowCurrent", "Begin"} /\ d = c /\ Settled(PreviousOf(c))
  <2>1. CASE more = <<>>
    BY <2>1, BehindTheQueue
  <2>2. CASE more = ReactionsOf(c) /\ more # <<>>
    BY <1>5, <2>2, BehindTheQueue
  <2>3. QED
    BY <2>1, <2>2
<1>7. QueueStep(microtasks, more)
  BY <1>2, <1>5, <1>6 DEF QueueStep
<1>8. ASSUME NEW i \in DOMAIN arrivals', NEW j \in DOMAIN arrivals', i < j, SameGame(i, j)',
             InQueue(more, Job("Begin", arrivals'[j]))
      PROVE  phase[arrivals'[i]] \in {"finished", "returned"}
  <2>1. arrivals'[j] = c /\ Settled(PreviousOf(c))
    BY <1>6, <1>8
  <2>2. i \in 1 .. n
    BY <1>1, <1>8
  <2>3. GameOf[arrivals[i]] = GameOf[c]
    BY <1>1, <1>8, <2>1, <2>2 DEF SameGame
  <2>4. QED
    BY <1>1, <1>4, <2>1, <2>2, <2>3
<1>9. \A d \in Calls :
           /\ phase[d] = "returned" => phase'[d] = "returned"
           /\ phase[d] = "finished" => phase'[d] = "finished" /\ ~Taken(microtasks, "Return", d)
           /\ phase'[d] = "finished" => phase[d] = "finished"
           /\ phase'[d] \in {"operating", "ending"} => phase[d] \in {"operating", "ending"}
           /\ InQueue(more, Job("Begin", d)) => ~InQueue(microtasks, Job("Begin", d))
  BY <1>2, <1>3, <1>6 DEF Taken, Pending
<1>10. \A i \in DOMAIN arrivals' \ DOMAIN arrivals : phase[arrivals'[i]] = "idle"
  BY <1>1, <1>2
<1>11. DOMAIN arrivals \subseteq DOMAIN arrivals' /\ \A i \in DOMAIN arrivals : arrivals'[i] = arrivals[i]
  BY <1>1
<1>12. QED
  BY <1>7, <1>8, <1>9, <1>10, <1>11, OrderKept

\* Steps of run itself.
LEMMA RunKeepsOrder ==
  ASSUME TypeOK, TypeOK', CallsInOrder, LineInv, ReturnOrder, NEW c \in Calls,
         Begin(c) \/ OperationEnds(c) \/ Finish(c) \/ Return(c)
  PROVE  ReturnOrder'
<1>1. microtasks \in Seq(JobsOf) /\ arrivals' = arrivals /\ Tail(microtasks) \o <<>> = Tail(microtasks)
  BY DEF Begin, BeginWith, OperationEnds, Finish, Return, TypeOK, JobsOf, Runs
<1>2. ASSUME NEW front, NEW more, QueueStep(front, more), NEW p, phase' = [phase EXCEPT ![c] = p],
             \A d \in Calls : ~InQueue(more, Job("Begin", d)),
             \A d \in Calls : Taken(front, "Return", d) => d = c /\ p = "returned",
             \/ p = "operating" /\ phase[c] = "waiting" /\ FirstNow(c)
             \/ p = "ending" /\ phase[c] = "operating"
             \/ p = "finished" /\ phase[c] = "ending" /\ InQueue(more, Job("Return", c))
             \/ p = "returned" /\ phase[c] = "finished"
      PROVE  ReturnOrder'
  <2>1. \A d \in Calls : phase'[d] = IF d = c THEN p ELSE phase[d]
    BY <1>2 DEF TypeOK
  <2>2. \A i, j \in DOMAIN arrivals' : ~InQueue(more, Job("Begin", arrivals'[j]))
    BY <1>2 DEF TypeOK
  <2>3. \A d \in Calls :
           /\ phase[d] = "returned" => phase'[d] = "returned"
           /\ phase[d] = "finished" =>
                phase'[d] = "returned" \/ (phase'[d] = "finished" /\ ~Taken(front, "Return", d))
           /\ phase'[d] = "finished" => phase[d] = "finished" \/ InQueue(more, Job("Return", d))
           /\ phase'[d] \in {"operating", "ending"} =>
                phase[d] \in {"operating", "ending"} \/ FirstNow(d)
    BY <1>2, <2>1
  <2>4. QED
    BY <1>1, <1>2, <2>2, <2>3, OrderKept
<1>3. CASE Begin(c)
  <2>1. phase[c] = "waiting" /\ Pending("Begin", c)
    BY <1>3, RunsIsPending DEF Begin, BeginWith, CallsInOrder, CallInOrder
  <2>2. /\ microtasks # <<>> /\ Head(microtasks) = Job("Begin", c)
        /\ phase' = [phase EXCEPT ![c] = "operating"]
        /\ microtasks' = Tail(microtasks) \o <<>>
    BY <1>3 DEF Begin, BeginWith, Runs
  <2>3. FirstNow(c)
    <3>1. ASSUME NEW i \in DOMAIN arrivals, NEW j \in DOMAIN arrivals,
                 i < j, SameGame(i, j), arrivals[j] = c
          PROVE  phase[arrivals[i]] = "returned"
      <4>1. ReturnsBefore(arrivals[i], c)
        BY <2>1, <3>1 DEF ReturnOrder
      <4>2. 1 \in DOMAIN microtasks /\ microtasks[1] = Job("Begin", c)
            /\ \A k \in DOMAIN microtasks : ~(k < 1)
        BY <1>1, <2>2
      <4>3. QED
        BY <4>1, <4>2 DEF ReturnsBefore, Precedes
    <3>2. QED
      BY <2>1, <3>1 DEF FirstNow
  <2>4. QueueStep(Tail(microtasks), <<>>)
    BY <1>1, <2>2, BehindTheQueue DEF QueueStep
  <2>5. \A d : ~Taken(Tail(microtasks), "Return", d)
    BY <2>2, JobEquality DEF Taken, Runs
  <2>6. QED
    BY <1>2, <2>1, <2>2, <2>3, <2>4, <2>5, NoJob
<1>4. CASE OperationEnds(c)
  <2>1. /\ phase[c] = "operating" /\ phase' = [phase EXCEPT ![c] = "ending"]
        /\ microtasks' = microtasks \o <<Job("Finish", c)>>
    BY <1>1, <1>4 DEF OperationEnds
  <2>2. "Finish" \in Jobs
    BY DEF Jobs
  <2>3. QueueStep(microtasks, <<Job("Finish", c)>>)
    BY <1>1, <2>1, <2>2, BehindTheQueue DEF QueueStep
  <2>4. \A d : ~Taken(microtasks, "Return", d)
    BY DEF Taken
  <2>5. \A d \in Calls : ~InQueue(<<Job("Finish", c)>>, Job("Begin", d))
    BY <2>2, BehindTheQueue
  <2>6. QED
    BY <1>2, <2>1, <2>3, <2>4, <2>5
<1>5. CASE Finish(c)
  <2>1. phase[c] = "ending"
    BY <1>5, RunsIsPending DEF Finish, CallsInOrder, CallInOrder
  <2>2. /\ microtasks # <<>> /\ Head(microtasks) = Job("Finish", c)
        /\ phase' = [phase EXCEPT ![c] = "finished"]
        /\ microtasks' = Tail(microtasks) \o JobsAfterFinish(c)
    BY <1>5 DEF Finish, Runs
  <2>3. QueueStep(Tail(microtasks), JobsAfterFinish(c))
    BY <1>1, <2>2, BehindTheQueue DEF QueueStep
  <2>4. \A d : ~Taken(Tail(microtasks), "Return", d)
    BY <2>2, JobEquality DEF Taken, Runs
  <2>5. /\ InQueue(JobsAfterFinish(c), Job("Return", c))
        /\ \A d : ~InQueue(JobsAfterFinish(c), Job("Begin", d))
    BY BehindTheQueue
  <2>6. QED
    BY <1>2, <2>1, <2>2, <2>3, <2>4, <2>5
<1>6. CASE Return(c)
  <2>1. phase[c] = "finished"
    BY <1>6, RunsIsPending DEF Return, CallsInOrder, CallInOrder
  <2>2. /\ microtasks # <<>> /\ Head(microtasks) = Job("Return", c)
        /\ phase' = [phase EXCEPT ![c] = "returned"]
        /\ microtasks' = Tail(microtasks) \o <<>>
    BY <1>1, <1>6 DEF Return, Runs
  <2>3. QueueStep(Tail(microtasks), <<>>)
    BY <1>1, <2>2, BehindTheQueue DEF QueueStep
  <2>4. \A d : Taken(Tail(microtasks), "Return", d) => d = c
    BY <2>2, JobEquality DEF Taken, Runs
  <2>5. QED
    BY <1>2, <2>1, <2>2, <2>3, <2>4, NoJob
<1>7. QED
  BY <1>3, <1>4, <1>5, <1>6

LEMMA StepKeepsOrder ==
  ASSUME TypeOK, TypeOK', CallsInOrder, LineInv, ReturnOrder, [Next]_vars
  PROVE  ReturnOrder'
<1>1. CASE UNCHANGED vars
  BY <1>1 DEF vars, runnerVars, ReturnOrder, ReturnsBefore, SameGame, Pending
<1>2. QED
  BY <1>1, PromisesKeepOrder, CallKeepsOrder, RunKeepsOrder DEF Next, Microtask

-----------------------------------------------------------------------------
(* The invariant.                                                          *)

IInv == TypeOK /\ CallsInOrder /\ LineInv /\ ReturnOrder

LEMMA StartsInOrder ==
  ASSUME Init
  PROVE  IInv
<1>1. TypeOK
  BY DEF Init, TypeOK
<1>2. Once(microtasks) /\ \A x, c : ~Pending(x, c)
  BY DEF Init, Once, Pending, InQueue
<1>3. CallsInOrder
  BY <1>2 DEF Init, CallsInOrder, CallInOrder, Settled
<1>4. DOMAIN arrivals = {} /\ \A d \in Calls : phase[d] # "finished"
  BY DEF Init
<1>5. LineInv
  BY <1>4 DEF Init, LineInv, ArrivalsInv, FirstComeFirstServed, WaitsForEarlier, LocksInv
<1>6. ReturnOrder
  BY <1>4 DEF ReturnOrder
<1>7. QED
  BY <1>1, <1>3, <1>5, <1>6 DEF IInv

LEMMA StaysInOrder ==
  ASSUME IInv, [Next]_vars
  PROVE  IInv'
<1>1. TypeOK /\ CallsInOrder /\ LineInv /\ ReturnOrder
  BY DEF IInv
<1>2. TypeOK' /\ CallsInOrder'
  BY <1>1, StepInOrder
<1>3. LineInv'
  BY <1>1, <1>2, StepKeepsLine
<1>4. ReturnOrder'
  BY <1>1, <1>2, StepKeepsOrder
<1>5. QED
  BY <1>2, <1>3, <1>4 DEF IInv

LEMMA IInvHolds == Spec => []IInv
<1>1. Init => IInv
  BY StartsInOrder
<1>2. IInv /\ [Next]_vars => IInv'
  BY StaysInOrder
<1>3. QED
  BY <1>1, <1>2, PTL DEF Spec

LEMMA RunnerInvHolds == Spec => [](TypeOK /\ CallsInOrder /\ LineInv)
<1>1. IInv => TypeOK /\ CallsInOrder /\ LineInv
  BY DEF IInv
<1>2. QED
  BY <1>1, IInvHolds, PTL

\* What the code around run may take for granted: where a call is when a job
\* of it runs, and that it is the only one of its game that operates.
LEMMA PlaceOfJob ==
  ASSUME IInv, NEW c \in Calls
  PROVE  /\ Runs("Begin", c) => phase[c] = "waiting"
         /\ Runs("Finish", c) => phase[c] = "ending"
         /\ Runs("Return", c) => phase[c] = "finished"
BY RunsIsPending DEF IInv, CallsInOrder, CallInOrder

LEMMA OperatesAlone ==
  ASSUME IInv, NEW c \in Calls, phase[c] \in {"operating", "ending"},
         NEW d \in Calls, d # c, GameOf[d] = GameOf[c]
  PROVE  phase[d] \in {"idle", "waiting", "returned"}
<1>1. TypeOK /\ LineInv /\ ReturnOrder
  BY DEF IInv
<1>2. CASE phase[d] = "idle"
  BY <1>2
<1>3. CASE phase[d] # "idle"
  <2>1. PICK i \in DOMAIN arrivals, j \in DOMAIN arrivals : arrivals[i] = c /\ arrivals[j] = d
    BY <1>1, <1>3 DEF LineInv, ArrivalsInv
  <2>2. i < j \/ j < i
    BY <1>1, <2>1 DEF TypeOK
  <2>3. CASE i < j
    BY <1>1, <2>1, <2>3 DEF LineInv, FirstComeFirstServed, SameGame, Unfinished
  <2>4. CASE j < i
    BY <1>1, <2>1, <2>4 DEF ReturnOrder, SameGame
  <2>5. QED
    BY <2>2, <2>3, <2>4
<1>4. QED
  BY <1>2, <1>3

-----------------------------------------------------------------------------
(* Theorems about the runner.                                              *)

\* Every state of the runner is well typed.
THEOREM RunnerTypeCorrect == Spec => []TypeOK
BY RunnerInvHolds, PTL

\* Two operations of one game never overlap, however many calls there are.
THEOREM OneOperationAtATime == Spec => []OneOperationPerGame
<1>1. TypeOK /\ LineInv => OneOperationPerGame
  <2> SUFFICES ASSUME TypeOK, LineInv, NEW c \in InOperation, NEW d \in InOperation,
                      GameOf[c] = GameOf[d], c # d
               PROVE  FALSE
    BY DEF OneOperationPerGame
  <2>1. /\ c \in Calls /\ d \in Calls /\ Unfinished(c) /\ Unfinished(d)
        /\ phase[c] \notin {"waiting", "idle"} /\ phase[d] \notin {"waiting", "idle"}
    BY DEF InOperation, Unfinished
  <2>2. PICK i \in DOMAIN arrivals, j \in DOMAIN arrivals : arrivals[i] = c /\ arrivals[j] = d
    BY <2>1 DEF LineInv, ArrivalsInv
  <2>3. i < j \/ j < i
    BY <2>2 DEF TypeOK
  <2>4. QED
    BY <2>1, <2>2, <2>3 DEF LineInv, FirstComeFirstServed, SameGame
<1>2. QED
  BY <1>1, RunnerInvHolds, PTL

\* An entry of #locks is there exactly while a call of its game has not
\* finished, and it is the last one's: none is lost, none stays.
THEOREM LocksHoldTheTails == Spec => []LocksAreTheTails
<1>1. TypeOK /\ LineInv => LocksAreTheTails
  <2> SUFFICES ASSUME TypeOK, LineInv, NEW g \in Games
               PROVE  IF Places(g) = {} THEN locks[g] = NoCall
                      ELSE \E i \in Places(g) :
                             locks[g] = arrivals[i] /\ \A j \in Places(g) : j <= i
    BY DEF LocksAreTheTails
  <2>1. locks[g] # NoCall =>
          \E i \in Places(g) : locks[g] = arrivals[i]
    <3>1. SUFFICES ASSUME locks[g] # NoCall
                   PROVE  \E i \in Places(g) : locks[g] = arrivals[i]
      OBVIOUS
    <3>2. locks[g] \in Calls /\ Unfinished(locks[g]) /\ GameOf[locks[g]] = g
      BY <3>1 DEF TypeOK, LineInv, LocksInv
    <3>3. phase[locks[g]] # "idle"
      BY <3>2 DEF Unfinished
    <3>4. PICK i \in DOMAIN arrivals : arrivals[i] = locks[g]
      BY <3>2, <3>3 DEF LineInv, ArrivalsInv
    <3>5. QED
      BY <3>2, <3>4 DEF Places
  <2>2. CASE Places(g) = {}
    BY <2>1, <2>2
  <2>3. ASSUME NEW h \in Places(g)
        PROVE  \E k \in DOMAIN arrivals :
                 h <= k /\ GameOf[arrivals[k]] = g /\ locks[g] = arrivals[k]
    BY DEF Places, LineInv, LocksInv, SameGame
  <2>4. CASE Places(g) # {}
    <3>1. locks[g] # NoCall
      BY <2>3, <2>4, RunnerAssumption DEF TypeOK
    <3>2. PICK i \in Places(g) : locks[g] = arrivals[i]
      BY <2>1, <3>1
    <3>3. \A j \in Places(g) : j <= i
      BY <2>3, <3>2 DEF Places, LineInv, ArrivalsInv
    <3>4. QED
      BY <2>4, <3>2, <3>3
  <2>5. QED
    BY <2>2, <2>4
<1>2. QED
  BY <1>1, RunnerInvHolds, PTL

\* All of it together, for any number of calls and games.
THEOREM RunnerIsSafe == Spec => []RunnerInv
<1>1. TypeOK /\ OneOperationPerGame /\ LocksAreTheTails => RunnerInv
  BY DEF RunnerInv
<1>2. QED
  BY <1>1, RunnerTypeCorrect, OneOperationAtATime, LocksHoldTheTails, PTL

\* When an operation begins, every earlier call of its game has returned to
\* its caller, for any number of calls: what a caller does right after run
\* comes before the next operation, and no schedule of microtasks changes that.
THEOREM EarlierCallsHaveReturned == Spec => []ReturnedBeforeNext
<1>1. ReturnOrder => ReturnedBeforeNext
  BY DEF ReturnOrder, ReturnedBeforeNext, InOperation, SameGame
<1>2. IInv => ReturnOrder
  BY DEF IInv
<1>3. QED
  BY <1>1, <1>2, IInvHolds, PTL

-----------------------------------------------------------------------------
(* The runner is a lock for each game.                                     *)

Members(g) == {c \in Calls : GameOf[c] = g /\ Unfinished(c)}
Busy(g) == {c \in InOperation : GameOf[c] = g}
Alone(c, g) == c \in Busy(g) /\ \A d \in Busy(g) : d = c
InsideOf(g) ==
  IF \E c \in InOperation : GameOf[c] = g
  THEN CHOOSE c \in InOperation : GameOf[c] = g ELSE NoCall
LineNow == [g \in Games |-> LineOf(g)]
InsideNow == [g \in Games |-> InsideOf(g)]
ArrivedNow == {arrivals[i] : i \in DOMAIN arrivals}

\* The variables of the lock are functions of those of the runner: what a
\* step does to them follows from what it does to the phases.
LEMMA OccupantIsInside ==
  ASSUME NEW g \in Games, NEW c \in Calls
  PROVE  /\ Busy(g) = {} => InsideOf(g) = NoCall
         /\ Busy(g)' = {} => InsideOf(g)' = NoCall
         /\ Alone(c, g) => InsideOf(g) = c
         /\ Alone(c, g)' => InsideOf(g)' = c
BY DEF Alone, Busy, InsideOf, InOperation

LEMMA LineSame ==
  ASSUME TypeOK, TypeOK', arrivals' = arrivals, NEW g \in Games,
         \A c \in Calls : GameOf[c] = g => (Unfinished(c)' <=> Unfinished(c))
  PROVE  LineOf(g)' = LineOf(g)
<1>1. Members(g)' = Members(g)
  BY DEF Members
<1>2. LineOf(g) = Kept(arrivals, Members(g)) /\ LineOf(g)' = Kept(arrivals, Members(g)')
  BY DEF LineOf, Members
<1>3. QED
  BY <1>1, <1>2

\* The call that operates stands first in its line.
LEMMA FirstInLine ==
  ASSUME TypeOK, CallsInOrder, LineInv, NEW c \in Calls, Unfinished(c),
         \A i, j \in DOMAIN arrivals :
           i < j /\ SameGame(i, j) /\ arrivals[j] = c => ~Unfinished(arrivals[i])
  PROVE  /\ LineOf(GameOf[c]) # <<>> /\ Head(LineOf(GameOf[c])) = c
         /\ Kept(arrivals, Members(GameOf[c]) \ {c}) = Tail(LineOf(GameOf[c]))
<1> DEFINE S == Members(GameOf[c])
<1>1. arrivals \in Seq(Calls) /\ \A i \in DOMAIN arrivals : arrivals[i] \in Calls
  BY DEF TypeOK
<1>2. PICK i \in DOMAIN arrivals : arrivals[i] = c
  BY DEF LineInv, ArrivalsInv, Unfinished
<1>3. arrivals[i] \in S
  BY <1>2 DEF Members
<1>4. \A j \in DOMAIN arrivals : j < i => arrivals[j] \notin S
  BY <1>2 DEF Members, SameGame
<1>5. \A j \in DOMAIN arrivals : arrivals[j] = arrivals[i] => j = i
  BY DEF LineInv, ArrivalsInv
<1>6. LineOf(GameOf[c]) = Kept(arrivals, S)
  BY DEF LineOf, Members
<1> HIDE DEF S
<1>7. /\ Kept(arrivals, S) # <<>> /\ Head(Kept(arrivals, S)) = arrivals[i]
      /\ Kept(arrivals, S \ {arrivals[i]}) = Tail(Kept(arrivals, S))
  BY <1>1, <1>3, <1>4, <1>5, KeptFirst
<1>8. QED
  BY <1>2, <1>6, <1>7 DEF S

\* An operation starts and ends with nobody unfinished in front of it.
LEMMA NobodyInFront ==
  ASSUME TypeOK, CallsInOrder, LineInv, NEW c \in Calls,
         \/ c \in InOperation
         \/ phase[c] = "waiting" /\ Settled(previous[c])
  PROVE  /\ \A i, j \in DOMAIN arrivals :
              i < j /\ SameGame(i, j) /\ arrivals[j] = c => ~Unfinished(arrivals[i])
         /\ Busy(GameOf[c]) \subseteq {c}
<1>1. \A i \in DOMAIN arrivals : arrivals[i] \in Calls
  BY DEF TypeOK
<1>2. ASSUME NEW i \in DOMAIN arrivals, NEW j \in DOMAIN arrivals,
             i < j, SameGame(i, j), arrivals[j] = c
      PROVE  ~Unfinished(arrivals[i])
  <2>1. CASE c \in InOperation
    BY <1>2, <2>1 DEF LineInv, FirstComeFirstServed, InOperation
  <2>2. CASE phase[c] = "waiting" /\ Settled(previous[c])
    BY <1>2, <2>2, ReadyAfterFinished DEF Unfinished
  <2>3. QED
    BY <2>1, <2>2
<1>3. ASSUME NEW d \in Busy(GameOf[c]), d # c
      PROVE  FALSE
  <2>1. d \in Calls /\ Unfinished(d) /\ GameOf[d] = GameOf[c] /\ Unfinished(c)
        /\ phase[d] # "waiting" /\ phase[d] # "idle" /\ phase[c] # "idle"
    BY <1>3 DEF Busy, InOperation, Unfinished
  <2>2. PICK i \in DOMAIN arrivals, j \in DOMAIN arrivals : arrivals[i] = d /\ arrivals[j] = c
    BY <2>1 DEF LineInv, ArrivalsInv
  <2>3. i < j \/ j < i
    BY <1>3, <2>2 DEF TypeOK
  <2>4. CASE i < j
    BY <1>2, <2>1, <2>2, <2>4 DEF SameGame
  <2>5. CASE j < i
    BY <2>1, <2>2, <2>5 DEF LineInv, FirstComeFirstServed, SameGame
  <2>6. QED
    BY <2>3, <2>4, <2>5
<1>4. QED
  BY <1>2, <1>3

\* At most one call of a game operates.
LEMMA OneIsBusy ==
  ASSUME TypeOK, CallsInOrder, LineInv, NEW g \in Games
  PROVE  Busy(g) = {} \/ \E c \in Calls : Busy(g) = {c}
<1>1. ASSUME NEW c \in Busy(g)
      PROVE  c \in Calls /\ Busy(g) = {c}
  <2>1. c \in Calls /\ c \in InOperation /\ GameOf[c] = g
    BY DEF Busy, InOperation
  <2>2. Busy(g) \subseteq {c}
    BY <2>1, NobodyInFront
  <2>3. QED
    BY <2>1, <2>2
<1>2. QED
  BY <1>1

LEMMA LockIsThis ==
  /\ Lock!Init <=> ArrivedNow = {} /\ LineNow = [g \in Games |-> <<>>]
                   /\ InsideNow = [g \in Games |-> NoCall]
  /\ Lock!vars' = Lock!vars <=>
       ArrivedNow' = ArrivedNow /\ LineNow' = LineNow /\ InsideNow' = InsideNow
  /\ \A c : Lock!Arrive(c) <=>
       /\ c \notin ArrivedNow /\ ArrivedNow' = ArrivedNow \cup {c}
       /\ LineNow' = [LineNow EXCEPT ![GameOf[c]] = Append(LineNow[GameOf[c]], c)]
       /\ InsideNow' = InsideNow
  /\ \A c : Lock!Begin(c) <=>
       /\ InsideNow[GameOf[c]] = NoCall
       /\ LineNow[GameOf[c]] # <<>> /\ Head(LineNow[GameOf[c]]) = c
       /\ InsideNow' = [InsideNow EXCEPT ![GameOf[c]] = c]
       /\ ArrivedNow' = ArrivedNow /\ LineNow' = LineNow
  /\ \A c : Lock!Finish(c) <=>
       /\ InsideNow[GameOf[c]] = c
       /\ InsideNow' = [InsideNow EXCEPT ![GameOf[c]] = NoCall]
       /\ LineNow' = [LineNow EXCEPT ![GameOf[c]] = Tail(LineNow[GameOf[c]])]
       /\ ArrivedNow' = ArrivedNow
BY DEF Lock!Init, Lock!vars, Lock!Arrive, Lock!Begin, Lock!Finish, ArrivedNow, LineNow, InsideNow,
       InsideOf

LEMMA CallArrives ==
  ASSUME TypeOK, TypeOK', LineInv, NEW c \in Calls, Call(c)
  PROVE  Lock!Arrive(c)
<1> DEFINE n == Len(arrivals)
           x == GameOf[c]
<1>1. /\ n \in Nat /\ DOMAIN arrivals = 1 .. n /\ arrivals \in Seq(Calls)
      /\ DOMAIN arrivals' = 1 .. n + 1
      /\ \A i \in 1 .. n : arrivals'[i] = arrivals[i] /\ arrivals[i] \in Calls
      /\ arrivals'[n + 1] = c /\ arrivals' = Append(arrivals, c)
  BY DEF Call, CallRun, TypeOK
<1>2. /\ phase[c] = "idle" /\ x \in Games
      /\ \A d \in Calls : phase'[d] = IF d = c THEN "waiting" ELSE phase[d]
  BY RunnerAssumption DEF Call, CallRun, TypeOK
<1>3. \A i \in 1 .. n : arrivals[i] # c
  BY <1>1, <1>2 DEF LineInv, ArrivalsInv
<1> HIDE DEF n, x
<1>4. c \notin ArrivedNow /\ ArrivedNow' = ArrivedNow \cup {c}
  <2>1. \A i : i \in 1 .. n + 1 <=> i \in 1 .. n \/ i = n + 1
    BY <1>1
  <2>2. QED
    BY <1>1, <1>3, <2>1 DEF ArrivedNow
<1>5. ASSUME NEW g \in Games
      PROVE  /\ g = x => LineOf(g)' = Append(LineOf(g), c)
             /\ g # x => LineOf(g)' = LineOf(g)
             /\ InsideOf(g)' = InsideOf(g)
  <2>1. Members(g)' = IF g = x THEN Members(g) \cup {c} ELSE Members(g)
    BY <1>2 DEF Members, Unfinished, x
  <2>2. LineOf(g)' = Kept(Append(arrivals, c), Members(g)') /\ LineOf(g) = Kept(arrivals, Members(g))
    BY <1>1 DEF LineOf, Members
  <2>3. Kept(Append(arrivals, c), Members(g)')
          = IF c \in Members(g)' THEN Append(Kept(arrivals, Members(g)'), c)
            ELSE Kept(arrivals, Members(g)')
    BY <1>1, KeptStep
  <2>4. Kept(arrivals, Members(g)') = Kept(arrivals, Members(g))
    <3>1. \A i \in DOMAIN arrivals : arrivals[i] \in Members(g)' <=> arrivals[i] \in Members(g)
      BY <1>1, <1>3, <2>1
    <3>2. QED
      BY <1>1, <3>1, KeptSame
  <2>5. c \in Members(g)' <=> g = x
    BY <1>2 DEF Members, Unfinished, x
  <2>6. InOperation' = InOperation
    BY <1>2 DEF InOperation
  <2>7. QED
    BY <2>2, <2>3, <2>4, <2>5, <2>6 DEF InsideOf
<1>6. LineNow' = [LineNow EXCEPT ![x] = Append(LineNow[x], c)]
  BY <1>2, <1>5 DEF LineNow
<1>7. InsideNow' = InsideNow
  BY <1>5 DEF InsideNow
<1>8. QED
  BY <1>4, <1>6, <1>7, LockIsThis DEF x

LEMMA BeginIsBegin ==
  ASSUME TypeOK, TypeOK', CallsInOrder, LineInv, NEW c \in Calls, Begin(c)
  PROVE  Lock!Begin(c)
<1> DEFINE x == GameOf[c]
<1>1. phase[c] = "waiting" /\ Settled(previous[c]) /\ x \in Games
  BY RunsIsPending, RunnerAssumption DEF Begin, BeginWith, CallsInOrder, CallInOrder
<1>2. /\ arrivals' = arrivals
      /\ \A d \in Calls : phase'[d] = IF d = c THEN "operating" ELSE phase[d]
  BY DEF Begin, BeginWith, TypeOK
<1>3. /\ \A i, j \in DOMAIN arrivals :
           i < j /\ SameGame(i, j) /\ arrivals[j] = c => ~Unfinished(arrivals[i])
      /\ Busy(x) \subseteq {c}
  BY <1>1, NobodyInFront
<1>4. LineOf(x) # <<>> /\ Head(LineOf(x)) = c
  BY <1>1, <1>3, FirstInLine DEF Unfinished
<1>5. Busy(x) = {} /\ Busy(x)' = {c} /\ \A g \in Games : g # x => Busy(g)' = Busy(g)
  BY <1>1, <1>2, <1>3 DEF Busy, InOperation
<1> HIDE DEF x
<1>6. /\ InsideOf(x) = NoCall /\ InsideOf(x)' = c
      /\ \A g \in Games : g # x => InsideOf(g)' = InsideOf(g)
  <2>1. InsideOf(x) = NoCall /\ InsideOf(x)' = c
    <3>1. Alone(c, x)'
      BY <1>5 DEF Alone
    <3>2. QED
      BY <1>1, <1>5, <3>1, OccupantIsInside
  <2>2. ASSUME NEW g \in Games, g # x
        PROVE  InsideOf(g)' = InsideOf(g)
    <3>1. Busy(g)' = Busy(g)
      BY <1>5, <2>2
    <3>2. CASE Busy(g) = {}
      BY <3>1, <3>2, OccupantIsInside
    <3>3. ASSUME NEW d \in Calls, Busy(g) = {d}
          PROVE  InsideOf(g)' = InsideOf(g)
      <4>1. Alone(d, g) /\ Alone(d, g)'
        BY <3>1, <3>3 DEF Alone
      <4>2. QED
        BY <4>1, OccupantIsInside
    <3>4. QED
      BY <3>2, <3>3, OneIsBusy
  <2>3. QED
    BY <2>1, <2>2
<1>7. \A g \in Games : LineOf(g)' = LineOf(g)
  <2>1. \A d \in Calls : Unfinished(d)' <=> Unfinished(d)
    BY <1>1, <1>2 DEF Unfinished
  <2>2. QED
    BY <1>2, <2>1, LineSame
<1>8. /\ ArrivedNow' = ArrivedNow /\ LineNow' = LineNow
      /\ InsideNow' = [InsideNow EXCEPT ![x] = c]
  BY <1>1, <1>2, <1>6, <1>7 DEF ArrivedNow, LineNow, InsideNow
<1>9. InsideNow[x] = NoCall /\ LineNow[x] # <<>> /\ Head(LineNow[x]) = c
  BY <1>1, <1>4, <1>6 DEF LineNow, InsideNow
<1>10. QED
  BY <1>8, <1>9, LockIsThis DEF x

LEMMA FinishIsFinish ==
  ASSUME TypeOK, TypeOK', CallsInOrder, LineInv, NEW c \in Calls, Finish(c)
  PROVE  Lock!Finish(c)
<1> DEFINE x == GameOf[c]
<1>1. phase[c] = "ending" /\ x \in Games /\ c \in InOperation
  BY RunsIsPending, RunnerAssumption DEF Finish, CallsInOrder, CallInOrder, InOperation
<1>2. /\ arrivals' = arrivals
      /\ \A d \in Calls : phase'[d] = IF d = c THEN "finished" ELSE phase[d]
  BY DEF Finish, TypeOK
<1>3. /\ \A i, j \in DOMAIN arrivals :
           i < j /\ SameGame(i, j) /\ arrivals[j] = c => ~Unfinished(arrivals[i])
      /\ Busy(x) \subseteq {c}
  BY <1>1, NobodyInFront
<1>4. Kept(arrivals, Members(x) \ {c}) = Tail(LineOf(x))
  BY <1>1, <1>3, FirstInLine DEF Unfinished
<1>5. Busy(x) = {c} /\ Busy(x)' = {} /\ \A g \in Games : g # x => Busy(g)' = Busy(g)
  BY <1>1, <1>2, <1>3 DEF Busy, InOperation
<1>6. /\ Members(x)' = Members(x) \ {c}
      /\ \A g \in Games : g # x => \A d \in Calls : GameOf[d] = g => (Unfinished(d)' <=> Unfinished(d))
  BY <1>1, <1>2 DEF Members, Unfinished
<1> HIDE DEF x
<1>7. /\ InsideOf(x) = c /\ InsideOf(x)' = NoCall
      /\ \A g \in Games : g # x => InsideOf(g)' = InsideOf(g)
  <2>1. InsideOf(x) = c /\ InsideOf(x)' = NoCall
    <3>1. Alone(c, x)
      BY <1>5 DEF Alone
    <3>2. QED
      BY <1>1, <1>5, <3>1, OccupantIsInside
  <2>2. ASSUME NEW g \in Games, g # x
        PROVE  InsideOf(g)' = InsideOf(g)
    <3>1. Busy(g)' = Busy(g)
      BY <1>5, <2>2
    <3>2. CASE Busy(g) = {}
      BY <3>1, <3>2, OccupantIsInside
    <3>3. ASSUME NEW d \in Calls, Busy(g) = {d}
          PROVE  InsideOf(g)' = InsideOf(g)
      <4>1. Alone(d, g) /\ Alone(d, g)'
        BY <3>1, <3>3 DEF Alone
      <4>2. QED
        BY <4>1, OccupantIsInside
    <3>4. QED
      BY <3>2, <3>3, OneIsBusy
  <2>3. QED
    BY <2>1, <2>2
<1>8. LineOf(x)' = Tail(LineOf(x)) /\ \A g \in Games : g # x => LineOf(g)' = LineOf(g)
  <2>1. LineOf(x)' = Kept(arrivals, Members(x)')
    BY <1>2 DEF LineOf, Members
  <2>2. QED
    BY <1>2, <1>4, <1>6, <2>1, LineSame
<1>9. /\ ArrivedNow' = ArrivedNow
      /\ LineNow' = [LineNow EXCEPT ![x] = Tail(LineNow[x])]
      /\ InsideNow' = [InsideNow EXCEPT ![x] = NoCall]
      /\ InsideNow[x] = c
  BY <1>1, <1>2, <1>7, <1>8 DEF ArrivedNow, LineNow, InsideNow
<1>10. QED
  BY <1>9, LockIsThis DEF x

\* The other steps are inside run: the lock does not see them.
LEMMA LockUndisturbed ==
  ASSUME TypeOK, TypeOK', arrivals' = arrivals,
         \A c \in Calls : /\ Unfinished(c)' <=> Unfinished(c)
                          /\ c \in InOperation' <=> c \in InOperation
  PROVE  Lock!vars' = Lock!vars
<1>1. InOperation' = InOperation
  BY DEF InOperation
<1>2. \A g \in Games : LineOf(g)' = LineOf(g) /\ InsideOf(g)' = InsideOf(g)
  BY <1>1, LineSame DEF InsideOf
<1>3. ArrivedNow' = ArrivedNow /\ LineNow' = LineNow /\ InsideNow' = InsideNow
  BY <1>2 DEF ArrivedNow, LineNow, InsideNow
<1>4. QED
  BY <1>3, LockIsThis

LEMMA StepIsLockStep ==
  ASSUME TypeOK, TypeOK', CallsInOrder, LineInv, [Next]_vars
  PROVE  [Lock!Next]_(Lock!vars)
<1>1. ASSUME NEW c \in Calls, OperationEnds(c)
      PROVE  Lock!vars' = Lock!vars
  BY <1>1, LockUndisturbed DEF OperationEnds, Unfinished, InOperation, TypeOK
<1>2. ASSUME NEW c \in Calls, Return(c)
      PROVE  Lock!vars' = Lock!vars
  <2>1. phase[c] = "finished"
    BY <1>2, RunsIsPending DEF Return, CallsInOrder, CallInOrder
  <2>2. QED
    BY <1>2, <2>1, LockUndisturbed DEF Return, Unfinished, InOperation, TypeOK
<1>3. ASSUME UNCHANGED <<arrivals, phase>>
      PROVE  Lock!vars' = Lock!vars
  BY <1>3, LockUndisturbed DEF Unfinished, InOperation
<1>4. ASSUME NEW c \in Calls, FollowCurrent(c) \/ Subscribe(c) \/ Settle(c)
      PROVE  Lock!vars' = Lock!vars
  BY <1>3, <1>4 DEF FollowCurrent, Subscribe, Settle, runnerVars
<1>5. CASE UNCHANGED vars
  BY <1>3, <1>5 DEF vars, runnerVars
<1>6. ASSUME NEW c \in Calls, Call(c) \/ Begin(c) \/ Finish(c)
      PROVE  Lock!Next
  BY <1>6, CallArrives, BeginIsBegin, FinishIsFinish DEF Lock!Next
<1>7. QED
  BY <1>1, <1>2, <1>4, <1>5, <1>6 DEF Next, Microtask

\* What a lock for each game may do.
LockSafety == Lock!Init /\ [][Lock!Next]_(Lock!vars)

\* The promise chains admit the operations of a game one at a time and in the
\* order of their arrival: the microtasks of the runner only implement steps
\* of GameLock.  That everybody gets a turn is left to the model checker.
THEOREM RunnerIsALock == Spec => LockSafety
<1>1. Init => Lock!Init
  <2> SUFFICES ASSUME Init PROVE Lock!Init
    OBVIOUS
  <2>1. arrivals = <<>> /\ DOMAIN arrivals = {} /\ InOperation = {}
    BY DEF Init, InOperation
  <2>2. ArrivedNow = {} /\ InsideNow = [g \in Games |-> NoCall]
    BY <2>1 DEF ArrivedNow, InsideNow, InsideOf
  <2>3. \A g \in Games : LineOf(g) = <<>>
    BY <2>1, KeptEmpty DEF LineOf
  <2>4. LineNow = [g \in Games |-> <<>>]
    BY <2>3 DEF LineNow
  <2>5. QED
    BY <2>2, <2>4, LockIsThis
<1>2. TypeOK /\ TypeOK' /\ CallsInOrder /\ LineInv /\ [Next]_vars => [Lock!Next]_(Lock!vars)
  BY StepIsLockStep
<1>3. QED
  BY <1>1, <1>2, RunnerInvHolds, PTL DEF Spec, LockSafety
=============================================================================
