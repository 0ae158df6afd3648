--------------------------- MODULE JobQueueProofs ---------------------------
(* Theorems about JobQueue, for every table, pool, schedule and number of    *)
(* crashes.                                                                  *)
EXTENDS JobQueue, FiniteSetTheorems, TLAPS

\* The claim ages: the two constants an action writes, and one more unit of time.
LEMMA Ages ==
    /\ Unclaimed \in Unclaimed .. AgeCap
    /\ 0 \in Unclaimed .. AgeCap
    /\ \A a \in Unclaimed .. AgeCap : a /= AgeCap => a + 1 \in Unclaimed .. AgeCap
    /\ AgeCap \in Nat /\ AgeCap > StaleAfter
  BY TimeAssumption DEF Unclaimed, AgeCap

\* The numbers of attempts an action writes.
LEMMA Attempts ==
    /\ 0 \in 0 .. AttemptCap
    /\ \A a \in 0 .. AttemptCap : (IF a < AttemptCap THEN a + 1 ELSE a) \in 0 .. AttemptCap
    /\ \A a \in 0 .. AttemptCap : (IF a > 0 THEN a - 1 ELSE 0) \in 0 .. AttemptCap
  BY BudgetAssumption

\* A flushed row is a row: every column comes from the table or from the ORM copy.
LEMMA FlushType ==
    ASSUME NEW row \in Row, NEW snap \in Row, NEW want \in Row
    PROVE  Flush(row, snap, want) \in Row
  BY DEF Flush, Row

\* What fail() makes of a row is a row.
LEMMA FailedType ==
    ASSUME NEW snap \in Row, NEW state \in States
    PROVE  Failed(snap, state) \in Row
  BY Ages, Attempts DEF Failed, Row

LEMMA VerdictType ==
    ASSUME NEW snap, NEW defer, NEW max
    PROVE  Verdict(snap, defer, max) \in States
  BY DEF Verdict, States

LEMMA FailedWaitType ==
    ASSUME NEW row \in Row, NEW snap \in Row, NEW state
    PROVE  FailedWait(row, snap, state) \in Nat
  BY TimeAssumption DEF FailedWait, Row

LEMMA CopyType == ASSUME NEW row \in Row PROVE Copy(row) \in Row
  BY Ages DEF Copy, Row

LEMMA NoRowType == NoRow \in Row
  BY Ages, Attempts DEF NoRow, Row, States

LEMMA NewRowType == ASSUME NEW k \in Keys \cup {NoKey}, NEW d \in Delays PROVE NewRow(k, d) \in Row
  BY Ages, Attempts, TimeAssumption DEF NewRow, NoRow, Row, States

LEMMA IdleWorkerType == IdleWorker \in Worker
  BY NoRowType DEF IdleWorker, Worker

LEMMA NoSweepType == NoSweep \in Sweep
  BY TimeAssumption DEF NoSweep, Sweep

-----------------------------------------------------------------------------
\* The commit of a worker's own row, refused or not, keeps the types.
LEMMA CommitOwnType ==
    ASSUME TypeOK, NEW w \in Workers, Mine(w) \in JobIds, NEW row \in Row, CommitOwn(w, row),
           UNCHANGED <<sweep, op, up, crashes, owed>>
    PROVE  TypeOK'
  <1>1. jobs' \in [JobIds -> Row]
    BY DEF TypeOK, CommitOwn
  <1>2. worker' \in [Workers -> Worker]
    BY IdleWorkerType DEF TypeOK, CommitOwn
  <1>3. \A v \in Workers : Busy(v)' => Mine(v)' \in JobIds
    BY DEF TypeOK, CommitOwn, Busy, Mine, IdleWorker
  <1> QED BY <1>1, <1>2, <1>3 DEF TypeOK

\* A step that only rewrites rows keeps the types if the new table is one of rows.
LEMMA TableType ==
    ASSUME TypeOK, jobs' \in [JobIds -> Row], owed' \in [Keys -> BOOLEAN],
           UNCHANGED <<worker, sweep, op, up, crashes>>
    PROVE  TypeOK'
  BY DEF TypeOK, Busy, Mine

LEMMA WorkerType ==
    ASSUME TypeOK, NEW w \in Workers, WorkerStep(w)
    PROVE  TypeOK'
  <1> USE DEF WorkerStep
  <1>0. /\ jobs \in [JobIds -> Row] /\ worker \in [Workers -> Worker]
        /\ worker[w].snap \in Row
        /\ Busy(w) => Mine(w) \in JobIds /\ jobs[Mine(w)] \in Row
        /\ Busy(w) => \A snap \in Loads(w) : snap \in Row
    BY CopyType DEF TypeOK, Worker, Busy, Mine, Loads
  <1>1. ASSUME NEW j \in JobIds, Claim(w, j) PROVE TypeOK'
    <2> DEFINE row == [jobs[j] EXCEPT !.state = "running", !.age = 0,
                                      !.attempts = IF @ < AttemptCap THEN @ + 1 ELSE @]
    <2>1. row \in Row
      BY <1>0, Ages, Attempts DEF Row, States
    <2>2. jobs' \in [JobIds -> Row]
      BY <1>0, <1>1, <2>1 DEF Claim
    <2>3. [IdleWorker EXCEPT !.pc = "running", !.job = j, !.snap = Copy(row)] \in Worker
      BY <2>1, CopyType, IdleWorkerType DEF Worker
    <2>4. worker' \in [Workers -> Worker]
      BY <1>0, <1>1, <2>3 DEF Claim
    <2>5. \A v \in Workers : Busy(v)' => Mine(v)' \in JobIds
      BY <1>1, <1>0 DEF Claim, Busy, Mine, TypeOK, IdleWorker
    <2>6. owed' \in [Keys -> BOOLEAN]
      BY <1>1 DEF Claim, TypeOK
    <2> QED BY <1>1, <2>2, <2>4, <2>5, <2>6 DEF TypeOK, Claim
  <1>2. CASE Release(w)
    <2>1. PICK snap \in Loads(w) :
             CommitOwn(w, Flush(jobs[Mine(w)], snap,
                                [snap EXCEPT !.state = "pending", !.age = Unclaimed,
                                             !.attempts = IF @ > 0 THEN @ - 1 ELSE 0]))
      BY <1>2 DEF Release
    <2>2. Busy(w) /\ UNCHANGED <<sweep, op, up, crashes, owed>>
      BY <1>2 DEF Release, Busy
    <2>3. snap \in Row
      BY <1>0, <2>2
    <2>4. [snap EXCEPT !.state = "pending", !.age = Unclaimed,
                       !.attempts = IF @ > 0 THEN @ - 1 ELSE 0] \in Row
      BY <2>3, Ages, Attempts DEF Row, States
    <2> QED BY <1>0, <2>1, <2>2, <2>3, <2>4, FlushType, CommitOwnType
  <1>3. CASE ParkUnknownKind(w)
    <2>1. [worker[w].snap EXCEPT !.state = "parked"] \in Row
      BY <1>0 DEF Row, States
    <2>2. Busy(w)
      BY <1>3 DEF ParkUnknownKind, Busy
    <2> QED BY <1>0, <1>3, <2>1, <2>2, FlushType, CommitOwnType DEF ParkUnknownKind
  <1>4. CASE Complete(w)
    <2>1. Busy(w)
      BY <1>4 DEF Complete, Busy
    <2>2. [jobs EXCEPT ![Mine(w)].state = "done"] \in [JobIds -> Row]
      BY <1>0, <2>1 DEF Row, States
    <2>3. jobs' \in [JobIds -> Row]
      BY <1>4, <2>2 DEF Complete, DismissDeferredSiblings, Row, States
    <2>4. worker' \in [Workers -> Worker]
      BY <1>0, <1>4, IdleWorkerType DEF Complete
    <2>5. \A v \in Workers : Busy(v)' => Mine(v)' \in JobIds
      BY <1>4, <1>0 DEF Complete, Busy, Mine, TypeOK, IdleWorker
    <2> QED BY <1>4, <2>3, <2>4, <2>5 DEF TypeOK, Complete
  <1>5. CASE FailRead(w)
    <2>1. Busy(w) /\ Mine(w) \in JobIds /\ jobs[Mine(w)].cancel \in BOOLEAN
      BY <1>5, <1>0 DEF FailRead, Busy, Row
    <2>2. PICK snap \in Loads(w) :
             worker' = [worker EXCEPT ![w].pc = "failing",
                                      ![w].snap = [snap EXCEPT !.cancel = jobs[Mine(w)].cancel],
                                      ![w].late = jobs[Mine(w)].cancel]
      BY <1>5 DEF FailRead
    <2>3. [snap EXCEPT !.cancel = jobs[Mine(w)].cancel] \in Row
      BY <1>0, <2>1 DEF Row
    <2> DEFINE copy == [snap EXCEPT !.cancel = jobs[Mine(w)].cancel]
               cancelled == jobs[Mine(w)].cancel
    <2>a. copy \in Row /\ cancelled \in BOOLEAN
      BY <2>1, <2>3
    <2>b. worker' = [worker EXCEPT ![w].pc = "failing", ![w].snap = copy, ![w].late = cancelled]
      BY <2>2
    <2> HIDE DEF copy, cancelled
    <2>4. worker' \in [Workers -> Worker]
      <3> DEFINE after == [worker[w] EXCEPT !.pc = "failing", !.snap = copy, !.late = cancelled]
      <3>1. after \in Worker
        BY <1>0, <2>a DEF Worker
      <3>2. worker' = [worker EXCEPT ![w] = after]
        BY <1>0, <2>b
      <3> QED BY <1>0, <3>1, <3>2
    <2>5. \A v \in Workers : Busy(v)' => Mine(v)' \in JobIds
      BY <1>0, <2>1, <2>2 DEF Busy, Mine, TypeOK
    <2> QED BY <1>5, <2>4, <2>5 DEF TypeOK, FailRead
  <1>6. ASSUME NEW defer \in BOOLEAN, NEW max, FailWrite(w, defer, max) PROVE TypeOK'
    <2> DEFINE snap == worker[w].snap
               state == Verdict(snap, defer, max)
               flushed == Flush(jobs[Mine(w)], snap, Failed(snap, state))
               wait == FailedWait(jobs[Mine(w)], snap, state)
    <2>1. Busy(w)
      BY <1>6 DEF FailWrite, Busy
    <2>2. flushed \in Row /\ wait \in Nat
      BY <1>0, <2>1, VerdictType, FailedType, FlushType, FailedWaitType
    <2>3. [flushed EXCEPT !.wait = wait] \in Row
      BY <2>2 DEF Row
    <2>4. CommitOwn(w, [flushed EXCEPT !.wait = wait]) /\ UNCHANGED <<sweep, op, up, crashes, owed>>
      BY <1>6 DEF FailWrite
    <2> HIDE DEF flushed, wait
    <2> QED BY <1>0, <2>1, <2>3, <2>4, CommitOwnType
  <1>7. ASSUME NEW max \in Budgets, ParkFlush(w, max) PROVE TypeOK'
    <2>1. worker' \in [Workers -> Worker]
      BY <1>0, <1>7 DEF ParkFlush, Worker
    <2>2. \A v \in Workers : Busy(v)' => Mine(v)' \in JobIds
      BY <1>0, <1>7 DEF ParkFlush, Busy, Mine, TypeOK
    <2> QED BY <1>7, <2>1, <2>2 DEF TypeOK, ParkFlush
  <1>8. CASE ParkCommit(w)
    <2>1. Busy(w)
      BY <1>8 DEF ParkCommit, Busy
    <2>2. Flush(jobs[Mine(w)], worker[w].snap, Failed(worker[w].snap, "parked")) \in Row
      BY <1>0, <2>1, FlushType, FailedType DEF States
    <2>3. \A j \in JobIds : [jobs[j] EXCEPT !.state = "dismissed"] \in Row
      BY <1>0 DEF Row, States
    <2>4. jobs' \in [JobIds -> Row]
      BY <1>0, <1>8, <2>2, <2>3 DEF ParkCommit
    <2>5. worker' \in [Workers -> Worker]
      BY <1>0, <1>8, IdleWorkerType DEF ParkCommit
    <2>6. \A v \in Workers : Busy(v)' => Mine(v)' \in JobIds
      BY <1>8, <1>0 DEF ParkCommit, Busy, Mine, TypeOK, IdleWorker
    <2> QED BY <1>8, <2>4, <2>5, <2>6 DEF TypeOK, ParkCommit
  <1> QED BY <1>1, <1>2, <1>3, <1>4, <1>5, <1>6, <1>7, <1>8

\* The rows an operator, the prune or an enqueue may write into a table of rows.
LEMMA RowEdits ==
    ASSUME NEW row \in Row, NEW d \in Nat
    PROVE  /\ [row EXCEPT !.state = "dismissed"] \in Row
           /\ [row EXCEPT !.cancel = TRUE] \in Row
           /\ [row EXCEPT !.state = "pending", !.wait = d] \in Row
           /\ [row EXCEPT !.state = "pending", !.attempts = 0, !.age = Unclaimed, !.wait = 0] \in Row
           /\ [row EXCEPT !.state = "pending", !.age = Unclaimed, !.wait = d] \in Row
  BY Ages, Attempts DEF Row, States

LEMMA QueueType ==
    ASSUME TypeOK, NEW k \in Keys \cup {NoKey}, NEW d \in Delays,
           Enqueue(k, d)
    PROVE  TypeOK'
  <1>0. jobs \in [JobIds -> Row] /\ owed \in [Keys -> BOOLEAN] /\ 0 \in Nat /\ d \in Nat
    BY TimeAssumption DEF TypeOK
  <1>1. jobs' \in [JobIds -> Row]
    <2>1. CASE \E j \in FreeIds : jobs' = [jobs EXCEPT ![j] = NewRow(k, d)]
      BY <1>0, <2>1, NewRowType DEF FreeIds
    <2>2. CASE \E j \in LiveRows(k) :
                  jobs' = IF jobs[j].state = "deferred"
                          THEN [jobs EXCEPT ![j].state = "pending", ![j].wait = d]
                          ELSE jobs
      <3>1. PICK j \in JobIds :
                  jobs' = IF jobs[j].state = "deferred"
                          THEN [jobs EXCEPT ![j].state = "pending", ![j].wait = d]
                          ELSE jobs
        BY <2>2 DEF LiveRows
      <3>2. [jobs[j] EXCEPT !.state = "pending", !.wait = d] \in Row
        BY <1>0, RowEdits
      <3>3. jobs' = jobs \/ jobs' = [jobs EXCEPT ![j] = [jobs[j] EXCEPT !.state = "pending", !.wait = d]]
        BY <1>0, <3>1
      <3> QED BY <1>0, <3>2, <3>3
    <2> QED BY <2>1, <2>2 DEF Enqueue
  <1>2. owed' \in [Keys -> BOOLEAN]
    BY <1>0 DEF Enqueue
  <1> QED BY <1>1, <1>2, TableType DEF Enqueue

LEMMA KeyType ==
    ASSUME TypeOK, NEW k \in Keys, EnqueueBatch(k) \/ DismissJobsFor(k)
    PROVE  TypeOK'
  <1>0. jobs \in [JobIds -> Row] /\ owed \in [Keys -> BOOLEAN]
    BY DEF TypeOK
  <1>1. CASE EnqueueBatch(k)
    <2>1. NewRow(k, 0) \in Row
      BY Ages, Attempts DEF NewRow, NoRow, Row, States
    <2>2. jobs' \in [JobIds -> Row] /\ owed' \in [Keys -> BOOLEAN]
      BY <1>0, <1>1, <2>1 DEF EnqueueBatch, FreeIds
    <2> QED BY <1>1, <2>2, TableType DEF EnqueueBatch
  <1>2. CASE DismissJobsFor(k)
    <2>1. \A j \in JobIds : jobs[j] \in Row /\ [jobs[j] EXCEPT !.state = "dismissed"] \in Row
      BY <1>0, RowEdits
    <2>2. jobs' \in [JobIds -> Row] /\ owed' \in [Keys -> BOOLEAN]
      BY <1>0, <1>2, <2>1 DEF DismissJobsFor
    <2> QED BY <1>2, <2>2, TableType DEF DismissJobsFor
  <1> QED BY <1>1, <1>2

LEMMA ReclaimType ==
    ASSUME TypeOK, NEW s \in {"boot", "tick"}, ReclaimRead(s) \/ ReclaimWrite(s)
    PROVE  TypeOK'
  <1>0. jobs \in [JobIds -> Row] /\ sweep \in [{"boot", "tick"} -> Sweep]
    BY DEF TypeOK
  <1>1. CASE ReclaimRead(s)
    <2> DEFINE stale == {j \in JobIds : Stale(j, 0)}
               before(i, j) == jobs[i].age > jobs[j].age \/ (jobs[i].age = jobs[j].age /\ i < j)
               ord == [j \in JobIds |-> Cardinality({i \in stale : j \in stale /\ before(i, j)})]
    <2>1. ASSUME NEW j \in JobIds PROVE Cardinality({i \in stale : j \in stale /\ before(i, j)}) \in Nat
      <3>1. IsFiniteSet({i \in stale : j \in stale /\ before(i, j)})
        BY JobIdsAssumption, FS_Subset
      <3> QED BY <3>1, FS_CardinalityType
    <2>2. ord \in [JobIds -> Nat]
      BY <2>1
    <2>3. sweep' = [sweep EXCEPT ![s] = [on |-> TRUE, rows |-> stale, lapse |-> 0, ord |-> ord]]
      BY <1>1 DEF ReclaimRead
    <2> HIDE DEF ord
    <2>4. [on |-> TRUE, rows |-> stale, lapse |-> 0, ord |-> ord] \in Sweep
      BY <2>2, TimeAssumption DEF Sweep
    <2>5. sweep' \in [{"boot", "tick"} -> Sweep]
      BY <1>0, <2>3, <2>4
    <2> QED BY <1>1, <2>5 DEF ReclaimRead, TypeOK, Busy, Mine
  <1>2. CASE ReclaimWrite(s)
    <2>1. ASSUME NEW j \in JobIds PROVE Reclaimed(s)[j] \in Row
      <3>1. sweep[s].ord[j] * Stagger \in Nat
        BY <1>0, TimeAssumption DEF Sweep
      <3>2. [jobs[j] EXCEPT !.state = "pending", !.age = Unclaimed, !.wait = sweep[s].ord[j] * Stagger] \in Row
        BY <1>0, <3>1, RowEdits
      <3> QED BY <1>0, <3>2 DEF Reclaimed
    <2>2. Reclaimed(s) \in [JobIds -> Row]
      BY <2>1 DEF Reclaimed
    <2>3. jobs' \in [JobIds -> Row]
      BY <1>0, <1>2, <2>2 DEF ReclaimWrite
    <2>4. sweep' \in [{"boot", "tick"} -> Sweep]
      BY <1>0, <1>2, NoSweepType DEF ReclaimWrite
    <2>5. up' \in BOOLEAN
      BY <1>2 DEF ReclaimWrite
    <2> QED BY <1>2, <2>3, <2>4, <2>5 DEF ReclaimWrite, TypeOK, Busy, Mine
  <1> QED BY <1>1, <1>2

LEMMA OperatorType == ASSUME TypeOK, OperatorStep PROVE TypeOK'
  <1>0. jobs \in [JobIds -> Row] /\ owed \in [Keys -> BOOLEAN] /\ 0 \in Nat
    BY DEF TypeOK
  <1>1. ASSUME NEW j \in JobIds, CancelJob(j) PROVE TypeOK'
    <2>1. [jobs[j] EXCEPT !.state = "dismissed"] \in Row /\ [jobs[j] EXCEPT !.cancel = TRUE] \in Row
      BY <1>0, RowEdits
    <2>2. \/ jobs' = [jobs EXCEPT ![j] = [jobs[j] EXCEPT !.state = "dismissed"]]
          \/ jobs' = [jobs EXCEPT ![j] = [jobs[j] EXCEPT !.cancel = TRUE]]
      BY <1>0, <1>1 DEF CancelJob
    <2>3. jobs' \in [JobIds -> Row]
      BY <1>0, <2>1, <2>2
    <2>4. owed' \in [Keys -> BOOLEAN]
      BY <1>0, <1>1 DEF CancelJob
    <2> QED BY <1>1, <2>3, <2>4, TableType DEF CancelJob
  <1>2. ASSUME NEW act \in {"retry", "dismiss"}, NEW j \in JobIds, OperatorRead(act, j) PROVE TypeOK'
    BY <1>2 DEF OperatorRead, TypeOK, Busy, Mine
  <1>3. CASE RetryJob
    <2>1. op.job \in JobIds
      BY <1>3 DEF RetryJob, TypeOK
    <2>2. [jobs[op.job] EXCEPT !.state = "pending", !.attempts = 0, !.age = Unclaimed, !.wait = 0] \in Row
      BY <1>0, <2>1, RowEdits
    <2>3. jobs' = jobs \/ jobs' = [jobs EXCEPT ![op.job] = [jobs[op.job] EXCEPT
                                     !.state = "pending", !.attempts = 0, !.age = Unclaimed, !.wait = 0]]
      BY <1>0, <1>3, <2>1 DEF RetryJob
    <2>4. jobs' \in [JobIds -> Row]
      BY <1>0, <2>1, <2>2, <2>3
    <2> QED BY <1>3, <2>4 DEF RetryJob, TypeOK, Busy, Mine, NoRequest
  <1>4. CASE DismissJob
    <2>1. op.job \in JobIds
      BY <1>4 DEF DismissJob, TypeOK
    <2>2. jobs' \in [JobIds -> Row]
      BY <1>0, <1>4, <2>1 DEF DismissJob, Row, States
    <2> QED BY <1>4, <2>2 DEF DismissJob, TypeOK, Busy, Mine, NoRequest
  <1> QED BY <1>1, <1>2, <1>3, <1>4 DEF OperatorStep

LEMMA TickType == ASSUME TypeOK, Tick PROVE TypeOK'
  <1>0. jobs \in [JobIds -> Row] /\ sweep \in [{"boot", "tick"} -> Sweep]
    BY DEF TypeOK
  <1>1. jobs' \in [JobIds -> Row]
    <2>1. ASSUME NEW j \in JobIds
          PROVE  [jobs[j] EXCEPT !.wait = IF @ > 0 THEN @ - 1 ELSE 0,
                                 !.age = IF @ = Unclaimed \/ @ = AgeCap THEN @ ELSE @ + 1] \in Row
      <3>1. (IF jobs[j].age = Unclaimed \/ jobs[j].age = AgeCap THEN jobs[j].age ELSE jobs[j].age + 1)
            \in Unclaimed .. AgeCap
        BY <1>0, Ages DEF Row
      <3>2. (IF jobs[j].wait > 0 THEN jobs[j].wait - 1 ELSE 0) \in Nat
        BY <1>0 DEF Row
      <3> QED BY <1>0, <3>1, <3>2 DEF Row
    <2> QED BY <2>1 DEF Tick
  <1>2. sweep' \in [{"boot", "tick"} -> Sweep]
    <2>1. DOMAIN sweep = {"boot", "tick"}
      BY <1>0
    <2>2. ASSUME NEW s \in {"boot", "tick"}
          PROVE  (IF sweep[s].on THEN [sweep[s] EXCEPT !.lapse = @ + 1] ELSE sweep[s]) \in Sweep
      <3>0. (sweep[s].on => sweep[s].lapse < StaleAfter) /\ sweep[s].lapse \in 0 .. StaleAfter
        <4>1. \A r \in DOMAIN sweep : sweep[r].on => sweep[r].lapse < StaleAfter
          BY DEF Tick
        <4> QED BY <1>0, <2>1, <4>1 DEF Sweep
      <3>1. sweep[s].on => sweep[s].lapse + 1 \in 0 .. StaleAfter
        BY <3>0, TimeAssumption
      <3>2. CASE sweep[s].on
        <4>1. sweep[s].lapse + 1 \in 0 .. StaleAfter /\ sweep[s] \in Sweep
          BY <1>0, <3>1, <3>2
        <4>2. [sweep[s] EXCEPT !.lapse = @ + 1] \in Sweep
          BY <4>1 DEF Sweep
        <4> QED BY <3>2, <4>2
      <3>3. CASE ~sweep[s].on
        BY <1>0, <3>3
      <3> QED BY <3>2, <3>3
    <2> QED BY <2>1, <2>2 DEF Tick
  <1> QED BY <1>1, <1>2 DEF Tick, TypeOK, Busy, Mine

\* Type correctness: whatever the workers, sweeps, operators and crashes do, every
\* column, ORM copy and pending sweep holds a value of its type.
THEOREM TypeCorrect == Spec => []TypeOK
  <1>1. Init => TypeOK
    <2> SUFFICES ASSUME Init PROVE TypeOK
      OBVIOUS
    <2>1. jobs \in [JobIds -> Row] /\ sweep \in [{"boot", "tick"} -> Sweep]
      BY NoRowType, NoSweepType DEF Init
    <2>2. worker \in [Workers -> Worker] /\ \A w \in Workers : ~Busy(w)
      BY IdleWorkerType DEF Init, Busy, IdleWorker
    <2>3. op \in [act : {"none", "retry", "dismiss"}, job : JobIds \cup {0}] /\ op.act = "none"
      BY DEF Init, NoRequest
    <2>4. up \in BOOLEAN /\ owed \in [Keys -> BOOLEAN]
      BY DEF Init
    <2>5. crashes \in 0 .. MaxCrashes
      BY BudgetAssumption DEF Init
    <2> QED BY <2>1, <2>2, <2>3, <2>4, <2>5 DEF TypeOK
  <1>2. TypeOK /\ [Next]_vars => TypeOK'
    <2> SUFFICES ASSUME TypeOK, [Next]_vars PROVE TypeOK'
      OBVIOUS
    <2>1. ASSUME NEW k \in Keys \cup {NoKey}, NEW d \in Delays, Enqueue(k, d) PROVE TypeOK'
      BY <2>1, QueueType
    <2>2. ASSUME NEW k \in Keys, EnqueueBatch(k) \/ DismissJobsFor(k) PROVE TypeOK'
      BY <2>2, KeyType
    <2>3. CASE Crash
      <3>1. worker' \in [Workers -> Worker] /\ \A w \in Workers : ~Busy(w)'
        BY <2>3, IdleWorkerType DEF Crash, Busy, IdleWorker
      <3>2. crashes' \in 0 .. MaxCrashes
        BY <2>3, BudgetAssumption DEF Crash, TypeOK
      <3>3. op' \in [act : {"none", "retry", "dismiss"}, job : JobIds \cup {0}] /\ op'.act = "none"
        BY <2>3 DEF Crash, NoRequest
      <3> QED BY <2>3, <3>1, <3>2, <3>3 DEF Crash, TypeOK
    <2>4. CASE UNCHANGED vars
      BY <2>4 DEF vars, TypeOK, Busy, Mine
    <2> QED BY <2>1, <2>2, <2>3, <2>4, WorkerType, ReclaimType, OperatorType, TickType DEF Next
  <1> QED BY <1>1, <1>2, PTL DEF Spec

-----------------------------------------------------------------------------
(* One waiting row per key *)

\* A step that makes no row wait that did not wait, and moves no row to another key,
\* cannot put two waiting rows on one key.
LEMMA LiveShrinks ==
    ASSUME OneLiveRowPerKey,
           \A j \in JobIds : /\ jobs'[j].key = jobs[j].key
                             /\ jobs'[j].state \in Live => jobs[j].state \in Live
    PROVE  OneLiveRowPerKey'
  BY DEF OneLiveRowPerKey, Live

\* What the unique index admits is what the property asks.
LEMMA IndexIsEnough ==
    ASSUME NEW t, IndexHolds(t), jobs' = t
    PROVE  OneLiveRowPerKey'
  BY DEF IndexHolds, OneLiveRowPerKey, Live

LEMMA InsertKeepsIndex ==
    ASSUME OneLiveRowPerKey, TypeOK, NEW k, NEW d, k = NoKey \/ LiveRows(k) = {},
           NEW j \in JobIds, jobs' = [jobs EXCEPT ![j] = NewRow(k, d)]
    PROVE  OneLiveRowPerKey'
  <1>1. jobs \in [JobIds -> Row]
    BY DEF TypeOK
  <1>2. NewRow(k, d).key = k /\ NewRow(k, d).state = "pending"
    BY DEF NewRow, NoRow
  <1>3. \A i \in JobIds : i /= j => jobs'[i] = jobs[i]
    BY <1>1
  <1>4. jobs'[j] = NewRow(k, d)
    BY <1>1
  <1>5. \A i \in JobIds : k /= NoKey /\ jobs[i].key = k => jobs[i].state \notin {"pending", "deferred"}
    BY DEF LiveRows, Live
  <1> QED BY <1>2, <1>3, <1>4, <1>5 DEF OneLiveRowPerKey

\* Flushing fail()'s parking verdict leaves the row out of the waiting states unless it was in them.
LEMMA FlushParked ==
    ASSUME NEW row \in Row, NEW snap \in Row
    PROVE  /\ Flush(row, snap, Failed(snap, "parked")).key = row.key
           /\ Flush(row, snap, Failed(snap, "parked")).state \in {"parked", row.state}
  BY DEF Flush, Failed, Row

\* The index is never circumvented: no interleaving leaves two rows of a key waiting.
THEOREM LiveRowsAreUnique == Spec => []OneLiveRowPerKey
  <1>1. Init => OneLiveRowPerKey
    BY DEF Init, OneLiveRowPerKey, NoRow
  <1>2. TypeOK /\ OneLiveRowPerKey /\ [Next]_vars => OneLiveRowPerKey'
    <2> SUFFICES ASSUME TypeOK, OneLiveRowPerKey, [Next]_vars PROVE OneLiveRowPerKey'
      OBVIOUS
    <2>0. /\ jobs \in [JobIds -> Row] /\ \A w \in Workers : Busy(w) => Mine(w) \in JobIds
          /\ \A w \in Workers : worker[w].snap \in Row
      BY DEF TypeOK, Worker
    <2>1. ASSUME NEW k \in Keys \cup {NoKey}, NEW d \in Delays, Enqueue(k, d) PROVE OneLiveRowPerKey'
      <3>1. CASE (k = NoKey \/ LiveRows(k) = {}) /\ \E j \in FreeIds : jobs' = [jobs EXCEPT ![j] = NewRow(k, d)]
        BY <3>1, InsertKeepsIndex DEF FreeIds
      <3>2. CASE \E j \in LiveRows(k) :
                    jobs' = IF jobs[j].state = "deferred"
                            THEN [jobs EXCEPT ![j].state = "pending", ![j].wait = d]
                            ELSE jobs
        <4>1. PICK j \in JobIds : /\ jobs[j].state \in Live
                                  /\ jobs' = IF jobs[j].state = "deferred"
                                             THEN [jobs EXCEPT ![j].state = "pending", ![j].wait = d]
                                             ELSE jobs
          BY <3>2 DEF LiveRows
        <4>2. \A i \in JobIds : jobs'[i].key = jobs[i].key /\ (jobs'[i].state \in Live => jobs[i].state \in Live)
          BY <2>0, <4>1 DEF Row
        <4> QED BY <4>2, LiveShrinks
      <3> QED BY <2>1, <3>1, <3>2 DEF Enqueue
    <2>2. ASSUME NEW k \in Keys, EnqueueBatch(k) PROVE OneLiveRowPerKey'
      BY <2>2, InsertKeepsIndex DEF EnqueueBatch, FreeIds
    <2>3. ASSUME NEW k \in Keys, DismissJobsFor(k) PROVE OneLiveRowPerKey'
      <3>1. \A i \in JobIds : jobs'[i].key = jobs[i].key /\ (jobs'[i].state \in Live => jobs[i].state \in Live)
        BY <2>0, <2>3 DEF DismissJobsFor, Live, Row
      <3> QED BY <3>1, LiveShrinks
    <2>4. ASSUME NEW w \in Workers, NEW row, CommitOwn(w, row) PROVE OneLiveRowPerKey'
      <3>1. CASE jobs' = jobs
        BY <3>1 DEF OneLiveRowPerKey
      <3>2. CASE jobs' /= jobs
        BY <2>4, <3>2, IndexIsEnough DEF CommitOwn
      <3> QED BY <3>1, <3>2
    <2>5. ASSUME NEW w \in Workers, NEW j \in JobIds, Claim(w, j) PROVE OneLiveRowPerKey'
      <3>1. \A i \in JobIds : jobs'[i].key = jobs[i].key /\ (jobs'[i].state \in Live => jobs[i].state \in Live)
        BY <2>0, <2>5 DEF Claim, Row
      <3> QED BY <3>1, LiveShrinks
    <2>6. ASSUME NEW w \in Workers, Complete(w) PROVE OneLiveRowPerKey'
      <3>1. Mine(w) \in JobIds
        BY <2>0, <2>6 DEF Complete, Busy
      <3>2. \A i \in JobIds : jobs'[i].key = jobs[i].key /\ (jobs'[i].state \in Live => jobs[i].state \in Live)
        BY <2>0, <2>6, <3>1 DEF Complete, DismissDeferredSiblings, Live, Row
      <3> QED BY <3>2, LiveShrinks
    <2>7. ASSUME NEW w \in Workers, ParkCommit(w) PROVE OneLiveRowPerKey'
      <3>1. Mine(w) \in JobIds
        BY <2>0, <2>7 DEF ParkCommit, Busy
      <3>2. ASSUME NEW i \in JobIds
            PROVE  jobs'[i].key = jobs[i].key /\ (jobs'[i].state \in Live => jobs[i].state \in Live)
        <4>1. CASE i = Mine(w)
          <5>1. jobs'[i] = Flush(jobs[i], worker[w].snap, Failed(worker[w].snap, "parked"))
            BY <2>7, <4>1 DEF ParkCommit
          <5> QED BY <2>0, <5>1, FlushParked DEF Live
        <4>2. CASE i /= Mine(w)
          <5>1. jobs'[i] = jobs[i] \/ jobs'[i] = [jobs[i] EXCEPT !.state = "dismissed"]
            BY <2>7, <4>2 DEF ParkCommit
          <5> QED BY <2>0, <5>1 DEF Live, Row
        <4> QED BY <4>1, <4>2
      <3> QED BY <3>2, LiveShrinks
    <2>8. ASSUME NEW s \in {"boot", "tick"}, ReclaimWrite(s) PROVE OneLiveRowPerKey'
      <3>1. CASE jobs' = jobs
        BY <3>1 DEF OneLiveRowPerKey
      <3>2. CASE jobs' /= jobs
        BY <2>8, <3>2, IndexIsEnough DEF ReclaimWrite
      <3> QED BY <3>1, <3>2
    <2>9. ASSUME NEW j \in JobIds, CancelJob(j) PROVE OneLiveRowPerKey'
      <3>1. \A i \in JobIds : jobs'[i].key = jobs[i].key /\ (jobs'[i].state \in Live => jobs[i].state \in Live)
        BY <2>0, <2>9 DEF CancelJob, Live, Row
      <3> QED BY <3>1, LiveShrinks
    <2>10. CASE RetryJob
      <3>1. CASE jobs' = jobs
        BY <3>1 DEF OneLiveRowPerKey
      <3>2. CASE jobs' /= jobs
        BY <2>10, <3>2, IndexIsEnough DEF RetryJob
      <3> QED BY <3>1, <3>2
    <2>11. CASE DismissJob
      <3>1. \A i \in JobIds : jobs'[i].key = jobs[i].key /\ (jobs'[i].state \in Live => jobs[i].state \in Live)
        BY <2>0, <2>11 DEF DismissJob, Live, Row
      <3> QED BY <3>1, LiveShrinks
    <2>12. CASE Tick
      <3>1. \A i \in JobIds : jobs'[i].key = jobs[i].key /\ (jobs'[i].state \in Live => jobs[i].state \in Live)
        BY <2>0, <2>12 DEF Tick, Row
      <3> QED BY <3>1, LiveShrinks
    <2>13. ASSUME jobs' = jobs PROVE OneLiveRowPerKey'
      BY <2>13 DEF OneLiveRowPerKey
    <2>14. ASSUME NEW w \in Workers, WorkerStep(w) PROVE OneLiveRowPerKey'
      <3>1. CASE Release(w)
        BY <2>4, <3>1 DEF Release
      <3>2. CASE ParkUnknownKind(w)
        BY <2>4, <3>2 DEF ParkUnknownKind
      <3>3. ASSUME NEW defer, NEW max, FailWrite(w, defer, max) PROVE OneLiveRowPerKey'
        BY <2>4, <3>3 DEF FailWrite
      <3>4. ASSUME NEW max, ParkFlush(w, max) PROVE OneLiveRowPerKey'
        BY <2>13, <3>4 DEF ParkFlush
      <3>5. CASE FailRead(w)
        BY <2>13, <3>5 DEF FailRead
      <3> QED BY <2>14, <2>5, <2>6, <2>7, <3>1, <3>2, <3>3, <3>4, <3>5 DEF WorkerStep
    <2>15. ASSUME NEW s \in {"boot", "tick"}, ReclaimRead(s) PROVE OneLiveRowPerKey'
      BY <2>13, <2>15 DEF ReclaimRead
    <2>16. CASE OperatorStep
      <3>1. ASSUME NEW act, NEW j, OperatorRead(act, j) PROVE OneLiveRowPerKey'
        BY <2>13, <3>1 DEF OperatorRead
      <3> QED BY <2>9, <2>10, <2>11, <2>16, <3>1 DEF OperatorStep
    <2>17. CASE Crash
      BY <2>13, <2>17 DEF Crash
    <2>18. CASE UNCHANGED vars
      BY <2>13, <2>18 DEF vars
    <2> QED BY <2>1, <2>2, <2>3, <2>8, <2>12, <2>14, <2>15, <2>16, <2>17, <2>18 DEF Next
  <1> QED BY <1>1, <1>2, TypeCorrect, PTL DEF Spec

-----------------------------------------------------------------------------
(* Ownership, when no handler outlasts the reclaim threshold *)

Retired == {"parked", "dismissed"}

\* OwnedWhileRunning made inductive: the ORM copy was taken from a running row, and
\* the rows a parking sweep or an operator request is about to write are retired ones,
\* so neither can land on a row some worker runs.
Ownership ==
    /\ OwnedWhileRunning
    /\ \A w \in Workers : Busy(w) => worker[w].snap.state = "running"
    /\ \A w \in Workers : worker[w].pc = "parking" => \A i \in worker[w].sibs : jobs[i].state \in Retired
    /\ op.act /= "none" => jobs[op.job].state \in Retired

\* A step that leaves the pool alone keeps Ownership if it keeps what it says of rows.
LEMMA OwnTable ==
    ASSUME TypeOK, Ownership, worker' = worker,
           \A w \in Workers : Busy(w) => /\ jobs'[Mine(w)].state = "running"
                                         /\ jobs'[Mine(w)].age \in 0 .. StaleAfter,
           \A w \in Workers : worker[w].pc = "parking" => \A i \in worker[w].sibs : jobs'[i].state \in Retired,
           op'.act /= "none" => jobs'[op'.job].state \in Retired
    PROVE  Ownership'
  BY DEF Ownership, OwnedWhileRunning, Busy, Mine

\* A worker that settles its own row, and at most dismisses others that nobody runs,
\* keeps everyone else's.
LEMMA OwnSettle ==
    ASSUME TypeOK, Ownership, NEW w \in Workers, Busy(w), op' = op,
           worker' = [worker EXCEPT ![w] = IdleWorker],
           \A j \in JobIds : j /= Mine(w) =>
              \/ jobs'[j] = jobs[j]
              \/ jobs[j].state /= "running" /\ jobs'[j].state = "dismissed"
    PROVE  Ownership'
  <1>1. \A v \in Workers : Busy(v)' => v /= w /\ Busy(v) /\ worker'[v] = worker[v]
    BY DEF TypeOK, Busy, IdleWorker
  <1>2. ASSUME NEW v \in Workers, Busy(v)'
        PROVE  /\ Mine(v)' = Mine(v) /\ Mine(v) \in JobIds /\ Mine(v) /= Mine(w)
               /\ jobs'[Mine(v)] = jobs[Mine(v)] /\ jobs[Mine(v)].state = "running"
               /\ jobs[Mine(v)].age \in 0 .. StaleAfter
    <2>1. v /= w /\ Busy(v) /\ worker'[v] = worker[v]
      BY <1>1, <1>2
    <2>2. Mine(v) \in JobIds /\ Mine(v) /= Mine(w) /\ jobs[Mine(v)].state = "running"
          /\ jobs[Mine(v)].age \in 0 .. StaleAfter
      BY <2>1 DEF TypeOK, Ownership, OwnedWhileRunning
    <2> QED BY <2>1, <2>2 DEF Mine
  <1>3. OwnedWhileRunning'
    <2> SUFFICES ASSUME NEW v \in Workers, Busy(v)'
                 PROVE  /\ jobs'[Mine(v)'].state = "running" /\ jobs'[Mine(v)'].age \in 0 .. StaleAfter
                        /\ \A u \in Workers \ {v} : Busy(u)' => Mine(u)' /= Mine(v)'
      BY DEF OwnedWhileRunning
    <2>1. \A u \in Workers \ {v} : Busy(u)' => Mine(u)' /= Mine(v)'
      <3> SUFFICES ASSUME NEW u \in Workers \ {v}, Busy(u)' PROVE Mine(u)' /= Mine(v)'
        OBVIOUS
      <3>1. Mine(u)' = Mine(u) /\ Mine(v)' = Mine(v) /\ Busy(u) /\ Busy(v)
        BY <1>1, <1>2
      <3> QED BY <3>1 DEF Ownership, OwnedWhileRunning
    <2> QED BY <1>2, <2>1
  <1>4. \A v \in Workers : Busy(v)' => worker'[v].snap.state = "running"
    BY <1>1 DEF Ownership
  <1>5. ASSUME NEW v \in Workers, worker'[v].pc = "parking", NEW i \in worker'[v].sibs
        PROVE  jobs'[i].state \in Retired
    <2>1. Busy(v)'
      BY <1>5 DEF Busy
    <2>2. v /= w /\ worker'[v] = worker[v]
      BY <1>1, <2>1
    <2>3. jobs[i].state \in Retired /\ i \in JobIds
      BY <1>5, <2>2 DEF Ownership, TypeOK, Worker
    <2>4. i /= Mine(w)
      BY <2>3 DEF Ownership, OwnedWhileRunning, Retired
    <2> QED BY <2>3, <2>4 DEF Retired
  <1>6. op'.act /= "none" => jobs'[op'.job].state \in Retired
    <2> SUFFICES ASSUME op.act /= "none" PROVE jobs'[op.job].state \in Retired
      OBVIOUS
    <2>1. op.job \in JobIds /\ jobs[op.job].state \in Retired
      BY DEF TypeOK, Ownership
    <2>2. op.job /= Mine(w)
      BY <2>1 DEF Ownership, OwnedWhileRunning, Retired
    <2> QED BY <2>1, <2>2 DEF Retired
  <1> QED BY <1>3, <1>4, <1>5, <1>6 DEF Ownership

\* The commit of a worker's own row touches no other row.
LEMMA CommitOwnFrame ==
    ASSUME TypeOK, NEW w \in Workers, NEW row, CommitOwn(w, row)
    PROVE  \A j \in JobIds : j /= Mine(w) => jobs'[j] = jobs[j]
  BY DEF CommitOwn, TypeOK

LEMMA OwnWorker ==
    ASSUME TypeOK, Ownership, NEW w \in Workers, WorkerStep(w)
    PROVE  Ownership'
  <1>0. /\ jobs \in [JobIds -> Row] /\ worker \in [Workers -> Worker]
        /\ Busy(w) => Mine(w) \in JobIds
    BY DEF TypeOK
  <1>1. ASSUME NEW j \in JobIds, Claim(w, j) PROVE Ownership'
    <2>1. /\ \A i \in JobIds : i /= j => jobs'[i] = jobs[i]
          /\ jobs'[j].state = "running" /\ jobs'[j].age = 0
      BY <1>0, <1>1 DEF Claim, Row
    <2>2. /\ \A v \in Workers : v /= w => worker'[v] = worker[v]
          /\ worker'[w].pc = "running" /\ worker'[w].job = j /\ worker'[w].snap.state = "running"
      <3>1. \A v \in Workers : v /= w => worker'[v] = worker[v]
        BY <1>0, <1>1 DEF Claim
      <3>2. worker'[w] = [IdleWorker EXCEPT !.pc = "running", !.job = j,
                            !.snap = Copy([jobs[j] EXCEPT !.state = "running", !.age = 0,
                                             !.attempts = IF @ < AttemptCap THEN @ + 1 ELSE @])]
        BY <1>0, <1>1 DEF Claim
      <3>3. Copy([jobs[j] EXCEPT !.state = "running", !.age = 0,
                                 !.attempts = IF @ < AttemptCap THEN @ + 1 ELSE @]).state = "running"
        BY <1>0 DEF Copy, Row
      <3> QED BY <3>1, <3>2, <3>3 DEF IdleWorker
    <2>3. jobs[j].state \in Live /\ ~Busy(w) /\ op' = op
      BY <1>1 DEF Claim
    <2>4. \A v \in Workers : Busy(v) => Mine(v) /= j
      BY <2>3 DEF Ownership, OwnedWhileRunning, Live
    <2>5. OwnedWhileRunning'
      <3> SUFFICES ASSUME NEW v \in Workers, Busy(v)'
                   PROVE  /\ jobs'[Mine(v)'].state = "running" /\ jobs'[Mine(v)'].age \in 0 .. StaleAfter
                          /\ \A u \in Workers \ {v} : Busy(u)' => Mine(u)' /= Mine(v)'
        BY DEF OwnedWhileRunning
      <3>1. CASE v = w
        BY <2>1, <2>2, <2>4, <3>1, TimeAssumption DEF Busy, Mine
      <3>2. CASE v /= w
        <4>1. Busy(v) /\ Mine(v)' = Mine(v) /\ Mine(v) /= j /\ Mine(v) \in JobIds
          BY <2>2, <2>4, <3>2 DEF Busy, Mine, TypeOK
        <4>2. jobs'[Mine(v)] = jobs[Mine(v)]
          BY <2>1, <4>1
        <4>3. ASSUME NEW u \in Workers \ {v}, Busy(u)' PROVE Mine(u)' /= Mine(v)'
          <5>1. CASE u = w
            BY <2>2, <4>1, <5>1 DEF Mine
          <5>2. CASE u /= w
            <6>1. Busy(u) /\ Mine(u)' = Mine(u)
              BY <2>2, <4>3, <5>2 DEF Busy, Mine
            <6> QED BY <4>1, <6>1 DEF Ownership, OwnedWhileRunning
          <5> QED BY <5>1, <5>2
        <4> QED BY <4>1, <4>2, <4>3 DEF Ownership, OwnedWhileRunning
      <3> QED BY <3>1, <3>2
    <2>6. \A v \in Workers : Busy(v)' => worker'[v].snap.state = "running"
      BY <2>2 DEF Ownership, Busy
    <2>7. ASSUME NEW v \in Workers, worker'[v].pc = "parking", NEW i \in worker'[v].sibs
          PROVE  jobs'[i].state \in Retired
      <3>1. v /= w /\ worker'[v] = worker[v]
        BY <2>2, <2>7
      <3>2. jobs[i].state \in Retired /\ i \in JobIds
        BY <2>7, <3>1 DEF Ownership, TypeOK, Worker
      <3>3. i /= j
        BY <2>3, <3>2 DEF Retired, Live
      <3> QED BY <2>1, <3>2, <3>3
    <2>8. op'.act /= "none" => jobs'[op'.job].state \in Retired
      BY <2>1, <2>3 DEF Ownership, TypeOK, Retired, Live
    <2> QED BY <2>5, <2>6, <2>7, <2>8 DEF Ownership
  <1>2. ASSUME NEW row, CommitOwn(w, row), Busy(w), op' = op PROVE Ownership'
    BY <1>2, CommitOwnFrame, OwnSettle DEF CommitOwn
  <1>3. CASE Release(w) \/ ParkUnknownKind(w) \/ \E defer, max : FailWrite(w, defer, max)
    BY <1>2, <1>3 DEF Release, ParkUnknownKind, FailWrite, Busy
  <1>4. CASE Complete(w)
    <2>1. Busy(w) /\ Mine(w) \in JobIds /\ op' = op /\ worker' = [worker EXCEPT ![w] = IdleWorker]
      BY <1>0, <1>4 DEF Complete, Busy
    <2>2. \A j \in JobIds : j /= Mine(w) =>
             jobs'[j] = jobs[j] \/ (jobs[j].state /= "running" /\ jobs'[j].state = "dismissed")
      BY <1>0, <1>4, <2>1 DEF Complete, DismissDeferredSiblings, Row
    <2> QED BY <2>1, <2>2, OwnSettle
  <1>5. CASE FailRead(w)
    <2>1. Busy(w) /\ jobs[Mine(w)].state = "running" /\ worker[w].snap.state = "running"
      BY <1>5 DEF FailRead, Busy, Ownership, OwnedWhileRunning
    <2>2. PICK snap \in Loads(w) :
             worker' = [worker EXCEPT ![w].pc = "failing",
                                      ![w].snap = [snap EXCEPT !.cancel = jobs[Mine(w)].cancel],
                                      ![w].late = jobs[Mine(w)].cancel]
      BY <1>5 DEF FailRead
    <2>3. snap \in Row /\ snap.state = "running"
      <3>1. CASE snap = worker[w].snap
        BY <1>0, <2>1, <3>1 DEF Worker
      <3>2. CASE snap = Copy(jobs[Mine(w)])
        BY <1>0, <2>1, <3>2, CopyType DEF Copy, Row
      <3> QED BY <2>2, <3>1, <3>2 DEF Loads
    <2>4. \A v \in Workers : /\ worker'[v].job = worker[v].job /\ worker'[v].sibs = worker[v].sibs
                             /\ (worker'[v].pc /= "idle") = (worker[v].pc /= "idle")
                             /\ worker'[v].pc = "parking" => worker[v].pc = "parking"
      BY <1>0, <1>5, <2>2 DEF FailRead, Worker
    <2>5. \A v \in Workers : Busy(v)' => worker'[v].snap.state = "running"
      <3>1. [snap EXCEPT !.cancel = jobs[Mine(w)].cancel].state = "running"
        BY <2>3 DEF Row
      <3>2. worker'[w].snap = [snap EXCEPT !.cancel = jobs[Mine(w)].cancel]
        BY <1>0, <2>2 DEF Worker
      <3>3. \A v \in Workers : v /= w => worker'[v] = worker[v]
        BY <1>0, <2>2
      <3> QED BY <3>1, <3>2, <3>3 DEF Ownership, Busy
    <2>6. \A v \in Workers : Busy(v)' = Busy(v) /\ Mine(v)' = Mine(v)
      BY <2>4 DEF Busy, Mine
    <2>7. jobs' = jobs /\ op' = op
      BY <1>5 DEF FailRead
    <2>8. OwnedWhileRunning'
      BY <2>6, <2>7 DEF Ownership, OwnedWhileRunning
    <2>9. \A v \in Workers : worker'[v].pc = "parking" => \A i \in worker'[v].sibs : jobs'[i].state \in Retired
      BY <2>4, <2>7 DEF Ownership
    <2>10. op'.act /= "none" => jobs'[op'.job].state \in Retired
      BY <2>7 DEF Ownership
    <2> QED BY <2>5, <2>8, <2>9, <2>10 DEF Ownership
  <1>6. ASSUME NEW max \in Budgets, ParkFlush(w, max) PROVE Ownership'
    <2>1. /\ worker[w].pc = "failing" /\ jobs' = jobs /\ op' = op
          /\ worker'[w].pc = "parking" /\ worker'[w].job = worker[w].job /\ worker'[w].snap = worker[w].snap
          /\ \A i \in worker'[w].sibs : jobs[i].state = "parked"
          /\ \A v \in Workers : v /= w => worker'[v] = worker[v]
      BY <1>0, <1>6 DEF ParkFlush, Worker
    <2>2. \A v \in Workers : Busy(v)' => Busy(v) /\ Mine(v)' = Mine(v) /\ worker'[v].snap = worker[v].snap
      BY <2>1 DEF Busy, Mine
    <2>3. OwnedWhileRunning'
      BY <2>1, <2>2 DEF Ownership, OwnedWhileRunning
    <2>4. \A v \in Workers : Busy(v)' => worker'[v].snap.state = "running"
      BY <2>2 DEF Ownership
    <2>5. \A v \in Workers : worker'[v].pc = "parking" => \A i \in worker'[v].sibs : jobs'[i].state \in Retired
      BY <2>1 DEF Ownership, Retired
    <2>6. op'.act /= "none" => jobs'[op'.job].state \in Retired
      BY <2>1 DEF Ownership
    <2> QED BY <2>3, <2>4, <2>5, <2>6 DEF Ownership
  <1>7. CASE ParkCommit(w)
    <2>1. Busy(w) /\ Mine(w) \in JobIds /\ op' = op /\ worker' = [worker EXCEPT ![w] = IdleWorker]
      BY <1>0, <1>7 DEF ParkCommit, Busy
    <2>2. \A i \in worker[w].sibs : jobs[i].state \in Retired
      BY <1>7 DEF ParkCommit, Ownership
    <2>3. ASSUME NEW j \in JobIds, j /= Mine(w)
          PROVE  jobs'[j] = jobs[j] \/ (jobs[j].state /= "running" /\ jobs'[j].state = "dismissed")
      <3>1. jobs'[j] = jobs[j] \/ (j \in worker[w].sibs /\ jobs'[j] = [jobs[j] EXCEPT !.state = "dismissed"])
        BY <1>7, <2>3 DEF ParkCommit
      <3> QED BY <1>0, <2>2, <3>1 DEF Retired, Row
    <2> QED BY <2>1, <2>3, OwnSettle
  <1> QED BY <1>1, <1>3, <1>4, <1>5, <1>6, <1>7 DEF WorkerStep

\* The rows a parking transaction holds are locked.
LEMMA SibsLocked ==
    ASSUME NEW w \in Workers, worker[w].pc = "parking"
    PROVE  worker[w].sibs \subseteq Locked
  BY DEF Locked

LEMMA OwnOthers ==
    ASSUME TypeOK, Ownership, ~Slow,
           \/ \E k \in Keys \cup {NoKey}, d \in Delays : Enqueue(k, d)
           \/ \E k \in Keys : EnqueueBatch(k) \/ DismissJobsFor(k)
           \/ \E s \in {"boot", "tick"} : ReclaimRead(s) \/ ReclaimWrite(s)
           \/ OperatorStep \/ Crash \/ Tick
    PROVE  Ownership'
  <1>0. /\ jobs \in [JobIds -> Row] /\ worker \in [Workers -> Worker]
        /\ \A w \in Workers : Busy(w) => /\ Mine(w) \in JobIds /\ jobs[Mine(w)].state = "running"
                                         /\ jobs[Mine(w)].age \in 0 .. StaleAfter
        /\ \A w \in Workers : worker[w].pc = "parking" =>
              \A i \in worker[w].sibs : i \in JobIds /\ i \in Locked /\ jobs[i].state \in Retired
        /\ op.act /= "none" => op.job \in JobIds /\ jobs[op.job].state \in Retired
    BY SibsLocked DEF TypeOK, Ownership, OwnedWhileRunning, Worker
  \* A step that leaves running rows alone and retired rows retired, and the pool and request alone.
  <1>1. ASSUME worker' = worker, op' = op,
               \A j \in JobIds : jobs[j].state = "running" => jobs'[j].state = "running" /\ jobs'[j].age = jobs[j].age,
               \A j \in JobIds : jobs[j].state \in Retired => jobs'[j].state \in Retired
        PROVE  Ownership'
    BY <1>0, <1>1, OwnTable
  <1>2. ASSUME NEW k \in Keys \cup {NoKey}, NEW d \in Delays, Enqueue(k, d) PROVE Ownership'
    <2>1. \A j \in JobIds : jobs[j].state \notin {"none", "deferred"} => jobs'[j] = jobs[j]
      BY <1>0, <1>2 DEF Enqueue, FreeIds, LiveRows, Live
    <2> QED BY <1>1, <1>2, <2>1 DEF Enqueue, Retired
  <1>3. ASSUME NEW k \in Keys, EnqueueBatch(k) PROVE Ownership'
    <2>1. \A j \in JobIds : jobs[j].state /= "none" => jobs'[j] = jobs[j]
      BY <1>0, <1>3 DEF EnqueueBatch, FreeIds
    <2> QED BY <1>1, <1>3, <2>1 DEF EnqueueBatch, Retired
  <1>4. ASSUME NEW k \in Keys, DismissJobsFor(k) PROVE Ownership'
    <2>1. \A j \in JobIds : \/ jobs'[j] = jobs[j]
                            \/ jobs[j].state /= "running" /\ jobs'[j].state = "dismissed"
      BY <1>0, <1>4 DEF DismissJobsFor, Live, Row
    <2> QED BY <1>1, <1>4, <2>1 DEF DismissJobsFor, Retired
  <1>5. ASSUME NEW s \in {"boot", "tick"}, ReclaimRead(s) PROVE Ownership'
    BY <1>1, <1>5 DEF ReclaimRead
  <1>6. ASSUME NEW s \in {"boot", "tick"}, ReclaimWrite(s) PROVE Ownership'
    <2>1. sweep[s].lapse \in Nat
      BY TimeAssumption DEF TypeOK, Sweep
    <2>2. \A w \in Workers : Busy(w) => ~Stale(Mine(w), sweep[s].lapse)
      BY <1>0, <2>1, TimeAssumption DEF Stale
    <2>3. \A j \in JobIds : ~Stale(j, sweep[s].lapse) => jobs'[j] = jobs[j]
      BY <1>0, <1>6 DEF ReclaimWrite, Reclaimed
    <2>4. \A j \in JobIds : jobs[j].state /= "running" => jobs'[j] = jobs[j]
      BY <2>3 DEF Stale
    <2>5. worker' = worker /\ op' = op
      BY <1>6 DEF ReclaimWrite
    <2>6. \A w \in Workers : Busy(w) => jobs'[Mine(w)].state = "running" /\ jobs'[Mine(w)].age \in 0 .. StaleAfter
      BY <1>0, <2>2, <2>3
    <2>7. \A w \in Workers : worker[w].pc = "parking" => \A i \in worker[w].sibs : jobs'[i].state \in Retired
      BY <1>0, <2>4 DEF Retired
    <2>8. op'.act /= "none" => jobs'[op'.job].state \in Retired
      BY <1>0, <2>4, <2>5 DEF Retired
    <2> QED BY <2>5, <2>6, <2>7, <2>8, OwnTable
  <1>7. ASSUME NEW j \in JobIds, CancelJob(j) PROVE Ownership'
    <2>1. \A i \in JobIds : \/ jobs'[i] = jobs[i]
                            \/ jobs[i].state \in Live /\ jobs'[i].state = "dismissed"
                            \/ jobs[i].state = "running" /\ jobs'[i].state = "running" /\ jobs'[i].age = jobs[i].age
      BY <1>0, <1>7 DEF CancelJob, Row
    <2> QED BY <1>1, <1>7, <2>1 DEF CancelJob, Retired, Live
  <1>8. ASSUME NEW act \in {"retry", "dismiss"}, NEW j \in JobIds, OperatorRead(act, j) PROVE Ownership'
    BY <1>0, <1>8, OwnTable DEF OperatorRead, Retired
  <1>9. CASE RetryJob \/ DismissJob
    <2>1. /\ op.act /= "none" /\ op.job \notin Locked /\ op'.act = "none" /\ worker' = worker
          /\ \A i \in JobIds : i /= op.job => jobs'[i] = jobs[i]
      BY <1>0, <1>9 DEF RetryJob, DismissJob, NoRequest
    <2>2. \A w \in Workers : Busy(w) => Mine(w) /= op.job
      BY <1>0, <2>1 DEF Retired
    <2> QED BY <1>0, <2>1, <2>2, OwnTable
  <1>10. CASE Crash
    BY <1>10 DEF Crash, Ownership, OwnedWhileRunning, Busy, IdleWorker, NoRequest
  <1>11. CASE Tick
    <2>1. \A j \in JobIds : jobs'[j].state = jobs[j].state
      BY <1>0, <1>11 DEF Tick, Row
    <2>2. ASSUME NEW w \in Workers, Busy(w) PROVE jobs'[Mine(w)].age \in 0 .. StaleAfter
      <3>1. jobs[Mine(w)].age < StaleAfter
        BY <1>11, <2>2 DEF Tick
      <3>2. jobs'[Mine(w)].age \in {jobs[Mine(w)].age, jobs[Mine(w)].age + 1}
        BY <1>0, <1>11, <2>2 DEF Tick, Row
      <3> QED BY <1>0, <2>2, <3>1, <3>2, TimeAssumption
    <2> QED BY <1>0, <1>11, <2>1, <2>2, OwnTable DEF Tick
  <1> QED BY <1>2, <1>3, <1>4, <1>5, <1>6, <1>7, <1>8, <1>9, <1>10, <1>11 DEF OperatorStep

LEMMA OwnershipHolds == ASSUME ~Slow PROVE Spec => []Ownership
  <1>1. Init => Ownership
    BY DEF Init, Ownership, OwnedWhileRunning, Busy, IdleWorker, NoRequest
  <1>2. TypeOK /\ Ownership /\ [Next]_vars => Ownership'
    <2> SUFFICES ASSUME TypeOK, Ownership, [Next]_vars PROVE Ownership'
      OBVIOUS
    <2>1. CASE UNCHANGED vars
      BY <2>1 DEF vars, Ownership, OwnedWhileRunning, Busy, Mine
    <2> QED BY <2>1, OwnWorker, OwnOthers DEF Next
  <1> QED BY <1>1, <1>2, TypeCorrect, PTL DEF Spec

\* No reclaim, sweep or operator door takes a row from the worker that runs it, and no
\* two workers run one row, provided no handler outlasts the reclaim threshold.
THEOREM RunningRowsAreOwned == ASSUME ~Slow PROVE Spec => []OwnedWhileRunning
  <1>1. Ownership => OwnedWhileRunning
    BY DEF Ownership
  <1> QED BY <1>1, OwnershipHolds, PTL

-----------------------------------------------------------------------------
(* Consequences of Ownership *)

\* Every write a worker makes to a row other than the one it runs dismisses a deferred
\* or retired row; the one it runs is running.
LEMMA WorkerWrites ==
    ASSUME TypeOK, Ownership, NEW w \in Workers, WorkerStep(w), NEW i \in JobIds
    PROVE  \/ jobs'[i] = jobs[i]
           \/ jobs[i].state = "running" /\ Busy(w) /\ i = Mine(w)
           \/ jobs[i].state \in Live /\ Claim(w, i)
           \/ jobs[i].state \in Retired \cup {"deferred"} /\ jobs'[i].state = "dismissed"
  <1>0. /\ jobs \in [JobIds -> Row] /\ (Busy(w) => Mine(w) \in JobIds /\ jobs[Mine(w)].state = "running")
    BY DEF TypeOK, Ownership, OwnedWhileRunning
  <1>1. ASSUME NEW j \in JobIds, Claim(w, j)
        PROVE  jobs'[i] = jobs[i] \/ (jobs[i].state \in Live /\ Claim(w, i))
    BY <1>0, <1>1 DEF Claim
  <1>2. CASE Release(w) \/ ParkUnknownKind(w) \/ \E defer, max : FailWrite(w, defer, max)
    <2>1. Busy(w) /\ \E row : CommitOwn(w, row)
      BY <1>2 DEF Release, ParkUnknownKind, FailWrite, Busy
    <2> QED BY <1>0, <2>1, CommitOwnFrame
  <1>3. CASE Complete(w)
    <2>1. Busy(w)
      BY <1>3 DEF Complete, Busy
    <2>2. i /= Mine(w) => jobs'[i] = jobs[i] \/ (jobs[i].state = "deferred" /\ jobs'[i].state = "dismissed")
      BY <1>0, <1>3, <2>1 DEF Complete, DismissDeferredSiblings, Row
    <2> QED BY <1>0, <2>1, <2>2
  <1>4. CASE ParkCommit(w)
    <2>1. Busy(w) /\ \A j \in worker[w].sibs : jobs[j].state \in Retired
      BY <1>4 DEF ParkCommit, Busy, Ownership
    <2>2. i /= Mine(w) => jobs'[i] = jobs[i] \/ (i \in worker[w].sibs /\ jobs'[i] = [jobs[i] EXCEPT !.state = "dismissed"])
      BY <1>4 DEF ParkCommit
    <2> QED BY <1>0, <2>1, <2>2 DEF Row
  <1>5. CASE FailRead(w) \/ \E max : ParkFlush(w, max)
    BY <1>5 DEF FailRead, ParkFlush
  <1> QED BY <1>1, <1>2, <1>3, <1>4, <1>5 DEF WorkerStep

\* The same for the steps of everyone else.
LEMMA OtherWrites ==
    ASSUME TypeOK, Ownership, NEW i \in JobIds,
           \/ \E k \in Keys \cup {NoKey}, d \in Delays : Enqueue(k, d)
           \/ \E k \in Keys : EnqueueBatch(k) \/ DismissJobsFor(k)
           \/ \E s \in {"boot", "tick"} : ReclaimRead(s) \/ ReclaimWrite(s)
           \/ OperatorStep \/ Crash \/ Tick
    PROVE  \/ jobs[i].state = jobs'[i].state /\ jobs'[i].key = jobs[i].key
           \/ jobs[i].state = "none"
           \/ jobs[i].state \in {"deferred", "running"} \cup Retired /\ jobs'[i].key = jobs[i].key
           \/ jobs[i].state = "pending" /\ (CancelJob(i) \/ \E k \in Keys : DismissJobsFor(k) /\ jobs[i].key = k)
  <1>0. jobs \in [JobIds -> Row] /\ (op.act /= "none" => op.job \in JobIds /\ jobs[op.job].state \in Retired)
    BY DEF TypeOK, Ownership
  <1>1. ASSUME NEW k \in Keys \cup {NoKey}, NEW d \in Delays, Enqueue(k, d)
        PROVE  jobs'[i] = jobs[i] \/ jobs[i].state = "none" \/ (jobs[i].state = "deferred" /\ jobs'[i].key = jobs[i].key)
    <2>1. CASE \E j \in FreeIds : jobs' = [jobs EXCEPT ![j] = NewRow(k, d)]
      BY <1>0, <2>1 DEF FreeIds
    <2>2. CASE \E j \in LiveRows(k) :
                  jobs' = IF jobs[j].state = "deferred"
                          THEN [jobs EXCEPT ![j].state = "pending", ![j].wait = d]
                          ELSE jobs
      BY <1>0, <2>2 DEF LiveRows, Row
    <2> QED BY <1>1, <2>1, <2>2 DEF Enqueue
  <1>2. ASSUME NEW k \in Keys, EnqueueBatch(k) PROVE jobs'[i] = jobs[i] \/ jobs[i].state = "none"
    BY <1>0, <1>2 DEF EnqueueBatch, FreeIds
  <1>3. ASSUME NEW k \in Keys, DismissJobsFor(k)
        PROVE  jobs'[i] = jobs[i] \/ (jobs[i].state \in Live \cup {"parked"} /\ jobs[i].key = k /\ jobs'[i].key = k)
    BY <1>0, <1>3 DEF DismissJobsFor, Row
  <1>4. ASSUME NEW s \in {"boot", "tick"}, ReclaimRead(s) \/ ReclaimWrite(s)
        PROVE  jobs'[i] = jobs[i] \/ (jobs[i].state = "running" /\ jobs'[i].key = jobs[i].key)
    <2>1. jobs' = jobs \/ jobs' = Reclaimed(s)
      BY <1>4 DEF ReclaimRead, ReclaimWrite
    <2>2. Reclaimed(s)[i] = jobs[i] \/ (jobs[i].state = "running" /\ Reclaimed(s)[i].key = jobs[i].key)
      BY <1>0 DEF Reclaimed, Stale, Row
    <2> QED BY <2>1, <2>2
  <1>5. ASSUME NEW j \in JobIds, CancelJob(j)
        PROVE  \/ jobs'[i] = jobs[i]
               \/ jobs[i].state \in Live \cup {"running"} /\ CancelJob(i) /\ jobs'[i].key = jobs[i].key
    BY <1>0, <1>5 DEF CancelJob, Row
  <1>6. CASE RetryJob \/ DismissJob
    <2>1. jobs'[i] = jobs[i] \/ (i = op.job /\ op.act /= "none" /\ jobs'[i].key = jobs[i].key)
      BY <1>0, <1>6 DEF RetryJob, DismissJob, Row
    <2> QED BY <1>0, <2>1
  <1>7. ASSUME NEW act, NEW j, OperatorRead(act, j) PROVE jobs' = jobs
    BY <1>7 DEF OperatorRead
  <1>8. CASE Crash
    BY <1>8 DEF Crash
  <1>9. CASE Tick
    BY <1>0, <1>9 DEF Tick, Row
  <1> QED BY <1>1, <1>2, <1>3, <1>4, <1>5, <1>6, <1>7, <1>8, <1>9 DEF OperatorStep, Live, Retired

\* A finished job is never run again: done is for good, whatever sweep, late failure or
\* operator request was under way when it was written.
THEOREM DoneIsFinal == ASSUME ~Slow PROVE Spec => DoneStaysDone
  <1>1. TypeOK /\ Ownership /\ [Next]_vars
        => [\A j \in JobIds : jobs[j].state = "done" => jobs'[j].state = "done"]_vars
    <2> SUFFICES ASSUME TypeOK, Ownership, [Next]_vars, NEW j \in JobIds, jobs[j].state = "done"
                 PROVE  jobs'[j].state = "done"
      OBVIOUS
    <2>1. CASE UNCHANGED vars
      BY <2>1 DEF vars
    <2>2. ASSUME NEW w \in Workers, WorkerStep(w) PROVE jobs'[j].state = "done"
      BY <2>2, WorkerWrites DEF Live, Retired
    <2>3. CASE \/ \E k \in Keys \cup {NoKey}, d \in Delays : Enqueue(k, d)
               \/ \E k \in Keys : EnqueueBatch(k) \/ DismissJobsFor(k)
               \/ \E s \in {"boot", "tick"} : ReclaimRead(s) \/ ReclaimWrite(s)
               \/ OperatorStep \/ Crash \/ Tick
      BY <2>3, OtherWrites DEF Retired
    <2> QED BY <2>1, <2>2, <2>3 DEF Next
  <1> QED BY <1>1, TypeCorrect, OwnershipHolds, PTL DEF Spec, DoneStaysDone

\* What keeps an owed key covered: a pending row of that key stays pending.
LEMMA PendingStays ==
    ASSUME NoEventLost,
           \A k \in Keys : owed'[k] => owed[k],
           \A k \in Keys, j \in JobIds :
              owed'[k] /\ jobs[j].key = k /\ jobs[j].state = "pending"
              => jobs'[j].key = k /\ jobs'[j].state = "pending"
    PROVE  NoEventLost'
  BY DEF NoEventLost

\* An event is owed an attempt until one starts: debouncing, waking, failing, reclaiming
\* and the sibling sweeps never drop the pending row that stands for it.
THEOREM EventsAreKept == ASSUME ~Slow PROVE Spec => []NoEventLost
  <1>1. Init => NoEventLost
    BY DEF Init, NoEventLost
  <1>2. TypeOK /\ Ownership /\ NoEventLost /\ [Next]_vars => NoEventLost'
    <2> SUFFICES ASSUME TypeOK, Ownership, NoEventLost, [Next]_vars PROVE NoEventLost'
      OBVIOUS
    <2>0. jobs \in [JobIds -> Row] /\ owed \in [Keys -> BOOLEAN]
      BY DEF TypeOK
    <2>1. ASSUME NEW k \in Keys \cup {NoKey}, NEW d \in Delays, Enqueue(k, d) PROVE NoEventLost'
      <3>1. \A j \in JobIds : jobs[j].state = "pending" => jobs'[j] = jobs[j]
        BY <2>0, <2>1 DEF Enqueue, FreeIds, LiveRows
      <3>2. k \in Keys => \E j \in JobIds : jobs'[j].key = k /\ jobs'[j].state = "pending"
        <4>1. CASE \E j \in FreeIds : jobs' = [jobs EXCEPT ![j] = NewRow(k, d)]
          BY <2>0, <4>1 DEF FreeIds, NewRow, NoRow
        <4>2. CASE \E j \in LiveRows(k) :
                      jobs' = IF jobs[j].state = "deferred"
                              THEN [jobs EXCEPT ![j].state = "pending", ![j].wait = d]
                              ELSE jobs
          <5>1. PICK j \in JobIds : /\ jobs[j].key = k /\ jobs[j].state \in Live
                                    /\ jobs' = IF jobs[j].state = "deferred"
                                               THEN [jobs EXCEPT ![j].state = "pending", ![j].wait = d]
                                               ELSE jobs
            BY <4>2 DEF LiveRows
          <5>2. jobs'[j].key = k /\ jobs'[j].state = "pending"
            BY <2>0, <5>1 DEF Live, Row
          <5> QED BY <5>2
        <4> QED BY <2>1, <4>1, <4>2 DEF Enqueue
      <3>3. \A l \in Keys : l /= k => (owed'[l] => owed[l])
        BY <2>0, <2>1 DEF Enqueue
      <3> QED BY <3>1, <3>2, <3>3 DEF NoEventLost
    <2>2. ASSUME NEW k \in Keys, EnqueueBatch(k) PROVE NoEventLost'
      <3>1. PICK j \in FreeIds : jobs' = [jobs EXCEPT ![j] = NewRow(k, 0)]
        BY <2>2 DEF EnqueueBatch
      <3>2. j \in JobIds /\ jobs'[j].key = k /\ jobs'[j].state = "pending"
        BY <2>0, <3>1 DEF FreeIds, NewRow, NoRow
      <3>3. \A i \in JobIds : jobs[i].state = "pending" => jobs'[i] = jobs[i]
        BY <2>0, <3>1 DEF FreeIds
      <3>4. \A l \in Keys : l /= k => (owed'[l] => owed[l])
        BY <2>0, <2>2 DEF EnqueueBatch
      <3> QED BY <3>2, <3>3, <3>4 DEF NoEventLost
    <2>3. ASSUME NEW w \in Workers, NEW i \in JobIds, Claim(w, i) PROVE NoEventLost'
      <3>1. \A j \in JobIds : j /= i => jobs'[j] = jobs[j]
        BY <2>0, <2>3 DEF Claim
      <3>2. \A k \in Keys : (owed'[k] => owed[k]) /\ (k = jobs[i].key => ~owed'[k])
        BY <2>0, <2>3, KeysAssumption DEF Claim
      <3> QED BY <3>1, <3>2, PendingStays
    <2>4. ASSUME NEW w \in Workers, WorkerStep(w), \A i \in JobIds : ~Claim(w, i) PROVE NoEventLost'
      <3>1. \A j \in JobIds : jobs[j].state = "pending" => jobs'[j] = jobs[j]
        BY <2>4, WorkerWrites DEF Retired
      <3>2. owed' = owed
        BY <2>4 DEF WorkerStep, Release, ParkUnknownKind, Complete, FailRead, FailWrite, ParkFlush, ParkCommit
      <3> QED BY <3>1, <3>2, PendingStays
    <2>5. ASSUME NEW i \in JobIds, CancelJob(i) PROVE NoEventLost'
      <3>1. \A j \in JobIds : j /= i => jobs'[j] = jobs[j]
        BY <2>0, <2>5 DEF CancelJob
      <3>2. \A k \in Keys : owed'[k] => owed[k]
        BY <2>0, <2>5 DEF CancelJob
      <3>3. jobs[i].state = "pending" => \A k \in Keys : k = jobs[i].key => ~owed'[k]
        BY <2>0, <2>5, KeysAssumption DEF CancelJob
      <3> QED BY <3>1, <3>2, <3>3, PendingStays
    <2>6. ASSUME NEW k \in Keys, DismissJobsFor(k) PROVE NoEventLost'
      <3>1. \A j \in JobIds : jobs[j].key /= k => jobs'[j] = jobs[j]
        BY <2>0, <2>6 DEF DismissJobsFor
      <3>2. ~owed'[k] /\ \A l \in Keys : owed'[l] => owed[l]
        BY <2>0, <2>6 DEF DismissJobsFor
      <3> QED BY <3>1, <3>2, PendingStays
    <2>7. ASSUME \/ \E s \in {"boot", "tick"} : ReclaimRead(s) \/ ReclaimWrite(s)
                 \/ RetryJob \/ DismissJob \/ \E act, j : OperatorRead(act, j)
                 \/ Crash \/ Tick \/ UNCHANGED vars
          PROVE  NoEventLost'
      <3>1. owed' = owed
        BY <2>7 DEF ReclaimRead, ReclaimWrite, RetryJob, DismissJob, OperatorRead, Crash, Tick, vars
      <3>2. op.act /= "none" => op.job \in JobIds /\ jobs[op.job].state \in Retired
        BY DEF TypeOK, Ownership
      <3>3. ASSUME NEW j \in JobIds, jobs[j].state = "pending"
            PROVE  jobs'[j].key = jobs[j].key /\ jobs'[j].state = "pending"
        <4>1. ASSUME NEW s \in {"boot", "tick"}, ReclaimRead(s) \/ ReclaimWrite(s) PROVE jobs'[j] = jobs[j]
          <5>1. jobs' = jobs \/ jobs' = Reclaimed(s)
            BY <4>1 DEF ReclaimRead, ReclaimWrite
          <5>2. Reclaimed(s)[j] = jobs[j]
            BY <3>3 DEF Reclaimed, Stale
          <5> QED BY <5>1, <5>2
        <4>2. CASE RetryJob \/ DismissJob
          BY <2>0, <3>2, <3>3, <4>2 DEF RetryJob, DismissJob, Retired
        <4>3. CASE Tick
          BY <2>0, <3>3, <4>3 DEF Tick, Row
        <4>4. CASE Crash \/ UNCHANGED vars \/ \E act, i : OperatorRead(act, i)
          BY <3>3, <4>4 DEF Crash, vars, OperatorRead
        <4> QED BY <2>7, <3>3, <4>1, <4>2, <4>3, <4>4
      <3> QED BY <3>1, <3>3, PendingStays
    <2>8. ASSUME NEW w \in Workers, WorkerStep(w) PROVE NoEventLost'
      BY <2>3, <2>4, <2>8
    <2> QED BY <2>1, <2>2, <2>5, <2>6, <2>7, <2>8 DEF Next, OperatorStep
  <1> QED BY <1>1, <1>2, TypeCorrect, OwnershipHolds, PTL DEF Spec

-----------------------------------------------------------------------------
(* A cancel that fail() has read *)

\* What CancelStopsTheJob's history field says of the worker that carries it: fail() has
\* refreshed cancel_requested and has not written its verdict yet.
Honouring == \A w \in Workers : worker[w].late => worker[w].pc = "failing" /\ worker[w].snap.cancel

LEMMA HonouringHolds == Spec => []Honouring
  <1>1. Init => Honouring
    BY DEF Init, Honouring, IdleWorker
  <1>2. TypeOK /\ Honouring /\ [Next]_vars => Honouring'
    <2> SUFFICES ASSUME TypeOK, Honouring, [Next]_vars PROVE Honouring'
      OBVIOUS
    <2>0. /\ worker \in [Workers -> Worker] /\ jobs \in [JobIds -> Row]
          /\ \A w \in Workers : Busy(w) => Mine(w) \in JobIds
      BY DEF TypeOK
    <2>1. ASSUME NEW w \in Workers, WorkerStep(w) PROVE Honouring'
      <3>1. \A v \in Workers : v /= w => worker'[v] = worker[v]
        BY <2>0, <2>1 DEF WorkerStep, Claim, Release, ParkUnknownKind, Complete, FailRead, FailWrite,
                          ParkFlush, ParkCommit, CommitOwn
      <3>2. worker'[w].late => worker'[w].pc = "failing" /\ worker'[w].snap.cancel
        <4>1. ASSUME NEW j \in JobIds, Claim(w, j) PROVE ~worker'[w].late
          BY <2>0, <4>1 DEF Claim, IdleWorker
        <4>2. CASE Release(w) \/ ParkUnknownKind(w) \/ Complete(w) \/ ParkCommit(w)
                   \/ \E defer, max : FailWrite(w, defer, max)
          <5>1. worker' = [worker EXCEPT ![w] = IdleWorker]
            BY <4>2 DEF Release, ParkUnknownKind, Complete, ParkCommit, FailWrite, CommitOwn
          <5>2. ~IdleWorker.late
            BY DEF IdleWorker
          <5> QED BY <2>0, <5>1, <5>2
        <4>3. CASE FailRead(w)
          <5>1. PICK snap \in Loads(w) :
                   worker' = [worker EXCEPT ![w].pc = "failing",
                                            ![w].snap = [snap EXCEPT !.cancel = jobs[Mine(w)].cancel],
                                            ![w].late = jobs[Mine(w)].cancel]
            BY <4>3 DEF FailRead
          <5>2. Busy(w) /\ Mine(w) \in JobIds
            BY <2>0, <4>3 DEF FailRead, Busy
          <5>3. snap \in Row
            BY <2>0, <5>2, CopyType DEF Loads, Worker
          <5>4. /\ worker'[w].pc = "failing" /\ worker'[w].late = jobs[Mine(w)].cancel
                /\ worker'[w].snap = [snap EXCEPT !.cancel = jobs[Mine(w)].cancel]
            BY <2>0, <5>1 DEF Worker
          <5> QED BY <5>3, <5>4 DEF Row
        <4>4. ASSUME NEW max, ParkFlush(w, max) PROVE ~worker'[w].late
          BY <2>0, <4>4 DEF ParkFlush, Verdict, Honouring, Worker
        <4> QED BY <2>1, <4>1, <4>2, <4>3, <4>4 DEF WorkerStep
      <3> QED BY <3>1, <3>2 DEF Honouring
    <2>2. CASE Crash
      BY <2>2 DEF Crash, Honouring, IdleWorker
    <2>3. CASE worker' = worker
      BY <2>3 DEF Honouring
    <2>4. CASE \/ \E k \in Keys \cup {NoKey}, d \in Delays : Enqueue(k, d)
               \/ \E k \in Keys : EnqueueBatch(k) \/ DismissJobsFor(k)
               \/ \E s \in {"boot", "tick"} : ReclaimRead(s) \/ ReclaimWrite(s)
               \/ OperatorStep \/ Tick \/ UNCHANGED vars
      BY <2>3, <2>4 DEF Enqueue, EnqueueBatch, DismissJobsFor, ReclaimRead, ReclaimWrite, OperatorStep,
                        CancelJob, OperatorRead, RetryJob, DismissJob, Tick, vars
    <2> QED BY <2>1, <2>2, <2>4 DEF Next
  <1> QED BY <1>1, <1>2, TypeCorrect, PTL DEF Spec

\* A dismissal never meets the index: it takes a row out of it.
LEMMA DismissalIsAdmitted ==
    ASSUME OneLiveRowPerKey, jobs \in [JobIds -> Row], NEW j \in JobIds,
           NEW row \in Row, row.state = "dismissed"
    PROVE  IndexHolds([jobs EXCEPT ![j] = row])
  BY DEF OneLiveRowPerKey, IndexHolds, Live, Row

\* fail() works on a copy of the row as old as the claim, and still a cancel it has read
\* ends the job: the copy says running, so the verdict differs and reaches the UPDATE, and
\* the index has nothing against it.
THEOREM ReadCancelsEndTheJob == ASSUME ~Slow PROVE Spec => CancelStopsTheJob
  <1>1. TypeOK /\ Ownership /\ OneLiveRowPerKey /\ Honouring /\ [Next]_vars
        => [\A w \in Workers :
              worker[w].late /\ ~worker'[w].late /\ up' => jobs'[Mine(w)].state = "dismissed"]_vars
    <2> SUFFICES ASSUME TypeOK, Ownership, OneLiveRowPerKey, Honouring, [Next]_vars,
                        NEW w \in Workers, worker[w].late, ~worker'[w].late, up'
                 PROVE  jobs'[Mine(w)].state = "dismissed"
      OBVIOUS
    <2>0. /\ worker \in [Workers -> Worker] /\ jobs \in [JobIds -> Row]
          /\ worker[w].pc = "failing" /\ worker[w].snap.cancel /\ worker[w].snap \in Row
          /\ Busy(w) /\ Mine(w) \in JobIds /\ worker[w].snap.state = "running"
      BY DEF TypeOK, Worker, Honouring, Busy, Ownership
    <2>1. ASSUME NEW v \in Workers, WorkerStep(v) PROVE v = w
      BY <2>0, <2>1 DEF WorkerStep, Claim, Release, ParkUnknownKind, Complete, FailRead, FailWrite,
                        ParkFlush, ParkCommit, CommitOwn
    <2>2. ASSUME NEW defer, NEW max, FailWrite(w, defer, max) PROVE jobs'[Mine(w)].state = "dismissed"
      <3> DEFINE row == jobs[Mine(w)]
                 snap == worker[w].snap
                 new == [Flush(row, snap, Failed(snap, "dismissed")) EXCEPT
                           !.wait = FailedWait(row, snap, "dismissed")]
      <3>1. Verdict(snap, defer, max) = "dismissed"
        BY <2>0 DEF Verdict
      <3>2. CommitOwn(w, new)
        BY <2>2, <3>1 DEF FailWrite
      <3>3. Flush(row, snap, Failed(snap, "dismissed")) \in Row
            /\ Flush(row, snap, Failed(snap, "dismissed")).state = "dismissed"
        <4>1. row \in Row /\ Failed(snap, "dismissed") \in Row
          BY <2>0, FailedType DEF States
        <4>2. Failed(snap, "dismissed").state = "dismissed"
          BY <2>0 DEF Failed, Row
        <4>3. Flush(row, snap, Failed(snap, "dismissed")).state = "dismissed"
          BY <2>0, <4>1, <4>2 DEF Flush, Row
        <4> QED BY <2>0, <4>1, <4>3, FlushType
      <3>4. FailedWait(row, snap, "dismissed") \in Nat
        BY <2>0, FailedWaitType
      <3>5. new \in Row /\ new.state = "dismissed"
        BY <3>3, <3>4 DEF Row
      <3>6. jobs' = [jobs EXCEPT ![Mine(w)] = new]
        BY <2>0, <3>2, <3>5, DismissalIsAdmitted DEF CommitOwn
      <3> QED BY <2>0, <3>5, <3>6
    <2>3. CASE WorkerStep(w)
      <3>1. \A j \in JobIds : ~Claim(w, j)
        BY <2>0 DEF Claim
      <3>2. ~Release(w) /\ ~ParkUnknownKind(w) /\ ~Complete(w) /\ ~FailRead(w) /\ ~ParkCommit(w)
        BY <2>0 DEF Release, ParkUnknownKind, Complete, FailRead, ParkCommit
      <3>3. \A max : ~ParkFlush(w, max)
        BY <2>0 DEF ParkFlush, Verdict
      <3> QED BY <2>2, <2>3, <3>1, <3>2, <3>3 DEF WorkerStep
    <2>4. CASE Crash
      BY <2>4 DEF Crash
    <2>5. CASE \/ \E k \in Keys \cup {NoKey}, d \in Delays : Enqueue(k, d)
               \/ \E k \in Keys : EnqueueBatch(k) \/ DismissJobsFor(k)
               \/ \E s \in {"boot", "tick"} : ReclaimRead(s) \/ ReclaimWrite(s)
               \/ OperatorStep \/ Tick \/ UNCHANGED vars
      <3>1. worker' = worker
        BY <2>5 DEF Enqueue, EnqueueBatch, DismissJobsFor, ReclaimRead, ReclaimWrite, OperatorStep,
                    CancelJob, OperatorRead, RetryJob, DismissJob, Tick, vars
      <3> QED BY <3>1
    <2> QED BY <2>1, <2>3, <2>4, <2>5 DEF Next
  <1> QED BY <1>1, TypeCorrect, OwnershipHolds, LiveRowsAreUnique, HonouringHolds, PTL
          DEF Spec, CancelStopsTheJob

-----------------------------------------------------------------------------
\* The queue as a whole, for every table, pool and schedule in which no handler outlasts
\* the reclaim threshold: types, one waiting row per key, no lost event, running rows owned.
THEOREM QueueIsSafe == ASSUME ~Slow PROVE Spec => []QueueSafety
  <1>1. TypeOK /\ OneLiveRowPerKey /\ NoEventLost /\ OwnedWhileRunning => QueueSafety
    BY DEF QueueSafety
  <1> QED BY <1>1, TypeCorrect, LiveRowsAreUnique, EventsAreKept, RunningRowsAreOwned, PTL

\* No step takes a done row back or overrules a cancel that fail() has read.
THEOREM QueueStepsHold == ASSUME ~Slow PROVE Spec => QueueSteps
  BY DoneIsFinal, ReadCancelsEndTheJob DEF QueueSteps
=============================================================================
