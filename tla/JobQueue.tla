------------------------------ MODULE JobQueue ------------------------------
(***************************************************************************)
(* The jobs table and the code that writes it: queue/jobs.py (enqueue,     *)
(* claim, release, complete, fail, reclaim_stale), queue/worker.py         *)
(* (run_once) and the operator doors of api/jobs.py, api/routes.py and     *)
(* scheduler/prune.py.                                                     *)
(*                                                                         *)
(* One action is one committed transaction, except where the code reads a  *)
(* row in one statement and writes it in a later one: fail(), the parked   *)
(* sweep, reclaim_stale()'s UPDATE (READ COMMITTED re-checks only its      *)
(* outer WHERE) and retry_job/dismiss_job are two steps each.              *)
(*                                                                         *)
(* Times are relative to the database's now(): wait is run_after - now(),  *)
(* cut off at 0 (due), and age is now() - claimed_at, cut off where no     *)
(* comparison can tell the difference.                                     *)
(***************************************************************************)
EXTENDS Integers, FiniteSets

CONSTANTS
    JobIds,        \* ids of the rows that may be inserted, 1 .. MaxJobs
    Keys,          \* dedupe keys
    NoKey,         \* dedupe_key NULL
    Workers,       \* the worker pool of run_workers
    Delays,        \* enqueue()'s delay_seconds
    Budgets,       \* max_attempts a failure may carry (1, MAX_ATTEMPTS, resolve_max_attempts)
    Backoff,       \* attempts -> delay, BACKOFF_BASE_SECONDS * 2^(attempts - 1)
    DeferInterval, \* DEFER_INTERVAL_SECONDS
    Stagger,       \* RECLAIM_STAGGER_SECONDS
    StaleAfter,    \* reclaim_stale's older_than_seconds
    AttemptCap,    \* bound: attempts saturate here, above every budget
    MaxCrashes,    \* bound: process crashes
    Slow           \* may a handler outlast StaleAfter?

ASSUME JobIdsAssumption == JobIds \subseteq Nat \ {0} /\ IsFiniteSet(JobIds)
ASSUME KeysAssumption == NoKey \notin Keys
ASSUME TimeAssumption ==
    /\ Delays \subseteq Nat
    /\ DeferInterval \in Nat /\ Stagger \in Nat /\ StaleAfter \in Nat
    /\ Backoff \in [0 .. AttemptCap -> Nat]
ASSUME BudgetAssumption ==
    /\ AttemptCap \in Nat \ {0}
    /\ Budgets \subseteq 1 .. AttemptCap
    /\ MaxCrashes \in Nat
    /\ Slow \in BOOLEAN

VARIABLES
    jobs,     \* the table: id -> row
    worker,   \* the pool: worker -> where run_once is, with its ORM copy of the row
    sweep,    \* the two reclaim_stale callers: boot and the periodic tick
    op,       \* the operator's retry/dismiss request between its read and its write; bound:
              \* one at a time
    up,       \* is the process past its lifespan startup?
    crashes,  \* crashes so far
    owed      \* history: keys with an event no attempt has started since (and worker[w].late:
              \* had the operator's cancel committed when fail() read the row?)

vars == <<jobs, worker, sweep, op, up, crashes, owed>>

-----------------------------------------------------------------------------
(* Rows *)

States == {"none", "pending", "running", "deferred", "done", "parked", "dismissed"}
Finished == {"done", "dismissed"}

\* The predicate of uq_jobs_pending_dedupe, and of the claim.
Live == {"pending", "deferred"}

\* claimed_at NULL: no comparison with a cutoff is true of it.
Unclaimed == -1
AgeCap == 2 * StaleAfter + 1

Row == [state : States, key : Keys \cup {NoKey}, attempts : 0 .. AttemptCap,
        wait : Nat, age : Unclaimed .. AgeCap, cancel : BOOLEAN]

NoRow == [state |-> "none", key |-> NoKey, attempts |-> 0, wait |-> 0,
          age |-> Unclaimed, cancel |-> FALSE]

NewRow(k, d) == [NoRow EXCEPT !.state = "pending", !.key = k, !.wait = d]

\* The id the next INSERT gets.
FreeIds == {j \in JobIds : /\ jobs[j].state = "none"
                           /\ \A i \in JobIds : i < j => jobs[i].state /= "none"}

LiveRows(k) == {j \in JobIds : jobs[j].key = k /\ jobs[j].state \in Live}

\* uq_jobs_pending_dedupe on a table: what a commit must satisfy, else IntegrityError.
IndexHolds(t) ==
    \A i, j \in JobIds :
        /\ i /= j
        /\ t[i].state \in Live /\ t[j].state \in Live
        /\ t[i].key = t[j].key
        => t[i].key = NoKey

-----------------------------------------------------------------------------
(* Workers *)

\* A worker outside run_once holds no ORM row.
IdleWorker == [pc |-> "idle", job |-> 0, snap |-> NoRow, sibs |-> {}, late |-> FALSE]

\* The sweep slot of a reclaim_stale call that is not running.
NoSweep == [on |-> FALSE, rows |-> {}, lapse |-> 0, ord |-> [j \in JobIds |-> 0]]

NoRequest == [act |-> "none", job |-> 0]

\* The rows a parking transaction has written and not yet committed.
Locked == UNION {{worker[w].job} \cup worker[w].sibs : w \in {v \in Workers : worker[v].pc = "parking"}}

Busy(w) == worker[w].pc /= "idle"
Mine(w) == worker[w].job

\* session.flush(): only the attributes whose value differs from the one the
\* session loaded reach the UPDATE; every other column keeps what the table has.
Flush(row, snap, want) ==
    [row EXCEPT !.state = IF want.state = snap.state THEN @ ELSE want.state,
                !.attempts = IF want.attempts = snap.attempts THEN @ ELSE want.attempts,
                !.age = IF want.age = snap.age THEN @ ELSE want.age]

\* The ORM copy of a row: of the two timestamps only "is it NULL" is ever compared.
Copy(row) == [row EXCEPT !.wait = 0, !.age = IF @ = Unclaimed THEN @ ELSE 0]

\* What `select(Job)` hands back inside run_once: the claim-time instance of the
\* identity map, or a fresh read when the handler had a transaction open, whose
\* rollback expired it.
Loads(w) == {worker[w].snap, Copy(jobs[Mine(w)])}

-----------------------------------------------------------------------------
Init ==
    /\ jobs = [j \in JobIds |-> NoRow]
    /\ worker = [w \in Workers |-> IdleWorker]
    /\ sweep = [s \in {"boot", "tick"} |-> NoSweep]
    /\ op = NoRequest
    /\ up = FALSE
    /\ crashes = 0
    /\ owed = [k \in Keys |-> FALSE]

\* Mutant: a burst pushes the pending row's schedule back with every event.
EnqueuePostpones(k, d) ==
    /\ up
    /\ \/ /\ k = NoKey \/ LiveRows(k) = {}
          /\ \E j \in FreeIds : jobs' = [jobs EXCEPT ![j] = NewRow(k, d)]
       \/ /\ k /= NoKey
          /\ \E j \in LiveRows(k) :
                jobs' = [jobs EXCEPT ![j].state = "pending", ![j].wait = d]
    /\ owed' = IF k = NoKey THEN owed ELSE [owed EXCEPT ![k] = TRUE]
    /\ UNCHANGED <<worker, sweep, op, up, crashes>>

\* enqueue(): insert, debounce against a pending row, or wake a deferred one.
Enqueue(k, d) ==
    /\ up
    /\ \/ /\ k = NoKey \/ LiveRows(k) = {}
          /\ \E j \in FreeIds : jobs' = [jobs EXCEPT ![j] = NewRow(k, d)]
       \/ /\ k /= NoKey
          /\ \E j \in LiveRows(k) :
                jobs' = IF jobs[j].state = "deferred"
                        THEN [jobs EXCEPT ![j].state = "pending", ![j].wait = d]
                        ELSE jobs
    /\ owed' = IF k = NoKey THEN owed ELSE [owed EXCEPT ![k] = TRUE]
    /\ UNCHANGED <<worker, sweep, op, up, crashes>>

\* enqueue_batch(), one entry: ON CONFLICT DO NOTHING, so a deferred row sleeps on.
EnqueueBatch(k) ==
    /\ up
    /\ LiveRows(k) = {}
    /\ \E j \in FreeIds : jobs' = [jobs EXCEPT ![j] = NewRow(k, 0)]
    /\ owed' = [owed EXCEPT ![k] = TRUE]
    /\ UNCHANGED <<worker, sweep, op, up, crashes>>

\* claim(): any due row, since FOR UPDATE SKIP LOCKED passes over the rows that
\* another transaction holds at that moment.
Claim(w, j) ==
    /\ up
    /\ ~Busy(w)
    /\ jobs[j].state \in Live
    /\ jobs[j].wait = 0
    /\ LET row == [jobs[j] EXCEPT
                     !.state = "running", !.age = 0,
                     !.attempts = IF @ < AttemptCap THEN @ + 1 ELSE @]
       IN /\ jobs' = [jobs EXCEPT ![j] = row]
          /\ worker' = [worker EXCEPT ![w] = [IdleWorker EXCEPT !.pc = "running", !.job = j, !.snap = Copy(row)]]
    /\ owed' = IF jobs[j].key = NoKey THEN owed ELSE [owed EXCEPT ![jobs[j].key] = FALSE]
    /\ UNCHANGED <<sweep, op, up, crashes>>

\* Commit of worker w's write of its own row: the index may refuse it, and then
\* the IntegrityError ends run_once with the row as it was.
CommitOwn(w, row) ==
    LET t == [jobs EXCEPT ![Mine(w)] = row]
    IN /\ jobs' = IF IndexHolds(t) THEN t ELSE jobs
       /\ worker' = [worker EXCEPT ![w] = IdleWorker]

\* release(): the post-claim pause check, or a CancelledError at shutdown.
Release(w) ==
    /\ worker[w].pc = "running"
    /\ Mine(w) \notin Locked
    /\ \E snap \in Loads(w) :
          CommitOwn(w, Flush(jobs[Mine(w)], snap,
                             [snap EXCEPT !.state = "pending", !.age = Unclaimed,
                                          !.attempts = IF @ > 0 THEN @ - 1 ELSE 0]))
    /\ UNCHANGED <<sweep, op, up, crashes, owed>>

\* run_once's unknown-kind branch: parked, with no sweep of parked siblings.
ParkUnknownKind(w) ==
    /\ worker[w].pc = "running"
    /\ Mine(w) \notin Locked
    /\ CommitOwn(w, Flush(jobs[Mine(w)], worker[w].snap, [worker[w].snap EXCEPT !.state = "parked"]))
    /\ UNCHANGED <<sweep, op, up, crashes, owed>>

\* Mutant: the sweep also retires the pending row a newer event inserted.
DismissLiveSiblings(t, j) ==
    [i \in JobIds |->
        IF i /= j /\ t[j].key /= NoKey /\ t[i].key = t[j].key /\ t[i].state \in Live
        THEN [t[i] EXCEPT !.state = "dismissed"]
        ELSE t[i]]

\* The sweep of complete(): deferred rows of the same key.
DismissDeferredSiblings(t, j) ==
    [i \in JobIds |->
        IF i /= j /\ t[j].key /= NoKey /\ t[i].key = t[j].key /\ t[i].state = "deferred"
        THEN [t[i] EXCEPT !.state = "dismissed"]
        ELSE t[i]]

\* complete(), with or without warnings: the state is written whatever the row says now.
Complete(w) ==
    /\ worker[w].pc = "running"
    /\ Mine(w) \notin Locked
    /\ jobs' = DismissDeferredSiblings([jobs EXCEPT ![Mine(w)].state = "done"], Mine(w))
    /\ worker' = [worker EXCEPT ![w] = IdleWorker]
    /\ UNCHANGED <<sweep, op, up, crashes, owed>>

\* Mutant: fail() trusts the identity map for cancel_requested.
FailReadUnrefreshed(w) ==
    /\ worker[w].pc = "running"
    /\ worker' = [worker EXCEPT ![w].pc = "failing", ![w].late = jobs[Mine(w)].cancel]
    /\ UNCHANGED <<jobs, sweep, op, up, crashes, owed>>

\* fail()'s SELECT and its refresh of cancel_requested.
FailRead(w) ==
    /\ worker[w].pc = "running"
    /\ \E snap \in Loads(w) :
          worker' = [worker EXCEPT ![w].pc = "failing",
                                   ![w].snap = [snap EXCEPT !.cancel = jobs[Mine(w)].cancel],
                                   ![w].late = jobs[Mine(w)].cancel]
    /\ UNCHANGED <<jobs, sweep, op, up, crashes, owed>>

\* fail()'s verdict on the row it read, in its order of precedence.
Verdict(snap, defer, max) ==
    IF snap.cancel THEN "dismissed"
    ELSE IF defer THEN "deferred"
    ELSE IF snap.attempts >= max THEN "parked"
    ELSE "pending"

\* The row fail() asks the session to write.
Failed(snap, state) ==
    [snap EXCEPT !.state = state, !.age = Unclaimed,
                 !.attempts = IF state = "deferred" THEN 0 ELSE @]

\* run_after is a SQL expression: written whenever it is assigned.
FailedWait(row, snap, state) ==
    CASE state = "deferred" -> DeferInterval
      [] state = "pending" -> Backoff[snap.attempts]
      [] OTHER -> row.wait

\* fail()'s UPDATE and commit, for every outcome but parking.
FailWrite(w, defer, max) ==
    LET row == jobs[Mine(w)]
        snap == worker[w].snap
        state == Verdict(snap, defer, max)
    IN /\ worker[w].pc = "failing"
       /\ Mine(w) \notin Locked
       /\ state /= "parked"
       /\ CommitOwn(w, [Flush(row, snap, Failed(snap, state)) EXCEPT
                          !.wait = FailedWait(row, snap, state)])
       /\ UNCHANGED <<sweep, op, up, crashes, owed>>

\* fail() parking: the UPDATE is flushed and the sibling sweep picks its rows
\* from what is committed; both stay uncommitted until ParkCommit.
ParkFlush(w, max) ==
    /\ worker[w].pc = "failing"
    /\ Verdict(worker[w].snap, FALSE, max) = "parked"
    /\ Mine(w) \notin Locked
    /\ LET sibs == {i \in JobIds \ {Mine(w)} :
                      /\ jobs[Mine(w)].key /= NoKey
                      /\ jobs[i].key = jobs[Mine(w)].key
                      /\ jobs[i].state = "parked"}
       IN /\ sibs \cap Locked = {}
          /\ worker' = [worker EXCEPT ![w].pc = "parking", ![w].sibs = sibs]
    /\ UNCHANGED <<jobs, sweep, op, up, crashes, owed>>

ParkCommit(w) ==
    /\ worker[w].pc = "parking"
    /\ LET snap == worker[w].snap
       IN jobs' = [j \in JobIds |->
                     CASE j = Mine(w) ->
                            Flush(jobs[j], snap, Failed(snap, "parked"))
                       [] j \in worker[w].sibs \ {Mine(w)} -> [jobs[j] EXCEPT !.state = "dismissed"]
                       [] OTHER -> jobs[j]]
    /\ worker' = [worker EXCEPT ![w] = IdleWorker]
    /\ UNCHANGED <<sweep, op, up, crashes, owed>>

-----------------------------------------------------------------------------
(* reclaim_stale *)

Stale(j, lapse) == jobs[j].state = "running" /\ jobs[j].age - lapse > StaleAfter

\* The CTE: the stale rows and their ordinals, oldest claim first. The boot call
\* runs inside the lifespan, before there is a worker.
ReclaimRead(s) ==
    /\ ~sweep[s].on
    /\ (s = "tick") = up
    /\ LET stale == {j \in JobIds : Stale(j, 0)}
           before(i, j) == jobs[i].age > jobs[j].age \/ (jobs[i].age = jobs[j].age /\ i < j)
       IN sweep' = [sweep EXCEPT ![s] =
                      [on |-> TRUE, rows |-> stale, lapse |-> 0,
                       ord |-> [j \in JobIds |-> Cardinality({i \in stale : j \in stale /\ before(i, j)})]]]
    /\ UNCHANGED <<jobs, worker, op, up, crashes, owed>>

\* The outer UPDATE, whose WHERE is re-checked against the rows' current versions.
\* now() is pinned at the transaction's start, hence the lapse.
Reclaimed(s) ==
    [j \in JobIds |->
        IF j \in sweep[s].rows /\ Stale(j, sweep[s].lapse)
        THEN [jobs[j] EXCEPT !.state = "pending", !.age = Unclaimed,
                             !.wait = sweep[s].ord[j] * Stagger]
        ELSE jobs[j]]

\* The commit of the sweep: one statement, so one refused row refuses them all.
\* A refused boot sweep fails the lifespan, which leaves the process down.
ReclaimWrite(s) ==
    /\ sweep[s].on
    /\ sweep[s].rows \cap Locked = {}
    /\ jobs' = IF IndexHolds(Reclaimed(s)) THEN Reclaimed(s) ELSE jobs
    /\ up' = (up \/ (s = "boot" /\ IndexHolds(Reclaimed(s))))
    /\ sweep' = [sweep EXCEPT ![s] = NoSweep]
    /\ UNCHANGED <<worker, op, crashes, owed>>

-----------------------------------------------------------------------------
(* The operator and the prune sweep *)

\* cancel_job, under FOR UPDATE.
CancelJob(j) ==
    /\ up
    /\ j \notin Locked
    /\ \/ /\ jobs[j].state \in Live
          /\ jobs' = [jobs EXCEPT ![j].state = "dismissed"]
          /\ owed' = IF jobs[j].key = NoKey THEN owed ELSE [owed EXCEPT ![jobs[j].key] = FALSE]
       \/ /\ jobs[j].state = "running"
          /\ jobs' = [jobs EXCEPT ![j].cancel = TRUE]
          /\ UNCHANGED owed
    /\ UNCHANGED <<worker, sweep, op, up, crashes>>

\* retry_job and dismiss_job read the parked row without a lock ...
OperatorRead(act, j) ==
    /\ up
    /\ op.act = "none"
    /\ jobs[j].state = "parked"
    /\ op' = [act |-> act, job |-> j]
    /\ UNCHANGED <<jobs, worker, sweep, up, crashes, owed>>

\* ... and write it by id: retry to pending (409 when the index refuses it),
RetryJob ==
    /\ op.act = "retry"
    /\ op.job \notin Locked
    /\ LET t == [jobs EXCEPT ![op.job].state = "pending", ![op.job].attempts = 0,
                             ![op.job].age = Unclaimed, ![op.job].wait = 0]
       IN jobs' = IF IndexHolds(t) THEN t ELSE jobs
    /\ op' = NoRequest
    /\ UNCHANGED <<worker, sweep, up, crashes, owed>>

\* dismiss to dismissed.
DismissJob ==
    /\ op.act = "dismiss"
    /\ op.job \notin Locked
    /\ jobs' = [jobs EXCEPT ![op.job].state = "dismissed"]
    /\ op' = NoRequest
    /\ UNCHANGED <<worker, sweep, up, crashes, owed>>

\* dismiss_jobs_for: the prune sweep's disposal of everything queued for one item.
DismissJobsFor(k) ==
    /\ up
    /\ \E j \in JobIds : jobs[j].key = k /\ jobs[j].state \in Live \cup {"parked"} /\ j \notin Locked
    /\ jobs' = [j \in JobIds |->
                  IF jobs[j].key = k /\ jobs[j].state \in Live \cup {"parked"} /\ j \notin Locked
                  THEN [jobs[j] EXCEPT !.state = "dismissed"] ELSE jobs[j]]
    /\ owed' = [owed EXCEPT ![k] = FALSE]
    /\ UNCHANGED <<worker, sweep, op, up, crashes>>

-----------------------------------------------------------------------------
(* The environment *)

\* The process dies: what its workers and requests were doing is lost, and the
\* database rolls their open transactions back. A statement already running in
\* the database is not interrupted, so a tick sweep may outlive its process.
Crash ==
    /\ up
    /\ crashes < MaxCrashes
    /\ crashes' = crashes + 1
    /\ up' = FALSE
    /\ worker' = [w \in Workers |-> IdleWorker]
    /\ op' = NoRequest
    /\ UNCHANGED <<jobs, sweep, owed>>

\* One unit of time. A sweep's statement ends within StaleAfter, and so does a
\* handler unless Slow.
Tick ==
    /\ \A s \in DOMAIN sweep : sweep[s].on => sweep[s].lapse < StaleAfter
    /\ Slow \/ \A w \in Workers : Busy(w) => jobs[Mine(w)].age < StaleAfter
    /\ jobs' = [j \in JobIds |->
                  [jobs[j] EXCEPT
                     !.wait = IF @ > 0 THEN @ - 1 ELSE 0,
                     !.age = IF @ = Unclaimed \/ @ = AgeCap THEN @ ELSE @ + 1]]
    /\ sweep' = [s \in DOMAIN sweep |->
                  IF sweep[s].on THEN [sweep[s] EXCEPT !.lapse = @ + 1] ELSE sweep[s]]
    /\ UNCHANGED <<worker, op, up, crashes, owed>>

WorkerStep(w) ==
    \/ \E j \in JobIds : Claim(w, j)
    \/ Release(w)
    \/ ParkUnknownKind(w)
    \/ Complete(w)
    \/ FailRead(w)
    \/ \E max \in Budgets : FailWrite(w, FALSE, max) \/ ParkFlush(w, max)
    \/ FailWrite(w, TRUE, 1)
    \/ ParkCommit(w)

OperatorStep ==
    \/ \E j \in JobIds : CancelJob(j)
    \/ \E act \in {"retry", "dismiss"}, j \in JobIds : OperatorRead(act, j)
    \/ RetryJob
    \/ DismissJob

Next ==
    \/ \E k \in Keys \cup {NoKey}, d \in Delays : Enqueue(k, d)
    \/ \E k \in Keys : EnqueueBatch(k)
    \/ \E w \in Workers : WorkerStep(w)
    \/ \E s \in {"boot", "tick"} : ReclaimRead(s) \/ ReclaimWrite(s)
    \/ OperatorStep
    \/ \E k \in Keys : DismissJobsFor(k)
    \/ Crash
    \/ Tick

Spec == Init /\ [][Next]_vars

(***************************************************************************)
(* Fairness: the database clock runs; run_worker keeps claiming, in        *)
(* ORDER BY run_after, id, so every other claim of a due row's rivals puts *)
(* them behind it (strong fairness per row); a handler ends, one way or    *)
(* another, and its bookkeeping with it; both reclaim sweeps keep running. *)
(* Operators and webhooks promise nothing.                                 *)
(***************************************************************************)
Settle(w) == Complete(w) \/ (\E max \in Budgets : FailWrite(w, FALSE, max) \/ ParkFlush(w, max))
             \/ FailWrite(w, TRUE, 1) \/ ParkCommit(w)

Fairness ==
    /\ WF_vars(Tick)
    /\ \A j \in JobIds : SF_vars(\E w \in Workers : Claim(w, j))
    /\ \A w \in Workers : WF_vars(Settle(w))
    /\ \A s \in {"boot", "tick"} : WF_vars(ReclaimRead(s)) /\ WF_vars(ReclaimWrite(s))

FairSpec == Spec /\ Fairness

-----------------------------------------------------------------------------
(* Properties *)

Worker == [pc : {"idle", "running", "failing", "parking"}, job : JobIds \cup {0},
           snap : Row, sibs : SUBSET JobIds, late : BOOLEAN]

Sweep == [on : BOOLEAN, rows : SUBSET JobIds, lapse : 0 .. StaleAfter, ord : [JobIds -> Nat]]

\* Every column, ORM copy and sweep holds a value of its type.
TypeOK ==
    /\ jobs \in [JobIds -> Row]
    /\ worker \in [Workers -> Worker]
    /\ sweep \in [{"boot", "tick"} -> Sweep]
    /\ op \in [act : {"none", "retry", "dismiss"}, job : JobIds \cup {0}]
    /\ up \in BOOLEAN
    /\ crashes \in 0 .. MaxCrashes
    /\ owed \in [Keys -> BOOLEAN]
    /\ \A w \in Workers : Busy(w) => Mine(w) \in JobIds
    /\ op.act /= "none" => op.job \in JobIds

\* Whatever interleaving of enqueue, fail, release, reclaim and retry, no dedupe key
\* has two rows waiting (pending or deferred) at once.
OneLiveRowPerKey ==
    \A i, j \in JobIds :
        /\ i /= j
        /\ jobs[i].key = jobs[j].key /\ jobs[i].key /= NoKey
        => ~(jobs[i].state \in {"pending", "deferred"} /\ jobs[j].state \in {"pending", "deferred"})

\* enqueue() may debounce or wake instead of inserting, and complete() retires
\* siblings: until an attempt for the key starts after the event (or the operator or
\* the prune disposes of it), a pending row for that key exists. While no handler
\* outlasts the reclaim threshold, no event is swallowed.
NoEventLost ==
    \A k \in Keys : owed[k] => \E j \in JobIds : jobs[j].key = k /\ jobs[j].state = "pending"

\* While no handler outlasts the threshold, the row a worker is inside is running,
\* its claim is fresh, and no second worker is inside it: neither of two overlapping
\* reclaim sweeps, nor any operator door, takes it away.
OwnedWhileRunning ==
    \A w \in Workers : Busy(w) =>
        /\ jobs[Mine(w)].state = "running"
        /\ jobs[Mine(w)].age \in 0 .. StaleAfter
        /\ \A v \in Workers \ {w} : Busy(v) => Mine(v) /= Mine(w)

\* A done row stays done: a reclaim sweep that read it while it was running, a sibling's
\* sweep and a late failure all leave it alone (while no handler outlasts the threshold).
DoneStaysDone ==
    [][\A j \in JobIds : jobs[j].state = "done" => jobs'[j].state = "done"]_vars

\* A cancel that committed before fail() read the row ends the job with that failure:
\* it is dismissed, never deferred, parked or rescheduled, even though fail() works on
\* a copy of the row as old as the claim.
CancelStopsTheJob ==
    [][\A w \in Workers :
         worker[w].late /\ ~worker'[w].late /\ up' => jobs'[Mine(w)].state = "dismissed"]_vars

\* A webhook burst is debounced, never postponed for ever: an event is followed by an
\* attempt for its key.
EventsGetAttempts == \A k \in Keys : owed[k] ~> ~owed[k]

-----------------------------------------------------------------------------
(* What comments and replies say of this code, and the code does not do *)

\* scheduler/jobs.py: "a replica genuinely still working a job is never stolen from".
NeverStolen ==
    [][\A s \in {"boot", "tick"}, w \in Workers :
         Busy(w) /\ ReclaimWrite(s) => jobs'[Mine(w)] = jobs[Mine(w)]]_vars

\* api/jobs.py's reply to a cancel: "the job will finish its current attempt and will
\* not be retried".
CancelledNotRetried ==
    [][\A j \in JobIds : jobs[j].cancel /\ jobs[j].state /= "running" => jobs'[j].state /= "running"]_vars

\* The table keeps its shape, no event is lost behind a live row, and a running row
\* is its worker's, across claims, reclaims, deferrals, operators and crashes.
QueueSafety ==
    /\ TypeOK
    /\ OneLiveRowPerKey
    /\ NoEventLost
    /\ OwnedWhileRunning

\* No step takes a done row back, and a cancel that fail() has read ends the job with that
\* failure.
QueueSteps ==
    /\ DoneStaysDone
    /\ CancelStopsTheJob
=============================================================================
