------------------------------ MODULE FullPass ------------------------------
(***************************************************************************)
(* The "run the whole tool now" button and its bookkeeping: run_full_pass  *)
(* (api/routes.py) opens a runs row and enqueues a job per item in one     *)
(* transaction; the watcher close_drained_full_passes                      *)
(* (scheduler/run_history.py), called on every tick of the poll loop of    *)
(* every replica, closes the row when its jobs have drained or a day has   *)
(* gone by.                                                                *)
(*                                                                         *)
(* started_at and created_at are transaction timestamps; they are compared *)
(* with each other only, so time is the number of the transactions that    *)
(* stamp a row.                                                            *)
(***************************************************************************)
EXTENDS Integers, FiniteSets

CONSTANTS
    PassIds,   \* bound: presses of the button, numbered
    JobIds,    \* bound: process_item rows, numbered
    Keys,      \* dedupe keys: the library's items
    NoKey,
    Replicas,  \* the processes whose poll loops watch
    Keep       \* RUN_HISTORY_KEEP

ASSUME IdAssumption == PassIds \subseteq Nat \ {0} /\ JobIds \subseteq Nat \ {0}
ASSUME KeyAssumption == NoKey \notin Keys
ASSUME KeepAssumption == Keep \in Nat \ {0}

VARIABLES
    pass,   \* the runs rows of kind full_pass, by id
    jobs,   \* process_item rows, by id
    watch,  \* each replica's watcher transaction
    clock   \* stamping transactions begun so far

vars == <<pass, jobs, watch, clock>>

TimedOut == "timed_out"
Closed == {"ok", "timed_out"}
Ended == Closed \cup {"trimmed"}
Pass == [state : {"none", "opening", "open"} \cup Ended, at : Nat, old : BOOLEAN,
         after : SUBSET PassIds]

\* over: done, done_with_warnings or dismissed. pass: the press that inserted it (0: a
\* webhook); tried: history, it has been finished, parked, deferred or dismissed once.
Job == [state : {"none", "pending", "running", "deferred", "parked", "over"}, key : Keys \cup {NoKey},
        at : Nat, pass : PassIds \cup {0}, tried : BOOLEAN]

NoPass == [state |-> "none", at |-> 0, old |-> FALSE, after |-> {}]
NoJob == [state |-> "none", key |-> NoKey, at |-> 0, pass |-> 0, tried |-> FALSE]

\* A watcher holds the rows it still has to visit, the ones it read as past the
\* ceiling (now() is pinned at its start), the verdicts it has not committed, and
\* whether it has counted a row as closed.
Watch == [on : BOOLEAN, todo : SUBSET PassIds, old : SUBSET PassIds, ok : SUBSET PassIds,
          late : SUBSET PassIds, counted : BOOLEAN]
IdleWatch == [on |-> FALSE, todo |-> {}, old |-> {}, ok |-> {}, late |-> {}, counted |-> FALSE]

Init ==
    /\ pass = [p \in PassIds |-> NoPass]
    /\ jobs = [j \in JobIds |-> NoJob]
    /\ watch = [r \in Replicas |-> IdleWatch]
    /\ clock = 0

Committed == {p \in PassIds : pass[p].state \notin {"none", "opening"}}
Open == {p \in PassIds : pass[p].state = "open"}
Live(k) == \E j \in JobIds : jobs[j].key = k /\ jobs[j].state \in {"pending", "deferred"}
FreeJobs == {j \in JobIds : jobs[j].state = "none"}
NewJob(k, at, p) == [state |-> "pending", key |-> k, at |-> at, pass |-> p, tried |-> FALSE]

-----------------------------------------------------------------------------
(* Presses, webhooks and workers *)

\* The press's transaction starts. Ids follow insertion, so only presses that
\* overlap may get theirs in another order than their timestamps.
BeginPass(p) ==
    /\ pass[p].state = "none"
    /\ \A q \in Committed : q < p
    /\ pass' = [pass EXCEPT ![p] = [state |-> "opening", at |-> clock, old |-> FALSE,
                                    after |-> Committed]]
    /\ clock' = clock + 1
    /\ UNCHANGED <<jobs, watch>>

\* open_run and enqueue_batch, committed together: one job per item that has no
\* pending or deferred one, stamped with the press's own timestamp.
CommitPass(p) ==
    LET missing == {k \in Keys : ~Live(k)}
    IN /\ pass[p].state = "opening"
       /\ pass' = [pass EXCEPT ![p].state = "open"]
       /\ \E f \in [missing -> FreeJobs] :
             /\ \A k, l \in missing : f[k] = f[l] => k = l
             /\ \A k \in missing : \A j \in FreeJobs : j < f[k] => \E l \in missing : f[l] = j
             /\ jobs' = [j \in JobIds |->
                           IF \E k \in missing : f[k] = j
                           THEN NewJob(CHOOSE k \in missing : f[k] = j, pass[p].at, p)
                           ELSE jobs[j]]
       /\ UNCHANGED <<watch, clock>>

\* A webhook: inserts a row, or wakes a deferred one.
Webhook(k) ==
    /\ \/ /\ ~Live(k)
          /\ \E j \in FreeJobs :
                /\ \A i \in FreeJobs : j <= i
                /\ jobs' = [jobs EXCEPT ![j] = NewJob(k, clock, 0)]
          /\ clock' = clock + 1
       \/ \E j \in JobIds :
                /\ jobs[j].key = k /\ jobs[j].state = "deferred"
                /\ jobs' = [jobs EXCEPT ![j].state = "pending"]
                /\ UNCHANGED clock
    /\ UNCHANGED <<pass, watch>>

ClaimJob(j) ==
    /\ jobs[j].state \in {"pending", "deferred"}
    /\ jobs' = [jobs EXCEPT ![j].state = "running"]
    /\ UNCHANGED <<pass, watch, clock>>

\* complete(), fail(), release() or the stale sweep. A row that would wait beside a
\* waiting sibling is refused by the dedupe index and stays running.
EndJob(j) ==
    /\ jobs[j].state = "running"
    /\ \E s \in {"over", "parked", "deferred", "pending"} :
          /\ s \in {"deferred", "pending"} => ~Live(jobs[j].key)
          /\ jobs' = [jobs EXCEPT ![j].state = s, ![j].tried = @ \/ s /= "pending"]
    /\ UNCHANGED <<pass, watch, clock>>

\* cancel_job, dismiss_job, or the sweeps that dismiss.
DismissJob(j) ==
    /\ jobs[j].state \in {"pending", "deferred", "parked"}
    /\ jobs' = [jobs EXCEPT ![j].state = "over", ![j].tried = TRUE]
    /\ UNCHANGED <<pass, watch, clock>>

\* retry_job: a parked row waits again, with its old created_at.
RetryJob(j) ==
    /\ jobs[j].state = "parked" /\ ~Live(jobs[j].key)
    /\ jobs' = [jobs EXCEPT ![j].state = "pending"]
    /\ UNCHANGED <<pass, watch, clock>>

\* A day goes by; older passes are a day old first.
Age(p) ==
    /\ p \in Open /\ ~pass[p].old
    /\ \A q \in Open : pass[q].at < pass[p].at => pass[q].old
    /\ pass' = [pass EXCEPT ![p].old = TRUE]
    /\ UNCHANGED <<jobs, watch, clock>>

-----------------------------------------------------------------------------
(* The watcher *)

\* The SELECT of the open rows and of now().
Look(r) ==
    /\ ~watch[r].on
    /\ Open /= {}
    /\ watch' = [watch EXCEPT ![r] = [on |-> TRUE, todo |-> Open,
                    old |-> {p \in Open : pass[p].old}, ok |-> {}, late |-> {}, counted |-> FALSE]]
    /\ UNCHANGED <<pass, jobs, clock>>

\* A process_item job of the run's window is pending or running.
Outstanding(p) ==
    \E j \in JobIds : jobs[j].state \in {"pending", "running"} /\ jobs[j].at >= pass[p].at

\* Mutant: the ceiling is never reached.
NeverExpired(r, p) == FALSE

Expired(r, p) == p \in watch[r].old

\* The row locks of the other watchers' UPDATEs.
LockedFor(r) == UNION {watch[q].ok \cup watch[q].late : q \in Replicas \ {r}}

\* Mutant: a row that is still draining is skipped.
SkipDraining(r, p) == watch' = [watch EXCEPT ![r].todo = @ \ {p}]

\* Still draining and not expired: the walk ends here.
StopWalk(r, p) == watch' = [watch EXCEPT ![r].todo = {}]

\* Mutant: the UPDATE does not ask whether the row is still open.
StillOpenUnasked(p) == TRUE

\* WHERE finished_at IS NULL, evaluated once the row's lock is free.
StillOpen(p) == pass[p].state = "open"

\* One row of the walk, oldest id first: count, decide, UPDATE.
Visit(r) ==
    /\ watch[r].on
    /\ \E p \in watch[r].todo :
          /\ \A q \in watch[r].todo : p <= q
          /\ IF Outstanding(p) /\ ~Expired(r, p)
             THEN StopWalk(r, p)
             ELSE /\ p \notin LockedFor(r)
                  /\ watch' = [watch EXCEPT
                        ![r].todo = @ \ {p}, ![r].counted = TRUE,
                        ![r].ok = IF StillOpen(p) /\ ~Outstanding(p) THEN @ \cup {p} ELSE @,
                        ![r].late = IF StillOpen(p) /\ Outstanding(p) THEN @ \cup {p} ELSE @]
    /\ UNCHANGED <<pass, jobs, clock>>

Written(r) == watch[r].ok \cup watch[r].late

\* trim_run_history, in the same transaction: all but the newest rows.
Trimmed(r) ==
    LET rows == Committed \ {p \in PassIds : pass[p].state = "trimmed"}
    IN {p \in rows : /\ watch[r].counted
                     /\ Cardinality({q \in rows : pass[q].at > pass[p].at}) >= Keep}

\* What the transaction has written of row p.
Outcome(r, p) ==
    CASE p \in Trimmed(r) -> "trimmed"
      [] p \in watch[r].ok \ Trimmed(r) -> "ok"
      [] p \in watch[r].late \ Trimmed(r) -> TimedOut
      [] OTHER -> pass[p].state

CommitWatch(r) ==
    /\ watch[r].on /\ watch[r].todo = {}
    /\ Trimmed(r) \cap LockedFor(r) = {}
    /\ pass' = [p \in PassIds |-> [pass[p] EXCEPT !.state = Outcome(r, p)]]
    /\ watch' = [watch EXCEPT ![r] = IdleWatch]
    /\ UNCHANGED <<jobs, clock>>

\* The process dies or a statement fails: rolled back, and the next tick looks again.
Abort(r) ==
    /\ watch[r].on
    /\ watch' = [watch EXCEPT ![r] = IdleWatch]
    /\ UNCHANGED <<pass, jobs, clock>>

-----------------------------------------------------------------------------
Next ==
    \/ \E p \in PassIds : BeginPass(p) \/ CommitPass(p) \/ Age(p)
    \/ \E k \in Keys : Webhook(k)
    \/ \E j \in JobIds : ClaimJob(j) \/ EndJob(j) \/ DismissJob(j) \/ RetryJob(j)
    \/ \E r \in Replicas : Look(r) \/ Visit(r) \/ CommitWatch(r) \/ Abort(r)

Spec == Init /\ [][Next]_vars

\* Time passes, the poll loop ticks, and not every tick is aborted. Nothing is
\* assumed of the workers: a job may stay pending for ever.
Fairness ==
    /\ \A p \in PassIds : WF_vars(Age(p))
    /\ \A r \in Replicas :
          /\ WF_vars(Look(r)) /\ WF_vars(Visit(r)) /\ WF_vars(CommitWatch(r))
          /\ []<><<Look(r)>>_vars => []<><<CommitWatch(r)>>_vars

FairSpec == Spec /\ Fairness

-----------------------------------------------------------------------------
(* Properties *)

TypeOK ==
    /\ pass \in [PassIds -> Pass]
    /\ jobs \in [JobIds -> Job]
    /\ watch \in [Replicas -> Watch]
    /\ clock \in Nat

\* A pass recorded as drained has had every job it enqueued finished, parked, deferred
\* or dismissed: the row and its jobs share a transaction and a timestamp, so no watcher
\* can see one without the other (run_history.py, close_drained_full_passes).
DrainedMeansTried ==
    \A p \in PassIds : pass[p].state = "ok" =>
        \A j \in JobIds : jobs[j].pass = p => jobs[j].tried

\* A second press waits for the first: a pass pressed after another was recorded never
\* closes before it, whatever two watchers do ("every row younger than an open one
\* waits for it").
YoungerWaits ==
    \A q \in PassIds : pass[q].state \in Closed =>
        \A p \in pass[q].after : pass[p].state \in Ended

\* The first watcher to close a pass writes its verdict; a slower replica's tick that
\* raced it does not overwrite it, and nothing brings a deleted row back.
ClosedForGood ==
    [][\A p \in PassIds : pass[p].state \in Ended =>
          pass'[p].state \in {pass[p].state, "trimmed"}]_vars

\* Every pass is closed in the end, even when a job of its window never leaves the queue.
PassesEnd == \A p \in PassIds : (pass[p].state = "open") ~> (pass[p].state \in Ended)

\* A pass is called drained only when every item of its window was tried, and an
\* older one is never closed past a younger press's rows.
PassSafety ==
    /\ TypeOK
    /\ DrainedMeansTried
    /\ YoungerWaits
=============================================================================
