----------------------------- MODULE Scheduler -----------------------------
(***************************************************************************)
(* Periodic jobs: scheduler/core.py (claim_due, the two lanes, _maybe_run, *)
(* _run_claimed), the scheduled half of scheduler/run_history.py, the      *)
(* run-now button of api/routes.py and the status api/snapshots.py derives.*)
(*                                                                         *)
(* One process at a time, which may die and boot again; the database       *)
(* outlives it. An interval is a flag that some moment after the claim     *)
(* turns TRUE, so every cadence is covered.                                *)
(***************************************************************************)
EXTENDS Integers, Sequences, FiniteSets

CONSTANTS
    Heavy,       \* the heavy jobs, in registration order
    Light,       \* LIGHT_JOBS that are registered
    Unrecorded,  \* UNRECORDED: names whose passes open no run row
    Slots,       \* bound: asyncio tasks of the lanes alive at once, numbered
    MaxOpen,     \* bound: open rows of `runs` with one name
    None,        \* no task, no job
    MaxCrashes   \* bound: deaths of the process

Names == {Heavy[i] : i \in 1 .. Len(Heavy)} \cup Light

ASSUME LaneAssumption == /\ Len(Heavy) \in Nat
                         /\ \A i \in 1 .. Len(Heavy) : Heavy[i] \notin Light
                         /\ \A i, j \in 1 .. Len(Heavy) : Heavy[i] = Heavy[j] => i = j
ASSUME NoneAssumption == None \notin Slots \cup Names /\ Slots \subseteq Nat
ASSUME CrashAssumption == MaxCrashes \in Nat /\ MaxOpen \in Nat \ {0, 1} /\ Unrecorded \subseteq Names

VARIABLES
    row,      \* scheduled_runs, with what its timestamps say about each other
    runs,     \* the open runs rows of kind "scheduled" (finished_at IS NULL), numbered per name
    tasks,    \* the tasks of the lanes
    lane,     \* Scheduler._heavy_lane while it is not done()
    running,  \* Scheduler._running
    crashes   \* deaths so far

vars == <<row, runs, tasks, lane, running, crashes>>

-----------------------------------------------------------------------------
\* start: last_started_at is NULL, has no finish since, or has one; elapsed: it is
\* older than the interval; here: it is not older than this process's boot instant,
\* which is only ever asked of an open one.
Row == [start : {"null", "open", "finished"}, elapsed : BOOLEAN, here : BOOLEAN]

\* A task is in claim_due, open_run, the job's body or the result write. at is the
\* heavy lane's position in its list, 0 for a light job's task.
Task == [pc : {"none", "claiming", "opening", "body", "recording"},
         at : 0 .. Len(Heavy), job : Names \cup {None}, run : 0 .. MaxOpen]

NoTask == [pc |-> "none", at |-> 0, job |-> None, run |-> 0]

Starting(job, at) == [pc |-> "claiming", at |-> at, job |-> job, run |-> 0]

InFlight(s) == tasks[s].pc \in {"opening", "body", "recording"}

Due(n) == row[n].start = "null" \/ row[n].elapsed

Init ==
    /\ row = [n \in Names |-> [start |-> "null", elapsed |-> FALSE, here |-> FALSE]]
    /\ runs = [n \in Names |-> {}]
    /\ tasks = [s \in Slots |-> NoTask]
    /\ lane = None
    /\ running = {}
    /\ crashes = 0

-----------------------------------------------------------------------------
(* The poll loop *)

FreeSlots == {s \in Slots : /\ tasks[s].pc = "none"
                            /\ \A t \in Slots : t < s => tasks[t].pc /= "none"}

\* _dispatch: the heavy lane, when there is none or it is done.
StartLane(s) ==
    /\ lane = None
    /\ Len(Heavy) > 0
    /\ lane' = s
    /\ tasks' = [tasks EXCEPT ![s] = Starting(Heavy[1], 1)]
    /\ UNCHANGED running

\* _dispatch: one task per light job that is not still running.
StartLight(s, n) ==
    /\ n \notin running
    /\ running' = running \cup {n}
    /\ tasks' = [tasks EXCEPT ![s] = Starting(n, 0)]
    /\ UNCHANGED lane

\* One tick starts every task it owes; the tasks themselves run later, so taking
\* them one at a time gives the same behaviours.
Dispatch ==
    /\ \E s \in FreeSlots :
          StartLane(s) \/ \E n \in Light : StartLight(s, n)
    /\ UNCHANGED <<row, runs, crashes>>

-----------------------------------------------------------------------------
(* One job *)

\* Mutant: a light task that ends forgets to leave _running.
EndTaskStillRunning(s) ==
    IF tasks[s].at \in 1 .. Len(Heavy) - 1
    THEN /\ tasks' = [tasks EXCEPT ![s] = Starting(Heavy[tasks[s].at + 1], tasks[s].at + 1)]
         /\ UNCHANGED <<lane, running>>
    ELSE /\ tasks' = [tasks EXCEPT ![s] = NoTask]
         /\ lane' = IF lane = s THEN None ELSE lane
         /\ UNCHANGED running

\* _maybe_run returns: the heavy lane goes on to its next job, a light task ends.
EndTask(s) ==
    IF tasks[s].at \in 1 .. Len(Heavy) - 1
    THEN /\ tasks' = [tasks EXCEPT ![s] = Starting(Heavy[tasks[s].at + 1], tasks[s].at + 1)]
         /\ UNCHANGED <<lane, running>>
    ELSE /\ tasks' = [tasks EXCEPT ![s] = NoTask]
         /\ lane' = IF lane = s THEN None ELSE lane
         /\ running' = running \ {tasks[s].job}

\* Mutant: the boot instant comes from a clock ahead of the database's.
StampedBeforeBoot(n) ==
    [row EXCEPT ![n] = [start |-> "open", elapsed |-> FALSE, here |-> FALSE]]

\* The UPDATE of claim_due: last_started_at = now().
Stamped(n) ==
    [row EXCEPT ![n] = [start |-> "open", elapsed |-> FALSE, here |-> TRUE]]

ClaimDue(s) ==
    LET n == tasks[s].job
    IN /\ tasks[s].pc = "claiming"
       /\ Due(n)
       /\ row' = Stamped(n)
       /\ tasks' = [tasks EXCEPT ![s].pc = IF n \in Unrecorded THEN "body" ELSE "opening"]
       /\ UNCHANGED <<runs, lane, running, crashes>>

\* Not due, or the claim failed: contained, and the next tick asks again.
NotClaimed(s) ==
    /\ tasks[s].pc = "claiming"
    /\ EndTask(s)
    /\ UNCHANGED <<row, runs, crashes>>

\* open_run: every still-open row of the name is closed as interrupted, then the
\* new row.
Opened(n, r) == [runs EXCEPT ![n] = {r}]

OpenRun(s) ==
    /\ tasks[s].pc = "opening"
    /\ \E r \in 1 .. MaxOpen :
          /\ r \notin runs[tasks[s].job]
          /\ \A q \in 1 .. r - 1 : q \in runs[tasks[s].job]
          /\ runs' = Opened(tasks[s].job, r)
          /\ tasks' = [tasks EXCEPT ![s].pc = "body", ![s].run = r]
    /\ UNCHANGED <<row, lane, running, crashes>>

\* History is bookkeeping: a run that could not be recorded runs all the same.
OpenRunFailed(s) ==
    /\ tasks[s].pc = "opening"
    /\ tasks' = [tasks EXCEPT ![s].pc = "body"]
    /\ UNCHANGED <<row, runs, lane, running, crashes>>

\* job.run returned or raised; "ok" and "failed" go the same way from here.
EndBody(s) ==
    /\ tasks[s].pc = "body"
    /\ tasks' = [tasks EXCEPT ![s].pc = "recording"]
    /\ UNCHANGED <<row, runs, lane, running, crashes>>

\* The result write: scheduled_runs and, through close_run, runs, in one transaction.
Record(s) ==
    LET t == tasks[s]
    IN /\ t.pc = "recording"
       /\ row' = IF row[t.job].start = "null" THEN row
                 ELSE [row EXCEPT ![t.job].start = "finished", ![t.job].here = FALSE]
       /\ runs' = [runs EXCEPT ![t.job] = @ \ {t.run}]
       /\ EndTask(s)
       /\ UNCHANGED crashes

RecordFailed(s) ==
    /\ tasks[s].pc = "recording"
    /\ EndTask(s)
    /\ UNCHANGED <<row, runs, crashes>>

-----------------------------------------------------------------------------
(* The operator, the clock and the pod *)

\* run_scheduled_job_now: last_started_at = NULL, whatever is going on.
RunNow(n) ==
    /\ row' = [row EXCEPT ![n] = [start |-> "null", elapsed |-> FALSE, here |-> FALSE]]
    /\ UNCHANGED <<runs, tasks, lane, running, crashes>>

Elapse(n) ==
    /\ row[n].start /= "null" /\ ~row[n].elapsed
    /\ row' = [row EXCEPT ![n].elapsed = TRUE]
    /\ UNCHANGED <<runs, tasks, lane, running, crashes>>

\* The process stops (every lane cancelled and awaited) or dies, and another boots.
Crash ==
    /\ crashes < MaxCrashes
    /\ crashes' = crashes + 1
    /\ row' = [n \in Names |-> [row[n] EXCEPT !.here = FALSE]]
    /\ tasks' = [s \in Slots |-> NoTask]
    /\ lane' = None
    /\ running' = {}
    /\ UNCHANGED runs

Step(s) ==
    \/ ClaimDue(s) \/ NotClaimed(s) \/ OpenRun(s) \/ OpenRunFailed(s)
    \/ EndBody(s) \/ Record(s) \/ RecordFailed(s)

Next ==
    \/ Dispatch
    \/ \E s \in Slots : Step(s)
    \/ \E n \in Names : RunNow(n) \/ Elapse(n)
    \/ Crash

Spec == Init /\ [][Next]_vars

ClaimOf(n) == \E s \in Slots : tasks[s].job = n /\ ClaimDue(s)

\* The poll loop ticks, every job body returns, the event loop runs every task, and
\* the database does not refuse one job's claim for ever.
Fairness ==
    /\ \A n \in Light : WF_vars((\E s \in FreeSlots : StartLight(s, n))
                                /\ UNCHANGED <<row, runs, crashes>>)
    /\ WF_vars((\E s \in FreeSlots : StartLane(s))
               /\ UNCHANGED <<row, runs, crashes>>)
    /\ \A s \in Slots : WF_vars(Step(s))
    /\ \A n \in Names : SF_vars(ClaimOf(n))

FairSpec == Spec /\ Fairness

-----------------------------------------------------------------------------
(* Properties *)

TypeOK ==
    /\ row \in [Names -> Row]
    /\ runs \in [Names -> SUBSET (1 .. MaxOpen)]
    /\ tasks \in [Slots -> Task]
    /\ lane \in Slots \cup {None}
    /\ running \in SUBSET Light
    /\ crashes \in 0 .. MaxCrashes

\* The claim is not a lease, so within one process it is the lanes that keep a job
\* from overlapping itself and the heavy jobs from overlapping one another, however
\* often its interval elapses or run-now is pressed while it runs (core.py, _dispatch;
\* routes.py, "queues one more run, not a concurrent one").
LanesHold ==
    \A s, t \in Slots :
        /\ InFlight(s) /\ InFlight(t)
        /\ \/ tasks[s].job = tasks[t].job
           \/ tasks[s].job \notin Light /\ tasks[t].job \notin Light
        => s = t

\* Whatever crashes left behind, a name has at most one open run row: the next pass
\* of the same name reconciles the orphan (run_history.py, open_run).
OneOpenRunPerName == \A n \in Names : Cardinality(runs[n]) <= 1

\* The reconciliation never buries a live run as interrupted: the row a pass opened
\* is open, and its own, until that pass records its result.
LiveRunsStayOpen ==
    \A s \in Slots : tasks[s].run /= 0 => tasks[s].run \in runs[tasks[s].job]

\* _run_status: what the dashboard shows for a row.
RunStatus(n) ==
    IF row[n].start = "open"
    THEN IF row[n].here THEN "running" ELSE "interrupted"
    ELSE "last_status"

\* "interrupted" is a proof, not a guess: no such job is in flight in this process
\* (snapshots.py, _run_status).
InterruptedIsAProof ==
    \A s \in Slots : InFlight(s) => RunStatus(tasks[s].job) /= "interrupted"

\* A pressed run-now leads to a claim, even when it lands while the job is running or
\* the process dies before the next poll: a NULL last_started_at does not stay NULL
\* (routes.py, run_scheduled_job_now).
RunNowIsHonoured == \A n \in Names : (row[n].start = "null") ~> (row[n].start /= "null")

\* Lanes do not overlap, a job has one open run, a live pass keeps its row open and
\* only a dead one is called interrupted.
LaneSafety ==
    /\ TypeOK
    /\ LanesHold
    /\ OneOpenRunPerName
    /\ LiveRunsStayOpen
    /\ InterruptedIsAProof
=============================================================================
