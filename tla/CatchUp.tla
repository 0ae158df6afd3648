------------------------------ MODULE CatchUp ------------------------------
(***************************************************************************)
(* The artwork deliveries owed to one server: the outcome rows             *)
(* (deliveries.py), the retry passes that drain them, the catch-up runs    *)
(* that arm them (catchup.py), the presence stamps (servers/presence.py)   *)
(* and the pipeline that composes and delivers (render/pipeline.py).       *)
(*                                                                         *)
(* A fingerprint is the number of the facts version it was composed from;  *)
(* a horizon passes at any time; the renders are rendered, none is a       *)
(* background, and the server is the one that media info is sampled from.  *)
(***************************************************************************)
EXTENDS Integers, FiniteSets, FiniteSetsExt

CONSTANTS
    Renders,
    RunIds,        \* bound: catch-up runs, numbered
    Starters,      \* transactions that start a catch-up: the button's, the drain job's
    Sweeps,        \* passes over the rows of no run: pending_deliveries
    Drains,        \* passes over the rows of a run: catch_up_drain
    MaxAttempts,   \* scheduler.delivery_attempts
    MaxIdleDrains, \* MAX_IDLE_DRAINS
    MaxFacts       \* bound: versions of the facts

ASSUME RunIdAssumption == RunIds \subseteq Nat \ {0}
ASSUME RendersAssumption == IsFiniteSet(Renders)
ASSUME PassAssumption == Sweeps \cap Drains = {}
ASSUME BoundAssumption ==
    MaxAttempts \in Nat \ {0} /\ MaxIdleDrains \in Nat \ {0} /\ MaxFacts \in Nat \ {0}

VARIABLES
    facts,   \* what a compose would produce now
    on,      \* badges.upload_to_<server>
    finger,  \* renders.badge_fingerprint
    row,     \* render_deliveries, one row per render
    run,     \* the catch-up rows of runs
    start,   \* the start_catch_up transactions that have passed the in-flight check
    pass,    \* the retry passes
    pipe     \* process_item, of one item at a time

vars == <<facts, on, finger, row, run, start, pass, pipe>>

\* was: history, the status the row had when a run armed it.
Statuses == {"none", "pending", "failed", "skipped", "absent", "uploaded"}
Row == [status : Statuses, attempts : Nat, fp : Nat,
        run : RunIds \cup {0}, prev : Statuses, was : Statuses]
NoRow == [status |-> "none", attempts |-> 0, fp |-> 0, run |-> 0,
          prev |-> "none", was |-> "none"]
Run == [state : {"none", "open", "ok", "cancelled"}, idle : Nat]

\* The server carries the library, carries others only, or answers with no library.
Listings == {"here", "gone", "empty"}

\* todo: the due rows, detached.
Tally == [due : Nat, done : Nat, failed : Nat, spent : Nat]
NoTally == [due |-> 0, done |-> 0, failed |-> 0, spent |-> 0]
Pass == [at : {"idle", "batch"}, run : RunIds \cup {0},
         todo : SUBSET Renders, before : Tally]
NoPass == [at |-> "idle", run |-> 0, todo |-> {}, before |-> NoTally]

\* What deliver decides from the row it reads, before it writes.
Verdicts == {"leave", "rearm", "skip", "fail", "send"}
Pipe == [at : {"idle", "read", "decided"}, x : SUBSET Renders, on : BOOLEAN,
         runs : SUBSET RunIds, absent : BOOLEAN,
         data : Nat, verdict : Verdicts]
NoPipe == [at |-> "idle", x |-> {}, on |-> FALSE, runs |-> {}, absent |-> FALSE,
           data |-> 0, verdict |-> "leave"]

Init ==
    /\ facts = 1 /\ on \in BOOLEAN
    /\ finger = [x \in Renders |-> 0]
    /\ row = [x \in Renders |-> NoRow]
    /\ run = [r \in RunIds |-> [state |-> "none", idle |-> 0]]
    /\ start = {}
    /\ pass = [p \in Sweeps \cup Drains |-> NoPass]
    /\ pipe = NoPipe

Open == {r \in RunIds : run[r].state = "open"}

-----------------------------------------------------------------------------
(* _upsert_outcome *)

\* "pending" and "failed" outcomes, counted or not. An absent row is never written over.
Counted(old, status) ==
    IF old.status = "absent" THEN old
    ELSE [old EXCEPT !.status = status, !.attempts = @ + 1]
Waits(old) == IF old.status = "absent" THEN old ELSE [old EXCEPT !.status = "pending"]

\* The re-arm: a fresh start, outside any run (reset_attempts and leave_run).
Rearmed(old) ==
    IF old.status = "absent" THEN old ELSE [NoRow EXCEPT !.status = "pending", !.fp = old.fp]

Settled(old, status, fp) ==
    IF old.status = "absent" THEN old
    ELSE [old EXCEPT !.status = status, !.attempts = 0,
                     !.fp = IF status = "uploaded" THEN fp ELSE @]

\* A transport error: pending until the budget is spent, then failed.
Unreached(old) ==
    LET once == Counted(old, "pending")
    IN IF once.status = "pending" /\ once.attempts >= MaxAttempts THEN Counted(once, "failed") ELSE once

Write(x, new) == row' = [row EXCEPT ![x] = new]

\* The lock on the renders row, which a compose holds until its commit and every
\* roll-up needs.
Locked(x) == pipe.at = "decided" /\ pipe.data /= 0 /\ x \in pipe.x

-----------------------------------------------------------------------------
(* The retry pass *)

\* A batch is some of the pending rows: those whose horizon has passed, up to 500.
Due(r) == {x \in Renders : row[x].status = "pending" /\ row[x].run = r}

Count(r, statuses) == Cardinality({x \in Renders : row[x].run = r /\ row[x].status \in statuses})
TallyOf(r) ==
    [due |-> Count(r, {"pending"}), done |-> Count(r, {"uploaded", "skipped", "absent"}),
     failed |-> Count(r, {"failed"}),
     spent |-> MapThenSumSet(LAMBDA x : row[x].attempts, {x \in Renders : row[x].run = r})]

TakeSweep(p) ==
    /\ pass[p].at = "idle"
    /\ \E todo \in SUBSET Due(0) \ {{}} :
          pass' = [pass EXCEPT ![p] = [NoPass EXCEPT !.at = "batch", !.todo = todo]]
    /\ UNCHANGED <<facts, on, finger, row, run, start, pipe>>

TakeDrain(p, r) ==
    /\ pass[p].at = "idle" /\ r \in Open
    /\ \E todo \in SUBSET Due(r) :
          pass' = [pass EXCEPT ![p] = [NoPass EXCEPT !.at = "batch", !.run = r, !.todo = todo,
                                                     !.before = TallyOf(r)]]
    /\ UNCHANGED <<facts, on, finger, row, run, start, pipe>>

\* The batch without row x. A sweep has nothing left to do after its last row.
Without(p, x) ==
    IF p \in Sweeps /\ pass[p].todo = {x} THEN [pass EXCEPT ![p] = NoPass]
    ELSE [pass EXCEPT ![p].todo = @ \ {x}]

\* Row x of the batch comes to an end with this outcome, committed.
Ends(p, x, new) ==
    /\ ~Locked(x)
    /\ Write(x, new)
    /\ pass' = Without(p, x)
    /\ UNCHANGED <<facts, on, finger, run, start, pipe>>

\* The toggle is off, the path is mismapped, the server has not got the item, or it
\* cannot be reached.
Unsent(p, x) ==
    /\ pass[p].at = "batch" /\ x \in pass[p].todo
    /\ \/ ~on /\ Ends(p, x, Settled(row[x], "skipped", 0))
       \/ on /\ \E new \in {Counted(row[x], "failed"), Waits(row[x]), Unreached(row[x])} :
                    Ends(p, x, new)

\* Composed from the facts as they are, uploaded, recorded.
Send(p, x) ==
    /\ pass[p].at = "batch" /\ x \in pass[p].todo /\ on
    /\ \E new \in {Settled(row[x], "uploaded", facts), Counted(row[x], "failed")} : Ends(p, x, new)

\* The row's savepoint is rolled back, or its commit fails.
RowLost(p, x) ==
    /\ x \in pass[p].todo
    /\ pass' = Without(p, x)
    /\ UNCHANGED <<facts, on, finger, row, run, start, pipe>>

\* finish_catch_up's release: the outcome stays, the scope columns go.
Released(old, r) == IF old.run = r THEN [old EXCEPT !.run = 0, !.prev = "none", !.was = "none"] ELSE old

\* Mutant: any movement at all is enough, and the count starts over.
IdleNever(p, r) == 0

\* Consecutive batches that moved neither a status nor the budget.
Idle(p, r) == IF TallyOf(r) = pass[p].before THEN run[r].idle + 1 ELSE 0

\* Mutant: the close does not ask whether the run is still open.
FinishedUnasked(old, state) == [state |-> state, idle |-> 0]

\* finish_catch_up: only a run that is still open is closed.
Finished(old, state) == IF old.state = "open" THEN [state |-> state, idle |-> 0] ELSE old

\* run.idle_drains, read of open runs only.
Stalled(old, idle) == IF old.state = "open" THEN [old EXCEPT !.idle = idle] ELSE old

EndDrain(p) ==
    LET r == pass[p].run
        over == TallyOf(r).due = 0 \/ Idle(p, r) >= MaxIdleDrains
    IN /\ pass[p].at = "batch" /\ pass[p].todo = {}
       /\ pass' = [pass EXCEPT ![p] = NoPass]
       /\ run' = [run EXCEPT ![r] = IF over THEN Finished(@, "ok")
                                             ELSE Stalled(@, Idle(p, r))]
       /\ row' = IF over /\ r \in Open THEN [x \in Renders |-> Released(row[x], r)] ELSE row
       /\ UNCHANGED <<facts, on, finger, start, pipe>>

\* The process dies, or the pass fails outside a row.
PassDies(p) ==
    /\ pass[p].at /= "idle"
    /\ pass' = [pass EXCEPT ![p] = NoPass]
    /\ UNCHANGED <<facts, on, finger, row, run, start, pipe>>

-----------------------------------------------------------------------------
(* Presence and the catch-up run *)

\* apply_presence on one row. A delivered row keeps its word.
Presence(old, told) ==
    CASE told = "gone" /\ old.status /= "uploaded" ->
            [old EXCEPT !.status = "absent", !.attempts = 0]
      [] told = "here" /\ old.status = "absent" ->
            [old EXCEPT !.status = "pending", !.attempts = 0]
      [] OTHER -> old

\* Mutant: the INSERT runs before the UPDATE, which then sees the new rows.
ArmedInsertFirst(x, old, r) ==
    IF old.status \in {"none", "pending", "failed"} \/ (old.status = "uploaded" /\ old.fp /= finger[x])
    THEN [old EXCEPT !.status = "pending", !.attempts = 0, !.run = r, !.was = old.status,
                     !.prev = IF old.status = "none" THEN "pending" ELSE old.status]
    ELSE old

\* The marking: missing, pending, failed, or uploaded with another fingerprint. A row
\* already armed keeps what the run that armed it recorded.
Armed(x, old, r) ==
    IF old.status \in {"none", "pending", "failed"} \/ (old.status = "uploaded" /\ old.fp /= finger[x])
    THEN [old EXCEPT !.status = "pending", !.attempts = 0, !.run = r, !.was = old.status,
                     !.prev = IF old.run /= 0 /\ old.status = "pending" THEN @ ELSE old.status]
    ELSE old

\* pg_advisory_xact_lock, held to the end of the transaction.
LockFree(s) == start = {}

\* The listing, the lock and the in-flight check.
StartCheck(s) ==
    /\ LockFree(s)
    /\ Open = {} /\ \E r \in RunIds : run[r].state = "none"
    /\ start' = start \cup {s}
    /\ UNCHANGED <<facts, on, finger, row, run, pass, pipe>>

\* Presence, open_run and the marking, committed together.
StartMarks(s, told) ==
    /\ s \in start
    /\ \E r \in RunIds :
          /\ run[r].state = "none"
          /\ \A q \in RunIds : q < r => run[q].state /= "none"
          /\ run' = [run EXCEPT ![r].state = "open"]
          /\ LET present == [x \in Renders |-> Presence(row[x], told)]
                 next == [x \in Renders |-> IF told = "here" /\ on
                                            THEN Armed(x, present[x], r) ELSE present[x]]
             IN /\ \A x \in Renders : next[x] /= row[x] => ~Locked(x)
                /\ row' = next
    /\ start' = start \ {s}
    /\ UNCHANGED <<facts, on, finger, pass, pipe>>

\* The transaction is rolled back.
StartDies(s) ==
    /\ s \in start
    /\ start' = start \ {s}
    /\ UNCHANGED <<facts, on, finger, row, run, pass, pipe>>

\* The row cancel_catch_up leaves: removed, restored or released.
Cancelled(old, r) ==
    CASE old.run = r /\ old.status = "pending" /\ old.prev = "none" -> NoRow
      [] old.run = r /\ old.status = "pending" /\ old.prev /= "none" ->
            [old EXCEPT !.status = old.prev, !.prev = "none", !.run = 0, !.was = "none"]
      [] OTHER -> Released(old, r)

Cancel(r) ==
    /\ r \in Open
    /\ run' = [run EXCEPT ![r] = Finished(@, "cancelled")]
    /\ \A x \in Renders : row[x].run = r => ~Locked(x)
    /\ row' = [x \in Renders |-> Cancelled(row[x], r)]
    /\ UNCHANGED <<facts, on, finger, start, pass, pipe>>

\* retry_failed: every failed row, inside a run or outside one.
RetryFailed ==
    /\ \A x \in Renders : row[x].status = "failed" => ~Locked(x)
    /\ row' = [x \in Renders |-> IF row[x].status = "failed" THEN Rearmed(row[x]) ELSE row[x]]
    /\ UNCHANGED <<facts, on, finger, run, start, pass, pipe>>

\* A full pass opens: read_presence and refresh_presence.
FullPassOpens ==
    /\ \E told \in {"here", "gone"} :
          /\ \A x \in Renders : Presence(row[x], told) /= row[x] => ~Locked(x)
          /\ row' = [x \in Renders |-> Presence(row[x], told)]
    /\ UNCHANGED <<facts, on, finger, run, start, pass, pipe>>

-----------------------------------------------------------------------------
(* The pipeline *)

\* The absent set, the open runs and the configuration, once per item.
PipeRead(x) ==
    /\ pipe.at = "idle"
    /\ pipe' = [NoPipe EXCEPT !.at = "read", !.x = {x}, !.on = on, !.runs = Open,
                              !.absent = row[x].status = "absent"]
    /\ UNCHANGED <<facts, on, finger, row, run, start, pass>>

\* deliver's ladder for a server that has the item, has not got it (or cannot be
\* reached), or has it under another path; on the row as it reads now.
Verdict(x, found, data) ==
    LET status == row[x].status
        owned == row[x].run \in pipe.runs
    IN IF pipe.absent THEN "leave"
       ELSE IF ~pipe.on THEN IF data /= 0 /\ status = "none" THEN "skip" ELSE "leave"
       ELSE CASE found = "mismatch" -> "fail"
              [] found = "yes" /\ data /= 0 -> "send"
              [] found = "yes" /\ data = 0 ->
                    IF status \in {"none", "pending", "failed"} /\ ~owned THEN "rearm" ELSE "leave"
              [] found = "no" -> IF status = "pending" \/ owned THEN "leave" ELSE "rearm"

\* compose_badged_bytes (nothing, when the fingerprint has not moved) and the row read.
PipeDecide(x) ==
    LET data == IF facts = finger[x] THEN 0 ELSE facts
    IN /\ pipe.at = "read" /\ x \in pipe.x
       /\ \E found \in {"yes", "no", "mismatch"} :
             \* Bound: the count of a row that stays failed grows with each mismatch.
             /\ found = "mismatch" => row[x].attempts < MaxAttempts
             /\ pipe' = IF data = 0 /\ Verdict(x, found, data) = "leave" THEN NoPipe
                        ELSE [NoPipe EXCEPT !.at = "decided", !.x = {x}, !.data = data,
                                            !.verdict = Verdict(x, found, data)]
       /\ UNCHANGED <<facts, on, finger, row, run, start, pass>>

\* The row, the fingerprint and the roll-up, committed.
PipeWrites(x, new) ==
    /\ Write(x, new)
    /\ finger' = IF pipe.data = 0 THEN finger ELSE [finger EXCEPT ![x] = pipe.data]
    /\ pipe' = NoPipe
    /\ UNCHANGED <<facts, on, run, start, pass>>

PipeRecord(x) ==
    /\ pipe.at = "decided" /\ x \in pipe.x
    /\ CASE pipe.verdict = "leave" -> PipeWrites(x, row[x])
         [] pipe.verdict = "rearm" -> PipeWrites(x, Rearmed(row[x]))
         [] pipe.verdict = "skip" -> PipeWrites(x, Settled(row[x], "skipped", 0))
         [] pipe.verdict = "fail" -> PipeWrites(x, Counted(row[x], "failed"))
         [] pipe.verdict = "send" ->
               \E new \in {Settled(row[x], "uploaded", pipe.data), Counted(row[x], "failed")} :
                  PipeWrites(x, new)

\* The badge stage fails and is rolled back, or the process dies.
PipeDies ==
    /\ pipe.at /= "idle"
    /\ pipe' = NoPipe
    /\ UNCHANGED <<facts, on, finger, row, run, start, pass>>

\* New ratings, definitions or base artwork.
FactsMove ==
    /\ facts < MaxFacts
    /\ facts' = facts + 1
    /\ UNCHANGED <<on, finger, row, run, start, pass, pipe>>

Toggle ==
    /\ on' = ~on
    /\ UNCHANGED <<facts, finger, row, run, start, pass, pipe>>

-----------------------------------------------------------------------------
Next ==
    \/ \E p \in Sweeps : TakeSweep(p)
    \/ \E p \in Drains : EndDrain(p) \/ \E r \in RunIds : TakeDrain(p, r)
    \/ \E p \in Sweeps \cup Drains :
          \/ PassDies(p)
          \/ \E x \in Renders : Unsent(p, x) \/ Send(p, x) \/ RowLost(p, x)
    \/ \E s \in Starters : StartCheck(s) \/ StartDies(s) \/ \E told \in Listings : StartMarks(s, told)
    \/ \E r \in RunIds : Cancel(r)
    \/ \E x \in Renders : PipeRead(x) \/ PipeDecide(x) \/ PipeRecord(x)
    \/ PipeDies \/ RetryFailed \/ FullPassOpens \/ FactsMove \/ Toggle

Spec == Init /\ [][Next]_vars

\* The drain job is polled, a row of a batch comes to an end one way or another, and not
\* every batch is cut short. Nothing is assumed of the server, the pipeline or the operator.
FairSpec ==
    /\ Spec
    /\ \A p \in Drains :
          /\ WF_vars(\E r \in RunIds : TakeDrain(p, r))
          /\ SF_vars(\E x \in Renders : Unsent(p, x) \/ Send(p, x) \/ RowLost(p, x))
          /\ SF_vars(EndDrain(p))

-----------------------------------------------------------------------------
(* Properties *)

TypeOK ==
    /\ facts \in Nat /\ on \in BOOLEAN
    /\ finger \in [Renders -> Nat]
    /\ row \in [Renders -> Row]
    /\ run \in [RunIds -> Run]
    /\ start \subseteq Starters
    /\ pass \in [Sweeps \cup Drains -> Pass]
    /\ pipe \in Pipe

\* Two starts that race, a double click or the button and the saved toggle, open one
\* run: the second finds the first in flight (start_catch_up's advisory lock).
OneOpenRun == \A r, q \in Open : r = q

\* A row that carries a run id belongs to a run that is still open: a closed run leaves
\* no row behind that neither its own drain nor the ordinary pass would ever take.
NoStrandedRow == \A x \in Renders : row[x].run /= 0 => row[x].run \in Open

\* What a cancel would restore is what the row said before the run armed it, whatever
\* the passes, the presence stamps and the pipeline have written since; a row the run
\* created is marked for removal.
PreviousIsTrue ==
    \A x \in Renders : row[x].run /= 0 /\ row[x].status = "pending" => row[x].prev = row[x].was

\* The first to close a run says how it ended: a drain that was mid-batch when the run
\* was cancelled does not write its own verdict over the cancel.
VerdictStands ==
    [][\A r \in RunIds : run[r].state \in {"ok", "cancelled"} => run'[r].state = run[r].state]_vars

\* Unless the server's libraries come and go for ever, every run is closed: a server that
\* is unreachable, that never scans the files, or whose toggle goes off does not keep a
\* run open, which would refuse every later catch-up.
RunsEnd ==
    <>[][~(FullPassOpens /\ row' /= row)]_vars
       => \A r \in RunIds : run[r].state = "open" ~> run[r].state \in {"ok", "cancelled"}

\* _DELIVERY_TOGGLES: once the toggle is on, "every row the pipeline skipped while the
\* toggle was off is now owed to that server", and the catch-up it starts marks them.
SkippedIsOwed ==
    [][\A s \in Starters :
          on /\ StartMarks(s, "here") => \A x \in Renders : row'[x].status /= "skipped"]_vars

\* One run is open at a time, no row belongs to a closed run, and what a cancel puts
\* back is what the row said.
CatchUpSafety ==
    /\ TypeOK
    /\ OneOpenRun
    /\ NoStrandedRow
    /\ PreviousIsTrue
=============================================================================
