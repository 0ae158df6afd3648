---------------------------- MODULE WorkerPause ----------------------------
(***************************************************************************)
(* The fence between the worker pool and whoever must not meet it:         *)
(* artwork_modes/base.py (WorkerPause), the gates of queue/worker.py, the  *)
(* applied artwork modes of api/routes.py (_run_plex_writing_mode) and the *)
(* restart button of api/system.py, which takes the same mode_lock.        *)
(*                                                                         *)
(* Everything here runs on one event loop, so one action is the code       *)
(* between two awaits.                                                     *)
(***************************************************************************)
EXTENDS Integers, FiniteSets

CONSTANTS
    Workers,   \* the pool of run_workers
    Requests,  \* HTTP requests that may trigger an applied mode or a restart
    Nobody     \* mode_lock is free

ASSUME WorkersAssumption == IsFiniteSet(Workers)
ASSUME RequestsAssumption == Nobody \notin Requests

VARIABLES
    worker,     \* where each worker's loop is
    request,    \* where each request is
    fence,      \* WorkerPause._event: set while paused
    active,     \* WorkerPause._active
    idle,       \* WorkerPause._idle: set while active is zero
    lock,       \* who holds app.state.mode_lock
    restarting  \* app.state.restart_in_flight

vars == <<worker, request, fence, active, idle, lock, restarting>>

\* gate: at the top of run_worker's loop, or asleep before it; claiming: inside
\* claim(); handing: in release() or parking an unknown kind; handling: inside
\* running_job(), handler and bookkeeping.
WorkerAt == {"gate", "claiming", "handing", "handling"}

\* waiting/woken: inside drain()'s Event.wait, its future pending/resolved;
\* writing: inside mode.run; checked: a restart past its run-history guard;
\* armed: a restart holding the lock until the exec.
RequestAt == {"none", "waiting", "woken", "writing", "checked", "armed"}

InMode == {"waiting", "woken", "writing"}

Init ==
    /\ worker = [w \in Workers |-> "gate"]
    /\ request = [r \in Requests |-> "none"]
    /\ fence = FALSE
    /\ active = 0
    /\ idle = TRUE
    /\ lock = Nobody
    /\ restarting = FALSE

-----------------------------------------------------------------------------
(* The pool *)

\* run_worker's gate: a paused (or unhealthy) worker stays where it is.
PassGate(w) ==
    /\ worker[w] = "gate"
    /\ ~fence
    /\ worker' = [worker EXCEPT ![w] = "claiming"]
    /\ UNCHANGED <<request, fence, active, idle, lock, restarting>>

\* claim() found nothing due, or the loop's except swallowed its error.
ClaimNothing(w) ==
    /\ worker[w] = "claiming"
    /\ worker' = [worker EXCEPT ![w] = "gate"]
    /\ UNCHANGED <<request, fence, active, idle, lock, restarting>>

\* running_job().__enter__
Enter(w) ==
    /\ worker' = [worker EXCEPT ![w] = "handling"]
    /\ active' = active + 1
    /\ idle' = FALSE

\* Mutant: run_once trusts run_worker's gate.
RunClaimedUnchecked(w) ==
    /\ worker[w] = "claiming"
    /\ Enter(w)
    /\ UNCHANGED <<request, fence, lock, restarting>>

\* run_once after the claim: the fence is consulted once more, and nothing is
\* awaited between that look and the count.
RunClaimed(w) ==
    /\ worker[w] = "claiming"
    /\ ~fence
    /\ Enter(w)
    /\ UNCHANGED <<request, fence, lock, restarting>>

\* The other two ways on from a claim: the fence rose meanwhile (release), or
\* nobody handles this kind (parked).
HandBack(w) ==
    /\ worker[w] = "claiming"
    /\ worker' = [worker EXCEPT ![w] = "handing"]
    /\ UNCHANGED <<request, fence, active, idle, lock, restarting>>

HandedBack(w) ==
    /\ worker[w] = "handing"
    /\ worker' = [worker EXCEPT ![w] = "gate"]
    /\ UNCHANGED <<request, fence, active, idle, lock, restarting>>

\* Event.set() resolves the futures of everyone in wait().
Wake == [r \in Requests |-> IF request[r] = "waiting" THEN "woken" ELSE request[r]]

\* running_job().__exit__, however the handler and its bookkeeping ended.
Leave(w) ==
    /\ worker[w] = "handling"
    /\ worker' = [worker EXCEPT ![w] = "gate"]
    /\ active' = active - 1
    /\ idle' = (active = 1)
    /\ request' = IF active = 1 THEN Wake ELSE request
    /\ UNCHANGED <<fence, lock, restarting>>

-----------------------------------------------------------------------------
(* An applied artwork mode *)

\* _run_plex_writing_mode(apply=True) up to its first await that blocks: a held
\* lock answers 409 and changes nothing; otherwise lock, fence and drain(),
\* which returns at once when the pool is idle. A dry run takes none of these.
ApplyMode(r) ==
    /\ request[r] = "none"
    /\ lock = Nobody
    /\ lock' = r
    /\ fence' = TRUE
    /\ request' = [request EXCEPT ![r] = IF idle THEN "writing" ELSE "waiting"]
    /\ UNCHANGED <<worker, active, idle, restarting>>

\* drain() returns: Event.wait does not look at the event again.
Drained(r) ==
    /\ request[r] = "woken"
    /\ request' = [request EXCEPT ![r] = "writing"]
    /\ UNCHANGED <<worker, fence, active, idle, lock, restarting>>

\* Mutant: resume() only on the way out of a mode that did not raise.
EndModeNoFinally(r) ==
    /\ request[r] = "writing"
    /\ fence' \in BOOLEAN
    /\ lock' = Nobody
    /\ request' = [request EXCEPT ![r] = "none"]
    /\ UNCHANGED <<worker, active, idle, restarting>>

\* mode.run returned or raised: paused() resumes in its finally, then the lock goes.
EndMode(r) ==
    /\ request[r] = "writing"
    /\ fence' = FALSE
    /\ lock' = Nobody
    /\ request' = [request EXCEPT ![r] = "none"]
    /\ UNCHANGED <<worker, active, idle, restarting>>

-----------------------------------------------------------------------------
(* The restart button *)

\* restart()'s look at the run history, which awaits; an open run is a 409.
CheckRuns(r) ==
    /\ request[r] = "none"
    /\ request' = [request EXCEPT ![r] = "checked"]
    /\ UNCHANGED <<worker, fence, active, idle, lock, restarting>>

RefuseRestart(r) ==
    /\ request[r] = "checked"
    /\ lock /= Nobody
    /\ request' = [request EXCEPT ![r] = "none"]
    /\ UNCHANGED <<worker, fence, active, idle, lock, restarting>>

\* The mode lock, asked last and taken in the same step; _exec_or_release runs
\* after the response and one more trip round the loop.
ArmRestart(r) ==
    /\ request[r] = "checked"
    /\ lock = Nobody
    /\ lock' = r
    /\ restarting' = TRUE
    /\ request' = [request EXCEPT ![r] = "armed"]
    /\ UNCHANGED <<worker, fence, active, idle>>

\* os.execv: boot builds every one of these afresh.
Exec(r) ==
    /\ request[r] = "armed"
    /\ worker' = [w \in Workers |-> "gate"]
    /\ request' = [q \in Requests |-> "none"]
    /\ fence' = FALSE
    /\ active' = 0
    /\ idle' = TRUE
    /\ lock' = Nobody
    /\ restarting' = FALSE

\* The exec failed (E2BIG, a NUL byte): everything is handed back.
ExecFailed(r) ==
    /\ request[r] = "armed"
    /\ restarting' = FALSE
    /\ lock' = Nobody
    /\ request' = [request EXCEPT ![r] = "none"]
    /\ UNCHANGED <<worker, fence, active, idle>>

-----------------------------------------------------------------------------
WorkerStep(w) ==
    \/ PassGate(w) \/ ClaimNothing(w) \/ RunClaimed(w)
    \/ HandBack(w) \/ HandedBack(w) \/ Leave(w)

RequestStep(r) ==
    \/ ApplyMode(r) \/ Drained(r) \/ EndMode(r)
    \/ CheckRuns(r) \/ RefuseRestart(r) \/ ArmRestart(r) \/ Exec(r) \/ ExecFailed(r)

Next == (\E w \in Workers : WorkerStep(w)) \/ (\E r \in Requests : RequestStep(r))

Spec == Init /\ [][Next]_vars

\* Handlers and modes return (drain() deliberately has no timeout), the loop runs
\* what is ready, and an armed restart reaches its exec, which works or does not.
Fairness ==
    /\ \A w \in Workers : WF_vars(Leave(w))
    /\ \A r \in Requests : WF_vars(Drained(r)) /\ WF_vars(EndMode(r))
                           /\ WF_vars(Exec(r) \/ ExecFailed(r))

FairSpec == Spec /\ Fairness

-----------------------------------------------------------------------------
(* Properties *)

TypeOK ==
    /\ worker \in [Workers -> WorkerAt]
    /\ request \in [Requests -> RequestAt]
    /\ fence \in BOOLEAN
    /\ active \in Nat
    /\ idle \in BOOLEAN
    /\ lock \in Requests \cup {Nobody}
    /\ restarting \in BOOLEAN

Handling == {w \in Workers : worker[w] = "handling"}

\* While a mode writes artwork, no worker is inside a handler or its bookkeeping:
\* the two never touch the same Plex item at once. (base.py, WorkerPause; routes.py,
\* "It drains".)
FencedWrites == \A r \in Requests : request[r] = "writing" => Handling = {}

\* An exec never cuts a mode off mid-write, and two modes never write together: of
\* everyone between taking the mode lock and giving it back there is one.
OneBehindTheLock ==
    \A q, r \in Requests :
        /\ request[q] \in InMode \cup {"armed"}
        /\ request[r] \in InMode \cup {"armed"}
        => q = r

\* The 409 a second press gets names the right culprit: restart_in_flight is set
\* exactly while the lock is a restart's. (routes.py and system.py, "Whose lock it
\* is decides the sentence".)
RefusalTellsTheTruth ==
    restarting <=> \E r \in Requests : lock = r /\ request[r] = "armed"

\* The fence always comes down again and a held mode lock is always given back,
\* whatever the mode or the exec did.
FenceComesDown == fence ~> ~fence
LockIsGivenBack == (lock /= Nobody) ~> (lock = Nobody)

\* Under the fence nobody handles a job, one request at a time is behind the lock,
\* and a refusal is given for a reason that holds.
PauseSafety ==
    /\ TypeOK
    /\ FencedWrites
    /\ OneBehindTheLock
    /\ RefusalTellsTheTruth

\* Whatever a request raises, the fence comes down and the lock is given back.
PausesEnd ==
    /\ FenceComesDown
    /\ LockIsGivenBack
=============================================================================
