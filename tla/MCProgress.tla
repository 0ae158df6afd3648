----------------------------- MODULE MCProgress -----------------------------
(* What must come to an end: the worker pause and the lock behind it, an    *)
(* event without an attempt, a full pass, a catch-up run. Each component    *)
(* runs by itself under the fairness its own module justifies. The pause    *)
(* has three workers, so that the last of several leaves after the first,   *)
(* and three requests: modes, restarts or any mix.                          *)
EXTENDS WorkerPause

CONSTANTS k1, noKey, w1, r1, x1, button, drain

VARIABLE part   \* which of the components runs in this behaviour
VARIABLES q_jobs, q_worker, q_sweep, q_op, q_up, q_crashes, q_owed
VARIABLES f_pass, f_jobs, f_watch, f_clock
VARIABLES c_facts, c_on, c_finger, c_row, c_run, c_start, c_pass, c_pipe

-----------------------------------------------------------------------------
(* Two rows of one key and one worker. One unit of time stands for the     *)
(* reclaim threshold's 15 minutes; a deferral is two of them.              *)
Queue == INSTANCE JobQueue WITH
    jobs <- q_jobs, worker <- q_worker, sweep <- q_sweep, op <- q_op, up <- q_up,
    crashes <- q_crashes, owed <- q_owed, JobIds <- {1, 2}, Keys <- {k1}, NoKey <- noKey,
    Workers <- {w1}, Delays <- {2}, Budgets <- {1}, Backoff <- [n \in 0 .. 1 |-> 1],
    DeferInterval <- 2, Stagger <- 1, StaleAfter <- 1, AttemptCap <- 1, MaxCrashes <- 0,
    Slow <- FALSE

\* A webhook burst is debounced, never postponed for ever: an event is followed by an
\* attempt for its key.
EventsGetAttempts == Queue!EventsGetAttempts

-----------------------------------------------------------------------------
(* Two presses and one row, which may stay pending for ever. *)
Full == INSTANCE FullPass WITH
    pass <- f_pass, jobs <- f_jobs, watch <- f_watch, clock <- f_clock, PassIds <- {1, 2},
    JobIds <- {1}, Keys <- {k1}, NoKey <- noKey, Replicas <- {r1}, Keep <- 1

\* Every pass is closed in the end, even when a job of its window never leaves the queue.
PassesEnd == Full!PassesEnd

-----------------------------------------------------------------------------
(* One run over one render, whose facts may change once. *)
Catch == INSTANCE CatchUp WITH
    facts <- c_facts, on <- c_on, finger <- c_finger, row <- c_row, run <- c_run,
    start <- c_start, pass <- c_pass, pipe <- c_pipe, Renders <- {x1}, RunIds <- {1},
    Starters <- {button}, Sweeps <- {}, Drains <- {drain}, MaxAttempts <- 1,
    MaxIdleDrains <- 1, MaxFacts <- 2

\* Unless the server's libraries come and go for ever, every run is closed: a server that
\* is unreachable, that never scans the files, or whose toggle goes off does not keep a
\* run open, which would refuse every later catch-up.
RunsEnd == Catch!RunsEnd

-----------------------------------------------------------------------------
q_vars == <<q_jobs, q_worker, q_sweep, q_op, q_up, q_crashes, q_owed>>
f_vars == <<f_pass, f_jobs, f_watch, f_clock>>
c_vars == <<c_facts, c_on, c_finger, c_row, c_run, c_start, c_pass, c_pipe>>

\* One component takes any of its initial states, the others rest in one of theirs.
ProgressInit ==
    /\ part \in {"pause", "queue", "full pass", "catch-up"}
    /\ Init
    /\ Queue!Init
    /\ Full!Init
    /\ Catch!Init /\ (part # "catch-up" => c_on = TRUE)

ProgressNext ==
    \/ part = "pause" /\ Next /\ UNCHANGED <<part, q_vars, f_vars, c_vars>>
    \/ part = "queue" /\ Queue!Next /\ UNCHANGED <<part, vars, f_vars, c_vars>>
    \/ part = "full pass" /\ Full!Next /\ UNCHANGED <<part, vars, q_vars, c_vars>>
    \/ part = "catch-up" /\ Catch!Next /\ UNCHANGED <<part, vars, q_vars, f_vars>>

QueueOrCatch == <<q_vars, c_vars>>

\* Each part's own Fairness. Only one part moves in a behaviour, so one condition of
\* strong fairness can stand for an action of each.
ProgressFairness ==
    /\ \A w \in Workers : WF_vars(part = "pause" /\ Leave(w))
    /\ \A r \in Requests : /\ WF_vars(part = "pause" /\ Drained(r))
                           /\ WF_vars(part = "pause" /\ EndMode(r))
                           /\ WF_vars(part = "pause" /\ (Exec(r) \/ ExecFailed(r)))
    /\ WF_q_vars(part = "queue" /\ Queue!Tick)
    /\ WF_q_vars(part = "queue" /\ Queue!Settle(w1))
    /\ \A s \in {"boot", "tick"} : /\ WF_q_vars(part = "queue" /\ Queue!ReclaimRead(s))
                                   /\ WF_q_vars(part = "queue" /\ Queue!ReclaimWrite(s))
    /\ \A p \in {1, 2} : WF_f_vars(part = "full pass" /\ Full!Age(p))
    /\ WF_f_vars(part = "full pass" /\ Full!Look(r1))
    /\ WF_f_vars(part = "full pass" /\ Full!Visit(r1))
    /\ WF_f_vars(part = "full pass" /\ Full!CommitWatch(r1))
    /\ []<><<Full!Look(r1)>>_f_vars => []<><<Full!CommitWatch(r1)>>_f_vars
    /\ WF_c_vars(part = "catch-up" /\ Catch!TakeDrain(drain, 1))
    /\ SF_QueueOrCatch(\/ part = "queue" /\ Queue!Claim(w1, 1) /\ UNCHANGED c_vars
                       \/ part = "catch-up" /\ UNCHANGED q_vars
                             /\ (\/ Catch!Unsent(drain, x1) \/ Catch!Send(drain, x1)
                                 \/ Catch!RowLost(drain, x1)))
    /\ SF_QueueOrCatch(\/ part = "queue" /\ Queue!Claim(w1, 2) /\ UNCHANGED c_vars
                       \/ part = "catch-up" /\ UNCHANGED q_vars /\ Catch!EndDrain(drain))

ProgressSpec ==
    ProgressInit /\ [][ProgressNext]_<<part, vars, q_vars, f_vars, c_vars>> /\ ProgressFairness
=============================================================================
