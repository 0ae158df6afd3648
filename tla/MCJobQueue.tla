---------------------------- MODULE MCJobQueue ----------------------------
(* JobQueue on small tables. Time is scaled: one unit stands for the       *)
(* reclaim threshold's 15 minutes, a deferral is two of them.              *)
EXTENDS JobQueue, TLC

CONSTANTS k1, w1, w2, noKey, MaxJobs

MCJobIds == 1 .. MaxJobs
MCOneKey == {k1}
MCWorkers == {w1, w2}
MCOneWorker == {w1}
MCNow == {0}
MCLater == {2}
MCBudgets == {1, 2}
MCBackoff == [n \in 0 .. AttemptCap |-> IF n <= 1 THEN 1 ELSE 2 ^ (n - 1)]
MCSymmetry == Permutations(MCWorkers)
=============================================================================
