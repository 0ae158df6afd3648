---------------------------- MODULE MCScheduler ----------------------------
(* Two heavy jobs, which share the lane, and one light job; one slot more  *)
(* than the code can ever fill, so that an overlap would have room.        *)
EXTENDS Scheduler

CONSTANTS prune, merge, reclaim

MCHeavy == <<prune, merge>>
=============================================================================
