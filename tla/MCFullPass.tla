----------------------------- MODULE MCFullPass -----------------------------
(* Two presses and two job rows of one item: the second row is a webhook's *)
(* or the second press's. Two replicas watch, alike.                       *)
EXTENDS FullPass, TLC

Symmetry == Permutations(Replicas)
=============================================================================
