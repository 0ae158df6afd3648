---- MODULE MCCatchUp ----
EXTENDS CatchUp, TLC
Symmetry == Permutations(Starters) \cup Permutations(Renders)
====
