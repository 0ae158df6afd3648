CONSTANTS
    PassIds = {1, 2}
    JobIds = {1, 2}
    Keys = {k1}
    NoKey = noKey
    Replicas = {r1, r2}
    Keep = 2
SPECIFICATION Spec
SYMMETRY Symmetry
INVARIANTS
    PassSafety
PROPERTIES
    ClosedForGood
\* Every row may be used up and every pass closed.
CHECK_DEADLOCK FALSE
