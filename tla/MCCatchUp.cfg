CONSTANTS
    Renders = {x1}
    RunIds = {1, 2}
    Starters = {button, auto}
    Sweeps = {sweep}
    Drains = {drain}
    MaxAttempts = 2
    MaxIdleDrains = 2
    MaxFacts = 2
SPECIFICATION Spec
SYMMETRY Symmetry
INVARIANTS
    CatchUpSafety
PROPERTIES
    VerdictStands
