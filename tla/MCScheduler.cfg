SPECIFICATION FairSpec
CONSTANTS
    prune = prune
    merge = merge
    reclaim = reclaim
    Heavy <- MCHeavy
    Light = {reclaim}
    Unrecorded = {reclaim}
    Slots = {1, 2}
    MaxOpen = 2
    None = none
    MaxCrashes = 1
INVARIANTS
    LaneSafety
PROPERTIES
    RunNowIsHonoured
