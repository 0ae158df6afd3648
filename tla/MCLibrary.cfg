CONSTANTS
    s1 = s1
    s2 = s2
    e = e
    m1 = m1
    m2 = m2
    S = S
    E = E
    M = M
    a = a
    b = b
    c = c
    j = j
    jf = jf
    Plex = plex
    None = none
    Keys = {s1, s2, e, m1, m2}
    Natives = {a, b, c, j}
    Libraries = {{s1, s2, e}, {m1, m2}}
    Exclusions = {{}, {j}}
    Workers = {w}
    MaxRows = 3
    MaxMoves = 2
    MaxTasks = 2
    MaxRuns = 1
    MaxPrunes = 2
    MaxMerges = 1
    Title <- TitleOf
    Stem <- StemOf
    ParentTitle <- ParentOf
    ServerOf <- ServerIs
    MayHold <- Holdable
    FirstRows <- Tables
SPECIFICATION LibrarySpec
INVARIANTS
    LibrarySafety
PROPERTIES
    LibrarySteps
CHECK_DEADLOCK FALSE
