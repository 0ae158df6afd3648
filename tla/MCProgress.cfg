SPECIFICATION ProgressSpec
CONSTANTS
    Workers = {p1, p2, p3}
    Requests = {a1, a2, a3}
    Nobody = nobody
    k1 = k1
    noKey = noKey
    w1 = w1
    r1 = r1
    x1 = x1
    button = button
    drain = drain
INVARIANTS
    PauseSafety
PROPERTIES
    PausesEnd
    EventsGetAttempts
    PassesEnd
    RunsEnd
CHECK_DEADLOCK FALSE
