SPECIFICATION Spec
CONSTANTS
    k1 = k1
    w1 = w1
    w2 = w2
    noKey = noKey
    NoKey = noKey
    MaxJobs = 2
    JobIds <- MCJobIds
    Keys <- MCOneKey
    Workers <- MCWorkers
    Delays <- MCNow
    Budgets <- MCBudgets
    Backoff <- MCBackoff
    DeferInterval = 2
    Stagger = 1
    StaleAfter = 1
    AttemptCap = 2
    MaxCrashes = 1
    Slow = FALSE
SYMMETRY MCSymmetry
INVARIANTS
    QueueSafety
PROPERTIES
    QueueSteps
