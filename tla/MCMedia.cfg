SPECIFICATION MediaSpec
CONSTANTS
    Items <- MCItems
    Libtype = "movie"
    Written <- MCWritten
    Libraries <- MCLibraries
    Parts = 2
    MsPerMin = 2
    Start = 1
    MaxClock = 4
    Nothing = Nothing
    Gone = Gone
INVARIANTS
    FiltersSafety
    
    MembershipSafety
    
PROPERTIES
    
    MembershipSteps
CHECK_DEADLOCK FALSE
