SPECIFICATION IntakeSpec
CONSTANTS
    Keys = {1, 2, 3, 4}
    Film <- MCFilm
    Lib <- MCLib
    Files = {"a", "b"}
    Libs <- MCLibs
    Holdings <- MCHoldings
    Batch = 1
    Events = 2
    Item <- ArrItem
    Malformed = {9}
    Sections <- ArrSections
    Excluded = {"kids"}
    PlexRoot <- ArrPlexRoot
    ArrRoot <- ArrArrRoot
    RootSets <- ArrRootSets
    Starts <- ArrStarts
    Edits <- ArrEdits
    Trivial = 1
    Mishaps = 2
    Runs = 1
    RetryCount = 2
    Timeout = 4
    RetryAfters = {0, 9}
    Details <- OutDetails
    Summaries = {5000}
    Breakdowns = 1
INVARIANTS
    DiscoverySafety
    SyncSafety
    NotifySafety
PROPERTIES
    KnownItemsKeepTheirRow
    
    
    EveryGapIsClosed
    TheRowComesFirst
    EverySendEnds
CHECK_DEADLOCK FALSE
