SPECIFICATION ServersSpec
CONSTANTS
    Items = {1, 2}
    Slots <- ServerSlots
    Cap = 1
    Versions = {1, 2}
    Events = 2
    OperatorDuringRuns = FALSE
    MetaFields = {"genres", "sort"}
    Sourced = {"genres"}
    Answers = {2}
    Listed = {"genres"}
    Lockable = {"genres"}
    Removable = {"genres"}
    Defs = {"a"}
    First = "a"
    Place <- MetaPlace
    Configs <- MetaConfigs
    Retried = {"jellyfin"}
    Touched <- MetaTouched
    MaxAttempts = 1
    MetadataEvents = 2
INVARIANTS
    ServerArtSafety
    
PROPERTIES
    NothingIsBlanked
CHECK_DEADLOCK FALSE
