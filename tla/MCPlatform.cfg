SPECIFICATION PlatformSpec
CONSTANTS
    Procs = {p1, p2}
    Requests = {r1, r2}
    Keys = {"lib", "frz", "docs"}
    Vals = {0, 1}
    Unset = Unset
    Required = {"lib"}
    Frozen = {"frz", "docs"}
    Inert = {"docs"}
    Guarded = {"lib"}
    Stale = {"old"}
    Submitted <- MCSubmitted
    Files <- MCFiles
    NoFile = NoFile
    Rows <- MCRows
    NoRow = NoRow
    DropCap = 1
    Keep = 2
    Anything = Anything
    MaxWrites = 2
    MaxBoots = 2
    MaxEdits = 1
    Names = {"db", "web", "tok", "key"}
    Db = "db"
    Web = "web"
    Hard = {"db", "web"}
    Servers = {"plex", "jelly"}
    Cred <- MCCred
    Envs <- MCEnvs
    None = None
    Cards = {"card"}
    MaxStarts = 4
    MaxChanges = 2
INVARIANTS
    ConfigSafety
    DeploymentSafety
PROPERTIES
    RegisterSpec
    CardsKeepCredentials
CHECK_DEADLOCK FALSE
SYMMETRY Symmetry
