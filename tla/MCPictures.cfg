SPECIFICATION PicturesSpec
CONSTANTS
    Rows <- ActRows
    Item <- ActItem
    Kind <- ActKind
    Library <- ActLibrary
    Key <- ActKey
    Waiting <- ActWaiting
    Arts <- ActArts
    Configs <- ActConfigs
    Old <- ActOld
    Batch = 1
    MaxJobs = 2
    Events = 2
    Workers <- ArtWorkers
    Requests = {"r1"}
    Providers <- ArtProviders
    Catalogue <- ArtCatalogue
    ArtworkConfigs <- ArtConfigs
    Worlds <- ArtWorlds
    FirstWorlds <- ArtFirstWorlds
    Turns <- OneChange
    Uploads = {"m"}
    PickedLogos = {"k9"}
    ArtworkEvents = 2
    w1 = w1
    w2 = w2
INVARIANTS
    ArtworkSafety
    ActionCenterSafety

    
SYMMETRY Symmetry
CHECK_DEADLOCK FALSE
