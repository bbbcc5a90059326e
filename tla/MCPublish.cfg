SPECIFICATION MSpec
CONSTANTS
    a = a
    b = b
    k1 = k1
    w1 = w1
    w2 = w2
    NotFound = NotFound
    NoRequest = NoRequest
    Token = Token
    MaxDownloads = 1
    Names <- TwoNames
    Vers <- OneVersion
    Keys <- OneKey
    Workers <- TwoWorkers
    Requests <- AllRequests
    Uploads <- AllRequests
INVARIANTS
    HTypeOK
    ClosedGateStopsPublish
    OfficialHasAsset
    OverwriteNeedsRace
    BuggyDependencyStopsPublish
    ProxyDependenciesExist
PROPERTIES
    OfficialNeverReplacesOfficial
    ImplementsCatalog
    ContestsEnd
