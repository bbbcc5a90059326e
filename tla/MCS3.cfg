SPECIFICATION FairSpec
CONSTANTS
    a = a
    i1 = i1
    i2 = i2
    t1 = t1
    t2 = t2
    u1 = u1
    NotFound = NotFound
    None = None
    MaxDownloads = 1
    MaxFailures = 1
    Names <- OneName
    Vers <- OneVersion
    Uploads <- OneUpload
    Tasks <- OneTask
    Instances <- TwoInstances
    Settable <- MCSettable
INVARIANTS
    TypeOK
    ServedIsStored
PROPERTIES
    CachesConverge
