SPECIFICATION FSpec
CONSTANTS
    a = a
    b = b
    w1 = w1
    w2 = w2
    u1 = u1
    NotFound = NotFound
    Empty = Empty
    Torn = Torn
    MaxDownloads = 1
    CanFail = TRUE
    Names <- MCNames
    Vers <- MCVers
    Workers <- MCWorkers
    Uploads <- MCUploads
SYMMETRY MCSymmetry
INVARIANTS
    FTypeOK
    SoloSaveIsDurable
