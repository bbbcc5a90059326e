SPECIFICATION MSpec
CONSTANTS
    i1 = i1
    i2 = i2
    w1 = w1
    w2 = w2
    k1 = k1
    k2 = k2
    p1 = p1
    p2 = p2
    Bucket = Bucket
    None = None
    MaxFailures = 1
    Servers <- TwoServers
    Workers <- TwoWorkers
    Keys <- TwoKeys
    Trusted <- OneKey
    Profiles <- TwoProfiles
SYMMETRY MCSymmetry
INVARIANTS
    TypeOK
    LinkedKeyIsStored
    KnownKeyIsAdmitted
    OnlySignersPublish
    SignupIsWhole
