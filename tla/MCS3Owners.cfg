SPECIFICATION MSpec
CONSTANTS
    i1 = i1
    i2 = i2
    o1 = o1
    o2 = o2
    k1 = k1
    k2 = k2
    None = None
    MaxFailures = 1
    Servers <- TwoServers
    Accounts <- TwoAccounts
    Keys <- TwoKeys
    Asked <- FourKinds
    Objects <- SixObjects
INVARIANTS
    TypeOK
    CalmStoreFollowsOwner
CONSTRAINT StillCalm
