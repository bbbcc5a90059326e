SPECIFICATION MSpec
CONSTANTS
    o1 = o1
    o2 = o2
    s1 = s1
    s2 = s2
    s3 = s3
    k1 = k1
    k2 = k2
    None = None
    Owners <- TwoOwners
    Sessions <- ThreeSessions
    OwnerOf <- ThreeOwnerOf
    Keys <- TwoKeys
INVARIANTS
    TypeOK
    ClaimedKeyIsLinked
    GatesFollowCommands
    LoginAlignsRefs
