SPECIFICATION MSpec
CONSTANTS
    None = None
    w1 = w1
    w2 = w2
    u1 = u1
    u2 = u2
    t1 = t1
    f1 = f1
    f2 = f2
    c1 = c1
    c2 = c2
    Ids <- OneId
    Workers <- TwoWorkers
    Variants <- OneVariant
    Hosts <- TwoHosts
    Trackers = {t1}
    Files = {f1, f2}
    Codes = {c1, c2}
    Publications <- AllPublications
    MaxChanges = 1
    MaxDownloads = 1
SYMMETRY MCSymmetry
INVARIANTS
    TypeOK
    StoredStaysValid
    CheckedDownloadIsPublished
    UnlockFollowsManifest
