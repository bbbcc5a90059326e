SPECIFICATION MSpec
CONSTANTS
    None = None
    DefaultPerPage = 2
    MaxPublishes = 2
    Names <- ThreeNames
    Vers <- TwoVersions
    Manifests <- SomeManifests
    PerPages <- PageSizes
INVARIANTS
    TypeOK
    ResolvesReachable
    EachNameOnce
    WalkMissesNoName
    WalkIsExact
PROPERTIES
    ResolutionEnds
