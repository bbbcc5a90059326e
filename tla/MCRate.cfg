SPECIFICATION RSpec
CONSTANTS
    c1 = c1
    c2 = c2
    w1 = w1
    w2 = w2
    None = None
    Clients <- MCClients
    Routes <- MCRoutes
    Paths <- MCPaths
    Matches <- MCMatches
    Rate <- MCLimits
    Burst <- MCLimits
    GlobalRate = 2
    GlobalBurst = 3
    IdleLimit = 1
    MaxAge = 2
    Workers <- MCWorkers
SYMMETRY MCSymmetry
INVARIANTS
    TypeOK
    WindowBound
    PathBound
    ServerBound
PROPERTIES
    ImplementsBuckets
