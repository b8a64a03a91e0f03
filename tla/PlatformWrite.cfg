CONSTANTS
    h1 = h1
    h2 = h2
    compose = compose
    secret = secret
    v1 = v1
    v2 = v2
    s1 = s1
    s2 = s2
    Ops <- MCOps
    Paths <- MCPaths
    Writable <- MCWritable
    Contents <- MCContents
    Absent = Absent
    Torn = Torn
    Sha <- MCSha
    NoBase = NoBase
    MaxRequests = 3
    MaxCrashes = 1
SPECIFICATION Spec
INVARIANTS
    NeverTorn
    NothingLeftBehind
PROPERTIES
    NoLostUpdate
    ImplementsStore
    EveryRequestAnswered
\* After the last request nothing more happens.
CHECK_DEADLOCK FALSE
