CONSTANTS
    s1 = s1
    s2 = s2
    u = u
    h1 = h1
    h2 = h2
    e = e
    Catalog = {s1, s2}
    Unknown = {u}
    Handlers = {h1, h2}
    ExpiryJobs = {e}
    MaxInt4 = 7
    InitCount = 3
    IncreaseCounts = {2}
    ReserveCounts = {2}
    OverlappingCalls = TRUE
    TruncatedReads = TRUE
    MaxCalls = 3
    MaxClock = 4
    MaxFaults = 1
SPECIFICATION Spec
SYMMETRY HandlerSymmetry
INVARIANTS
    TypeOK
    ReservedWithinCount
    EventsChain
PROPERTIES
    XminIdentifiesVersion
    NoLostUpdate
    CacheUpdateForEveryChange
