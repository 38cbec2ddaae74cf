CONSTANTS
    s1 = s1
    s2 = s2
    h1 = h1
    h2 = h2
    Catalog = {s1, s2}
    Unknown = {}
    Handlers = {h1, h2}
    ExpiryJobs = {}
    MaxInt4 = 7
    InitCount = 3
    IncreaseCounts = {2}
    ReserveCounts = {2}
    OverlappingCalls = TRUE
    TruncatedReads = FALSE
    MaxCalls = 3
    MaxClock = 12
    MaxFaults = 1
SPECIFICATION FairSpec
INVARIANTS
    ReservedBacked
PROPERTIES
    EveryCallReturns
