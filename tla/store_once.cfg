CONSTANTS
    s1 = s1
    u = u
    h1 = h1
    h2 = h2
    e = e
    Catalog = {s1}
    Unknown = {u}
    Handlers = {h1, h2}
    ExpiryJobs = {e}
    MaxInt4 = 7
    InitCount = 3
    IncreaseCounts = {2}
    ReserveCounts = {2}
    OverlappingCalls = TRUE
    TruncatedReads = FALSE
    MaxCalls = 3
    MaxClock = 12
    MaxFaults = 0
SPECIFICATION Spec
SYMMETRY HandlerSymmetry
PROPERTIES
    FinaliseOnce
