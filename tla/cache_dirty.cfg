CONSTANTS
    s1 = s1
    h1 = h1
    h2 = h2
    Catalog = {s1}
    Unknown = {}
    Handlers = {h1, h2}
    ExpiryJobs = {}
    MaxInt4 = 7
    InitCount = 3
    IncreaseCounts = {2}
    ReserveCounts = {2}
    OverlappingCalls = FALSE
    TruncatedReads = FALSE
    MaxCalls = 2
    MaxClock = 12
    MaxFaults = 0
    Readers = {}
    CacheJobs = {}
    RedisModes = {TRUE}
    Races = TRUE
    BatchSize = 1
    MaxRetries = 2
SPECIFICATION CacheSpec
SYMMETRY HandlerSymmetry
PROPERTIES
    ReserveKeepsStock
