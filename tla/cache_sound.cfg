CONSTANTS
    s1 = s1
    h1 = h1
    h2 = h2
    g = g
    j1 = j1
    Catalog = {s1}
    Unknown = {}
    Handlers = {h1, h2}
    ExpiryJobs = {}
    MaxInt4 = 7
    InitCount = 3
    IncreaseCounts = {2}
    ReserveCounts = {2}
    OverlappingCalls = FALSE
    TruncatedReads = FALSE
    MaxCalls = 3
    MaxClock = 12
    MaxFaults = 1
    Readers = {g}
    CacheJobs = {j1}
    RedisModes = {TRUE, FALSE}
    Races = FALSE
    BatchSize = 1
    MaxRetries = 2
SPECIFICATION CacheSpec
SYMMETRY HandlerSymmetry
INVARIANTS
    CacheTypeOK
    EntriesSound
    ReadYourWrites
    ChangeOffered
PROPERTIES
    CacheImplementsLedger
