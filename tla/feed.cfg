CONSTANTS
    h1 = h1
    h2 = h2
    r1 = r1
    r2 = r2
    Catalog = {1}
    Unknown = {}
    Handlers = {h1, h2}
    ExpiryJobs = {}
    MaxInt4 = 7
    InitCount = 3
    IncreaseCounts = {2}
    ReserveCounts = {2}
    OverlappingCalls = FALSE
    TruncatedReads = FALSE
    MaxCalls = 2
    MaxClock = 1
    MaxFaults = 0
    Relays = {r1, r2}
    LateWrites = TRUE
    BatchSize = 2
    MaxRetries = 2
    MaxRelayFaults = 2
SPECIFICATION MonitorSpec

    
PROPERTIES
    
    
    GaugesAgree
