CONSTANTS
    s1 = s1
    u = u
    h1 = h1
    h2 = h2
    e = e
    Catalog = {s1}
    Unknown = {u}
    Handlers = {h1, h2}
    ExpiryJobs = {e}
    MaxInt4 = 7
    InitCount = 4
    IncreaseCounts = {2, 7}
    ReserveCounts = {2}
    OverlappingCalls = FALSE
    TruncatedReads = FALSE
    MaxCalls = 3
    MaxClock = 12
    MaxFaults = 1
SPECIFICATION FairSpec
INVARIANTS
    ReservedExact
PROPERTIES
    ConfirmDeductsWhatItRemoves
    ImplementsLedger
    ReservationsExpire
