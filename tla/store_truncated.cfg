CONSTANTS
    s1 = s1
    u = u
    h1 = h1
    h2 = h2
    e = e
    Catalog = {s1}
    Unknown = {u}
    Handlers = {h1, h2}
    ExpiryJobs = {e}
    MaxInt4 = 7
    InitCount = 3
    IncreaseCounts = {2}
    ReserveCounts = {2}
    OverlappingCalls = FALSE
    TruncatedReads = TRUE
    MaxCalls = 2
    MaxClock = 12
    MaxFaults = 1
SPECIFICATION Spec
SYMMETRY HandlerSymmetry
PROPERTIES
    ConfirmDeductsWhatItRemoves
