CONSTANTS
    r1 = r1
    r2 = r2
    Keys = {1, 2}
    PerKey = 2
    Corrupt <- FirstOfKeyOne
    Relays = {r1, r2}
    Sites <- SomeSites
    BatchSize = 1
    MaxRetries = 2
    MaxFaults = 2
SPECIFICATION FairSpec
INVARIANTS
    TypeOK
    NothingLost
    InOrder
    NoOvertaking
    DeadAfterRetries
PROPERTIES
    EventuallySettled
