CONSTANTS
    r1 = r1
    r2 = r2
    Replicas = {r1, r2}
    Yaml <- File
    Docs <- WholeOrPartial
    MaxWrites = 3
    MaxFaults = 1
SPECIFICATION FairSpec
INVARIANTS
    TypeOK
    LimiterFollowsStore
    WatchedUpdatesApplied
    AtMostOneStaleRun
    OperatorWins
PROPERTIES
    EveryReplicaSettles
