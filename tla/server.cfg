CONSTANTS
    direct = direct
    rest = rest
    admin = admin
    other = other
    job = job
    Calls = {direct, rest}
    Gateway = {rest}
    Users = {admin, other}
    Header <- TwoHeaders
    Outcomes <- TwoMethods
    Configs <- SomeConfigs
    Jobs = {job}
    MaxChanges = 2
SPECIFICATION FairSpec
INVARIANTS
    TypeOK
    
    CountedAsAnswered
    NoAnswerLost
PROPERTIES
    JudgedByOneConfig
    ProcessEnds
    EveryCallAnswered
