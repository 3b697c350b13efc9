SPECIFICATION FairSpec
CONSTANTS
    x1 = x1
    x2 = x2
    Clients = {c1, c2}
    Pairs = {x1, x2}
    Notionals = {0, 1, 3}
    Configs <- TwoConfigs
    DefaultMin = 1
    DefaultMax = 3
    DefaultSecs = 2
    None = None
    MaxTime = 5
    MaxCrashes = 1
INVARIANTS
    TypeOK
    PromiseDurable
PROPERTIES
    VerdictHolds
    PlacedApart
    ExpiredRowsGo
CHECK_DEADLOCK FALSE
