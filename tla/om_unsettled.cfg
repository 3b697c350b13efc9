SPECIFICATION FairSpec
CONSTANTS
    o1 = o1
    o2 = o2
    x1 = x1
    x2 = x2
    Orders = {o1}
    Exchanges = {x1}
    Api <- Htx
    Home = x1
    Managers = {app}
    Wired = {app}
    Cancelling = {}
    Clients = {c1}
    None = None
    MaxCrashes = 0
    MaxCuts = 0
PROPERTIES
    SyncSettlesRows
CHECK_DEADLOCK FALSE
