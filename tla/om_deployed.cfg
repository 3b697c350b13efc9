SPECIFICATION Spec
CONSTANTS
    o1 = o1
    o2 = o2
    x1 = x1
    x2 = x2
    Orders = {o1, o2}
    Exchanges = {x1, x2}
    Api <- BinanceAndHyperliquid
    Home = x1
    Managers = {app, web}
    Wired = {app}
    Cancelling = {app, web}
    Clients = {c1, c2}
    None = None
    MaxCrashes = 1
    MaxCuts = 1
INVARIANTS
    TypeOK
    Journaled
    FilledIsOver
    OpenRowsTracked
    CancelledAtVenue
PROPERTIES
    ImplementsOrderLifecycle
SYMMETRY Symmetry
CHECK_DEADLOCK FALSE
