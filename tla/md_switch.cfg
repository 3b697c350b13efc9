SPECIFICATION Spec
CONSTANTS
    Exchanges = {e1, e2}
    Symbols = {b1}
    Subscribers = {c1, c2}
    Refreshers = {r1, r2}
    QueueSize = 1
    None = None
    MaxTickers = 2
    MaxRequests = 2
SYMMETRY Symmetry
INVARIANTS
    TypeOK
    FiledUnderSource
    ClientsIndependent
    CacheFollowsActive
