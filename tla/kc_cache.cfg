SPECIFICATION Spec
CONSTANTS
    Requests = {r1, r2}
    Keys = {k1, k2}
    StaleSeconds = 2
    Timeout = 1
    None = None
    MaxTime = 4
    MaxRestarts = 2
SYMMETRY Symmetry
INVARIANTS
    TypeOK
    FreshIsRecent
    NothingForgotten
