SPECIFICATION Spec
CONSTANTS
    Clients = {c1, c2}
    Prices = {1}
    Volumes = {1}
    Gains = {1}
    InitialCash = 1
    MaxTrades = 3
    MaxCuts = 2
SYMMETRY Symmetry
INVARIANTS
    TypeOK
    PositionsPositive
    BooksMatchTrades
    CashFromTrades
PROPERTIES
    BuysFunded
CHECK_DEADLOCK FALSE
