SPECIFICATION Spec
CONSTANTS
    Proposals = {p1}
    Handlers = {h1, h2}
    Scanners = {"expiry", "auto"}
    AutonomyEnabled = TRUE
    Eligible = {p1}
    Modes = {"live"}
    Truthful = {}
    None = None
    MaxFaults = 1
SYMMETRY Symmetry
INVARIANTS
    TypeOK
    ManualWriteAhead
    ManualOncePerHandler
    AutoOncePerScanner
PROPERTIES
    DecisionDurable
    ClosedStaysClosed
