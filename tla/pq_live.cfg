SPECIFICATION FairSpec
CONSTANTS
    Proposals = {p1, p2}
    Handlers = {h1}
    Scanners = {"expiry"}
    AutonomyEnabled = TRUE
    Eligible = {p1}
    Modes = {"paper"}
    Truthful = {p1}
    None = None
    MaxFaults = 1
INVARIANTS
    RecordedOrderExists
PROPERTIES
    DeadlineEnforced
