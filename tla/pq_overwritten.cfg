SPECIFICATION Spec
CONSTANTS
    Proposals = {p1}
    Handlers = {h1, h2}
    Scanners = {}
    AutonomyEnabled = FALSE
    Eligible = {p1}
    Modes = {"live"}
    Truthful = {p1}
    None = None
    MaxFaults = 0
PROPERTIES
    LegalTransitions
CHECK_DEADLOCK FALSE
