SPECIFICATION Spec
CONSTANTS
    Proposals = {p1, p2}
    Handlers = {h1}
    Scanners = {"auto"}
    AutonomyEnabled = FALSE
    Eligible = {p1}
    Modes = {"live", "collaborative"}
    Truthful = {p1}
    None = None
    MaxFaults = 2
PROPERTIES
    ImplementsLifecycle
