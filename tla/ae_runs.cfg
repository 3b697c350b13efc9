SPECIFICATION FairSpec
CONSTANTS
    s1 = s1
    s2 = s2
    Callers = {c1, c2}
    Symbols = {s1, s2}
    Whitelists <- EmptyOrOne
    Items <- FourItems
    None = None
    MaxRuns = 2
    MaxCrashes = 1
INVARIANTS
    TypeOK
    RunsAccounted
PROPERTIES
    ImplementsAuditTrail
    TriggersAnswered
CHECK_DEADLOCK FALSE
