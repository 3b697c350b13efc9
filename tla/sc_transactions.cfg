SPECIFICATION Spec
CONSTANTS
    Assets = {a1, a2}
    Sessions = {s1}
    Clients = {c1, c2}
    None = None
    MaxSends = 2
    MaxRounds = 1
    MaxCrashes = 1
SYMMETRY Symmetry
INVARIANTS
    TypeOK
    SnapshotWhole
    ReplyDurable
PROPERTIES
    FinalSnapshotSaved
CHECK_DEADLOCK FALSE
