CONSTANTS
    x = x
    Empty = Empty
    Values = {Empty, x}
    Records = {1, 2}
    Contents <- MCContents
    Ids = {a1, a2}
    Procs = {p1, p2}
    Rules <- MCRules
    Threshold = 1
    Overlap = FALSE
    Races = FALSE
    Faults = {"not_captured", "read_fails", "refused", "response_lost", "snapshot_fails", "audit_fails", "crash"}
    MaxEdits = 1
SPECIFICATION Spec
SYMMETRY Interchangeable
INVARIANTS
    TypeOK
    NeverOverwrites
    ManyNeedTheirCount
    BatchIsAccountedFor
PROPERTIES
    UndoRestoresTheBatch
CHECK_DEADLOCK FALSE
