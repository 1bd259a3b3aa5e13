CONSTANTS
    w = w
    r = r
    A = A
    B = B
    Callers = {w, r}
    Daemons = {1, 2}
    Portals = {A, B}
    kind <- MCKind
    target <- MCTarget
    Nobody = Nobody
SPECIFICATION FairSpec
INVARIANTS
    OneWritePerCall
    WritesAreTold
PROPERTIES
    ImplementsStoreOnce
    CallsEnd
    OrphansExit
CHECK_DEADLOCK FALSE
