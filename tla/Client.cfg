CONSTANTS
    r = r
    w = w
    Tasks = {r, w}
    Reads = {r}
    Limit = 2
    Window = 2
    RetryAfter = 1
    MaxExpiries = 2
    MaxNears = 1
    Nobody = Nobody
SPECIFICATION FairSpec
INVARIANTS
    WriteSentOnce
    RefreshesSuffice
    WithinLimit
PROPERTIES
    RequestsEnd
CHECK_DEADLOCK FALSE
