CONSTANTS
    Calendar <- MCCalendar
    PerMinute = 1
    ScanCap = 4
    Never = Never
    Sweeps = {p1}
    Schedules = {1, 2}
    plan <- TwoPlans
    Ids = {1, 2, 3, 4, 5}
    TTL = 2
    ReapAge = 1
    Faults = {"step_fails", "run_raises", "crash"}
    MaxClock = 3
SPECIFICATION FairSpec
INVARIANTS
    TypeOK
    OneBatchAtATime
    StampsAreRight
    EachTickOnce
PROPERTIES
    TickServed
CHECK_DEADLOCK FALSE
