CONSTANTS
    MaxIterations = 2
    MaxSteps = 3
    ErrorBudget = 5
    VerificationPlateau = 2
    Complaints = {wrong_value}
    Procs = {p1, p2}
    Mortal = {p2}
    Ids = {a1, a2, a3, a4}
    Loops = {l1}
    Plans <- OnePlan
    Overlap = FALSE
    Faults = {"step_fails", "audit_unseen"}
    NoId = NoId
SPECIFICATION FairSpec
PROPERTIES
    EveryLoopEnds
CHECK_DEADLOCK FALSE
