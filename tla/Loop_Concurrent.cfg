CONSTANTS
    MaxIterations = 1
    MaxSteps = 2
    ErrorBudget = 5
    VerificationPlateau = 2
    Complaints = {wrong_value}
    Procs = {p1, p2}
    Mortal = {p2}
    Ids = {a1, a2}
    Loops = {l1, l2}
    Plans <- BriefPlans
    Overlap = TRUE
    Faults = {"step_fails", "audit_unseen", "id_unrecorded"}
    NoId = NoId
SPECIFICATION Spec
SYMMETRY Interchangeable
INVARIANTS
    OnlyVerifiedBehind
CHECK_DEADLOCK FALSE
