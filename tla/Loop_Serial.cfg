CONSTANTS
    MaxIterations = 3
    MaxSteps = 3
    ErrorBudget = 5
    VerificationPlateau = 2
    Complaints = {wrong_value, missing_field}
    Procs = {p1}
    Mortal = {}
    Ids = {a1, a2, a3, a4}
    Loops = {l1, l2}
    Plans <- LongPlans
    Overlap = FALSE
    Faults = {"step_fails"}
    NoId = NoId
SPECIFICATION Spec
SYMMETRY Interchangeable
INVARIANTS
    OneOpenWrite
    RepeatsAreWarranted
    StopMeansRejected
PROPERTIES
    LoopsKeepTheirPlace
    ImplementsOrderedWrites
CHECK_DEADLOCK FALSE
