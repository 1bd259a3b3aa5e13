SPECIFICATION Spec
CONSTANTS
    NoType = NoType
    NoKey = NoKey
    NoRecord = NoRecord
    Old = Old
    a = a
    b = b
    Keys <- MCKeys
    ChunkSize = 2
    Requests <- MCRequests
    Grants <- MCGrants
    Inputs <- MCInputs
    Records <- MCRecords
    Named = "r1"
    MaxOthers = 1
    MaxRuns = 2
INVARIANTS
    ChangesAreApproved
    AgentsKeepTheirWord
    ScopesCoverTheCalls
    BatchAddsUp
CHECK_DEADLOCK FALSE
