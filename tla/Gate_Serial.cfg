CONSTANTS
    send_email = send_email
    bulk_update = bulk_update
    update_object = update_object
    amount = amount
    jobtitle = jobtitle
    Unset = Unset
    Malformed = Malformed
    Infinite = Infinite
    ShippedMax = 1
    ShippedTTL = 7
    Tools <- MCTools
    Properties <- MCProperties
    ShippedNeverAuto <- MCShippedNeverAuto
    ShippedSensitive <- MCShippedSensitive
    policy <- MCPolicy
    Ids = {a1, a2}
    Procs = {p1, p2}
    Requests <- ToolRequests
    Overlap = FALSE
    Faults = {"refused", "snapshot_fails", "audit_fails"}
    MaxEffects = 3
SPECIFICATION Spec
SYMMETRY Interchangeable
INVARIANTS
    LeavesTraceAndUndo
PROPERTIES
    ImplementsGatedWrite
CHECK_DEADLOCK FALSE
