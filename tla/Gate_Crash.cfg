CONSTANTS
    send_email = send_email
    bulk_update = bulk_update
    update_object = update_object
    amount = amount
    jobtitle = jobtitle
    Unset = Unset
    Malformed = Malformed
    Infinite = Infinite
    ShippedMax = 1
    ShippedTTL = 7
    Tools <- MCTools
    Properties <- MCProperties
    ShippedNeverAuto <- MCShippedNeverAuto
    ShippedSensitive <- MCShippedSensitive
    policy <- MCPolicy
    Ids = {a1}
    Procs = {p1, p2}
    Requests <- ToolRequests
    Overlap = FALSE
    Faults = {"crash", "snapshot_fails", "no_created_id", "audit_fails"}
    MaxEffects = 3
SPECIFICATION Spec
INVARIANTS
    EffectHasSnapshot
CHECK_DEADLOCK FALSE
