---------------------------- MODULE MC_WriteGate ----------------------------
(* Small instances of WriteGate: one write of each tier, path and outcome.  *)
EXTENDS WriteGate, TLC

CONSTANTS send_email, bulk_update, update_object, amount, jobtitle

MCTools            == {send_email, bulk_update, update_object}
MCProperties       == {amount, jobtitle}
MCShippedNeverAuto == {send_email}
MCShippedSensitive == {amount}

MCPolicy ==
    [max |-> 1, threshold |-> 1, ttl |-> 7, action |-> "confirm",
     sensitive |-> MCShippedSensitive, never |-> MCShippedNeverAuto]

Preview(destructive, intent, impact, captured) ==
    [destructive |-> destructive, intent |-> intent, impact |-> impact,
     captured |-> captured, keys |-> {jobtitle}, tool |-> update_object]

Proposed(path, interactive, preview) ==
    [path |-> path, interactive |-> interactive, object |-> TRUE, preview |-> preview]

SafeUpdate  == Preview(FALSE, "update", 1, 1)
SafeCreate  == Preview(FALSE, "create", 1, 0)
LargeUpdate == Preview(FALSE, "update", 2, 2)
Deletion    == Preview(TRUE, "delete", 1, 1)
OtherWrite  == Preview(FALSE, "write", 1, 0)

\* A note: its payload names no object type.
Note == [Proposed("tool", TRUE, SafeCreate) EXCEPT !.object = FALSE]

ToolRequests ==
    {Proposed("tool", TRUE, SafeUpdate), Proposed("tool", FALSE, SafeCreate), Note,
     Proposed("tool", TRUE, LargeUpdate), Proposed("tool", TRUE, Deletion),
     Proposed("tool", TRUE, OtherWrite)}

MaskingRequests == {Proposed("agent", TRUE, SafeUpdate), Proposed("bulk", TRUE, LargeUpdate)}

\* Ids and processes are interchangeable in every definition.
Interchangeable == Permutations(Ids) \cup Permutations(Procs)

AllRequests == ToolRequests \cup MaskingRequests
=============================================================================
