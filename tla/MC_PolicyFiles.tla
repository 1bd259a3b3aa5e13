--------------------------- MODULE MC_PolicyFiles ---------------------------
(* A small instance of PolicyFiles: one shipped and one other name in each  *)
(* safety list, ceilings around the shipped one.                            *)
EXTENDS PolicyFiles

CONSTANTS update_workflow, update_object, bulk_update, amount, jobtitle

MCTools            == {update_workflow, update_object, bulk_update}
MCPatternTools     == {update_object, bulk_update}
MCListTools        == {bulk_update}
MCProperties       == {amount, jobtitle}
MCShippedNeverAuto == {update_workflow}
MCShippedSensitive == {amount}

\* Files that set at most two keys at a time.
Ceilings   == {[NoFile EXCEPT !.max = m] : m \in {Malformed, Infinite, 0, 3}}
Thresholds == {[NoFile EXCEPT !.threshold = t] : t \in {Malformed, 1, 3}}
TTLs       == {[NoFile EXCEPT !.ttl = t] : t \in {Malformed, Infinite, -1, 3}}
Lists      == {[NoFile EXCEPT !.sensitive = s, !.action = a] :
                  s \in {Malformed, {jobtitle}}, a \in {"full_gate", "unknown"}}
Nevers     == {[NoFile EXCEPT !.never = n, !.action = a] :
                  n \in {{}, {update_object, bulk_update}}, a \in {"full_gate", Unset}}

MCGlobalFiles == {NoFile} \cup Ceilings \cup Lists \cup Nevers
MCPortalFiles == MCGlobalFiles \cup Thresholds \cup TTLs
MCPreviews    ==
    [destructive : BOOLEAN, intent : {"create", "update", "delete"}, impact : {0, 1, 3},
     captured : {0, 1, 3}, keys : {{}, {amount}, {jobtitle}}, tool : MCTools]
=============================================================================
