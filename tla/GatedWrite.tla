----------------------------- MODULE GatedWrite -----------------------------
(***************************************************************************)
(* What the approval gate promises about every write that is put in front  *)
(* of the operator: it takes effect at most once, only while it is still   *)
(* waiting and only after it was permitted; a discarded write never takes  *)
(* effect; only a write that took effect is undone.                        *)
(*                                                                         *)
(* WriteGate implements this when nothing overlaps and no process dies     *)
(* between two steps of an approval.                                       *)
(***************************************************************************)
EXTENDS Naturals

CONSTANT Ids \* the action ids

VARIABLES
    stage,     \* where each write is in its life
    permitted, \* the writes that may take effect
    effects    \* how many times each write took effect in HubSpot

gatedVars == <<stage, permitted, effects>>

Init ==
    /\ stage \in [Ids -> {"none", "pending"}]
    /\ permitted = {}
    /\ effects = [id \in Ids |-> 0]

Move(id, from, to) == stage[id] = from /\ stage' = [stage EXCEPT ![id] = to]

\* A write is staged; the policy may permit it there and then.
Stage(id) ==
    /\ Move(id, "none", "pending")
    /\ permitted' \in {permitted, permitted \cup {id}}
    /\ UNCHANGED effects

Permit(id) ==
    /\ stage[id] = "pending"
    /\ permitted' = permitted \cup {id}
    /\ UNCHANGED <<stage, effects>>

Execute(id) ==
    /\ id \in permitted
    /\ Move(id, "pending", "executed")
    /\ effects' = [effects EXCEPT ![id] = @ + 1]
    /\ UNCHANGED permitted

Discard(id) ==
    /\ Move(id, "pending", "discarded")
    /\ UNCHANGED <<permitted, effects>>

Undo(id) ==
    /\ Move(id, "executed", "undone")
    /\ UNCHANGED <<permitted, effects>>

\* Several expired writes may be discarded at once.
DiscardSome ==
    \E gone \in SUBSET Ids :
        /\ \A id \in gone : stage[id] = "pending"
        /\ stage' = [id \in Ids |-> IF id \in gone THEN "discarded" ELSE stage[id]]
        /\ UNCHANGED <<permitted, effects>>

Next ==
    \/ DiscardSome
    \/ \E id \in Ids :
          Stage(id) \/ Permit(id) \/ Execute(id) \/ Discard(id) \/ Undo(id)

Spec == Init /\ [][Next]_gatedVars
=============================================================================
