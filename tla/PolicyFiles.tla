----------------------------- MODULE PolicyFiles -----------------------------
(***************************************************************************)
(* The approval policy in use: the operator edits the global and the       *)
(* portal's approval_policy.json at any time, and every write that is      *)
(* staged is put into a tier under the files as they are at that moment    *)
(* (safety.apply_write loads the policy for each write), as a pattern when *)
(* that was asked for and the policy allows it (handlers.handle_tool).     *)
(***************************************************************************)
EXTENDS Policy

CONSTANTS
    GlobalFiles,  \* the contents the global file may be given
    PortalFiles,  \* the contents the portal's file may be given
    Previews,     \* the previews that are staged
    PatternTools, \* _PATTERN_ELIGIBLE_TOOLS
    ListTools     \* those of them whose payload is a list of records

ASSUME PolicyFilesAssumption ==
    /\ GlobalFiles \subseteq PolicyFile
    /\ PortalFiles \subseteq PolicyFile
    /\ Previews \subseteq PreviewRecord
    /\ ListTools \subseteq PatternTools

VARIABLES
    global, \* CONFIG_DIR/approval_policy.json
    portal, \* CONFIG_DIR/<portal>/approval_policy.json
    staged  \* the last write that was staged: its preview, whether it was to be
            \* a pattern, the policy it met, its tier

vars == <<global, portal, staged>>

NothingStaged == [tier |-> "none"]
NotStaged     == [tier |-> "refused"]

TypeOK ==
    /\ global \in PolicyFile
    /\ portal \in PolicyFile
    /\ \/ staged \in {NothingStaged, NotStaged}
       \/ staged \in [preview : PreviewRecord, pattern : BOOLEAN, policy : ApprovalPolicy, tier : Tiers]

Init ==
    /\ global = NoFile
    /\ portal = NoFile
    /\ staged = NothingStaged

-----------------------------------------------------------------------------
(* Patterns *)

\* _pattern_eligibility: a reversible update of no sensitive property.
PatternEligible(preview, policy) ==
    /\ ~preview.destructive
    /\ preview.tool \in PatternTools
    /\ preview.keys \cap policy.sensitive = {}

\* A payload without a list of records matches none.
Matched(preview) == IF preview.tool \in ListTools THEN preview.impact ELSE 0

PatternTier(preview, policy) == IF Matched(preview) > policy.threshold THEN FULL_GATE ELSE CONFIRM

\* A pattern replaces the tier of its preview; one that is not eligible is
\* staged like any other write.
StagedTier(preview, pattern, policy) ==
    IF pattern /\ PatternEligible(preview, policy) THEN PatternTier(preview, policy)
    ELSE classify_write(preview, policy)

-----------------------------------------------------------------------------
(* The operator and the writes *)

EditGlobal(file) ==
    /\ file # global
    /\ global' = file
    /\ staged' = NothingStaged
    /\ UNCHANGED portal

EditPortal(file) ==
    /\ file # portal
    /\ portal' = file
    /\ staged' = NothingStaged
    /\ UNCHANGED global

\* The classification inside apply_write.  Bound: one write is staged between
\* two edits (a tier depends on the files and its own preview only).
Stage(preview, pattern) ==
    LET policy == load_approval_policy(global, portal)
    IN  /\ staged = NothingStaged
        /\ Coerces(Merged(global, portal))
        /\ staged' = [preview |-> preview, pattern |-> pattern, policy |-> policy,
                      tier |-> StagedTier(preview, pattern, policy)]
        /\ UNCHANGED <<global, portal>>

\* Loading the policy raises before the preview is stored: no write is staged.
StageFails ==
    /\ staged = NothingStaged
    /\ ~Coerces(Merged(global, portal))
    /\ staged' = NotStaged
    /\ UNCHANGED <<global, portal>>

Next ==
    \/ \E file \in GlobalFiles : EditGlobal(file)
    \/ \E file \in PortalFiles : EditPortal(file)
    \/ \E preview \in Previews, pattern \in BOOLEAN : Stage(preview, pattern)
    \/ StageFails

Spec == Init /\ [][Next]_vars

-----------------------------------------------------------------------------
(* Properties *)

IsStaged == staged.tier \in Tiers

\* The promise of the fast lane, whatever the files hold (policy.classify_write,
\* _coerce): a write that will run with no human is not destructive, every
\* record it changes can be put back, it uses no tool and touches no property
\* the shipped policy protects, and it stays within the effective ceiling.
AutoIsSafe ==
    IsStaged /\ staged.tier = AUTO =>
        LET preview == staged.preview
        IN  /\ ~preview.destructive
            /\ \/ preview.intent = "create"
               \/ (preview.intent = "update" /\ preview.captured >= Impact(preview))
            /\ preview.tool \notin ShippedNeverAuto
            /\ preview.keys \cap ShippedSensitive = {}
            /\ Impact(preview) <= staged.policy.max

\* What an edit may have done when the write that is staged would meet a lower
\* tier after it than it met before.
CeilingRaisedOver(preview, old, new) ==
    old.max < Impact(preview) /\ Impact(preview) <= new.max

ThresholdRaisedOver(preview, old, new) ==
    old.threshold < Matched(preview) /\ Matched(preview) <= new.threshold

\* A shipped entry never leaves a list.
LeftTheLists(preview, old, new) ==
    \/ /\ preview.tool \in old.never \ new.never
       /\ preview.tool \notin ShippedNeverAuto
    \/ /\ preview.keys \cap old.sensitive # {}
       /\ preview.keys \cap (new.sensitive \cup ShippedSensitive) = {}

ActionLowered(old, new) == old.action = "full_gate" /\ new.action = "confirm"

\* An entry that is added can lower a tier too: never_auto answers CONFIRM before
\* the sensitive properties are looked at, and a pattern that touches a property
\* made sensitive goes back to the normal gate and loses its count.
JoinedTheLists(preview, pattern, old, new) ==
    \/ preview.tool \in new.never \ old.never
    \/ pattern /\ preview.keys \cap (new.sensitive \ old.sensitive) # {}

\* No edit of the files lowers the tier of a write in silence (policy._coerce,
\* classify_write, safety.apply_write): it raised a number over the write's own
\* count, lowered the action, or moved the write's tool or property into or out
\* of a list, never a shipped one out of it.  Malformed values open nothing.
\* A destructive write is never lowered, one that cannot be undone only as a pattern.
EditsLoosenOpenly ==
    [][IsStaged /\ <<global, portal>>' # <<global, portal>> /\ Coerces(Merged(global', portal')) =>
          LET preview == staged.preview
              old     == staged.policy
              new     == load_approval_policy(global', portal')
          IN  Strictness(StagedTier(preview, staged.pattern, new)) < Strictness(staged.tier) =>
                  /\ ~preview.destructive
                  /\ is_undoable(preview.intent, preview.captured) \/ staged.pattern
                  /\ \/ CeilingRaisedOver(preview, old, new)
                     \/ ThresholdRaisedOver(preview, old, new)
                     \/ LeftTheLists(preview, old, new)
                     \/ ActionLowered(old, new)
                     \/ JoinedTheLists(preview, staged.pattern, old, new)]_vars
=============================================================================
