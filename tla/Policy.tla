------------------------------- MODULE Policy -------------------------------
(***************************************************************************)
(* The approval policy of policy.py: how the three layers of               *)
(* approval_policy.json are merged and coerced into one ApprovalPolicy,    *)
(* and how classify_write puts a previewed write into an approval tier.    *)
(* Everything here is a pure operator; PolicyFiles runs it while the files *)
(* are edited and WriteGate stamps its result on every pending preview.    *)
(*                                                                         *)
(* A property name, a tool name or a file is an element of a set.  A value *)
(* of the wrong JSON type is Malformed, a key that is absent is Unset, and *)
(* a number JSON reads as infinite (1e999) is Infinite: int() refuses it   *)
(* with an error that _coerce does not catch.                              *)
(***************************************************************************)
EXTENDS Integers, FiniteSets

CONSTANTS
    Tools,            \* tool names
    Properties,       \* CRM property names
    ShippedNeverAuto, \* _DEFAULT_POLICY["never_auto_tools"]
    ShippedSensitive, \* _DEFAULT_POLICY["sensitive_properties"]
    ShippedMax,       \* _DEFAULT_POLICY["auto_apply_max_records"] and
                      \* _DEFAULT_POLICY["pattern_confirm_threshold"]
    ShippedTTL,       \* _DEFAULT_POLICY["schedule_queue_ttl_days"]
    Unset,            \* a key no file sets
    Malformed,        \* a value int() or isinstance(_, list) refuses
    Infinite          \* a number beyond every integer

ASSUME PolicyAssumption ==
    /\ ShippedNeverAuto \subseteq Tools
    /\ ShippedSensitive \subseteq Properties
    /\ ShippedMax \in Nat /\ ShippedTTL \in Nat
    /\ Unset # Malformed /\ Infinite \notin {Unset, Malformed}
    /\ \A mark \in {Unset, Malformed, Infinite} :
          /\ mark \notin Int
          /\ mark \notin {"confirm", "full_gate", "unknown"}
          /\ \A list \in (SUBSET Tools) \cup (SUBSET Properties) : mark # list

AUTO      == "AUTO"
CONFIRM   == "CONFIRM"
FULL_GATE == "FULL_GATE"
Tiers     == {AUTO, CONFIRM, FULL_GATE}

\* How much a tier asks of the human: nothing, a bare approve, the typed count.
Strictness(tier) == IF tier = AUTO THEN 0 ELSE IF tier = CONFIRM THEN 1 ELSE 2

-----------------------------------------------------------------------------
(* Policy files and the merge *)

Numbers == {Malformed, Infinite} \cup Int

PolicyFile ==
    [max       : {Unset} \cup Numbers,
     threshold : {Unset} \cup Numbers,
     ttl       : {Unset} \cup Numbers,
     action    : {Unset, "confirm", "full_gate", "unknown"},
     sensitive : {Unset, Malformed} \cup SUBSET Properties,
     never     : {Unset, Malformed} \cup SUBSET Tools]

\* A missing, unreadable or non-object file contributes nothing.
NoFile ==
    [max |-> Unset, threshold |-> Unset, ttl |-> Unset, action |-> Unset,
     sensitive |-> Unset, never |-> Unset]

_DefaultPolicy ==
    [max |-> ShippedMax, threshold |-> ShippedMax, ttl |-> ShippedTTL, action |-> "confirm",
     sensitive |-> ShippedSensitive, never |-> ShippedNeverAuto]

\* dict.update: the keys the later layer sets replace those of the earlier one.
Overlay(base, file) ==
    [key \in DOMAIN base |-> IF file[key] = Unset THEN base[key] ELSE file[key]]

ApprovalPolicy ==
    [max : Int, threshold : Int, ttl : Nat, action : {"confirm", "full_gate"},
     sensitive : SUBSET Properties, never : SUBSET Tools]

\* isinstance(value, list), else the empty list.
ListOrEmpty(value) == IF value = Malformed THEN {} ELSE value

\* int(value), or the fallback of the except clause.
IntOr(value, fallback) == IF value = Malformed THEN fallback ELSE value

\* int() of an infinite number raises OverflowError, and the loading with it.
Coerces(merged) == Infinite \notin {merged.max, merged.threshold, merged.ttl}

\* Seeded fault: the override list replaces the shipped one.
CoerceReplacingLists(merged) ==
    LET max == IntOr(merged.max, ShippedMax)
        ttl == IntOr(merged.ttl, ShippedTTL)
    IN  [max       |-> max,
         threshold |-> IntOr(merged.threshold, max),
         ttl       |-> IF ttl < 0 THEN ShippedTTL ELSE ttl,
         action    |-> IF merged.action = "full_gate" THEN "full_gate" ELSE "confirm",
         sensitive |-> ListOrEmpty(merged.sensitive),
         never     |-> ListOrEmpty(merged.never)]

\* The safety lists are united with the shipped ones; a malformed ceiling is
\* the literal 100, which is also what ships; a malformed threshold is the
\* effective ceiling.  What it returns when it Coerces.
_coerce(merged) ==
    LET max == IntOr(merged.max, ShippedMax)
        ttl == IntOr(merged.ttl, ShippedTTL)
    IN  [max       |-> max,
         threshold |-> IntOr(merged.threshold, max),
         ttl       |-> IF ttl < 0 THEN ShippedTTL ELSE ttl,
         action    |-> IF merged.action = "full_gate" THEN "full_gate" ELSE "confirm",
         sensitive |-> ShippedSensitive \cup ListOrEmpty(merged.sensitive),
         never     |-> ShippedNeverAuto \cup ListOrEmpty(merged.never)]

\* Shipped default, then the global file, then the portal's; last wins.
Merged(global, portal) == Overlay(Overlay(_DefaultPolicy, global), portal)

load_approval_policy(global, portal) == _coerce(Merged(global, portal))

-----------------------------------------------------------------------------
(* Classification of a previewed write *)

Intents == {"create", "update", "delete", "merge", "write"}

\* What classify_write reads of a preview: the risk, the intent type, how many
\* records the write targets, of how many the pre-change values were captured,
\* the property names in the payload and in the captured values, the tool.
PreviewRecord ==
    [destructive : BOOLEAN, intent : Intents, impact : Nat, captured : Nat,
     keys : SUBSET Properties, tool : Tools]

is_undoable(intent, captured) ==
    \/ intent = "create"
    \/ (intent = "update" /\ captured > 0)

sensitive_tier(policy) ==
    IF policy.action = "full_gate" THEN FULL_GATE ELSE CONFIRM

\* `impact_count or 1`
Impact(preview) == IF preview.impact = 0 THEN 1 ELSE preview.impact

\* Seeded fault: the check that every targeted record was captured is missing.
ClassifyWithoutCaptureGuard(preview, policy) ==
    IF preview.destructive \/ ~is_undoable(preview.intent, preview.captured)
      THEN FULL_GATE
    ELSE IF preview.tool \in policy.never THEN CONFIRM
    ELSE IF preview.keys \cap policy.sensitive # {} THEN sensitive_tier(policy)
    ELSE IF Impact(preview) > policy.max THEN CONFIRM
    ELSE AUTO

\* First match wins.
classify_write(preview, policy) ==
    IF preview.destructive \/ ~is_undoable(preview.intent, preview.captured)
      THEN FULL_GATE
    ELSE IF preview.tool \in policy.never THEN CONFIRM
    ELSE IF preview.keys \cap policy.sensitive # {} THEN sensitive_tier(policy)
    ELSE IF preview.intent = "update" /\ preview.captured < Impact(preview)
      THEN CONFIRM
    ELSE IF Impact(preview) > policy.max THEN CONFIRM
    ELSE AUTO
=============================================================================
