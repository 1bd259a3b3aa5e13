------------------------- MODULE PolicyFiles_proofs -------------------------
(* Theorems about the approval policy, for all files and all previews.       *)
EXTENDS PolicyFiles, TLAPS

\* What loads is a policy (_coerce never passes a malformed value on).
LEMMA PolicyLoads ==
    ASSUME NEW g \in PolicyFile, NEW l \in PolicyFile, Coerces(Merged(g, l))
    PROVE  load_approval_policy(g, l) \in ApprovalPolicy
<1> DEFINE Mixed ==
      [max : Numbers, threshold : Numbers, ttl : Numbers,
       action : {"confirm", "full_gate", "unknown"},
       sensitive : {Malformed} \cup SUBSET Properties, never : {Malformed} \cup SUBSET Tools]
<1>1. _DefaultPolicy \in Mixed
  BY PolicyAssumption DEF _DefaultPolicy, Numbers
<1>2. ASSUME NEW base \in Mixed, NEW file \in PolicyFile PROVE Overlay(base, file) \in Mixed
  BY PolicyAssumption DEF Overlay, PolicyFile, Numbers
<1>3. ASSUME NEW merged \in Mixed, Coerces(merged) PROVE _coerce(merged) \in ApprovalPolicy
  <2>1. ASSUME NEW value \in Numbers, value # Infinite, NEW fallback \in Int
        PROVE  IntOr(value, fallback) \in Int
    BY <2>1 DEF Numbers, IntOr
  <2>2. merged.max # Infinite /\ merged.threshold # Infinite /\ merged.ttl # Infinite
    BY <1>3 DEF Coerces
  <2>3. IntOr(merged.max, ShippedMax) \in Int /\ IntOr(merged.ttl, ShippedTTL) \in Int
    BY <2>1, <2>2, PolicyAssumption
  <2>4. IntOr(merged.threshold, IntOr(merged.max, ShippedMax)) \in Int
    BY <2>1, <2>2, <2>3
  <2>5. ListOrEmpty(merged.sensitive) \subseteq Properties /\ ListOrEmpty(merged.never) \subseteq Tools
    BY DEF ListOrEmpty
  <2> QED
    BY <2>3, <2>4, <2>5, PolicyAssumption DEF _coerce, ApprovalPolicy
<1> HIDE DEF Mixed
<1>4. Merged(g, l) \in Mixed
  BY <1>1, <1>2 DEF Merged
<1> QED
  BY <1>3, <1>4 DEF load_approval_policy

\* The shipped protections are part of every policy.
LEMMA ShippedProtectionsStay ==
    ASSUME NEW g, NEW l
    PROVE  /\ ShippedNeverAuto \subseteq load_approval_policy(g, l).never
           /\ ShippedSensitive \subseteq load_approval_policy(g, l).sensitive
  BY DEF load_approval_policy, _coerce

\* A write that was not staged has no tier.
LEMMA NoTierYet == NothingStaged.tier \notin Tiers /\ NotStaged.tier \notin Tiers
  BY DEF NothingStaged, NotStaged, Tiers, AUTO, CONFIRM, FULL_GATE

LEMMA NoFileType == NoFile \in PolicyFile
  BY DEF NoFile, PolicyFile

\* The files and the staged write keep their types.
THEOREM TypeCorrect == Spec => []TypeOK
<1>1. Init => TypeOK
  BY NoFileType DEF Init, TypeOK
<1>2. TypeOK /\ [Next]_vars => TypeOK'
  <2> SUFFICES ASSUME TypeOK, [Next]_vars PROVE TypeOK'
    OBVIOUS
  <2>1. ASSUME NEW file \in GlobalFiles, EditGlobal(file) PROVE TypeOK'
    BY <2>1, PolicyFilesAssumption DEF EditGlobal, TypeOK
  <2>2. ASSUME NEW file \in PortalFiles, EditPortal(file) PROVE TypeOK'
    BY <2>2, PolicyFilesAssumption DEF EditPortal, TypeOK
  <2>3. ASSUME NEW preview \in Previews, NEW pattern \in BOOLEAN, Stage(preview, pattern) PROVE TypeOK'
    <3> DEFINE policy == load_approval_policy(global, portal)
    <3>1. policy \in ApprovalPolicy
      BY <2>3, PolicyLoads DEF Stage, TypeOK
    <3> HIDE DEF policy
    <3>2. StagedTier(preview, pattern, policy) \in Tiers
      BY DEF StagedTier, PatternTier, classify_write, sensitive_tier, Tiers
    <3>3. preview \in PreviewRecord
      BY PolicyFilesAssumption
    <3> QED
      BY <2>3, <3>1, <3>2, <3>3 DEF Stage, TypeOK, policy
  <2>4. CASE StageFails
    BY <2>4 DEF StageFails, TypeOK
  <2>5. ASSUME UNCHANGED vars PROVE TypeOK'
    BY <2>5 DEF vars, TypeOK
  <2> QED
    BY <2>1, <2>2, <2>3, <2>4, <2>5 DEF Next
<1> QED
  BY <1>1, <1>2, PTL DEF Spec

\* What an AUTO answer of classify_write means under any loaded policy.
LEMMA AutoMeansSafe ==
    ASSUME NEW preview, NEW g, NEW l,
           classify_write(preview, load_approval_policy(g, l)) = AUTO
    PROVE  /\ ~preview.destructive
           /\ \/ preview.intent = "create"
              \/ preview.intent = "update" /\ ~(preview.captured < Impact(preview))
           /\ preview.tool \notin ShippedNeverAuto
           /\ preview.keys \cap ShippedSensitive = {}
           /\ ~(Impact(preview) > load_approval_policy(g, l).max)
<1> DEFINE policy == load_approval_policy(g, l)
<1>1. ShippedNeverAuto \subseteq policy.never /\ ShippedSensitive \subseteq policy.sensitive
  BY ShippedProtectionsStay
<1> HIDE DEF policy
<1>2. classify_write(preview, policy) = AUTO
  BY DEF policy
<1>3. sensitive_tier(policy) # AUTO
  BY DEF sensitive_tier, AUTO, CONFIRM, FULL_GATE
<1> QED
  BY <1>1, <1>2, <1>3 DEF classify_write, is_undoable, AUTO, CONFIRM, FULL_GATE, policy

\* The staged write carries the tier of its own preview under the files as they
\* are (the edits drop it).
StagedInv ==
    IsStaged =>
        /\ staged.policy = load_approval_policy(global, portal)
        /\ staged.tier = StagedTier(staged.preview, staged.pattern, staged.policy)

\* It holds of every run.
THEOREM StagedUnderTheFiles == Spec => []StagedInv
<1>1. Init => StagedInv
  BY NoTierYet DEF Init, StagedInv, IsStaged
<1>2. StagedInv /\ [Next]_vars => StagedInv'
  <2> SUFFICES ASSUME StagedInv, [Next]_vars PROVE StagedInv'
    OBVIOUS
  <2>1. ASSUME NEW file \in GlobalFiles, EditGlobal(file) PROVE StagedInv'
    BY <2>1, NoTierYet DEF EditGlobal, StagedInv, IsStaged
  <2>2. ASSUME NEW file \in PortalFiles, EditPortal(file) PROVE StagedInv'
    BY <2>2, NoTierYet DEF EditPortal, StagedInv, IsStaged
  <2>3. ASSUME NEW preview \in Previews, NEW pattern \in BOOLEAN, Stage(preview, pattern) PROVE StagedInv'
    BY <2>3 DEF Stage, StagedInv
  <2>4. CASE StageFails
    BY <2>4, NoTierYet DEF StageFails, StagedInv, IsStaged
  <2>5. ASSUME UNCHANGED vars PROVE StagedInv'
    BY <2>5 DEF vars, StagedInv, IsStaged
  <2> QED
    BY <2>1, <2>2, <2>3, <2>4, <2>5 DEF Next
<1> QED
  BY <1>1, <1>2, PTL DEF Spec

\* What a staged write is made of.
LEMMA StagedRecord ==
    ASSUME TypeOK, IsStaged
    PROVE  staged.preview \in PreviewRecord /\ staged.pattern \in BOOLEAN /\ staged.policy \in ApprovalPolicy
<1>1. staged \notin {NothingStaged, NotStaged}
  BY NoTierYet DEF IsStaged
<1> QED
  BY <1>1 DEF TypeOK

\* Whatever the files hold, a write that runs with no human is reversible,
\* unprotected and within the ceiling (AutoIsSafe).
THEOREM AutoStaysSafe == Spec => []AutoIsSafe
<1>1. TypeOK /\ StagedInv => AutoIsSafe
  <2> SUFFICES ASSUME TypeOK, StagedInv, IsStaged, staged.tier = AUTO PROVE AutoIsSafe
    BY DEF AutoIsSafe
  <2> DEFINE preview == staged.preview
             loaded  == load_approval_policy(global, portal)
  <2>2. preview \in PreviewRecord /\ staged.policy \in ApprovalPolicy
    BY StagedRecord
  <2>3. staged.policy = loaded /\ classify_write(preview, loaded) = AUTO
    BY DEF StagedInv, StagedTier, PatternTier, AUTO, CONFIRM, FULL_GATE
  <2>4. /\ ~preview.destructive
        /\ \/ preview.intent = "create"
           \/ preview.intent = "update" /\ ~(preview.captured < Impact(preview))
        /\ preview.tool \notin ShippedNeverAuto
        /\ preview.keys \cap ShippedSensitive = {}
        /\ ~(Impact(preview) > loaded.max)
    BY <2>3, AutoMeansSafe
  <2>5. preview.captured \in Nat /\ Impact(preview) \in Nat /\ loaded.max \in Int
    BY <2>2, <2>3 DEF PreviewRecord, ApprovalPolicy, Impact
  <2> HIDE DEF preview, loaded
  <2>6. /\ ~(preview.captured < Impact(preview)) => preview.captured >= Impact(preview)
        /\ Impact(preview) <= loaded.max
    BY <2>4, <2>5
  <2> QED
    BY <2>3, <2>4, <2>6 DEF AutoIsSafe, preview
<1> QED
  BY <1>1, TypeCorrect, StagedUnderTheFiles, PTL

-----------------------------------------------------------------------------
(* Two policies and one write: what explains a lower tier under the second *)

\* A lower tier.
LEMMA LowerTier ==
    ASSUME NEW a, NEW b, Strictness(b) < Strictness(a)
    PROVE  (a # AUTO /\ a # CONFIRM /\ b \in {AUTO, CONFIRM}) \/ (a = CONFIRM /\ b = AUTO)
  BY DEF Strictness, AUTO, CONFIRM

\* The normal gate.
LEMMA NormalGateLowered ==
    ASSUME NEW preview \in PreviewRecord, NEW old \in ApprovalPolicy, NEW new \in ApprovalPolicy,
           ShippedNeverAuto \subseteq new.never, ShippedSensitive \subseteq new.sensitive,
           Strictness(classify_write(preview, new)) < Strictness(classify_write(preview, old))
    PROVE  /\ ~preview.destructive
           /\ is_undoable(preview.intent, preview.captured)
           /\ \/ CeilingRaisedOver(preview, old, new)
              \/ LeftTheLists(preview, old, new)
              \/ ActionLowered(old, new)
              \/ preview.tool \in new.never \ old.never
<1> DEFINE a == classify_write(preview, old)
           b == classify_write(preview, new)
<1>1. /\ a \in {AUTO, CONFIRM, FULL_GATE} /\ b \in {AUTO, CONFIRM, FULL_GATE}
      /\ AUTO # CONFIRM /\ AUTO # FULL_GATE /\ CONFIRM # FULL_GATE
  BY DEF classify_write, sensitive_tier, AUTO, CONFIRM, FULL_GATE
<1>2. \/ a = FULL_GATE /\ b # FULL_GATE
      \/ a = CONFIRM /\ b = AUTO
  <2> HIDE DEF a, b
  <2>1. Strictness(b) < Strictness(a)
    BY DEF a, b
  <2> QED
    BY <1>1, <2>1, LowerTier
<1>3. ~preview.destructive /\ is_undoable(preview.intent, preview.captured)
  <2> SUFFICES ASSUME preview.destructive \/ ~is_undoable(preview.intent, preview.captured) PROVE FALSE
    OBVIOUS
  <2>1. a = FULL_GATE /\ b = FULL_GATE
    BY DEF classify_write
  <2> QED
    BY <1>1, <1>2, <2>1
<1>4. /\ old.action \in {"confirm", "full_gate"} /\ new.action \in {"confirm", "full_gate"}
      /\ Impact(preview) \in Int /\ old.max \in Int /\ new.max \in Int
  BY DEF ApprovalPolicy, PreviewRecord, Impact
<1>5. CASE a = FULL_GATE /\ b # FULL_GATE
  <2>1. /\ preview.tool \notin old.never
        /\ preview.keys \cap old.sensitive # {}
        /\ old.action = "full_gate"
    BY <1>1, <1>3, <1>5 DEF classify_write, sensitive_tier
  <2>2. \/ preview.tool \in new.never
        \/ preview.keys \cap new.sensitive = {}
        \/ new.action # "full_gate"
    BY <1>1, <1>3, <1>5 DEF classify_write, sensitive_tier
  <2>3. preview.keys \cap new.sensitive = {} => preview.keys \cap (new.sensitive \cup ShippedSensitive) = {}
    OBVIOUS
  <2> QED
    BY <1>3, <1>4, <2>1, <2>2, <2>3 DEF LeftTheLists, ActionLowered
<1>6. CASE a = CONFIRM /\ b = AUTO
  <2>1. /\ preview.tool \notin new.never
        /\ preview.keys \cap new.sensitive = {}
        /\ ~(preview.intent = "update" /\ preview.captured < Impact(preview))
        /\ ~(Impact(preview) > new.max)
    BY <1>1, <1>3, <1>6 DEF classify_write, sensitive_tier
  <2>2. \/ preview.tool \in old.never
        \/ preview.keys \cap old.sensitive # {}
        \/ Impact(preview) > old.max
    BY <1>1, <1>3, <1>6, <2>1 DEF classify_write
  <2>3. preview.tool \notin ShippedNeverAuto
    BY <2>1
  <2>4. preview.keys \cap (new.sensitive \cup ShippedSensitive) = {}
    BY <2>1
  <2>5. Impact(preview) > old.max => CeilingRaisedOver(preview, old, new)
    BY <1>4, <2>1 DEF CeilingRaisedOver
  <2> QED
    BY <1>3, <2>1, <2>2, <2>3, <2>4, <2>5 DEF LeftTheLists
<1> QED
  BY <1>2, <1>5, <1>6

\* Every way of staging: the normal gate, a pattern, and a write that is a
\* pattern under one of the policies only.
LEMMA TierLowered ==
    ASSUME NEW preview \in PreviewRecord, NEW pattern \in BOOLEAN,
           NEW old \in ApprovalPolicy, NEW new \in ApprovalPolicy,
           ShippedNeverAuto \subseteq new.never, ShippedSensitive \subseteq new.sensitive,
           Strictness(StagedTier(preview, pattern, new)) < Strictness(StagedTier(preview, pattern, old))
    PROVE  /\ ~preview.destructive
           /\ is_undoable(preview.intent, preview.captured) \/ pattern
           /\ \/ CeilingRaisedOver(preview, old, new)
              \/ ThresholdRaisedOver(preview, old, new)
              \/ LeftTheLists(preview, old, new)
              \/ ActionLowered(old, new)
              \/ JoinedTheLists(preview, pattern, old, new)
<1>1. CASE /\ ~(pattern /\ PatternEligible(preview, old))
           /\ ~(pattern /\ PatternEligible(preview, new))
  <2>1. Strictness(classify_write(preview, new)) < Strictness(classify_write(preview, old))
    BY <1>1 DEF StagedTier
  <2> QED
    BY <2>1, NormalGateLowered DEF JoinedTheLists
<1>2. CASE /\ pattern /\ PatternEligible(preview, old)
           /\ PatternEligible(preview, new)
  <2>1. Strictness(PatternTier(preview, new)) < Strictness(PatternTier(preview, old))
    BY <1>2 DEF StagedTier
  <2>2. Matched(preview) > old.threshold /\ ~(Matched(preview) > new.threshold)
    <3>1. PatternTier(preview, old) = FULL_GATE /\ PatternTier(preview, new) = CONFIRM
      BY <2>1, LowerTier DEF PatternTier, AUTO, CONFIRM, FULL_GATE
    <3> QED
      BY <3>1 DEF PatternTier, CONFIRM, FULL_GATE
  <2>3. Matched(preview) \in Int /\ old.threshold \in Int /\ new.threshold \in Int
    BY DEF Matched, PreviewRecord, ApprovalPolicy
  <2>4. ThresholdRaisedOver(preview, old, new)
    BY <2>2, <2>3 DEF ThresholdRaisedOver
  <2> QED
    BY <1>2, <2>4 DEF PatternEligible
<1>3. CASE /\ pattern /\ PatternEligible(preview, old)
           /\ ~PatternEligible(preview, new)
  <2>1. preview.keys \cap old.sensitive = {} /\ preview.keys \cap new.sensitive # {} /\ ~preview.destructive
    BY <1>3 DEF PatternEligible
  <2>2. preview.keys \cap (new.sensitive \ old.sensitive) # {}
    BY <2>1
  <2> QED
    BY <1>3, <2>1, <2>2 DEF JoinedTheLists
<1>4. CASE /\ pattern /\ ~PatternEligible(preview, old)
           /\ PatternEligible(preview, new)
  <2>1. preview.keys \cap old.sensitive # {} /\ preview.keys \cap new.sensitive = {} /\ ~preview.destructive
    BY <1>4 DEF PatternEligible
  <2>2. preview.keys \cap (new.sensitive \cup ShippedSensitive) = {}
    BY <2>1
  <2> QED
    BY <1>4, <2>1, <2>2 DEF LeftTheLists
<1> QED
  BY <1>1, <1>2, <1>3, <1>4

\* Every edit of the files that lowers the tier of a write shows why
\* (EditsLoosenOpenly).
THEOREM EditsAreOpen == Spec => EditsLoosenOpenly
<1> DEFINE old == staged.policy
           new == load_approval_policy(global', portal')
           Lowered ==
             Strictness(StagedTier(staged.preview, staged.pattern, new)) < Strictness(staged.tier)
           Explained ==
             /\ ~staged.preview.destructive
             /\ is_undoable(staged.preview.intent, staged.preview.captured) \/ staged.pattern
             /\ \/ CeilingRaisedOver(staged.preview, old, new)
                \/ ThresholdRaisedOver(staged.preview, old, new)
                \/ LeftTheLists(staged.preview, old, new)
                \/ ActionLowered(old, new)
                \/ JoinedTheLists(staged.preview, staged.pattern, old, new)
<1>1. TypeOK /\ TypeOK' /\ StagedInv /\ IsStaged /\ Coerces(Merged(global', portal')) /\ Lowered => Explained
  <2> SUFFICES ASSUME TypeOK, TypeOK', StagedInv, IsStaged, Coerces(Merged(global', portal')), Lowered
               PROVE  Explained
    OBVIOUS
  <2>1. staged.preview \in PreviewRecord /\ staged.pattern \in BOOLEAN /\ old \in ApprovalPolicy
    BY StagedRecord
  <2>2. new \in ApprovalPolicy
    BY PolicyLoads DEF TypeOK
  <2>3. ShippedNeverAuto \subseteq new.never /\ ShippedSensitive \subseteq new.sensitive
    BY ShippedProtectionsStay
  <2>4. staged.tier = StagedTier(staged.preview, staged.pattern, old)
    BY DEF StagedInv
  <2> HIDE DEF new, old
  <2>5. Strictness(StagedTier(staged.preview, staged.pattern, new))
          < Strictness(StagedTier(staged.preview, staged.pattern, old))
    BY <2>4
  <2> QED
    BY <2>1, <2>2, <2>3, <2>5, TierLowered
<1>2. TypeOK /\ TypeOK' /\ StagedInv =>
        [IsStaged /\ <<global, portal>>' # <<global, portal>> /\ Coerces(Merged(global', portal')) =>
            (Lowered => Explained)]_vars
  BY <1>1
<1> QED
  BY <1>2, TypeCorrect, StagedUnderTheFiles, PTL DEF EditsLoosenOpenly
=============================================================================
