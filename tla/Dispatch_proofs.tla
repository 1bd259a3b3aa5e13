--------------------------- MODULE Dispatch_proofs ---------------------------
(***************************************************************************)
(* The dispatcher keeps its word for every text, every list of scopes, any  *)
(* records and any number of runs, if the tables of Tools and Agents agree  *)
(* with each other (TablesAgree, which TLC evaluates on the whole tables).  *)
(* Batches add up wherever they stop, whatever the tables say.              *)
(***************************************************************************)
EXTENDS Dispatch, FiniteSetTheorems, SequenceTheorems, WellFoundedInduction, TLAPS

-----------------------------------------------------------------------------
(* Plans. *)

\* The first step that is a call can be got to.
LEMMA FirstReached ==
    ASSUME NEW steps, NEW ks, steps \in Seq(Range(steps)), steps # <<>>, ~Decides(steps[1])
    PROVE  1 \in Reached(steps, ks)
<1>1. 1 \in DOMAIN steps
    OBVIOUS
<1> QED
    BY <1>1 DEF Reached

\* What the rest of a plan can get to, the plan could.
LEMMA RestReached ==
    ASSUME NEW steps, NEW ks, steps \in Seq(Range(steps)), steps # <<>>,
           Decides(steps[1]) => steps[1].key \in ks,
           NEW n \in Reached(SubSeq(steps, 2, Len(steps)), ks)
    PROVE  /\ n + 1 \in Reached(steps, ks)
           /\ SubSeq(steps, 2, Len(steps))[n] = steps[n + 1]
           /\ Len(SubSeq(steps, 2, Len(steps))) = Len(steps) - 1
<1> DEFINE rest == SubSeq(steps, 2, Len(steps))
<1>1. Len(steps) \in Nat /\ Len(steps) >= 1 /\ DOMAIN steps = 1 .. Len(steps)
    OBVIOUS
<1>2. Len(rest) = Len(steps) - 1 /\ DOMAIN rest = 1 .. Len(steps) - 1
    BY <1>1
<1>3. \A m \in 1 .. Len(steps) - 1 : rest[m] = steps[m + 1]
    BY <1>1
<1>4. /\ n \in 1 .. Len(steps) - 1 /\ ~Decides(rest[n])
      /\ \A m \in 1 .. n - 1 : Decides(rest[m]) => rest[m].key \in ks
    BY <1>2 DEF Reached
<1> HIDE DEF rest
<1>5. n + 1 \in DOMAIN steps /\ ~Decides(steps[n + 1])
    BY <1>1, <1>3, <1>4
<1>6. ASSUME NEW m \in 1 .. (n + 1) - 1, Decides(steps[m])
      PROVE  steps[m].key \in ks
    <2>1. CASE m = 1
        BY <2>1, <1>6
    <2>2. CASE m # 1
        <3>1. m - 1 \in 1 .. n - 1 /\ m - 1 \in 1 .. Len(steps) - 1
            BY <1>1, <1>4, <2>2
        <3>2. rest[m - 1] = steps[m]
            BY <1>3, <3>1
        <3> QED
            BY <1>4, <1>6, <3>1, <3>2
    <2> QED
        BY <2>1, <2>2
<1>7. n + 1 \in Reached(steps, ks)
    BY <1>5, <1>6 DEF Reached
<1> QED
    BY <1>2, <1>3, <1>4, <1>7 DEF rest

\* The rest of a plan is a plan.
LEMMA RestIsPlan ==
    ASSUME NEW steps, steps \in Seq(Range(steps)), steps # <<>>
    PROVE  SubSeq(steps, 2, Len(steps)) \in Seq(Range(SubSeq(steps, 2, Len(steps))))
<1> DEFINE rest == SubSeq(steps, 2, Len(steps))
<1>1. rest \in Seq(Range(steps))
    OBVIOUS
<1>2. Len(rest) \in Nat /\ DOMAIN rest = 1 .. Len(rest)
    BY <1>1
<1>3. \A m \in 1 .. Len(rest) : rest[m] \in Range(rest)
    BY <1>2 DEF Range
<1>4. rest = [m \in 1 .. Len(rest) |-> rest[m]]
    BY <1>1, <1>2
<1> HIDE DEF rest
<1>5. rest \in [1 .. Len(rest) -> Range(rest)]
    BY <1>3, <1>4
<1>6. rest \in Seq(Range(rest))
    BY <1>2, <1>5
<1> QED
    BY <1>6 DEF rest

\* A plan that fits goes on fitting after its first step.
LEMMA RestFits ==
    ASSUME NEW steps, NEW ks, NEW method, NEW effects,
           steps \in Seq(Range(steps)), steps # <<>>,
           Decides(steps[1]) => steps[1].key \in ks, PlanFits(steps, ks, method, effects)
    PROVE  PlanFits(SubSeq(steps, 2, Len(steps)), ks, method, effects)
<1> DEFINE rest == SubSeq(steps, 2, Len(steps))
<1> SUFFICES ASSUME NEW n \in Reached(rest, ks), NEW tool \in ToolsOf(rest[n])
             PROVE  /\ tool \in ToolNames
                    /\ EffectOf(tool, method) \in Changing =>
                          /\ EffectOf(tool, method) \in effects
                          /\ n = Len(rest) /\ rest[n].do \notin {"find", "sample"}
    BY DEF PlanFits
<1>1. n + 1 \in Reached(steps, ks) /\ rest[n] = steps[n + 1] /\ Len(rest) = Len(steps) - 1
    BY RestReached
<1>2. n \in Int /\ Len(steps) \in Int
    <2>1. n \in DOMAIN rest
        BY DEF Reached
    <2> QED
        BY <2>1
<1> HIDE DEF rest
<1>3. /\ tool \in ToolNames
      /\ EffectOf(tool, method) \in Changing =>
            /\ EffectOf(tool, method) \in effects
            /\ n + 1 = Len(steps) /\ steps[n + 1].do \notin {"find", "sample"}
    BY <1>1 DEF PlanFits
<1> QED
    BY <1>1, <1>2, <1>3

\* With fewer keys a plan gets to less.
LEMMA FewerKeysReachLess ==
    ASSUME NEW steps, NEW ks, NEW more, ks \subseteq more
    PROVE  Reached(steps, ks) \subseteq Reached(steps, more)
BY DEF Reached

LEMMA FewerKeysFit ==
    ASSUME NEW steps, NEW ks, NEW more, ks \subseteq more, NEW method, NEW effects,
           PlanFits(steps, more, method, effects)
    PROVE  PlanFits(steps, ks, method, effects)
BY FewerKeysReachLess DEF PlanFits

\* An empty plan fits, and one call does if its tool does.
LEMMA EmptyFits ==
    ASSUME NEW ks, NEW method, NEW effects
    PROVE  /\ <<>> \in Seq(Range(<<>>)) /\ Reached(<<>>, ks) = {}
           /\ PlanFits(<<>>, ks, method, effects)
<1>1. Reached(<<>>, ks) = {}
    BY DEF Reached
<1>2. <<>> \in Seq(Range(<<>>))
    OBVIOUS
<1> QED
    BY <1>1, <1>2 DEF PlanFits

LEMMA OneCallFits ==
    ASSUME NEW tool \in ToolNames, NEW ks, NEW method, NEW effects,
           EffectOf(tool, method) \in Changing => EffectOf(tool, method) \in effects,
           NEW step \in {Call(tool), Fetch(tool)}
    PROVE  /\ <<step>> \in Seq(Range(<<step>>))
           /\ \A n \in Reached(<<step>>, ks) : ToolsOf(<<step>>[n]) = {tool}
           /\ PlanFits(<<step>>, ks, method, effects)
<1>1. step.do \notin {"with", "find", "sample"} /\ step.tool = tool
    <2>1. CASE step = [do |-> "call", tool |-> tool, key |-> ""]
        BY <2>1
    <2>2. CASE step = [do |-> "fetch", tool |-> tool, key |-> ""]
        BY <2>2
    <2> QED
        BY <2>1, <2>2 DEF Call, Fetch, Do
<1>2. Len(<<step>>) = 1 /\ DOMAIN <<step>> = {1} /\ <<step>>[1] = step
    OBVIOUS
<1>3. Reached(<<step>>, ks) \subseteq {1} /\ ToolsOf(step) = {tool}
    BY <1>1, <1>2 DEF Reached, ToolsOf
<1>4. Range(<<step>>) = {step}
    BY <1>2 DEF Range
<1>5. <<step>> \in Seq({step})
    OBVIOUS
<1>6. ASSUME NEW n \in Reached(<<step>>, ks)
      PROVE  n = 1 /\ <<step>>[n] = step
    BY <1>2, <1>3
<1>7. PlanFits(<<step>>, ks, method, effects)
    BY <1>1, <1>2, <1>3, <1>6 DEF PlanFits
<1> QED
    BY <1>3, <1>4, <1>5, <1>6, <1>7

-----------------------------------------------------------------------------
(* Texts and tables. *)

LEMMA IntentIsOne ==
    ASSUME NEW text
    PROVE  Classify(text) \in Intents
BY DEF Classify, Intents

\* What may be done fits some write.
LEMMA FittingIsForWrites ==
    ASSUME NEW intent, NEW effect \in Fitting(intent)
    PROVE  intent \in Writes
BY DEF Fitting, Writes

LEMMA KeysThereAre ==
    /\ RequestKeys \subseteq {"type", "pair"}
    /\ RequestKeys \union Payload \subseteq KeysOf(req.agent, Intent)
BY DEF RequestKeys, Payload, KeysOf, Handler

-----------------------------------------------------------------------------
(* The invariant. *)

\* What a run in a mode may do to HubSpot.
AllowedIn(how) ==
    IF how = "approved" /\ req.via = "tool" THEN Changing
    ELSE IF how = "auto" /\ req.via = "tool" THEN {Adds, Alters}
    ELSE IF how \in {"approved", "inline"} /\ req.via # "tool" THEN Fitting(Intent)
    ELSE {}

\* The requests whose tools have to be covered by the portal's list, and what it covers.
Scoped == granted # {} /\ (req.via = "tool" \/ req.agent \in DOMAIN AgentTools \ Uncovered)
Covered(tool) ==
    \/ req.agent = "associations" /\ tool = Search
    \/ RequiredScopes({tool}, TargetType) \subseteq granted
Covers(steps, ks) ==
    Scoped => \A n \in Reached(steps, ks) : \A tool \in ToolsOf(steps[n]) : Covered(tool)

\* Where a request is, and with what.
PlaceOK ==
    /\ req \in Requests
    /\ mode \in {"none", "preview", "inline", "auto", "approved"}
    /\ pc = "asked" => mode = "none" /\ plan = <<>> /\ changed = {} /\ calls = <<>>
    /\ pc = "running" => mode # "none" /\ answer = "none"
    /\ batch.next \in {"idle", "done", "stopped"} \/ (pc = "running" /\ mode \in {"auto", "approved"})
    /\ req.via # "tool" => batch.next = "idle"

\* What was asked before a run of that mode.
ModeOK ==
    /\ mode # "none" \/ pc \in {"running", "staged"} => MissingScopes = {}
    /\ mode \in {"inline", "approved"} /\ req.via # "tool" => CanExecute
    /\ mode = "inline" /\ req.via # "tool" => ~RequiresApproval(req)
    /\ mode = "auto" => req.via = "tool"

\* What is left of the plan.
PlanOK ==
    /\ plan \in Seq(Range(plan))
    /\ PlanFits(plan, keys, req.method, AllowedIn(mode))
    /\ Covers(plan, keys)

CallsOK ==
    /\ calls \in Seq(ToolNames)
    /\ Scoped => \A n \in DOMAIN calls : Covered(calls[n])

\* A run that has changed something has nothing more to do, and does not end in an error.
ChangedOK ==
    \/ changed = {}
    \/ /\ plan = <<>> /\ mode \in {"inline", "auto", "approved"} /\ answer # "error"
       /\ \E change : changed = {change}

MadeOK == ChangesAreApproved /\ ChangesFitTheText

DispatchInv ==
    PlaceOK /\ ModeOK /\ PlanOK /\ CallsOK /\ ChangedOK /\ MadeOK /\ NoHandlerNoSuccess

-----------------------------------------------------------------------------
(* What holds of every step. *)

\* The request and the portal stay as they are, and with them all that is read off them.
LEMMA RequestStays ==
    ASSUME Next
    PROVE  UNCHANGED <<granted, req>>
BY DEF Next, RefuseRequest, InvokeTool, StageTool, PreviewAgent, ExecuteInline, Approve,
       ApprovalFails, Reject, Decide, AnsweredCall, RefusedCall, LostAnswer, Finish, RetryInline,
       BatchRuns, Elsewhere, Outside, AutoApply, ExecuteTool, WritesByTool

LEMMA SameRequest ==
    ASSUME UNCHANGED <<granted, req>>
    PROVE  /\ Intent' = Intent /\ Handler' = Handler /\ TargetType' = TargetType
           /\ MissingScopes' = MissingScopes /\ (CanExecute' <=> CanExecute)
           /\ (RequiresApproval(req)' <=> RequiresApproval(req))
           /\ (Scoped' <=> Scoped) /\ \A tool : Covered(tool)' <=> Covered(tool)
           /\ \A how : AllowedIn(how)' = AllowedIn(how)
           /\ \A steps, ks : Covers(steps, ks)' <=> Covers(steps, ks)
<1>1. Intent' = Intent /\ Handler' = Handler /\ TargetType' = TargetType
    BY DEF Intent, Handler, TargetType, Text, TypesNamed
<1>2. MissingScopes' = MissingScopes /\ (CanExecute' <=> CanExecute)
      /\ (RequiresApproval(req)' <=> RequiresApproval(req))
    BY <1>1 DEF MissingScopes, CanExecute, RequiresApproval
<1>3. (Scoped' <=> Scoped) /\ \A tool : Covered(tool)' <=> Covered(tool)
    BY <1>1 DEF Scoped, Covered
<1>4. \A how : AllowedIn(how)' = AllowedIn(how)
    BY <1>1 DEF AllowedIn
<1>5. \A steps, ks : Covers(steps, ks)' <=> Covers(steps, ks)
    BY <1>3 DEF Covers
<1> QED
    BY <1>1, <1>2, <1>3, <1>4, <1>5

\* A plan goes on after a step it may pass, or it is over.
LEMMA PlanGoesOn ==
    ASSUME UNCHANGED <<granted, req, mode, keys>>, PlanOK, plan # <<>>,
           Decides(Step) => Step.key \in keys, plan' = Further
    PROVE  PlanOK'
<1>1. Further \in Seq(Range(Further))
    BY RestIsPlan DEF PlanOK, Further
<1>2. PlanFits(Further, keys, req.method, AllowedIn(mode))
    BY RestFits DEF PlanOK, Further, Step
<1>3. Covers(Further, keys)
    <2> SUFFICES ASSUME Scoped, NEW n \in Reached(Further, keys), NEW tool \in ToolsOf(Further[n])
                 PROVE  Covered(tool)
        BY DEF Covers
    <2>1. n + 1 \in Reached(plan, keys) /\ Further[n] = plan[n + 1]
        BY RestReached DEF PlanOK, Further, Step
    <2> QED
        BY <2>1 DEF PlanOK, Covers
<1>4. AllowedIn(mode)' = AllowedIn(mode)
    <2>1. Intent' = Intent
        BY SameRequest
    <2> QED
        BY <2>1 DEF AllowedIn
<1>5. Covers(plan, keys)'
    <2>1. (Scoped' <=> Scoped) /\ \A tool : Covered(tool)' <=> Covered(tool)
        BY SameRequest
    <2> QED
        BY <1>3, <2>1 DEF Covers
<1> QED
    BY <1>1, <1>2, <1>4, <1>5 DEF PlanOK

LEMMA PlanIsOver ==
    ASSUME plan' = <<>>
    PROVE  PlanOK'
<1>1. Reached(<<>>, keys') = {} /\ <<>> \in Seq(Range(<<>>))
    BY EmptyFits
<1>2. PlanFits(<<>>, keys', req'.method, AllowedIn(mode)')
    BY EmptyFits
<1>3. Covers(plan, keys)'
    BY <1>1 DEF Covers
<1> QED
    BY <1>1, <1>2, <1>3 DEF PlanOK

\* What was done stays allowed when nothing is done.
LEMMA MadeStays ==
    ASSUME MadeOK, UNCHANGED <<granted, req, made>>
    PROVE  MadeOK'
<1>1. Intent' = Intent
    BY SameRequest
<1> QED
    BY <1>1 DEF MadeOK, ChangesAreApproved, ChangesFitTheText

LEMMA CallsStay ==
    ASSUME CallsOK, UNCHANGED <<granted, req, calls>>
    PROVE  CallsOK'
<1>1. (Scoped' <=> Scoped) /\ \A tool : Covered(tool)' <=> Covered(tool)
    BY SameRequest
<1> QED
    BY <1>1 DEF CallsOK

LEMMA ModeStays ==
    ASSUME ModeOK, UNCHANGED <<granted, req, mode>>,
           mode # "none" \/ pc' \notin {"running", "staged"} \/ MissingScopes = {}
    PROVE  ModeOK'
<1>1. /\ MissingScopes' = MissingScopes /\ (CanExecute' <=> CanExecute)
      /\ (RequiresApproval(req)' <=> RequiresApproval(req))
    BY SameRequest
<1> QED
    BY <1>1 DEF ModeOK

\* What is allowed in a mode was approved, or the text hid it.
LEMMA AllowedIsApproved ==
    ASSUME DispatchInv, NEW effect \in AllowedIn(mode)
    PROVE  /\ mode \in {"inline", "auto", "approved"}
           /\ req.via # "tool" => effect \in Fitting(Intent)
           /\ \/ mode = "approved"
              \/ mode = "auto" /\ req.via = "tool" /\ effect # Removes
              \/ /\ mode = "inline" /\ req.via = "step" /\ ~req.risky
                 /\ Classify(req.action) \notin Writes /\ Intent \in Writes
<1>1. /\ mode \in {"inline", "auto", "approved"} /\ (req.via # "tool" => effect \in Fitting(Intent))
      /\ mode = "auto" => req.via = "tool" /\ effect \in {Adds, Alters}
    BY DEF AllowedIn
<1>2. ASSUME mode = "inline"
      PROVE  /\ req.via = "step" /\ ~req.risky
             /\ Classify(req.action) \notin Writes /\ Intent \in Writes
    <2>1. req.via # "tool"
        BY <1>2 DEF AllowedIn
    <2>2. Intent \in Writes
        BY <1>1, <2>1, FittingIsForWrites
    <2>3. ~RequiresApproval(req)
        BY <1>2, <2>1 DEF DispatchInv, ModeOK
    <2>4. req.via \in {"step", "ask"}
        BY <2>1, DispatchAssumption DEF DispatchInv, PlaceOK
    <2> QED
        BY <2>2, <2>3, <2>4 DEF RequiresApproval, IsWriteStep
<1>3. \A what \in {Adds, Alters} : what # Removes
    BY DEF Adds, Alters, Removes
<1> QED
    BY <1>1, <1>2, <1>3

\* The next call of a run: its tool is known and covered, nothing was changed before
\* it, and if it changes something it may, is the last, and does not search.
LEMMA CallIsAllowed ==
    ASSUME DispatchInv, Calling
    PROVE  /\ Tool \in ToolNames /\ (Scoped => Covered(Tool)) /\ changed = {}
           /\ Does \in Changing => /\ Does \in AllowedIn(mode) /\ Further = <<>>
                                   /\ Step.do \notin {"find", "sample"}
<1>1. plan \in Seq(Range(plan)) /\ plan # <<>> /\ ~Decides(Step)
    BY DEF Calling, DispatchInv, PlanOK
<1>2. 1 \in Reached(plan, keys)
    BY <1>1, FirstReached DEF Step
<1>3. Tool \in ToolsOf(plan[1])
    BY DEF Tool, ToolsOf, Step
<1>4. /\ Tool \in ToolNames
      /\ EffectOf(Tool, req.method) \in Changing =>
            /\ EffectOf(Tool, req.method) \in AllowedIn(mode)
            /\ 1 = Len(plan) /\ plan[1].do \notin {"find", "sample"}
    BY <1>2, <1>3 DEF DispatchInv, PlanOK, PlanFits
<1>5. Scoped => Covered(Tool)
    BY <1>2, <1>3 DEF DispatchInv, PlanOK, Covers
<1>6. changed = {}
    BY <1>1 DEF DispatchInv, ChangedOK
<1>7. ASSUME 1 = Len(plan)
      PROVE  Further = <<>>
    <2>1. Further = SubSeq(plan, 2, 1)
        BY <1>7 DEF Further
    <2>2. Further \in Seq(Range(plan)) /\ Len(Further) = 0
        BY <1>1, <1>7, <2>1
    <2> QED
        BY <2>2
<1> QED
    BY <1>4, <1>5, <1>6, <1>7 DEF Does, Step

LEMMA CallIsRecorded ==
    ASSUME DispatchInv, UNCHANGED <<granted, req>>, Calling, Called
    PROVE  CallsOK'
<1>1. Tool \in ToolNames /\ (Scoped => Covered(Tool))
    BY CallIsAllowed
<1>2. calls \in Seq(ToolNames) /\ (Scoped => \A n \in DOMAIN calls : Covered(calls[n]))
    BY DEF DispatchInv, CallsOK
<1>3. calls' = Append(calls, Tool)
    BY DEF Called
<1>4. calls' \in Seq(ToolNames)
    BY <1>1, <1>2, <1>3
<1>5. ASSUME Scoped, NEW n \in DOMAIN calls'
      PROVE  Covered(calls'[n])
    <2>1. (n \in DOMAIN calls /\ calls'[n] = calls[n]) \/ calls'[n] = Tool
        BY <1>1, <1>2, <1>3
    <2> QED
        BY <1>1, <1>2, <1>5, <2>1
<1>6. (Scoped' <=> Scoped) /\ \A tool : Covered(tool)' <=> Covered(tool)
    BY SameRequest
<1> QED
    BY <1>4, <1>5, <1>6 DEF CallsOK

\* The change of a call is the only one of its run, and one it may make.
LEMMA ChangeIsRecorded ==
    ASSUME DispatchInv, UNCHANGED <<granted, req>>, Calling, Recorded
    PROVE  /\ CallsOK' /\ MadeOK'
           /\ \/ changed' = {}
              \/ /\ Does \in Changing /\ mode \in {"inline", "auto", "approved"}
                 /\ \E change : changed' = {change}
<1>1. CallsOK'
    BY CallIsRecorded DEF Recorded
<1>2. CASE Does \notin Changing
    <2>1. UNCHANGED <<changed, made>> /\ changed = {}
        BY <1>2, CallIsAllowed DEF Recorded
    <2> QED
        BY <1>1, <2>1, MadeStays DEF DispatchInv
<1>3. CASE Does \in Changing
    <2>1. Does \in AllowedIn(mode) /\ changed = {}
        BY <1>3, CallIsAllowed
    <2>2. changed' = {<<Len(calls) + 1, Does>>} /\ made' = made \union {<<mode, Does>>}
        BY <1>3, <2>1 DEF Recorded
    <2>3. /\ mode \in {"inline", "auto", "approved"}
          /\ req.via # "tool" => Does \in Fitting(Intent)
          /\ \/ mode = "approved"
             \/ mode = "auto" /\ req.via = "tool" /\ Does # Removes
             \/ /\ mode = "inline" /\ req.via = "step" /\ ~req.risky
                /\ Classify(req.action) \notin Writes /\ Intent \in Writes
        BY <2>1, AllowedIsApproved
    <2>4. Intent' = Intent
        BY SameRequest
    <2>5. ChangesAreApproved'
        <3> SUFFICES ASSUME NEW change \in made'
                     PROVE  \/ change[1] = "approved"
                            \/ change[1] = "auto" /\ req.via = "tool" /\ change[2] # Removes
                            \/ /\ change[1] = "inline" /\ req.via = "step" /\ ~req.risky
                               /\ Classify(req.action) \notin Writes /\ Intent \in Writes
            BY <2>4 DEF ChangesAreApproved
        <3>1. CASE change \in made
            BY <3>1 DEF DispatchInv, MadeOK, ChangesAreApproved
        <3>2. CASE change = <<mode, Does>>
            BY <2>3, <3>2
        <3> QED
            BY <2>2, <3>1, <3>2
    <2>6. ChangesFitTheText'
        <3> SUFFICES ASSUME req.via # "tool", NEW change \in made'
                     PROVE  change[2] \in Fitting(Intent)
            BY <2>4 DEF ChangesFitTheText
        <3>1. CASE change \in made
            BY <3>1 DEF DispatchInv, MadeOK, ChangesFitTheText
        <3>2. CASE change = <<mode, Does>>
            BY <2>3, <3>2
        <3> QED
            BY <2>2, <3>1, <3>2
    <2> QED
        BY <1>1, <1>3, <2>2, <2>3, <2>5, <2>6 DEF MadeOK
<1> QED
    BY <1>2, <1>3

-----------------------------------------------------------------------------
(* The kinds of steps. *)

\* A run starts from a plan that fits its mode.
LEMMA RunStarts ==
    ASSUME DispatchInv, UNCHANGED <<granted, req, made>>,
           NEW how \in {"preview", "inline", "auto", "approved"}, NEW steps, NEW ks, NEW record,
           Run(how, steps, ks, record),
           steps \in Seq(Range(steps)), PlanFits(steps, ks, req.method, AllowedIn(how)),
           Covers(steps, ks), MissingScopes = {},
           how \in {"inline", "approved"} /\ req.via # "tool" => CanExecute,
           how = "inline" /\ req.via # "tool" => ~RequiresApproval(req),
           how = "auto" => req.via = "tool",
           (pc # "running" /\ UNCHANGED batch) \/ (how \in {"auto", "approved"} /\ req.via = "tool")
    PROVE  DispatchInv'
<1>1. /\ pc' = "running" /\ mode' = how /\ plan' = steps /\ keys' = ks
      /\ calls' = <<>> /\ changed' = {} /\ answer' = "none"
    BY DEF Run
<1>2. PlaceOK'
    BY <1>1 DEF DispatchInv, PlaceOK
<1>3. ModeOK'
    <2>1. /\ MissingScopes' = MissingScopes /\ (CanExecute' <=> CanExecute)
          /\ (RequiresApproval(req)' <=> RequiresApproval(req))
        BY SameRequest
    <2> QED
        BY <1>1, <2>1 DEF ModeOK
<1>4. PlanOK'
    <2>1. AllowedIn(mode)' = AllowedIn(how)
        <3>1. Intent' = Intent
            BY SameRequest
        <3> QED
            BY <1>1, <3>1 DEF AllowedIn
    <2>2. Covers(plan, keys)'
        <3>1. (Scoped' <=> Scoped) /\ \A tool : Covered(tool)' <=> Covered(tool)
            BY SameRequest
        <3> QED
            BY <1>1, <3>1 DEF Covers
    <2> QED
        BY <1>1, <2>1, <2>2 DEF PlanOK
<1>5. CallsOK'
    BY <1>1 DEF CallsOK
<1>6. ChangedOK' /\ NoHandlerNoSuccess'
    BY <1>1 DEF ChangedOK, NoHandlerNoSuccess
<1>7. MadeOK'
    BY MadeStays DEF DispatchInv
<1> QED
    BY <1>2, <1>3, <1>4, <1>5, <1>6, <1>7 DEF DispatchInv

\* A request that does not run, or not again, is over or staged.
LEMMA RequestEnds ==
    ASSUME DispatchInv, NEW where \in {"staged", "done"}, NEW how, how # "success",
           how = "error" => changed = {},
           where = "done" \/ MissingScopes = {}, pc # "running", Ends(where, how),
           UNCHANGED Outside
    PROVE  DispatchInv'
<1>1. /\ pc' = where /\ answer' = how /\ plan' = <<>>
      /\ UNCHANGED <<mode, keys, calls, changed, granted, req, made, batch>>
    BY DEF Ends, Outside
<1>2. PlaceOK'
    BY <1>1 DEF DispatchInv, PlaceOK
<1>3. ModeOK'
    BY <1>1, ModeStays DEF DispatchInv
<1>4. PlanOK' /\ CallsOK' /\ MadeOK'
    BY <1>1, PlanIsOver, CallsStay, MadeStays DEF DispatchInv
<1>5. ChangedOK'
    BY <1>1 DEF DispatchInv, ChangedOK
<1>6. NoHandlerNoSuccess'
    BY <1>1 DEF NoHandlerNoSuccess
<1> QED
    BY <1>2, <1>3, <1>4, <1>5, <1>6 DEF DispatchInv

\* A running plan takes a step that is no call, or ends.
LEMMA PlanMoves ==
    ASSUME DispatchInv, Running, UNCHANGED <<mode, keys, calls, changed, granted, req, made, batch>>,
           \/ Goes /\ plan # <<>> /\ (Decides(Step) => Step.key \in keys)
           \/ /\ \E how \in {"success", "error", "raised"} :
                     EndRun(how) /\ (how = "error" => changed = {})
    PROVE  DispatchInv'
<1>1. /\ pc = "running" /\ batch.next \in {"idle", "done", "stopped"} /\ mode # "none"
      /\ answer = "none"
    BY DEF Running, DispatchInv, PlaceOK
<1>2. /\ pc' \in {"running", "staged", "done"}
      /\ plan' = <<>> \/ (plan' = Further /\ plan # <<>> /\ (Decides(Step) => Step.key \in keys)
                          /\ answer' = answer)
    BY <1>1 DEF Goes, EndRun, Where
<1>3. PlaceOK'
    <2>1. pc' = "running" => answer' = "none"
        BY <1>1 DEF Goes, EndRun, Where
    <2> QED
        BY <1>1, <1>2, <2>1 DEF DispatchInv, PlaceOK
<1>4. ModeOK'
    BY <1>1, ModeStays DEF DispatchInv
<1>5. PlanOK'
    BY <1>2, PlanIsOver, PlanGoesOn DEF DispatchInv
<1>6. CallsOK' /\ MadeOK'
    BY CallsStay, MadeStays DEF DispatchInv
<1>7. ChangedOK'
    BY <1>2 DEF DispatchInv, ChangedOK, EndRun, Goes
<1>8. NoHandlerNoSuccess'
    <2>1. Handler' = Handler
        BY SameRequest
    <2>2. answer' = answer \/ answer' # "success" \/ mode \in {"inline", "auto", "approved"}
        BY <1>1 DEF EndRun, Goes, DispatchInv, PlaceOK
    <2> QED
        BY <2>1, <2>2 DEF NoHandlerNoSuccess, DispatchInv, ModeOK, CanExecute
<1> QED
    BY <1>3, <1>4, <1>5, <1>6, <1>7, <1>8 DEF DispatchInv

-----------------------------------------------------------------------------
(* The plans of the tables fit the runs they are started for. *)

LEMMA PreviewFits ==
    ASSUME TablesAgree, DispatchInv, req.via # "tool", MissingScopes = {}
    PROVE  LET steps == Handler.preview[Intent].plan
           IN  /\ steps \in Seq(Range(steps))
               /\ PlanFits(steps, RequestKeys, req.method, AllowedIn("preview"))
               /\ Covers(steps, RequestKeys)
<1> DEFINE steps == Handler.preview[Intent].plan
<1>1. req.agent \in DOMAIN AgentRegistry /\ req.method = "GET" /\ Intent \in Intents
    BY DispatchAssumption, IntentIsOne DEF DispatchInv, PlaceOK, Intent
<1>2. steps \in Seq(Range(steps)) /\ PlanFits(steps, {"type", "pair"}, "GET", {})
    BY <1>1 DEF TablesAgree, PlansFit, Handler
<1>3. AllowedIn("preview") = {}
    BY DEF AllowedIn
<1>4. RequestKeys \subseteq {"type", "pair"}
    BY KeysThereAre
<1>5. PlanFits(steps, RequestKeys, "GET", {})
    BY <1>2, <1>4, FewerKeysFit
<1>6. Covers(steps, RequestKeys)
    <2> SUFFICES ASSUME Scoped, NEW n \in Reached(steps, RequestKeys), NEW tool \in ToolsOf(steps[n])
                 PROVE  Covered(tool)
        BY DEF Covers
    <2>1. req.agent \in (DOMAIN AgentTools \intersect DOMAIN AgentRegistry) \ Uncovered
        BY <1>1 DEF Scoped
    <2>2. n \in Reached(steps, {"type", "pair"})
        BY <1>4, FewerKeysReachLess
    <2>3. ToolsOf(steps[n]) \subseteq AgentTools[req.agent]
                 \union (IF req.agent = "associations" THEN {Search} ELSE {})
        BY <1>1, <2>1, <2>2 DEF TablesAgree, ListsAreWhole, Handler
    <2> QED
        BY <2>1, <2>3 DEF Covered, MissingScopes, Scoped, AgentScopes, RequiredScopes
<1> QED
    BY <1>1, <1>2, <1>3, <1>5, <1>6

LEMMA ExecutionFits ==
    ASSUME TablesAgree, DispatchInv, req.via # "tool", MissingScopes = {},
           NEW ks, ks \subseteq RequestKeys \union Payload,
           NEW how \in {"inline", "approved"}
    PROVE  LET steps == Handler.execute[Intent]
           IN  /\ steps \in Seq(Range(steps))
               /\ PlanFits(steps, ks, req.method, AllowedIn(how))
               /\ Covers(steps, ks)
<1> DEFINE steps == Handler.execute[Intent]
<1> DEFINE all == KeysOf(req.agent, Intent)
<1>1. req.agent \in DOMAIN AgentRegistry /\ req.method = "GET" /\ Intent \in Intents
    BY DispatchAssumption, IntentIsOne DEF DispatchInv, PlaceOK, Intent
<1>2. steps \in Seq(Range(steps)) /\ PlanFits(steps, all, "GET", Fitting(Intent))
    BY <1>1 DEF TablesAgree, PlansFit, Handler
<1>3. AllowedIn(how) = Fitting(Intent)
    BY DEF AllowedIn
<1>4. ks \subseteq all
    BY KeysThereAre
<1>5. PlanFits(steps, ks, "GET", Fitting(Intent))
    BY <1>2, <1>4, FewerKeysFit
<1>6. Covers(steps, ks)
    <2> SUFFICES ASSUME Scoped, NEW n \in Reached(steps, ks), NEW tool \in ToolsOf(steps[n])
                 PROVE  Covered(tool)
        BY DEF Covers
    <2>1. req.agent \in (DOMAIN AgentTools \intersect DOMAIN AgentRegistry) \ Uncovered
        BY <1>1 DEF Scoped
    <2>2. n \in Reached(steps, all)
        BY <1>4, FewerKeysReachLess
    <2>3. ToolsOf(steps[n]) \subseteq AgentTools[req.agent]
                 \union (IF req.agent = "associations" THEN {Search} ELSE {})
        BY <1>1, <2>1, <2>2 DEF TablesAgree, ListsAreWhole, Handler
    <2> QED
        BY <2>1, <2>3 DEF Covered, MissingScopes, Scoped, AgentScopes, RequiredScopes
<1> QED
    BY <1>1, <1>2, <1>3, <1>5, <1>6

LEMMA ToolFits ==
    ASSUME TablesAgree, DispatchInv, req.via = "tool", MissingScopes = {},
           NEW how \in {"inline", "auto", "approved"},
           how = "inline" => ~IsWriteTool(req.tool, req.method, req.type),
           how = "auto" => MayAutoApply(req.tool, req.method, req.type),
           NEW step \in {Call(req.tool), Fetch(req.tool)}
    PROVE  /\ <<step>> \in Seq(Range(<<step>>))
           /\ PlanFits(<<step>>, {}, req.method, AllowedIn(how))
           /\ Covers(<<step>>, {})
<1>1. req.tool \in ToolNames /\ req.method \in Methods /\ req.type \in {r.type : r \in Requests}
    BY DispatchAssumption DEF DispatchInv, PlaceOK
<1>2. EffectOf(req.tool, req.method) \in Changing => EffectOf(req.tool, req.method) \in AllowedIn(how)
    <2>1. CASE how = "approved"
        BY <2>1 DEF AllowedIn
    <2>2. CASE how = "inline"
        BY <1>1, <2>2 DEF TablesAgree, WritesAreKnown
    <2>3. CASE how = "auto"
        BY <1>1, <2>3 DEF TablesAgree, AutoOnlyAddsOrAlters, AllowedIn
    <2> QED
        BY <2>1, <2>2, <2>3
<1>3. /\ <<step>> \in Seq(Range(<<step>>))
      /\ \A n \in Reached(<<step>>, {}) : ToolsOf(<<step>>[n]) = {req.tool}
      /\ PlanFits(<<step>>, {}, req.method, AllowedIn(how))
    BY <1>1, <1>2, OneCallFits
<1>4. Scoped => Covered(req.tool)
    BY DEF Scoped, Covered, MissingScopes, ScopesMissing, TargetType
<1> QED
    BY <1>3, <1>4 DEF Covers

-----------------------------------------------------------------------------
(* Every step. *)

LEMMA InitHolds ==
    Init => DispatchInv
<1> SUFFICES ASSUME Init PROVE DispatchInv
    OBVIOUS
<1>1. PlaceOK
    BY DEF Init, PlaceOK, Idle
<1>2. PlanOK
    BY EmptyFits DEF Init, PlanOK, Covers
<1>3. CallsOK /\ ChangedOK /\ ModeOK
    BY DEF Init, CallsOK, ChangedOK, ModeOK
<1>4. MadeOK /\ NoHandlerNoSuccess
    BY DEF Init, MadeOK, ChangesAreApproved, ChangesFitTheText, NoHandlerNoSuccess
<1> QED
    BY <1>1, <1>2, <1>3, <1>4 DEF DispatchInv

\* A tool that changes something is executed, at once or approved.
LEMMA ToolExecutionKeeps ==
    ASSUME TablesAgree, DispatchInv, NEW how \in {"auto", "approved"}, ExecuteTool(how),
           req.via = "tool", MissingScopes = {}, pc # "running",
           how = "auto" => MayAutoApply(req.tool, req.method, req.type)
    PROVE  DispatchInv'
<1>1. CASE req.tool \in {Upsert, Update}
    <2>1. Run(how, <<>>, {}, NoRecord) /\ UNCHANGED <<granted, req, made>>
        BY <1>1 DEF ExecuteTool
    <2>2. /\ <<>> \in Seq(Range(<<>>)) /\ PlanFits(<<>>, {}, req.method, AllowedIn(how))
          /\ Covers(<<>>, {})
        BY EmptyFits DEF Covers
    <2> QED
        BY <1>1, <2>1, <2>2, RunStarts
<1>2. CASE req.tool \notin {Upsert, Update}
    <2>1. /\ Run(how, <<Fetch(req.tool)>>, {}, InputRecord)
          /\ UNCHANGED <<granted, req, made>>
        BY <1>2 DEF ExecuteTool, Outside
    <2>2. /\ <<Fetch(req.tool)>> \in Seq(Range(<<Fetch(req.tool)>>))
          /\ PlanFits(<<Fetch(req.tool)>>, {}, req.method, AllowedIn(how))
          /\ Covers(<<Fetch(req.tool)>>, {})
        BY ToolFits
    <2> QED
        BY <1>2, <2>1, <2>2, RunStarts
<1> QED
    BY <1>1, <1>2

\* Taking the request.
LEMMA TakingKeeps ==
    ASSUME TablesAgree, DispatchInv,
           \/ RefuseRequest \/ InvokeTool \/ StageTool \/ AutoApply \/ PreviewAgent
           \/ ExecuteInline \/ RetryInline
    PROVE  DispatchInv'
<1>1. CASE RefuseRequest
    <2>1. changed = {} /\ pc # "running" /\ Ends("done", "error") /\ UNCHANGED Outside
        BY <1>1 DEF RefuseRequest, DispatchInv, PlaceOK
    <2> QED
        BY <2>1, RequestEnds
<1>2. CASE InvokeTool
    <2>1. /\ <<Call(req.tool)>> \in Seq(Range(<<Call(req.tool)>>))
          /\ PlanFits(<<Call(req.tool)>>, {}, req.method, AllowedIn("inline"))
          /\ Covers(<<Call(req.tool)>>, {})
        BY <1>2, ToolFits DEF InvokeTool
    <2>2. /\ Run("inline", <<Call(req.tool)>>, {}, InputRecord) /\ req.via = "tool"
          /\ MissingScopes = {} /\ pc # "running" /\ UNCHANGED <<granted, req, made, batch>>
        BY <1>2 DEF InvokeTool, Outside
    <2> QED
        BY <2>1, <2>2, RunStarts
<1>3. CASE StageTool
    <2>1. /\ MissingScopes = {} /\ pc # "running" /\ Ends("staged", "preview") /\ UNCHANGED Outside
        BY <1>3 DEF StageTool, WritesByTool
    <2> QED
        BY <2>1, RequestEnds
<1>7. CASE AutoApply
    <2>1. /\ ExecuteTool("auto") /\ MayAutoApply(req.tool, req.method, req.type)
          /\ req.via = "tool" /\ MissingScopes = {} /\ pc # "running"
        BY <1>7 DEF AutoApply, WritesByTool
    <2> QED
        BY <2>1, ToolExecutionKeeps
<1>4. CASE PreviewAgent
    <2> DEFINE steps == Handler.preview[Intent].plan
    <2>1. /\ Run("preview", steps, RequestKeys, NoRecord) /\ req.via # "tool"
          /\ MissingScopes = {} /\ pc # "running" /\ UNCHANGED <<granted, req, made, batch>>
        BY <1>4 DEF PreviewAgent, Outside
    <2>2. /\ steps \in Seq(Range(steps)) /\ Covers(steps, RequestKeys)
          /\ PlanFits(steps, RequestKeys, req.method, AllowedIn("preview"))
        BY <2>1, PreviewFits
    <2> HIDE DEF steps
    <2> QED
        BY <2>1, <2>2, RunStarts
<1>5. CASE ExecuteInline
    <2> DEFINE steps == Handler.execute[Intent]
    <2>1. /\ req.via # "tool" /\ ~RequiresApproval(req)
          /\ MissingScopes = {} /\ pc = "asked" /\ UNCHANGED <<granted, req, made, batch>>
          /\ UNCHANGED Outside
        BY <1>5 DEF ExecuteInline, Outside
    <2>2. CASE CanExecute
        <3>1. Run("inline", steps, RequestKeys, NoRecord)
            BY <1>5, <2>2 DEF ExecuteInline
        <3>2. /\ steps \in Seq(Range(steps)) /\ Covers(steps, RequestKeys)
              /\ PlanFits(steps, RequestKeys, req.method, AllowedIn("inline"))
            BY <2>1, ExecutionFits
        <3> HIDE DEF steps
        <3> QED
            BY <2>1, <2>2, <3>1, <3>2, RunStarts
    <2>3. CASE ~CanExecute
        <3>1. Ends("done", "error") /\ changed = {}
            BY <1>5, <2>1, <2>3 DEF ExecuteInline, DispatchInv, PlaceOK
        <3> QED
            BY <2>1, <3>1, RequestEnds
    <2> QED
        BY <2>2, <2>3
<1>6. CASE RetryInline
    <2> DEFINE steps == Handler.execute[Intent]
    <2>1. /\ Run("inline", steps, RequestKeys, NoRecord) /\ req.via # "tool" /\ mode = "inline"
          /\ pc # "running" /\ UNCHANGED <<granted, req, made, batch>>
        BY <1>6 DEF RetryInline, Outside
    <2>2. MissingScopes = {} /\ CanExecute /\ ~RequiresApproval(req)
        BY <2>1 DEF DispatchInv, ModeOK
    <2>3. /\ steps \in Seq(Range(steps)) /\ Covers(steps, RequestKeys)
          /\ PlanFits(steps, RequestKeys, req.method, AllowedIn("inline"))
        BY <2>1, <2>2, ExecutionFits
    <2> HIDE DEF steps
    <2> QED
        BY <2>1, <2>2, <2>3, RunStarts
<1> QED
    BY <1>1, <1>2, <1>3, <1>4, <1>5, <1>6, <1>7

\* Approving and rejecting it.
LEMMA ApprovingKeeps ==
    ASSUME TablesAgree, DispatchInv, Approve \/ ApprovalFails \/ Reject
    PROVE  DispatchInv'
<1>1. CASE Approve /\ req.via = "tool"
    <2>1. ExecuteTool("approved") /\ pc = "staged" /\ MissingScopes = {}
        BY <1>1 DEF Approve, DispatchInv, ModeOK
    <2> QED
        BY <1>1, <2>1, ToolExecutionKeeps
<1>3. CASE Approve /\ req.via # "tool"
    <2> DEFINE steps == Handler.execute[Intent]
    <2> DEFINE ks == RequestKeys \union Payload
    <2>1. /\ Run("approved", steps, ks, NoRecord) /\ MissingScopes = {} /\ CanExecute
          /\ UNCHANGED <<granted, req, made, batch>> /\ pc = "staged"
        BY <1>3 DEF Approve, Outside
    <2>2. /\ steps \in Seq(Range(steps)) /\ Covers(steps, ks)
          /\ PlanFits(steps, ks, req.method, AllowedIn("approved"))
        BY <1>3, <2>1, ExecutionFits
    <2> HIDE DEF steps, ks
    <2> QED
        BY <2>1, <2>2, RunStarts
<1>4. CASE ApprovalFails
    <2>1. MissingScopes = {} /\ changed = {}
        BY <1>4 DEF ApprovalFails, DispatchInv, ModeOK, ChangedOK
    <2>2. pc # "running" /\ Ends("staged", "error") /\ UNCHANGED Outside
        BY <1>4 DEF ApprovalFails
    <2> QED
        BY <2>1, <2>2, RequestEnds
<1>5. CASE Reject
    <2>1. pc # "running" /\ Ends("done", "rejected") /\ UNCHANGED Outside
        BY <1>5 DEF Reject
    <2> QED
        BY <2>1, RequestEnds
<1> QED
    BY <1>1, <1>3, <1>4, <1>5

\* Where a call leaves the run.
LEMMA CallMoves ==
    ASSUME DispatchInv, Calling, UNCHANGED <<granted, req, mode, keys, batch>>, CallsOK', MadeOK',
           \/ Goes
           \/ plan' = <<>> /\ pc' \in {"staged", "done"},
           \/ changed' = {}
           \/ /\ plan' = <<>> /\ mode \in {"inline", "auto", "approved"} /\ answer' # "error"
              /\ \E change : changed' = {change},
           answer' \in {answer, "preview", "error", "raised"} \/ mode \in {"inline", "auto", "approved"}
    PROVE  DispatchInv'
<1>1. /\ pc = "running" /\ batch.next \in {"idle", "done", "stopped"} /\ mode # "none"
      /\ plan # <<>> /\ ~Decides(Step) /\ answer = "none"
    BY DEF Calling, Running, DispatchInv, PlaceOK
<1>2. PlaceOK'
    BY <1>1 DEF DispatchInv, PlaceOK, Goes
<1>3. ModeOK'
    BY <1>1, ModeStays DEF DispatchInv
<1>4. PlanOK'
    BY <1>1, PlanIsOver, PlanGoesOn DEF DispatchInv, Goes
<1>5. ChangedOK'
    BY DEF ChangedOK
<1>6. NoHandlerNoSuccess'
    <2>1. Handler' = Handler
        BY SameRequest
    <2> QED
        BY <1>1, <2>1 DEF NoHandlerNoSuccess, DispatchInv, ModeOK, CanExecute
<1> QED
    BY <1>2, <1>3, <1>4, <1>5, <1>6 DEF DispatchInv

LEMMA CallsKeep ==
    ASSUME DispatchInv, AnsweredCall \/ RefusedCall \/ LostAnswer
    PROVE  DispatchInv'
<1>1. Calling
    BY DEF AnsweredCall, RefusedCall, LostAnswer
<1>2. pc = "running" /\ mode \in {"preview", "inline", "auto", "approved"} /\ answer = "none"
    BY <1>1 DEF Calling, Running, DispatchInv, PlaceOK
<1>3. /\ changed = {}
      /\ Does \in Changing => /\ Does \in AllowedIn(mode) /\ Further = <<>>
                              /\ Step.do \notin {"find", "sample"}
    BY <1>1, CallIsAllowed
<1>4. UNCHANGED <<granted, req, mode, keys, batch>>
    BY DEF AnsweredCall, RefusedCall, LostAnswer
<1>5. CASE AnsweredCall
    <2>1. /\ CallsOK' /\ MadeOK'
          /\ \/ changed' = {}
             \/ /\ Does \in Changing /\ mode \in {"inline", "auto", "approved"}
                /\ \E change : changed' = {change}
        BY <1>1, <1>4, <1>5, ChangeIsRecorded DEF AnsweredCall
    <2>2. \/ Goes
          \/ /\ Step.do \in {"find", "sample"}
             /\ plan' = <<>> /\ pc' \in {"staged", "done"}
             /\ answer' = "preview" \/ mode \in {"inline", "auto", "approved"}
        BY <1>2, <1>5 DEF AnsweredCall, EndRun, Where
    <2>3. CASE Goes
        <3>1. answer' = answer /\ plan' = Further
            BY <2>3 DEF Goes
        <3> QED
            BY <1>1, <1>2, <1>3, <1>4, <2>1, <2>3, <3>1, CallMoves
    <2>4. CASE ~Goes
        <3>1. changed' = {}
            BY <1>3, <2>1, <2>2, <2>4
        <3> QED
            BY <1>1, <1>4, <2>1, <2>2, <2>4, <3>1, CallMoves
    <2> QED
        BY <2>3, <2>4
<1>6. CASE RefusedCall
    <2>1. CallsOK' /\ MadeOK' /\ changed' = {}
        BY <1>1, <1>3, <1>4, <1>6, CallIsRecorded, MadeStays DEF RefusedCall, DispatchInv
    <2>2. \/ Goes
          \/ /\ plan' = <<>> /\ pc' \in {"staged", "done"} /\ answer' \in {"preview", "error"}
        BY <1>2, <1>6 DEF RefusedCall, EndRun, Where
    <2>3. answer' \in {answer, "preview", "error"}
        BY <2>2 DEF Goes
    <2> QED
        BY <1>1, <1>4, <2>1, <2>2, <2>3, CallMoves
<1>7. CASE LostAnswer
    <2>1. /\ CallsOK' /\ MadeOK'
          /\ \/ changed' = {}
             \/ /\ Does \in Changing /\ mode \in {"inline", "auto", "approved"}
                /\ \E change : changed' = {change}
        BY <1>1, <1>4, <1>7, ChangeIsRecorded DEF LostAnswer
    <2>2. /\ plan' = <<>> /\ pc' \in {"staged", "done"}
          /\ answer' \in {"preview", "error", "raised"}
          /\ answer' = "error" => Catches /\ mode # "preview"
        BY <1>2, <1>7 DEF LostAnswer, EndRun, Where
    <2>3. ASSUME Does \in Changing
          PROVE  answer' # "error"
        <3> SUFFICES ASSUME req.agent = "associations", Intent = "search"
                     PROVE  FALSE
            BY <2>2 DEF Catches
        <3>1. req.via # "tool"
            BY DispatchAssumption DEF DispatchInv, PlaceOK
        <3>2. Does \in Fitting(Intent)
            BY <1>3, <2>3, <3>1, AllowedIsApproved
        <3> QED
            BY <3>2, FittingIsForWrites DEF Writes
    <2> QED
        BY <1>1, <1>4, <2>1, <2>2, <2>3, CallMoves
<1> QED
    BY <1>5, <1>6, <1>7

\* The other steps of a run.
LEMMA RunningKeeps ==
    ASSUME DispatchInv, Decide \/ Finish
    PROVE  DispatchInv'
<1>1. /\ UNCHANGED <<mode, keys, calls, changed, granted, req, made, batch>> /\ Running
    BY DEF Decide, Finish, Outside
<1>2. CASE Decide
    <2>1. changed = {} /\ plan # <<>>
        BY <1>2 DEF Decide, DispatchInv, ChangedOK
    <2>2. (Goes /\ Step.key \in keys) \/ EndRun("success") \/ EndRun("error")
        BY <1>2 DEF Decide
    <2> QED
        BY <1>1, <2>1, <2>2, PlanMoves
<1>3. CASE Finish
    <2>1. EndRun("raised") \/ EndRun("success")
        BY <1>3 DEF Finish
    <2> QED
        BY <1>1, <2>1, PlanMoves
<1> QED
    BY <1>2, <1>3

\* A batch moves only in an approved run of its tool.
LEMMA BatchIsUnderWay ==
    ASSUME BatchStep \/ StopBatch
    PROVE  batch.next \notin {"idle", "done", "stopped"}
BY DEF BatchStep, StopBatch, SendChunk, SendUpdates, RecordChunk, ReportChunk, FinishBatch

LEMMA BatchRunsKeeps ==
    ASSUME DispatchInv, BatchRuns
    PROVE  DispatchInv'
<1>1. /\ UNCHANGED <<granted, req, pc, mode, plan, keys, answer, calls, changed>>
      /\ pc = "running" /\ (BatchStep \/ StopBatch)
    BY DEF BatchRuns
<1>2. mode \in {"auto", "approved"} /\ req.via = "tool"
    BY <1>1, BatchIsUnderWay DEF DispatchInv, PlaceOK
<1>3. made' = made \/ made' = made \union {<<mode, Alters>>}
    BY DEF BatchRuns
<1>4. PlaceOK'
    BY <1>1, <1>2 DEF DispatchInv, PlaceOK
<1>5. ModeOK'
    BY <1>1, ModeStays DEF DispatchInv, PlaceOK
<1>6. PlanOK' /\ CallsOK'
    <2>1. (Scoped' <=> Scoped) /\ \A tool : Covered(tool)' <=> Covered(tool)
        BY <1>1, SameRequest
    <2>2. AllowedIn(mode)' = AllowedIn(mode)
        <3>1. Intent' = Intent
            BY <1>1, SameRequest
        <3> QED
            BY <1>1, <3>1 DEF AllowedIn
    <2>3. Covers(plan, keys)'
        BY <1>1, <2>1 DEF Covers, DispatchInv, PlanOK
    <2> QED
        BY <1>1, <2>2, <2>3, CallsStay DEF DispatchInv, PlanOK
<1>7. ChangedOK' /\ NoHandlerNoSuccess'
    BY <1>1, <1>2 DEF DispatchInv, ChangedOK, NoHandlerNoSuccess
<1>8. MadeOK'
    <2>1. Intent' = Intent
        BY <1>1, SameRequest
    <2>2. ChangesAreApproved'
        <3> SUFFICES ASSUME NEW change \in made'
                     PROVE  \/ change[1] = "approved"
                            \/ change[1] = "auto" /\ req.via = "tool" /\ change[2] # Removes
                            \/ /\ change[1] = "inline" /\ req.via = "step" /\ ~req.risky
                               /\ Classify(req.action) \notin Writes /\ Intent \in Writes
            BY <1>1, <2>1 DEF ChangesAreApproved
        <3>1. CASE change \in made
            BY <3>1 DEF DispatchInv, MadeOK, ChangesAreApproved
        <3>2. CASE change = <<mode, Alters>>
            BY <1>2, <3>2 DEF Alters, Removes
        <3> QED
            BY <1>3, <3>1, <3>2
    <2>3. ChangesFitTheText'
        BY <1>1, <1>2 DEF ChangesFitTheText
    <2> QED
        BY <2>2, <2>3 DEF MadeOK
<1> QED
    BY <1>4, <1>5, <1>6, <1>7, <1>8 DEF DispatchInv

\* What others do and a stuttering step touch none of it.
LEMMA NothingMoves ==
    ASSUME DispatchInv, Elsewhere \/ UNCHANGED vars
    PROVE  DispatchInv'
<1>1. UNCHANGED <<granted, req, pc, mode, plan, keys, answer, calls, changed, made, batch>>
    BY DEF Elsewhere, vars
<1>2. PlaceOK' /\ ChangedOK'
    BY <1>1 DEF DispatchInv, PlaceOK, ChangedOK
<1>3. ModeOK'
    BY <1>1, ModeStays DEF DispatchInv, ModeOK
<1>4. CallsOK' /\ MadeOK'
    BY <1>1, CallsStay, MadeStays DEF DispatchInv
<1>5. PlanOK'
    <2>1. (Scoped' <=> Scoped) /\ \A tool : Covered(tool)' <=> Covered(tool)
        BY <1>1, SameRequest
    <2>2. AllowedIn(mode)' = AllowedIn(mode)
        <3>1. Intent' = Intent
            BY <1>1, SameRequest
        <3> QED
            BY <1>1, <3>1 DEF AllowedIn
    <2>3. Covers(plan, keys)'
        BY <1>1, <2>1 DEF Covers, DispatchInv, PlanOK
    <2> QED
        BY <1>1, <2>2, <2>3 DEF DispatchInv, PlanOK
<1>6. NoHandlerNoSuccess'
    <2>1. Handler' = Handler
        BY <1>1, SameRequest
    <2> QED
        BY <1>1, <2>1 DEF DispatchInv, NoHandlerNoSuccess
<1> QED
    BY <1>2, <1>3, <1>4, <1>5, <1>6 DEF DispatchInv

LEMMA InvariantHolds ==
    ASSUME TablesAgree
    PROVE  Spec => []DispatchInv
<1>1. Init => DispatchInv
    BY InitHolds
<1>2. DispatchInv /\ [Next]_vars => DispatchInv'
    BY TakingKeeps, ApprovingKeeps, CallsKeep, RunningKeeps, BatchRunsKeeps, NothingMoves DEF Next
<1> QED
    BY <1>1, <1>2, PTL DEF Spec

-----------------------------------------------------------------------------
(* The theorems. *)

\* HubSpot is changed by approved runs alone, but for tool calls of the AUTO tier, which
\* never remove anything, and a loop's step whose action reads as harmless while its whole
\* text is a write (handle_tool, is_write_step, _parse_agent_intent).
THEOREM ApprovedAlone ==
    ASSUME TablesAgree
    PROVE  Spec => []ChangesAreApproved
<1>1. DispatchInv => ChangesAreApproved
    BY DEF DispatchInv, MadeOK
<1> QED
    BY <1>1, InvariantHolds, PTL

\* An agent changes what its text asked for, a run that ends in an error has changed
\* nothing and no run more than one thing, and no agent without an execute handler
\* says that it executed (the agents' execute handlers, dispatch_agent).
THEOREM AgentsDoAsTold ==
    ASSUME TablesAgree
    PROVE  Spec => []AgentsKeepTheirWord
<1>1. ASSUME DispatchInv PROVE AgentsKeepTheirWord
    <2>1. Cardinality(changed) <= 1
        <3>1. CASE changed = {}
            BY <3>1, FS_EmptySet
        <3>2. CASE \E change : changed = {change}
            <4>1. PICK change : changed = {change}
                BY <3>2
            <4> QED
                BY <4>1, FS_Singleton
        <3> QED
            BY <1>1, <3>1, <3>2 DEF DispatchInv, ChangedOK
    <2>2. answer = "error" => changed = {}
        BY <1>1 DEF DispatchInv, ChangedOK
    <2> QED
        BY <1>1, <2>1, <2>2 DEF DispatchInv, MadeOK, AgentsKeepTheirWord, ErrorsChangeNothing
<1> QED
    BY <1>1, InvariantHolds, PTL

\* Every tool that is called on a portal with a list of scopes is covered by it
\* (get_required_scopes, the scope checks of handle_tool and dispatch_agent).
THEOREM CallsAreCovered ==
    ASSUME TablesAgree
    PROVE  Spec => []ScopesCoverTheCalls
<1>1. DispatchInv => ScopesCoverTheCalls
    BY DEF DispatchInv, CallsOK, ScopesCoverTheCalls, Scoped, Covered
<1> QED
    BY <1>1, InvariantHolds, PTL

-----------------------------------------------------------------------------
(* Batches.  Their sums and positions first: what a sum over a sequence is, and the    *)
(* n-th of a set of positions.  Both are inductions over numbers: a least number for   *)
(* which the claim fails is looked at (WFMin), and the one before it refutes it.       *)

\* Every set of natural numbers that is not empty has a least one.
LEMMA LeastNumber ==
    ASSUME NEW T \in SUBSET Nat, T # {}
    PROVE  \E n \in T : \A m \in T : n <= m
<1>1. PICK n \in T : \A m \in T : ~(<<m, n>> \in OpToRel(<, Nat))
    BY NatLessThanWellFounded, WFMin
<1>2. \A m \in T : ~(m < n)
    BY <1>1 DEF OpToRel
<1> QED
    BY <1>2

\* The sums of the first n numbers, as a function of n.
IsSums(f, numbers) ==
    f = [n \in 0 .. Len(numbers) |-> IF n = 0 THEN 0 ELSE f[n - 1] + numbers[n]]

LEMMA TotalIsLast ==
    ASSUME NEW numbers
    PROVE  Total(numbers) = (CHOOSE f : IsSums(f, numbers))[Len(numbers)]
BY DEF Total, IsSums

\* There are such sums, and they are the only ones.
LEMMA SumsExist ==
    ASSUME NEW numbers \in Seq(Nat)
    PROVE  \E f \in [0 .. Len(numbers) -> Nat] : IsSums(f, numbers)
<1> DEFINE Upto(n, f) ==
        /\ f \in [0 .. n -> Nat]
        /\ \A k \in 0 .. n : f[k] = IF k = 0 THEN 0 ELSE f[k - 1] + numbers[k]
           Without == {n \in 0 .. Len(numbers) : ~\E f : Upto(n, f)}
<1>1. Len(numbers) \in Nat /\ \A k \in 1 .. Len(numbers) : numbers[k] \in Nat
    OBVIOUS
<1>2. Without = {}
    <2> SUFFICES ASSUME Without # {} PROVE FALSE
        OBVIOUS
    <2>1. PICK n \in Without : \A m \in Without : n <= m
        <3>1. Without \in SUBSET Nat
            BY <1>1
        <3> QED
            BY <3>1, LeastNumber
    <2>2. n # 0
        <3>1. Upto(0, [k \in 0 .. 0 |-> 0])
            OBVIOUS
        <3> QED
            BY <3>1, <2>1
    <2>3. PICK f : Upto(n - 1, f)
        <3>1. n - 1 \in 0 .. Len(numbers) /\ ~(n <= n - 1)
            BY <1>1, <2>1, <2>2
        <3> QED
            BY <2>1, <3>1
    <2> DEFINE g == [k \in 0 .. n |-> IF k = n THEN f[n - 1] + numbers[n] ELSE f[k]]
    <2>4. n \in Nat \ {0} /\ numbers[n] \in Nat /\ f[n - 1] \in Nat
        BY <1>1, <2>1, <2>2, <2>3
    <2>5. g \in [0 .. n -> Nat]
        BY <2>3, <2>4
    <2>6. ASSUME NEW k \in 0 .. n PROVE g[k] = IF k = 0 THEN 0 ELSE g[k - 1] + numbers[k]
        <3>1. CASE k = n
            BY <3>1, <2>4
        <3>2. CASE k # n
            <4>1. k \in 0 .. n - 1 /\ (k # 0 => k - 1 \in 0 .. n - 1)
                BY <3>2, <2>4
            <4>2. g[k] = f[k] /\ (k # 0 => g[k - 1] = f[k - 1])
                BY <3>2, <4>1, <2>4
            <4> QED
                BY <4>1, <4>2, <2>3
        <3> QED
            BY <3>1, <3>2
    <2>7. Upto(n, g)
        BY <2>5, <2>6
    <2> QED
        BY <2>1, <2>7
<1>3. PICK f : Upto(Len(numbers), f)
    <2>1. Len(numbers) \in 0 .. Len(numbers)
        BY <1>1
    <2> HIDE DEF Upto
    <2> QED
        BY <1>2, <2>1
<1>4. f = [k \in 0 .. Len(numbers) |-> IF k = 0 THEN 0 ELSE f[k - 1] + numbers[k]]
    BY <1>3
<1> QED
    BY <1>3, <1>4 DEF IsSums

LEMMA SumsAreOne ==
    ASSUME NEW numbers \in Seq(Nat), NEW f, NEW g,
           \A n \in 0 .. Len(numbers) : f[n] = IF n = 0 THEN 0 ELSE f[n - 1] + numbers[n],
           \A n \in 0 .. Len(numbers) : g[n] = IF n = 0 THEN 0 ELSE g[n - 1] + numbers[n]
    PROVE  \A n \in 0 .. Len(numbers) : f[n] = g[n]
<1> DEFINE Differ == {n \in 0 .. Len(numbers) : f[n] # g[n]}
<1> SUFFICES ASSUME Differ # {} PROVE FALSE
    OBVIOUS
<1>1. Differ \in SUBSET Nat /\ Len(numbers) \in Nat
    OBVIOUS
<1>2. PICK n \in Differ : \A m \in Differ : n <= m
    BY <1>1, LeastNumber
<1>3. n # 0
    BY <1>2
<1>4. n - 1 \in 0 .. Len(numbers) /\ ~(n <= n - 1)
    BY <1>1, <1>2, <1>3
<1>5. f[n - 1] = g[n - 1]
    BY <1>2, <1>4
<1> QED
    BY <1>2, <1>3, <1>5

\* The total is the last of any sums.
LEMMA TotalOf ==
    ASSUME NEW numbers \in Seq(Nat), NEW f,
           \A n \in 0 .. Len(numbers) : f[n] = IF n = 0 THEN 0 ELSE f[n - 1] + numbers[n]
    PROVE  Total(numbers) = f[Len(numbers)]
<1> DEFINE chosen == CHOOSE s : IsSums(s, numbers)
<1>1. IsSums(chosen, numbers)
    BY SumsExist
<1>2. Total(numbers) = chosen[Len(numbers)]
    BY DEF Total, IsSums
<1>3. \A n \in 0 .. Len(numbers) :
          chosen[n] = IF n = 0 THEN 0 ELSE chosen[n - 1] + numbers[n]
    <2> HIDE DEF chosen
    <2> QED
        BY <1>1 DEF IsSums
<1> HIDE DEF chosen
<1>4. chosen[Len(numbers)] = f[Len(numbers)]
    BY <1>3, SumsAreOne
<1> QED
    BY <1>2, <1>4

\* The total of nothing, and of one number more.
LEMMA TotalOfNone == Total(<<>>) = 0
<1> DEFINE f == [k \in {0} |-> 0]
<1>1. <<>> \in Seq(Nat) /\ Len(<<>>) = 0 /\ f[0] = 0
    OBVIOUS
<1>2. \A n \in 0 .. Len(<<>>) : n = 0
    BY <1>1
<1> HIDE DEF f
<1>3. Total(<<>>) = f[Len(<<>>)]
    BY <1>1, <1>2, TotalOf
<1> QED
    BY <1>1, <1>3

LEMMA TotalOfOneMore ==
    ASSUME NEW numbers \in Seq(Nat), NEW number \in Nat
    PROVE  /\ Total(numbers) \in Nat
           /\ Total(Append(numbers, number)) = Total(numbers) + number
<1> DEFINE all == Append(numbers, number)
<1>1. PICK f \in [0 .. Len(numbers) -> Nat] : IsSums(f, numbers)
    BY SumsExist
<1>2. \A n \in 0 .. Len(numbers) : f[n] = IF n = 0 THEN 0 ELSE f[n - 1] + numbers[n]
    BY <1>1 DEF IsSums
<1>3. Total(numbers) = f[Len(numbers)]
    BY <1>2, TotalOf
<1> DEFINE g == [n \in 0 .. Len(numbers) + 1 |->
                    IF n = Len(numbers) + 1 THEN f[Len(numbers)] + number ELSE f[n]]
<1>4. /\ all \in Seq(Nat) /\ Len(all) = Len(numbers) + 1 /\ Len(numbers) \in Nat
      /\ \A n \in 1 .. Len(numbers) : all[n] = numbers[n]
      /\ all[Len(numbers) + 1] = number
    OBVIOUS
<1> HIDE DEF all
<1>5. ASSUME NEW n \in 0 .. Len(all) PROVE g[n] = IF n = 0 THEN 0 ELSE g[n - 1] + all[n]
    <2>1. CASE n = Len(numbers) + 1
        BY <2>1, <1>4
    <2>2. CASE n # Len(numbers) + 1
        <3>1. n \in 0 .. Len(numbers) /\ (n # 0 => n - 1 \in 0 .. Len(numbers) /\ n \in 1 .. Len(numbers))
            BY <2>2, <1>4
        <3>2. g[n] = f[n] /\ (n # 0 => g[n - 1] = f[n - 1])
            BY <3>1, <1>4
        <3> QED
            BY <3>1, <3>2, <1>2, <1>4
    <2> QED
        BY <2>1, <2>2
<1>6. Total(all) = g[Len(all)]
    <2> HIDE DEF g
    <2> QED
        BY <1>4, <1>5, TotalOf
<1>7. g[Len(all)] = f[Len(numbers)] + number
    BY <1>4
<1> QED
    BY <1>1, <1>3, <1>4, <1>6, <1>7 DEF all

-----------------------------------------------------------------------------
(* Positions and their order. *)

Rank(at, i) == Cardinality({j \in at : j <= i})

LEMMA RankIsStrict ==
    ASSUME NEW m \in Nat, NEW at \in SUBSET (1 .. m)
    PROVE  /\ IsFiniteSet(at) /\ Cardinality(at) \in Nat
           /\ \A i \in at : Rank(at, i) \in 1 .. Cardinality(at)
           /\ \A i, k \in at : i < k => Rank(at, i) < Rank(at, k)
<1>1. IsFiniteSet(at) /\ Cardinality(at) \in Nat
    <2>1. IsFiniteSet(1 .. m)
        BY FS_Interval
    <2> QED
        BY <2>1, FS_Subset, FS_CardinalityType
<1>2. ASSUME NEW i
      PROVE  /\ IsFiniteSet({j \in at : j <= i}) /\ Rank(at, i) \in Nat
             /\ Rank(at, i) <= Cardinality(at)
    BY <1>1, FS_Subset, FS_CardinalityType DEF Rank
<1>3. ASSUME NEW i \in at PROVE Rank(at, i) # 0
    <2>1. i \in {j \in at : j <= i}
        OBVIOUS
    <2> QED
        BY <1>2, <2>1, FS_EmptySet DEF Rank
<1>4. ASSUME NEW i \in at, NEW k \in at, i < k PROVE Rank(at, i) < Rank(at, k)
    <2> DEFINE low  == {j \in at : j <= i}
               high == {j \in at : j <= k}
    <2>1. low \in SUBSET high /\ k \in high /\ k \notin low
        <3>1. i \in Int /\ k \in Int /\ \A j \in at : j \in Int
            OBVIOUS
        <3>2. \A j \in at : j <= i => j <= k
            BY <1>4, <3>1
        <3>3. ~(k <= i) /\ k <= k
            BY <1>4, <3>1
        <3> QED
            BY <3>2, <3>3
    <2>2. IsFiniteSet(high) /\ IsFiniteSet(low) /\ Rank(at, i) = Cardinality(low)
          /\ Rank(at, k) = Cardinality(high) /\ Cardinality(low) \in Nat /\ Cardinality(high) \in Nat
        BY <1>2 DEF Rank
    <2> HIDE DEF low, high
    <2>3. Cardinality(low) <= Cardinality(high) /\ Cardinality(high) # Cardinality(low)
        BY <2>1, <2>2, FS_Subset
    <2> QED
        BY <2>2, <2>3
<1>5. ASSUME NEW i \in at PROVE Rank(at, i) \in 1 .. Cardinality(at)
    <2>1. Rank(at, i) \in Nat /\ Rank(at, i) <= Cardinality(at) /\ Rank(at, i) # 0
        BY <1>2, <1>3
    <2> QED
        BY <1>1, <2>1
<1> QED
    BY <1>1, <1>4, <1>5

\* Every number up to how many there are is the rank of one position, and Nth finds it.
LEMMA NthIsThere ==
    ASSUME NEW m \in Nat, NEW at \in SUBSET (1 .. m)
    PROVE  /\ \A n \in 1 .. Cardinality(at) : Nth(at, n) \in at /\ Rank(at, Nth(at, n)) = n
           /\ \A i \in at : Nth(at, Rank(at, i)) = i
<1> DEFINE places == 1 .. Cardinality(at)
           rank   == [i \in at |-> Rank(at, i)]
<1>1. /\ IsFiniteSet(at) /\ Cardinality(at) \in Nat
      /\ \A i \in at : Rank(at, i) \in places
      /\ \A i, k \in at : i < k => Rank(at, i) < Rank(at, k)
    BY RankIsStrict
<1>2. \A i, k \in at : i # k => Rank(at, i) # Rank(at, k)
    <2> SUFFICES ASSUME NEW i \in at, NEW k \in at, i # k PROVE Rank(at, i) # Rank(at, k)
        OBVIOUS
    <2>1. i < k \/ k < i
        OBVIOUS
    <2> QED
        BY <1>1, <2>1
<1>3. rank \in Injection(at, places)
    BY <1>1, <1>2 DEF Injection, IsInjective
<1>4. IsFiniteSet(places) /\ Cardinality(places) = Cardinality(at)
    BY <1>1, FS_Interval
<1>5. rank \in Surjection(at, places)
    <2> HIDE DEF rank, places
    <2> QED
        BY <1>3, <1>4, FS_Injection
<1>6. \A n \in places : \E i \in at : Rank(at, i) = n
    BY <1>5 DEF Surjection
<1>7. ASSUME NEW n \in places PROVE Nth(at, n) \in at /\ Rank(at, Nth(at, n)) = n
    BY <1>6 DEF Nth, Rank
<1>8. ASSUME NEW i \in at PROVE Nth(at, Rank(at, i)) = i
    <2>1. Rank(at, i) \in places
        BY <1>1
    <2>2. Nth(at, Rank(at, i)) \in at /\ Rank(at, Nth(at, Rank(at, i))) = Rank(at, i)
        BY <1>7, <2>1
    <2> QED
        BY <1>2, <2>2
<1> QED
    BY <1>7, <1>8

\* A set of positions that is not empty has a last one.
LEMMA LastIsThere ==
    ASSUME NEW m \in Nat, NEW at \in SUBSET (1 .. m), at # {}
    PROVE  Max(at) \in at
<1> DEFINE before == {m - i : i \in at}
<1>1. before \in SUBSET Nat /\ before # {}
    <2>1. \A i \in at : m - i \in Nat
        OBVIOUS
    <2> QED
        BY <2>1
<1>2. PICK n \in before : \A k \in before : n <= k
    BY <1>1, LeastNumber
<1>3. PICK i \in at : n = m - i
    BY <1>2
<1>4. \A k \in at : i >= k
    <2> SUFFICES ASSUME NEW k \in at PROVE i >= k
        OBVIOUS
    <2>1. n <= m - k
        BY <1>2
    <2> QED
        BY <1>3, <2>1
<1> QED
    BY <1>4 DEF Max

-----------------------------------------------------------------------------
(* The partition of the input. *)

BatchRecord == [key : Keys \union {NoKey}, id : BOOLEAN, spelling : STRING]

LEMMA PartsOfTheInput ==
    ASSUME NEW records \in Seq(BatchRecord)
    PROVE  /\ Created(records) \in SUBSET (1 .. Len(records))
           /\ Updated(records) \in SUBSET (1 .. Len(records))
           /\ Repeated(records) \in SUBSET (1 .. Len(records))
           /\ Created(records) \union Updated(records) \union Repeated(records) = 1 .. Len(records)
           /\ Created(records) \intersect Updated(records) = {}
           /\ (Created(records) \union Updated(records)) \intersect Repeated(records) = {}
BY DEF Created, Updated, Repeated, BatchRecord

LEMMA SelectedIs ==
    ASSUME NEW records \in Seq(BatchRecord), NEW at \in SUBSET (1 .. Len(records))
    PROVE  /\ Selected(records, at) \in Seq(BatchRecord)
           /\ Len(Selected(records, at)) = Cardinality(at)
           /\ \A n \in 1 .. Cardinality(at) : Selected(records, at)[n] = records[Nth(at, n)]
<1> Len(records) \in Nat
    OBVIOUS
<1>1. Cardinality(at) \in Nat
    BY RankIsStrict
<1>2. \A n \in 1 .. Cardinality(at) : Nth(at, n) \in at
    BY NthIsThere
<1>3. \A n \in 1 .. Cardinality(at) : records[Nth(at, n)] \in BatchRecord
    <2>1. \A i \in at : records[i] \in BatchRecord
        OBVIOUS
    <2> QED
        BY <1>2, <2>1
<1> QED
    BY <1>1, <1>3 DEF Selected

\* Every record of the input is created, updated or skipped.
LEMMA PartsAddUp ==
    ASSUME NEW records \in Seq(BatchRecord)
    PROVE  /\ Creates(records) \in Seq(BatchRecord) /\ Updates(records) \in Seq(BatchRecord)
           /\ Skipped(records) \in Nat
           /\ Len(Creates(records)) + Len(Updates(records)) + Skipped(records) = Len(records)
<1> DEFINE c == Created(records)
           u == Updated(records)
           r == Repeated(records)
<1>1. /\ c \in SUBSET (1 .. Len(records)) /\ u \in SUBSET (1 .. Len(records))
      /\ r \in SUBSET (1 .. Len(records)) /\ (c \union u) \union r = 1 .. Len(records)
      /\ c \intersect u = {} /\ (c \union u) \intersect r = {}
    BY PartsOfTheInput
<1>2. /\ Creates(records) \in Seq(BatchRecord) /\ Len(Creates(records)) = Cardinality(c)
      /\ Updates(records) \in Seq(BatchRecord) /\ Len(Updates(records)) = Cardinality(u)
      /\ Skipped(records) = Cardinality(r)
    BY <1>1, SelectedIs DEF Creates, Updates, Skipped
<1> HIDE DEF c, u, r
<1>3. /\ IsFiniteSet(c) /\ IsFiniteSet(u) /\ IsFiniteSet(r)
      /\ Cardinality(c) \in Nat /\ Cardinality(u) \in Nat /\ Cardinality(r) \in Nat
    <2>1. Len(records) \in Nat
        OBVIOUS
    <2> QED
        BY <1>1, <2>1, RankIsStrict
<1>4. Cardinality(c \intersect u) = 0 /\ Cardinality((c \union u) \intersect r) = 0
    <2>1. Cardinality({}) = 0
        BY FS_EmptySet
    <2> QED
        BY <1>1, <2>1
<1>5. IsFiniteSet(c \union u) /\ Cardinality(c \union u) = Cardinality(c) + Cardinality(u)
    <2>1. /\ IsFiniteSet(c \union u)
          /\ Cardinality(c \union u) = Cardinality(c) + Cardinality(u) - Cardinality(c \intersect u)
        BY <1>3, FS_Union
    <2> QED
        BY <1>3, <1>4, <2>1
<1>6. Cardinality((c \union u) \union r) = Cardinality(c \union u) + Cardinality(r)
    <2>1. Cardinality((c \union u) \union r) =
              Cardinality(c \union u) + Cardinality(r) - Cardinality((c \union u) \intersect r)
        BY <1>3, <1>5, FS_Union
    <2> QED
        BY <1>3, <1>4, <1>5, <2>1
<1>7. Cardinality(1 .. Len(records)) = Len(records)
    <2>1. Len(records) \in Nat
        OBVIOUS
    <2>2. Cardinality(1 .. Len(records)) =
              IF 1 > Len(records) THEN 0 ELSE Len(records) - 1 + 1
        BY <2>1, FS_Interval
    <2> QED
        BY <2>1, <2>2
<1> QED
    BY <1>1, <1>2, <1>3, <1>5, <1>6, <1>7

\* The inputs of a batch in the order they are sent.
Ordered(tool, records) ==
    IF tool = Upsert THEN Creates(records) \o Updates(records) ELSE records

\* None of the inputs of an upsert has the key of another.
LEMMA KeysAreSentOnce ==
    ASSUME NEW records \in Seq(BatchRecord),
           NEW i \in 1 .. Len(Ordered(Upsert, records)), NEW j \in 1 .. Len(Ordered(Upsert, records)),
           i # j, Ordered(Upsert, records)[i].key # NoKey
    PROVE  Ordered(Upsert, records)[i].key # Ordered(Upsert, records)[j].key
<1> DEFINE c   == Created(records)
           u   == Updated(records)
           all == Ordered(Upsert, records)
           from(n) == IF n <= Cardinality(c) THEN Nth(c, n) ELSE Nth(u, n - Cardinality(c))
<1>1. /\ c \in SUBSET (1 .. Len(records)) /\ u \in SUBSET (1 .. Len(records))
      /\ c \intersect u = {} /\ (c \union u) \intersect Repeated(records) = {}
    BY PartsOfTheInput
<1>2. /\ Creates(records) \in Seq(BatchRecord) /\ Len(Creates(records)) = Cardinality(c)
      /\ \A n \in 1 .. Cardinality(c) : Creates(records)[n] = records[Nth(c, n)]
      /\ Updates(records) \in Seq(BatchRecord) /\ Len(Updates(records)) = Cardinality(u)
      /\ \A n \in 1 .. Cardinality(u) : Updates(records)[n] = records[Nth(u, n)]
    BY <1>1, SelectedIs DEF Creates, Updates
<1>3. /\ \A n \in 1 .. Cardinality(c) : Nth(c, n) \in c /\ Rank(c, Nth(c, n)) = n
      /\ \A n \in 1 .. Cardinality(u) : Nth(u, n) \in u /\ Rank(u, Nth(u, n)) = n
      /\ Cardinality(c) \in Nat /\ Cardinality(u) \in Nat
    <2>1. Len(records) \in Nat
        OBVIOUS
    <2> HIDE DEF c, u
    <2> QED
        BY <1>1, <2>1, NthIsThere, RankIsStrict
<1> HIDE DEF c, u
<1>4. /\ Len(all) = Cardinality(c) + Cardinality(u)
      /\ \A n \in 1 .. Len(all) :
            all[n] = IF n <= Cardinality(c) THEN Creates(records)[n]
                     ELSE Updates(records)[n - Cardinality(c)]
    <2>1. all = Creates(records) \o Updates(records)
        BY DEF Ordered
    <2>2. /\ Len(all) = Len(Creates(records)) + Len(Updates(records))
          /\ \A n \in 1 .. Len(Creates(records)) + Len(Updates(records)) :
                all[n] = IF n <= Len(Creates(records)) THEN Creates(records)[n]
                         ELSE Updates(records)[n - Len(Creates(records))]
        <3> HIDE DEF all
        <3> QED
            BY <1>2, <2>1, ConcatProperties
    <2> HIDE DEF all
    <2> QED
        BY <1>2, <2>2
<1>0. i \in 1 .. Len(all) /\ j \in 1 .. Len(all) /\ i # j
    OBVIOUS
<1> HIDE DEF all
<1>5. ASSUME NEW n \in 1 .. Len(all)
      PROVE  from(n) \in c \union u /\ all[n] = records[from(n)]
    <2>1. CASE n <= Cardinality(c)
        BY <2>1, <1>2, <1>3, <1>4
    <2>2. CASE ~(n <= Cardinality(c))
        <3>1. n - Cardinality(c) \in 1 .. Cardinality(u)
            BY <2>2, <1>3, <1>4
        <3>2. all[n] = Updates(records)[n - Cardinality(c)]
            BY <2>2, <1>4
        <3> QED
            BY <2>2, <3>1, <3>2, <1>2, <1>3
    <2> QED
        BY <2>1, <2>2
<1>6. from(i) # from(j)
    <2>1. CASE i <= Cardinality(c) /\ j <= Cardinality(c)
        BY <2>1, <1>0, <1>3, <1>4
    <2>2. CASE ~(i <= Cardinality(c)) /\ ~(j <= Cardinality(c))
        <3>1. /\ i - Cardinality(c) \in 1 .. Cardinality(u) /\ j - Cardinality(c) \in 1 .. Cardinality(u)
              /\ i - Cardinality(c) # j - Cardinality(c)
            BY <2>2, <1>0, <1>3, <1>4
        <3> QED
            BY <2>2, <3>1, <1>3
    <2>3. CASE i <= Cardinality(c) /\ ~(j <= Cardinality(c))
        <3>1. i \in 1 .. Cardinality(c) /\ j - Cardinality(c) \in 1 .. Cardinality(u)
            BY <2>3, <1>0, <1>3, <1>4
        <3> QED
            BY <2>3, <3>1, <1>1, <1>3
    <2>4. CASE ~(i <= Cardinality(c)) /\ j <= Cardinality(c)
        <3>1. j \in 1 .. Cardinality(c) /\ i - Cardinality(c) \in 1 .. Cardinality(u)
            BY <2>4, <1>0, <1>3, <1>4
        <3> QED
            BY <2>4, <3>1, <1>1, <1>3
    <2> QED
        BY <2>1, <2>2, <2>3, <2>4
<1> DEFINE a == from(i)
           b == from(j)
<1>7. /\ a \in 1 .. Len(records) /\ b \in 1 .. Len(records) /\ a # b
      /\ ~Repeats(records, a) /\ ~Repeats(records, b)
      /\ all[i] = records[a] /\ all[j] = records[b]
    <2>1. a \in c \union u /\ b \in c \union u /\ all[i] = records[a] /\ all[j] = records[b]
        BY <1>0, <1>5
    <2> HIDE DEF a, b
    <2>2. a \in 1 .. Len(records) /\ b \in 1 .. Len(records)
        BY <1>1, <2>1
    <2>3. a \notin Repeated(records) /\ b \notin Repeated(records)
        BY <1>1, <2>1
    <2>4. a # b
        BY <1>6 DEF a, b
    <2> QED
        BY <2>1, <2>2, <2>3, <2>4 DEF Repeated
<1> HIDE DEF a, b, all
<1>8. a < b \/ b < a
    BY <1>7
<1>9. CASE records[a].key = records[b].key
    <2>1. CASE a < b
        <3>1. a \in 1 .. b - 1
            BY <2>1, <1>7
        <3> QED
            BY <3>1, <1>7, <1>9 DEF Repeats, SameKey, all
    <2>2. CASE b < a
        <3>1. b \in 1 .. a - 1
            BY <2>2, <1>7
        <3> QED
            BY <3>1, <1>7, <1>9 DEF Repeats, SameKey, all
    <2> QED
        BY <1>8, <2>1, <2>2
<1> QED
    BY <1>7, <1>9 DEF all

-----------------------------------------------------------------------------
(* The chunks. *)

LEMMA Quotient ==
    ASSUME NEW a \in Nat, NEW b \in Nat \ {0}
    PROVE  a \div b \in Nat /\ (a \div b) * b <= a /\ a < (a \div b) * b + b
OBVIOUS

LEMMA Multiples ==
    ASSUME NEW m \in Nat, NEW n \in Nat, NEW b \in Nat, m <= n
    PROVE  m * b \in Nat /\ n * b \in Nat /\ m * b <= n * b /\ (n + 1) * b = n * b + b
OBVIOUS

\* What a piece of a sequence of records is.
LEMMA PieceIs ==
    ASSUME NEW all \in Seq(BatchRecord), NEW x \in 0 .. Len(all), NEW y \in 0 .. Len(all), x <= y
    PROVE  /\ SubSeq(all, x + 1, y) \in Seq(BatchRecord)
           /\ Len(SubSeq(all, x + 1, y)) = y - x
           /\ \A i \in 1 .. y - x : SubSeq(all, x + 1, y)[i] = all[x + i]
<1>1. Len(all) \in Nat /\ x \in Nat /\ y \in Nat /\ x + 1 \in Int /\ y \in Int
    OBVIOUS
<1>2. \A i \in x + 1 .. y : all[i] \in BatchRecord
    <2>1. \A i \in x + 1 .. y : i \in 1 .. Len(all)
        BY <1>1
    <2>2. \A i \in 1 .. Len(all) : all[i] \in BatchRecord
        OBVIOUS
    <2> QED
        BY <2>1, <2>2
<1> DEFINE piece == SubSeq(all, x + 1, y)
<1>3. /\ piece \in Seq(BatchRecord)
      /\ Len(piece) = IF x + 1 <= y THEN y - (x + 1) + 1 ELSE 0
      /\ \A i \in 1 .. y - (x + 1) + 1 : piece[i] = all[x + 1 + i - 1]
    BY <1>1, <1>2, SubSeqProperties
<1> HIDE DEF piece
<1>4. (IF x + 1 <= y THEN y - (x + 1) + 1 ELSE 0) = y - x /\ y - (x + 1) + 1 = y - x
    BY <1>1
<1>5. \A i \in 1 .. y - x : x + 1 + i - 1 = x + i
    BY <1>1
<1> QED
    BY <1>3, <1>4, <1>5 DEF piece

\* A plan cuts the inputs: where each of its chunks ends, from the first input to the last.
Cuts(cut, plan_, all) ==
    /\ cut \in [0 .. Len(plan_) -> 0 .. Len(all)]
    /\ cut[0] = 0 /\ cut[Len(plan_)] = Len(all)
    /\ \A n \in 1 .. Len(plan_) :
          cut[n - 1] <= cut[n] /\ plan_[n] = SubSeq(all, cut[n - 1] + 1, cut[n])

LEMMA ChunksCut ==
    ASSUME NEW inputs \in Seq(BatchRecord)
    PROVE  /\ Chunks(inputs) \in Seq(Seq(BatchRecord))
           /\ \E cut : Cuts(cut, Chunks(inputs), inputs)
<1> DEFINE length == Len(inputs)
           number == (length + ChunkSize - 1) \div ChunkSize
           least(n) == IF n * ChunkSize < length THEN n * ChunkSize ELSE length
           cut    == [n \in 0 .. number |-> least(n)]
<1>1. length \in Nat /\ ChunkSize \in Nat \ {0} /\ length + ChunkSize - 1 \in Nat
    BY BulkAssumption
<1>2. number \in Nat /\ number * ChunkSize <= length + ChunkSize - 1
      /\ length + ChunkSize - 1 < number * ChunkSize + ChunkSize
    <2> HIDE DEF length
    <2> QED
        BY <1>1, Quotient
<1>3. \A n \in Nat : n * ChunkSize \in Nat
    BY <1>1, Multiples
<1>4. \A n \in 0 .. number : least(n) \in 0 .. length
    BY <1>1, <1>3
<1>5. number * ChunkSize \in Nat /\ ~(number * ChunkSize < length)
    <2> HIDE DEF number, length
    <2> QED
        BY <1>1, <1>2, <1>3
<1>6. ASSUME NEW n \in 1 .. number
      PROVE  /\ (n - 1) * ChunkSize \in Nat /\ n * ChunkSize = (n - 1) * ChunkSize + ChunkSize
             /\ (n - 1) * ChunkSize < length
    <2> HIDE DEF number, length
    <2>1. n - 1 \in Nat /\ n \in Nat /\ (n - 1) + 1 = n /\ n <= number
        BY <1>2
    <2>2. n * ChunkSize <= number * ChunkSize /\ n * ChunkSize \in Nat
        BY <1>1, <1>2, <2>1, Multiples
    <2>3. (n - 1) * ChunkSize \in Nat /\ n * ChunkSize = (n - 1) * ChunkSize + ChunkSize
        BY <1>1, <2>1, Multiples
    <2> HIDE DEF number
    <2> QED
        BY <1>1, <1>2, <1>5, <2>2, <2>3
<1>7. Len(Chunks(inputs)) = number /\ \A n \in 1 .. number :
          Chunks(inputs)[n] = SubSeq(inputs, (n - 1) * ChunkSize + 1, least(n))
    <2> DEFINE low(n) == (n - 1) * ChunkSize + 1
    <2>1. Chunks(inputs) = [n \in 1 .. number |-> SubSeq(inputs, low(n), least(n))]
        BY DEF Chunks
    <2> HIDE DEF low, least, number
    <2>2. Len(Chunks(inputs)) = number /\ \A n \in 1 .. number :
              Chunks(inputs)[n] = SubSeq(inputs, low(n), least(n))
        <3>1. DOMAIN Chunks(inputs) = 1 .. number
            BY <2>1
        <3>2. \A n \in 1 .. number : Chunks(inputs)[n] = SubSeq(inputs, low(n), least(n))
            BY <2>1
        <3>3. Len(Chunks(inputs)) = number
            BY <1>2, <2>1, <3>1
        <3> QED
            BY <3>2, <3>3
    <2> QED
        BY <2>2 DEF low
<1> HIDE DEF number, length
<1>8. ASSUME NEW n \in 1 .. number
      PROVE  /\ cut[n - 1] = (n - 1) * ChunkSize /\ cut[n] = least(n) /\ cut[n - 1] <= cut[n]
             /\ Chunks(inputs)[n] = SubSeq(inputs, cut[n - 1] + 1, cut[n])
    <2>1. n - 1 \in 0 .. number /\ n \in 0 .. number
        BY <1>2
    <2>2. least(n - 1) = (n - 1) * ChunkSize /\ least(n - 1) <= least(n)
        BY <1>1, <1>6
    <2>3. cut[n - 1] = least(n - 1) /\ cut[n] = least(n)
        BY <2>1
    <2> QED
        BY <1>7, <2>2, <2>3
<1>9. cut[0] = 0 /\ cut[number] = length
    <2>1. least(0) = 0
        BY <1>1
    <2>2. least(number) = length
        BY <1>5
    <2>3. 0 \in 0 .. number /\ number \in 0 .. number
        BY <1>2
    <2> QED
        BY <2>1, <2>2, <2>3
<1>10. Cuts(cut, Chunks(inputs), inputs)
    <2>1. cut \in [0 .. number -> 0 .. length]
        BY <1>4
    <2> HIDE DEF cut
    <2> QED
        BY <1>7, <1>8, <1>9, <2>1 DEF Cuts, length
<1>11. \A n \in 1 .. number : Chunks(inputs)[n] \in Seq(BatchRecord)
    <2> SUFFICES ASSUME NEW n \in 1 .. number PROVE Chunks(inputs)[n] \in Seq(BatchRecord)
        OBVIOUS
    <2>1. cut[n - 1] \in 0 .. length /\ cut[n] \in 0 .. length
        BY <1>2, <1>4
    <2>2. Chunks(inputs)[n] = SubSeq(inputs, cut[n - 1] + 1, cut[n])
        BY <1>8
    <2> HIDE DEF cut
    <2>3. cut[n - 1] <= cut[n]
        BY <1>8 DEF cut
    <2> QED
        BY <2>1, <2>2, <2>3, PieceIs DEF length
<1>12. Chunks(inputs) \in Seq(Seq(BatchRecord))
    <2>1. Chunks(inputs) = [n \in 1 .. number |-> Chunks(inputs)[n]]
        BY <1>7 DEF Chunks, number, length
    <2> QED
        BY <1>2, <1>11, <2>1
<1> QED
    BY <1>10, <1>12

\* One plan after the other cuts the one input after the other.
LEMMA CutsJoin ==
    ASSUME NEW first \in Seq(BatchRecord), NEW second \in Seq(BatchRecord),
           NEW plan1 \in Seq(Seq(BatchRecord)), NEW plan2 \in Seq(Seq(BatchRecord)),
           NEW cut1, NEW cut2, Cuts(cut1, plan1, first), Cuts(cut2, plan2, second)
    PROVE  \E cut : Cuts(cut, plan1 \o plan2, first \o second)
<1> DEFINE all == first \o second
           both == plan1 \o plan2
           m == Len(plan1)
           k == Len(plan2)
           f == Len(first)
           cut == [n \in 0 .. m + k |-> IF n <= m THEN cut1[n] ELSE f + cut2[n - m]]
<1>1. m \in Nat /\ k \in Nat /\ f \in Nat /\ Len(second) \in Nat
    OBVIOUS
<1>2. /\ Len(both) = m + k
      /\ \A n \in 1 .. m + k : both[n] = IF n <= m THEN plan1[n] ELSE plan2[n - m]
    BY ConcatProperties
<1>3. /\ all \in Seq(BatchRecord) /\ Len(all) = f + Len(second)
      /\ \A n \in 1 .. f + Len(second) : all[n] = IF n <= f THEN first[n] ELSE second[n - f]
    BY ConcatProperties
<1>4. /\ cut1 \in [0 .. m -> 0 .. f] /\ cut1[0] = 0 /\ cut1[m] = f
      /\ \A n \in 1 .. m :
            cut1[n - 1] <= cut1[n] /\ plan1[n] = SubSeq(first, cut1[n - 1] + 1, cut1[n])
    BY DEF Cuts
<1>5. /\ cut2 \in [0 .. k -> 0 .. Len(second)] /\ cut2[0] = 0 /\ cut2[k] = Len(second)
      /\ \A n \in 1 .. k :
            cut2[n - 1] <= cut2[n] /\ plan2[n] = SubSeq(second, cut2[n - 1] + 1, cut2[n])
    BY DEF Cuts
<1> HIDE DEF all, both, m, k, f
<1>6. cut \in [0 .. m + k -> 0 .. f + Len(second)]
    <2> SUFFICES ASSUME NEW n \in 0 .. m + k
                 PROVE  (IF n <= m THEN cut1[n] ELSE f + cut2[n - m]) \in 0 .. f + Len(second)
        OBVIOUS
    <2>1. CASE n <= m
        <3>1. n \in 0 .. m
            BY <1>1, <2>1
        <3> QED
            BY <1>1, <1>4, <2>1, <3>1
    <2>2. CASE ~(n <= m)
        <3> DEFINE x == cut2[n - m]
        <3>1. n - m \in 0 .. k
            BY <1>1, <2>2
        <3>2. x \in 0 .. Len(second)
            BY <1>5, <3>1
        <3> HIDE DEF x
        <3>3. f + x \in 0 .. f + Len(second)
            BY <1>1, <3>2
        <3> QED
            BY <2>2, <3>3 DEF x
    <2> QED
        BY <2>1, <2>2
<1>7. /\ \A n \in 0 .. m : cut[n] = cut1[n]
      /\ \A n \in 0 .. k : cut[m + n] = f + cut2[n]
    <2>1. \A n \in 0 .. m : cut[n] = cut1[n]
        BY <1>1
    <2>2. ASSUME NEW n \in 0 .. k PROVE cut[m + n] = f + cut2[n]
        <3>1. CASE n = 0
            BY <3>1, <2>1, <1>1, <1>4, <1>5
        <3>2. CASE n # 0
            BY <3>2, <1>1
        <3> QED
            BY <3>1, <3>2
    <2> QED
        BY <2>1, <2>2
<1>8. cut[0] = 0 /\ cut[m + k] = f + Len(second)
    BY <1>1, <1>4, <1>5, <1>7
<1> HIDE DEF cut
<1>9. ASSUME NEW n \in 1 .. m + k
      PROVE  cut[n - 1] <= cut[n] /\ both[n] = SubSeq(all, cut[n - 1] + 1, cut[n])
    <2>1. CASE n <= m
        <3>1. n \in 1 .. m /\ n - 1 \in 0 .. m /\ n \in 0 .. m
            BY <1>1, <2>1
        <3> DEFINE x == cut1[n - 1]
                   y == cut1[n]
        <3>2. /\ cut[n - 1] = x /\ cut[n] = y /\ x <= y /\ x \in 0 .. f /\ y \in 0 .. f
              /\ both[n] = SubSeq(first, x + 1, y)
            BY <1>2, <1>4, <1>7, <2>1, <3>1
        <3> HIDE DEF x, y
        <3>3. SubSeq(all, x + 1, y) = SubSeq(first, x + 1, y)
            <4> DEFINE one == SubSeq(all, x + 1, y)
                       two == SubSeq(first, x + 1, y)
            <4>1. x \in 0 .. Len(all) /\ y \in 0 .. Len(all) /\ x \in 0 .. Len(first) /\ y \in 0 .. Len(first)
                BY <1>1, <1>3, <3>2 DEF f
            <4>2. ASSUME NEW i \in 1 .. y - x PROVE all[x + i] = first[x + i]
                <5>1. x + i \in 1 .. f + Len(second) /\ x + i <= f
                    BY <1>1, <3>2
                <5> QED
                    BY <1>3, <5>1
            <4>3. /\ one \in Seq(BatchRecord) /\ Len(one) = y - x
                  /\ \A i \in 1 .. y - x : one[i] = all[x + i]
                BY <1>3, <3>2, <4>1, PieceIs
            <4>4. /\ two \in Seq(BatchRecord) /\ Len(two) = y - x
                  /\ \A i \in 1 .. y - x : two[i] = first[x + i]
                BY <3>2, <4>1, PieceIs
            <4> HIDE DEF one, two
            <4>5. one = two
                BY <4>2, <4>3, <4>4, SeqEqual
            <4> QED
                BY <4>5 DEF one, two
        <3> QED
            BY <3>2, <3>3
    <2>2. CASE ~(n <= m)
        <3> DEFINE i == n - m
        <3>1. i \in 1 .. k /\ i - 1 \in 0 .. k /\ i \in 0 .. k /\ n = m + i /\ n - 1 = m + (i - 1)
            BY <1>1, <2>2
        <3> HIDE DEF i
        <3> DEFINE x == cut2[i - 1]
                   y == cut2[i]
        <3>2. /\ cut[n - 1] = f + x /\ cut[n] = f + y
              /\ x <= y /\ x \in 0 .. Len(second) /\ y \in 0 .. Len(second)
            BY <1>5, <1>7, <3>1
        <3>3. both[n] = SubSeq(second, x + 1, y)
            BY <1>2, <1>5, <2>2, <3>1 DEF i
        <3> HIDE DEF x, y
        <3>4. SubSeq(all, f + x + 1, f + y) = SubSeq(second, x + 1, y)
            <4>1. ASSUME NEW j \in 1 .. y - x PROVE all[f + x + j] = second[x + j]
                <5>1. /\ f + x + j \in 1 .. f + Len(second)
                      /\ ~(f + x + j <= f) /\ (f + x + j) - f = x + j
                    BY <1>1, <3>2
                <5> QED
                    BY <1>3, <5>1
            <4> DEFINE one == SubSeq(all, f + x + 1, f + y)
                       two == SubSeq(second, x + 1, y)
            <4>2. /\ f + x \in 0 .. Len(all) /\ f + y \in 0 .. Len(all) /\ f + x <= f + y
                  /\ (f + y) - (f + x) = y - x
                BY <1>1, <1>3, <3>2
            <4>3. /\ one \in Seq(BatchRecord) /\ Len(one) = y - x
                  /\ \A j \in 1 .. y - x : one[j] = all[f + x + j]
                <5> DEFINE u == f + x
                           v == f + y
                <5>1. u \in 0 .. Len(all) /\ v \in 0 .. Len(all) /\ u <= v /\ v - u = y - x
                    BY <4>2
                <5> HIDE DEF u, v
                <5>2. /\ SubSeq(all, u + 1, v) \in Seq(BatchRecord) /\ Len(SubSeq(all, u + 1, v)) = v - u
                      /\ \A j \in 1 .. v - u : SubSeq(all, u + 1, v)[j] = all[u + j]
                    BY <1>3, <5>1, PieceIs
                <5> QED
                    BY <5>1, <5>2 DEF u, v
            <4>4. /\ two \in Seq(BatchRecord) /\ Len(two) = y - x
                  /\ \A j \in 1 .. y - x : two[j] = second[x + j]
                BY <3>2, PieceIs
            <4> HIDE DEF one, two
            <4>5. one = two
                BY <4>1, <4>3, <4>4, SeqEqual
            <4> QED
                BY <4>5 DEF one, two
        <3> QED
            BY <1>1, <3>2, <3>3, <3>4
    <2> QED
        BY <2>1, <2>2
<1>10. Cuts(cut, both, all)
    BY <1>2, <1>3, <1>6, <1>8, <1>9 DEF Cuts
<1> QED
    BY <1>10 DEF both, all

\* The plan of a batch cuts its inputs.
LEMMA PlanCuts ==
    ASSUME NEW tool, NEW records \in Seq(BatchRecord)
    PROVE  /\ Plan(tool, records) \in Seq(Seq(BatchRecord))
           /\ Ordered(tool, records) \in Seq(BatchRecord)
           /\ \E cut : Cuts(cut, Plan(tool, records), Ordered(tool, records))
<1>1. CASE tool = Upsert
    <2>1. Creates(records) \in Seq(BatchRecord) /\ Updates(records) \in Seq(BatchRecord)
        BY PartsAddUp
    <2>2. /\ Chunks(Creates(records)) \in Seq(Seq(BatchRecord))
          /\ Chunks(Updates(records)) \in Seq(Seq(BatchRecord))
        BY <2>1, ChunksCut
    <2>3. PICK cut1 : Cuts(cut1, Chunks(Creates(records)), Creates(records))
        BY <2>1, ChunksCut
    <2>4. PICK cut2 : Cuts(cut2, Chunks(Updates(records)), Updates(records))
        BY <2>1, ChunksCut
    <2>5. \E cut : Cuts(cut, Chunks(Creates(records)) \o Chunks(Updates(records)),
                            Creates(records) \o Updates(records))
        BY <2>1, <2>2, <2>3, <2>4, CutsJoin
    <2> QED
        BY <1>1, <2>1, <2>2, <2>5, ConcatProperties DEF Plan, Ordered
<1>2. CASE tool # Upsert
    BY <1>2, ChunksCut DEF Plan, Ordered
<1> QED
    BY <1>1, <1>2

-----------------------------------------------------------------------------
(* The invariant of a batch. *)

Values == {Old} \union STRING

BatchState ==
    [tool : {"none", Upsert, Update}, records : Seq(BatchRecord), plan : Seq(Seq(BatchRecord)),
     at : Nat \ {0}, next : {"idle", "send", "record", "report", "finish", "done", "stopped"},
     sent : Seq(BatchRecord), last : [good : Nat, bad : Nat],
     file : Seq([chunk : Nat, result : [good : Nat, bad : Nat]]),
     place : {"none", "in_flight", "completed"}, progress : Nat,
     hub : [Keys -> Values], echo : Seq([key : Keys, value : Values])]

\* The inputs of the first `to` chunks were sent, in their order.
SentUpTo(cut, to) ==
    /\ Cuts(cut, batch.plan, Ordered(batch.tool, batch.records))
    /\ to \in {batch.at - 1, batch.at} /\ to \in 0 .. Len(batch.plan)
    /\ batch.at \in 1 .. Len(batch.plan) + 1
    /\ batch.sent = SubSeq(Ordered(batch.tool, batch.records), 1, cut[to])
    /\ batch.next \in {"idle", "send", "finish", "done"} => to = batch.at - 1
    /\ batch.next \in {"record", "report"} => to = batch.at
    /\ batch.next = "send" => batch.at <= Len(batch.plan)
    /\ batch.next \in {"finish", "done"} => batch.at = Len(batch.plan) + 1
    /\ batch.tool = Upsert => Len(batch.file) \in {batch.at - 1, to}

\* The file has an entry for each chunk that was reported or is to be.
FileIsTrue ==
    /\ \A n \in 1 .. Len(batch.file) :
          /\ batch.file[n].chunk = n
          /\ batch.file[n].result.good + batch.file[n].result.bad = Len(batch.plan[n])
    /\ batch.tool # Upsert =>
          batch.file = <<>> /\ batch.place = "none" /\ batch.next \notin {"record", "report"}
    /\ batch.next \in {"send", "record", "finish", "done"} /\ batch.tool = Upsert =>
          Len(batch.file) = batch.at - 1
    /\ batch.next = "report" => Len(batch.file) = batch.at
    /\ batch.next = "record" => batch.last.good + batch.last.bad = Len(batch.plan[batch.at])
    /\ batch.place = "completed" => batch.next = "done"

\* The last echo of a key says what HubSpot holds for it.
EchoesHold ==
    \A n \in 1 .. Len(batch.echo) :
        (\A m \in 1 .. Len(batch.echo) : batch.echo[m].key = batch.echo[n].key => m <= n)
            => batch.echo[n].value = batch.hub[batch.echo[n].key]

BatchInv ==
    /\ batch \in BatchState
    /\ batch.tool = Update =>
          \A n \in 1 .. Len(batch.records) : batch.records[n].key \in Keys
    /\ \E cut, to : SentUpTo(cut, to)
    /\ FileIsTrue
    /\ EchoesHold

\* With the chunk that is sent next, one chunk more was sent.
LEMMA SentFurther ==
    ASSUME NEW all \in Seq(BatchRecord), NEW plan_ \in Seq(Seq(BatchRecord)),
           NEW cut, Cuts(cut, plan_, all), NEW n \in 1 .. Len(plan_)
    PROVE  /\ cut[n - 1] \in 0 .. Len(all) /\ cut[n] \in 0 .. Len(all)
           /\ cut[n] = cut[n - 1] + Len(plan_[n])
           /\ plan_[n] = SubSeq(all, cut[n - 1] + 1, cut[n]) /\ cut[n - 1] <= cut[n]
           /\ SubSeq(all, 1, cut[n - 1]) \o plan_[n] = SubSeq(all, 1, cut[n])
<1> DEFINE x == cut[n - 1]
           y == cut[n]
<1>1. Len(plan_) \in Nat /\ Len(all) \in Nat
    OBVIOUS
<1>2. n - 1 \in 0 .. Len(plan_) /\ n \in 0 .. Len(plan_)
    BY <1>1
<1>3. x \in 0 .. Len(all) /\ y \in 0 .. Len(all) /\ x <= y /\ plan_[n] = SubSeq(all, x + 1, y)
    BY <1>2 DEF Cuts
<1> HIDE DEF x, y
<1>4. Len(SubSeq(all, x + 1, y)) = y - x
    BY <1>3, PieceIs
<1>5. SubSeq(all, 1, x) \o SubSeq(all, x + 1, y) = SubSeq(all, 1, y)
    <2>1. 1 \in 1 .. Len(all) + 1 /\ x \in 1 - 1 .. Len(all) /\ y \in x .. Len(all)
        BY <1>1, <1>3
    <2> QED
        BY <2>1, ConcatAdjacentSubSeq
<1>6. y = x + Len(plan_[n])
    BY <1>3, <1>4
<1>7. SubSeq(all, 1, x) \o plan_[n] = SubSeq(all, 1, y)
    BY <1>3, <1>5
<1> QED
    BY <1>3, <1>6, <1>7 DEF x, y

\* Any beginning of the inputs has the length it was cut to.
LEMMA SentIs ==
    ASSUME NEW all \in Seq(BatchRecord), NEW y \in 0 .. Len(all)
    PROVE  /\ SubSeq(all, 1, y) \in Seq(BatchRecord) /\ Len(SubSeq(all, 1, y)) = y
           /\ \A i \in 1 .. y : SubSeq(all, 1, y)[i] = all[i]
<1>1. \A i \in 1 .. y : all[i] \in BatchRecord
    OBVIOUS
<1>2. y \in Nat
    OBVIOUS
<1> QED
    BY <1>1, <1>2, SubSeqProperties

-----------------------------------------------------------------------------
(* What the invariant says of the properties. *)

LEMMA OrderedIs ==
    ASSUME BatchInv
    PROVE  /\ batch \in BatchState
           /\ Ordered(batch.tool, batch.records) \in Seq(BatchRecord)
           /\ Len(Ordered(batch.tool, batch.records)) \in Nat
BY PlanCuts DEF BatchInv, BatchState

LEMMA OneInputHolds ==
    ASSUME BatchInv
    PROVE  OneInputPerKey
<1> DEFINE all == Ordered(batch.tool, batch.records)
<1>1. all \in Seq(BatchRecord)
    BY OrderedIs
<1>2. PICK cut, to : SentUpTo(cut, to)
    BY DEF BatchInv
<1> DEFINE y == cut[to]
<1>3. y \in 0 .. Len(all) /\ batch.sent = SubSeq(all, 1, y)
    BY <1>2 DEF SentUpTo, Cuts
<1> HIDE DEF y
<1> SUFFICES ASSUME batch.tool = Upsert, NEW i \in DOMAIN batch.sent, NEW j \in DOMAIN batch.sent,
                    i # j, batch.sent[i].key # NoKey
             PROVE  batch.sent[i].key # batch.sent[j].key
    BY DEF OneInputPerKey
<1>4. i \in 1 .. y /\ j \in 1 .. y /\ batch.sent[i] = all[i] /\ batch.sent[j] = all[j]
    BY <1>1, <1>3, SentIs
<1>5. i \in 1 .. Len(all) /\ j \in 1 .. Len(all)
    BY <1>1, <1>3, <1>4
<1>6. batch.records \in Seq(BatchRecord)
    BY OrderedIs DEF BatchState
<1> QED
    BY <1>4, <1>5, <1>6, KeysAreSentOnce

\* The recorded chunks hold what was cut off for them.
LEMMA RecordedIs ==
    ASSUME BatchInv, NEW cut, NEW to, SentUpTo(cut, to), batch.tool = Upsert
    PROVE  /\ InputsRecorded = cut[Len(batch.file)] /\ InputsAccounted = InputsRecorded
           /\ Len(batch.file) \in 0 .. Len(batch.plan)
<1> DEFINE all  == Ordered(batch.tool, batch.records)
           size == [n \in DOMAIN batch.file |-> Len(batch.plan[n])]
           sum  == [n \in DOMAIN batch.file |-> batch.file[n].result.good + batch.file[n].result.bad]
           k    == Len(batch.file)
<1>1. /\ all \in Seq(BatchRecord) /\ batch.plan \in Seq(Seq(BatchRecord)) /\ k \in Nat
      /\ Len(batch.plan) \in Nat /\ DOMAIN batch.file = 1 .. k /\ Len(all) \in Nat
    BY OrderedIs DEF BatchState
<1>2. k \in 0 .. Len(batch.plan)
    BY <1>1 DEF SentUpTo
<1> HIDE DEF k
<1>3. \A n \in 1 .. k : n \in 1 .. Len(batch.plan) /\ Len(batch.plan[n]) \in Nat
    BY <1>1, <1>2
<1>4. sum = size
    BY <1>1 DEF BatchInv, FileIsTrue, k
<1>5. size \in Seq(Nat) /\ Len(size) = k /\ \A n \in 1 .. k : size[n] = Len(batch.plan[n])
    <2>1. size = [n \in 1 .. k |-> Len(batch.plan[n])]
        BY <1>1
    <2> HIDE DEF size
    <2> QED
        BY <1>1, <1>3, <2>1
<1>6. Cuts(cut, batch.plan, all) /\ cut[0] = 0
    BY DEF SentUpTo, Cuts
<1> HIDE DEF size, all
<1>7. ASSUME NEW n \in 0 .. Len(size)
      PROVE  cut[n] = IF n = 0 THEN 0 ELSE cut[n - 1] + size[n]
    <2>1. CASE n = 0
        BY <2>1, <1>6
    <2>2. CASE n # 0
        <3>1. n \in 1 .. k
            BY <2>2, <1>1, <1>5
        <3>2. n \in 1 .. Len(batch.plan) /\ size[n] = Len(batch.plan[n])
            BY <3>1, <1>3, <1>5
        <3>3. cut[n] = cut[n - 1] + Len(batch.plan[n])
            BY <3>2, <1>1, <1>6, SentFurther
        <3> QED
            BY <2>2, <3>2, <3>3
    <2> QED
        BY <2>1, <2>2
<1>8. Total(size) = cut[k]
    BY <1>5, <1>7, TotalOf
<1> QED
    BY <1>2, <1>4, <1>8 DEF InputsRecorded, InputsAccounted, size, k

LEMMA CheckpointHolds ==
    ASSUME BatchInv
    PROVE  CheckpointIsSafe /\ CheckpointAddsUp
<1> DEFINE all == Ordered(batch.tool, batch.records)
           k   == Len(batch.file)
<1>1. /\ all \in Seq(BatchRecord) /\ batch.plan \in Seq(Seq(BatchRecord)) /\ Len(all) \in Nat
      /\ k \in Nat /\ Len(batch.plan) \in Nat /\ batch.at \in Nat /\ DOMAIN batch.file = 1 .. k
      /\ batch.records \in Seq(BatchRecord) /\ DOMAIN batch.plan = 1 .. Len(batch.plan)
    BY OrderedIs DEF BatchState
<1>2. PICK cut, to : SentUpTo(cut, to)
    BY DEF BatchInv
<1>3. Cuts(cut, batch.plan, all) /\ cut \in [0 .. Len(batch.plan) -> 0 .. Len(all)]
      /\ cut[Len(batch.plan)] = Len(all)
    BY <1>2 DEF SentUpTo, Cuts
<1>4. \A n \in DOMAIN batch.file : batch.file[n].chunk = n
    BY <1>1 DEF BatchInv, FileIsTrue
<1>5. ASSUME batch.tool = Upsert
      PROVE  LET inProgress == IF batch.at \in DOMAIN batch.plan THEN Len(batch.plan[batch.at]) ELSE 0
             IN  Len(batch.sent) \in {InputsRecorded, InputsRecorded + inProgress}
    <2>1. InputsRecorded = cut[k] /\ k \in 0 .. Len(batch.plan)
        BY <1>2, <1>5, RecordedIs
    <2>2. cut[to] \in 0 .. Len(all) /\ Len(batch.sent) = cut[to]
        <3>1. cut[to] \in 0 .. Len(all)
            BY <1>2, <1>3 DEF SentUpTo
        <3> QED
            BY <1>1, <1>2, <3>1, SentIs DEF SentUpTo
    <2>3. k = to \/ (k = batch.at - 1 /\ to = batch.at)
        BY <1>2, <1>5 DEF SentUpTo
    <2>4. CASE k = to
        BY <2>1, <2>2, <2>4
    <2>5. CASE k = batch.at - 1 /\ to = batch.at
        <3>1. batch.at \in 1 .. Len(batch.plan)
            BY <1>1, <1>2, <2>1, <2>5 DEF SentUpTo
        <3>2. cut[batch.at] = cut[batch.at - 1] + Len(batch.plan[batch.at])
            <4>1. all \in Seq(BatchRecord) /\ batch.plan \in Seq(Seq(BatchRecord))
                BY <1>1
            <4>2. Cuts(cut, batch.plan, all)
                BY <1>3
            <4> HIDE DEF all
            <4> QED
                BY <3>1, <4>1, <4>2, SentFurther
        <3> QED
            BY <1>1, <2>1, <2>2, <2>5, <3>1, <3>2
    <2> QED
        BY <2>3, <2>4, <2>5
<1>6. CheckpointIsSafe
    BY <1>4, <1>5 DEF CheckpointIsSafe
<1>7. ASSUME batch.place = "completed"
      PROVE  InputsAccounted + Skipped(batch.records) = Len(batch.records)
    <2>1. batch.tool = Upsert /\ batch.next = "done"
        BY <1>7 DEF BatchInv, FileIsTrue
    <2>2. k = Len(batch.plan)
        <3>1. batch.at = Len(batch.plan) + 1
            BY <1>2, <2>1 DEF SentUpTo
        <3>2. k = batch.at - 1
            BY <2>1 DEF BatchInv, FileIsTrue
        <3> QED
            BY <1>1, <3>1, <3>2
    <2>3. InputsAccounted = Len(all)
        BY <1>2, <1>3, <2>1, <2>2, RecordedIs
    <2>4. /\ Creates(batch.records) \in Seq(BatchRecord) /\ Updates(batch.records) \in Seq(BatchRecord)
          /\ Len(Creates(batch.records)) + Len(Updates(batch.records)) + Skipped(batch.records)
                = Len(batch.records)
        BY <1>1, PartsAddUp
    <2>5. Len(all) = Len(Creates(batch.records)) + Len(Updates(batch.records))
        BY <2>1, <2>4, ConcatProperties DEF Ordered
    <2> QED
        BY <2>3, <2>4, <2>5
<1> QED
    BY <1>6, <1>7 DEF CheckpointAddsUp

LEMMA VerifiedHolds ==
    ASSUME BatchInv
    PROVE  VerifiedIsTrue
<1> SUFFICES ASSUME NEW n \in DOMAIN batch.records, Verified(batch.records[n])
             PROVE  batch.hub[batch.records[n].key] = batch.records[n].spelling
    BY DEF VerifiedIsTrue
<1> DEFINE record == batch.records[n]
<1>1. PICK m \in EchoesOf(record.key) :
          /\ \A other \in EchoesOf(record.key) : other <= m
          /\ batch.echo[m].value = record.spelling
    BY DEF Verified
<1>2. DOMAIN batch.echo = 1 .. Len(batch.echo)
    BY OrderedIs DEF BatchState
<1>3. m \in 1 .. Len(batch.echo) /\ batch.echo[m].key = record.key
    BY <1>1, <1>2 DEF EchoesOf
<1>4. \A other \in 1 .. Len(batch.echo) : batch.echo[other].key = batch.echo[m].key => other <= m
    BY <1>1, <1>2, <1>3 DEF EchoesOf
<1> QED
    BY <1>1, <1>3, <1>4 DEF BatchInv, EchoesHold

LEMMA BatchInvIsEnough ==
    ASSUME BatchInv
    PROVE  BatchAddsUp
BY OneInputHolds, CheckpointHolds, VerifiedHolds DEF BatchAddsUp

-----------------------------------------------------------------------------
(* The steps of a batch keep the invariant. *)

LEMMA IdleHolds ==
    ASSUME batch = Idle
    PROVE  BatchInv
<1> DEFINE none == <<>>
           cut  == [n \in {0} |-> 0]
<1>1. batch \in BatchState
    <2>1. [key \in Keys |-> Old] \in [Keys -> Values]
        BY DEF Values
    <2> QED
        BY <2>1 DEF Idle, BatchState
<1>2. batch.tool = "none" /\ batch.records = none /\ batch.plan = none /\ batch.at = 1
      /\ batch.next = "idle" /\ batch.sent = none /\ batch.file = none /\ batch.place = "none"
      /\ batch.echo = none
    BY DEF Idle
<1>3. Ordered(batch.tool, batch.records) = none
    BY <1>2 DEF Ordered, Upsert
<1>4. Len(none) = 0 /\ 0 .. 0 = {0} /\ \A x : x \notin 1 .. 0
    OBVIOUS
<1>5. Cuts(cut, none, none)
    BY <1>4 DEF Cuts
<1>6. SubSeq(none, 1, cut[0]) = none
    OBVIOUS
<1>7. SentUpTo(cut, 0)
    <2> HIDE DEF cut, none
    <2> QED
        BY <1>2, <1>3, <1>4, <1>5, <1>6 DEF SentUpTo, Upsert
<1>8. FileIsTrue /\ EchoesHold
    BY <1>2, <1>4 DEF FileIsTrue, EchoesHold, Upsert
<1> QED
    BY <1>1, <1>2, <1>7, <1>8 DEF BatchInv, Update

LEMMA StartHolds ==
    ASSUME NEW tool \in {Upsert, Update}, NEW records \in Seq(BatchRecord), Start(tool, records),
           tool = Update => \A n \in 1 .. Len(records) : records[n].key \in Keys
    PROVE  BatchInv'
<1> DEFINE all  == Ordered(tool, records)
           plan_ == Plan(tool, records)
<1>1. /\ plan_ \in Seq(Seq(BatchRecord)) /\ all \in Seq(BatchRecord)
      /\ \E cut : Cuts(cut, plan_, all)
    BY PlanCuts
<1>2. PICK cut : Cuts(cut, plan_, all)
    BY <1>1
<1>3. cut[0] = 0
    BY <1>2 DEF Cuts
<1>4. batch' = [Idle EXCEPT !.tool = tool, !.records = records, !.plan = plan_,
                            !.next = IF plan_ = <<>> THEN "finish" ELSE "send"]
    BY DEF Start
<1> DEFINE next_ == IF plan_ = <<>> THEN "finish" ELSE "send"
<1>0. next_ \in {"finish", "send"} /\ (next_ = "finish" <=> plan_ = <<>>)
    OBVIOUS
<1> HIDE DEF all, plan_, next_
<1>5. /\ batch'.tool = tool /\ batch'.records = records /\ batch'.plan = plan_ /\ batch'.at = 1
      /\ batch'.next = next_
      /\ batch'.sent = <<>> /\ batch'.file = <<>> /\ batch'.place = "none" /\ batch'.echo = <<>>
    BY <1>4 DEF Idle, next_
<1>6. batch' \in BatchState
    <2>1. [key \in Keys |-> Old] \in [Keys -> Values]
        BY DEF Values
    <2>2. batch' = [Idle EXCEPT !.tool = tool, !.records = records, !.plan = plan_, !.next = next_]
        BY <1>4 DEF next_
    <2>3. Idle \in BatchState
        BY <2>1 DEF Idle, BatchState
    <2> QED
        BY <1>0, <1>1, <2>2, <2>3 DEF BatchState
<1>7. Len(<<>>) = 0 /\ SubSeq(all, 1, 0) = <<>> /\ Len(plan_) \in Nat
      /\ (plan_ = <<>> <=> Len(plan_) = 0)
    <2>1. SubSeq(all, 1, 0) = <<>>
        BY SubSeqEmpty
    <2> QED
        BY <1>1, <2>1
<1>8. SentUpTo(cut, 0)'
    BY <1>0, <1>2, <1>3, <1>5, <1>7 DEF SentUpTo, all
<1>9. FileIsTrue' /\ EchoesHold'
    BY <1>0, <1>5, <1>7 DEF FileIsTrue, EchoesHold
<1> QED
    BY <1>5, <1>6, <1>8, <1>9 DEF BatchInv

LEMMA SendChunkKeeps ==
    ASSUME BatchInv, SendChunk
    PROVE  BatchInv'
<1> DEFINE all   == Ordered(batch.tool, batch.records)
           chunk == batch.plan[batch.at]
<1>1. /\ batch \in BatchState /\ all \in Seq(BatchRecord) /\ Len(batch.plan) \in Nat
      /\ batch.plan \in Seq(Seq(BatchRecord)) /\ batch.at \in Nat /\ batch.sent \in Seq(BatchRecord)
      /\ batch.next = "send" /\ batch.tool = Upsert
    BY OrderedIs DEF BatchState, SendChunk
<1>2. PICK cut, to : SentUpTo(cut, to)
    BY DEF BatchInv
<1>3. /\ Cuts(cut, batch.plan, all) /\ to = batch.at - 1 /\ batch.at \in 1 .. Len(batch.plan)
      /\ batch.sent = SubSeq(all, 1, cut[batch.at - 1])
    BY <1>1, <1>2 DEF SentUpTo
<1>4. chunk \in Seq(BatchRecord) /\ Len(chunk) \in Nat
    BY <1>1, <1>3
<1>5. batch.sent \o chunk = SubSeq(all, 1, cut[batch.at])
    <2>1. all \in Seq(BatchRecord) /\ batch.plan \in Seq(Seq(BatchRecord))
        BY <1>1
    <2>2. Cuts(cut, batch.plan, all) /\ batch.at \in 1 .. Len(batch.plan)
        BY <1>3
    <2> HIDE DEF all
    <2>3. SubSeq(all, 1, cut[batch.at - 1]) \o batch.plan[batch.at] = SubSeq(all, 1, cut[batch.at])
        BY <2>1, <2>2, SentFurther
    <2> QED
        BY <1>3, <2>3
<1>6. PICK result \in Answered(Len(chunk)) \union {Refused(Len(chunk))} :
          batch' = [batch EXCEPT !.sent = @ \o chunk, !.last = result, !.next = "record"]
    BY DEF SendChunk
<1>7. result \in [good : Nat, bad : Nat] /\ result.good + result.bad = Len(chunk)
    <2> HIDE DEF chunk
    <2> QED
        BY <1>4 DEF Answered, Refused
<1> DEFINE further == batch.sent \o chunk
<1>8. further \in Seq(BatchRecord)
    BY <1>1, <1>4, ConcatProperties
<1> HIDE DEF all, chunk, further
<1>9. batch' = [batch EXCEPT !.sent = further, !.last = result, !.next = "record"]
    BY <1>6 DEF further
<1>10. batch' \in BatchState
    BY <1>1, <1>7, <1>8, <1>9 DEF BatchState
<1>11. /\ batch'.tool = batch.tool /\ batch'.records = batch.records /\ batch'.plan = batch.plan
       /\ batch'.at = batch.at /\ batch'.next = "record" /\ batch'.sent = further
       /\ batch'.last = result /\ batch'.file = batch.file /\ batch'.place = batch.place
       /\ batch'.echo = batch.echo /\ batch'.hub = batch.hub
    BY <1>1, <1>9 DEF BatchState
<1>12. Len(batch.file) = batch.at - 1
    BY <1>1 DEF BatchInv, FileIsTrue
<1>13. SentUpTo(cut, batch.at)'
    BY <1>1, <1>3, <1>5, <1>11, <1>12 DEF SentUpTo, all, further
<1>14. FileIsTrue'
    BY <1>1, <1>7, <1>11, <1>12 DEF BatchInv, FileIsTrue, chunk
<1>15. EchoesHold'
    BY <1>11 DEF BatchInv, EchoesHold
<1> QED
    BY <1>1, <1>10, <1>11, <1>13, <1>14, <1>15 DEF BatchInv, Upsert, Update

LEMMA RecordChunkKeeps ==
    ASSUME BatchInv, RecordChunk
    PROVE  BatchInv'
<1> DEFINE entry == [chunk |-> batch.at, result |-> batch.last]
           file_  == Append(batch.file, entry)
<1>1. /\ batch \in BatchState /\ Len(batch.plan) \in Nat /\ batch.at \in Nat /\ batch.next = "record"
      /\ batch.file \in Seq([chunk : Nat, result : [good : Nat, bad : Nat]])
      /\ entry \in [chunk : Nat, result : [good : Nat, bad : Nat]]
    BY OrderedIs DEF BatchState, RecordChunk
<1>2. PICK cut, to : SentUpTo(cut, to)
    BY DEF BatchInv
<1>3. to = batch.at /\ batch.at \in 1 .. Len(batch.plan)
    BY <1>1, <1>2 DEF SentUpTo
<1>4. batch.tool = Upsert /\ Len(batch.file) = batch.at - 1
      /\ batch.last.good + batch.last.bad = Len(batch.plan[batch.at])
    BY <1>1 DEF BatchInv, FileIsTrue
<1>5. /\ file_ \in Seq([chunk : Nat, result : [good : Nat, bad : Nat]])
      /\ Len(file_) = Len(batch.file) + 1
      /\ \A n \in 1 .. Len(batch.file) : file_[n] = batch.file[n]
      /\ file_[Len(batch.file) + 1] = entry
    BY <1>1, AppendProperties
<1>6. batch' = [batch EXCEPT !.file = file_, !.place = "in_flight", !.next = "report"]
    BY DEF RecordChunk, ChunkNumber
<1>7. entry.chunk = batch.at /\ entry.result = batch.last
    OBVIOUS
<1> HIDE DEF entry, file_
<1>8. batch' \in BatchState
    BY <1>1, <1>5, <1>6 DEF BatchState
<1>9. /\ batch'.tool = batch.tool /\ batch'.records = batch.records /\ batch'.plan = batch.plan
      /\ batch'.at = batch.at /\ batch'.next = "report" /\ batch'.sent = batch.sent
      /\ batch'.file = file_ /\ batch'.place = "in_flight"
      /\ batch'.echo = batch.echo /\ batch'.hub = batch.hub
    BY <1>1, <1>6 DEF BatchState
<1>10. Len(file_) = batch.at
    BY <1>1, <1>4, <1>5
<1>11. SentUpTo(cut, to)'
    BY <1>1, <1>2, <1>3, <1>9, <1>10 DEF SentUpTo
<1>12. FileIsTrue'
    <2>1. ASSUME NEW n \in 1 .. Len(file_)
          PROVE  file_[n].chunk = n /\ file_[n].result.good + file_[n].result.bad = Len(batch.plan[n])
        <3>1. CASE n = batch.at
            <4>1. file_[n] = entry
                BY <3>1, <1>1, <1>4, <1>5
            <4> QED
                BY <3>1, <4>1, <1>4, <1>7
        <3>2. CASE n # batch.at
            <4>0. n \in 1 .. batch.at - 1
                BY <3>2, <1>1, <1>10
            <4>1. n \in 1 .. Len(batch.file) /\ file_[n] = batch.file[n]
                BY <4>0, <1>4, <1>5
            <4> QED
                BY <4>1 DEF BatchInv, FileIsTrue
        <3> QED
            BY <3>1, <3>2
    <2> QED
        BY <2>1, <1>4, <1>9, <1>10 DEF FileIsTrue
<1>13. EchoesHold'
    BY <1>9 DEF BatchInv, EchoesHold
<1> QED
    BY <1>8, <1>9, <1>11, <1>12, <1>13 DEF BatchInv

LEMMA ReportChunkKeeps ==
    ASSUME BatchInv, ReportChunk
    PROVE  BatchInv'
<1>1. /\ batch \in BatchState /\ Len(batch.plan) \in Nat /\ batch.at \in Nat /\ batch.next = "report"
      /\ batch.progress \in Nat
    BY OrderedIs DEF BatchState, ReportChunk
<1>2. PICK cut, to : SentUpTo(cut, to)
    BY DEF BatchInv
<1>3. to = batch.at /\ batch.at \in 1 .. Len(batch.plan)
    BY <1>1, <1>2 DEF SentUpTo
<1>4. batch.tool = Upsert /\ Len(batch.file) = batch.at /\ batch.place # "completed"
    BY <1>1 DEF BatchInv, FileIsTrue
<1> DEFINE next_ == IF batch.at < Len(batch.plan) THEN "send" ELSE "finish"
<1>5. batch' = [batch EXCEPT !.progress = batch.at, !.at = batch.at + 1, !.next = next_]
    BY DEF ReportChunk, ChunkNumber, More
<1>6. /\ next_ \in {"send", "finish"} /\ (next_ = "send" <=> batch.at < Len(batch.plan))
      /\ batch.at + 1 \in Nat \ {0} /\ batch.at + 1 \in 1 .. Len(batch.plan) + 1
      /\ (batch.at + 1) - 1 = batch.at
      /\ batch.at < Len(batch.plan) \/ batch.at = Len(batch.plan)
    BY <1>1, <1>3
<1> HIDE DEF next_
<1>7. batch' \in BatchState
    BY <1>1, <1>5, <1>6 DEF BatchState
<1>8. /\ batch'.tool = batch.tool /\ batch'.records = batch.records /\ batch'.plan = batch.plan
      /\ batch'.at = batch.at + 1 /\ batch'.next = next_ /\ batch'.sent = batch.sent
      /\ batch'.file = batch.file /\ batch'.place = batch.place
      /\ batch'.echo = batch.echo /\ batch'.hub = batch.hub
    BY <1>1, <1>5 DEF BatchState
<1>9. SentUpTo(cut, to)'
    <2>1. /\ Cuts(cut, batch.plan, Ordered(batch.tool, batch.records))
          /\ batch.sent = SubSeq(Ordered(batch.tool, batch.records), 1, cut[to])
        BY <1>2 DEF SentUpTo
    <2>2. to \in {(batch.at + 1) - 1, batch.at + 1} /\ to \in 0 .. Len(batch.plan)
        BY <1>1, <1>3
    <2>3. next_ = "send" => batch.at + 1 <= Len(batch.plan)
        BY <1>1, <1>6
    <2>4. next_ = "finish" => batch.at + 1 = Len(batch.plan) + 1
        BY <1>1, <1>6
    <2> QED
        BY <1>3, <1>4, <1>6, <1>8, <2>1, <2>2, <2>3, <2>4 DEF SentUpTo
<1>10. FileIsTrue'
    BY <1>1, <1>4, <1>6, <1>8 DEF BatchInv, FileIsTrue
<1>11. EchoesHold'
    BY <1>8 DEF BatchInv, EchoesHold
<1> QED
    BY <1>7, <1>8, <1>9, <1>10, <1>11 DEF BatchInv

LEMMA FinishBatchKeeps ==
    ASSUME BatchInv, FinishBatch
    PROVE  BatchInv'
<1>1. batch \in BatchState /\ batch.next = "finish"
    BY DEF BatchInv, FinishBatch
<1>2. PICK cut, to : SentUpTo(cut, to)
    BY DEF BatchInv
<1> DEFINE place_ == IF batch.place = "in_flight" THEN "completed" ELSE batch.place
<1>3. batch' = [batch EXCEPT !.next = "done", !.place = place_, !.progress = 0]
    BY DEF FinishBatch
<1>4. place_ \in {"none", "in_flight", "completed"} /\ (batch.place = "none" => place_ = "none")
    BY <1>1 DEF BatchState
<1> HIDE DEF place_
<1>5. batch' \in BatchState
    BY <1>1, <1>3, <1>4 DEF BatchState
<1>6. /\ batch'.tool = batch.tool /\ batch'.records = batch.records /\ batch'.plan = batch.plan
      /\ batch'.at = batch.at /\ batch'.next = "done" /\ batch'.sent = batch.sent
      /\ batch'.file = batch.file /\ batch'.place = place_
      /\ batch'.echo = batch.echo /\ batch'.hub = batch.hub
    BY <1>1, <1>3 DEF BatchState
<1>7. SentUpTo(cut, to)'
    BY <1>1, <1>2, <1>6 DEF SentUpTo
<1>8. FileIsTrue'
    BY <1>1, <1>4, <1>6 DEF BatchInv, FileIsTrue
<1>9. EchoesHold'
    BY <1>6 DEF BatchInv, EchoesHold
<1> QED
    BY <1>5, <1>6, <1>7, <1>8, <1>9 DEF BatchInv

LEMMA StopBatchKeeps ==
    ASSUME BatchInv, StopBatch
    PROVE  BatchInv'
<1> DEFINE all   == Ordered(batch.tool, batch.records)
           chunk == batch.plan[batch.at]
<1>1. /\ batch \in BatchState /\ all \in Seq(BatchRecord) /\ Len(batch.plan) \in Nat
      /\ batch.plan \in Seq(Seq(BatchRecord)) /\ batch.at \in Nat /\ batch.sent \in Seq(BatchRecord)
      /\ batch.next \in {"send", "record", "report", "finish"}
    BY OrderedIs DEF BatchState, StopBatch
<1>2. PICK cut, to : SentUpTo(cut, to)
    BY DEF BatchInv
<1>3. batch.place # "completed"
    BY <1>1 DEF BatchInv, FileIsTrue
<1>4. CASE batch' = [batch EXCEPT !.next = "stopped"]
    <2>1. batch' \in BatchState
        BY <1>1, <1>4 DEF BatchState
    <2>2. /\ batch'.tool = batch.tool /\ batch'.records = batch.records /\ batch'.plan = batch.plan
          /\ batch'.at = batch.at /\ batch'.next = "stopped" /\ batch'.sent = batch.sent
          /\ batch'.file = batch.file /\ batch'.place = batch.place
          /\ batch'.echo = batch.echo /\ batch'.hub = batch.hub
        BY <1>1, <1>4 DEF BatchState
    <2>3. SentUpTo(cut, to)'
        BY <1>2, <2>2 DEF SentUpTo
    <2>4. FileIsTrue'
        BY <1>3, <2>2 DEF BatchInv, FileIsTrue
    <2>5. EchoesHold'
        BY <2>2 DEF BatchInv, EchoesHold
    <2> QED
        BY <2>1, <2>2, <2>3, <2>4, <2>5 DEF BatchInv
<1>5. CASE batch.next = "send" /\ batch' = [batch EXCEPT !.next = "stopped", !.sent = @ \o chunk]
    <2>1. /\ Cuts(cut, batch.plan, all) /\ to = batch.at - 1 /\ batch.at \in 1 .. Len(batch.plan)
          /\ batch.sent = SubSeq(all, 1, cut[batch.at - 1])
        BY <1>1, <1>2, <1>5 DEF SentUpTo
    <2>2. chunk \in Seq(BatchRecord)
        BY <1>1, <2>1
    <2>3. batch.sent \o chunk = SubSeq(all, 1, cut[batch.at])
        <3>1. all \in Seq(BatchRecord) /\ batch.plan \in Seq(Seq(BatchRecord))
            BY <1>1
        <3>2. Cuts(cut, batch.plan, all) /\ batch.at \in 1 .. Len(batch.plan)
            BY <2>1
        <3> HIDE DEF all
        <3>3. SubSeq(all, 1, cut[batch.at - 1]) \o batch.plan[batch.at] = SubSeq(all, 1, cut[batch.at])
            BY <3>1, <3>2, SentFurther
        <3> QED
            BY <2>1, <3>3
    <2> DEFINE further == batch.sent \o chunk
    <2>4. further \in Seq(BatchRecord)
        BY <1>1, <2>2, ConcatProperties
    <2> HIDE DEF all, chunk, further
    <2>5. batch' = [batch EXCEPT !.next = "stopped", !.sent = further]
        BY <1>5 DEF further
    <2>6. batch' \in BatchState
        BY <1>1, <2>4, <2>5 DEF BatchState
    <2>7. /\ batch'.tool = batch.tool /\ batch'.records = batch.records /\ batch'.plan = batch.plan
          /\ batch'.at = batch.at /\ batch'.next = "stopped" /\ batch'.sent = further
          /\ batch'.file = batch.file /\ batch'.place = batch.place
          /\ batch'.echo = batch.echo /\ batch'.hub = batch.hub
        BY <1>1, <2>5 DEF BatchState
    <2>8. batch.tool = Upsert => Len(batch.file) = batch.at - 1
        BY <1>5 DEF BatchInv, FileIsTrue
    <2>9. SentUpTo(cut, batch.at)'
        BY <1>1, <2>1, <2>3, <2>7, <2>8, <1>2 DEF SentUpTo, all, further
    <2>10. FileIsTrue'
        BY <1>3, <2>7 DEF BatchInv, FileIsTrue
    <2>11. EchoesHold'
        BY <2>7 DEF BatchInv, EchoesHold
    <2> QED
        BY <2>6, <2>7, <2>9, <2>10, <2>11 DEF BatchInv
<1> QED
    BY <1>4, <1>5 DEF StopBatch

\* What a key holds after a chunk is a value.
LEMMA HoldsIsValue ==
    ASSUME NEW chunk \in Seq(BatchRecord), NEW applied \in SUBSET DOMAIN chunk, NEW i,
           NEW key \in Keys, batch.hub \in [Keys -> Values]
    PROVE  HoldsAfter(chunk, applied, i, key) \in Values
<1> DEFINE written == {n \in applied : n <= i /\ chunk[n].key = key}
<1>1. HoldsAfter(chunk, applied, i, key) =
          IF written = {} THEN batch.hub[key] ELSE chunk[Max(written)].spelling
    BY DEF HoldsAfter
<1>2. written \in SUBSET (1 .. Len(chunk)) /\ Len(chunk) \in Nat
    OBVIOUS
<1> HIDE DEF written
<1>3. CASE written = {}
    BY <1>1, <1>3
<1>4. CASE written # {}
    <2>1. Max(written) \in 1 .. Len(chunk)
        BY <1>2, <1>4, LastIsThere
    <2>2. chunk[Max(written)] \in BatchRecord
        BY <2>1
    <2> QED
        BY <1>1, <1>4, <2>2 DEF BatchRecord, Values
<1> QED
    BY <1>3, <1>4

LEMMA EchoesAre ==
    ASSUME NEW chunk \in Seq(BatchRecord), NEW came \in SUBSET DOMAIN chunk,
           NEW applied \in SUBSET came, batch.hub \in [Keys -> Values],
           \A i \in 1 .. Len(chunk) : chunk[i].key \in Keys
    PROVE  /\ Echoes(chunk, came, applied) \in Seq([key : Keys, value : Values])
           /\ Len(Echoes(chunk, came, applied)) = Cardinality(came) /\ Cardinality(came) \in Nat
           /\ \A r \in 1 .. Cardinality(came) :
                 Echoes(chunk, came, applied)[r] =
                     [key |-> chunk[Nth(came, r)].key,
                      value |-> HoldsAfter(chunk, applied, Nth(came, r), chunk[Nth(came, r)].key)]
<1> DEFINE echo(r) ==
        [key |-> chunk[Nth(came, r)].key,
         value |-> HoldsAfter(chunk, applied, Nth(came, r), chunk[Nth(came, r)].key)]
           c == Cardinality(came)
<1>1. came \in SUBSET (1 .. Len(chunk)) /\ Len(chunk) \in Nat /\ applied \in SUBSET DOMAIN chunk
    OBVIOUS
<1>2. c \in Nat /\ \A r \in 1 .. c : Nth(came, r) \in came
    BY <1>1, RankIsStrict, NthIsThere
<1>3. Echoes(chunk, came, applied) = [r \in 1 .. c |-> echo(r)]
    BY DEF Echoes
<1> HIDE DEF c
<1>4. ASSUME NEW r \in 1 .. c PROVE echo(r) \in [key : Keys, value : Values]
    <2>1. Nth(came, r) \in 1 .. Len(chunk)
        BY <1>1, <1>2
    <2>2. chunk[Nth(came, r)].key \in Keys
        BY <2>1
    <2> QED
        BY <1>1, <2>2, HoldsIsValue
<1> HIDE DEF echo
<1>5. [r \in 1 .. c |-> echo(r)] \in Seq([key : Keys, value : Values])
    BY <1>2, <1>4
<1>6. Len([r \in 1 .. c |-> echo(r)]) = c /\ \A r \in 1 .. c : [q \in 1 .. c |-> echo(q)][r] = echo(r)
    BY <1>2
<1> QED
    BY <1>2, <1>3, <1>5, <1>6 DEF c, echo

\* After the chunk the last echo of a key still says what HubSpot holds for it.
LEMMA EchoesStay ==
    ASSUME BatchInv, NEW chunk \in Seq(BatchRecord), NEW came \in SUBSET DOMAIN chunk,
           NEW applied \in SUBSET came, \A i \in 1 .. Len(chunk) : chunk[i].key \in Keys,
           batch'.echo = batch.echo \o Echoes(chunk, came, applied),
           batch'.hub = [key \in Keys |-> HoldsAfter(chunk, applied, Len(chunk), key)]
    PROVE  EchoesHold'
<1> DEFINE new   == Echoes(chunk, came, applied)
           c     == Cardinality(came)
           old   == Len(batch.echo)
           after(i, key) == HoldsAfter(chunk, applied, i, key)
           type  == [key : Keys, value : Values]
<1>1. batch.echo \in Seq(type) /\ old \in Nat /\ batch.hub \in [Keys -> Values]
    BY OrderedIs DEF BatchState
<1>2. /\ new \in Seq(type) /\ Len(new) = c /\ c \in Nat
      /\ \A r \in 1 .. c : new[r] = [key |-> chunk[Nth(came, r)].key,
                                    value |-> after(Nth(came, r), chunk[Nth(came, r)].key)]
    BY <1>1, EchoesAre
<1>3. came \in SUBSET (1 .. Len(chunk)) /\ Len(chunk) \in Nat
    OBVIOUS
<1>4. /\ \A r \in 1 .. c : Nth(came, r) \in came /\ Rank(came, Nth(came, r)) = r
      /\ \A i \in came : Rank(came, i) \in 1 .. c /\ Nth(came, Rank(came, i)) = i
      /\ \A i, k \in came : i < k => Rank(came, i) < Rank(came, k)
    BY <1>3, NthIsThere, RankIsStrict
<1> HIDE DEF new, c, old, after, type
<1>5. /\ Len(batch'.echo) = old + c
      /\ \A n \in 1 .. old + c : batch'.echo[n] = IF n <= old THEN batch.echo[n] ELSE new[n - old]
    <2>1. batch'.echo = batch.echo \o new
        BY DEF new
    <2>2. /\ Len(batch.echo \o new) = Len(batch.echo) + Len(new)
          /\ \A n \in 1 .. Len(batch.echo) + Len(new) :
                (batch.echo \o new)[n] =
                    IF n <= Len(batch.echo) THEN batch.echo[n] ELSE new[n - Len(batch.echo)]
        BY <1>1, <1>2, ConcatProperties
    <2> QED
        BY <1>2, <2>1, <2>2 DEF old
<1>6. \A key \in Keys : batch'.hub[key] = after(Len(chunk), key)
    BY DEF after
<1>7. \A i \in came : /\ old + Rank(came, i) \in 1 .. old + c
                       /\ batch'.echo[old + Rank(came, i)].key = chunk[i].key
    <2> SUFFICES ASSUME NEW i \in came
                 PROVE  /\ old + Rank(came, i) \in 1 .. old + c
                        /\ batch'.echo[old + Rank(came, i)].key = chunk[i].key
        OBVIOUS
    <2> DEFINE r == Rank(came, i)
    <2>1. r \in 1 .. c /\ Nth(came, r) = i
        BY <1>4
    <2> HIDE DEF r
    <2>2. old + r \in 1 .. old + c /\ ~(old + r <= old) /\ (old + r) - old = r
        BY <1>1, <1>2, <2>1
    <2>3. batch'.echo[old + r] = new[r]
        BY <1>5, <2>2
    <2>4. new[r].key = chunk[i].key
        BY <1>2, <2>1
    <2> QED
        BY <2>2, <2>3, <2>4 DEF r
<1> SUFFICES ASSUME NEW n \in 1 .. old + c,
                    \A m \in 1 .. old + c : batch'.echo[m].key = batch'.echo[n].key => m <= n
             PROVE  batch'.echo[n].value = batch'.hub[batch'.echo[n].key]
    BY <1>5 DEF EchoesHold
<1>8. CASE ~(n <= old)
    <2> DEFINE r == n - old
    <2>1. r \in 1 .. c /\ n = old + r
        BY <1>1, <1>2, <1>8
    <2> HIDE DEF r
    <2> DEFINE i   == Nth(came, r)
               key == chunk[i].key
    <2>2. i \in came /\ Rank(came, i) = r
        BY <1>4, <2>1
    <2>3. key \in Keys
        BY <1>3, <2>2
    <2>4. batch'.echo[n] = new[r]
        BY <1>5, <1>8, <2>1 DEF r
    <2>5. batch'.echo[n].key = key /\ batch'.echo[n].value = after(i, key)
        BY <1>2, <2>1, <2>4
    <2> HIDE DEF i
    <2>6. ASSUME NEW k \in applied, chunk[k].key = key PROVE k <= i
        <3>1. k \in came
            OBVIOUS
        <3>2. old + Rank(came, k) <= n
            BY <1>7, <2>5, <2>6, <3>1
        <3>3. Rank(came, k) \in 1 .. c /\ k \in Nat /\ i \in Nat
            BY <1>3, <1>4, <2>2, <3>1
        <3>4. ~(r < Rank(came, k))
            BY <1>1, <1>2, <2>1, <3>2, <3>3
        <3>5. ~(i < k)
            BY <1>4, <2>2, <3>1, <3>4
        <3> QED
            BY <3>3, <3>5
    <2>7. {k \in applied : k <= i /\ chunk[k].key = key}
              = {k \in applied : k <= Len(chunk) /\ chunk[k].key = key}
        <3>1. \A k \in applied : k <= Len(chunk)
            BY <1>3
        <3> HIDE DEF key
        <3> QED
            BY <2>6, <3>1
    <2>8. after(i, key) = after(Len(chunk), key)
        BY <2>7 DEF after, HoldsAfter
    <2> HIDE DEF key
    <2> QED
        BY <1>6, <2>3, <2>5, <2>8
<1>9. CASE n <= old
    <2>1. n \in 1 .. old /\ batch'.echo[n] = batch.echo[n]
        BY <1>1, <1>2, <1>5, <1>9
    <2> DEFINE key == batch.echo[n].key
    <2>2. batch.echo[n] \in type
        BY <1>1, <2>1 DEF old
    <2>3. key \in Keys
        BY <2>2 DEF type
    <2>4. ASSUME NEW k \in applied PROVE chunk[k].key # key
        <3> SUFFICES ASSUME chunk[k].key = key PROVE FALSE
            OBVIOUS
        <3>1. k \in came
            OBVIOUS
        <3>2. old + Rank(came, k) <= n
            BY <1>7, <2>1, <3>1
        <3>3. Rank(came, k) \in 1 .. c
            BY <1>4, <3>1
        <3> QED
            BY <1>1, <1>2, <1>9, <2>1, <3>2, <3>3
    <2>5. {k \in applied : k <= Len(chunk) /\ chunk[k].key = key} = {}
        <3> HIDE DEF key
        <3> QED
            BY <2>4
    <2>6. after(Len(chunk), key) = batch.hub[key]
        BY <2>5 DEF after, HoldsAfter
    <2>7. batch.echo[n].value = batch.hub[key]
        <3>1. ASSUME NEW m \in 1 .. old, batch.echo[m].key = key PROVE m <= n
            <4>1. m \in 1 .. old + c /\ batch'.echo[m] = batch.echo[m]
                BY <1>1, <1>2, <1>5
            <4> QED
                BY <2>1, <3>1, <4>1
        <3> QED
            BY <2>1, <3>1 DEF BatchInv, EchoesHold, old
    <2> HIDE DEF key
    <2> QED
        BY <1>6, <2>1, <2>3, <2>6, <2>7 DEF key
<1> QED
    BY <1>8, <1>9

LEMMA SendUpdatesKeeps ==
    ASSUME BatchInv, SendUpdates
    PROVE  BatchInv'
<1> DEFINE all   == Ordered(batch.tool, batch.records)
           chunk == batch.plan[batch.at]
           next_ == IF batch.at < Len(batch.plan) THEN "send" ELSE "finish"
<1>1. /\ batch \in BatchState /\ all \in Seq(BatchRecord) /\ Len(batch.plan) \in Nat
      /\ batch.plan \in Seq(Seq(BatchRecord)) /\ batch.at \in Nat /\ batch.sent \in Seq(BatchRecord)
      /\ batch.next = "send" /\ batch.tool = Update /\ batch.hub \in [Keys -> Values]
      /\ batch.echo \in Seq([key : Keys, value : Values]) /\ all = batch.records
    <2>1. batch.tool = Update /\ batch.next = "send"
        BY DEF SendUpdates
    <2> QED
        BY <2>1, OrderedIs DEF BatchState, Ordered, Update, Upsert
<1>2. PICK cut, to : SentUpTo(cut, to)
    BY DEF BatchInv
<1>3. /\ Cuts(cut, batch.plan, all) /\ to = batch.at - 1 /\ batch.at \in 1 .. Len(batch.plan)
      /\ batch.sent = SubSeq(all, 1, cut[batch.at - 1])
    BY <1>1, <1>2 DEF SentUpTo
<1> DEFINE x == cut[batch.at - 1]
           y == cut[batch.at]
<1>4. /\ x \in 0 .. Len(all) /\ y \in 0 .. Len(all) /\ chunk = SubSeq(all, x + 1, y) /\ x <= y
      /\ SubSeq(all, 1, x) \o chunk = SubSeq(all, 1, y)
    <2>1. PICK plan_ : plan_ = batch.plan
        OBVIOUS
    <2>2. PICK n : n = batch.at
        OBVIOUS
    <2>3. /\ all \in Seq(BatchRecord) /\ plan_ \in Seq(Seq(BatchRecord))
          /\ Cuts(cut, plan_, all) /\ n \in 1 .. Len(plan_)
        BY <1>1, <1>3, <2>1, <2>2
    <2>4. x = cut[n - 1] /\ y = cut[n] /\ chunk = plan_[n]
        BY <2>1, <2>2
    <2> HIDE DEF all, x, y, chunk
    <2>5. /\ cut[n - 1] \in 0 .. Len(all) /\ cut[n] \in 0 .. Len(all)
          /\ plan_[n] = SubSeq(all, cut[n - 1] + 1, cut[n]) /\ cut[n - 1] <= cut[n]
          /\ SubSeq(all, 1, cut[n - 1]) \o plan_[n] = SubSeq(all, 1, cut[n])
        BY <2>3, SentFurther
    <2> QED
        BY <2>4, <2>5
<1>5. chunk \in Seq(BatchRecord) /\ Len(chunk) \in Nat
    BY <1>1, <1>3
<1>6. \A i \in 1 .. Len(chunk) : chunk[i].key \in Keys
    <2>1. \A i \in 1 .. Len(all) : all[i].key \in Keys
        BY <1>1 DEF BatchInv
    <2>2. Len(all) \in Nat
        BY <1>1
    <2>3. Len(chunk) = y - x /\ \A i \in 1 .. y - x : chunk[i] = all[x + i]
        <3>1. all \in Seq(BatchRecord)
            BY <1>1
        <3> HIDE DEF all, x, y, chunk
        <3> QED
            BY <1>4, <3>1, PieceIs
    <2> HIDE DEF all, x, y, chunk
    <2>4. ASSUME NEW i \in 1 .. Len(chunk) PROVE chunk[i].key \in Keys
        <3>1. i \in 1 .. y - x /\ x + i \in 1 .. Len(all)
            BY <1>4, <2>2, <2>3
        <3> QED
            BY <2>1, <2>3, <3>1
    <2> QED
        BY <2>4
<1>7. PICK came \in SUBSET DOMAIN chunk : \E still \in SUBSET came :
          batch' = [batch EXCEPT
                       !.sent = @ \o chunk, !.at = @ + 1, !.next = next_,
                       !.echo = @ \o Echoes(chunk, came, came \ still),
                       !.hub = [key \in Keys |-> HoldsAfter(chunk, came \ still, Len(chunk), key)]]
    BY DEF SendUpdates, More
<1>8. PICK still \in SUBSET came :
          batch' = [batch EXCEPT
                       !.sent = @ \o chunk, !.at = @ + 1, !.next = next_,
                       !.echo = @ \o Echoes(chunk, came, came \ still),
                       !.hub = [key \in Keys |-> HoldsAfter(chunk, came \ still, Len(chunk), key)]]
    BY <1>7
<1> DEFINE further == batch.sent \o chunk
           applied == came \ still
           echo_   == batch.echo \o Echoes(chunk, came, applied)
           hub_    == [key \in Keys |-> HoldsAfter(chunk, applied, Len(chunk), key)]
           at_     == batch.at + 1
<1>9. further \in Seq(BatchRecord)
    BY <1>1, <1>5, ConcatProperties
<1>10. applied \in SUBSET came /\ applied \in SUBSET DOMAIN chunk
    OBVIOUS
<1>11. echo_ \in Seq([key : Keys, value : Values])
    <2>1. Echoes(chunk, came, applied) \in Seq([key : Keys, value : Values])
        <3> HIDE DEF chunk, applied
        <3> QED
            BY <1>1, <1>5, <1>6, <1>7, <1>10, EchoesAre
    <2> QED
        BY <1>1, <2>1, ConcatProperties
<1>12. hub_ \in [Keys -> Values]
    <2>1. \A key \in Keys : HoldsAfter(chunk, applied, Len(chunk), key) \in Values
        <3> HIDE DEF chunk, applied
        <3> QED
            BY <1>1, <1>5, <1>10, HoldsIsValue
    <2> HIDE DEF chunk, applied
    <2> QED
        BY <2>1
<1>13. /\ next_ \in {"send", "finish"} /\ (next_ = "send" <=> batch.at < Len(batch.plan))
       /\ at_ \in Nat \ {0} /\ at_ \in 1 .. Len(batch.plan) + 1 /\ at_ - 1 = batch.at
       /\ (batch.at < Len(batch.plan) => at_ <= Len(batch.plan))
       /\ (~(batch.at < Len(batch.plan)) => at_ = Len(batch.plan) + 1)
       /\ batch.at \in 0 .. Len(batch.plan)
    <2>1. Len(batch.plan) \in Nat /\ batch.at \in 1 .. Len(batch.plan)
        BY <1>1, <1>3
    <2>2. next_ \in {"send", "finish"} /\ (next_ = "send" <=> batch.at < Len(batch.plan))
        OBVIOUS
    <2>3. /\ at_ \in Nat \ {0} /\ at_ \in 1 .. Len(batch.plan) + 1 /\ at_ - 1 = batch.at
          /\ (batch.at < Len(batch.plan) => at_ <= Len(batch.plan))
          /\ (~(batch.at < Len(batch.plan)) => at_ = Len(batch.plan) + 1)
          /\ batch.at \in 0 .. Len(batch.plan)
        BY <2>1
    <2> QED
        BY <2>2, <2>3
<1>14. batch' = [batch EXCEPT !.sent = further, !.at = at_, !.next = next_, !.echo = echo_, !.hub = hub_]
    BY <1>8
<1>15. further = SubSeq(all, 1, y)
    BY <1>3, <1>4
<1> HIDE DEF further, at_, next_, echo_, hub_, all, y
<1>16. batch' \in BatchState
    BY <1>1, <1>9, <1>11, <1>12, <1>13, <1>14 DEF BatchState
<1>17. /\ batch'.tool = batch.tool /\ batch'.records = batch.records /\ batch'.plan = batch.plan
       /\ batch'.at = at_ /\ batch'.next = next_ /\ batch'.sent = further
       /\ batch'.file = batch.file /\ batch'.place = batch.place
       /\ batch'.echo = echo_ /\ batch'.hub = hub_
    BY <1>1, <1>14 DEF BatchState
<1> PICK sent_ : sent_ = batch.at
    OBVIOUS
<1>18. SentUpTo(cut, sent_)'
    <2>1. Cuts(cut, batch.plan, Ordered(batch.tool, batch.records))
        BY <1>3 DEF all
    <2>2. further = SubSeq(Ordered(batch.tool, batch.records), 1, cut[batch.at])
        BY <1>15 DEF all, y
    <2>3. batch.tool # Upsert
        BY <1>1 DEF Upsert, Update
    <2> QED
        <3>1. batch.at \in {at_ - 1, at_} /\ batch.at \in 0 .. Len(batch.plan)
              /\ at_ \in 1 .. Len(batch.plan) + 1 /\ batch.at = at_ - 1
            BY <1>13
        <3>2. /\ next_ \in {"send", "finish"}
              /\ next_ = "send" => at_ <= Len(batch.plan)
              /\ next_ = "finish" => at_ = Len(batch.plan) + 1
            BY <1>13
        <3> QED
            BY <1>17, <2>1, <2>2, <2>3, <3>1, <3>2 DEF SentUpTo
<1>19. FileIsTrue'
    BY <1>1, <1>13, <1>17 DEF BatchInv, FileIsTrue, Upsert, Update
<1>20. EchoesHold'
    <2>1. batch'.echo = batch.echo \o Echoes(chunk, came, applied)
        BY <1>17 DEF echo_
    <2>2. batch'.hub = [key \in Keys |-> HoldsAfter(chunk, applied, Len(chunk), key)]
        BY <1>17 DEF hub_
    <2> HIDE DEF chunk, applied
    <2> QED
        BY <1>5, <1>6, <1>7, <1>10, <2>1, <2>2, EchoesStay
<1> QED
    BY <1>1, <1>16, <1>17, <1>18, <1>19, <1>20 DEF BatchInv

LEMMA BatchStepKeeps ==
    ASSUME BatchInv, BatchStep \/ StopBatch
    PROVE  BatchInv'
BY SendChunkKeeps, SendUpdatesKeeps, RecordChunkKeeps, ReportChunkKeeps, FinishBatchKeeps,
   StopBatchKeeps DEF BatchStep

LEMMA BatchRests ==
    ASSUME BatchInv, UNCHANGED batch
    PROVE  BatchInv'
BY DEF BatchInv, SentUpTo, FileIsTrue, EchoesHold

-----------------------------------------------------------------------------
(* The batches of a request. *)

LEMMA InputsAre ==
    ASSUME NEW records \in Inputs
    PROVE  /\ records \in Seq(BatchRecord)
           /\ WellShaped(records) => \A n \in 1 .. Len(records) : records[n].key \in Keys
<1>1. records \in Seq(BatchRecord)
    BY DispatchAssumption DEF BatchRecord
<1>2. ASSUME WellShaped(records), NEW n \in 1 .. Len(records) PROVE records[n].key \in Keys
    <2>1. records[n] \in BatchRecord /\ n \in DOMAIN records
        BY <1>1
    <2> QED
        BY <1>2, <2>1 DEF WellShaped, BatchRecord
<1> QED
    BY <1>1, <1>2

LEMMA BatchMoves ==
    ASSUME [Next]_vars
    PROVE  \/ UNCHANGED batch
           \/ BatchStep \/ StopBatch
           \/ \E tool \in {Upsert, Update} : \E records \in Inputs :
                 Start(tool, records) /\ (tool = Update => WellShaped(records))
<1>0. ASSUME NEW how, ExecuteTool(how)
      PROVE  \/ UNCHANGED batch
             \/ \E tool \in {Upsert, Update} : \E records \in Inputs :
                   Start(tool, records) /\ (tool = Update => WellShaped(records))
    <2>1. CASE req.tool \in {Upsert, Update}
        <3>1. PICK records \in {list \in Inputs : req.tool = Upsert \/ WellShaped(list)} :
                  Start(req.tool, records)
            BY <1>0, <2>1 DEF ExecuteTool
        <3> QED
            BY <2>1, <3>1 DEF Upsert, Update
    <2>2. CASE req.tool \notin {Upsert, Update}
        BY <1>0, <2>2 DEF ExecuteTool, Outside
    <2> QED
        BY <2>1, <2>2
<1>1. CASE Approve
    <2>1. CASE req.via = "tool"
        BY <1>1, <1>0, <2>1 DEF Approve
    <2>2. CASE req.via # "tool"
        BY <1>1, <2>2 DEF Approve, Outside
    <2> QED
        BY <2>1, <2>2
<1>6. CASE AutoApply
    BY <1>0, <1>6 DEF AutoApply
<1>2. CASE BatchRuns
    BY <1>2 DEF BatchRuns
<1>3. CASE UNCHANGED vars
    BY <1>3 DEF vars
<1>4. CASE RefuseRequest \/ InvokeTool \/ StageTool \/ PreviewAgent \/ ExecuteInline \/ ApprovalFails
           \/ Reject \/ Decide \/ Finish \/ RetryInline
    BY <1>4 DEF RefuseRequest, InvokeTool, StageTool, PreviewAgent, ExecuteInline, ApprovalFails,
                Reject, Decide, Finish, RetryInline, Outside
<1>5. CASE AnsweredCall \/ RefusedCall \/ LostAnswer \/ Elsewhere
    BY <1>5 DEF AnsweredCall, RefusedCall, LostAnswer, Elsewhere
<1> QED
    BY <1>1, <1>2, <1>3, <1>4, <1>5, <1>6 DEF Next

LEMMA BatchInvHolds == Spec => []BatchInv
<1>1. Init => BatchInv
    BY IdleHolds DEF Init
<1>2. BatchInv /\ [Next]_vars => BatchInv'
    <2> SUFFICES ASSUME BatchInv, [Next]_vars PROVE BatchInv'
        OBVIOUS
    <2>1. CASE UNCHANGED batch
        BY <2>1, BatchRests
    <2>2. CASE BatchStep \/ StopBatch
        BY <2>2, BatchStepKeeps
    <2>3. ASSUME NEW tool \in {Upsert, Update}, NEW records \in Inputs, Start(tool, records),
                 tool = Update => WellShaped(records)
          PROVE  BatchInv'
        BY <2>3, InputsAre, StartHolds
    <2> QED
        BY <2>1, <2>2, <2>3, BatchMoves
<1> QED
    BY <1>1, <1>2, PTL DEF Spec

\* For any records, in chunks of any size, wherever the run stopped: no key is sent twice, the checkpoint names the
\* chunks that were sent and its finished sums account for every record, and what a bulk
\* update calls verified is so (_partition_records, record_chunk, _verify_echoed_results).
THEOREM BatchesAddUp == Spec => []BatchAddsUp
<1>1. BatchInv => BatchAddsUp
    BY BatchInvIsEnough
<1> QED
    BY <1>1, BatchInvHolds, PTL

=============================================================================
