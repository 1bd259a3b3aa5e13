------------------------------ MODULE Dispatch ------------------------------
(***************************************************************************)
(* One request on its way to HubSpot: a tool call (handle_tool in           *)
(* handlers.py), a free-text step of a loop (_drive_loop in orchestrator.py)*)
(* or a typed request for one agent (preview, always).  The tables of Tools *)
(* and Agents say what happens on the way; here they are run: the scope     *)
(* check, the decision whether the request has to be approved or goes by    *)
(* itself, the preview, the approval and the calls of the plan one by one.  *)
(* The reconciliation of a write whose answer was lost is not run, as       *)
(* nothing calls it; ChecksFit looks at its tables.                         *)
(*                                                                          *)
(* A text is the set of its words.  The pending files, snapshots and locks  *)
(* of the gate are in WriteGate; here approval is one step.                 *)
(***************************************************************************)
EXTENDS Agents, Bulk

CONSTANTS
    Requests,      \* the requests: see ToolRequest and TextRequest
    Grants,        \* the sets of scopes a portal may have listed ({}: no list)
    Inputs,        \* record lists for the two batch tools
    Records,       \* what the words of the request find in HubSpot
    Named,         \* the one the payload's id names
    NoRecord,
    MaxOthers,     \* bound on the changes somebody else makes meanwhile
    MaxRuns        \* bound on the approvals of one preview

ASSUME DispatchAssumption ==
    /\ Named \in Records /\ NoRecord \notin Records /\ MaxRuns \in Nat
    /\ Inputs \subseteq Seq([key : Keys \union {NoKey}, id : BOOLEAN, spelling : STRING])
    /\ \A r \in Requests :
          IF r.via = "tool" THEN r.tool \in ToolNames /\ r.method \in Methods /\ r.agent = "none"
          ELSE r.via \in {"step", "ask"} /\ r.method = "GET" /\ r.agent \in DOMAIN AgentRegistry

VARIABLES
    granted,       \* the portal's scopes
    req,           \* the request
    pc,            \* "asked" -> "running" -> "staged" -> "running" -> "done"
    mode,          \* how the running plan runs: "preview", "inline", "approved", or
                   \* "auto", of the tier that needs no approval
    plan,          \* what is left of it
    keys,          \* what the request names and the payload holds
    answer,        \* how the last run ended
    live,          \* the records there are
    found,         \* the record a search handed back, or the input names
    calls,         \* the tools called by this run, in order
    changed,       \* ghost: the changes this run made
    made,          \* ghost: <<mode, effect>> of every change of every run
    runs,          \* attempts so far
    others         \* changes somebody else made

vars == <<granted, req, pc, mode, plan, keys, answer, live, found, calls, changed, made, runs,
          others, batch>>

ToolRequest(tool, method, type) ==
    [via |-> "tool", tool |-> tool, method |-> method, type |-> type,
     agent |-> "none", action |-> {}, rest |-> {}, risky |-> FALSE]

\* `via` is "step" or "ask".  `rest` is the description, the artifacts and the
\* original request of a step; `risky` its risk level in the plan.
TextRequest(via, agent, action, rest, risky) ==
    [via |-> via, tool |-> "none", method |-> "GET", type |-> NoType,
     agent |-> agent, action |-> action, rest |-> rest, risky |-> risky]

-----------------------------------------------------------------------------
(* What a text is taken for. *)

SearchWords == {"find", "search", "get", "list", "show", "retrieve", "lookup", "query"}
CreateWords == {"create", "add", "new", "insert", "build", "make"}
UpdateWords == {"update", "change", "edit", "modify", "set", "rename", "patch"}
DeleteWords == {"delete", "remove", "destroy", "drop", "clear", "purge"}
WriteVerbs  == {"create", "update", "delete", "upsert", "merge", "enroll", "toggle", "bulk"}

\* Words of the requests that contain a write verb without being one.
Inflected == {"updates", "upserts"}

Has(text, words) == text \intersect words # {}

\* Whole words; a search before a delete before an update before a create.
Classify(text) ==
    CASE Has(text, SearchWords) -> "search"
      [] ~Has(text, SearchWords) /\ Has(text, DeleteWords) -> "delete"
      [] ~Has(text, SearchWords \union DeleteWords) /\ Has(text, UpdateWords) -> "update"
      [] ~Has(text, SearchWords \union DeleteWords \union UpdateWords)
            /\ Has(text, CreateWords) -> "create"
      [] OTHER -> "unknown"

\* Seeded fault: only the written-out verbs.
IsWriteStepByVerb(action) == Has(action, WriteVerbs \union Inflected)

\* is_write_step: the action alone is looked at, verbs also inside of words.
IsWriteStep(action) ==
    \/ Has(action, WriteVerbs \union Inflected)
    \/ Classify(action) \in Writes

\* A typed request is always previewed.
RequiresApproval(r) == r.via = "ask" \/ IsWriteStep(r.action) \/ r.risky

\* _parse_agent_intent: the whole text of the step.
Text == req.action \union req.rest
Intent == Classify(Text)
Handler == AgentRegistry[req.agent]

\* Only the objects agent is told a type.
TypesNamed == Text \intersect StandardTypes
TargetType ==
    IF req.via = "tool" THEN req.type
    ELSE IF req.agent # "objects" \/ TypesNamed = {} THEN NoType
    ELSE IF "contacts" \in TypesNamed THEN "contacts" ELSE CHOOSE type \in TypesNamed : TRUE

\* What the plan's conditions can be true of.
RequestKeys ==
    (IF TargetType # NoType THEN {"type"} ELSE {})
    \union (IF Cardinality(TypesNamed) >= 2 THEN {"pair"} ELSE {})

\* The payload the preview proposes; a blueprint is proposed by its name.
Payload == Handler.preview[Intent].proposes \ (IF "welcome" \in Text THEN {} ELSE {"blueprint"})

-----------------------------------------------------------------------------
(* Taking the request. *)

Init ==
    /\ granted \in Grants
    /\ req \in Requests
    /\ live \in {{}, Records}
    /\ pc = "asked" /\ mode = "none" /\ plan = <<>> /\ keys = {} /\ answer = "none"
    /\ found = NoRecord /\ calls = <<>> /\ changed = {} /\ made = {} /\ runs = 0 /\ others = 0
    /\ batch = Idle

\* A run starts from its plan, with nothing called and nothing found yet.
Run(how, steps, ks, record) ==
    /\ pc' = "running" /\ mode' = how /\ plan' = steps /\ keys' = ks /\ found' = record
    /\ calls' = <<>> /\ changed' = {} /\ answer' = "none" /\ runs' = runs + 1

Ends(where, how) ==
    /\ pc' = where /\ answer' = how /\ plan' = <<>>
    /\ UNCHANGED <<mode, keys, found, calls, changed, runs>>

\* What stays as it is until HubSpot is called.
Outside == <<granted, req, live, made, others, batch>>

\* Seeded fault: one granted scope is enough.
MissingScopesOfNone ==
    LET needed == IF req.via = "tool" THEN RequiredScopes({req.tool}, req.type)
                  ELSE AgentScopes(req.agent, TargetType)
    IN  IF granted = {} \/ granted \intersect needed # {} THEN {} ELSE needed \ granted

MissingScopes ==
    IF req.via = "tool" THEN ScopesMissing(granted, {req.tool}, req.type)
    ELSE IF granted = {} THEN {} ELSE AgentScopes(req.agent, TargetType) \ granted

\* A bulk update of records that are not all well shaped is refused before it is
\* staged.  (The input is chosen when the batch starts.)
BadShape == req.via = "tool" /\ req.tool = Update
WellShaped(records) == \A n \in DOMAIN records : records[n].id /\ records[n].key # NoKey

RefuseRequest ==
    /\ pc = "asked"
    /\ MissingScopes # {} \/ BadShape
    /\ Ends("done", "error")
    /\ UNCHANGED Outside

NamesRecord == req.tool \in {"hubspot_update_object", "hubspot_delete_object"}
InputRecord == IF NamesRecord THEN Named ELSE NoRecord

\* A tool that does not write is invoked at once.
InvokeTool ==
    /\ pc = "asked" /\ req.via = "tool" /\ MissingScopes = {}
    /\ ~IsWriteTool(req.tool, req.method, req.type)
    /\ Run("inline", <<Call(req.tool)>>, {}, InputRecord)
    /\ UNCHANGED Outside

\* A tool that changes something, executed on its input.
ExecuteTool(how) ==
    IF req.tool \in {Upsert, Update}
    THEN /\ \E records \in {list \in Inputs : req.tool = Upsert \/ WellShaped(list)} :
                Start(req.tool, records)
         /\ Run(how, <<>>, {}, NoRecord)
         /\ UNCHANGED <<granted, req, live, made, others>>
    ELSE Run(how, <<Fetch(req.tool)>>, {}, InputRecord) /\ UNCHANGED Outside

WritesByTool ==
    /\ pc = "asked" /\ req.via = "tool" /\ MissingScopes = {}
    /\ IsWriteTool(req.tool, req.method, req.type)

\* One that does is staged.  (The reads of its preview, which capture old values, are
\* left out: no list of scopes is asked for them, and one that is refused captures
\* nothing.)
StageTool ==
    /\ WritesByTool
    /\ Ends("staged", "preview")
    /\ UNCHANGED Outside

\* If its tier is AUTO it is staged and executed in one go: what fails stays staged.
AutoApply ==
    /\ WritesByTool /\ MayAutoApply(req.tool, req.method, req.type)
    /\ ExecuteTool("auto")

PreviewAgent ==
    /\ pc = "asked" /\ req.via # "tool" /\ MissingScopes = {}
    /\ RequiresApproval(req)
    /\ Run("preview", Handler.preview[Intent].plan, RequestKeys, NoRecord)
    /\ UNCHANGED Outside

\* Seeded fault: a missing execute handler is taken for one with nothing to do.
CanExecuteAnyway == TRUE

\* An agent without an execute handler cannot be executed.
CanExecute == Handler.acts

ExecuteInline ==
    /\ pc = "asked" /\ req.via # "tool" /\ MissingScopes = {}
    /\ ~RequiresApproval(req)
    /\ IF CanExecute THEN Run("inline", Handler.execute[Intent], RequestKeys, NoRecord)
       ELSE Ends("done", "error")
    /\ UNCHANGED Outside

-----------------------------------------------------------------------------
(* Approving it. *)

Approve ==
    /\ pc = "staged" /\ runs < MaxRuns
    /\ IF req.via = "tool" THEN ExecuteTool("approved")
       ELSE /\ MissingScopes = {} /\ CanExecute
            /\ Run("approved", Handler.execute[Intent], RequestKeys \union Payload, NoRecord)
            /\ UNCHANGED Outside

\* dispatch_agent refuses the execution: the preview stays.
ApprovalFails ==
    /\ pc = "staged" /\ runs < MaxRuns
    /\ req.via # "tool" /\ (MissingScopes # {} \/ ~CanExecute)
    /\ Ends("staged", "error")
    /\ UNCHANGED Outside

Reject ==
    /\ pc = "staged"
    /\ Ends("done", "rejected")
    /\ UNCHANGED Outside

-----------------------------------------------------------------------------
(* Running the plan. *)

Running == pc = "running" /\ batch.next \in {"idle", "done", "stopped"}
Step == plan[1]
Further == SubSeq(plan, 2, Len(plan))
Tool == IF Step.do = "with" /\ Step.key \notin keys THEN Step.other ELSE Step.tool
Does == EffectOf(Tool, req.method)

\* Where a run ends.  A preview is staged whatever it found; a write that did not
\* succeed, approved or not, keeps its preview.
Where(how) ==
    CASE mode = "preview" -> "staged"
      [] mode = "inline"  -> "done"
      [] OTHER            -> IF how = "success" THEN "done" ELSE "staged"

EndRun(how) ==
    /\ pc' = Where(how) /\ plan' = <<>>
    /\ answer' = IF mode = "preview" THEN "preview" ELSE how

Goes == pc' = pc /\ plan' = Further /\ answer' = answer

Decides(step) == step.do \in {"only", "need", "refuse"}

Decide ==
    /\ Running /\ plan # <<>> /\ Decides(Step)
    /\ IF Step.key \in keys THEN Goes
       ELSE EndRun(IF Step.do = "only" THEN "success" ELSE "error")
    /\ UNCHANGED <<mode, keys, found, calls, changed, runs>>
    /\ UNCHANGED Outside

Calling == Running /\ plan # <<>> /\ ~Decides(Step)

\* What the call does to the records.
Applied ==
    CASE Does = Adds /\ live # Records -> \E new \in Records \ live : live' = live \union {new}
      [] Does = Removes -> live' = live \ {found}
      [] OTHER -> UNCHANGED live

Called == calls' = Append(calls, Tool)

Recorded ==
    /\ Called
    /\ IF Does \in Changing
       THEN /\ changed' = changed \union {<<Len(calls) + 1, Does>>}
            /\ made' = made \union {<<mode, Does>>}
       ELSE UNCHANGED <<changed, made>>

\* The result of a search: its first record, or none.
AnsweredCall ==
    /\ Calling /\ <<Tool, req.method>> # <<RawTool, "PUT">>
    /\ Applied /\ Recorded
    /\ IF Step.do \in {"find", "sample"}
       THEN \/ /\ live = {}
               /\ EndRun(IF Step.do = "find" THEN "error" ELSE "success")
               /\ UNCHANGED found
            \/ found' \in live /\ Goes
       ELSE Goes /\ UNCHANGED found
    /\ UNCHANGED <<granted, req, mode, keys, runs, others, batch>>

\* A result with an "error" key: agents look at it only where they need it.
RefusedCall ==
    /\ Calling /\ Called
    /\ IF Step.do \in {"fetch", "find", "sample"} THEN EndRun("error") ELSE Goes
    /\ UNCHANGED <<granted, req, mode, keys, live, found, changed, made, runs, others,
                   batch>>

\* The previews that catch what a tool raises, and the run that does.
Catches ==
    \/ mode = "preview" /\ req.agent # "deal_splits"
    \/ req.agent = "associations" /\ Intent = "search"

\* The answer is lost, with or without the change: the tool raises.
LostAnswer ==
    /\ Calling /\ Does # Local
    /\ Recorded /\ (Applied \/ UNCHANGED live)
    /\ plan' = <<>>
    /\ IF Catches THEN EndRun("error")
       ELSE /\ pc' = IF mode \in {"approved", "auto"} THEN "staged" ELSE "done"
            /\ answer' = "raised"
    /\ UNCHANGED <<granted, req, mode, keys, found, runs, others, batch>>

Finish ==
    /\ Running /\ plan = <<>>
    /\ EndRun(IF batch.next = "stopped" THEN "raised" ELSE "success")
    /\ UNCHANGED <<mode, keys, found, calls, changed, runs>>
    /\ UNCHANGED Outside

\* The loop runs a step it took for a read again when its answer was lost.
RetryInline ==
    /\ pc = "done" /\ mode = "inline" /\ answer = "raised"
    /\ req.via = "step" /\ runs < MaxRuns
    /\ Run("inline", Handler.execute[Intent], RequestKeys, NoRecord)
    /\ UNCHANGED Outside

BatchRuns ==
    /\ pc = "running"
    /\ \/ BatchStep
       \/ StopBatch
    /\ made' = IF batch'.sent # batch.sent THEN made \union {<<mode, Alters>>} ELSE made
    /\ UNCHANGED <<granted, req, pc, mode, plan, keys, answer, live, found, calls, changed, runs,
                   others>>

\* Somebody else adds or removes a record the words of the request find.
Elsewhere ==
    /\ req.via # "tool" /\ pc # "asked" /\ others < MaxOthers
    /\ \E record \in Records :
           live' = IF record \in live THEN live \ {record} ELSE live \union {record}
    /\ others' = others + 1
    /\ UNCHANGED <<granted, req, pc, mode, plan, keys, answer, found, calls, changed, made, runs,
                   batch>>

-----------------------------------------------------------------------------

Next ==
    \/ RefuseRequest \/ InvokeTool \/ StageTool \/ AutoApply \/ PreviewAgent \/ ExecuteInline
    \/ Approve \/ ApprovalFails \/ Reject
    \/ Decide \/ AnsweredCall \/ RefusedCall \/ LostAnswer \/ Finish \/ RetryInline
    \/ BatchRuns \/ Elsewhere

Spec == Init /\ [][Next]_vars

-----------------------------------------------------------------------------
(* Properties. *)

TypeOK ==
    /\ req \in Requests /\ granted \in Grants
    /\ pc \in {"asked", "running", "staged", "done"}
    /\ mode \in {"none", "preview", "inline", "auto", "approved"}
    /\ answer \in {"none", "preview", "success", "error", "raised", "rejected"}
    /\ live \subseteq Records /\ found \in Records \union {NoRecord}
    /\ changed \subseteq Nat \X Changing
    /\ made \subseteq {"preview", "inline", "auto", "approved"} \X Changing
    /\ runs \in 0 .. MaxRuns /\ others \in 0 .. MaxOthers
    /\ (pc \in {"staged", "done"} => plan = <<>>)
    /\ BatchTypeOK

\* What a text of each intent may do.
Fitting(intent) ==
    CASE intent = "delete" -> {Removes}
      [] intent \in {"create", "update"} -> {Adds, Alters}
      [] OTHER -> {}

\* HubSpot is changed by approved runs alone: not by a preview, not by a call the
\* handler took for a read.  Two exceptions.  A tool call of the AUTO tier is executed
\* at once (handle_tool): it adds or alters, and never removes, whatever the tool's
\* name makes the handler expect.  And the step of a loop whose action reads as
\* harmless while its whole text is a write is run at once, and changes HubSpot
\* (is_write_step looks at the action, _parse_agent_intent at the text).
ChangesAreApproved ==
    \A change \in made :
        \/ change[1] = "approved"
        \/ change[1] = "auto" /\ req.via = "tool" /\ change[2] # Removes
        \/ /\ change[1] = "inline" /\ req.via = "step" /\ ~req.risky
           /\ Classify(req.action) \notin Writes /\ Intent \in Writes

\* An agent changes what the text asked for and nothing else: only a delete removes
\* and only a create or an update adds or alters; a search or an unknown text
\* changes nothing (the agents' execute handlers, written agent by agent).
ChangesFitTheText ==
    req.via # "tool" =>
        \A change \in made :
            change[2] \in Fitting(Intent)

\* A run that ends in an error has changed nothing, and no run makes more than one
\* change: what one approval lets through is one call (batches aside).
ErrorsChangeNothing ==
    /\ Cardinality(changed) <= 1
    /\ answer = "error" => changed = {}

\* Agents without an execute handler never report that they executed
\* (dispatch_agent: a handler-less agent can never masquerade as a completed write).
NoHandlerNoSuccess ==
    (req.via # "tool" /\ answer = "success") => Handler.acts

\* What the separately written agents do together with their one dispatcher.
AgentsKeepTheirWord == ChangesFitTheText /\ ErrorsChangeNothing /\ NoHandlerNoSuccess

\* On a portal with a list of scopes every tool that is called is covered by it,
\* also those an agent calls: the registry's list of an agent's tools covers what
\* its handlers call.  Exceptions: agents the registry does not list, the custom
\* objects agent (listed with the raw tool alone), the search of the associations
\* agent, and the reads of a tool's preview, which nobody checks.
Uncovered == {"custom_objects"}
ScopesCoverTheCalls ==
    (granted # {} /\ (req.via = "tool" \/ req.agent \in DOMAIN AgentTools \ Uncovered)) =>
        \A n \in DOMAIN calls :
            \/ req.agent = "associations" /\ calls[n] = Search
            \/ RequiredScopes({calls[n]}, TargetType) \subseteq granted

-----------------------------------------------------------------------------
(* What the tables owe each other.  They are constants: TLC evaluates this as it *)
(* stands, and the proofs about the dispatcher start from it.                     *)

ToolsOf(step) == IF step.do = "with" THEN {step.tool, step.other} ELSE {step.tool}

\* The calls a plan can get to: each decision before them has its key.
Reached(steps, ks) ==
    {n \in DOMAIN steps :
        ~Decides(steps[n]) /\ \A m \in 1 .. n - 1 : Decides(steps[m]) => steps[m].key \in ks}

\* A plan changes HubSpot, if it may at all, with its last call, and does not look
\* for a record in the answer.
PlanFits(steps, ks, method, effects) ==
    \A n \in Reached(steps, ks) : \A tool \in ToolsOf(steps[n]) :
        /\ tool \in ToolNames
        /\ EffectOf(tool, method) \in Changing =>
              EffectOf(tool, method) \in effects /\ n = Len(steps) /\ steps[n].do \notin {"find", "sample"}

\* The payload keys there can be: what the request names and what the preview proposes.
KeysOf(agent, intent) == {"type", "pair"} \union AgentRegistry[agent].preview[intent].proposes

\* The plans of an agent: its previews only read, its execution does what fits.
PlansFit ==
    \A agent \in DOMAIN AgentRegistry : \A intent \in Intents :
        LET preview == AgentRegistry[agent].preview[intent].plan
            execute == AgentRegistry[agent].execute[intent]
        IN  /\ preview \in Seq(Range(preview)) /\ execute \in Seq(Range(execute))
            /\ PlanFits(preview, {"type", "pair"}, "GET", {})
            /\ PlanFits(execute, KeysOf(agent, intent), "GET", Fitting(intent))

\* The gate of a tool call knows the tools that change HubSpot.
WritesAreKnown ==
    \A tool \in ToolNames : \A method \in Methods : \A type \in {r.type : r \in Requests} :
        EffectOf(tool, method) \in Changing => IsWriteTool(tool, method, type)

\* What may be of the AUTO tier by its name only adds or alters.
AutoOnlyAddsOrAlters ==
    \A tool \in ToolNames : \A method \in Methods : \A type \in {r.type : r \in Requests} :
        MayAutoApply(tool, method, type) => EffectOf(tool, method) \in {Adds, Alters}

\* The registry's list of an agent's tools has those its plans get to.
ListsAreWhole ==
    \A agent \in (DOMAIN AgentTools \intersect DOMAIN AgentRegistry) \ Uncovered : \A intent \in Intents :
        LET preview == AgentRegistry[agent].preview[intent].plan
            execute == AgentRegistry[agent].execute[intent]
            Listed(steps, ks) ==
                \A n \in Reached(steps, ks) :
                    ToolsOf(steps[n]) \subseteq AgentTools[agent]
                        \union (IF agent = "associations" THEN {Search} ELSE {})
        IN  Listed(preview, {"type", "pair"}) /\ Listed(execute, KeysOf(agent, intent))

\* A check that can be made looks for what the write was for.
ChecksFit ==
    \A agent \in DOMAIN AgentRegistry : \A intent \in Writes :
        LET check == AgentRegistry[agent].reconcile[intent]
        IN  \/ check.wants \in IF intent = "delete" THEN {"gone", "none"} ELSE {"there", "some", "same"}
            \/ check.key \notin KeysOf(agent, intent) \union {"id", "inputs", "name"}

TablesAgree == PlansFit /\ WritesAreKnown /\ AutoOnlyAddsOrAlters /\ ListsAreWhole
=============================================================================
