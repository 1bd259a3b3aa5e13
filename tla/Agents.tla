------------------------------- MODULE Agents -------------------------------
(***************************************************************************)
(* The agents (agents/*.py) as data.  For each type of intent an agent has  *)
(* a plan for its preview, one for its execution and one check for the      *)
(* reconciliation of a write whose answer was lost.  Dispatch runs the      *)
(* plans; reconcile_after_timeout, which would run a check, has no caller.  *)
(*                                                                          *)
(* A plan is the sequence of the agent's calls and early returns:           *)
(*   Only(key)     without `key` in the request it ends: "success"          *)
(*   Need(key)     without `key` in the payload it ends: "error"            *)
(*   Refuse        it ends: "error"                                         *)
(*   Call(tool)    the tool is called, its result is not looked at          *)
(*   Fetch(tool)   an "error" in the result ends the plan: "error"          *)
(*   Find(tool)    the first record of the result is taken; without one,    *)
(*                 the plan ends: "error"                                   *)
(*   Sample(tool)  as Find, after an "error" it ends: "error", without a    *)
(*                 record: "success"                                        *)
(*   With(key, a, b)  a is called if the payload has `key`, else b          *)
(* A plan that gets to its end ends with "success".  Messages, prompts and  *)
(* the fields of a payload nobody decides on are left out.                  *)
(***************************************************************************)
EXTENDS Tools, Sequences

Intents == {"search", "create", "update", "delete", "unknown"}

Do(what, tool, key) == [do |-> what, tool |-> tool, key |-> key]
Only(key)       == Do("only", "", key)
Need(key)       == Do("need", "", key)
Refuse          == Do("refuse", "", "")
Call(tool)      == Do("call", tool, "")
Fetch(tool)     == Do("fetch", tool, "")
Find(tool)      == Do("find", tool, "")
Sample(tool)    == Do("sample", tool, "")
With(key, a, b) == [do |-> "with", tool |-> a, key |-> key, other |-> b]

\* What a preview shows and the payload keys it proposes.
Shows(plan) == [plan |-> plan, proposes |-> {}]
Proposes(keys) == [plan |-> <<>>, proposes |-> keys]

\* A check: the payload key it needs, what it reads, and what "verified" takes:
\* that the read is answered (there), is not (gone), hands back a record (some),
\* one with the expected values (same), or none (none).
Check(key, tool, wants) == [key |-> key, tool |-> tool, wants |-> wants]
Unknown == Check("never", "", "there")

\* Each intent that is not named does what the last argument says.
Per(named, others) == named @@ [intent \in Intents |-> others]
OnIntents(intents, what) == [intent \in intents |-> what]
Writes == {"create", "update", "delete"}
Nothing == OnIntents(Intents, <<>>)

Agent(preview, execute, reconcile) ==
    [preview |-> preview, execute |-> execute, reconcile |-> reconcile, acts |-> TRUE]

\* Agents that registered no execute handler.
ReadOnlyAgent(preview) ==
    [preview |-> preview, execute |-> Nothing,
     reconcile |-> OnIntents(Intents, Unknown), acts |-> FALSE]

\* The checks that look a thing up by the id in the expected payload.
ById(intents, tool) ==
    [intent \in intents |-> Check("id", tool, IF intent = "delete" THEN "gone" ELSE "there")]

-----------------------------------------------------------------------------
(* The record agents: objects, and the agents cloned from it.               *)

Search == "hubspot_search_objects"

RecordPreview ==
    Per(OnIntents({"search", "update", "delete"}, Shows(<<Only("type"), Call(Search)>>)),
        Shows(<<>>))

\* The payload is never asked for a record: it is searched for again.
RecordExecute ==
    Per("search" :> <<Only("type"), Call(Search)>>
        @@ "create" :> <<Only("type"), Call("hubspot_create_object")>>
        @@ "update" :> <<Only("type"), Find(Search), Call("hubspot_update_object")>>
        @@ "delete" :> <<Only("type"), Find(Search), Call("hubspot_delete_object")>>, <<>>)

RecordReconcile ==
    Per("create" :> Check("type", Search, "some") @@ "update" :> Check("type", Search, "same")
        @@ "delete" :> Check("type", Search, "none"), Unknown)

RecordAgent == Agent(RecordPreview, RecordExecute, RecordReconcile)

Objects        == RecordAgent
CustomObjects  == RecordAgent
Appointments   == RecordAgent
Carts          == RecordAgent
Communications == RecordAgent
Courses        == RecordAgent
Discounts      == RecordAgent
Fees           == RecordAgent
Goals          == RecordAgent
Invoices       == RecordAgent
Leads          == RecordAgent
Listings       == RecordAgent
Orders         == RecordAgent
Projects       == RecordAgent
Quotes         == RecordAgent
ServiceItems   == RecordAgent
Subscriptions  == RecordAgent
Taxes          == RecordAgent
TimelineEvents == RecordAgent

-----------------------------------------------------------------------------
(* Agents of one kind of thing: they list it for a search, and want an id   *)
(* in the payload to change it.  No preview ever proposes that id.          *)

Listing(tool) == "search" :> Shows(<<Call(tool)>>)

PipelinesPreview == Per(Listing("hubspot_list_pipelines"), Shows(<<>>))
PipelinesExecute ==
    Per("search" :> <<Call("hubspot_list_pipelines")>>
        @@ "create" :> <<Call("hubspot_create_pipeline")>>
        @@ "update" :> <<Need("id"), Call("hubspot_update_pipeline")>>, <<>>)
PipelinesReconcile == Per(ById(Writes, "hubspot_get_pipeline"), Unknown)

UsersPreview == Per(Listing("hubspot_list_users"), Shows(<<>>))
UsersExecute ==
    Per("search" :> <<Call("hubspot_list_users")>>
        @@ "create" :> <<Call("hubspot_create_user")>>
        @@ "update" :> <<Need("id"), Call("hubspot_update_user")>>
        @@ "delete" :> <<Need("id"), Call("hubspot_deactivate_user")>>, <<>>)
UsersReconcile == Per(ById(Writes, "hubspot_get_user"), Unknown)

ListsPreview == Per(Listing("hubspot_list_lists"), Shows(<<>>))
ListsExecute ==
    Per("search" :> <<Call("hubspot_list_lists")>>
        @@ "create" :> <<Call("hubspot_create_list")>>
        @@ "update" :> <<Need("id"), Call("hubspot_update_list")>>, <<>>)
ListsReconcile == Per(ById(Writes, "hubspot_get_list"), Unknown)

\* A name of a blueprint in the request becomes the payload's blueprint.
WorkflowsPreview ==
    Per(Listing("hubspot_list_workflows") @@ "create" :> Proposes({"blueprint"}), Shows(<<>>))

WorkflowsExecute ==
    Per("search" :> <<Call("hubspot_list_workflows")>>
        @@ "create" :> <<With("blueprint", "hubspot_create_workflow_from_blueprint",
                              "hubspot_create_workflow")>>
        @@ "update" :> <<Need("id"), Fetch("hubspot_get_workflow"),
                         Call("hubspot_update_workflow")>>, <<>>)
WorkflowsReconcile == Per(ById(Writes, "hubspot_get_workflow"), Unknown)

FormsPreview == Per(Listing("hubspot_list_forms") @@ "create" :> Proposes({"name"}), Shows(<<>>))
FormsExecute ==
    Per("search" :> <<Call("hubspot_list_forms")>>
        @@ "create" :> <<Call("hubspot_create_form")>>
        @@ "update" :> <<Refuse>>, <<>>)
FormsReconcile ==
    Per("create" :> Check("name", "hubspot_list_forms", "some")
        @@ ById({"delete"}, "hubspot_get_form"), Unknown)

\* The kind of resource and of engagement is the default: no preview sets another.
ServicePreview == Per(Listing("hubspot_list_kb_articles"), Shows(<<>>))
ServiceExecute ==
    Per("search" :> <<Call("hubspot_list_kb_articles")>>
        @@ "create" :> <<Call("hubspot_create_ticket_pipeline")>>, <<>>)
ServiceReconcile == Per(ById({"create", "delete"}, "hubspot_get_ticket_pipeline"), Unknown)

EngagementsPreview == Per(Listing("hubspot_search_engagements"), Shows(<<>>))
EngagementsExecute ==
    Per("search" :> <<Call("hubspot_search_engagements")>>
        @@ "create" :> <<Call("hubspot_create_note")>>, <<>>)
EngagementsReconcile == Per(ById({"create"}, "hubspot_get_engagement"), Unknown)

CommercePreview == Per(Listing("hubspot_list_payments"), Shows(<<>>))
CommerceExecute ==
    Per("search" :> <<Call("hubspot_list_payments")>>
        @@ "create" :> <<Call("hubspot_create_refund")>>, <<>>)
CommerceReconcile == Per(ById({"create"}, "hubspot_get_payment"), Unknown)

DataPreview == Per(Listing("hubspot_get_import_status"), Shows(<<>>))
DataExecute ==
    Per("search" :> <<Call("hubspot_get_import_status")>>
        @@ "create" :> <<Call("hubspot_import_data")>>, <<>>)
DataReconcile == Per(ById({"create"}, "hubspot_get_import_status"), Unknown)

DealSplitsPreview == Per(Listing("hubspot_batch_read_deal_splits"), Shows(<<>>))
DealSplitsExecute ==
    Per("search" :> <<Call("hubspot_batch_read_deal_splits")>>
        @@ OnIntents({"create", "update"}, <<Call("hubspot_batch_upsert_deal_splits")>>), <<>>)
\* the preview's inputs are empty
DealSplitsReconcile ==
    Per(OnIntents({"create", "update"},
                  Check("inputs", "hubspot_batch_read_deal_splits", "same")), Unknown)

-----------------------------------------------------------------------------
(* The others. *)

\* An update without records, which no preview proposes, does nothing.  The
\* merge of execute is left out: no text is classified as one.
HygienePreview ==
    Per(Listing("hubspot_find_duplicates")
        @@ "update" :> Shows(<<Call("hubspot_preview_segment")>>), Shows(<<>>))
HygieneExecute ==
    Per("search" :> <<Call("hubspot_find_duplicates")>>
        @@ "update" :> <<Only("records"), Call("hubspot_bulk_update_objects")>>, <<>>)
HygieneReconcile == OnIntents(Intents, Unknown)

\* A pair is two object types named in the request.
AssociationsPreview ==
    OnIntents(Intents, Shows(<<Only("pair"), Call("hubspot_get_association_schema")>>))
AssociationsExecute ==
    Per("create" :> <<Call("hubspot_associate_records")>>
        @@ "delete" :> <<Call("hubspot_disassociate_records")>>
        @@ "search" :> <<Only("pair"), Sample(Search),
                         Fetch("hubspot_list_associated_records")>>, <<>>)
AssociationsReconcile == OnIntents(Intents, Unknown)

\* Without a type of object, which only the objects agent is given, nothing.
PropertiesPreview ==
    Per("search" :> Shows(<<Only("type"), Call("hubspot_list_properties")>>), Shows(<<>>))
PropertiesExecute ==
    Per("search" :> <<Only("type"), Call("hubspot_list_properties")>>
        @@ "create" :> <<Only("type"), Call("hubspot_create_property")>>
        @@ "update" :> <<Only("type"), Need("property"), Call("hubspot_update_property")>>
        @@ "delete" :> <<Only("type"), Need("property"), Call("hubspot_delete_property")>>, <<>>)
\* (looked up only with a type as well; the comparison of values is left out)
PropertiesReconcile ==
    Per(OnIntents({"create", "update"}, Check("property", "hubspot_get_property", "there"))
        @@ "delete" :> Check("property", "hubspot_get_property", "gone"), Unknown)

RawApiPreview == OnIntents(Intents, Shows(<<>>))
RawApiExecute == OnIntents(Intents, <<Need("path"), Call(RawTool)>>)
RawApiReconcile == OnIntents(Intents, Unknown)

SequencesPreview == OnIntents(Intents, Shows(<<>>))
SequencesExecute == Nothing
SequencesReconcile == OnIntents(Intents, Unknown)

AnalyticsPreview == Per(Listing("hubspot_get_analytics_report"), Shows(<<>>))
SilentPreview == OnIntents(Intents, Shows(<<>>))

-----------------------------------------------------------------------------
(* The registries. *)

AgentRegistry ==
    "objects" :> Objects @@ "custom_objects" :> CustomObjects
    @@ "appointments" :> Appointments @@ "carts" :> Carts
    @@ "communications" :> Communications @@ "courses" :> Courses
    @@ "discounts" :> Discounts @@ "fees" :> Fees @@ "goals" :> Goals
    @@ "invoices" :> Invoices @@ "leads" :> Leads @@ "listings" :> Listings
    @@ "orders" :> Orders @@ "projects" :> Projects @@ "quotes" :> Quotes
    @@ "services" :> ServiceItems @@ "subscriptions" :> Subscriptions
    @@ "taxes" :> Taxes @@ "timeline_events" :> TimelineEvents
    @@ "pipelines" :> Agent(PipelinesPreview, PipelinesExecute, PipelinesReconcile)
    @@ "users" :> Agent(UsersPreview, UsersExecute, UsersReconcile)
    @@ "lists" :> Agent(ListsPreview, ListsExecute, ListsReconcile)
    @@ "workflows" :> Agent(WorkflowsPreview, WorkflowsExecute, WorkflowsReconcile)
    @@ "forms" :> Agent(FormsPreview, FormsExecute, FormsReconcile)
    @@ "service" :> Agent(ServicePreview, ServiceExecute, ServiceReconcile)
    @@ "engagements" :> Agent(EngagementsPreview, EngagementsExecute, EngagementsReconcile)
    @@ "commerce" :> Agent(CommercePreview, CommerceExecute, CommerceReconcile)
    @@ "data" :> Agent(DataPreview, DataExecute, DataReconcile)
    @@ "deal_splits" :> Agent(DealSplitsPreview, DealSplitsExecute, DealSplitsReconcile)
    @@ "hygiene" :> Agent(HygienePreview, HygieneExecute, HygieneReconcile)
    @@ "associations" :> Agent(AssociationsPreview, AssociationsExecute, AssociationsReconcile)
    @@ "properties" :> Agent(PropertiesPreview, PropertiesExecute, PropertiesReconcile)
    @@ "raw_api" :> Agent(RawApiPreview, RawApiExecute, RawApiReconcile)
    @@ "sequences" :> Agent(SequencesPreview, SequencesExecute, SequencesReconcile)
    @@ "analytics" :> ReadOnlyAgent(AnalyticsPreview)
    @@ [name \in {"account_info", "audit_logs", "email_events", "forecasts", "object_library",
                  "scheduler", "security_history"} |->
            ReadOnlyAgent(SilentPreview)]

\* The registry's own list of the tools each agent may call.  Agents that are not
\* in it are not checked for scopes.
AgentTools ==
    "objects" :> (DOMAIN ObjectTools \union DOMAIN BatchUpsert)
    @@ "properties" :> DOMAIN PropertyTools @@ "lists" :> DOMAIN ListTools
    @@ "workflows" :> (DOMAIN WorkflowTools \union DOMAIN BlueprintTools)
    @@ "pipelines" :> DOMAIN PipelineTools @@ "users" :> DOMAIN UserTools
    @@ "hygiene" :> (DOMAIN HygieneReads \union DOMAIN MergeObjects \union DOMAIN BulkUpdate)
    @@ "analytics" :> DOMAIN AnalyticsTools @@ "associations" :> DOMAIN AssociationTools
    @@ "engagements" :> DOMAIN EngagementTools @@ "service" :> DOMAIN ServiceTools
    @@ "forms" :> DOMAIN FormTools @@ "raw_api" :> {RawTool} @@ "custom_objects" :> {RawTool}
    @@ "commerce" :> DOMAIN CommerceTools @@ "data" :> DOMAIN DataTools
    @@ "deal_splits" :> DOMAIN DealSplitTools @@ "reporting" :> DOMAIN ReportingTools

AgentScopes(agent, type) ==
    IF agent \in DOMAIN AgentTools THEN RequiredScopes(AgentTools[agent], type) ELSE {}
=============================================================================
