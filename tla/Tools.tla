------------------------------- MODULE Tools -------------------------------
(***************************************************************************)
(* The tools: what each of them does to HubSpot (tools/*.py), which OAuth   *)
(* scopes the registry asks for it (scope_registry.py) and how a handler    *)
(* decides from those tables whether a call has to pass the gate            *)
(* (handlers.py).  The tables were written independently of each other:     *)
(* Dispatch checks them against each other.                                 *)
(*                                                                          *)
(* A tool is described by its effect on HubSpot.  Paths, bodies and the     *)
(* wording of errors are left out; a tool whose input is refused before     *)
(* anything is sent answers like one HubSpot refused: with a result that    *)
(* has an "error" key.                                                      *)
(***************************************************************************)
EXTENDS Naturals, FiniteSets, Functions, TLC

CONSTANT NoType            \* a call that names no object type

\* reads: HubSpot is as before.  adds, alters, removes: it is not.
\* local: nothing is sent.
Reads   == "reads"
Adds    == "adds"
Alters  == "alters"
Removes == "removes"
Local   == "local"

All(names, what) == [name \in names |-> what]

-----------------------------------------------------------------------------
(* The tool modules, one definition each. *)

ObjectTools ==
    All({"hubspot_get_object", "hubspot_search_objects"}, Reads)
    @@ "hubspot_create_object" :> Adds
    @@ "hubspot_update_object" :> Alters
    @@ "hubspot_delete_object" :> Removes

BatchUpsert == "hubspot_batch_upsert_objects" :> Alters

HygieneReads == All({"hubspot_find_duplicates", "hubspot_preview_segment"}, Reads)
MergeObjects == "hubspot_merge_objects" :> Removes
BulkUpdate   == "hubspot_bulk_update_objects" :> Alters

PropertyTools ==
    All({"hubspot_get_property", "hubspot_list_properties"}, Reads)
    @@ "hubspot_create_property" :> Adds
    @@ "hubspot_update_property" :> Alters
    @@ "hubspot_delete_property" :> Removes

ListTools ==
    All({"hubspot_get_list", "hubspot_list_lists"}, Reads)
    @@ "hubspot_create_list" :> Adds
    @@ All({"hubspot_update_list", "hubspot_add_to_list",
            "hubspot_remove_from_list"}, Alters)

\* A body that does not convert to a V4 flow is refused before the request.
WorkflowTools ==
    All({"hubspot_get_workflow", "hubspot_list_workflows"}, Reads)
    @@ All({"hubspot_create_workflow",
            "hubspot_create_workflow_from_blueprint"}, Adds)
    @@ All({"hubspot_update_workflow", "hubspot_enroll_workflow",
            "hubspot_toggle_workflow"}, Alters)

\* Extracting reads a flow; the other two only touch drafts on the disk.
BlueprintTools ==
    "hubspot_extract_workflow_blueprint" :> Reads
    @@ All({"hubspot_parameterize_blueprint_draft",
            "hubspot_promote_blueprint_draft"}, Local)

PipelineTools ==
    All({"hubspot_get_pipeline", "hubspot_list_pipelines"}, Reads)
    @@ "hubspot_create_pipeline" :> Adds
    @@ All({"hubspot_update_pipeline", "hubspot_reorder_stages"}, Alters)

UserTools ==
    All({"hubspot_get_user", "hubspot_list_users"}, Reads)
    @@ "hubspot_create_user" :> Adds
    @@ "hubspot_update_user" :> Alters
    @@ "hubspot_deactivate_user" :> Removes

EngagementTools ==
    All({"hubspot_get_engagement", "hubspot_search_engagements"}, Reads)
    @@ All({"hubspot_create_note", "hubspot_create_task", "hubspot_create_email",
            "hubspot_create_meeting", "hubspot_create_call"}, Adds)

AssociationTools ==
    All({"hubspot_get_association_schema",
         "hubspot_list_associated_records"}, Reads)
    @@ All({"hubspot_create_association_schema",
            "hubspot_associate_records"}, Adds)
    @@ "hubspot_disassociate_records" :> Removes

FormTools ==
    All({"hubspot_list_forms", "hubspot_get_form"}, Reads)
    @@ "hubspot_create_form" :> Adds

ServiceTools ==
    All({"hubspot_get_knowledge_base_article", "hubspot_list_kb_articles",
         "hubspot_get_ticket_pipeline", "hubspot_list_service_automation",
         "hubspot_get_feedback_survey"}, Reads)
    @@ "hubspot_create_ticket_pipeline" :> Adds

AnalyticsTools ==
    "hubspot_get_analytics_report" :> Reads
    @@ All({"hubspot_calculate_metrics", "hubspot_pipeline_velocity"}, Local)

ReportingTools ==
    "hubspot_get_report" :> Reads
    @@ All({"hubspot_create_report", "hubspot_create_dashboard",
            "hubspot_schedule_email"}, Adds)

CommerceTools ==
    All({"hubspot_list_payments", "hubspot_get_payment"}, Reads)
    @@ "hubspot_create_refund" :> Adds

DataTools ==
    "hubspot_get_import_status" :> Reads
    @@ All({"hubspot_import_data", "hubspot_export_data"}, Adds)

\* Splits that do not sum to 1 are refused before the request.
DealSplitTools ==
    "hubspot_batch_read_deal_splits" :> Reads
    @@ "hubspot_batch_upsert_deal_splits" :> Alters

DocTools == "hubspot_docs_search" :> Local

Methods == {"GET", "POST", "PUT", "PATCH", "DELETE"}

\* The raw tool sends four methods; it answers PUT with an error of its own.
RawApi(method) ==
    CASE method = "GET"    -> Reads
      [] method = "POST"   -> Adds
      [] method = "PATCH"  -> Alters
      [] method = "DELETE" -> Removes
      [] method = "PUT"    -> Local

Effect == ObjectTools @@ BatchUpsert @@ HygieneReads @@ MergeObjects @@ BulkUpdate
          @@ PropertyTools @@ ListTools @@ WorkflowTools @@ BlueprintTools
          @@ PipelineTools @@ UserTools @@ EngagementTools @@ AssociationTools
          @@ FormTools @@ ServiceTools @@ AnalyticsTools @@ ReportingTools
          @@ CommerceTools @@ DataTools @@ DealSplitTools @@ DocTools

RawTool  == "hubspot_raw_api"
ToolNames == DOMAIN Effect \union {RawTool}

\* What a call does: only the raw tool looks at its method.
EffectOf(tool, method) == 
    IF tool = RawTool THEN RawApi(method) ELSE Effect[tool]

Changing == {Adds, Alters, Removes}

-----------------------------------------------------------------------------
(* The scope registry.  A scope is <<family, what, right>>; the scopes HubSpot *)
(* does not split by right ("automation", "tickets") have an empty right.      *)

StandardTypes == {"contacts", "companies", "deals", "tickets"}
Types(type) == IF type = NoType THEN StandardTypes ELSE {type}

ObjectScopes(rights, type) == {"objects"} \X Types(type) \X rights
SchemaScopes(rights, type) == {"schemas"} \X Types(type) \X rights
Crm(what, right) == {<<"crm", what, right>>}
Bare(name) == {<<name, "", "">>}

\* Every tool of `names` asks for `scopes`.
Asks(names, scopes) == [name \in names |-> scopes]

ObjectToolScopes(type) ==
    Asks({"hubspot_get_object", "hubspot_search_objects"}, ObjectScopes({"read"}, type))
    @@ Asks({"hubspot_create_object", "hubspot_update_object",
             "hubspot_batch_upsert_objects"}, ObjectScopes({"write"}, type))
    @@ "hubspot_delete_object" :> ObjectScopes({"write", "delete"}, type)

PropertyToolScopes(type) ==
    Asks({"hubspot_get_property", "hubspot_list_properties"}, SchemaScopes({"read"}, type))
    @@ Asks({"hubspot_create_property", "hubspot_update_property"},
            SchemaScopes({"write"}, type))
    @@ "hubspot_delete_property" :> SchemaScopes({"write", "delete"}, type)

ListToolScopes ==
    Asks({"hubspot_list_lists", "hubspot_get_list"}, Crm("lists", "read"))
    @@ Asks({"hubspot_create_list", "hubspot_update_list", "hubspot_add_to_list",
             "hubspot_remove_from_list"}, Crm("lists", "write"))

WorkflowToolScopes ==
    Asks(DOMAIN WorkflowTools \union {"hubspot_extract_workflow_blueprint"},
         Bare("automation"))
    @@ Asks({"hubspot_parameterize_blueprint_draft",
             "hubspot_promote_blueprint_draft"}, {})

PipelineToolScopes ==
    Asks({"hubspot_list_pipelines", "hubspot_get_pipeline",
          "hubspot_get_ticket_pipeline"}, Crm("pipelines.orders", "read"))
    @@ Asks({"hubspot_create_pipeline", "hubspot_update_pipeline",
             "hubspot_reorder_stages", "hubspot_create_ticket_pipeline"},
            Crm("pipelines.orders", "write"))

UserToolScopes ==
    Asks({"hubspot_list_users", "hubspot_get_user"}, Crm("settings.users", "read"))
    @@ Asks({"hubspot_create_user", "hubspot_update_user",
             "hubspot_deactivate_user"}, Crm("settings.users", "write"))

MailReading == Bare("sales-email-read")
EngagementToolScopes ==
    Asks({"hubspot_search_engagements", "hubspot_get_engagement"},
         MailReading \union ({"objects"} \X {"notes", "calls", "appointments", "tasks", "emails"}
                             \X {"read"}))
    @@ "hubspot_create_call" :> ObjectScopes({"write"}, "calls")
    @@ "hubspot_create_email" :> (ObjectScopes({"write"}, "emails") \union MailReading)
    @@ "hubspot_create_meeting" :> ObjectScopes({"write"}, "appointments")
    @@ "hubspot_create_note" :> ObjectScopes({"write"}, "notes")
    @@ "hubspot_create_task" :> ObjectScopes({"write"}, "tasks")

\* tickets have one scope for both rights
Linked(right) == Bare("tickets") \union ({"objects"} \X {"contacts", "companies", "deals"} \X {right})
AssociationToolScopes ==
    Asks({"hubspot_get_association_schema", "hubspot_list_associated_records"},
         Linked("read"))
    @@ Asks({"hubspot_create_association_schema", "hubspot_associate_records",
             "hubspot_disassociate_records"}, Linked("write"))

HygieneToolScopes(type) ==
    Asks(DOMAIN HygieneReads, ObjectScopes({"read"}, type))
    @@ "hubspot_merge_objects" :> ObjectScopes({"write", "delete"}, type)
    @@ "hubspot_bulk_update_objects" :> ObjectScopes({"write"}, type)

ReportingToolScopes ==
    Asks(DOMAIN AnalyticsTools \union {"hubspot_create_report", "hubspot_get_report",
                                       "hubspot_create_dashboard"},
         ObjectScopes({"read"}, "deals"))
    @@ "hubspot_schedule_email" :> Crm("settings.users", "read")

UnscopedTools ==
    Asks(DOMAIN FormTools \union DOMAIN DocTools \union DOMAIN CommerceTools
         \union DOMAIN DataTools \union {RawTool}
         \union (DOMAIN ServiceTools \ DOMAIN PipelineToolScopes), {})

DealSplitToolScopes ==
    "hubspot_batch_read_deal_splits" :> ObjectScopes({"read"}, "deals")
    @@ "hubspot_batch_upsert_deal_splits" :> ObjectScopes({"write"}, "deals")

ScopesFor(type) ==
    ObjectToolScopes(type) @@ PropertyToolScopes(type) @@ ListToolScopes
    @@ WorkflowToolScopes @@ PipelineToolScopes @@ UserToolScopes
    @@ EngagementToolScopes @@ AssociationToolScopes @@ HygieneToolScopes(type)
    @@ ReportingToolScopes @@ UnscopedTools @@ DealSplitToolScopes

\* get_required_scopes: the union over a set of tools.
RequiredScopes(tools, type) == UNION {ScopesFor(type)[tool] : tool \in tools}

-----------------------------------------------------------------------------
(* Which calls have to pass the gate. *)

\* Writes whose scopes do not end in write or delete.
WriteTools == {"hubspot_create_workflow", "hubspot_update_workflow",
               "hubspot_enroll_workflow", "hubspot_toggle_workflow",
               "hubspot_create_workflow_from_blueprint", "hubspot_create_refund",
               "hubspot_import_data", "hubspot_export_data", "hubspot_create_form",
               "hubspot_create_report", "hubspot_create_dashboard",
               "hubspot_schedule_email"}
RawWriteMethods == {"POST", "PUT", "PATCH", "DELETE"}

HasRight(scopes, right) == \E scope \in scopes : scope[3] = right

IsWriteTool(tool, method, type) ==
    IF tool = RawTool
    THEN method \in RawWriteMethods
    ELSE \/ tool \in WriteTools
         \/ \E right \in {"write", "delete"} : HasRight(ScopesFor(type)[tool], right)

IsDestructive(tool, method, type) ==
    \/ tool = RawTool /\ method = "DELETE"
    \/ HasRight(ScopesFor(type)[tool], "delete")

\* Tools whose names say that they create: an undo is to delete what they made.
CreateNamed ==
    {"hubspot_create_object", "hubspot_create_property", "hubspot_create_list",
     "hubspot_create_workflow", "hubspot_create_workflow_from_blueprint",
     "hubspot_create_pipeline", "hubspot_create_user", "hubspot_create_note",
     "hubspot_create_task", "hubspot_create_email", "hubspot_create_meeting",
     "hubspot_create_call", "hubspot_create_association_schema", "hubspot_create_form",
     "hubspot_create_ticket_pipeline", "hubspot_create_report", "hubspot_create_dashboard",
     "hubspot_create_refund"}

\* Tools whose preview reads the values they will change, if a type is named.
Capturing == {"hubspot_update_object", "hubspot_bulk_update_objects"}

\* The policy that ships never lets these go without a human; no file takes one off.
NeverAuto == {"hubspot_create_workflow", "hubspot_update_workflow", "hubspot_toggle_workflow",
              "hubspot_enroll_workflow", "hubspot_create_workflow_from_blueprint"}

\* The calls that may be of the AUTO tier.  Whether one is depends on its properties,
\* on how many records it names and on the values its preview got to read (Policy).
MayAutoApply(tool, method, type) ==
    /\ ~IsDestructive(tool, method, type) /\ tool \notin NeverAuto
    /\ tool \in CreateNamed \/ (tool \in Capturing /\ type # NoType)

\* Without a list of granted scopes (an OAuth portal) nothing is checked.
ScopesMissing(granted, tools, type) ==
    IF granted = {} THEN {} ELSE RequiredScopes(tools, type) \ granted
=============================================================================
