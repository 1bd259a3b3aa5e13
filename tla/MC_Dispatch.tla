----------------------------- MODULE MC_Dispatch -----------------------------
EXTENDS Dispatch

CONSTANTS a, b

MCKeys == {a, b}
MCRecords == {"r1", "r2"}

\* Every tool, the raw one with each method, with and without a type (the two that
\* send batches with one only).
ToolCalls ==
    {ToolRequest(tool, "GET", type) : tool \in DOMAIN Effect \ {Upsert, Update},
                                      type \in {NoType, "contacts"}}
    \union {ToolRequest(tool, "GET", "contacts") : tool \in {Upsert, Update}}
    \union {ToolRequest(RawTool, method, NoType) : method \in Methods}

\* One of the agents cloned from objects stands for all of them.
Agents_ == {"objects", "carts", "custom_objects", "pipelines", "users", "lists", "workflows",
            "forms", "service", "engagements", "commerce", "data", "deal_splits", "hygiene",
            "associations", "properties", "raw_api", "sequences", "analytics", "audit_logs"}

\* <<action, rest>>: verbs of each class, verbs only a substring shows, a text that
\* says more than its action, and texts that name types or a blueprint.
Texts == {<<{"find", "contacts"}, {"companies"}>>, <<{"delete", "contacts"}, {}>>,
          <<{"remove"}, {"contacts"}>>, <<{"set", "contacts"}, {}>>, <<{"add", "contacts"}, {}>>,
          <<{"create"}, {"welcome"}>>, <<{"updates"}, {"contacts"}>>, <<{"contacts"}, {}>>,
          <<{"contacts"}, {"purge"}>>, <<{"contacts"}, {"new"}>>, <<{"delete"}, {"list"}>>}

MCRequests ==
    ToolCalls
    \union {TextRequest("step", agent, text[1], text[2], FALSE) : agent \in Agents_, text \in Texts}
    \union {TextRequest("ask", agent, text[1], text[2], FALSE) :
               agent \in Agents_, text \in {<<{"contacts"}, {}>>}}
    \union {TextRequest("step", agent, {"contacts"}, {"purge"}, TRUE) : agent \in Agents_}

AllScopes == UNION {ScopesFor(type)[tool] : tool \in ToolNames, type \in {NoType, "contacts"}}
MCGrants == {{}, AllScopes, {scope \in AllScopes : scope[3] = "read"},
             {scope \in AllScopes : scope[2] \notin {"deals", "lists", "notes"}}}

Record(key, id, spelling) == [key |-> key, id |-> id, spelling |-> spelling]
New(key)  == Record(key, FALSE, "low")
Loud(key) == Record(key, FALSE, "UP")
Held(key) == Record(key, TRUE, "low")
Odd(key)  == Record(key, TRUE, "UP")
Bare_     == Record(NoKey, FALSE, "")
Nameless  == Record(NoKey, TRUE, "")

\* Repeated keys in one and in two spellings, with and without ids, in one chunk
\* and in two; empty keys, which do not repeat, without ids and with (no bulk update
\* takes those); a list of updates alone.
MCInputs ==
    {<<New(a)>>, <<New(a), Loud(a)>>, <<New(a), New(b), Loud(a)>>, <<Bare_, Bare_, New(a)>>,
     <<New(a), Held(b), Odd(a)>>, <<Held(a), New(b), Bare_, Loud(b)>>, <<New(a), Bare_, Bare_, Held(b)>>,
     <<New(a), Nameless, Nameless>>, <<Held(a), Odd(a)>>, <<Held(a), Held(b), Odd(a)>>,
     <<Odd(a), Held(b), Odd(b)>>}

\* The tables are what they are here: nothing of them is small.
ASSUME TheTablesAgree == TablesAgree /\ ChecksFit
=============================================================================
