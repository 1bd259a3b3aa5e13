--------------------------- MODULE MC_DurableLoop ---------------------------
(* Small instances of DurableLoop. *)
EXTENDS DurableLoop, TLC

ShortPlans == {<<"create">>, <<"update", "read">>, <<"read", "create">>}
LongPlans  == ShortPlans \cup {<<"update", "create">>, <<"read", "update">>, <<"read", "read", "read", "update">>}
BriefPlans == {<<"create">>, <<"update", "read">>}
OnePlan    == {<<"create", "update">>}

\* Action ids are interchangeable in every definition.
Interchangeable == Permutations(Ids)
=============================================================================
