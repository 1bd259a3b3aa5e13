--------------------------- MODULE MC_PatternWrite ---------------------------
(* A small instance of PatternWrite: a rule that fills every record, one     *)
(* that empties the first, and one that names none.                          *)
EXTENDS PatternWrite, TLC

CONSTANT x

OnAll   == [r \in Records |-> x]
OnFirst == [r \in {1} |-> Empty]
OnNone  == [r \in {} |-> x]
MCRules == {OnAll, OnFirst, OnNone}

\* Records that differ come of the first edit or batch.
MCContents == {[r \in Records |-> v] : v \in Values}

\* Ids and processes are interchangeable in every definition.
Interchangeable == Permutations(Ids) \cup Permutations(Procs)
=============================================================================
