---------------------------- MODULE OrderedWrites ----------------------------
(***************************************************************************)
(* What the durable loop promises about the writes of its plans: they come *)
(* before a person one by one and in the order of the plan.  The next one  *)
(* comes only after a verdict found every one before it verified, the same *)
(* one again only after a verdict complained about it and only while it is *)
(* not known to have created a record, nothing after a discarded one, and  *)
(* no more of them than the budget allows.                                 *)
(*                                                                         *)
(* Of files, processes, commands and counts nothing is said here.          *)
(* DurableLoop implements this when one command is at work at a time and   *)
(* each runs to its end.                                                   *)
(***************************************************************************)
EXTENDS Integers, Sequences, FiniteSets

CONSTANTS
    Ids,    \* the action ids
    Loops,  \* the trace ids
    Plans,  \* the plans a loop may have
    Budget  \* how many writes a loop may put before a person

VARIABLES
    plan,     \* the plan of each loop
    write,    \* the loop and the step of each write
    fate,     \* what became of it
    known,    \* the writes that are known to have created a record
    verified, \* those a verdict found verified
    failed    \* those a verdict complained about

orderedVars == <<plan, write, fate, known, verified, failed>>

NoWrite == [step |-> 0]

Init ==
    /\ plan \in [Loops -> Plans]
    /\ write = [id \in Ids |-> NoWrite]
    /\ fate = [id \in Ids |-> "none"]
    /\ known = {} /\ verified = {} /\ failed = {}

WritesOf(loop) == {id \in Ids : write[id] # NoWrite /\ write[id].loop = loop}
Judged         == verified \cup failed

\* It is the turn of a step when every write of its loop was judged, the writes
\* before it were verified, and its own, if there were any, may be repeated.
ItsTurn(loop, step) ==
    /\ WritesOf(loop) \subseteq Judged
    /\ \A id \in WritesOf(loop) :
          /\ write[id].step <= step
          /\ write[id].step = step => id \in failed \ known
    /\ \A n \in 1 .. step - 1 : plan[loop][n] \in {"update", "create"} =>
          \E id \in verified : write[id] = [loop |-> loop, step |-> n]

Propose(id, loop, step) ==
    /\ write[id] = NoWrite
    /\ plan[loop][step] \in {"update", "create"}
    /\ ItsTurn(loop, step)
    /\ Cardinality(WritesOf(loop)) < Budget
    /\ write' = [write EXCEPT ![id] = [loop |-> loop, step |-> step]]
    /\ fate' = [fate EXCEPT ![id] = "pending"]
    /\ UNCHANGED <<plan, known, verified, failed>>

Becomes(id, from, to) == fate[id] = from /\ fate' = [fate EXCEPT ![id] = to]

Execute(id) ==
    /\ Becomes(id, "pending", "applied")
    /\ \/ UNCHANGED known
       \/ plan[write[id].loop][write[id].step] = "create" /\ known' = known \cup {id}
    /\ UNCHANGED <<plan, write, verified, failed>>

Discard(id) ==
    /\ Becomes(id, "pending", "discarded")
    /\ UNCHANGED <<plan, write, known, verified, failed>>

\* A write that was executed is judged once.
Judge(id) ==
    /\ fate[id] = "applied" /\ id \notin Judged
    /\ \/ verified' = verified \cup {id} /\ UNCHANGED failed
       \/ failed' = failed \cup {id} /\ UNCHANGED verified
    /\ UNCHANGED <<plan, write, fate, known>>

Next ==
    \/ \E id \in Ids, loop \in Loops : \E step \in DOMAIN plan[loop] : Propose(id, loop, step)
    \/ \E id \in Ids : Execute(id) \/ Discard(id) \/ Judge(id)

Spec == Init /\ [][Next]_orderedVars
=============================================================================
