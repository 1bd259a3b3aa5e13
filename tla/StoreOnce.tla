------------------------------ MODULE StoreOnce ------------------------------
(***************************************************************************)
(* What a `tool` call promises, whoever runs it: a write goes its way, once *)
(* and under the portal it asked for, from the preview to the change to the *)
(* preview's removal, or stops on it; and its caller is told once, what is  *)
(* the case.  Nothing moves after that, unless the caller was warned.       *)
(*                                                                          *)
(* Of daemons, sockets and retries nothing is said here.  Daemon implements *)
(* this.                                                                    *)
(***************************************************************************)
EXTENDS Naturals, Sequences

CONSTANTS
    Calls,
    kind,   \* call -> "write" or "read"
    target  \* call -> the portal it is for

VARIABLES
    write,  \* call -> the portals it has a preview under, and how often it made its change
    told    \* call -> "none" yet, or what its caller was told

callVars == <<write, told>>

\* Nothing yet; the preview; the change, made before the preview is removed; and
\* the change alone.
Way(c) == << [stored |-> <<>>, made |-> 0], [stored |-> <<target[c]>>, made |-> 0],
             [stored |-> <<target[c]>>, made |-> 1], [stored |-> <<>>, made |-> 1] >>

Init ==
    /\ write = [c \in Calls |-> Way(c)[1]]
    /\ told = [c \in Calls |-> "none"]

\* Only a caller who was warned may be overtaken by its write.
Goes(c) ==
    /\ kind[c] = "write" /\ told[c] \in {"none", "warned"}
    /\ \E i, j \in 1..4 : /\ i < j /\ write[c] = Way(c)[i]
                          /\ write' = [write EXCEPT ![c] = Way(c)[j]]

\* "named" is an error that names the pending preview, "fault" an error of the
\* disk or of closing the client after the store, and "other" whatever else.
Fits(c, out, at) ==
    /\ out = "preview" => at = Way(c)[2]
    /\ out = "applied" => at = Way(c)[4]
    /\ out = "named"   => at \in {Way(c)[2], Way(c)[3]}
    /\ out = "fault"   => at # Way(c)[1]
    /\ out = "other"   => at = Way(c)[1]
    /\ out = "warned"  => kind[c] = "write"

Tells(c) ==
    \E out \in {"preview", "applied", "named", "fault", "warned", "other"} :
        /\ told[c] = "none"
        /\ told' = [told EXCEPT ![c] = out]
        /\ Fits(c, out, write'[c])

Next ==
    \E c \in Calls :
        /\ UNCHANGED write \/ Goes(c)
        /\ UNCHANGED told \/ Tells(c)

Spec == Init /\ [][Next]_callVars
=============================================================================
