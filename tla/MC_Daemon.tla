----------------------------- MODULE MC_Daemon -----------------------------
(* Small instances of Daemon: two portals share one socket. *)
EXTENDS Daemon

CONSTANTS w, r, A, B

MCKind   == [c \in Callers |-> IF c = r THEN "read" ELSE "write"]
MCTarget == [c \in Callers |-> IF c = r THEN B ELSE A]
=============================================================================
