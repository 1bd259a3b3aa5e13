----------------------------- MODULE MC_Client -----------------------------
(* Small instances of Client. *)
EXTENDS Client

CONSTANTS r, w
=============================================================================
