--------------------------- MODULE LoopController ---------------------------
(***************************************************************************)
(* What LoopController decides after a write was verified, from the counts *)
(* in the loop state s and the verdict v.                                  *)
(*                                                                         *)
(* A verdict is its status and what it complains about.  api_call_count    *)
(* grows with step_count, so that MaxSteps stands for the smaller of       *)
(* max_steps and max_api_calls.                                            *)
(***************************************************************************)
EXTENDS Integers

CONSTANTS
    MaxIterations, MaxSteps, ErrorBudget, VerificationPlateau,
    Complaints \* what a verdict may say about a record

ASSUME LimitsAssumption ==
    {MaxIterations, MaxSteps, ErrorBudget, VerificationPlateau} \subseteq Int

Verdicts == [status : {"verified", "mismatch", "partial", "error"}, about : Complaints]

NoHash    == <<>>
Hash(v)   == IF v.status = "verified" THEN NoHash ELSE <<v.status, v.about>>
Hashes    == {NoHash} \cup ({"mismatch", "partial", "error"} \X Complaints)
Decisions == {"proceed", "retry", "escalate", "stop"}

Exhausted(s) == s.iterations >= MaxIterations \/ s.step_count >= MaxSteps

ErrorsExceeded(s) == s.last_error /\ s.iterations >= ErrorBudget

Plateau(s, v) ==
    IF Hash(v) = NoHash THEN 0
    ELSE IF Hash(v) = s.last_verification_hash THEN s.plateau_count + 1 ELSE 1

\* Seeded fault: a partly verified write is good enough.
DecisionOnLenient(status) ==
    IF status \in {"verified", "partial"} THEN "proceed"
    ELSE IF status = "error" THEN "escalate" ELSE "retry"

DecisionOn(status) ==
    IF status = "verified" THEN "proceed"
    ELSE IF status = "error" THEN "escalate" ELSE "retry"

\* Budgets come before the verdict: on an exhausted budget a verified write
\* stops the loop as well.
next_action(s, v) ==
    IF Exhausted(s) THEN "stop"
    ELSE IF ErrorsExceeded(s) \/ Plateau(s, v) >= VerificationPlateau THEN "escalate"
    ELSE DecisionOn(v.status)

\* What next_action leaves in the state it is given.
Remembered(s, v) ==
    IF Exhausted(s) \/ ErrorsExceeded(s) THEN s
    ELSE [s EXCEPT !.plateau_count = Plateau(s, v), !.last_verification_hash = Hash(v)]

record_iteration(s) == [s EXCEPT !.iterations = @ + 1]
=============================================================================
