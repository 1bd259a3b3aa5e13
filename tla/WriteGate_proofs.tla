-------------------------- MODULE WriteGate_proofs --------------------------
(* Theorems about WriteGate, for any number of processes, writes and faults. *)
EXTENDS WriteGate, TLAPS

USE DEF files, hubspot, human

\* classify_write answers with a tier.
LEMMA ClassifyTier ==
    ASSUME NEW preview, NEW p \in ApprovalPolicy
    PROVE  classify_write(preview, p) \in Tiers
<1>1. sensitive_tier(p) \in Tiers
  BY DEF sensitive_tier, Tiers
<1> QED
  BY <1>1 DEF classify_write, Tiers

\* What is stored for a proposal is a request, and is not the empty one.
LEMMA StoredType ==
    ASSUME NEW proposal \in Requests, NEW tier \in Tiers \cup {Unclassified}
    PROVE  Stored(proposal, tier) \in StoredRequest
  BY WriteGateAssumption DEF Stored, StoredRequest, Proposal

LEMMA StoredIsRequest == NoRequest \notin StoredRequest
  BY DEF NoRequest, StoredRequest

LEMMA WorkIsNotIdle == Idle \notin Work
  BY DEF Idle, Work, Steps

\* A process at a step works on a write.
LEMMA Worker ==
    ASSUME TypeOK, NEW p \in Procs, NEW step \in Steps, At(p, step)
    PROVE  proc[p] # Idle /\ proc[p].at = step /\ \E id \in Ids : proc[p].id = id
<1>1. proc[p] # Idle
  BY DEF At, Idle, Steps
<1> QED
  BY <1>1 DEF TypeOK, Work, At

\* The files, the history and the processes keep their types (TypeOK).
THEOREM TypeCorrect == Spec => []TypeOK
<1>1. Init => TypeOK
  <2> SUFFICES ASSUME Init PROVE TypeOK
    OBVIOUS
  <2>1. \A old \in Requests : Stored(old, Unclassified) \in StoredRequest
    BY StoredType
  <2> QED
    BY <2>1 DEF Init, TypeOK
<1>2. TypeOK /\ [Next]_vars => TypeOK'
  <2> SUFFICES ASSUME TypeOK, [Next]_vars PROVE TypeOK'
    OBVIOUS
  <2> USE WorkIsNotIdle DEF TypeOK, Goto, Return, At, Work, Steps, Counts, Idle
  <2>1. ASSUME NEW p \in Procs, NEW id \in Ids, NEW proposal \in Requests,
               Propose(p, id, proposal)
        PROVE  TypeOK'
    <3>1. Stored(proposal, classify_write(proposal.preview, policy)) \in StoredRequest
      BY ClassifyTier, StoredType, WriteGateAssumption
    <3> QED
      BY <2>1, <3>1, StoredIsRequest DEF Propose
  <2>2. ASSUME NEW p \in Procs, NEW id \in Ids, NEW count \in Counts, Approve(p, id, count)
        PROVE  TypeOK'
    BY <2>2 DEF Approve, Gate
  <2>3. ASSUME NEW p \in Procs, NEW id \in Ids, Reject(p, id) PROVE TypeOK'
    BY <2>3 DEF Reject, MayStart
  <2>4. ASSUME NEW p \in Procs, NEW id \in Ids, Undo(p, id) PROVE TypeOK'
    BY <2>4 DEF Undo, MayStart, Undoable
  <2>5. ASSUME NEW p \in Procs, AutoApply(p) PROVE TypeOK'
    BY <2>5 DEF AutoApply, Gate
  <2>6. ASSUME NEW p \in Procs, ConfirmCount(p) PROVE TypeOK'
    BY <2>6 DEF ConfirmCount
  <2>7. ASSUME NEW p \in Procs, SaveSnapshot(p) PROVE TypeOK'
    BY <2>7 DEF SaveSnapshot, Snapshots
  <2>8. ASSUME NEW p \in Procs, HubSpotApplies(p) PROVE TypeOK'
    BY <2>8 DEF HubSpotApplies, AfterSuccess, AfterError
  <2>9. ASSUME NEW p \in Procs, HubSpotRefuses(p) PROVE TypeOK'
    BY <2>9 DEF HubSpotRefuses, AfterError
  <2>10. ASSUME NEW p \in Procs, DropSnapshot(p) PROVE TypeOK'
    BY <2>10 DEF DropSnapshot, Snapshots
  <2>11. ASSUME NEW p \in Procs, RecordCreated(p) PROVE TypeOK'
    BY <2>11 DEF RecordCreated
  <2>12. ASSUME NEW p \in Procs, ClearPending(p) PROVE TypeOK'
    BY <2>12 DEF ClearPending
  <2>13. ASSUME NEW p \in Procs, LogApprove(p) PROVE TypeOK'
    BY <2>13 DEF LogApprove
  <2>14. ASSUME NEW p \in Procs, ClearRejected(p) PROVE TypeOK'
    BY <2>14 DEF ClearRejected
  <2>15. ASSUME NEW p \in Procs, Restore(p) PROVE TypeOK'
    BY <2>15 DEF Restore
  <2>16. ASSUME NEW p \in Procs, ConsumeSnapshot(p) PROVE TypeOK'
    BY <2>16 DEF ConsumeSnapshot
  <2>17. ASSUME NEW p \in Procs, LogUndo(p) PROVE TypeOK'
    BY <2>17 DEF LogUndo
  <2>18. ASSUME NEW p \in Procs, Crash(p) PROVE TypeOK'
    BY <2>18 DEF Crash
  <2>19. ASSUME NEW id \in Ids, Expire(id) PROVE TypeOK'
    BY <2>19 DEF Expire
  <2>20. ASSUME Reap PROVE TypeOK'
    BY <2>20 DEF Reap
  <2>21. ASSUME UNCHANGED vars PROVE TypeOK'
    BY <2>21 DEF vars
  <2> QED
    BY <2>1, <2>2, <2>3, <2>4, <2>5, <2>6, <2>7, <2>8, <2>9, <2>10, <2>11, <2>12, <2>13,
       <2>14, <2>15, <2>16, <2>17, <2>18, <2>19, <2>20, <2>21
       DEF Next, Continue, Start
<1> QED
  BY <1>1, <1>2, PTL DEF Spec
-----------------------------------------------------------------------------
(* The gate *)

\* The steps of an approval that lie behind the gate.
PastGate == {"save", "send", "failed", "record", "clear", "audit"}

\* The gate was opened for this write.
Licensed(id) ==
    /\ NeedsCount(request[id]) => id \in typed
    /\ id \notin asked => AutoApplies(request[id])

\* GateHonoured is about effects only.  What makes it inductive: the tier on
\* disk is at least as strict as the risk, a confirmed_count on disk was typed,
\* and a process that is on its way to HubSpot passed the gate.
GateInv ==
    /\ \A id \in Ids : request[id] # NoRequest /\ request[id].preview.destructive =>
          request[id].tier \in {FULL_GATE, Unclassified}
    /\ confirmed \subseteq typed
    /\ \A p \in Procs : proc[p] # Idle =>
          /\ proc[p].at = "auto" => AutoApplies(request[proc[p].id])
          /\ proc[p].at = "confirm" =>
                proc[p].id \in asked /\ (proc[p].count = "right" => proc[p].id \in typed)
          /\ proc[p].at \in PastGate => Licensed(proc[p].id)
    /\ \A id \in Ids : applied[id] > 0 => request[id] # NoRequest /\ Licensed(id)

\* The gate's invariant holds of every run.
THEOREM GateInvariant == Spec => []GateInv
<1>1. Init => GateInv
  <2>1. ASSUME NEW old \in Requests PROVE Stored(old, Unclassified).tier = Unclassified
    BY DEF Stored
  <2> QED
    BY <2>1 DEF Init, GateInv, Idle
<1>2. TypeOK /\ GateInv /\ [Next]_vars => GateInv'
  <2> SUFFICES ASSUME TypeOK, GateInv, [Next]_vars PROVE GateInv'
    OBVIOUS
  <2> USE WorkIsNotIdle DEF TypeOK, GateInv, Goto, Return, At, Work, Steps, Counts, Idle,
          PastGate, Licensed
  <2>1. ASSUME NEW p \in Procs, NEW id \in Ids, NEW proposal \in Requests, Propose(p, id, proposal)
        PROVE  GateInv'
    <3> DEFINE stored == Stored(proposal, classify_write(proposal.preview, policy))
    <3>1. /\ classify_write(proposal.preview, policy) \in Tiers
          /\ stored \in StoredRequest
      BY ClassifyTier, StoredType, WriteGateAssumption
    <3>2. stored.preview.destructive => stored.tier = FULL_GATE
      BY DEF Stored, classify_write
    <3> QED
      BY <2>1, <3>1, <3>2, StoredIsRequest DEF Propose
  <2>2. ASSUME NEW p \in Procs, NEW id \in Ids, NEW count \in Counts, Approve(p, id, count)
        PROVE  GateInv'
    BY <2>2 DEF Approve, Gate, MayStart
  <2>3. ASSUME NEW p \in Procs, NEW id \in Ids, Reject(p, id) PROVE GateInv'
    BY <2>3 DEF Reject, MayStart
  <2>4. ASSUME NEW p \in Procs, NEW id \in Ids, Undo(p, id) PROVE GateInv'
    BY <2>4 DEF Undo, MayStart
  <2>5. ASSUME NEW p \in Procs, AutoApply(p) PROVE GateInv'
    BY <2>5 DEF AutoApply, Gate
  <2>6. ASSUME NEW p \in Procs, ConfirmCount(p) PROVE GateInv'
    BY <2>6 DEF ConfirmCount
  <2>7. ASSUME NEW p \in Procs, SaveSnapshot(p) PROVE GateInv'
    <3> DEFINE id == proc[p].id
    <3>1. /\ proc[p] # Idle /\ proc[p].at = "save"
          /\ UNCHANGED <<request, pending, confirmed, expired, audited, undoAudited, hubspot,
                         auditFailed, human>>
      BY <2>7 DEF SaveSnapshot
    <3>2. CASE Snapshots(id) /\ snapshot' = [snapshot EXCEPT ![id] = "saved"] /\ Goto(p, "send", id, "none")
      BY <3>1, <3>2 DEF hubspot, human, Snapshots
    <3>3. CASE Return(p) /\ UNCHANGED snapshot
      BY <3>1, <3>3 DEF hubspot, human
    <3>4. CASE ~Snapshots(id) /\ Goto(p, "send", id, "none") /\ UNCHANGED snapshot
      BY <3>1, <3>4 DEF hubspot, human
    <3> QED
      BY <2>7, <3>2, <3>3, <3>4 DEF SaveSnapshot
  <2>8. ASSUME NEW p \in Procs, HubSpotApplies(p) PROVE GateInv'
    BY <2>8 DEF HubSpotApplies, AfterSuccess, AfterError
  <2>9. ASSUME NEW p \in Procs, HubSpotRefuses(p) PROVE GateInv'
    BY <2>9 DEF HubSpotRefuses, AfterError
  <2>10. ASSUME NEW p \in Procs, DropSnapshot(p) PROVE GateInv'
    BY <2>10 DEF DropSnapshot, Snapshots
  <2>11. ASSUME NEW p \in Procs, RecordCreated(p) PROVE GateInv'
    BY <2>11 DEF RecordCreated
  <2>12. ASSUME NEW p \in Procs, ClearPending(p) PROVE GateInv'
    BY <2>12 DEF ClearPending
  <2>13. ASSUME NEW p \in Procs, LogApprove(p) PROVE GateInv'
    BY <2>13 DEF LogApprove
  <2>14. ASSUME NEW p \in Procs, ClearRejected(p) PROVE GateInv'
    BY <2>14 DEF ClearRejected
  <2>15. ASSUME NEW p \in Procs, Restore(p) PROVE GateInv'
    BY <2>15 DEF Restore
  <2>16. ASSUME NEW p \in Procs, ConsumeSnapshot(p) PROVE GateInv'
    BY <2>16 DEF ConsumeSnapshot
  <2>17. ASSUME NEW p \in Procs, LogUndo(p) PROVE GateInv'
    BY <2>17 DEF LogUndo
  <2>18. ASSUME NEW p \in Procs, Crash(p) PROVE GateInv'
    BY <2>18 DEF Crash
  <2>19. ASSUME NEW id \in Ids, Expire(id) PROVE GateInv'
    BY <2>19 DEF Expire
  <2>20. ASSUME Reap PROVE GateInv'
    BY <2>20 DEF Reap
  <2>21. ASSUME UNCHANGED vars PROVE GateInv'
    BY <2>21 DEF vars
  <2> HIDE DEF TypeOK, GateInv, Goto, Return, At, Work, Steps, Counts, Idle, PastGate, Licensed
  <2> QED
    BY <2>1, <2>2, <2>3, <2>4, <2>5, <2>6, <2>7, <2>8, <2>9, <2>10, <2>11, <2>12, <2>13,
       <2>14, <2>15, <2>16, <2>17, <2>18, <2>19, <2>20, <2>21 DEF Next, Continue, Start
<1> QED
  BY <1>1, <1>2, TypeCorrect, PTL DEF Spec

\* No write reaches HubSpot past the gate, whatever overlaps and fails.
THEOREM GateIsHonoured == Spec => []GateHonoured
<1>1. TypeOK /\ GateInv => GateHonoured
  BY DEF TypeOK, GateInv, GateHonoured, Licensed, NeedsCount, AutoApplies, Tiers,
         Unclassified, AUTO, CONFIRM, FULL_GATE
<1> QED
  BY <1>1, TypeCorrect, GateInvariant, PTL
-----------------------------------------------------------------------------
(* Effects, and what is said about them *)

\* A process that is past the call knows what HubSpot did: a tool write only
\* gets there with an effect, an undo only after a restore.
EffectInv ==
    /\ \A p \in Procs : proc[p] # Idle =>
          /\ proc[p].at \in {"record", "clear", "audit"} /\ request[proc[p].id].path = "tool"
                => applied[proc[p].id] > 0
          /\ proc[p].at \in {"consume", "log_undo"} => proc[p].id \in undone
    /\ \A id \in audited \cup auditFailed :
          request[id] # NoRequest /\ (request[id].path = "tool" => applied[id] > 0)
    /\ undoAudited \subseteq undone
    /\ \A id \in Ids : request[id].path = "tool" /\ id \notin pending => HasReason(id)

\* It holds of every run.
THEOREM EffectInvariant == Spec => []EffectInv
<1>1. Init => EffectInv
  BY DEF Init, EffectInv, Idle, NoRequest
<1>2. TypeOK /\ EffectInv /\ [Next]_vars => EffectInv'
  <2> SUFFICES ASSUME TypeOK, EffectInv, [Next]_vars PROVE EffectInv'
    OBVIOUS
  <2> USE WorkIsNotIdle DEF TypeOK, EffectInv, HasReason, Goto, Return, At, Work, Steps, Counts,
          Idle
  <2>1. ASSUME NEW p \in Procs, NEW id \in Ids, NEW proposal \in Requests,
               Propose(p, id, proposal)
        PROVE  EffectInv'
    <3>1. Stored(proposal, classify_write(proposal.preview, policy)) \in StoredRequest
      BY ClassifyTier, StoredType, WriteGateAssumption
    <3> QED
      BY <2>1, <3>1, StoredIsRequest DEF Propose
  <2>2. ASSUME NEW p \in Procs, NEW id \in Ids, NEW count \in Counts, Approve(p, id, count)
        PROVE  EffectInv'
    BY <2>2 DEF Approve, Gate, MayStart
  <2>3. ASSUME NEW p \in Procs, NEW id \in Ids, Reject(p, id) PROVE EffectInv'
    BY <2>3 DEF Reject, MayStart
  <2>4. ASSUME NEW p \in Procs, NEW id \in Ids, Undo(p, id) PROVE EffectInv'
    BY <2>4 DEF Undo, MayStart
  <2>5. ASSUME NEW p \in Procs, AutoApply(p) PROVE EffectInv'
    BY <2>5 DEF AutoApply, Gate
  <2>6. ASSUME NEW p \in Procs, ConfirmCount(p) PROVE EffectInv'
    BY <2>6 DEF ConfirmCount
  <2>7. ASSUME NEW p \in Procs, SaveSnapshot(p) PROVE EffectInv'
    <3> DEFINE id == proc[p].id
    <3>1. /\ proc[p] # Idle /\ proc[p].at = "save"
          /\ UNCHANGED <<request, pending, confirmed, expired, audited, undoAudited, hubspot,
                         auditFailed, human>>
      BY <2>7 DEF SaveSnapshot
    <3>2. CASE Snapshots(id) /\ snapshot' = [snapshot EXCEPT ![id] = "saved"] /\ Goto(p, "send", id, "none")
      BY <3>1, <3>2 DEF hubspot, human, Snapshots
    <3>3. CASE Return(p) /\ UNCHANGED snapshot
      BY <3>1, <3>3 DEF hubspot, human
    <3>4. CASE ~Snapshots(id) /\ Goto(p, "send", id, "none") /\ UNCHANGED snapshot
      BY <3>1, <3>4 DEF hubspot, human
    <3> QED
      BY <2>7, <3>2, <3>3, <3>4 DEF SaveSnapshot
  <2>8. ASSUME NEW p \in Procs, HubSpotApplies(p) PROVE EffectInv'
    BY <2>8 DEF HubSpotApplies, AfterSuccess, AfterError
  <2>9. ASSUME NEW p \in Procs, HubSpotRefuses(p) PROVE EffectInv'
    BY <2>9 DEF HubSpotRefuses, AfterError
  <2>10. ASSUME NEW p \in Procs, DropSnapshot(p) PROVE EffectInv'
    BY <2>10 DEF DropSnapshot, Snapshots
  <2>11. ASSUME NEW p \in Procs, RecordCreated(p) PROVE EffectInv'
    BY <2>11 DEF RecordCreated
  <2>12. ASSUME NEW p \in Procs, ClearPending(p) PROVE EffectInv'
    BY <2>12 DEF ClearPending
  <2>13. ASSUME NEW p \in Procs, LogApprove(p) PROVE EffectInv'
    BY <2>13 DEF LogApprove
  <2>14. ASSUME NEW p \in Procs, ClearRejected(p) PROVE EffectInv'
    BY <2>14 DEF ClearRejected
  <2>15. ASSUME NEW p \in Procs, Restore(p) PROVE EffectInv'
    BY <2>15 DEF Restore
  <2>16. ASSUME NEW p \in Procs, ConsumeSnapshot(p) PROVE EffectInv'
    BY <2>16 DEF ConsumeSnapshot
  <2>17. ASSUME NEW p \in Procs, LogUndo(p) PROVE EffectInv'
    BY <2>17 DEF LogUndo
  <2>18. ASSUME NEW p \in Procs, Crash(p) PROVE EffectInv'
    BY <2>18 DEF Crash
  <2>19. ASSUME NEW id \in Ids, Expire(id) PROVE EffectInv'
    BY <2>19 DEF Expire
  <2>20. ASSUME Reap PROVE EffectInv'
    BY <2>20 DEF Reap
  <2>21. ASSUME UNCHANGED vars PROVE EffectInv'
    BY <2>21 DEF vars
  <2> HIDE DEF TypeOK, EffectInv, HasReason, Goto, Return, At, Work, Steps, Counts, Idle
  <2> QED
    BY <2>1, <2>2, <2>3, <2>4, <2>5, <2>6, <2>7, <2>8, <2>9, <2>10, <2>11, <2>12,
       <2>13, <2>14, <2>15, <2>16, <2>17, <2>18, <2>19, <2>20, <2>21
    DEF Next, Continue, Start
<1> QED
  BY <1>1, <1>2, TypeCorrect, PTL DEF Spec

\* Whatever overlaps and fails, the audit log is truthful.
THEOREM AuditTellsTheTruth == Spec => []AuditIsTruthful
<1>1. EffectInv => AuditIsTruthful
  BY DEF EffectInv, AuditIsTruthful
<1> QED
  BY <1>1, EffectInvariant, PTL

\* Whatever overlaps and fails, no staged tool write disappears without a reason.
THEOREM NoWriteVanishes == Spec => []NothingVanishes
<1>1. EffectInv => NothingVanishes
  BY DEF EffectInv, NothingVanishes
<1> QED
  BY <1>1, EffectInvariant, PTL

\* A preview that is gone never comes back, whatever overlaps and fails.
THEOREM GoneIsGone == Spec => NoResurrection
<1> DEFINE Stays ==
      \A id \in Ids : request[id] # NoRequest /\ id \notin pending => id \notin pending'
<1>1. TypeOK /\ [Next]_vars => Stays
  <2> SUFFICES ASSUME TypeOK, [Next]_vars PROVE Stays
    OBVIOUS
  <2> USE DEF TypeOK
  <2>1. ASSUME NEW p \in Procs, NEW id \in Ids, NEW proposal \in Requests,
               Propose(p, id, proposal)
        PROVE  Stays
    BY <2>1 DEF Propose
  <2>2. ASSUME NEW p \in Procs, NEW id \in Ids, NEW count \in Counts, Approve(p, id, count)
        PROVE  Stays
    BY <2>2 DEF Approve, Gate, MayStart
  <2>3. ASSUME NEW p \in Procs, NEW id \in Ids, Reject(p, id) PROVE Stays
    BY <2>3 DEF Reject, MayStart
  <2>4. ASSUME NEW p \in Procs, NEW id \in Ids, Undo(p, id) PROVE Stays
    BY <2>4 DEF Undo, MayStart
  <2>5. ASSUME NEW p \in Procs, AutoApply(p) PROVE Stays
    BY <2>5 DEF AutoApply, Gate
  <2>6. ASSUME NEW p \in Procs, ConfirmCount(p) PROVE Stays
    BY <2>6 DEF ConfirmCount
  <2>7. ASSUME NEW p \in Procs, SaveSnapshot(p) PROVE Stays
    BY <2>7 DEF SaveSnapshot, Snapshots
  <2>8. ASSUME NEW p \in Procs, HubSpotApplies(p) PROVE Stays
    BY <2>8 DEF HubSpotApplies, AfterSuccess, AfterError
  <2>9. ASSUME NEW p \in Procs, HubSpotRefuses(p) PROVE Stays
    BY <2>9 DEF HubSpotRefuses, AfterError
  <2>10. ASSUME NEW p \in Procs, DropSnapshot(p) PROVE Stays
    BY <2>10 DEF DropSnapshot, Snapshots
  <2>11. ASSUME NEW p \in Procs, RecordCreated(p) PROVE Stays
    BY <2>11 DEF RecordCreated
  <2>12. ASSUME NEW p \in Procs, ClearPending(p) PROVE Stays
    BY <2>12 DEF ClearPending
  <2>13. ASSUME NEW p \in Procs, LogApprove(p) PROVE Stays
    BY <2>13 DEF LogApprove
  <2>14. ASSUME NEW p \in Procs, ClearRejected(p) PROVE Stays
    BY <2>14 DEF ClearRejected
  <2>15. ASSUME NEW p \in Procs, Restore(p) PROVE Stays
    BY <2>15 DEF Restore
  <2>16. ASSUME NEW p \in Procs, ConsumeSnapshot(p) PROVE Stays
    BY <2>16 DEF ConsumeSnapshot
  <2>17. ASSUME NEW p \in Procs, LogUndo(p) PROVE Stays
    BY <2>17 DEF LogUndo
  <2>18. ASSUME NEW p \in Procs, Crash(p) PROVE Stays
    BY <2>18 DEF Crash
  <2>19. ASSUME NEW id \in Ids, Expire(id) PROVE Stays
    BY <2>19 DEF Expire
  <2>20. ASSUME Reap PROVE Stays
    BY <2>20 DEF Reap
  <2>21. ASSUME UNCHANGED vars PROVE Stays
    BY <2>21 DEF vars
  <2> QED
    BY <2>1, <2>2, <2>3, <2>4, <2>5, <2>6, <2>7, <2>8, <2>9, <2>10, <2>11, <2>12,
       <2>13, <2>14, <2>15, <2>16, <2>17, <2>18, <2>19, <2>20, <2>21
    DEF Next, Continue, Start
<1>2. Spec => [][Stays]_vars
  BY <1>1, TypeCorrect, PTL DEF Spec
<1> QED
  BY <1>2 DEF NoResurrection
-----------------------------------------------------------------------------
(* Without overlap, crash or lost answer *)

\* The runs of which GatedWrite is the abstraction.
Serial ==
    /\ ~Overlap
    /\ Faults \cap {"crash", "response_lost"} = {}
    /\ \A proposal \in Requests : proposal.path = "tool"

\* Where each step of a process finds the write it works on.
StepInv(p) ==
    LET id == proc[p].id
        at == proc[p].at
    IN  /\ at \in {"auto", "confirm", "save", "send", "failed", "reject"} =>
              id \in pending /\ applied[id] = 0
        /\ at \in {"auto", "confirm", "save", "reject", "log_undo"} => snapshot[id] = "none"
        /\ at \in {"record", "clear"} => id \in pending
        /\ at \in {"record", "clear", "audit", "restore"} => applied[id] > 0 /\ id \notin undone
        /\ at \in {"audit", "restore", "consume", "log_undo"} => id \notin pending
        /\ at \in {"consume", "log_undo"} => id \in undone

\* Nobody shares a write; a pending write without a worker had no effect; a
\* snapshot without a worker belongs to an effect that can still be undone.
SerialInv ==
    /\ \A id \in Ids : request[id] # NoRequest => request[id].path = "tool"
    /\ \A p, q \in Procs : p # q /\ proc[p] # Idle /\ proc[q] # Idle => proc[p].id # proc[q].id
    /\ \A p \in Procs : proc[p] # Idle => StepInv(p)
    /\ \A id \in Ids : request[id] = NoRequest => applied[id] = 0
    /\ \A id \in pending : Settled(id) => applied[id] = 0
    /\ \A id \in undone : applied[id] > 0 /\ id \notin pending
    /\ \A id \in Ids : snapshot[id] # "none" => Snapshots(id)
    /\ \A id \in Ids : snapshot[id] # "none" /\ Settled(id) =>
          applied[id] > 0 /\ id \notin undone /\ id \notin pending

\* The serial invariant holds of every serial run.
LEMMA SerialInvariant ==
    ASSUME Serial
    PROVE  Spec => []SerialInv
<1>1. Init => SerialInv
  <2>1. ASSUME NEW old \in Requests PROVE Stored(old, Unclassified).path = "tool"
    BY DEF Stored, Serial
  <2> QED
    BY <2>1 DEF Init, SerialInv, Idle, NoRequest, StepInv
<1>2. TypeOK /\ SerialInv /\ [Next]_vars => SerialInv'
  <2> SUFFICES ASSUME TypeOK, SerialInv, [Next]_vars PROVE SerialInv'
    OBVIOUS
  <2> USE WorkIsNotIdle DEF TypeOK, SerialInv, StepInv, Settled, Snapshots, Goto, Return, At, Work,
          Steps, Counts, Idle
  <2>1. ASSUME NEW p \in Procs, NEW id \in Ids, NEW proposal \in Requests,
               Propose(p, id, proposal)
        PROVE  SerialInv'
    <3>1. Stored(proposal, classify_write(proposal.preview, policy)) \in StoredRequest
      BY ClassifyTier, StoredType, WriteGateAssumption
    <3>2. Stored(proposal, classify_write(proposal.preview, policy)).path = "tool"
      BY DEF Stored, Serial
    <3> QED
      BY <2>1, <3>1, <3>2, StoredIsRequest DEF Propose
  <2>2. ASSUME NEW p \in Procs, NEW id \in Ids, NEW count \in Counts, Approve(p, id, count)
        PROVE  SerialInv'
    BY <2>2 DEF Approve, Gate, MayStart, Unattended, Serial
  <2>3. ASSUME NEW p \in Procs, NEW id \in Ids, Reject(p, id) PROVE SerialInv'
    BY <2>3 DEF Reject, MayStart, Unattended, Serial
  <2>4. ASSUME NEW p \in Procs, NEW id \in Ids, Undo(p, id) PROVE SerialInv'
    BY <2>4 DEF Undo, MayStart, Unattended, Serial, Undoable
  <2>5. ASSUME NEW p \in Procs, AutoApply(p) PROVE SerialInv'
    BY <2>5 DEF AutoApply, Gate
  <2>6. ASSUME NEW p \in Procs, ConfirmCount(p) PROVE SerialInv'
    BY <2>6 DEF ConfirmCount
  <2>7. ASSUME NEW p \in Procs, SaveSnapshot(p) PROVE SerialInv'
    <3> DEFINE id == proc[p].id
    <3>1. /\ proc[p] # Idle /\ proc[p].at = "save"
          /\ UNCHANGED <<request, pending, confirmed, expired, audited, undoAudited, hubspot,
                         auditFailed, human>>
      BY <2>7 DEF SaveSnapshot
    <3>2. CASE Snapshots(id) /\ snapshot' = [snapshot EXCEPT ![id] = "saved"] /\ Goto(p, "send", id, "none")
      BY <3>1, <3>2 DEF hubspot, human, Snapshots
    <3>3. CASE Return(p) /\ UNCHANGED snapshot
      BY <3>1, <3>3 DEF hubspot, human
    <3>4. CASE ~Snapshots(id) /\ Goto(p, "send", id, "none") /\ UNCHANGED snapshot
      BY <3>1, <3>4 DEF hubspot, human
    <3> QED
      BY <2>7, <3>2, <3>3, <3>4 DEF SaveSnapshot
  <2>8. ASSUME NEW p \in Procs, HubSpotApplies(p) PROVE SerialInv'
    BY <2>8 DEF HubSpotApplies, AfterSuccess, AfterError, Serial
  <2>9. ASSUME NEW p \in Procs, HubSpotRefuses(p) PROVE SerialInv'
    BY <2>9 DEF HubSpotRefuses, AfterError
  <2>10. ASSUME NEW p \in Procs, DropSnapshot(p) PROVE SerialInv'
    BY <2>10 DEF DropSnapshot, Snapshots
  <2>11. ASSUME NEW p \in Procs, RecordCreated(p) PROVE SerialInv'
    BY <2>11 DEF RecordCreated
  <2>12. ASSUME NEW p \in Procs, ClearPending(p) PROVE SerialInv'
    BY <2>12 DEF ClearPending
  <2>13. ASSUME NEW p \in Procs, LogApprove(p) PROVE SerialInv'
    BY <2>13 DEF LogApprove
  <2>14. ASSUME NEW p \in Procs, ClearRejected(p) PROVE SerialInv'
    BY <2>14 DEF ClearRejected
  <2>15. ASSUME NEW p \in Procs, Restore(p) PROVE SerialInv'
    BY <2>15 DEF Restore, Serial
  <2>16. ASSUME NEW p \in Procs, ConsumeSnapshot(p) PROVE SerialInv'
    BY <2>16 DEF ConsumeSnapshot
  <2>17. ASSUME NEW p \in Procs, LogUndo(p) PROVE SerialInv'
    BY <2>17 DEF LogUndo
  <2>18. ASSUME NEW p \in Procs, Crash(p) PROVE SerialInv'
    BY <2>18 DEF Crash, Serial
  <2>19. ASSUME NEW id \in Ids, Expire(id) PROVE SerialInv'
    BY <2>19 DEF Expire
  <2>20. ASSUME Reap PROVE SerialInv'
    BY <2>20 DEF Reap, Unattended, Serial
  <2>21. ASSUME UNCHANGED vars PROVE SerialInv'
    BY <2>21 DEF vars
  <2> HIDE DEF TypeOK, SerialInv, StepInv, Settled, Snapshots, Goto, Return, At, Work, Steps,
           Counts, Idle
  <2> QED
    BY <2>1, <2>2, <2>3, <2>4, <2>5, <2>6, <2>7, <2>8, <2>9, <2>10, <2>11, <2>12,
       <2>13, <2>14, <2>15, <2>16, <2>17, <2>18, <2>19, <2>20, <2>21
    DEF Next, Continue, Start
<1> QED
  BY <1>1, <1>2, TypeCorrect, PTL DEF Spec
-----------------------------------------------------------------------------
(* Refinement: a serial run is a run of GatedWrite *)

\* A step that keeps the requests and grants nothing permits nothing.
LEMMA PermittedKept ==
    ASSUME UNCHANGED <<request, asked, typed>>
    PROVE  \A id \in Ids : Permitted(id)' <=> Permitted(id)
  BY DEF Permitted, NeedsCount, AutoApplies

\* A step GatedWrite cannot see.
LEMMA Invisible ==
    ASSUME TypeOK, UNCHANGED <<request, applied, undone, asked, typed>>,
           \A id \in Ids : applied[id] = 0 => (id \in pending' <=> id \in pending)
    PROVE  UNCHANGED Abstract!gatedVars
<1>1. \A id \in Ids : StageOf(id)' = StageOf(id)
  BY DEF StageOf, TypeOK
<1>2. [id \in Ids |-> StageOf(id)]' = [id \in Ids |-> StageOf(id)]
  BY <1>1
<1>3. {id \in Ids : Permitted(id)}' = {id \in Ids : Permitted(id)}
  BY PermittedKept
<1> QED
  BY <1>2, <1>3 DEF Abstract!gatedVars
\* A step that moves one write, and only that one.
LEMMA OneMoves ==
    ASSUME NEW id \in Ids, NEW from, NEW to,
           StageOf(id) = from, StageOf(id)' = to,
           \A other \in Ids \ {id} : StageOf(other)' = StageOf(other)
    PROVE  Abstract!Move(id, from, to)
<1>1. [i \in Ids |-> StageOf(i)]' = [[i \in Ids |-> StageOf(i)] EXCEPT ![id] = to]
  OBVIOUS
<1> QED
  BY <1>1 DEF Abstract!Move

\* Serial approvals keep the promise of GatedWrite: at most one effect, only of
\* a pending and permitted write, never after a discard.
THEOREM SerialRefinement ==
    ASSUME Serial
    PROVE  Spec => ImplementsGatedWrite
<1>1. Init => Abstract!Init
  <2> SUFFICES ASSUME Init PROVE Abstract!Init
    OBVIOUS
  <2>1. \A id \in Ids : StageOf(id) \in {"none", "pending"}
    BY DEF Init, StageOf
  <2>2. \A old \in Requests : Stored(old, Unclassified).tier = Unclassified
    BY DEF Stored
  <2>3. \A id \in Ids : ~Permitted(id)
    BY <2>2 DEF Init, Permitted, AutoApplies, Unclassified, AUTO
  <2> QED
    BY <2>1, <2>3 DEF Init, Abstract!Init
<1>2. TypeOK /\ GateInv /\ SerialInv /\ [Next]_vars => [Abstract!Next]_(Abstract!gatedVars)
  <2> SUFFICES ASSUME TypeOK, GateInv, SerialInv, Next
               PROVE  Abstract!Next \/ UNCHANGED Abstract!gatedVars
    BY Invisible DEF vars
  <2>1. ASSUME NEW p \in Procs, NEW id \in Ids, NEW proposal \in Requests,
               Propose(p, id, proposal)
        PROVE  Abstract!Stage(id)
    <3> DEFINE stored == Stored(proposal, classify_write(proposal.preview, policy))
    <3>1. /\ stored # NoRequest
          /\ request[id] = NoRequest
          /\ request' = [request EXCEPT ![id] = stored]
          /\ pending' = pending \cup {id}
          /\ UNCHANGED <<applied, undone, asked, typed>>
      BY <2>1, ClassifyTier, StoredType, StoredIsRequest, WriteGateAssumption DEF Propose
    <3>2. applied[id] = 0 /\ id \notin undone
      BY <3>1 DEF SerialInv, TypeOK
    <3>3. Abstract!Move(id, "none", "pending")
      <4>1. StageOf(id) = "none" /\ StageOf(id)' = "pending"
        BY <3>1, <3>2 DEF StageOf, TypeOK
      <4>2. \A other \in Ids \ {id} : StageOf(other)' = StageOf(other)
        BY <3>1 DEF StageOf, TypeOK
      <4> QED
        BY <4>1, <4>2, OneMoves
    <3>4. \A other \in Ids \ {id} : Permitted(other)' <=> Permitted(other)
      BY <3>1 DEF Permitted, TypeOK
    <3>5. ~Permitted(id)
      BY <3>1 DEF Permitted
    <3>6. {i \in Ids : Permitted(i)}' \in {{i \in Ids : Permitted(i)},
                                           {i \in Ids : Permitted(i)} \cup {id}}
      BY <3>4, <3>5
    <3> QED
      BY <3>1, <3>3, <3>6 DEF Abstract!Stage
  <2>2. ASSUME NEW p \in Procs, NEW id \in Ids, NEW count \in Counts, Approve(p, id, count)
        PROVE  Abstract!Permit(id) \/ UNCHANGED Abstract!gatedVars
    <3>1. /\ id \in pending /\ Settled(id)
          /\ asked' = asked \cup {id}
          /\ typed' = IF count = "right" THEN typed \cup {id} ELSE typed
          /\ UNCHANGED <<request, pending, applied, undone>>
      BY <2>2 DEF Approve, MayStart, Unattended, Serial, Settled, files, hubspot
    <3>2. StageOf(id) = "pending"
      BY <3>1 DEF SerialInv, TypeOK, StageOf
    <3>3. [i \in Ids |-> StageOf(i)]' = [i \in Ids |-> StageOf(i)]
      BY <3>1 DEF StageOf
    <3>4. \A other \in Ids \ {id} : Permitted(other)' <=> Permitted(other)
      BY <3>1 DEF Permitted
    <3>5. Permitted(id) => Permitted(id)'
      BY <3>1 DEF Permitted, NeedsCount, AutoApplies
    <3>6. CASE Permitted(id)'
      <4>1. {i \in Ids : Permitted(i)}' = {i \in Ids : Permitted(i)} \cup {id}
        BY <3>4, <3>6
      <4> QED
        BY <3>1, <3>2, <3>3, <4>1 DEF Abstract!Permit
    <3>7. CASE ~Permitted(id)'
      <4>1. {i \in Ids : Permitted(i)}' = {i \in Ids : Permitted(i)}
        BY <3>4, <3>5, <3>7
      <4> QED
        BY <3>1, <3>3, <4>1 DEF Abstract!gatedVars
    <3> QED
      BY <3>6, <3>7
  <2>3. ASSUME NEW p \in Procs, HubSpotApplies(p)
        PROVE  (\E id \in Ids : Abstract!Execute(id))
    <3>0. PICK id \in Ids : id = proc[p].id
      BY <2>3 DEF HubSpotApplies, At, Idle, TypeOK, Work
    <3>1. /\ proc[p] # Idle /\ proc[p].at = "send"
          /\ applied' = [applied EXCEPT ![id] = @ + 1]
          /\ UNCHANGED <<request, pending, undone, asked, typed>>
      BY <2>3, <3>0 DEF HubSpotApplies, At, Idle, files, human
    <3>2. id \in pending /\ applied[id] = 0 /\ id \notin undone /\ request[id] # NoRequest
      BY <3>0, <3>1 DEF SerialInv, StepInv, TypeOK
    <3>3. Permitted(id)
      BY <3>0, <3>1, <3>2 DEF GateInv, PastGate, Licensed, Permitted
    <3>4. Abstract!Move(id, "pending", "executed")
      <4>1. StageOf(id) = "pending" /\ StageOf(id)' = "executed"
        BY <3>1, <3>2 DEF StageOf, TypeOK
      <4>2. \A other \in Ids \ {id} : StageOf(other)' = StageOf(other)
        BY <3>1 DEF StageOf, TypeOK
      <4> QED
        BY <3>1, <4>1, <4>2, OneMoves
    <3>5. {i \in Ids : Permitted(i)}' = {i \in Ids : Permitted(i)}
      BY <3>1, PermittedKept
    <3> QED
      BY <3>1, <3>3, <3>4, <3>5 DEF Abstract!Execute
  <2>4. ASSUME NEW p \in Procs, ClearRejected(p)
        PROVE  (\E id \in Ids : Abstract!Discard(id))
    <3>0. PICK id \in Ids : id = proc[p].id
      BY <2>4 DEF ClearRejected, At, Idle, TypeOK, Work
    <3>1. /\ proc[p] # Idle /\ proc[p].at = "reject"
          /\ pending' = pending \ {id}
          /\ UNCHANGED <<request, applied, undone, asked, typed>>
      BY <2>4, <3>0 DEF ClearRejected, At, Idle, hubspot
    <3>2. id \in pending /\ applied[id] = 0 /\ id \notin undone /\ request[id] # NoRequest
      BY <3>0, <3>1 DEF SerialInv, StepInv, TypeOK
    <3>3. Abstract!Move(id, "pending", "discarded")
      <4>1. StageOf(id) = "pending" /\ StageOf(id)' = "discarded"
        BY <3>1, <3>2 DEF StageOf
      <4>2. \A other \in Ids \ {id} : StageOf(other)' = StageOf(other)
        BY <3>1 DEF StageOf
      <4> QED
        BY <3>1, <4>1, <4>2, OneMoves
    <3>4. {i \in Ids : Permitted(i)}' = {i \in Ids : Permitted(i)}
      BY <3>1, PermittedKept
    <3> QED
      BY <3>1, <3>3, <3>4 DEF Abstract!Discard
  <2>5. ASSUME NEW p \in Procs, Restore(p)
        PROVE  (\E id \in Ids : Abstract!Undo(id)) \/ UNCHANGED Abstract!gatedVars
    <3>0. PICK id \in Ids : id = proc[p].id
      BY <2>5 DEF Restore, At, Idle, TypeOK, Work
    <3>1. /\ proc[p] # Idle /\ proc[p].at = "restore"
          /\ UNCHANGED <<request, pending, applied, asked, typed>>
          /\ undone' = undone \cup {id} \/ UNCHANGED undone
      BY <2>5, <3>0 DEF Restore, At, Idle, files, human
    <3>2. applied[id] > 0 /\ id \notin undone /\ request[id] # NoRequest
      BY <3>0, <3>1 DEF SerialInv, StepInv, TypeOK
    <3>3. CASE UNCHANGED undone
      BY <3>1, <3>3, Invisible
    <3>4. CASE undone' = undone \cup {id}
      <4>1. StageOf(id) = "executed" /\ StageOf(id)' = "undone"
        BY <3>1, <3>2, <3>4 DEF StageOf
      <4>2. \A other \in Ids \ {id} : StageOf(other)' = StageOf(other)
        BY <3>1, <3>4 DEF StageOf
      <4>3. Abstract!Move(id, "executed", "undone")
        BY <3>1, <4>1, <4>2, OneMoves
      <4>4. {i \in Ids : Permitted(i)}' = {i \in Ids : Permitted(i)}
        BY <3>1, PermittedKept
      <4> QED
        BY <3>1, <4>3, <4>4 DEF Abstract!Undo
    <3> QED
      BY <3>1, <3>3, <3>4
  <2>6. ASSUME Reap
        PROVE  Abstract!DiscardSome
    <3> DEFINE gone == pending \cap expired
    <3>1. /\ pending' = pending \ expired
          /\ UNCHANGED <<request, applied, undone, asked, typed>>
          /\ \A id \in gone : Settled(id)
      BY <2>6 DEF Reap, Unattended, Serial, Settled, hubspot, human
    <3>2. \A id \in gone : /\ applied[id] = 0 /\ id \notin undone
                           /\ request[id] # NoRequest
      BY <3>1 DEF SerialInv, TypeOK
    <3>3. \A id \in Ids : id \in gone => StageOf(id) = "pending" /\ StageOf(id)' = "discarded"
      BY <3>1, <3>2 DEF StageOf
    <3>4. \A id \in Ids : id \notin gone => StageOf(id)' = StageOf(id)
      BY <3>1 DEF StageOf
    <3>5. [id \in Ids |-> StageOf(id)]'
            = [id \in Ids |-> IF id \in gone THEN "discarded" ELSE [i \in Ids |-> StageOf(i)][id]]
      BY <3>3, <3>4
    <3>6. {i \in Ids : Permitted(i)}' = {i \in Ids : Permitted(i)}
      BY <3>1, PermittedKept
    <3>7. gone \in SUBSET Ids
      BY DEF TypeOK
    <3>8. \A id \in gone : [i \in Ids |-> StageOf(i)][id] = "pending"
      BY <3>3, <3>7
    <3> QED
      BY <3>1, <3>5, <3>6, <3>7, <3>8 DEF Abstract!DiscardSome
  <2>7. ASSUME NEW p \in Procs, ClearPending(p) PROVE UNCHANGED Abstract!gatedVars
    <3>1. applied[proc[p].id] > 0
      BY <2>7 DEF ClearPending, At, Idle, SerialInv, StepInv
    <3> QED
      BY <2>7, <3>1, Invisible DEF ClearPending, hubspot, human
  <2>8. ASSUME NEW p \in Procs, Crash(p) PROVE FALSE
    BY <2>8 DEF Crash, Serial
  <2>9. ASSUME NEW p \in Procs,
               \/ AutoApply(p) \/ ConfirmCount(p) \/ SaveSnapshot(p) \/ HubSpotRefuses(p)
               \/ DropSnapshot(p) \/ RecordCreated(p) \/ LogApprove(p)
               \/ ConsumeSnapshot(p) \/ LogUndo(p)
        PROVE  UNCHANGED Abstract!gatedVars
    <3>1. UNCHANGED <<request, pending, applied, undone, asked, typed>>
      BY <2>9 DEF AutoApply, ConfirmCount, SaveSnapshot, HubSpotRefuses, DropSnapshot,
                  RecordCreated, LogApprove, ConsumeSnapshot, LogUndo
    <3> QED
      BY <3>1, Invisible
  <2>10. ASSUME NEW p \in Procs, NEW id \in Ids, Reject(p, id) \/ Undo(p, id)
         PROVE  UNCHANGED Abstract!gatedVars
    BY <2>10, Invisible DEF Reject, Undo
  <2>11. ASSUME NEW id \in Ids, Expire(id) PROVE UNCHANGED Abstract!gatedVars
    BY <2>11, Invisible DEF Expire
  <2>12. ASSUME NEW p \in Procs, HubSpotApplies(p) \/ ClearRejected(p) \/ Restore(p)
         PROVE  Abstract!Next \/ UNCHANGED Abstract!gatedVars
    BY <2>3, <2>4, <2>5, <2>12 DEF Abstract!Next
  <2>13. ASSUME NEW p \in Procs, NEW id \in Ids, Start(p, id)
         PROVE  Abstract!Next \/ UNCHANGED Abstract!gatedVars
    BY <2>1, <2>2, <2>10, <2>13 DEF Start, Abstract!Next
  <2> QED
    BY <2>6, <2>7, <2>8, <2>9, <2>11, <2>12, <2>13 DEF Next, Continue, Abstract!Next
<1> QED
  BY <1>1, <1>2, TypeCorrect, GateInvariant, SerialInvariant, PTL
  DEF Spec, ImplementsGatedWrite, Abstract!Spec
-----------------------------------------------------------------------------
(* What a serial run leaves behind *)

\* A failed approval of a serial run leaves its preview for a retry.
THEOREM SerialFailureKeepsPreview ==
    ASSUME Serial
    PROVE  Spec => FailureKeepsPreview
<1> DEFINE Kept == \A p \in Procs :
             (At(p, "failed") \/ At(p, "save")) /\ proc'[p] = Idle => proc[p].id \in pending'
<1>1. TypeOK /\ SerialInv /\ [Next]_vars => Kept
  <2> SUFFICES ASSUME TypeOK, SerialInv, [Next]_vars PROVE Kept
    OBVIOUS
  <2> SUFFICES ASSUME NEW worker \in Procs, At(worker, "failed") \/ At(worker, "save"),
                      proc'[worker] = Idle
               PROVE  proc[worker].id \in pending'
    OBVIOUS
  <2>0. proc[worker] # Idle /\ proc[worker] \in Work /\ proc[worker].id \in pending
    BY DEF At, Idle, TypeOK, Work, SerialInv, StepInv
  <2> DEFINE Goal == proc[worker].id \in pending'
  <2> USE <2>0, WorkIsNotIdle DEF TypeOK, Goto, Return, At, Work
  <2>1. ASSUME NEW p \in Procs, NEW id \in Ids, NEW proposal \in Requests,
               Propose(p, id, proposal)
        PROVE  Goal
    BY <2>1 DEF Propose
  <2>2. ASSUME NEW p \in Procs, NEW id \in Ids, NEW count \in Counts, Approve(p, id, count)
        PROVE  Goal
    BY <2>2 DEF Approve, Gate, MayStart
  <2>3. ASSUME NEW p \in Procs, NEW id \in Ids, Reject(p, id) PROVE Goal
    BY <2>3 DEF Reject, MayStart
  <2>4. ASSUME NEW p \in Procs, NEW id \in Ids, Undo(p, id) PROVE Goal
    BY <2>4 DEF Undo, MayStart
  <2>5. ASSUME NEW p \in Procs, AutoApply(p) PROVE Goal
    BY <2>5 DEF AutoApply, Gate
  <2>6. ASSUME NEW p \in Procs, ConfirmCount(p) PROVE Goal
    BY <2>6 DEF ConfirmCount
  <2>7. ASSUME NEW p \in Procs, SaveSnapshot(p) PROVE Goal
    BY <2>7 DEF SaveSnapshot, Snapshots
  <2>8. ASSUME NEW p \in Procs, HubSpotApplies(p) PROVE Goal
    BY <2>8 DEF HubSpotApplies, AfterSuccess, AfterError
  <2>9. ASSUME NEW p \in Procs, HubSpotRefuses(p) PROVE Goal
    BY <2>9 DEF HubSpotRefuses, AfterError
  <2>10. ASSUME NEW p \in Procs, DropSnapshot(p) PROVE Goal
    BY <2>10 DEF DropSnapshot, Snapshots
  <2>11. ASSUME NEW p \in Procs, RecordCreated(p) PROVE Goal
    BY <2>11 DEF RecordCreated
  <2>12. ASSUME NEW p \in Procs, ClearPending(p) PROVE Goal
    BY <2>12 DEF ClearPending
  <2>13. ASSUME NEW p \in Procs, LogApprove(p) PROVE Goal
    BY <2>13 DEF LogApprove
  <2>14. ASSUME NEW p \in Procs, ClearRejected(p) PROVE Goal
    BY <2>14 DEF ClearRejected
  <2>15. ASSUME NEW p \in Procs, Restore(p) PROVE Goal
    BY <2>15 DEF Restore
  <2>16. ASSUME NEW p \in Procs, ConsumeSnapshot(p) PROVE Goal
    BY <2>16 DEF ConsumeSnapshot
  <2>17. ASSUME NEW p \in Procs, LogUndo(p) PROVE Goal
    BY <2>17 DEF LogUndo
  <2>18. ASSUME NEW p \in Procs, Crash(p) PROVE Goal
    BY <2>18 DEF Crash
  <2>19. ASSUME NEW id \in Ids, Expire(id) PROVE Goal
    BY <2>19 DEF Expire
  <2>20. ASSUME Reap PROVE Goal
    BY <2>20 DEF Reap, Unattended, Serial
  <2>21. ASSUME UNCHANGED vars PROVE Goal
    BY <2>21 DEF vars
  <2> QED
    BY <2>1, <2>2, <2>3, <2>4, <2>5, <2>6, <2>7, <2>8, <2>9, <2>10, <2>11, <2>12,
       <2>13, <2>14, <2>15, <2>16, <2>17, <2>18, <2>19, <2>20, <2>21
    DEF Next, Continue, Start
<1>2. Spec => [][Kept]_vars
  BY <1>1, TypeCorrect, SerialInvariant, PTL DEF Spec
<1> QED
  BY <1>2 DEF FailureKeepsPreview
\* If the write is reversible at all, undo is possible now.
CanUndo(id) ==
    is_undoable(request[id].preview.intent, request[id].preview.captured) => Undoable(id)

\* An approval of a serial run is in the log, or its caller knows better, before
\* anything else happens to the write; and what it needs to be undone is there.
LeavesBehind(p) ==
    LET id == proc[p].id
        at == proc[p].at
    IN  /\ at \in {"restore", "consume", "log_undo"} => Done(id)
        /\ at \in {"send", "record"} /\ Snapshots(id) => snapshot[id] # "none"
        /\ at = "record" => Snapshots(id)
        /\ at \in {"clear", "audit"} => CanUndo(id)

LeftBehind ==
    /\ \A id \in Ids : applied[id] > 0 /\ Settled(id) => Done(id)
    /\ \A p \in Procs : proc[p] # Idle => LeavesBehind(p)
    /\ \A id \in Ids : Done(id) /\ id \notin undone => CanUndo(id)

\* A step that touches nothing but one write, and nobody else's, leaves the
\* others' part of LeftBehind alone.
LEMMA OnlyItsOwn ==
    ASSUME LeftBehind, NEW p \in Procs, NEW id \in Ids,
           \A q \in Procs \ {p} :
              proc'[q] = proc[q] /\ (proc[q] # Idle => proc[q].id \in Ids \ {id}),
           proc[p] # Idle => proc[p].id = id,
           \A other \in Ids \ {id} :
              /\ request'[other] = request[other]
              /\ snapshot'[other] = snapshot[other]
              /\ applied'[other] = applied[other]
              /\ other \in undone' <=> other \in undone
              /\ Done(other)' <=> Done(other),
           (applied[id] > 0 /\ Settled(id) => Done(id))',
           (proc[p] # Idle => LeavesBehind(p))',
           (Done(id) /\ id \notin undone => CanUndo(id))'
    PROVE  LeftBehind'
<1>1. \A other \in Ids \ {id} : Settled(other)' => Settled(other)
  BY DEF Settled
<1>2. \A other \in Ids \ {id} : (CanUndo(other)' <=> CanUndo(other))
                               /\ (Snapshots(other)' <=> Snapshots(other))
  BY DEF CanUndo, Undoable, is_undoable, Snapshots
<1>3. ASSUME NEW q \in Procs \ {p}, proc'[q] # Idle PROVE LeavesBehind(q)'
  <2>1. LeavesBehind(q) /\ proc[q].id \in Ids \ {id}
    BY <1>3 DEF LeftBehind
  <2> QED
    BY <1>2, <2>1 DEF LeavesBehind
<1>4. (\A other \in Ids : applied[other] > 0 /\ Settled(other) => Done(other))'
  BY <1>1 DEF LeftBehind
<1>5. (\A other \in Ids : Done(other) /\ other \notin undone => CanUndo(other))'
  BY <1>2 DEF LeftBehind
<1> QED
  BY <1>3, <1>4, <1>5 DEF LeftBehind

\* A request that starts on a write of a serial run has it to itself.
LEMMA StartsAlone ==
    ASSUME TypeOK, Serial, NEW p \in Procs, NEW id \in Ids, MayStart(p, id)
    PROVE  /\ proc[p] = Idle
           /\ \A q \in Procs \ {p} : proc[q] # Idle => proc[q].id \in Ids \ {id}
<1>1. proc[p] = Idle
  BY DEF MayStart, At, TypeOK, Work, Steps
<1>2. \A q \in Procs : proc[q] # Idle => proc[q].id \in Ids
  BY DEF TypeOK, Work
<1> QED
  BY <1>1, <1>2 DEF MayStart, Unattended, Serial

\* So has a request that is at a step.
LEMMA WorksAlone ==
    ASSUME TypeOK, SerialInv, LeftBehind, NEW p \in Procs, NEW step \in Steps, At(p, step)
    PROVE  \E id \in Ids :
              /\ proc[p] # Idle /\ proc[p].at = step /\ proc[p].id = id
              /\ StepInv(p) /\ LeavesBehind(p)
              /\ request[id] # NoRequest /\ request[id].path = "tool"
              /\ \A q \in Procs \ {p} : proc[q] # Idle => proc[q].id \in Ids \ {id}
<1>1. PICK id \in Ids : proc[p] # Idle /\ proc[p].at = step /\ proc[p].id = id
  BY Worker
<1>2. request[id] # NoRequest /\ request[id].path = "tool"
  BY <1>1 DEF TypeOK, SerialInv
<1>3. \A q \in Procs : proc[q] # Idle => proc[q].id \in Ids
  BY DEF TypeOK, Work
<1>4. \A q \in Procs \ {p} : proc[q] # Idle => proc[q].id # id
  BY <1>1 DEF SerialInv
<1>5. StepInv(p) /\ LeavesBehind(p)
  BY <1>1 DEF SerialInv, LeftBehind
<1> QED
  BY <1>1, <1>2, <1>3, <1>4, <1>5

\* Only the process that goes on or returns moves.
LEMMA OthersStand ==
    ASSUME TypeOK, NEW p \in Procs,
           Return(p) \/ \E step, id, count : Goto(p, step, id, count)
    PROVE  \A q \in Procs \ {p} : proc'[q] = proc[q]
  BY DEF TypeOK, Return, Goto

\* In a serial run the log only speaks of writes that took effect.
LEMMA DoneTookEffect ==
    ASSUME SerialInv, EffectInv, NEW id \in Ids, Done(id)
    PROVE  applied[id] > 0
  BY DEF SerialInv, EffectInv, Done

\* Serial approvals, a created id always recorded: every effect is in the audit
\* log or reported, and every reversible one has what its undo asks for.
THEOREM SerialLeavesTraceAndUndo ==
    ASSUME Serial, "no_created_id" \notin Faults
    PROVE  Spec => []LeavesTraceAndUndo
<1>1. Init => LeftBehind
  BY DEF Init, LeftBehind, Done, Idle, NoRequest, CanUndo
<1>2. TypeOK /\ SerialInv /\ EffectInv /\ LeftBehind /\ [Next]_vars => LeftBehind'
  <2> SUFFICES ASSUME TypeOK, SerialInv, EffectInv, LeftBehind, [Next]_vars PROVE LeftBehind'
    OBVIOUS
  <2>0. /\ proc \in [Procs -> {Idle} \cup Work] /\ applied \in [Ids -> Nat]
        /\ snapshot \in [Ids -> {"none", "saved", "with_id"}]
        /\ request \in [Ids -> {NoRequest} \cup StoredRequest]
    BY DEF TypeOK
  <2>1. ASSUME NEW p \in Procs, NEW id \in Ids, NEW proposal \in Requests,
               Propose(p, id, proposal)
        PROVE  LeftBehind'
    <3>1. proc[p] = Idle /\ request[id] = NoRequest
      BY <2>1 DEF Propose, At, TypeOK, Work, Steps
    <3>2. \A q \in Procs \ {p} : proc[q] # Idle => proc[q].id \in Ids \ {id}
      BY <3>1 DEF TypeOK, Work
    <3>3. applied[id] = 0 /\ ~Done(id)
      BY <3>1, DoneTookEffect DEF SerialInv
    <3>4. /\ UNCHANGED <<snapshot, applied, undone, audited, auditFailed>>
          /\ \A other \in Ids \ {id} : request'[other] = request[other]
          /\ \A q \in Procs \ {p} : proc'[q] = proc[q]
          /\ proc'[p] = Idle \/ proc'[p].at = "auto"
      BY <2>0, <2>1, <3>1 DEF Propose, Goto
    <3> QED
      BY <3>1, <3>2, <3>3, <3>4, OnlyItsOwn DEF Done, LeavesBehind
  <2>2. ASSUME NEW p \in Procs, NEW id \in Ids, NEW count \in Counts, Approve(p, id, count)
        PROVE  LeftBehind'
    <3>1. /\ proc[p] = Idle
          /\ \A q \in Procs \ {p} : proc[q] # Idle => proc[q].id \in Ids \ {id}
      BY <2>2, StartsAlone DEF Approve
    <3>2. /\ UNCHANGED <<request, snapshot, applied, undone, audited, auditFailed>>
          /\ proc'[p] = Idle \/ proc'[p].at \in {"confirm", "save"}
      BY <2>0, <2>2, <3>1 DEF Approve, Gate, Goto, Return
    <3>3. \A q \in Procs \ {p} : proc'[q] = proc[q]
      BY <2>2, <3>1, OthersStand DEF Approve, Gate, Goto, Return
    <3>4. applied[id] = 0
      BY <2>2, <3>1 DEF Approve, SerialInv, Settled
    <3>5. ~Done(id)
      BY <3>4, DoneTookEffect
    <3> QED
      BY <3>1, <3>2, <3>3, <3>4, <3>5, OnlyItsOwn DEF Done, LeavesBehind
  <2>3. ASSUME NEW p \in Procs, NEW id \in Ids, Reject(p, id)
        PROVE  LeftBehind'
    <3>1. /\ proc[p] = Idle
          /\ \A q \in Procs \ {p} : proc[q] # Idle => proc[q].id \in Ids \ {id}
      BY <2>3, StartsAlone DEF Reject
    <3>2. /\ UNCHANGED <<request, snapshot, applied, undone, audited, auditFailed>>
          /\ proc'[p].at = "reject"
      BY <2>0, <2>3, <3>1 DEF Reject, Goto
    <3>3. \A q \in Procs \ {p} : proc'[q] = proc[q]
      BY <2>3, <3>1, OthersStand DEF Reject, Goto
    <3>4. applied[id] = 0
      BY <2>3, <3>1 DEF Reject, SerialInv, Settled
    <3>5. ~Done(id)
      BY <3>4, DoneTookEffect
    <3> QED
      BY <3>1, <3>2, <3>3, <3>4, <3>5, OnlyItsOwn DEF Done, LeavesBehind
  <2>4. ASSUME NEW p \in Procs, NEW id \in Ids, Undo(p, id)
        PROVE  LeftBehind'
    <3>1. /\ proc[p] = Idle
          /\ \A q \in Procs \ {p} : proc[q] # Idle => proc[q].id \in Ids \ {id}
      BY <2>4, StartsAlone DEF Undo
    <3>2. CASE ~Undoable(id)
      <4>1. UNCHANGED <<proc, request, snapshot, applied, undone, audited, auditFailed>>
        BY <2>4, <3>2 DEF Undo, files, hubspot
      <4>2. /\ \A q \in Procs : LeavesBehind(q)' <=> LeavesBehind(q)
            /\ \A other \in Ids : /\ Done(other)' <=> Done(other)
                                  /\ CanUndo(other)' <=> CanUndo(other)
                                  /\ Settled(other)' <=> Settled(other)
        BY <4>1 DEF LeavesBehind, Done, CanUndo, Undoable, is_undoable, Snapshots, Settled
      <4> QED
        BY <4>1, <4>2 DEF LeftBehind
    <3>3. CASE Undoable(id)
      <4>2. /\ UNCHANGED <<request, snapshot, applied, undone, audited, auditFailed>>
            /\ proc'[p] = [at |-> "restore", id |-> id, count |-> "none"]
        BY <2>0, <2>4, <3>1, <3>3 DEF Undo, Goto
      <4>3. \A q \in Procs \ {p} : proc'[q] = proc[q]
        BY <2>4, <3>1, <3>3, OthersStand DEF Undo, Goto
      <4>4. Settled(id) /\ snapshot[id] # "none"
        BY <2>4, <3>1 DEF Undo, Settled
      <4>5. Done(id) /\ id \notin undone
        BY <3>3, <4>4 DEF SerialInv, LeftBehind, Undoable
      <4>6. CanUndo(id)'
        BY <2>4, <3>3, <4>2 DEF Undo, CanUndo, Undoable, is_undoable
      <4>7. (proc[p] # Idle => LeavesBehind(p))'
        BY <4>2, <4>5 DEF LeavesBehind, Done
      <4>8. Done(id)' /\ \A other \in Ids \ {id} : Done(other)' <=> Done(other)
        BY <4>2, <4>5 DEF Done
      <4> QED
        BY <3>1, <4>2, <4>3, <4>6, <4>7, <4>8, OnlyItsOwn
    <3> QED
      BY <3>2, <3>3
  <2>5. ASSUME NEW p \in Procs, AutoApply(p) PROVE LeftBehind'
    <3>1. At(p, "auto") /\ "auto" \in Steps
      BY <2>5 DEF AutoApply, Steps
    <3>2. PICK id \in Ids :
             /\ proc[p] # Idle /\ proc[p].at = "auto" /\ proc[p].id = id
             /\ StepInv(p) /\ LeavesBehind(p)
             /\ request[id] # NoRequest /\ request[id].path = "tool"
             /\ \A q \in Procs \ {p} : proc[q] # Idle => proc[q].id \in Ids \ {id}
      BY <3>1, WorksAlone
    <3>3. \A q \in Procs \ {p} : proc'[q] = proc[q]
      BY <2>5, OthersStand DEF AutoApply, Gate
    <3>4. /\ UNCHANGED <<request, snapshot, applied, undone, audited, auditFailed>>
          /\ proc'[p] = Idle \/ proc'[p].at \in {"confirm", "save"}
      BY <2>0, <2>5, <3>2 DEF AutoApply, Gate, Goto, Return
    <3>5. applied[id] = 0
      BY <3>2 DEF StepInv
    <3>6. ~Done(id)
      BY <3>5, DoneTookEffect
    <3> QED
      BY <3>2, <3>3, <3>4, <3>5, <3>6, OnlyItsOwn DEF Done, LeavesBehind
  <2>6. ASSUME NEW p \in Procs, ConfirmCount(p) PROVE LeftBehind'
    <3>1. At(p, "confirm") /\ "confirm" \in Steps
      BY <2>6 DEF ConfirmCount, Steps
    <3>2. PICK id \in Ids :
             /\ proc[p] # Idle /\ proc[p].at = "confirm" /\ proc[p].id = id
             /\ StepInv(p) /\ LeavesBehind(p)
             /\ request[id] # NoRequest /\ request[id].path = "tool"
             /\ \A q \in Procs \ {p} : proc[q] # Idle => proc[q].id \in Ids \ {id}
      BY <3>1, WorksAlone
    <3>3. \A q \in Procs \ {p} : proc'[q] = proc[q]
      BY <2>6, OthersStand DEF ConfirmCount
    <3>4. /\ UNCHANGED <<request, snapshot, applied, undone, audited, auditFailed>>
          /\ proc'[p] = Idle \/ proc'[p].at = "save"
      BY <2>0, <2>6, <3>2 DEF ConfirmCount, Goto, Return
    <3>5. applied[id] = 0
      BY <3>2 DEF StepInv
    <3>6. ~Done(id)
      BY <3>5, DoneTookEffect
    <3> QED
      BY <3>2, <3>3, <3>4, <3>5, <3>6, OnlyItsOwn DEF Done, LeavesBehind
  <2>7. ASSUME NEW p \in Procs, SaveSnapshot(p) PROVE LeftBehind'
    <3>1. At(p, "save") /\ "save" \in Steps
      BY <2>7 DEF SaveSnapshot, Steps
    <3>2. PICK id \in Ids :
             /\ proc[p] # Idle /\ proc[p].at = "save" /\ proc[p].id = id
             /\ StepInv(p) /\ LeavesBehind(p)
             /\ request[id] # NoRequest /\ request[id].path = "tool"
             /\ \A q \in Procs \ {p} : proc[q] # Idle => proc[q].id \in Ids \ {id}
      BY <3>1, WorksAlone
    <3>3. \A q \in Procs \ {p} : proc'[q] = proc[q]
      BY <2>7, OthersStand DEF SaveSnapshot
    <3>4. /\ UNCHANGED <<request, applied, undone, audited, auditFailed>>
          /\ \A other \in Ids \ {id} : snapshot'[other] = snapshot[other]
          /\ \/ proc'[p] = Idle
             \/ /\ proc'[p] = [at |-> "send", id |-> id, count |-> "none"]
                /\ Snapshots(id) => snapshot'[id] # "none"
      BY <2>0, <2>7, <3>2 DEF SaveSnapshot, Goto, Return
    <3>5. applied[id] = 0
      BY <3>2 DEF StepInv
    <3>6. ~Done(id)
      BY <3>5, DoneTookEffect
    <3>7. (proc[p] # Idle => LeavesBehind(p))'
      BY <3>4 DEF LeavesBehind, Snapshots
    <3> QED
      BY <3>2, <3>3, <3>4, <3>5, <3>6, <3>7, OnlyItsOwn DEF Done
  <2>8. ASSUME NEW p \in Procs, HubSpotApplies(p) PROVE LeftBehind'
    <3>1. At(p, "send") /\ "send" \in Steps
      BY <2>8 DEF HubSpotApplies, Steps
    <3>2. PICK id \in Ids :
             /\ proc[p] # Idle /\ proc[p].at = "send" /\ proc[p].id = id
             /\ StepInv(p) /\ LeavesBehind(p)
             /\ request[id] # NoRequest /\ request[id].path = "tool"
             /\ \A q \in Procs \ {p} : proc[q] # Idle => proc[q].id \in Ids \ {id}
      BY <3>1, WorksAlone
    <3>3. \A q \in Procs \ {p} : proc'[q] = proc[q]
      BY <2>8, OthersStand DEF HubSpotApplies, Serial
    <3>4. /\ UNCHANGED <<request, snapshot, undone, audited, auditFailed>>
          /\ \A other \in Ids \ {id} : applied'[other] = applied[other]
          /\ proc'[p] = [at |-> AfterSuccess(id), id |-> id, count |-> "none"]
      BY <2>0, <2>8, <3>2 DEF HubSpotApplies, Serial, Goto, Return
    <3>5. applied[id] = 0
      BY <3>2 DEF StepInv
    <3>6. ~Done(id)
      BY <3>5, DoneTookEffect
    <3>7. Snapshots(id) => snapshot[id] # "none"
      BY <3>2 DEF LeavesBehind
    <3>8. \/ AfterSuccess(id) = "record" /\ Snapshots(id)
          \/ AfterSuccess(id) = "clear" /\ CanUndo(id)
      BY <3>7 DEF AfterSuccess, CanUndo, Undoable, is_undoable, Snapshots
    <3>9. CanUndo(id)' <=> CanUndo(id)
      BY <3>4 DEF CanUndo, Undoable, is_undoable
    <3>10. LeavesBehind(p)' /\ ~Settled(id)'
      BY <3>4, <3>7, <3>8, <3>9 DEF LeavesBehind, Snapshots, Settled, Idle
    <3>11. ~Done(id)' /\ \A other \in Ids \ {id} : Done(other)' <=> Done(other)
      BY <3>4, <3>6 DEF Done
    <3> QED
      BY <3>2, <3>3, <3>4, <3>10, <3>11, OnlyItsOwn
  <2>9. ASSUME NEW p \in Procs, HubSpotRefuses(p) PROVE LeftBehind'
    <3>1. At(p, "send") /\ "send" \in Steps
      BY <2>9 DEF HubSpotRefuses, Steps
    <3>2. PICK id \in Ids :
             /\ proc[p] # Idle /\ proc[p].at = "send" /\ proc[p].id = id
             /\ StepInv(p) /\ LeavesBehind(p)
             /\ request[id] # NoRequest /\ request[id].path = "tool"
             /\ \A q \in Procs \ {p} : proc[q] # Idle => proc[q].id \in Ids \ {id}
      BY <3>1, WorksAlone
    <3>3. \A q \in Procs \ {p} : proc'[q] = proc[q]
      BY <2>9, OthersStand DEF HubSpotRefuses, AfterError
    <3>4. /\ UNCHANGED <<request, snapshot, applied, undone, audited, auditFailed>>
          /\ proc'[p].at = "failed"
      BY <2>0, <2>9, <3>2 DEF HubSpotRefuses, AfterError, Goto, Return
    <3>5. applied[id] = 0
      BY <3>2 DEF StepInv
    <3>6. ~Done(id)
      BY <3>5, DoneTookEffect
    <3> QED
      BY <3>2, <3>3, <3>4, <3>5, <3>6, OnlyItsOwn DEF Done, LeavesBehind
  <2>10. ASSUME NEW p \in Procs, DropSnapshot(p) PROVE LeftBehind'
    <3>1. At(p, "failed") /\ "failed" \in Steps
      BY <2>10 DEF DropSnapshot, Steps
    <3>2. PICK id \in Ids :
             /\ proc[p] # Idle /\ proc[p].at = "failed" /\ proc[p].id = id
             /\ StepInv(p) /\ LeavesBehind(p)
             /\ request[id] # NoRequest /\ request[id].path = "tool"
             /\ \A q \in Procs \ {p} : proc[q] # Idle => proc[q].id \in Ids \ {id}
      BY <3>1, WorksAlone
    <3>3. \A q \in Procs \ {p} : proc'[q] = proc[q]
      BY <2>10, OthersStand DEF DropSnapshot
    <3>4. /\ UNCHANGED <<request, applied, undone, audited, auditFailed>>
          /\ \A other \in Ids \ {id} : snapshot'[other] = snapshot[other]
          /\ proc'[p] = Idle
      BY <2>0, <2>10, <3>2 DEF DropSnapshot, Goto, Return
    <3>5. applied[id] = 0
      BY <3>2 DEF StepInv
    <3>6. ~Done(id)
      BY <3>5, DoneTookEffect
    <3> QED
      BY <3>2, <3>3, <3>4, <3>5, <3>6, OnlyItsOwn DEF Done, LeavesBehind
  <2>11. ASSUME NEW p \in Procs, RecordCreated(p) PROVE LeftBehind'
    <3>1. At(p, "record") /\ "record" \in Steps
      BY <2>11 DEF RecordCreated, Steps
    <3>2. PICK id \in Ids :
             /\ proc[p] # Idle /\ proc[p].at = "record" /\ proc[p].id = id
             /\ StepInv(p) /\ LeavesBehind(p)
             /\ request[id] # NoRequest /\ request[id].path = "tool"
             /\ \A q \in Procs \ {p} : proc[q] # Idle => proc[q].id \in Ids \ {id}
      BY <3>1, WorksAlone
    <3>3. \A q \in Procs \ {p} : proc'[q] = proc[q]
      BY <2>11, OthersStand DEF RecordCreated
    <3>4. /\ UNCHANGED <<request, applied, undone, audited, auditFailed>>
          /\ snapshot' = [snapshot EXCEPT ![id] = IF @ = "none" THEN "none" ELSE "with_id"]
          /\ proc'[p] = [at |-> "clear", id |-> id, count |-> "none"]
      BY <2>0, <2>11, <3>2 DEF RecordCreated, Goto, Return
    <3>5. snapshot[id] # "none"
      BY <3>2 DEF LeavesBehind
    <3>6. snapshot'[id] = "with_id" /\ \A other \in Ids \ {id} : snapshot'[other] = snapshot[other]
      BY <2>0, <3>4, <3>5
    <3>7. CanUndo(id)'
      BY <3>4, <3>6 DEF CanUndo, Undoable, is_undoable
    <3>8. LeavesBehind(p)' /\ ~Settled(id)'
      BY <3>4, <3>7 DEF LeavesBehind, Settled, Idle
    <3>9. \A other \in Ids \ {id} : Done(other)' <=> Done(other)
      BY <3>4 DEF Done
    <3> QED
      BY <3>2, <3>3, <3>4, <3>6, <3>7, <3>8, <3>9, OnlyItsOwn
  <2>12. ASSUME NEW p \in Procs, ClearPending(p) PROVE LeftBehind'
    <3>1. At(p, "clear") /\ "clear" \in Steps
      BY <2>12 DEF ClearPending, Steps
    <3>2. PICK id \in Ids :
             /\ proc[p] # Idle /\ proc[p].at = "clear" /\ proc[p].id = id
             /\ StepInv(p) /\ LeavesBehind(p)
             /\ request[id] # NoRequest /\ request[id].path = "tool"
             /\ \A q \in Procs \ {p} : proc[q] # Idle => proc[q].id \in Ids \ {id}
      BY <3>1, WorksAlone
    <3>3. \A q \in Procs \ {p} : proc'[q] = proc[q]
      BY <2>12, OthersStand DEF ClearPending
    <3>4. /\ UNCHANGED <<request, snapshot, applied, undone, audited, auditFailed>>
          /\ proc'[p] = [at |-> "audit", id |-> id, count |-> "none"]
      BY <2>0, <2>12, <3>2 DEF ClearPending, Goto, Return
    <3>5. /\ CanUndo(id)' <=> CanUndo(id)
          /\ \A other \in Ids \ {id} : Done(other)' <=> Done(other)
      BY <3>4 DEF CanUndo, Undoable, is_undoable, Done
    <3>6. CanUndo(id)
      BY <3>2 DEF LeavesBehind
    <3>7. LeavesBehind(p)' /\ ~Settled(id)'
      BY <3>4, <3>5, <3>6 DEF LeavesBehind, Settled, Idle
    <3> QED
      BY <3>2, <3>3, <3>4, <3>5, <3>6, <3>7, OnlyItsOwn
  <2>13. ASSUME NEW p \in Procs, LogApprove(p) PROVE LeftBehind'
    <3>1. At(p, "audit") /\ "audit" \in Steps
      BY <2>13 DEF LogApprove, Steps
    <3>2. PICK id \in Ids :
             /\ proc[p] # Idle /\ proc[p].at = "audit" /\ proc[p].id = id
             /\ StepInv(p) /\ LeavesBehind(p)
             /\ request[id] # NoRequest /\ request[id].path = "tool"
             /\ \A q \in Procs \ {p} : proc[q] # Idle => proc[q].id \in Ids \ {id}
      BY <3>1, WorksAlone
    <3>3. \A q \in Procs \ {p} : proc'[q] = proc[q]
      BY <2>13, OthersStand DEF LogApprove
    <3>4. /\ UNCHANGED <<request, snapshot, applied, undone>> /\ proc'[p] = Idle
          /\ audited' \cup auditFailed' = audited \cup auditFailed \cup {id}
      BY <2>0, <2>13, <3>2 DEF LogApprove, Goto, Return
    <3>5. /\ CanUndo(id)' <=> CanUndo(id)
          /\ Done(id)' /\ \A other \in Ids \ {id} : Done(other)' <=> Done(other)
      BY <3>4 DEF CanUndo, Undoable, is_undoable, Done
    <3>6. CanUndo(id)
      BY <3>2 DEF LeavesBehind
    <3> QED
      BY <3>2, <3>3, <3>4, <3>5, <3>6, OnlyItsOwn
  <2>14. ASSUME NEW p \in Procs, ClearRejected(p) PROVE LeftBehind'
    <3>1. At(p, "reject") /\ "reject" \in Steps
      BY <2>14 DEF ClearRejected, Steps
    <3>2. PICK id \in Ids :
             /\ proc[p] # Idle /\ proc[p].at = "reject" /\ proc[p].id = id
             /\ StepInv(p) /\ LeavesBehind(p)
             /\ request[id] # NoRequest /\ request[id].path = "tool"
             /\ \A q \in Procs \ {p} : proc[q] # Idle => proc[q].id \in Ids \ {id}
      BY <3>1, WorksAlone
    <3>3. \A q \in Procs \ {p} : proc'[q] = proc[q]
      BY <2>14, OthersStand DEF ClearRejected
    <3>4. /\ UNCHANGED <<request, snapshot, applied, undone, audited, auditFailed>>
          /\ proc'[p] = Idle
      BY <2>0, <2>14, <3>2 DEF ClearRejected, Goto, Return
    <3>5. applied[id] = 0
      BY <3>2 DEF StepInv
    <3>6. ~Done(id)
      BY <3>5, DoneTookEffect
    <3> QED
      BY <3>2, <3>3, <3>4, <3>5, <3>6, OnlyItsOwn DEF Done, LeavesBehind
  <2>15. ASSUME NEW p \in Procs, Restore(p) PROVE LeftBehind'
    <3>1. At(p, "restore") /\ "restore" \in Steps
      BY <2>15 DEF Restore, Steps
    <3>2. PICK id \in Ids :
             /\ proc[p] # Idle /\ proc[p].at = "restore" /\ proc[p].id = id
             /\ StepInv(p) /\ LeavesBehind(p)
             /\ request[id] # NoRequest /\ request[id].path = "tool"
             /\ \A q \in Procs \ {p} : proc[q] # Idle => proc[q].id \in Ids \ {id}
      BY <3>1, WorksAlone
    <3>3. \A q \in Procs \ {p} : proc'[q] = proc[q]
      BY <2>15, OthersStand DEF Restore
    <3>4. /\ UNCHANGED <<request, snapshot, applied, audited, auditFailed>>
          /\ \A other \in Ids \ {id} : other \in undone' <=> other \in undone
          /\ proc'[p] = Idle \/ proc'[p] = [at |-> "consume", id |-> id, count |-> "none"]
      BY <2>0, <2>15, <3>2 DEF Restore, Goto, Return
    <3>5. /\ CanUndo(id)' <=> CanUndo(id)
          /\ \A other \in Ids \ {id} : Done(other)' <=> Done(other)
      BY <3>4 DEF CanUndo, Undoable, is_undoable, Done
    <3>6. Done(id)'
      BY <3>2, <3>4 DEF LeavesBehind, Done
    <3>7. id \notin undone
      BY <3>2 DEF StepInv
    <3>8. CanUndo(id)
      BY <3>2, <3>4, <3>6, <3>7 DEF LeftBehind, Done
    <3>9. (proc[p] # Idle => LeavesBehind(p))'
      BY <3>4, <3>6 DEF LeavesBehind
    <3> QED
      BY <3>2, <3>3, <3>4, <3>5, <3>6, <3>8, <3>9, OnlyItsOwn
  <2>16. ASSUME NEW p \in Procs, ConsumeSnapshot(p) PROVE LeftBehind'
    <3>1. At(p, "consume") /\ "consume" \in Steps
      BY <2>16 DEF ConsumeSnapshot, Steps
    <3>2. PICK id \in Ids :
             /\ proc[p] # Idle /\ proc[p].at = "consume" /\ proc[p].id = id
             /\ StepInv(p) /\ LeavesBehind(p)
             /\ request[id] # NoRequest /\ request[id].path = "tool"
             /\ \A q \in Procs \ {p} : proc[q] # Idle => proc[q].id \in Ids \ {id}
      BY <3>1, WorksAlone
    <3>3. \A q \in Procs \ {p} : proc'[q] = proc[q]
      BY <2>16, OthersStand DEF ConsumeSnapshot
    <3>4. /\ UNCHANGED <<request, applied, undone, audited, auditFailed>>
          /\ \A other \in Ids \ {id} : snapshot'[other] = snapshot[other]
          /\ proc'[p] = [at |-> "log_undo", id |-> id, count |-> "none"]
      BY <2>0, <2>16, <3>2 DEF ConsumeSnapshot, Goto, Return
    <3>5. Done(id)' /\ \A other \in Ids \ {id} : Done(other)' <=> Done(other)
      BY <3>2, <3>4 DEF LeavesBehind, Done
    <3>6. id \in undone'
      BY <3>2, <3>4 DEF StepInv
    <3>7. LeavesBehind(p)'
      BY <3>4, <3>5 DEF LeavesBehind
    <3> QED
      BY <3>2, <3>3, <3>4, <3>5, <3>6, <3>7, OnlyItsOwn
  <2>17. ASSUME NEW p \in Procs, LogUndo(p) PROVE LeftBehind'
    <3>1. At(p, "log_undo") /\ "log_undo" \in Steps
      BY <2>17 DEF LogUndo, Steps
    <3>2. PICK id \in Ids :
             /\ proc[p] # Idle /\ proc[p].at = "log_undo" /\ proc[p].id = id
             /\ StepInv(p) /\ LeavesBehind(p)
             /\ request[id] # NoRequest /\ request[id].path = "tool"
             /\ \A q \in Procs \ {p} : proc[q] # Idle => proc[q].id \in Ids \ {id}
      BY <3>1, WorksAlone
    <3>3. \A q \in Procs \ {p} : proc'[q] = proc[q]
      BY <2>17, OthersStand DEF LogUndo
    <3>4. /\ UNCHANGED <<request, snapshot, applied, undone, audited, auditFailed>>
          /\ proc'[p] = Idle
      BY <2>0, <2>17, <3>2 DEF LogUndo, Goto, Return
    <3>5. Done(id)' /\ \A other \in Ids \ {id} : Done(other)' <=> Done(other)
      BY <3>2, <3>4 DEF LeavesBehind, Done
    <3>6. id \in undone'
      BY <3>2, <3>4 DEF StepInv
    <3> QED
      BY <3>2, <3>3, <3>4, <3>5, <3>6, OnlyItsOwn
  <2>18. ASSUME NEW p \in Procs, Crash(p) PROVE LeftBehind'
    BY <2>18 DEF Crash, Serial
  <2>19. ASSUME UNCHANGED <<request, snapshot, applied, undone, audited, auditFailed, proc>>
         PROVE  LeftBehind'
    BY <2>19 DEF LeftBehind, LeavesBehind, CanUndo, Undoable, is_undoable, Done, Settled, Snapshots
  <2>20. ASSUME NEW id \in Ids, Expire(id) PROVE LeftBehind'
    BY <2>19, <2>20 DEF Expire
  <2>21. ASSUME Reap PROVE LeftBehind'
    BY <2>19, <2>21 DEF Reap
  <2>22. ASSUME UNCHANGED vars PROVE LeftBehind'
    BY <2>19, <2>22 DEF vars
  <2> QED
    BY <2>1, <2>2, <2>3, <2>4, <2>5, <2>6, <2>7, <2>8, <2>9, <2>10, <2>11, <2>12,
       <2>13, <2>14, <2>15, <2>16, <2>17, <2>18, <2>20, <2>21, <2>22
    DEF Next, Continue, Start
<1>3. LeftBehind => LeavesTraceAndUndo
  BY DEF LeftBehind, LeavesTraceAndUndo, EffectLeavesTrace, UndoStaysPossible, CanUndo
<1> QED
  BY <1>1, <1>2, <1>3, TypeCorrect, SerialInvariant, EffectInvariant, PTL DEF Spec
-----------------------------------------------------------------------------
(* Deaths: the way back is there before the effect *)

\* The runs in which HubSpot answers every call it executes and refuses none:
\* whatever else happens is a death, an overlap or a file that cannot be written.
Answering == Faults \cap {"refused", "response_lost"} = {}

\* No approval gets to the failure branch, the only one that drops a snapshot; who
\* is about to send a write has saved its snapshot, unless it was undone since.
WayBackInv ==
    /\ \A p \in Procs : proc[p] # Idle =>
          /\ proc[p].at # "failed"
          /\ proc[p].at = "send" /\ Snapshots(proc[p].id) /\ proc[p].id \notin undone
                => snapshot[proc[p].id] # "none"
          /\ proc[p].at = "consume" => proc[p].id \in undone
    /\ \A id \in Ids : request[id] = NoRequest => applied[id] = 0
    /\ EffectHasSnapshot

\* Whatever step of an approval a process dies in, and whoever else is at work, a
\* write that took effect keeps its snapshot until it is undone.
THEOREM EffectsHaveSnapshots ==
    ASSUME Answering
    PROVE  Spec => []EffectHasSnapshot
<1>1. Init => WayBackInv
  BY DEF Init, WayBackInv, Idle, EffectHasSnapshot
<1>2. TypeOK /\ WayBackInv /\ [Next]_vars => WayBackInv'
  <2> SUFFICES ASSUME TypeOK, WayBackInv, [Next]_vars PROVE WayBackInv'
    OBVIOUS
  <2> USE WorkIsNotIdle DEF TypeOK, WayBackInv, EffectHasSnapshot, Snapshots, Goto, Return, At, Work,
          Steps, Counts, Idle
  <2>1. ASSUME NEW p \in Procs, NEW id \in Ids, NEW proposal \in Requests, Propose(p, id, proposal)
        PROVE  WayBackInv'
    <3>1. Stored(proposal, classify_write(proposal.preview, policy)) \in StoredRequest
      BY ClassifyTier, StoredType, WriteGateAssumption
    <3> QED
      BY <2>1, <3>1, StoredIsRequest DEF Propose
  <2>2. ASSUME NEW p \in Procs, NEW id \in Ids, NEW count \in Counts, Approve(p, id, count)
        PROVE  WayBackInv'
    BY <2>2 DEF Approve, Gate, MayStart
  <2>3. ASSUME NEW p \in Procs, NEW id \in Ids, Reject(p, id) PROVE WayBackInv'
    BY <2>3 DEF Reject, MayStart
  <2>4. ASSUME NEW p \in Procs, NEW id \in Ids, Undo(p, id) PROVE WayBackInv'
    BY <2>4 DEF Undo, MayStart
  <2>5. ASSUME NEW p \in Procs, AutoApply(p) PROVE WayBackInv'
    BY <2>5 DEF AutoApply, Gate
  <2>6. ASSUME NEW p \in Procs, ConfirmCount(p) PROVE WayBackInv'
    BY <2>6 DEF ConfirmCount
  <2>7. ASSUME NEW p \in Procs, SaveSnapshot(p) PROVE WayBackInv'
    BY <2>7 DEF SaveSnapshot
  <2>8. ASSUME NEW p \in Procs, HubSpotApplies(p) PROVE WayBackInv'
    BY <2>8 DEF HubSpotApplies, AfterSuccess, AfterError, Answering
  <2>9. ASSUME NEW p \in Procs, HubSpotRefuses(p) PROVE WayBackInv'
    BY <2>9 DEF HubSpotRefuses, Answering
  <2>10. ASSUME NEW p \in Procs, DropSnapshot(p) PROVE WayBackInv'
    BY <2>10 DEF DropSnapshot
  <2>11. ASSUME NEW p \in Procs, RecordCreated(p) PROVE WayBackInv'
    BY <2>11 DEF RecordCreated
  <2>12. ASSUME NEW p \in Procs, ClearPending(p) PROVE WayBackInv'
    BY <2>12 DEF ClearPending
  <2>13. ASSUME NEW p \in Procs, LogApprove(p) PROVE WayBackInv'
    BY <2>13 DEF LogApprove
  <2>14. ASSUME NEW p \in Procs, ClearRejected(p) PROVE WayBackInv'
    BY <2>14 DEF ClearRejected
  <2>15. ASSUME NEW p \in Procs, Restore(p) PROVE WayBackInv'
    BY <2>15 DEF Restore
  <2>16. ASSUME NEW p \in Procs, ConsumeSnapshot(p) PROVE WayBackInv'
    BY <2>16 DEF ConsumeSnapshot
  <2>17. ASSUME NEW p \in Procs, LogUndo(p) PROVE WayBackInv'
    BY <2>17 DEF LogUndo
  <2>18. ASSUME NEW p \in Procs, Crash(p) PROVE WayBackInv'
    BY <2>18 DEF Crash
  <2>19. ASSUME NEW id \in Ids, Expire(id) PROVE WayBackInv'
    BY <2>19 DEF Expire
  <2>20. ASSUME Reap PROVE WayBackInv'
    BY <2>20 DEF Reap
  <2>21. ASSUME UNCHANGED vars PROVE WayBackInv'
    BY <2>21 DEF vars
  <2> HIDE DEF TypeOK, WayBackInv, EffectHasSnapshot, Snapshots, Goto, Return, At, Work, Steps,
           Counts, Idle
  <2> QED
    BY <2>1, <2>2, <2>3, <2>4, <2>5, <2>6, <2>7, <2>8, <2>9, <2>10, <2>11,
       <2>12, <2>13, <2>14, <2>15, <2>16, <2>17, <2>18, <2>19, <2>20, <2>21
    DEF Next, Continue, Start
<1>3. WayBackInv => EffectHasSnapshot
  BY DEF WayBackInv
<1> QED
  BY <1>1, <1>2, <1>3, TypeCorrect, PTL DEF Spec
=============================================================================
