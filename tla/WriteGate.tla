------------------------------ MODULE WriteGate ------------------------------
(***************************************************************************)
(* The life of a staged write: handlers.execute_pending_write and what     *)
(* surrounds it (safety.apply_write, persistence, snapshot, audit, reject, *)
(* undo, the 24 h reaper).                                                 *)
(*                                                                         *)
(* A process is one request being served: a daemon connection, which gives *)
(* way at every await, or a CLI process of its own.  Each action is the    *)
(* code between two points where another process can run: a file is read,  *)
(* a file is written, HubSpot is called.                                   *)
(*                                                                         *)
(* Writes approved as a pattern have an executor of their own and are not  *)
(* staged here.                                                            *)
(***************************************************************************)
EXTENDS Policy

CONSTANTS
    Ids,       \* action ids
    Procs,     \* processes
    Requests,  \* the writes that may be proposed
    policy,    \* the effective ApprovalPolicy
    Overlap,   \* may two processes work on one action at the same time?
    Faults,    \* what may go wrong
    MaxEffects \* bound: no approve is started once this many effects happened

AllFaults ==
    {"crash",          \* a process dies between two steps, or a file operation
                       \* the code does not guard raises there
     "response_lost",  \* HubSpot applies the write, the caller sees an error
     "refused",        \* HubSpot refuses a call
     "snapshot_fails", \* the undo snapshot cannot be written
     "no_created_id",  \* the id of a created record cannot be recorded
     "audit_fails"}    \* the audit line cannot be written

\* object: the intent names a CRM object type (a note, a list, a form has none).
Proposal ==
    [path : {"tool", "bulk", "agent"}, interactive : BOOLEAN, object : BOOLEAN,
     preview : PreviewRecord]

ASSUME WriteGateAssumption ==
    /\ Requests \subseteq Proposal
    /\ policy \in ApprovalPolicy
    /\ Overlap \in BOOLEAN
    /\ Faults \subseteq AllFaults
    /\ MaxEffects \in Nat

VARIABLES
    request,    \* what each preview says; immutable once stored
    pending,    \* ids with a file in pending_previews/
    confirmed,  \* pending ids whose file carries the right confirmed_count
    expired,    \* ids stored more than 24 hours ago
    snapshot,   \* undo_snapshots/<id>.json
    applied,    \* how many times HubSpot executed the write
    undone,     \* ids HubSpot put back
    audited,    \* ids with an "approve:<id>" audit line
    auditFailed, \* ids whose caller was told audit_failed
    undoAudited, \* ids with an "undo:<id>" audit line
    asked,      \* history: ids a human approved while they were pending
    typed,      \* history: ids a human typed the right count for
    rejected,   \* ids whose reject was answered with success
    proc        \* what each process is doing

files   == <<pending, confirmed, expired, snapshot, audited, undoAudited>>
hubspot == <<applied, undone>>
human   == <<asked, typed, rejected>>
vars    == <<request, files, hubspot, auditFailed, human, proc>>

Unclassified == "unclassified"
NoRequest    == [path |-> "none"]
StoredRequest ==
    [path : {"tool", "bulk", "agent"}, interactive : BOOLEAN, object : BOOLEAN,
     preview : PreviewRecord, tier : Tiers \cup {Unclassified}]
Stored(proposal, tier) ==
    [path |-> proposal.path, interactive |-> proposal.interactive,
     object |-> proposal.object, preview |-> proposal.preview, tier |-> tier]

Idle  == [at |-> "idle"]
Steps == {"auto", "confirm", "save", "send", "failed", "record", "clear", "audit",
          "reject", "restore", "consume", "log_undo"}
Counts == {"none", "right", "wrong"}
Work  == [at : Steps, id : Ids, count : Counts]

TypeOK ==
    /\ request \in [Ids -> {NoRequest} \cup StoredRequest]
    /\ pending \subseteq {id \in Ids : request[id] # NoRequest}
    /\ confirmed \subseteq pending
    /\ expired \subseteq Ids
    /\ snapshot \in [Ids -> {"none", "saved", "with_id"}]
    /\ \A id \in Ids : request[id] = NoRequest => snapshot[id] = "none"
    /\ applied \in [Ids -> Nat]
    /\ undone \subseteq Ids
    /\ audited \subseteq Ids
    /\ auditFailed \subseteq Ids
    /\ undoAudited \subseteq Ids
    /\ asked \subseteq Ids
    /\ typed \subseteq asked
    /\ rejected \subseteq Ids
    /\ proc \in [Procs -> {Idle} \cup Work]
    /\ \A p \in Procs : proc[p] # Idle => request[proc[p].id] # NoRequest

Init ==
    \* Any preview on disk was stored before previews carried a tier.
    /\ request \in [Ids -> {NoRequest} \cup {Stored(old, Unclassified) : old \in Requests}]
    /\ pending = {id \in Ids : request[id] # NoRequest}
    /\ confirmed = {}
    /\ expired = {}
    /\ snapshot = [id \in Ids |-> "none"]
    /\ applied = [id \in Ids |-> 0]
    /\ undone = {}
    /\ audited = {}
    /\ auditFailed = {}
    /\ undoAudited = {}
    /\ asked = {}
    /\ typed = {}
    /\ rejected = {}
    /\ proc = [p \in Procs |-> Idle]

-----------------------------------------------------------------------------
(* Processes *)

At(p, step) == proc[p].at = step

Goto(p, step, id, count) ==
    proc' = [proc EXCEPT ![p] = [at |-> step, id |-> id, count |-> count]]

Return(p) == proc' = [proc EXCEPT ![p] = Idle]

\* Overlap = FALSE: nobody else works on this action.
Unattended(id) == ~Overlap => \A q \in Procs : proc[q] # Idle => proc[q].id # id

MayStart(p, id) == At(p, "idle") /\ Unattended(id)

-----------------------------------------------------------------------------
(* Staging *)

\* handle_tool and _tool_write execute a provably safe write at once, unless a
\* loop proposed it; dispatch_agent never does.
AutoApplies(r) == r.tier = AUTO /\ r.interactive /\ r.path # "agent"

\* The action id is a fresh uuid: ids do not repeat.
Propose(p, id, proposal) ==
    LET stored == Stored(proposal, classify_write(proposal.preview, policy))
    IN  /\ At(p, "idle")
        /\ request[id] = NoRequest
        /\ request' = [request EXCEPT ![id] = stored]
        /\ pending' = pending \cup {id}
        /\ IF AutoApplies(stored) THEN Goto(p, "auto", id, "none") ELSE UNCHANGED proc
        /\ UNCHANGED <<confirmed, expired, snapshot, audited, undoAudited,
                       hubspot, auditFailed, human>>
-----------------------------------------------------------------------------
(* Approval: execute_pending_write *)

\* Seeded fault: the rule for previews without a tier is forgotten.
NeedsCountByTierOnly(r) == r.tier = FULL_GATE

NeedsCount(r) ==
    IF r.tier = Unclassified THEN r.preview.destructive \/ r.preview.impact > 1
                             ELSE r.tier = FULL_GATE

\* The preview is loaded and the gate is read off the loaded copy.
Gate(p, id, count) ==
    \/ /\ \/ id \notin pending
          \/ NeedsCount(request[id]) /\ count = "none" /\ id \notin confirmed
       /\ Return(p)
    \/ /\ id \in pending
       /\ NeedsCount(request[id])
       /\ count # "none"
       /\ Goto(p, "confirm", id, count)
    \/ /\ id \in pending
       /\ NeedsCount(request[id]) => count = "none" /\ id \in confirmed
       /\ Goto(p, "save", id, "none")

\* `approve <id> [count]`, by a human.
Approve(p, id, count) ==
    /\ MayStart(p, id)
    /\ id \in pending
    /\ applied[id] < MaxEffects
    /\ asked' = asked \cup {id}
    /\ typed' = IF count = "right" THEN typed \cup {id} ELSE typed
    /\ Gate(p, id, count)
    /\ UNCHANGED <<request, files, hubspot, auditFailed, rejected>>

\* The executor's own load, after Propose stored the preview.
AutoApply(p) ==
    /\ At(p, "auto")
    /\ Gate(p, proc[p].id, "none")
    /\ UNCHANGED <<request, files, hubspot, auditFailed, human>>

\* Seeded fault: confirm does not look again under the lock, and writes a file
\* that may have been removed since it was read.
ConfirmWithoutRecheck(p) ==
    LET id == proc[p].id
    IN  /\ At(p, "confirm")
        /\ \/ /\ proc[p].count = "right"
              /\ pending' = pending \cup {id}
              /\ confirmed' = confirmed \cup {id}
              /\ Goto(p, "save", id, "none")
           \/ /\ proc[p].count # "right"
              /\ Return(p)
              /\ UNCHANGED <<pending, confirmed>>
        /\ UNCHANGED <<request, expired, snapshot, audited, undoAudited,
                       hubspot, auditFailed, human>>

\* persistence.confirm: read, compare and write under the directory lock.
ConfirmCount(p) ==
    LET id == proc[p].id
    IN  /\ At(p, "confirm")
        /\ \/ /\ id \in pending /\ proc[p].count = "right"
              /\ confirmed' = confirmed \cup {id}
              /\ Goto(p, "save", id, "none")
           \/ /\ id \notin pending \/ proc[p].count # "right"
              /\ Return(p)
              /\ UNCHANGED confirmed
        /\ UNCHANGED <<request, pending, expired, snapshot, audited, undoAudited,
                       hubspot, auditFailed, human>>

Snapshots(id) == request[id].preview.intent \in {"create", "update", "delete", "merge"}

\* Seeded fault: the write goes on without its snapshot.
SnapshotOptional(p) ==
    LET id == proc[p].id
    IN  /\ At(p, "save")
        /\ \/ Snapshots(id) /\ snapshot' = [snapshot EXCEPT ![id] = "saved"]
           \/ (Snapshots(id) => "snapshot_fails" \in Faults) /\ UNCHANGED snapshot
        /\ Goto(p, "send", id, "none")
        /\ UNCHANGED <<request, pending, confirmed, expired, audited, undoAudited,
                       hubspot, auditFailed, human>>

\* save_undo_snapshot_for_action; a failed save ends the approval.
SaveSnapshot(p) ==
    LET id == proc[p].id
    IN  /\ At(p, "save")
        /\ \/ /\ Snapshots(id)
              /\ snapshot' = [snapshot EXCEPT ![id] = "saved"]
              /\ Goto(p, "send", id, "none")
           \/ /\ Snapshots(id) /\ "snapshot_fails" \in Faults
              /\ Return(p)
              /\ UNCHANGED snapshot
           \/ /\ ~Snapshots(id)
              /\ Goto(p, "send", id, "none")
              /\ UNCHANGED snapshot
        /\ UNCHANGED <<request, pending, confirmed, expired, audited, undoAudited,
                       hubspot, auditFailed, human>>

\* Seeded fault: the error envelope of the tool is not looked at.
AfterErrorUnchecked(id) == {"failed", "clear"}

\* invoke_tool answers with an error envelope or raises.  The agents' execute
\* handlers wrap the envelope in a success, and the bulk tool reports the chunks
\* HubSpot refused under other keys: there the write is taken to have succeeded.
AfterError(id) == IF request[id].path = "tool" THEN {"failed"} ELSE {"failed", "clear"}

AfterSuccess(id) == IF request[id].preview.intent = "create" THEN "record" ELSE "clear"

HubSpotApplies(p) ==
    LET id == proc[p].id
    IN  /\ At(p, "send")
        /\ applied' = [applied EXCEPT ![id] = @ + 1]
        /\ \/ Goto(p, AfterSuccess(id), id, "none")
           \/ /\ "response_lost" \in Faults
              /\ \E step \in AfterError(id) : Goto(p, step, id, "none")
        /\ UNCHANGED <<request, files, undone, auditFailed, human>>

HubSpotRefuses(p) ==
    /\ At(p, "send")
    /\ "refused" \in Faults
    /\ \E step \in AfterError(proc[p].id) : Goto(p, step, proc[p].id, "none")
    /\ UNCHANGED <<request, files, hubspot, auditFailed, human>>

\* A failed execution: the snapshot goes, the preview stays for a retry.
DropSnapshot(p) ==
    LET id == proc[p].id
    IN  /\ At(p, "failed")
        /\ snapshot' = [snapshot EXCEPT ![id] = IF Snapshots(id) THEN "none" ELSE @]
        /\ Return(p)
        /\ UNCHANGED <<request, pending, confirmed, expired, audited, undoAudited,
                       hubspot, auditFailed, human>>

\* Seeded fault: the created id only reaches the caller's result.
RecordNothing(p) ==
    /\ At(p, "record")
    /\ Goto(p, "clear", proc[p].id, "none")
    /\ UNCHANGED <<request, files, hubspot, auditFailed, human>>

\* update_undo_snapshot does nothing when the file is gone; its failure, and a
\* response without an id, are only warned about.
RecordCreated(p) ==
    LET id == proc[p].id
    IN  /\ At(p, "record")
        /\ \/ snapshot' = [snapshot EXCEPT ![id] = IF @ = "none" THEN "none" ELSE "with_id"]
           \/ "no_created_id" \in Faults /\ UNCHANGED snapshot
        /\ Goto(p, "clear", id, "none")
        /\ UNCHANGED <<request, pending, confirmed, expired, audited, undoAudited,
                       hubspot, auditFailed, human>>

\* Seeded fault: an executed preview stays where it is.
KeepPending(p) ==
    /\ At(p, "clear")
    /\ Goto(p, "audit", proc[p].id, "none")
    /\ UNCHANGED <<request, files, hubspot, auditFailed, human>>

\* persistence.clear unlinks the file, and with it its confirmed_count.
ClearPending(p) ==
    /\ At(p, "clear")
    /\ pending' = pending \ {proc[p].id}
    /\ confirmed' = confirmed \ {proc[p].id}
    /\ Goto(p, "audit", proc[p].id, "none")
    /\ UNCHANGED <<request, expired, snapshot, audited, undoAudited,
                   hubspot, auditFailed, human>>

\* The audit line comes last; the caller is told when it could not be written.
LogApprove(p) ==
    /\ At(p, "audit")
    /\ \/ audited' = audited \cup {proc[p].id} /\ UNCHANGED auditFailed
       \/ /\ "audit_fails" \in Faults
          /\ auditFailed' = auditFailed \cup {proc[p].id}
          /\ UNCHANGED audited
    /\ Return(p)
    /\ UNCHANGED <<request, pending, confirmed, expired, snapshot, undoAudited, hubspot, human>>

-----------------------------------------------------------------------------
(* Reject *)

Reject(p, id) ==
    /\ MayStart(p, id)
    /\ id \in pending
    /\ Goto(p, "reject", id, "none")
    /\ UNCHANGED <<request, files, hubspot, auditFailed, human>>

ClearRejected(p) ==
    /\ At(p, "reject")
    /\ pending' = pending \ {proc[p].id}
    /\ confirmed' = confirmed \ {proc[p].id}
    /\ rejected' = rejected \cup {proc[p].id}
    /\ Return(p)
    /\ UNCHANGED <<request, expired, snapshot, audited, undoAudited,
                   hubspot, auditFailed, asked, typed>>

-----------------------------------------------------------------------------
(* Undo *)

\* What _undo_action asks of the loaded snapshot before it calls HubSpot.
Undoable(id) ==
    LET preview == request[id].preview
    IN  /\ snapshot[id] # "none"
        /\ is_undoable(preview.intent, preview.captured)
        /\ preview.intent = "create" => snapshot[id] = "with_id"

\* Anything else is refused with the snapshot kept: nothing is called or logged.
Undo(p, id) ==
    /\ MayStart(p, id)
    /\ snapshot[id] # "none"
    /\ \/ Undoable(id) /\ Goto(p, "restore", id, "none")
       \/ ~Undoable(id) /\ UNCHANGED proc
    /\ UNCHANGED <<request, files, hubspot, auditFailed, human>>

\* Seeded fault: a refused restore counts as a restore.
RestoreUnchecked(p) ==
    LET id == proc[p].id
    IN  /\ At(p, "restore")
        /\ undone' = undone \cup {id} \/ ("refused" \in Faults /\ UNCHANGED undone)
        /\ Goto(p, "consume", id, "none")
        /\ UNCHANGED <<request, files, applied, auditFailed, human>>

\* A refused or partly refused restore keeps the snapshot, and so does one whose
\* answer is lost.  Without an object type the object tools raise before HubSpot
\* is called (_validate_object_type).
Restore(p) ==
    LET id == proc[p].id
    IN  /\ At(p, "restore")
        /\ \/ request[id].object /\ undone' = undone \cup {id} /\ Goto(p, "consume", id, "none")
           \/ /\ request[id].object /\ "response_lost" \in Faults
              /\ undone' = undone \cup {id} /\ Return(p)
           \/ /\ request[id].object => "refused" \in Faults
              /\ Return(p) /\ UNCHANGED undone
        /\ UNCHANGED <<request, files, applied, auditFailed, human>>

ConsumeSnapshot(p) ==
    LET id == proc[p].id
    IN  /\ At(p, "consume")
        /\ snapshot' = [snapshot EXCEPT ![id] = "none"]
        /\ Goto(p, "log_undo", id, "none")
        /\ UNCHANGED <<request, pending, confirmed, expired, audited, undoAudited,
                       hubspot, auditFailed, human>>

LogUndo(p) ==
    /\ At(p, "log_undo")
    /\ \/ undoAudited' = undoAudited \cup {proc[p].id}
       \/ "audit_fails" \in Faults /\ UNCHANGED undoAudited
    /\ Return(p)
    /\ UNCHANGED <<request, pending, confirmed, expired, snapshot, audited,
                   hubspot, auditFailed, human>>

-----------------------------------------------------------------------------
(* Time, session starts, deaths *)

Expire(id) ==
    /\ id \in pending \ expired
    /\ expired' = expired \cup {id}
    /\ UNCHANGED <<request, pending, confirmed, snapshot, audited, undoAudited,
                   hubspot, auditFailed, human, proc>>

\* initialize_session reaps under the directory lock, whoever else is at work.
\* (A preview a schedule owns is exempt: one that never expires.)
Reap ==
    /\ \A id \in pending \cap expired : Unattended(id)
    /\ pending' = pending \ expired
    /\ confirmed' = confirmed \ expired
    /\ UNCHANGED <<request, expired, snapshot, audited, undoAudited,
                   hubspot, auditFailed, human, proc>>

Crash(p) ==
    /\ "crash" \in Faults
    /\ ~At(p, "idle")
    /\ Return(p)
    /\ UNCHANGED <<request, files, hubspot, auditFailed, human>>

Continue(p) ==
    \/ AutoApply(p) \/ ConfirmCount(p) \/ SaveSnapshot(p)
    \/ HubSpotApplies(p) \/ HubSpotRefuses(p)
    \/ DropSnapshot(p) \/ RecordCreated(p) \/ ClearPending(p) \/ LogApprove(p)
    \/ ClearRejected(p)
    \/ Restore(p) \/ ConsumeSnapshot(p) \/ LogUndo(p)

Start(p, id) ==
    \/ \E proposal \in Requests : Propose(p, id, proposal)
    \/ \E count \in Counts : Approve(p, id, count)
    \/ Reject(p, id)
    \/ Undo(p, id)

Next ==
    \/ \E p \in Procs : Continue(p) \/ Crash(p)
    \/ \E p \in Procs, id \in Ids : Start(p, id)
    \/ \E id \in Ids : Expire(id)
    \/ Reap

Spec == Init /\ [][Next]_vars
-----------------------------------------------------------------------------
(* Properties of every run: any overlap, any fault *)

\* Nothing reaches HubSpot past the gate (execute_pending_write, apply_write):
\* a destructive or full-gate write took effect only if a human typed its count,
\* and one no human approved only if it is a safe interactive tool write.
GateHonoured ==
    \A id \in Ids : applied[id] > 0 =>
        LET r == request[id]
        IN  /\ r.preview.destructive \/ r.tier = FULL_GATE => id \in typed
            /\ id \notin asked => r.tier = AUTO /\ r.interactive /\ r.path # "agent"

\* Why a preview may be gone: executed, rejected, or older than 24 hours.
HasReason(id) == applied[id] > 0 \/ id \in rejected \/ id \in expired

\* No crash, lost answer or other process makes a staged tool write disappear
\* (execute_pending_write clears the preview only after a success).
NothingVanishes ==
    \A id \in Ids : request[id].path = "tool" /\ id \notin pending => HasReason(id)

\* A preview that was executed, rejected or reaped never comes back
\* (persistence.confirm rewrites the file: it must look again under the lock).
NoResurrection ==
    [][\A id \in Ids : request[id] # NoRequest /\ id \notin pending => id \notin pending']_vars

\* The audit log, and the answer that stands in for it, never claim a tool write
\* or an undo HubSpot did not execute (the audit comes after the effect).
AuditIsTruthful ==
    /\ \A id \in audited \cup auditFailed : request[id].path = "tool" => applied[id] > 0
    /\ undoAudited \subseteq undone

-----------------------------------------------------------------------------
(* Properties of runs without overlap *)

\* The approval of the write was answered with success.
Done(id) == id \in audited \cup auditFailed

Settled(id) == \A p \in Procs : proc[p] # Idle => proc[p].id # id

\* An approved create or update that says it is undoable has all that its undo
\* asks for, once the approval was answered with success and nobody is at work,
\* until it is undone.  (What the undo then sends, HubSpot or the tool may refuse:
\* always, if the request named no object type.)
UndoStaysPossible ==
    \A id \in Ids :
        /\ Done(id) /\ Settled(id) /\ id \notin undone
        /\ is_undoable(request[id].preview.intent, request[id].preview.captured)
        => Undoable(id)

\* Whatever step of an approval a process dies in, a write that did take effect
\* keeps its undo artifact until it is undone: the snapshot is written first.
\* (Unless the approval is then repeated and HubSpot refuses the repetition: the
\* executor drops the snapshot of the first attempt with its own.)
EffectHasSnapshot ==
    \A id \in Ids : applied[id] > 0 /\ Snapshots(id) /\ id \notin undone =>
        snapshot[id] # "none"

\* An approval that fails leaves the preview on disk for a retry
\* (execute_pending_write's docstring).
FailureKeepsPreview ==
    [][\A p \in Procs :
          (At(p, "failed") \/ At(p, "save")) /\ proc'[p] = Idle => proc[p].id \in pending']_vars

\* A write that took effect and that nobody works on any more is in the audit
\* log, or its caller was told that the audit failed.
EffectLeavesTrace ==
    \A id \in Ids : applied[id] > 0 /\ Settled(id) => Done(id)

\* What an approval leaves behind: its trace, and what the way back begins with.
LeavesTraceAndUndo == EffectLeavesTrace /\ UndoStaysPossible

\* The gate keeps the promise of GatedWrite.
StageOf(id) ==
    IF request[id] = NoRequest THEN "none"
    ELSE IF id \in undone THEN "undone"
    ELSE IF applied[id] > 0 THEN "executed"
    ELSE IF id \in pending THEN "pending"
    ELSE "discarded"

Permitted(id) ==
    /\ request[id] # NoRequest
    /\ \/ id \in asked /\ (NeedsCount(request[id]) => id \in typed)
       \/ AutoApplies(request[id])

Abstract == INSTANCE GatedWrite WITH
    stage     <- [id \in Ids |-> StageOf(id)],
    permitted <- {id \in Ids : Permitted(id)},
    effects   <- applied

\* Serial approvals implement the abstract gate.
ImplementsGatedWrite == Abstract!Spec

=============================================================================
