---------------------------- MODULE PatternWrite ----------------------------
(***************************************************************************)
(* Pattern approval: one approved rule applied to a set of records by      *)
(* handlers._execute_pattern_write, record by record with compare-and-set; *)
(* and the commands without an id, which act on the newest preview.        *)
(*                                                                         *)
(* A process is one CLI command.  Each action is the code between two      *)
(* points where HubSpot, a file or another process comes in.  A value is   *)
(* all a record holds in the fields its change names.                      *)
(***************************************************************************)
EXTENDS Integers, FiniteSets, Sequences, SequencesExt, Functions

CONSTANTS
    Records,   \* 1..n, in the order of the payload
    Values,    \* what the target fields of a record may hold
    Contents,  \* what HubSpot may hold at first: record -> value
    Empty,     \* the value of fields never set
    Ids,       \* action ids
    Procs,     \* processes
    Rules,     \* what may be proposed: record -> its new value, on some records or none
    Threshold, \* pattern_confirm_threshold
    Overlap,   \* may two processes work on one action at the same time?
    Races,     \* may a record change between an executor's re-read and its write?
    Faults,    \* what may go wrong, one of them and once
    MaxEdits   \* bound on the edits from elsewhere

AllFaults ==
    {"not_captured",   \* a read of the preview builder fails
     "read_fails",     \* a re-read fails
     "refused",        \* HubSpot refuses a write
     "response_lost",  \* HubSpot applies a write, the caller sees an error
     "snapshot_fails", \* the batch snapshot cannot be written
     "audit_fails",    \* an audit line cannot be written
     "crash"}          \* a process dies

NotCaptured == "not_captured"

ASSUME PatternWriteAssumption ==
    /\ IsFiniteSet(Records) /\ Records = 1..Cardinality(Records)
    /\ Empty \in Values /\ NotCaptured \notin Values
    /\ Contents \subseteq [Records -> Values]
    /\ Rules \subseteq UNION {[R -> Values] : R \in SUBSET Records}
    /\ Threshold \in Nat
    /\ Overlap \in BOOLEAN /\ Races \in BOOLEAN
    /\ Faults \subseteq AllFaults
    /\ MaxEdits \in Nat

VARIABLES
    crm,       \* what HubSpot holds
    matched,   \* id -> record -> the change and the captured pre-image
    staged,    \* history: the ids a preview was stored for
    queue,     \* pending ids, by the age of their files, the newest last
    confirmed, \* pending ids whose file carries the right count
    snapshot,  \* undo_snapshots/<id>.json: record -> value to restore
    audited,   \* <<id, record>> with an audit line
    proc,      \* what each process is doing
    changed,   \* history: id -> record -> what it held when HubSpot changed it
    clobbered, \* history: <<id, record>> that held another value than approved
    typed,     \* history: ids whose count somebody typed
    report,    \* history: id -> what its last approval reported
    mishap,    \* history: the fault that happened
    edits      \* history: how many edits there were

history == <<changed, clobbered, typed, report, mishap, edits>>
vars    == <<crm, matched, staged, queue, confirmed, snapshot, audited, proc, history>>

Nothing     == <<>>   \* the function on no record
NoReport    == [done |-> FALSE]
Idle        == [at |-> "idle"]
Steps       == {"look", "confirm", "gate", "drop", "read", "write", "clear", "audit"}
NoCount     == -1
Counts      == {NoCount} \cup 1..Cardinality(Records)

Pending   == Range(queue)
Count(id) == Cardinality(DOMAIN matched[id])

Captured == [pre : Values \cup {NotCaptured}, change : Values]
Job      == [at : Steps, id : Ids, count : Counts, left : SUBSET Records, applied : SUBSET Records,
             skipped : SUBSET Records, failed : SUBSET Records, told : BOOLEAN]

OnSomeRecords(f, S) == DOMAIN f \subseteq Records /\ \A r \in DOMAIN f : f[r] \in S

TypeOK ==
    /\ crm \in [Records -> Values]
    /\ DOMAIN matched = Ids /\ \A id \in Ids : OnSomeRecords(matched[id], Captured)
    /\ queue \in Seq(Ids) /\ IsInjective(queue)
    /\ Pending \subseteq staged /\ staged \subseteq Ids
    /\ confirmed \subseteq Pending
    /\ DOMAIN snapshot = Ids /\ \A id \in Ids : OnSomeRecords(snapshot[id], Values \cup {NotCaptured})
    /\ audited \subseteq Ids \X Records
    /\ proc \in [Procs -> Job \cup {Idle}]
    /\ \A p \in Procs : proc[p] # Idle =>
          proc[p].left \cup proc[p].applied \subseteq DOMAIN matched[proc[p].id]
    /\ mishap \in {"none"} \cup Faults
    /\ edits \in 0..MaxEdits

Init ==
    /\ crm \in Contents
    /\ matched = [id \in Ids |-> Nothing]
    /\ staged = {}
    /\ queue = <<>>
    /\ confirmed = {}
    /\ snapshot = [id \in Ids |-> Nothing]
    /\ audited = {}
    /\ proc = [p \in Procs |-> Idle]
    /\ changed = [id \in Ids |-> Nothing]
    /\ clobbered = {}
    /\ typed = {}
    /\ report = [id \in Ids |-> NoReport]
    /\ mishap = "none"
    /\ edits = 0

Mishap(fault) ==
    /\ fault \in Faults
    /\ mishap = "none"
    /\ mishap' = fault

-----------------------------------------------------------------------------
(* Staging *)

NeedsCount(id) == Count(id) > Threshold
Required(id)   == IF NeedsCount(id) THEN Count(id) ELSE 0

\* The command has checked that the rule is a reversible update of no sensitive
\* field.  The pre-images are read when the preview is built.  A single update names
\* no list of records: the batch it stages is empty, and its approval changes nothing.
Stage(id) ==
    /\ id \notin staged
    /\ \E rule \in Rules, missed \in SUBSET Records :
          /\ missed \subseteq DOMAIN rule
          /\ IF missed = {} THEN UNCHANGED mishap ELSE Mishap("not_captured")
          /\ matched' = [matched EXCEPT ![id] =
                [r \in DOMAIN rule |->
                    [pre |-> IF r \in missed THEN NotCaptured ELSE crm[r], change |-> rule[r]]]]
    /\ staged' = staged \cup {id}
    /\ queue' = Append(queue, id)
    /\ UNCHANGED <<crm, confirmed, snapshot, audited, proc, changed, clobbered, typed, report, edits>>

\* The queue without a preview.
Without(id) ==
    IF id \in Pending THEN RemoveAt(queue, CHOOSE i \in DOMAIN queue : queue[i] = id) ELSE queue

-----------------------------------------------------------------------------
(* Commands *)

At(p, step) == proc[p].at = step
Id(p)       == proc[p].id

Goto(p, step) == proc' = [proc EXCEPT ![p].at = step]
Quit(p)       == proc' = [proc EXCEPT ![p] = Idle]

Begun(step, id, count) ==
    [at |-> step, id |-> id, count |-> count, left |-> {},
     applied |-> {}, skipped |-> {}, failed |-> {}, told |-> TRUE]

Free(id) == Overlap \/ id \notin {Id(p) : p \in {q \in Procs : proc[q] # Idle}}

Command(p, id, count, step) ==
    /\ proc[p] = Idle
    /\ Free(id)
    /\ proc' = [proc EXCEPT ![p] = Begun(step, id, count)]
    /\ UNCHANGED <<crm, matched, staged, queue, confirmed, snapshot, audited, history>>

\* `approve <id> [<count>]`
Approve(p) == \E id \in Ids, count \in Counts : id \in staged /\ Command(p, id, count, "gate")

\* `approve`, `confirm <count>` and `reject`: the newest file is picked here and
\* looked into later.
ApproveLast(p) == queue # <<>> /\ Command(p, Last(queue), NoCount, "look")
ConfirmLast(p) == queue # <<>> /\ \E count \in Counts \ {NoCount} : Command(p, Last(queue), count, "look")
RejectLast(p)  == queue # <<>> /\ Command(p, Last(queue), NoCount, "drop")

\* _requires_count_preview goes by the required count, the executor by the tier.
Look(p) ==
    LET asks == Id(p) \in Pending /\ Required(Id(p)) > 1
    IN  /\ At(p, "look")
        /\ CASE asks /\ proc[p].count = NoCount -> Quit(p)
             [] asks /\ proc[p].count # NoCount -> Goto(p, "confirm")
             [] OTHER -> proc' = [proc EXCEPT ![p].at = "gate", ![p].count = NoCount]
        /\ UNCHANGED <<crm, matched, staged, queue, confirmed, snapshot, audited, history>>

\* Seeded fault: removing a preview leaves its count behind.
DropKeepingCount(p) ==
    /\ At(p, "drop")
    /\ queue' = Without(Id(p))
    /\ Quit(p)
    /\ UNCHANGED <<crm, matched, staged, confirmed, snapshot, audited, history>>

\* persistence.confirm writes the file anew, which makes it the newest.
RecordCount(id) ==
    /\ confirmed' = confirmed \cup {id}
    /\ queue' = Append(Without(id), id)
    /\ typed' = typed \cup {id}

RightCount(p) == Id(p) \in Pending /\ Required(Id(p)) = proc[p].count

Confirm(p) ==
    /\ At(p, "confirm")
    /\ IF RightCount(p)
       THEN RecordCount(Id(p)) /\ proc' = [proc EXCEPT ![p].at = "gate", ![p].count = NoCount]
       ELSE Quit(p) /\ UNCHANGED <<confirmed, queue, typed>>
    /\ UNCHANGED <<crm, matched, staged, snapshot, audited, changed, clobbered, report, mishap, edits>>

Drop(p) ==
    /\ At(p, "drop")
    /\ queue' = Without(Id(p))
    /\ confirmed' = confirmed \ {Id(p)}
    /\ Quit(p)
    /\ UNCHANGED <<crm, matched, staged, snapshot, audited, history>>

-----------------------------------------------------------------------------
(* The executor *)

StartBatch(p) == proc' = [proc EXCEPT ![p].at = "read", ![p].left = DOMAIN matched[Id(p)]]

\* Seeded fault: the gate goes by the count the commands ask for, and any will do.
GateOnAnyCount(p) ==
    /\ At(p, "gate")
    /\ \/ /\ Id(p) \notin Pending
          /\ Quit(p)
       \/ /\ Id(p) \in Pending
          /\ StartBatch(p)
    /\ UNCHANGED <<crm, matched, staged, queue, confirmed, snapshot, audited, history>>

Gate(p) ==
    /\ At(p, "gate")
    /\ \/ /\ Id(p) \notin Pending
          /\ Quit(p) /\ UNCHANGED <<confirmed, queue, typed>>
       \/ /\ Id(p) \in Pending
          /\ ~NeedsCount(Id(p)) \/ (proc[p].count = NoCount /\ Id(p) \in confirmed)
          /\ StartBatch(p) /\ UNCHANGED <<confirmed, queue, typed>>
       \/ /\ Id(p) \in Pending
          /\ NeedsCount(Id(p)) /\ proc[p].count = NoCount /\ Id(p) \notin confirmed
          /\ Quit(p) /\ UNCHANGED <<confirmed, queue, typed>>
       \/ /\ Id(p) \in Pending
          /\ NeedsCount(Id(p)) /\ proc[p].count # NoCount
          /\ IF RightCount(p)
             THEN RecordCount(Id(p)) /\ StartBatch(p)
             ELSE Quit(p) /\ UNCHANGED <<confirmed, queue, typed>>
    /\ UNCHANGED <<crm, matched, staged, snapshot, audited, changed, clobbered, report, mishap, edits>>

Record(p)   == CHOOSE r \in proc[p].left : \A s \in proc[p].left : r <= s
Approved(p) == matched[Id(p)][Record(p)]

\* Seeded fault: a record that fails ends the batch.
SettleAborting(p, outcome) ==
    proc' = [proc EXCEPT ![p].at = "read",
                         ![p].left = IF outcome = "failed" THEN {} ELSE @ \ {Record(p)},
                         ![p][outcome] = @ \cup {Record(p)}]

Settle(p, outcome) ==
    proc' = [proc EXCEPT ![p].at = "read", ![p].left = @ \ {Record(p)}, ![p][outcome] = @ \cup {Record(p)}]

\* An empty field reads as None, and so does a pre-image that was not captured.
SameValue(current, pre) == current = pre \/ (current = Empty /\ pre = NotCaptured)

\* Seeded fault: what the re-read returns is not compared.
RereadUnchecked(p) ==
    /\ At(p, "read")
    /\ proc[p].left # {}
    /\ \/ Goto(p, "write") /\ UNCHANGED mishap
       \/ Mishap("read_fails") /\ Settle(p, "failed")
    /\ UNCHANGED <<crm, matched, staged, queue, confirmed, snapshot, audited, changed, clobbered, typed, report, edits>>

Reread(p) ==
    /\ At(p, "read")
    /\ proc[p].left # {}
    /\ \/ /\ SameValue(crm[Record(p)], Approved(p).pre)
          /\ Goto(p, "write") /\ UNCHANGED mishap
       \/ /\ ~SameValue(crm[Record(p)], Approved(p).pre)
          /\ Settle(p, "skipped") /\ UNCHANGED mishap
       \/ /\ Mishap("read_fails")
          /\ Settle(p, "failed")
    /\ UNCHANGED <<crm, matched, staged, queue, confirmed, snapshot, audited, changed, clobbered, typed, report, edits>>

\* Nobody else is between the re-read and the write of this record.
Unwatched(r, others) == Races \/ r \notin {Record(q) : q \in {o \in others : At(o, "write")}}

HubSpotWrites(p) ==
    /\ crm' = [crm EXCEPT ![Record(p)] = Approved(p).change]
    /\ changed' = [changed EXCEPT ![Id(p)] =
          [r \in DOMAIN @ \cup {Record(p)} |-> IF r \in DOMAIN @ THEN @[r] ELSE crm[r]]]
    /\ clobbered' = IF SameValue(crm[Record(p)], Approved(p).pre) THEN clobbered
                    ELSE clobbered \cup {<<Id(p), Record(p)>>}

Write(p) ==
    /\ At(p, "write")
    /\ Unwatched(Record(p), Procs \ {p})
    /\ \/ HubSpotWrites(p) /\ Settle(p, "applied") /\ UNCHANGED mishap
       \/ HubSpotWrites(p) /\ Settle(p, "failed") /\ Mishap("response_lost")
       \/ Settle(p, "failed") /\ Mishap("refused") /\ UNCHANGED <<crm, changed, clobbered>>
    /\ UNCHANGED <<matched, staged, queue, confirmed, snapshot, audited, typed, report, edits>>

\* Seeded fault: the snapshot takes what the change put there.
SaveSnapshotOfChanges(p) ==
    /\ At(p, "read")
    /\ proc[p].left = {}
    /\ snapshot' = [snapshot EXCEPT ![Id(p)] = [r \in proc[p].applied |-> matched[Id(p)][r].change]]
    /\ Goto(p, "clear")
    /\ UNCHANGED <<crm, matched, staged, queue, confirmed, audited, history>>

\* One snapshot of the applied records, over whatever an earlier approval saved.
SaveSnapshot(p) ==
    /\ At(p, "read")
    /\ proc[p].left = {}
    /\ \/ /\ snapshot' = IF proc[p].applied = {} THEN snapshot
                         ELSE [snapshot EXCEPT ![Id(p)] =
                                 [r \in proc[p].applied |-> matched[Id(p)][r].pre]]
          /\ UNCHANGED mishap
       \/ /\ proc[p].applied # {}
          /\ Mishap("snapshot_fails")
          /\ UNCHANGED snapshot
    /\ Goto(p, "clear")
    /\ UNCHANGED <<crm, matched, staged, queue, confirmed, audited, changed, clobbered, typed, report, edits>>

ClearPending(p) ==
    /\ At(p, "clear")
    /\ queue' = Without(Id(p))
    /\ confirmed' = confirmed \ {Id(p)}
    /\ proc' = [proc EXCEPT ![p].at = "audit", ![p].left = proc[p].applied]
    /\ UNCHANGED <<crm, matched, staged, snapshot, audited, history>>

LogRecord(p) ==
    /\ At(p, "audit")
    /\ proc[p].left # {}
    /\ \/ /\ audited' = audited \cup {<<Id(p), Record(p)>>}
          /\ proc' = [proc EXCEPT ![p].left = @ \ {Record(p)}]
          /\ UNCHANGED mishap
       \/ /\ Mishap("audit_fails")
          /\ proc' = [proc EXCEPT ![p].left = @ \ {Record(p)}, ![p].told = FALSE]
          /\ UNCHANGED audited
    /\ UNCHANGED <<crm, matched, staged, queue, confirmed, snapshot, changed, clobbered, typed, report, edits>>

Report(p) ==
    /\ At(p, "audit")
    /\ proc[p].left = {}
    /\ report' = [report EXCEPT ![Id(p)] =
          [done |-> TRUE, applied |-> proc[p].applied, skipped |-> proc[p].skipped,
           failed |-> proc[p].failed, auditFailed |-> ~proc[p].told]]
    /\ Quit(p)
    /\ UNCHANGED <<crm, matched, staged, queue, confirmed, snapshot, audited, changed, clobbered, typed, mishap, edits>>

Crash(p) ==
    /\ proc[p] # Idle
    /\ Mishap("crash")
    /\ Quit(p)
    /\ UNCHANGED <<crm, matched, staged, queue, confirmed, snapshot, audited, changed, clobbered, typed, report, edits>>

-----------------------------------------------------------------------------
(* Undo, and everyone else's edits *)

\* `undo <id>`: each record of the snapshot is written back, whatever it holds
\* now; one that was not captured has nothing to write and counts as restored.
Undo(id) ==
    /\ snapshot[id] # Nothing
    /\ Free(id)
    /\ \A r \in DOMAIN snapshot[id] : Unwatched(r, Procs)
    /\ \E refused \in SUBSET DOMAIN snapshot[id] :
          /\ IF refused = {} THEN UNCHANGED mishap ELSE Mishap("refused")
          /\ crm' = [r \in Records |->
                IF r \in DOMAIN snapshot[id] \ refused /\ snapshot[id][r] # NotCaptured
                THEN snapshot[id][r] ELSE crm[r]]
          /\ snapshot' = IF refused = {} THEN [snapshot EXCEPT ![id] = Nothing] ELSE snapshot
    /\ UNCHANGED <<matched, staged, queue, confirmed, audited, proc, changed, clobbered, typed, report, edits>>

Edit(r) ==
    /\ Unwatched(r, Procs)
    /\ edits < MaxEdits /\ edits' = edits + 1
    /\ \E v \in Values : crm' = [crm EXCEPT ![r] = v]
    /\ UNCHANGED <<matched, staged, queue, confirmed, snapshot, audited, proc, changed, clobbered, typed, report, mishap>>

Next ==
    \/ \E id \in Ids : Stage(id) \/ Undo(id)
    \/ \E r \in Records : Edit(r)
    \/ \E p \in Procs :
          \/ Approve(p) \/ ApproveLast(p) \/ ConfirmLast(p) \/ RejectLast(p)
          \/ Look(p) \/ Confirm(p) \/ Drop(p) \/ Gate(p)
          \/ Reread(p) \/ Write(p) \/ SaveSnapshot(p) \/ ClearPending(p)
          \/ LogRecord(p) \/ Report(p) \/ Crash(p)

Spec == Init /\ [][Next]_vars

-----------------------------------------------------------------------------
(* Properties *)

\* A record that drifted from what the operator approved is not overwritten,
\* whatever other commands, batches and people do before the executor comes to
\* it.  Claimed for records that do not change between its re-read and its write.
NeverOverwrites == clobbered = {}

\* A batch over the threshold changes nothing before somebody typed its own
\* count, although the commands without an id pick their target by its age.
ManyNeedTheirCount ==
    \A id \in Ids : NeedsCount(id) /\ changed[id] # Nothing => id \in typed

\* The report hides nothing: every record of the batch is applied, skipped or
\* failed, and the applied ones are those HubSpot changed.  A lost answer makes a
\* failure of a change.
ReportIsComplete ==
    \A id \in Ids : report[id].done /\ mishap \notin {"crash", "response_lost"} =>
        /\ report[id].applied \cup report[id].skipped \cup report[id].failed = DOMAIN matched[id]
        /\ report[id].applied = DOMAIN changed[id]

\* Every change of a reported batch has its audit line, or the caller was told
\* that one is missing.
ChangesAreAudited ==
    \A id \in Ids : report[id].done /\ mishap \notin {"crash", "response_lost"} =>
        \/ report[id].auditFailed
        \/ \A r \in DOMAIN changed[id] : <<id, r>> \in audited

\* A batch that came to its end is told of in full.
BatchIsAccountedFor == ReportIsComplete /\ ChangesAreAudited

\* An undo that reports success leaves every record the batch changed as it was
\* before the batch.  Claimed without the faults that keep a value or a record
\* out of the snapshot: they cannot be undone.
UndoRestoresTheBatch ==
    [][mishap \notin {"not_captured", "response_lost", "snapshot_fails", "crash"} =>
          \A id \in Ids : snapshot[id] # Nothing /\ snapshot'[id] = Nothing =>
              \A r \in DOMAIN changed[id] : crm'[r] = changed[id][r]]_vars
=============================================================================
