-------------------------------- MODULE Bulk --------------------------------
(***************************************************************************)
(* The two tools that send their records chunk by chunk:                    *)
(* hubspot_batch_upsert_objects (tools/objects.py), which keeps a           *)
(* checkpoint (checkpoint.py) and a progress file (progress.py), and        *)
(* hubspot_bulk_update_objects (tools/hygiene.py), which does neither but   *)
(* compares HubSpot's echo with what it asked for.                          *)
(*                                                                          *)
(* A record is [key, id, spelling]: the value of the unique key (NoKey for  *)
(* an empty one), whether it carries the id of a record that exists, and    *)
(* how the key is written: upper and lower case name the same key.  In a    *)
(* bulk update the key stands for the id, and `spelling` for the value the  *)
(* record asks for.                                                         *)
(***************************************************************************)
EXTENDS Naturals, FiniteSets, Sequences, SequencesExt

CONSTANTS ChunkSize, NoKey, Keys, Old    \* Old: the value before the update

ASSUME BulkAssumption == ChunkSize \in Nat \ {0}

VARIABLE batch

Upsert == "hubspot_batch_upsert_objects"
Update == "hubspot_bulk_update_objects"

-----------------------------------------------------------------------------
(* The partition of the input. *)

\* Two spellings of a key are one key.
SameKey(one, other) == one.key = other.key

Repeats(records, i) ==
    /\ records[i].key # NoKey
    /\ \E j \in 1 .. i - 1 : SameKey(records[i], records[j])

Repeated(records) == {i \in DOMAIN records : Repeats(records, i)}
Created(records)  == {i \in DOMAIN records \ Repeated(records) : ~records[i].id}
Updated(records)  == {i \in DOMAIN records \ Repeated(records) : records[i].id}

\* The n-th of a set of positions, and the records at a set of them, in their order.
Nth(at, n) == CHOOSE i \in at : Cardinality({j \in at : j <= i}) = n
Selected(records, at) == [n \in 1 .. Cardinality(at) |-> records[Nth(at, n)]]

Creates(records) == Selected(records, Created(records))
Updates(records) == Selected(records, Updated(records))
Skipped(records) == Cardinality(Repeated(records))

Chunks(inputs) ==
    [n \in 1 .. (Len(inputs) + ChunkSize - 1) \div ChunkSize |->
        SubSeq(inputs, (n - 1) * ChunkSize + 1,
               IF n * ChunkSize < Len(inputs) THEN n * ChunkSize ELSE Len(inputs))]

\* Creates are sent before updates; a bulk update is sent as it came.
Plan(tool, records) ==
    IF tool = Upsert THEN Chunks(Creates(records)) \o Chunks(Updates(records))
    ELSE Chunks(records)

-----------------------------------------------------------------------------
(* The loop over the chunks. *)

Idle == [tool |-> "none", records |-> <<>>, plan |-> <<>>, at |-> 1, next |-> "idle",
         sent |-> <<>>, last |-> [good |-> 0, bad |-> 0], file |-> <<>>, place |-> "none",
         progress |-> 0, hub |-> [key \in Keys |-> Old], echo |-> <<>>]

\* CheckpointManager and ProgressTracker are made before the first chunk; the
\* checkpoint has no file before its first entry.
Start(tool, records) ==
    batch' = [Idle EXCEPT !.tool = tool, !.records = records, !.plan = Plan(tool, records),
                          !.next = IF Plan(tool, records) = <<>> THEN "finish" ELSE "send"]

\* What a chunk of n inputs comes back with.  A whole refused request counts
\* every input of its chunk as failed.
Answered(n) == {[good |-> n - bad, bad |-> bad] : bad \in 0 .. n}

Refused(n) == [good |-> 0, bad |-> n]

SendChunk ==
    /\ batch.next = "send" /\ batch.tool = Upsert
    /\ LET chunk == batch.plan[batch.at]
       IN  \E result \in Answered(Len(chunk)) \union {Refused(Len(chunk))} :
               batch' = [batch EXCEPT !.sent = @ \o chunk, !.last = result, !.next = "record"]

\* Seeded fault: the updates are numbered from the start again.
ChunkNumberOfItsKind ==
    IF batch.plan[batch.at][1].id
    THEN Cardinality({n \in 1 .. batch.at : batch.plan[n][1].id})
    ELSE batch.at

\* record_chunk replaces the file by a longer one.  The chunks of the updates are
\* numbered after those of the creates.
ChunkNumber == batch.at

RecordChunk ==
    /\ batch.next = "record"
    /\ batch' = [batch EXCEPT !.file = Append(@, [chunk |-> ChunkNumber, result |-> batch.last]),
                              !.place = "in_flight", !.next = "report"]

More == IF batch.at < Len(batch.plan) THEN "send" ELSE "finish"

ReportChunk ==
    /\ batch.next = "report"
    /\ batch' = [batch EXCEPT !.progress = ChunkNumber, !.at = @ + 1, !.next = More]

\* What a key holds once HubSpot has gone through the first i records of a chunk and
\* applied those at `applied`.
HoldsAfter(chunk, applied, i, key) ==
    LET written == {n \in applied : n <= i /\ chunk[n].key = key}
    IN  IF written = {} THEN batch.hub[key] ELSE chunk[Max(written)].spelling

\* The echoes of the records at `came`, each as it is after its own update.
Echoes(chunk, came, applied) ==
    [n \in 1 .. Cardinality(came) |->
        LET i == Nth(came, n)
        IN  [key |-> chunk[i].key, value |-> HoldsAfter(chunk, applied, i, chunk[i].key)]]

\* The chunk of a bulk update.  HubSpot answers for the records at `came`, but
\* leaves those at `still` as they were and echoes their old values.  A refused
\* request is the case came = {}; the next chunk is sent all the same.
SendUpdates ==
    /\ batch.next = "send" /\ batch.tool = Update
    /\ LET chunk == batch.plan[batch.at]
       IN  \E came \in SUBSET DOMAIN chunk : \E still \in SUBSET came :
               batch' = [batch EXCEPT
                            !.sent = @ \o chunk, !.at = @ + 1, !.next = More,
                            !.echo = @ \o Echoes(chunk, came, came \ still),
                            !.hub = [key \in Keys |->
                                HoldsAfter(chunk, came \ still, Len(chunk), key)]]

\* The echo of a record is the last one that came back for its id.
EchoesOf(key) == {n \in DOMAIN batch.echo : batch.echo[n].key = key}

Verified(record) ==
    \E n \in EchoesOf(record.key) :
        /\ \A other \in EchoesOf(record.key) : other <= n
        /\ batch.echo[n].value = record.spelling

\* finalize: the checkpoint, when there is one, moves; the progress file goes.
FinishBatch ==
    /\ batch.next = "finish"
    /\ batch' = [batch EXCEPT !.next = "done",
                              !.place = IF @ = "in_flight" THEN "completed" ELSE @,
                              !.progress = 0]

\* The answer to a chunk is lost, or the process is: the files stay as they are,
\* and a second run does not read them.
StopBatch ==
    /\ batch.next \in {"send", "record", "report", "finish"}
    /\ \/ batch' = [batch EXCEPT !.next = "stopped"]
       \/ /\ batch.next = "send"
          /\ batch' = [batch EXCEPT !.next = "stopped", !.sent = @ \o batch.plan[batch.at]]

BatchStep == SendChunk \/ SendUpdates \/ RecordChunk \/ ReportChunk \/ FinishBatch

-----------------------------------------------------------------------------
(* Properties. *)

BatchTypeOK ==
    /\ batch.tool \in {"none", Upsert, Update}
    /\ batch.next \in {"idle", "send", "record", "report", "finish", "done", "stopped"}
    /\ batch.place \in {"none", "in_flight", "completed"}
    /\ batch.at \in Nat \ {0} /\ batch.progress \in Nat
    /\ batch.hub \in [Keys -> {Old} \union {record.spelling : record \in Range(batch.records)}]

\* One run of an upsert sends one input for each key, however the key is spelled: a
\* repeated record would create its object twice (_partition_records).
OneInputPerKey ==
    batch.tool = Upsert =>
        \A i, j \in DOMAIN batch.sent :
            (i # j /\ batch.sent[i].key # NoKey) => batch.sent[i].key # batch.sent[j].key

\* The sum of a sequence of numbers.
Total(numbers) ==
    LET upTo[n \in 0 .. Len(numbers)] == IF n = 0 THEN 0 ELSE upTo[n - 1] + numbers[n]
    IN  upTo[Len(numbers)]

\* How many inputs the recorded chunks hold, and what their entries account for.
InputsRecorded == Total([n \in DOMAIN batch.file |-> Len(batch.plan[n])])
InputsAccounted ==
    Total([n \in DOMAIN batch.file |-> batch.file[n].result.good + batch.file[n].result.bad])

\* Whatever happened and whenever the run stopped, the checkpoint names the chunks
\* that were sent, in the order they were sent and none twice; at most the last one
\* sent is missing from it (CheckpointManager, the comment on last_completed_chunk).
CheckpointIsSafe ==
    /\ \A n \in DOMAIN batch.file : batch.file[n].chunk = n
    /\ LET inProgress == IF batch.at \in DOMAIN batch.plan THEN Len(batch.plan[batch.at]) ELSE 0
       IN  batch.tool = Upsert =>
               Len(batch.sent) \in {InputsRecorded, InputsRecorded + inProgress}

\* The finished checkpoint accounts for every record of the input: changed, failed
\* or skipped, whether a chunk failed in part or as a whole.
CheckpointAddsUp ==
    batch.place = "completed" =>
        InputsAccounted + Skipped(batch.records) = Len(batch.records)

\* When a bulk update has run, every record it calls verified has the value it
\* asked for, also when two records of the input are the same one, chunks were
\* refused and HubSpot left records as they were (_verify_echoed_results).
VerifiedIsTrue ==
    (batch.tool = Update /\ batch.next = "done") =>
        \A n \in DOMAIN batch.records :
            LET record == batch.records[n]
            IN  Verified(record) => batch.hub[record.key] = record.spelling

\* What HubSpot is sent, what the checkpoint names and sums, and what the result
\* calls verified agree.  (The count of failures in the result and the progress file
\* miss a chunk that was refused: nothing is claimed of them.)
BatchAddsUp == OneInputPerKey /\ CheckpointIsSafe /\ CheckpointAddsUp /\ VerifiedIsTrue
=============================================================================
