------------------------ MODULE PatternWrite_proofs ------------------------
(***************************************************************************)
(* Proofs about PatternWrite for any records, values, rules, threshold,    *)
(* faults and number of processes.                                         *)
(***************************************************************************)
EXTENDS PatternWrite, TLAPS, FiniteSetTheorems, WellFoundedInduction

LEMMA LeastExists ==
  ASSUME NEW S \in SUBSET Nat, S # {}
  PROVE  \E x \in S : \A y \in S : x <= y
  <1>1. IsWellFoundedOn(OpToRel(<, Nat), Nat)
    BY NatLessThanWellFounded
  <1>2. PICK x \in S : \A y \in S : ~ (<<y, x>> \in OpToRel(<, Nat))
    BY <1>1, WFMin
  <1>3. \A y \in S : ~ (y < x)
    BY <1>2 DEF OpToRel
  <1>4. QED
    BY <1>3

LEMMA RecordsAreNumbers == Records \subseteq Nat
  BY PatternWriteAssumption, FS_CardinalityType

\* The executor works on a record it has not come to yet.
LEMMA RecordIsLeft ==
  ASSUME NEW p, proc[p].left \subseteq Records, proc[p].left # {}
  PROVE  Record(p) \in proc[p].left
  <1>1. \E r \in proc[p].left : \A s \in proc[p].left : r <= s
    BY LeastExists, RecordsAreNumbers
  <1>2. QED
    BY <1>1 DEF Record

\* What is left of a queue without repetitions when one place is taken out.
LEMMA WithoutOne ==
  ASSUME queue \in Seq(Ids), IsInjective(queue), NEW id
  PROVE  /\ Without(id) \in Seq(Ids) /\ IsInjective(Without(id))
         /\ Range(Without(id)) = Pending \ {id}
  <1>1. CASE id \notin Pending
    BY <1>1 DEF Without, Pending
  <1>2. CASE id \in Pending
    <2> DEFINE i == CHOOSE j \in DOMAIN queue : queue[j] = id
               q == Without(id)
    <2>1. i \in 1..Len(queue) /\ queue[i] = id
      BY <1>2 DEF Pending, Range
    <2>2. q = SubSeq(queue, 1, i - 1) \o SubSeq(queue, i + 1, Len(queue))
      BY <1>2 DEF Without, RemoveAt
    <2> HIDE DEF i, q
    <2>3. /\ SubSeq(queue, 1, i - 1) \in Seq(Ids) /\ Len(SubSeq(queue, 1, i - 1)) = i - 1
          /\ \A j \in 1..(i - 1) : SubSeq(queue, 1, i - 1)[j] = queue[j]
      BY <2>1
    <2>4. /\ SubSeq(queue, i + 1, Len(queue)) \in Seq(Ids) /\ Len(SubSeq(queue, i + 1, Len(queue))) = Len(queue) - i
          /\ \A j \in 1..(Len(queue) - i) : SubSeq(queue, i + 1, Len(queue))[j] = queue[i + j]
      BY <2>1
    <2>5. /\ q \in Seq(Ids) /\ Len(q) = Len(queue) - 1
          /\ \A j \in 1..(i - 1) : q[j] = queue[j]
          /\ \A j \in i..(Len(queue) - 1) : q[j] = queue[j + 1]
      <3> DEFINE l == SubSeq(queue, 1, i - 1)
                 r == SubSeq(queue, i + 1, Len(queue))
      <3>1. q = l \o r /\ l \in Seq(Ids) /\ r \in Seq(Ids)
        BY <2>2, <2>3, <2>4
      <3>2. /\ Len(l) = i - 1 /\ Len(r) = Len(queue) - i
            /\ \A j \in 1..(i - 1) : l[j] = queue[j]
            /\ \A j \in 1..(Len(queue) - i) : r[j] = queue[i + j]
        BY <2>3, <2>4
      <3> HIDE DEF l, r
      <3>3. q \in Seq(Ids) /\ Len(q) = Len(l) + Len(r)
        BY <3>1
      <3>4. \A j \in 1..(i - 1) : q[j] = l[j]
        BY <2>1, <3>1, <3>2
      <3>5. ASSUME NEW j \in i..(Len(queue) - 1) PROVE q[j] = queue[j + 1]
        <4>1. q[j] = r[j - (i - 1)]
          BY <2>1, <3>1, <3>2
        <4>2. j - (i - 1) \in 1..(Len(queue) - i) /\ i + (j - (i - 1)) = j + 1
          BY <2>1
        <4>3. QED
          BY <3>2, <4>1, <4>2
      <3>6. Len(q) = Len(queue) - 1
        <4>1. Len(queue) \in Nat /\ i \in 1..Len(queue)
          BY <2>1
        <4>2. QED
          BY <3>2, <3>3, <4>1
      <3>7. \A j \in 1..(i - 1) : q[j] = queue[j]
        BY <3>2, <3>4
      <3>8. \A j \in i..(Len(queue) - 1) : q[j] = queue[j + 1]
        BY <3>5
      <3>9. QED
        BY <3>3, <3>6, <3>7, <3>8
    <2>6. IsInjective(q)
      <3>1. ASSUME NEW a \in 1..Len(q), NEW b \in 1..Len(q), q[a] = q[b] PROVE a = b
        <4> DEFINE up(j) == IF j < i THEN j ELSE j + 1
        <4>1. \A j \in 1..Len(q) : up(j) \in 1..Len(queue) /\ q[j] = queue[up(j)]
          BY <2>1, <2>5
        <4>2. up(a) = up(b)
          BY <3>1, <4>1 DEF IsInjective
        <4>3. QED
          BY <2>1, <4>2
      <3>2. QED
        BY <2>5, <3>1 DEF IsInjective
    <2>7. Range(q) \subseteq Pending \ {id}
      <3>1. ASSUME NEW a \in 1..Len(q) PROVE q[a] \in Pending /\ q[a] # id
        BY <2>1, <2>5 DEF IsInjective, Pending, Range
      <3>2. QED
        BY <2>5, <3>1 DEF Range
    <2>8. Pending \ {id} \subseteq Range(q)
      <3>1. ASSUME NEW a \in 1..Len(queue), queue[a] # id PROVE queue[a] \in Range(q)
        <4>1. CASE a < i
          BY <2>1, <2>5, <4>1 DEF Range
        <4>2. CASE a > i
          <5>1. a - 1 \in i..(Len(queue) - 1) /\ q[a - 1] = queue[a]
            BY <2>1, <2>5, <4>2
          <5>2. QED
            BY <2>1, <2>5, <5>1 DEF Range
        <4>3. QED
          BY <2>1, <3>1, <4>1, <4>2
      <3>2. QED
        BY <3>1 DEF Pending, Range
    <2>9. QED
      BY <2>5, <2>6, <2>7, <2>8 DEF q
  <1>3. QED
    BY <1>1, <1>2

LEMMA AppendNew ==
  ASSUME NEW q \in Seq(Ids), IsInjective(q), NEW id \in Ids, id \notin Range(q)
  PROVE  /\ Append(q, id) \in Seq(Ids) /\ IsInjective(Append(q, id))
         /\ Range(Append(q, id)) = Range(q) \cup {id}
  <1>1. /\ Append(q, id) \in Seq(Ids) /\ Len(Append(q, id)) = Len(q) + 1
        /\ \A j \in 1..Len(q) : Append(q, id)[j] = q[j]
        /\ Append(q, id)[Len(q) + 1] = id
    OBVIOUS
  <1>2. \A j \in 1..Len(q) : q[j] \in Range(q) /\ q[j] # id
    BY DEF Range
  <1>3. IsInjective(Append(q, id))
    <2>1. ASSUME NEW a \in 1..(Len(q) + 1), NEW b \in 1..(Len(q) + 1), Append(q, id)[a] = Append(q, id)[b]
          PROVE  a = b
      BY <1>1, <1>2, <2>1 DEF IsInjective
    <2>2. QED
      BY <1>1, <2>1 DEF IsInjective
  <1>4. Range(Append(q, id)) \subseteq Range(q) \cup {id}
    BY <1>1 DEF Range
  <1>5. Range(q) \cup {id} \subseteq Range(Append(q, id))
    <2>1. \A j \in 1..Len(q) : q[j] \in Range(Append(q, id))
      BY <1>1 DEF Range
    <2>2. id \in Range(Append(q, id))
      BY <1>1 DEF Range
    <2>3. QED
      BY <2>1, <2>2 DEF Range
  <1>6. QED
    BY <1>1, <1>3, <1>4, <1>5
-----------------------------------------------------------------------------
\* A process that is about to write has just seen the approved value, if nobody
\* races it, and one that executes a batch over the threshold has its count.
JobInv(p) ==
    /\ proc[p] # Idle => Id(p) \in staged
    /\ At(p, "write") => proc[p].left # {}
    /\ At(p, "write") /\ ~Races => SameValue(crm[Record(p)], Approved(p).pre)
    /\ At(p, "read") \/ At(p, "write") => (NeedsCount(Id(p)) => Id(p) \in typed)

PatternInv ==
    /\ TypeOK
    /\ \A p \in Procs : JobInv(p)
    /\ confirmed \subseteq typed
    /\ DOMAIN changed = Ids
    /\ \A id \in Ids : changed[id] # Nothing => id \in staged
    /\ ManyNeedTheirCount
    /\ ~Races => NeverOverwrites

USE DEF At, Id

LEMMA InitInv == ASSUME Init PROVE PatternInv
  <1>1. DOMAIN Nothing = {} /\ \A r \in DOMAIN Nothing : FALSE
    BY DEF Nothing
  <1>2. <<>> \in Seq(Ids) /\ IsInjective(<<>>) /\ Range(<<>>) = {}
    BY DEF IsInjective, Range
  <1>3. TypeOK
    BY <1>1, <1>2, PatternWriteAssumption DEF Init, TypeOK, Pending, OnSomeRecords, Idle
  <1>4. QED
    BY <1>3, PatternWriteAssumption DEF Init, PatternInv, JobInv, Idle, ManyNeedTheirCount, NeverOverwrites

\* What TypeOK says of the process at hand.
LEMMA AtWork ==
  ASSUME PatternInv, NEW p \in Procs, proc[p] # Idle
  PROVE  /\ proc[p] \in Job /\ Id(p) \in Ids /\ JobInv(p) /\ Id(p) \in staged
         /\ proc[p].left \subseteq DOMAIN matched[Id(p)]
         /\ proc[p].applied \subseteq DOMAIN matched[Id(p)]
         /\ DOMAIN matched[Id(p)] \subseteq Records
         /\ \A r \in DOMAIN matched[Id(p)] : matched[Id(p)][r] \in Captured
         /\ proc[p].left # {} => Record(p) \in proc[p].left
  <1>1. /\ proc[p] \in Job /\ Id(p) \in Ids /\ JobInv(p)
        /\ proc[p].left \subseteq DOMAIN matched[Id(p)]
        /\ proc[p].applied \subseteq DOMAIN matched[Id(p)]
    BY DEF PatternInv, TypeOK, Job
  <1>2. /\ DOMAIN matched[Id(p)] \subseteq Records
        /\ \A r \in DOMAIN matched[Id(p)] : matched[Id(p)][r] \in Captured
    BY <1>1 DEF PatternInv, TypeOK, OnSomeRecords
  <1>3. Id(p) \in staged
    BY <1>1 DEF JobInv
  <1>4. QED
    BY <1>1, <1>2, <1>3, RecordIsLeft

\* What one process does to its own job, the records and the batches as they are.
LEMMA JobKeeps ==
  ASSUME PatternInv, NEW p \in Procs, NEW new \in Job \cup {Idle},
         proc' = [proc EXCEPT ![p] = new], UNCHANGED <<crm, matched, staged>>, typed \subseteq typed',
         new # Idle => new.left \cup new.applied \subseteq DOMAIN matched[new.id],
         JobInv(p)'
  PROVE  /\ proc' \in [Procs -> Job \cup {Idle}]
         /\ \A q \in Procs : proc'[q] # Idle =>
               proc'[q].left \cup proc'[q].applied \subseteq DOMAIN matched'[proc'[q].id]
         /\ \A q \in Procs : JobInv(q)'
  <1>1. /\ proc' \in [Procs -> Job \cup {Idle}] /\ proc'[p] = new
        /\ \A q \in Procs \ {p} : proc'[q] = proc[q]
    BY DEF PatternInv, TypeOK
  <1>2. \A q \in Procs : proc'[q] # Idle =>
           proc'[q].left \cup proc'[q].applied \subseteq DOMAIN matched'[proc'[q].id]
    BY <1>1 DEF PatternInv, TypeOK
  <1>3. ASSUME NEW q \in Procs, q # p PROVE JobInv(q)'
    <2>1. JobInv(q) /\ proc'[q] = proc[q]
      BY <1>1, <1>3 DEF PatternInv
    <2>2. Record(q)' = Record(q) /\ Approved(q)' = Approved(q) /\ NeedsCount(Id(q))' = NeedsCount(Id(q))
      BY <2>1 DEF Record, Approved, NeedsCount, Count
    <2>3. QED
      BY <2>1, <2>2 DEF JobInv, SameValue
  <1>4. QED
    BY <1>1, <1>2, <1>3

\* The rest of the invariant, of a step that changes no record and no batch.
LEMMA RestKeeps ==
  ASSUME PatternInv, UNCHANGED <<crm, matched, staged, changed, clobbered>>, typed \subseteq typed',
         queue' \in Seq(Ids), IsInjective(queue'), Pending' \subseteq Pending,
         confirmed' \subseteq Pending' \cap typed',
         DOMAIN snapshot' = Ids, \A id \in Ids : OnSomeRecords(snapshot'[id], Values \cup {NotCaptured}),
         audited' \subseteq Ids \X Records,
         mishap' \in {"none"} \cup Faults, edits' \in 0..MaxEdits,
         proc' \in [Procs -> Job \cup {Idle}],
         \A q \in Procs : proc'[q] # Idle =>
               proc'[q].left \cup proc'[q].applied \subseteq DOMAIN matched'[proc'[q].id],
         \A q \in Procs : JobInv(q)'
  PROVE  PatternInv'
  <1>1. TypeOK'
    BY DEF PatternInv, TypeOK, OnSomeRecords
  <1>2. ManyNeedTheirCount'
    BY DEF PatternInv, ManyNeedTheirCount, NeedsCount, Count
  <1>3. QED
    BY <1>1, <1>2 DEF PatternInv, NeverOverwrites

\* Both, of a step that leaves the files alone.
LEMMA OwnStepKeeps ==
  ASSUME PatternInv, NEW p \in Procs, NEW new \in Job \cup {Idle},
         proc' = [proc EXCEPT ![p] = new],
         UNCHANGED <<crm, matched, staged, queue, confirmed, snapshot, changed, clobbered, typed, edits>>,
         audited' \subseteq Ids \X Records, mishap' \in {"none"} \cup Faults,
         new # Idle => new.left \cup new.applied \subseteq DOMAIN matched[new.id],
         JobInv(p)'
  PROVE  PatternInv'
  <1>1. /\ proc' \in [Procs -> Job \cup {Idle}]
        /\ \A q \in Procs : proc'[q] # Idle =>
              proc'[q].left \cup proc'[q].applied \subseteq DOMAIN matched'[proc'[q].id]
        /\ \A q \in Procs : JobInv(q)'
    BY JobKeeps
  <1>2. /\ queue' \in Seq(Ids) /\ IsInjective(queue') /\ Pending' \subseteq Pending
        /\ confirmed' \subseteq Pending' \cap typed'
        /\ DOMAIN snapshot' = Ids /\ \A id \in Ids : OnSomeRecords(snapshot'[id], Values \cup {NotCaptured})
        /\ edits' \in 0..MaxEdits
    BY DEF PatternInv, TypeOK, Pending
  <1>3. QED
    BY <1>1, <1>2, RestKeeps
-----------------------------------------------------------------------------
LEMMA BegunIsJob ==
  ASSUME NEW step \in Steps, NEW id \in Ids, NEW count \in Counts
  PROVE  /\ Begun(step, id, count) \in Job
         /\ Begun(step, id, count).left = {} /\ Begun(step, id, count).applied = {}
         /\ Begun(step, id, count).at = step /\ Begun(step, id, count).id = id
  BY DEF Begun, Job

LEMMA CommandKeeps ==
  ASSUME PatternInv, NEW p \in Procs, NEW id \in Ids, NEW count \in Counts,
         NEW step \in {"look", "gate", "drop"}, Command(p, id, count, step),
         id \in staged
  PROVE  PatternInv'
  <1> DEFINE new == Begun(step, id, count)
  <1>1. new \in Job /\ new.left = {} /\ new.applied = {} /\ new.at = step /\ new.id = id
    BY BegunIsJob DEF Steps
  <1>2. proc' = [proc EXCEPT ![p] = new] /\ proc'[p] = new
    BY DEF Command, PatternInv, TypeOK
  <1>3. /\ UNCHANGED <<crm, matched, staged, queue, confirmed, snapshot, audited, changed, clobbered, typed, mishap, edits>>
    BY DEF Command, history
  <1>4. JobInv(p)'
    BY <1>1, <1>2, <1>3 DEF JobInv
  <1>5. audited' \subseteq Ids \X Records /\ mishap' \in {"none"} \cup Faults
    BY <1>3 DEF PatternInv, TypeOK
  <1> HIDE DEF new
  <1>6. QED
    BY <1>1, <1>2, <1>3, <1>4, <1>5, OwnStepKeeps

LEMMA CommandsKeep ==
  ASSUME PatternInv, NEW p \in Procs, Approve(p) \/ ApproveLast(p) \/ ConfirmLast(p) \/ RejectLast(p)
  PROVE  PatternInv'
  <1>1. queue # <<>> => Last(queue) \in Ids /\ Last(queue) \in staged
    BY DEF PatternInv, TypeOK, Last, Pending, Range
  <1>2. NoCount \in Counts /\ \A count \in Counts \ {NoCount} : count \in Counts
    BY DEF Counts
  <1>3. QED
    BY <1>1, <1>2, CommandKeeps DEF Approve, ApproveLast, ConfirmLast, RejectLast

\* A process that does not execute owes nothing.
LEMMA NotExecuting ==
  ASSUME PatternInv, NEW p \in Procs, NEW new \in Job \cup {Idle}, proc' = [proc EXCEPT ![p] = new],
         new = Idle \/ (new.at \notin {"read", "write"} /\ new.id \in staged')
  PROVE  JobInv(p)'
  <1>1. proc'[p] = new
    BY DEF PatternInv, TypeOK
  <1>2. QED
    BY <1>1 DEF JobInv, Idle

LEMMA LookKeeps ==
  ASSUME PatternInv, NEW p \in Procs, Look(p)
  PROVE  PatternInv'
  <1>1. /\ proc[p] # Idle
        /\ UNCHANGED <<crm, matched, staged, queue, confirmed, snapshot, audited, changed, clobbered, typed, mishap, edits>>
    BY DEF Look, Idle, history
  <1>2. audited' \subseteq Ids \X Records /\ mishap' \in {"none"} \cup Faults
    BY <1>1 DEF PatternInv, TypeOK
  <1>3. /\ proc[p] \in Job /\ proc[p].left \cup proc[p].applied \subseteq DOMAIN matched[proc[p].id]
        /\ proc[p].id \in staged'
    BY <1>1, AtWork
  <1>4. CASE Quit(p)
    <2>1. proc' = [proc EXCEPT ![p] = Idle] /\ proc'[p] = Idle
      BY <1>4 DEF Quit, PatternInv, TypeOK
    <2>2. JobInv(p)'
      BY <2>1 DEF JobInv, Idle
    <2>3. QED
      BY <1>1, <1>2, <2>1, <2>2, OwnStepKeeps
  <1>5. CASE Goto(p, "confirm")
    <2> DEFINE new == [proc[p] EXCEPT !.at = "confirm"]
    <2>1. /\ proc' = [proc EXCEPT ![p] = new] /\ proc'[p] = new
          /\ new \in Job /\ new.at = "confirm" /\ new.left = proc[p].left
          /\ new.applied = proc[p].applied /\ new.id = proc[p].id
      BY <1>3, <1>5 DEF Goto, PatternInv, TypeOK, Job, Steps
    <2>2. JobInv(p)'
      BY <1>3, <2>1 DEF JobInv
    <2> HIDE DEF new
    <2>3. QED
      BY <1>1, <1>2, <1>3, <2>1, <2>2, OwnStepKeeps
  <1>6. CASE proc' = [proc EXCEPT ![p].at = "gate", ![p].count = NoCount]
    <2> DEFINE new == [proc[p] EXCEPT !.at = "gate", !.count = NoCount]
    <2>1. /\ proc' = [proc EXCEPT ![p] = new] /\ proc'[p] = new
          /\ new \in Job /\ new.at = "gate" /\ new.left = proc[p].left
          /\ new.applied = proc[p].applied /\ new.id = proc[p].id
      BY <1>3, <1>6 DEF PatternInv, TypeOK, Job, Steps, Counts
    <2>2. JobInv(p)'
      BY <1>3, <2>1 DEF JobInv
    <2> HIDE DEF new
    <2>3. QED
      BY <1>1, <1>2, <1>3, <2>1, <2>2, OwnStepKeeps
  <1>7. QED
    BY <1>4, <1>5, <1>6 DEF Look
LEMMA RecordCountIs ==
  ASSUME PatternInv, NEW id \in Pending, RecordCount(id)
  PROVE  /\ queue' \in Seq(Ids) /\ IsInjective(queue') /\ Pending' = Pending
         /\ confirmed' \subseteq Pending' \cap typed'
         /\ typed \subseteq typed' /\ id \in typed'
  <1>1. queue \in Seq(Ids) /\ IsInjective(queue) /\ id \in Ids
    BY DEF PatternInv, TypeOK, Pending, Range
  <1>2. /\ Without(id) \in Seq(Ids) /\ IsInjective(Without(id))
        /\ Range(Without(id)) = Pending \ {id}
    BY <1>1, WithoutOne
  <1>3. /\ queue' \in Seq(Ids) /\ IsInjective(queue') /\ Range(queue') = (Pending \ {id}) \cup {id}
    BY <1>1, <1>2, AppendNew DEF RecordCount
  <1>4. Pending' = Pending
    BY <1>3 DEF Pending
  <1>5. QED
    BY <1>3, <1>4 DEF RecordCount, PatternInv, TypeOK

\* A step of one process that may touch the pending files and their counts.
LEMMA QueueStepKeeps ==
  ASSUME PatternInv, NEW p \in Procs, NEW new \in Job \cup {Idle},
         proc' = [proc EXCEPT ![p] = new],
         UNCHANGED <<crm, matched, staged, snapshot, audited, changed, clobbered, mishap, edits>>,
         queue' \in Seq(Ids), IsInjective(queue'), Pending' \subseteq Pending,
         confirmed' \subseteq Pending' \cap typed', typed \subseteq typed',
         new # Idle => new.left \cup new.applied \subseteq DOMAIN matched[new.id],
         JobInv(p)'
  PROVE  PatternInv'
  <1>1. /\ proc' \in [Procs -> Job \cup {Idle}]
        /\ \A q \in Procs : proc'[q] # Idle =>
              proc'[q].left \cup proc'[q].applied \subseteq DOMAIN matched'[proc'[q].id]
        /\ \A q \in Procs : JobInv(q)'
    BY JobKeeps
  <1>2. /\ DOMAIN snapshot' = Ids /\ \A id \in Ids : OnSomeRecords(snapshot'[id], Values \cup {NotCaptured})
        /\ audited' \subseteq Ids \X Records
        /\ mishap' \in {"none"} \cup Faults /\ edits' \in 0..MaxEdits
    BY DEF PatternInv, TypeOK
  <1>3. QED
    BY <1>1, <1>2, RestKeeps

\* The files as they are, for the steps that leave them alone.
LEMMA FilesAsTheyAre ==
  ASSUME PatternInv, UNCHANGED <<queue, confirmed, typed>>
  PROVE  /\ queue' \in Seq(Ids) /\ IsInjective(queue') /\ Pending' \subseteq Pending
         /\ confirmed' \subseteq Pending' \cap typed' /\ typed \subseteq typed'
  BY DEF PatternInv, TypeOK, Pending

LEMMA ConfirmKeeps ==
  ASSUME PatternInv, NEW p \in Procs, Confirm(p)
  PROVE  PatternInv'
  <1>1. proc[p] # Idle /\ UNCHANGED <<crm, matched, staged, snapshot, audited, changed, clobbered, mishap, edits>>
    BY DEF Confirm, Idle
  <1>2. /\ proc[p] \in Job /\ proc[p].left \cup proc[p].applied \subseteq DOMAIN matched[proc[p].id]
        /\ proc[p].id \in staged'
    BY <1>1, AtWork
  <1>3. CASE RightCount(p)
    <2> DEFINE new == [proc[p] EXCEPT !.at = "gate", !.count = NoCount]
    <2>1. /\ proc' = [proc EXCEPT ![p] = new] /\ RecordCount(Id(p)) /\ Id(p) \in Pending
          /\ new \in Job /\ new.at = "gate" /\ new.left = proc[p].left
          /\ new.applied = proc[p].applied /\ new.id = proc[p].id
      BY <1>2, <1>3 DEF Confirm, RightCount, PatternInv, TypeOK, Job, Steps, Counts
    <2> HIDE DEF new
    <2>2. JobInv(p)'
      BY <1>2, <2>1, NotExecuting
    <2>3. QED
      BY <1>1, <1>2, <2>1, <2>2, RecordCountIs, QueueStepKeeps
  <1>4. CASE ~RightCount(p)
    <2>1. proc' = [proc EXCEPT ![p] = Idle] /\ UNCHANGED <<queue, confirmed, typed>>
      BY <1>4 DEF Confirm, Quit
    <2>2. JobInv(p)'
      BY <2>1, NotExecuting
    <2>3. QED
      BY <1>1, <2>1, <2>2, FilesAsTheyAre, QueueStepKeeps
  <1>5. QED
    BY <1>3, <1>4

\* A preview leaves with the count in its file.
LEMMA LeavesQueue ==
  ASSUME PatternInv, NEW id, queue' = Without(id), confirmed' = confirmed \ {id}, UNCHANGED typed
  PROVE  /\ queue' \in Seq(Ids) /\ IsInjective(queue') /\ Pending' = Pending \ {id}
         /\ confirmed' \subseteq Pending' \cap typed' /\ typed \subseteq typed'
  <1>1. /\ queue' \in Seq(Ids) /\ IsInjective(queue') /\ Range(queue') = Pending \ {id}
    BY WithoutOne DEF PatternInv, TypeOK
  <1>2. Pending' = Pending \ {id}
    BY <1>1 DEF Pending
  <1>3. QED
    BY <1>1, <1>2 DEF PatternInv, TypeOK

LEMMA DropKeeps ==
  ASSUME PatternInv, NEW p \in Procs, Drop(p)
  PROVE  PatternInv'
  <1>1. /\ proc' = [proc EXCEPT ![p] = Idle]
        /\ UNCHANGED <<crm, matched, staged, snapshot, audited, changed, clobbered, typed, mishap, edits>>
    BY DEF Drop, Quit, history
  <1>2. JobInv(p)'
    BY <1>1, NotExecuting
  <1>3. QED
    BY <1>1, <1>2, LeavesQueue, QueueStepKeeps DEF Drop

\* The batch starts with every record, and with the count if it needs one.
LEMMA StartKeeps ==
  ASSUME PatternInv, NEW p \in Procs, At(p, "gate"), StartBatch(p),
         UNCHANGED <<crm, matched, staged, snapshot, audited, changed, clobbered, mishap, edits>>,
         queue' \in Seq(Ids), IsInjective(queue'), Pending' \subseteq Pending,
         confirmed' \subseteq Pending' \cap typed', typed \subseteq typed',
         NeedsCount(Id(p)) => Id(p) \in typed'
  PROVE  PatternInv'
  <1> DEFINE new == [proc[p] EXCEPT !.at = "read", !.left = DOMAIN matched[Id(p)]]
  <1>1. proc[p] # Idle
    BY DEF Idle
  <1>2. /\ proc[p] \in Job /\ proc[p].applied \subseteq DOMAIN matched[Id(p)] /\ DOMAIN matched[Id(p)] \subseteq Records
        /\ Id(p) \in staged'
    BY <1>1, AtWork
  <1>3. /\ proc' = [proc EXCEPT ![p] = new] /\ proc'[p] = new
        /\ new \in Job /\ new.at = "read" /\ new.left = DOMAIN matched[Id(p)]
        /\ new.applied = proc[p].applied /\ new.id = Id(p)
    BY <1>2 DEF StartBatch, PatternInv, TypeOK, Job, Steps
  <1> HIDE DEF new
  <1>4. JobInv(p)'
    <2>1. NeedsCount(Id(p))' => Id(p)' \in typed'
      BY <1>3 DEF NeedsCount, Count
    <2>2. QED
      BY <1>2, <1>3, <2>1 DEF JobInv
  <1>5. QED
    BY <1>2, <1>3, <1>4, QueueStepKeeps

LEMMA GateKeeps ==
  ASSUME PatternInv, NEW p \in Procs, Gate(p)
  PROVE  PatternInv'
  <1>1. At(p, "gate") /\ UNCHANGED <<crm, matched, staged, snapshot, audited, changed, clobbered, mishap, edits>>
    BY DEF Gate
  <1>2. CASE Quit(p) /\ UNCHANGED <<confirmed, queue, typed>>
    <2>1. proc' = [proc EXCEPT ![p] = Idle]
      BY <1>2 DEF Quit
    <2>2. JobInv(p)'
      BY <2>1, NotExecuting
    <2>3. QED
      BY <1>1, <1>2, <2>1, <2>2, FilesAsTheyAre, QueueStepKeeps
  <1>3. CASE /\ ~NeedsCount(Id(p)) \/ (proc[p].count = NoCount /\ Id(p) \in confirmed)
             /\ StartBatch(p) /\ UNCHANGED <<confirmed, queue, typed>>
    BY <1>1, <1>3, FilesAsTheyAre, StartKeeps DEF PatternInv
  <1>4. CASE RightCount(p) /\ RecordCount(Id(p)) /\ StartBatch(p)
    BY <1>1, <1>4, RecordCountIs, StartKeeps DEF RightCount
  <1>5. QED
    BY <1>2, <1>3, <1>4 DEF Gate
-----------------------------------------------------------------------------
\* A record that is settled leaves the list; an applied one is of the batch.
LEMMA SettleIs ==
  ASSUME PatternInv, NEW p \in Procs, At(p, "read") \/ At(p, "write"), proc[p].left # {},
         NEW outcome \in {"applied", "skipped", "failed"}, Settle(p, outcome), UNCHANGED matched
  PROVE  /\ proc' = [proc EXCEPT ![p] = proc'[p]]
         /\ proc'[p] \in Job /\ proc'[p].at = "read" /\ proc'[p].id = Id(p)
         /\ proc'[p].left \cup proc'[p].applied \subseteq DOMAIN matched[Id(p)]
  <1>1. /\ proc[p] \in Job /\ proc[p].left \cup proc[p].applied \subseteq DOMAIN matched[Id(p)]
        /\ Record(p) \in proc[p].left /\ Record(p) \in Records
    BY AtWork DEF Idle
  <1>2. proc \in [Procs -> Job \cup {Idle}]
    BY DEF PatternInv, TypeOK
  <1>3. CASE outcome = "applied"
    <2>1. proc' = [proc EXCEPT ![p] = [proc[p] EXCEPT !.at = "read", !.left = @ \ {Record(p)},
                                                       !.applied = @ \cup {Record(p)}]]
      BY <1>1, <1>2, <1>3 DEF Settle, Job
    <2>2. [proc[p] EXCEPT !.at = "read", !.left = @ \ {Record(p)}, !.applied = @ \cup {Record(p)}] \in Job
      BY <1>1 DEF Job, Steps
    <2>3. QED
      BY <1>1, <1>2, <2>1, <2>2 DEF Job
  <1>4. CASE outcome = "skipped"
    <2>1. proc' = [proc EXCEPT ![p] = [proc[p] EXCEPT !.at = "read", !.left = @ \ {Record(p)},
                                                       !.skipped = @ \cup {Record(p)}]]
      BY <1>1, <1>2, <1>4 DEF Settle, Job
    <2>2. [proc[p] EXCEPT !.at = "read", !.left = @ \ {Record(p)}, !.skipped = @ \cup {Record(p)}] \in Job
      BY <1>1 DEF Job, Steps
    <2>3. QED
      BY <1>1, <1>2, <2>1, <2>2 DEF Job
  <1>5. CASE outcome = "failed"
    <2>1. proc' = [proc EXCEPT ![p] = [proc[p] EXCEPT !.at = "read", !.left = @ \ {Record(p)},
                                                       !.failed = @ \cup {Record(p)}]]
      BY <1>1, <1>2, <1>5 DEF Settle, Job
    <2>2. [proc[p] EXCEPT !.at = "read", !.left = @ \ {Record(p)}, !.failed = @ \cup {Record(p)}] \in Job
      BY <1>1 DEF Job, Steps
    <2>3. QED
      BY <1>1, <1>2, <2>1, <2>2 DEF Job
  <1>6. QED
    BY <1>3, <1>4, <1>5

\* It is still executing, with the count it needs.
LEMMA StillExecuting ==
  ASSUME PatternInv, NEW p \in Procs, At(p, "read") \/ At(p, "write"), UNCHANGED <<matched, staged, typed>>,
         proc'[p] \in Job, proc'[p].at = "read", proc'[p].id = Id(p)
  PROVE  JobInv(p)'
  <1>1. proc[p] # Idle /\ JobInv(p) /\ Id(p) \in staged
    BY AtWork DEF Idle
  <1>2. NeedsCount(Id(p))' = NeedsCount(Id(p))
    BY DEF NeedsCount, Count
  <1>3. QED
    BY <1>1, <1>2 DEF JobInv

LEMMA MishapIs ==
  ASSUME PatternInv, NEW fault, UNCHANGED mishap \/ Mishap(fault)
  PROVE  mishap' \in {"none"} \cup Faults
  BY DEF PatternInv, TypeOK, Mishap

LEMMA RereadKeeps ==
  ASSUME PatternInv, NEW p \in Procs, Reread(p)
  PROVE  PatternInv'
  <1>1. /\ At(p, "read") /\ proc[p].left # {} /\ proc[p] # Idle
        /\ UNCHANGED <<crm, matched, staged, queue, confirmed, snapshot, audited, changed, clobbered, typed, report, edits>>
    BY DEF Reread, Idle
  <1>2. audited' \subseteq Ids \X Records /\ mishap' \in {"none"} \cup Faults
    BY <1>1, MishapIs DEF Reread, PatternInv, TypeOK
  <1>3. /\ proc[p] \in Job /\ proc[p].left \cup proc[p].applied \subseteq DOMAIN matched[Id(p)]
        /\ JobInv(p) /\ Id(p) \in staged
    BY <1>1, AtWork
  <1>4. CASE SameValue(crm[Record(p)], Approved(p).pre) /\ Goto(p, "write")
    <2> DEFINE new == [proc[p] EXCEPT !.at = "write"]
    <2>1. /\ proc' = [proc EXCEPT ![p] = new] /\ proc'[p] = new
          /\ new \in Job /\ new.at = "write" /\ new.left = proc[p].left
          /\ new.applied = proc[p].applied /\ new.id = proc[p].id
      BY <1>3, <1>4 DEF Goto, PatternInv, TypeOK, Job, Steps
    <2> HIDE DEF new
    <2>2. Record(p)' = Record(p) /\ Approved(p)' = Approved(p) /\ NeedsCount(Id(p))' = NeedsCount(Id(p))
      BY <1>1, <2>1 DEF Record, Approved, NeedsCount, Count
    <2>3. JobInv(p)'
      BY <1>1, <1>3, <1>4, <2>1, <2>2 DEF JobInv, SameValue
    <2>4. QED
      BY <1>1, <1>2, <1>3, <2>1, <2>3, OwnStepKeeps
  <1>5. ASSUME NEW outcome \in {"skipped", "failed"}, Settle(p, outcome) PROVE PatternInv'
    <2>1. /\ proc' = [proc EXCEPT ![p] = proc'[p]]
          /\ proc'[p] \in Job /\ proc'[p].at = "read" /\ proc'[p].id = Id(p)
          /\ proc'[p].left \cup proc'[p].applied \subseteq DOMAIN matched[Id(p)]
      BY <1>1, <1>5, SettleIs
    <2>2. JobInv(p)'
      BY <1>1, <2>1, StillExecuting
    <2>3. QED
      BY <1>1, <1>2, <2>1, <2>2, OwnStepKeeps
  <1>6. QED
    BY <1>4, <1>5 DEF Reread

\* HubSpot changes the record of p, which nobody else is about to write.
LEMMA WriteKeeps ==
  ASSUME PatternInv, NEW p \in Procs, Write(p)
  PROVE  PatternInv'
  <1>1. /\ At(p, "write") /\ proc[p] # Idle
        /\ UNCHANGED <<matched, staged, queue, confirmed, snapshot, audited, typed, report, edits>>
    BY DEF Write, Idle
  <1>2. JobInv(p) /\ proc[p].left # {} /\ Id(p) \in Ids /\ Id(p) \in staged
    BY <1>1, AtWork DEF JobInv
  <1>3. Record(p) \in DOMAIN matched[Id(p)] /\ Record(p) \in Records /\ Approved(p).change \in Values
    BY <1>1, <1>2, AtWork DEF Approved, Captured
  <1>4. mishap' \in {"none"} \cup Faults
    BY MishapIs DEF Write
  <1>5. PICK outcome \in {"applied", "failed"} : Settle(p, outcome)
    BY DEF Write
  <1>6. /\ proc' = [proc EXCEPT ![p] = proc'[p]]
        /\ proc'[p] \in Job /\ proc'[p].at = "read" /\ proc'[p].id = Id(p)
        /\ proc'[p].left \cup proc'[p].applied \subseteq DOMAIN matched[Id(p)]
    BY <1>1, <1>2, <1>5, SettleIs
  <1>7. JobInv(p)'
    BY <1>1, <1>6, StillExecuting
  <1>8. CASE UNCHANGED <<crm, changed, clobbered>>
    BY <1>1, <1>4, <1>6, <1>7, <1>8, OwnStepKeeps DEF PatternInv, TypeOK
  <1>9. CASE HubSpotWrites(p)
    <2>1. /\ crm' \in [Records -> Values]
          /\ \A r \in Records : r # Record(p) => crm'[r] = crm[r]
      BY <1>3, <1>9 DEF HubSpotWrites, PatternInv, TypeOK
    <2>2. /\ DOMAIN changed' = Ids
          /\ \A id \in Ids : id # Id(p) => changed'[id] = changed[id]
      BY <1>9 DEF HubSpotWrites, PatternInv
    <2>3. ~Races => clobbered' = clobbered
      BY <1>1, <1>2, <1>9 DEF HubSpotWrites, JobInv
    <2>4. ASSUME NEW q \in Procs PROVE JobInv(q)'
      <3>1. CASE q = p
        BY <1>7, <3>1
      <3>2. CASE q # p
        <4>1. proc'[q] = proc[q] /\ JobInv(q)
          BY <1>6, <3>2 DEF PatternInv, TypeOK
        <4>2. Record(q)' = Record(q) /\ Approved(q)' = Approved(q) /\ NeedsCount(Id(q))' = NeedsCount(Id(q))
          BY <1>1, <4>1 DEF Record, Approved, NeedsCount, Count
        <4>3. ASSUME At(q, "write"), ~Races PROVE crm'[Record(q)] = crm[Record(q)]
          <5>1. Record(q) \in Records
            BY <4>1, <4>3, AtWork DEF JobInv, Idle
          <5>2. Record(q) # Record(p)
            BY <3>2, <4>3 DEF Write, Unwatched
          <5>3. QED
            BY <2>1, <5>1, <5>2
        <4>4. QED
          BY <1>1, <4>1, <4>2, <4>3 DEF JobInv
      <3>3. QED
        BY <3>1, <3>2
    <2>5. TypeOK'
      <3>1. /\ proc' \in [Procs -> Job \cup {Idle}]
            /\ \A q \in Procs : proc'[q] # Idle =>
                  proc'[q].left \cup proc'[q].applied \subseteq DOMAIN matched'[proc'[q].id]
        BY <1>1, <1>6 DEF PatternInv, TypeOK
      <3>2. QED
        BY <1>1, <1>4, <2>1, <3>1 DEF PatternInv, TypeOK, OnSomeRecords, Pending
    <2>6. ManyNeedTheirCount'
      <3>1. \A id \in Ids : NeedsCount(id)' = NeedsCount(id)
        BY <1>1 DEF NeedsCount, Count
      <3>2. NeedsCount(Id(p)) => Id(p) \in typed
        BY <1>1, <1>2 DEF JobInv
      <3>3. QED
        BY <1>1, <2>2, <3>1, <3>2 DEF PatternInv, ManyNeedTheirCount
    <2>7. \A id \in Ids : changed'[id] # Nothing => id \in staged'
      BY <1>1, <1>2, <2>2 DEF PatternInv
    <2>8. confirmed' \subseteq typed' /\ (~Races => NeverOverwrites')
      BY <1>1, <2>3 DEF PatternInv, NeverOverwrites
    <2>9. QED
      BY <2>2, <2>4, <2>5, <2>6, <2>7, <2>8 DEF PatternInv
  <1>10. QED
    BY <1>8, <1>9 DEF Write
LEMMA SaveSnapshotKeeps ==
  ASSUME PatternInv, NEW p \in Procs, SaveSnapshot(p)
  PROVE  PatternInv'
  <1>1. /\ At(p, "read") /\ proc[p] # Idle
        /\ UNCHANGED <<crm, matched, staged, queue, confirmed, audited, changed, clobbered, typed, report, edits>>
    BY DEF SaveSnapshot, Idle
  <1>2. /\ proc[p] \in Job /\ proc[p].left \cup proc[p].applied \subseteq DOMAIN matched[Id(p)]
        /\ Id(p) \in Ids /\ Id(p) \in staged'
        /\ \A r \in DOMAIN matched[Id(p)] : r \in Records /\ matched[Id(p)][r] \in Captured
    BY <1>1, AtWork
  <1>3. mishap' \in {"none"} \cup Faults
    BY MishapIs DEF SaveSnapshot
  <1>4. DOMAIN snapshot' = Ids /\ \A id \in Ids : OnSomeRecords(snapshot'[id], Values \cup {NotCaptured})
    <2> DEFINE saved == [r \in proc[p].applied |-> matched[Id(p)][r].pre]
    <2>1. OnSomeRecords(saved, Values \cup {NotCaptured})
      BY <1>2 DEF OnSomeRecords, Captured
    <2> HIDE DEF saved
    <2>2. DOMAIN snapshot = Ids /\ \A id \in Ids : OnSomeRecords(snapshot[id], Values \cup {NotCaptured})
      BY DEF PatternInv, TypeOK
    <2>3. snapshot' = snapshot \/ snapshot' = [snapshot EXCEPT ![Id(p)] = saved]
      BY DEF SaveSnapshot, saved
    <2>4. QED
      BY <2>1, <2>2, <2>3
  <1> DEFINE new == [proc[p] EXCEPT !.at = "clear"]
  <1>5. /\ proc' = [proc EXCEPT ![p] = new] /\ new \in Job /\ new.at = "clear" /\ new.left = proc[p].left
        /\ new.applied = proc[p].applied /\ new.id = proc[p].id
    BY <1>2 DEF SaveSnapshot, Goto, Job, Steps
  <1> HIDE DEF new
  <1>6. JobInv(p)'
    BY <1>2, <1>5, NotExecuting
  <1>7. /\ proc' \in [Procs -> Job \cup {Idle}]
        /\ \A q \in Procs : proc'[q] # Idle =>
              proc'[q].left \cup proc'[q].applied \subseteq DOMAIN matched'[proc'[q].id]
        /\ \A q \in Procs : JobInv(q)'
    BY <1>1, <1>2, <1>5, <1>6, JobKeeps
  <1>8. /\ queue' \in Seq(Ids) /\ IsInjective(queue') /\ Pending' \subseteq Pending
        /\ confirmed' \subseteq Pending' \cap typed' /\ audited' \subseteq Ids \X Records
        /\ edits' \in 0..MaxEdits
    BY <1>1 DEF PatternInv, TypeOK, Pending
  <1>9. QED
    BY <1>1, <1>3, <1>4, <1>7, <1>8, RestKeeps

LEMMA ClearPendingKeeps ==
  ASSUME PatternInv, NEW p \in Procs, ClearPending(p)
  PROVE  PatternInv'
  <1>1. /\ proc[p] # Idle /\ queue' = Without(Id(p)) /\ confirmed' = confirmed \ {Id(p)}
        /\ UNCHANGED <<crm, matched, staged, snapshot, audited, changed, clobbered, typed, mishap, edits>>
    BY DEF ClearPending, history, Idle
  <1>2. /\ proc[p] \in Job /\ proc[p].applied \subseteq DOMAIN matched[Id(p)] /\ Id(p) \in staged'
    BY <1>1, AtWork
  <1> DEFINE new == [proc[p] EXCEPT !.at = "audit", !.left = proc[p].applied]
  <1>3. /\ proc' = [proc EXCEPT ![p] = new] /\ new \in Job /\ new.at = "audit"
        /\ new.left = proc[p].applied /\ new.applied = proc[p].applied /\ new.id = Id(p)
    BY <1>2 DEF ClearPending, Job, Steps
  <1> HIDE DEF new
  <1>4. JobInv(p)'
    BY <1>2, <1>3, NotExecuting
  <1>5. QED
    BY <1>1, <1>2, <1>3, <1>4, LeavesQueue, QueueStepKeeps

LEMMA LogRecordKeeps ==
  ASSUME PatternInv, NEW p \in Procs, LogRecord(p)
  PROVE  PatternInv'
  <1>1. /\ At(p, "audit") /\ proc[p].left # {} /\ proc[p] # Idle
        /\ UNCHANGED <<crm, matched, staged, queue, confirmed, snapshot, changed, clobbered, typed, report, edits>>
    BY DEF LogRecord, Idle
  <1>2. /\ proc[p] \in Job /\ proc[p].left \cup proc[p].applied \subseteq DOMAIN matched[Id(p)]
        /\ Id(p) \in Ids /\ Id(p) \in staged' /\ Record(p) \in Records
    BY <1>1, AtWork
  <1>3. mishap' \in {"none"} \cup Faults /\ audited' \subseteq Ids \X Records
    <2>1. audited \subseteq Ids \X Records /\ <<Id(p), Record(p)>> \in Ids \X Records
      BY <1>2 DEF PatternInv, TypeOK
    <2>2. QED
      BY <2>1, MishapIs DEF LogRecord
  <1>4. PICK told \in BOOLEAN : proc' = [proc EXCEPT ![p] = [proc[p] EXCEPT !.left = @ \ {Record(p)}, !.told = told]]
    <2>1. CASE proc' = [proc EXCEPT ![p].left = @ \ {Record(p)}]
      <3>1. [proc[p] EXCEPT !.left = @ \ {Record(p)}]
              = [proc[p] EXCEPT !.left = @ \ {Record(p)}, !.told = proc[p].told]
        BY <1>2 DEF Job
      <3>2. proc[p].told \in BOOLEAN
        BY <1>2 DEF Job
      <3>3. QED
        BY <2>1, <3>1, <3>2
    <2>2. CASE proc' = [proc EXCEPT ![p].left = @ \ {Record(p)}, ![p].told = FALSE]
      BY <2>2
    <2>3. QED
      BY <2>1, <2>2 DEF LogRecord
  <1> DEFINE new == [proc[p] EXCEPT !.left = @ \ {Record(p)}, !.told = told]
  <1>5. /\ new \in Job /\ new.at = "audit" /\ new.left \subseteq proc[p].left
        /\ new.applied = proc[p].applied /\ new.id = Id(p)
    BY <1>1, <1>2 DEF Job
  <1>6. proc' = [proc EXCEPT ![p] = new]
    BY <1>4
  <1> HIDE DEF new
  <1>7. JobInv(p)'
    BY <1>2, <1>5, <1>6, NotExecuting
  <1>8. QED
    BY <1>1, <1>2, <1>3, <1>5, <1>6, <1>7, OwnStepKeeps

LEMMA EndKeeps ==
  ASSUME PatternInv, NEW p \in Procs, Report(p) \/ Crash(p)
  PROVE  PatternInv'
  <1>1. /\ proc' = [proc EXCEPT ![p] = Idle]
        /\ UNCHANGED <<crm, matched, staged, queue, confirmed, snapshot, audited, changed, clobbered, typed, edits>>
    BY DEF Report, Crash, Quit
  <1>2. mishap' \in {"none"} \cup Faults /\ audited' \subseteq Ids \X Records
    BY <1>1, MishapIs DEF Report, Crash, PatternInv, TypeOK
  <1>3. JobInv(p)'
    BY <1>1, NotExecuting
  <1>4. QED
    BY <1>1, <1>2, <1>3, OwnStepKeeps

-----------------------------------------------------------------------------
\* Records that change under everybody's hands, but under no writer's.
LEMMA CrmKeeps ==
  ASSUME PatternInv, crm' \in [Records -> Values],
         \A r \in Records : crm'[r] = crm[r] \/ Unwatched(r, Procs),
         UNCHANGED <<matched, staged, queue, confirmed, audited, proc, changed, clobbered, typed>>,
         DOMAIN snapshot' = Ids, \A id \in Ids : OnSomeRecords(snapshot'[id], Values \cup {NotCaptured}),
         mishap' \in {"none"} \cup Faults, edits' \in 0..MaxEdits
  PROVE  PatternInv'
  <1>1. ASSUME NEW q \in Procs PROVE JobInv(q)'
    <2>1. proc'[q] = proc[q] /\ JobInv(q)
      BY DEF PatternInv
    <2>2. Record(q)' = Record(q) /\ Approved(q)' = Approved(q) /\ NeedsCount(Id(q))' = NeedsCount(Id(q))
      BY DEF Record, Approved, NeedsCount, Count
    <2>3. ASSUME At(q, "write"), ~Races PROVE crm'[Record(q)] = crm[Record(q)]
      <3>1. Record(q) \in Records
        BY <2>1, <2>3, AtWork DEF JobInv, Idle
      <3>2. ~Unwatched(Record(q), Procs)
        BY <2>3 DEF Unwatched
      <3>3. QED
        BY <3>1, <3>2
    <2>4. QED
      BY <2>1, <2>2, <2>3 DEF JobInv
  <1>2. TypeOK'
    BY DEF PatternInv, TypeOK, OnSomeRecords, Pending
  <1>3. ManyNeedTheirCount'
    BY DEF PatternInv, ManyNeedTheirCount, NeedsCount, Count
  <1>4. QED
    BY <1>1, <1>2, <1>3 DEF PatternInv, NeverOverwrites

LEMMA UndoKeeps ==
  ASSUME PatternInv, NEW id \in Ids, Undo(id)
  PROVE  PatternInv'
  <1>1. PICK refused \in SUBSET DOMAIN snapshot[id] :
          /\ IF refused = {} THEN UNCHANGED mishap ELSE Mishap("refused")
          /\ crm' = [r \in Records |->
                IF r \in DOMAIN snapshot[id] \ refused /\ snapshot[id][r] # NotCaptured
                THEN snapshot[id][r] ELSE crm[r]]
          /\ snapshot' = IF refused = {} THEN [snapshot EXCEPT ![id] = Nothing] ELSE snapshot
    BY DEF Undo
  <1>2. /\ DOMAIN snapshot = Ids /\ \A x \in Ids : OnSomeRecords(snapshot[x], Values \cup {NotCaptured})
        /\ crm \in [Records -> Values]
    BY DEF PatternInv, TypeOK
  <1>3. crm' \in [Records -> Values]
    BY <1>1, <1>2 DEF OnSomeRecords
  <1>4. \A r \in Records : crm'[r] = crm[r] \/ Unwatched(r, Procs)
    BY <1>1 DEF Undo
  <1>5. DOMAIN snapshot' = Ids /\ \A x \in Ids : OnSomeRecords(snapshot'[x], Values \cup {NotCaptured})
    BY <1>1, <1>2 DEF OnSomeRecords, Nothing
  <1>6. mishap' \in {"none"} \cup Faults /\ edits' \in 0..MaxEdits
    BY <1>1, MishapIs DEF Undo, PatternInv, TypeOK
  <1>7. QED
    BY <1>3, <1>4, <1>5, <1>6, CrmKeeps DEF Undo

LEMMA EditKeeps ==
  ASSUME PatternInv, NEW r \in Records, Edit(r)
  PROVE  PatternInv'
  <1>1. PICK v \in Values : crm' = [crm EXCEPT ![r] = v]
    BY DEF Edit
  <1>2. crm' \in [Records -> Values] /\ \A s \in Records : crm'[s] = crm[s] \/ Unwatched(s, Procs)
    BY <1>1 DEF Edit, PatternInv, TypeOK
  <1>3. /\ DOMAIN snapshot' = Ids /\ \A id \in Ids : OnSomeRecords(snapshot'[id], Values \cup {NotCaptured})
        /\ mishap' \in {"none"} \cup Faults /\ edits' \in 0..MaxEdits
    BY PatternWriteAssumption DEF Edit, PatternInv, TypeOK, OnSomeRecords
  <1>4. QED
    BY <1>2, <1>3, CrmKeeps DEF Edit

\* A new batch: no process and no count refers to it yet.
LEMMA StageIs ==
  ASSUME PatternInv, NEW id \in Ids, Stage(id)
  PROVE  /\ OnSomeRecords(matched'[id], Captured) /\ staged' = staged \cup {id}
         /\ DOMAIN matched' = Ids /\ \A x \in Ids \ {id} : matched'[x] = matched[x]
         /\ mishap' # "not_captured" => \A r \in DOMAIN matched'[id] : matched'[id][r].pre # NotCaptured
         /\ id \notin Pending /\ queue' \in Seq(Ids) /\ IsInjective(queue') /\ Pending' = Pending \cup {id}
         /\ \A q \in Procs : proc[q] # Idle => Id(q) \in Ids \ {id} /\ matched'[Id(q)] = matched[Id(q)]
         /\ mishap' \in {"none"} \cup Faults
         /\ mishap' \in {mishap, "not_captured"} /\ (mishap' # mishap => mishap = "none")
  <1>1. PICK rule \in Rules, missed \in SUBSET Records :
          /\ missed \subseteq DOMAIN rule
          /\ IF missed = {} THEN UNCHANGED mishap ELSE Mishap("not_captured")
          /\ matched' = [matched EXCEPT ![id] =
                [r \in DOMAIN rule |->
                    [pre |-> IF r \in missed THEN NotCaptured ELSE crm[r], change |-> rule[r]]]]
    BY DEF Stage
  <1>2. id \notin staged /\ UNCHANGED <<crm, confirmed, snapshot, audited, proc, changed, clobbered, typed, edits>>
    BY DEF Stage
  <1>3. DOMAIN rule \subseteq Records /\ \A r \in DOMAIN rule : rule[r] \in Values
    <2>1. PICK R \in SUBSET Records : rule \in [R -> Values]
      BY PatternWriteAssumption
    <2>2. QED
      BY <2>1
  <1>4. crm \in [Records -> Values] /\ DOMAIN matched = Ids
    BY DEF PatternInv, TypeOK
  <1>5. /\ OnSomeRecords(matched'[id], Captured) /\ staged' = staged \cup {id}
        /\ DOMAIN matched' = Ids /\ \A x \in Ids \ {id} : matched'[x] = matched[x]
        /\ mishap' # "not_captured" => \A r \in DOMAIN matched'[id] : matched'[id][r].pre # NotCaptured
    <2>1. /\ DOMAIN matched'[id] = DOMAIN rule
          /\ \A r \in DOMAIN rule : matched'[id][r] =
                [pre |-> IF r \in missed THEN NotCaptured ELSE crm[r], change |-> rule[r]]
      BY <1>1, <1>4
    <2>2. OnSomeRecords(matched'[id], Captured)
      <3>1. ASSUME NEW r \in DOMAIN rule PROVE matched'[id][r] \in Captured
        <4>1. (IF r \in missed THEN NotCaptured ELSE crm[r]) \in Values \cup {NotCaptured}
          BY <1>3, <1>4
        <4>2. QED
          <5> DEFINE pre == IF r \in missed THEN NotCaptured ELSE crm[r]
          <5>1. matched'[id][r] = [pre |-> pre, change |-> rule[r]]
            BY <2>1
          <5>2. pre \in Values \cup {NotCaptured} /\ rule[r] \in Values
            BY <1>3, <4>1
          <5> HIDE DEF pre
          <5>3. QED
            BY <5>1, <5>2 DEF Captured
      <3>2. QED
        BY <1>3, <2>1, <3>1 DEF OnSomeRecords
    <2>3. staged' = staged \cup {id}
      BY DEF Stage
    <2>4. ASSUME mishap' # "not_captured", NEW r \in DOMAIN rule PROVE matched'[id][r].pre # NotCaptured
      <3>1. missed = {}
        BY <1>1, <2>4 DEF Mishap
      <3>2. matched'[id][r].pre = crm[r]
        <4>1. matched'[id][r] = [pre |-> crm[r], change |-> rule[r]]
          BY <2>1, <3>1
        <4>2. QED
          BY <4>1
      <3>3. QED
        BY <1>3, <1>4, <3>2, PatternWriteAssumption
    <2>5. QED
      BY <1>1, <1>4, <2>1, <2>2, <2>3, <2>4
  <1>6. id \notin Pending
    BY <1>2 DEF PatternInv, TypeOK
  <1>7. /\ queue' \in Seq(Ids) /\ IsInjective(queue') /\ Pending' = Pending \cup {id}
    <2>1. /\ queue' \in Seq(Ids) /\ IsInjective(queue') /\ Range(queue') = Range(queue) \cup {id}
      BY <1>6, AppendNew DEF Stage, Pending, PatternInv, TypeOK
    <2>2. QED
      BY <2>1 DEF Pending
  <1>8. ASSUME NEW q \in Procs, proc[q] # Idle PROVE Id(q) \in Ids \ {id} /\ matched'[Id(q)] = matched[Id(q)]
    BY <1>2, <1>5, <1>8, AtWork
  <1>9. /\ mishap' \in {"none"} \cup Faults
        /\ mishap' \in {mishap, "not_captured"} /\ (mishap' # mishap => mishap = "none")
    <2>1. mishap' \in {"none"} \cup Faults
      BY <1>1, MishapIs
    <2>2. QED
      BY <1>1, <2>1 DEF Mishap
  <1>10. QED
    BY <1>5, <1>6, <1>7, <1>8, <1>9

LEMMA StageKeeps ==
  ASSUME PatternInv, NEW id \in Ids, Stage(id)
  PROVE  PatternInv'
  <1>1. UNCHANGED <<crm, confirmed, snapshot, audited, proc, changed, clobbered, typed, edits>>
        /\ id \notin staged
    BY DEF Stage
  <1>2. /\ OnSomeRecords(matched'[id], Captured) /\ staged' = staged \cup {id}
        /\ DOMAIN matched' = Ids /\ \A x \in Ids \ {id} : matched'[x] = matched[x]
    BY StageIs
  <1>3. id \notin Pending
    BY StageIs
  <1>4. /\ queue' \in Seq(Ids) /\ IsInjective(queue') /\ Pending' = Pending \cup {id}
    BY StageIs
  <1>5. ASSUME NEW q \in Procs, proc[q] # Idle PROVE Id(q) \in Ids \ {id} /\ matched'[Id(q)] = matched[Id(q)]
    BY <1>5, StageIs
  <1>6. ASSUME NEW q \in Procs PROVE JobInv(q)'
    <2>1. CASE proc[q] = Idle
      BY <1>1, <2>1 DEF JobInv, Idle
    <2>2. CASE proc[q] # Idle
      <3>1. JobInv(q) /\ matched'[Id(q)] = matched[Id(q)]
        BY <1>5, <2>2 DEF PatternInv
      <3>2. Record(q)' = Record(q) /\ Approved(q)' = Approved(q) /\ NeedsCount(Id(q))' = NeedsCount(Id(q))
        BY <1>1, <3>1 DEF Record, Approved, NeedsCount, Count
      <3>3. QED
        BY <1>1, <1>2, <3>1, <3>2 DEF JobInv, SameValue
    <2>3. QED
      BY <2>1, <2>2
  <1>7. mishap' \in {"none"} \cup Faults
    BY StageIs
  <1>8. TypeOK'
    <2>1. \A x \in Ids : OnSomeRecords(matched'[x], Captured)
      <3>1. \A x \in Ids : OnSomeRecords(matched[x], Captured)
        BY DEF PatternInv, TypeOK
      <3>2. QED
        BY <1>2, <3>1
    <2>2. Pending' \subseteq staged' /\ staged' \subseteq Ids
      BY <1>2, <1>4 DEF PatternInv, TypeOK
    <2>3. \A q \in Procs : proc'[q] # Idle =>
             proc'[q].left \cup proc'[q].applied \subseteq DOMAIN matched'[proc'[q].id]
      BY <1>1, <1>5 DEF PatternInv, TypeOK
    <2>4. confirmed' \subseteq Pending'
      BY <1>1, <1>4 DEF PatternInv, TypeOK
    <2>5. QED
      BY <1>1, <1>2, <1>4, <1>7, <2>1, <2>2, <2>3, <2>4 DEF PatternInv, TypeOK, OnSomeRecords
  <1>9. ManyNeedTheirCount'
    <2>1. ASSUME NEW x \in Ids, changed[x] # Nothing PROVE NeedsCount(x)' = NeedsCount(x)
      BY <1>1, <1>2, <2>1 DEF PatternInv, NeedsCount, Count
    <2>2. QED
      BY <1>1, <2>1 DEF PatternInv, ManyNeedTheirCount
  <1>10. \A x \in Ids : changed'[x] # Nothing => x \in staged'
    BY <1>1, <1>2 DEF PatternInv
  <1>11. QED
    BY <1>1, <1>6, <1>8, <1>9, <1>10 DEF PatternInv, NeverOverwrites

-----------------------------------------------------------------------------
\* Whatever batches, commands, faults and edits come together.
THEOREM PatternInvariant == Spec => []PatternInv
  <1>1. Init => PatternInv
    BY InitInv
  <1>2. PatternInv /\ [Next]_vars => PatternInv'
    <2> SUFFICES ASSUME PatternInv, [Next]_vars PROVE PatternInv'
      OBVIOUS
    <2>1. CASE Next
      BY <2>1, StageKeeps, UndoKeeps, EditKeeps, CommandsKeep, LookKeeps, ConfirmKeeps, DropKeeps,
         GateKeeps, RereadKeeps, WriteKeeps, SaveSnapshotKeeps, ClearPendingKeeps, LogRecordKeeps,
         EndKeeps DEF Next
    <2>2. CASE UNCHANGED vars
      <3>1. \A q \in Procs : JobInv(q)'
        BY <2>2 DEF vars, history, PatternInv, JobInv, Record, Approved, NeedsCount, Count, SameValue
      <3>2. TypeOK'
        BY <2>2 DEF vars, history, PatternInv, TypeOK, Pending, OnSomeRecords
      <3>3. ManyNeedTheirCount'
        BY <2>2 DEF vars, history, PatternInv, ManyNeedTheirCount, NeedsCount, Count
      <3>4. QED
        BY <2>2, <3>1, <3>2, <3>3 DEF vars, history, PatternInv, NeverOverwrites
    <2>3. QED
      BY <2>1, <2>2
  <1>3. QED
    BY <1>1, <1>2, PTL DEF Spec

\* The files and the processes keep their types: an id is pending once, counts
\* belong to pending files, an executor works within its batch.
THEOREM TypeCorrect == Spec => []TypeOK
  <1>1. PatternInv => TypeOK
    BY DEF PatternInv
  <1>2. QED
    BY <1>1, PatternInvariant, PTL

\* A drifted record is not overwritten (handlers.py, the re-read in
\* _execute_pattern_write), if no record changes between its re-read and its
\* write.
THEOREM DriftedAreSkipped == ASSUME ~Races PROVE Spec => []NeverOverwrites
  <1>1. PatternInv => NeverOverwrites
    BY DEF PatternInv
  <1>2. QED
    BY <1>1, PatternInvariant, PTL

\* A batch over the threshold is executed only after somebody typed its count,
\* however the commands without an id pick their batch.
THEOREM ManyAreCounted == Spec => []ManyNeedTheirCount
  <1>1. PatternInv => ManyNeedTheirCount
    BY DEF PatternInv
  <1>2. QED
    BY <1>1, PatternInvariant, PTL

-----------------------------------------------------------------------------
(* Batches: executed once, reported in full, and restored by their snapshot *)

Executing(p) == proc[p] # Idle /\ proc[p].at \in {"read", "write", "clear"}

\* No process ever executed the batch.
Untouched(id) == changed[id] = Nothing /\ snapshot[id] = Nothing /\ ~report[id].done

\* The records that an executor is done with.
Settled(p) == proc[p].applied \cup proc[p].skipped \cup proc[p].failed

\* What the executor of a batch knows of it, unless an answer of HubSpot was lost.
KnowsChanges(p) ==
    /\ ~report[Id(p)].done
    /\ mishap # "response_lost" => proc[p].applied = DOMAIN changed[Id(p)]

\* Every record of the batch is either left or settled, and what is settled stays
\* so until it is reported.
JobAccounted(p) ==
    /\ proc[p].at \in {"look", "confirm", "gate", "drop"} => Settled(p) = {} /\ proc[p].told
    /\ proc[p].at \in {"read", "write", "clear"} =>
          /\ Id(p) \in Pending /\ KnowsChanges(p) /\ proc[p].told
          /\ proc[p].left \cup Settled(p) = DOMAIN matched[Id(p)]
    /\ proc[p].at \in {"read", "write"} => snapshot[Id(p)] = Nothing
    /\ proc[p].at = "clear" => proc[p].left = {}
    /\ proc[p].at = "audit" =>
          /\ Id(p) \notin Pending /\ KnowsChanges(p)
          /\ Settled(p) = DOMAIN matched[Id(p)]
          /\ proc[p].told => \A r \in proc[p].applied \ proc[p].left : <<Id(p), r>> \in audited

\* What BatchIsAccountedFor says of one batch.
ToldInFull(id) ==
    report[id].done /\ mishap # "response_lost" =>
        /\ report[id].applied \cup report[id].skipped \cup report[id].failed = DOMAIN matched[id]
        /\ report[id].applied = DOMAIN changed[id]
        /\ report[id].auditFailed \/ \A r \in DOMAIN changed[id] : <<id, r>> \in audited

\* A snapshot holds what HubSpot held before the batch, of all that it changed.
HoldsChanges(id) ==
    snapshot[id] # Nothing /\ mishap \notin {"not_captured", "response_lost"} =>
        /\ DOMAIN snapshot[id] = DOMAIN changed[id]
        /\ \A r \in DOMAIN changed[id] : snapshot[id][r] = changed[id][r]

\* What was changed was as approved, if nobody races the executor.
ChangedAsApproved(id) ==
    /\ DOMAIN changed[id] \subseteq DOMAIN matched[id]
    /\ ~Races /\ mishap # "not_captured" =>
          \A r \in DOMAIN changed[id] : changed[id][r] = matched[id][r].pre

\* Nobody works on an action that another process works on; and until a process
\* dies, a batch that is pending and not in anybody's hands is untouched.
BatchInv ==
    /\ DOMAIN report = Ids
    /\ \A p, q \in Procs : proc[p] # Idle /\ proc[q] # Idle /\ Id(p) = Id(q) => p = q
    /\ \A id \in Ids : ChangedAsApproved(id)
    /\ mishap # "not_captured" =>
          \A id \in Ids : \A r \in DOMAIN matched[id] : matched[id][r].pre # NotCaptured
    /\ mishap # "crash" =>
          /\ \A p \in Procs : proc[p] # Idle => JobAccounted(p)
          /\ \A id \in Ids : id \notin staged => snapshot[id] = Nothing /\ ~report[id].done
          /\ \A id \in Pending : (\A p \in Procs : Executing(p) => Id(p) # id) => Untouched(id)
          /\ \A id \in Ids : ToldInFull(id)
          /\ ~Races => \A id \in Ids : HoldsChanges(id)

\* A process that has the batch in hand, but does not execute it, finds it untouched.
LEMMA InHandUntouched ==
  ASSUME PatternInv, BatchInv, mishap # "crash", NEW p \in Procs, proc[p] # Idle, ~Executing(p),
         Id(p) \in Pending
  PROVE  Untouched(Id(p))
  BY DEF BatchInv, Executing

\* A step of p on its own batch keeps the invariant if it keeps it for that batch.
LEMMA OwnBatch ==
  ASSUME PatternInv, BatchInv, NEW p \in Procs, NEW id \in Ids, id = Id(p), proc[p] # Idle, NEW new \in Job \cup {Idle},
         proc' = [proc EXCEPT ![p] = new], new # Idle => new.id = id,
         matched' = matched, staged' = staged, audited \subseteq audited', DOMAIN report' = DOMAIN report,
         mishap' = mishap \/ mishap = "none",
         \A x \in Ids \ {id} :
            /\ changed'[x] = changed[x] /\ snapshot'[x] = snapshot[x] /\ report'[x] = report[x]
            /\ x \in Pending' <=> x \in Pending,
         Pending' \subseteq Ids,
         ChangedAsApproved(id)',
         mishap' # "crash" =>
            /\ new # Idle => JobAccounted(p)'
            /\ id \in Pending' /\ ~Executing(p)' => Untouched(id)'
            /\ ToldInFull(id)'
            /\ ~Races => HoldsChanges(id)'
  PROVE  BatchInv'
  <1>1. /\ proc'[p] = new /\ (proc'[p] # Idle => Id(p)' = id)
        /\ \A q \in Procs \ {p} : proc'[q] = proc[q]
    BY DEF PatternInv, TypeOK
  <1>2. id \in staged
    BY AtWork
  <1>3. \A q \in Procs \ {p} : proc[q] # Idle => Id(q) \in Ids \ {id}
    BY AtWork DEF BatchInv
  <1>4. \A q, r \in Procs : proc'[q] # Idle /\ proc'[r] # Idle /\ Id(q)' = Id(r)' => q = r
    BY <1>1, <1>3 DEF BatchInv
  <1>5. \A x \in Ids : ChangedAsApproved(x)'
    BY DEF BatchInv, ChangedAsApproved
  <1>6. mishap' # "not_captured" =>
           \A x \in Ids : \A r \in DOMAIN matched'[x] : matched'[x][r].pre # NotCaptured
    BY DEF BatchInv
  <1>7. ASSUME mishap' # "crash"
        PROVE  /\ \A q \in Procs : proc'[q] # Idle => JobAccounted(q)'
               /\ \A x \in Ids : x \notin staged' => snapshot'[x] = Nothing /\ ~report'[x].done
               /\ \A x \in Pending' : (\A q \in Procs : Executing(q)' => Id(q)' # x) => Untouched(x)'
               /\ \A x \in Ids : ToldInFull(x)'
               /\ ~Races => \A x \in Ids : HoldsChanges(x)'
    <2>1. mishap # "crash" /\ (mishap' # "response_lost" => mishap # "response_lost")
          /\ (mishap' # "not_captured" => mishap # "not_captured")
      BY <1>7
    <2>2. ASSUME NEW q \in Procs, proc'[q] # Idle PROVE JobAccounted(q)'
      <3>1. CASE q = p
        BY <1>1, <1>7, <2>2, <3>1
      <3>2. CASE q # p
        <4>1. proc'[q] = proc[q] /\ Id(q) \in Ids \ {id} /\ JobAccounted(q)
          BY <1>1, <1>3, <2>1, <2>2, <3>2 DEF BatchInv
        <4>2. Settled(q)' = Settled(q)
          BY <4>1 DEF Settled
        <4>3. KnowsChanges(q) => KnowsChanges(q)'
          BY <2>1, <4>1 DEF KnowsChanges
        <4>4. Id(q)' = Id(q) /\ matched'[Id(q)] = matched[Id(q)] /\ snapshot'[Id(q)] = snapshot[Id(q)]
              /\ (Id(q) \in Pending' <=> Id(q) \in Pending)
          BY <4>1
        <4> HIDE DEF Id
        <4>5. QED
          BY <4>1, <4>2, <4>3, <4>4 DEF JobAccounted
      <3>3. QED
        BY <3>1, <3>2
    <2>3. \A x \in Ids : x \notin staged' => snapshot'[x] = Nothing /\ ~report'[x].done
      BY <1>2, <2>1 DEF BatchInv
    <2>4. ASSUME NEW x \in Pending', \A q \in Procs : Executing(q)' => Id(q)' # x
          PROVE  Untouched(x)'
      <3>1. CASE x = id
        <4>1. ~Executing(p)'
          BY <1>1, <2>4, <3>1 DEF Executing
        <4>2. QED
          BY <1>7, <3>1, <4>1
      <3>2. CASE x # id
        <4>1. x \in Pending /\ x \in Ids
          BY <2>4, <3>2
        <4>2. \A q \in Procs : Executing(q) => Id(q) # x
          BY <1>1, <2>4, <3>2 DEF Executing
        <4>3. Untouched(x)
          BY <2>1, <4>1, <4>2 DEF BatchInv
        <4>4. QED
          BY <3>2, <4>1, <4>3 DEF Untouched
      <3>3. QED
        BY <3>1, <3>2
    <2>5. \A x \in Ids : ToldInFull(x)'
      BY <1>7, <2>1 DEF BatchInv, ToldInFull
    <2>6. ~Races => \A x \in Ids : HoldsChanges(x)'
      BY <1>7, <2>1 DEF BatchInv, HoldsChanges
    <2>7. QED
      BY <2>2, <2>3, <2>4, <2>5, <2>6
  <1>8. QED
    BY <1>4, <1>5, <1>6, <1>7 DEF BatchInv

\* A new command takes an action that nobody works on.
LEMMA CommandTakesFree ==
  ASSUME PatternInv, BatchInv, ~Overlap, NEW p \in Procs, NEW id \in Ids, NEW count \in Counts,
         NEW step \in {"look", "gate", "drop"}, Command(p, id, count, step)
  PROVE  BatchInv'
  <1> DEFINE new == Begun(step, id, count)
  <1>1. new.id = id /\ new.at = step /\ new.told /\ new # Idle
        /\ new.applied \cup new.skipped \cup new.failed = {}
    BY DEF Begun, Idle
  <1>2. proc[p] = Idle /\ proc' = [proc EXCEPT ![p] = new]
        /\ UNCHANGED <<matched, staged, queue, snapshot, audited, changed, report, mishap>>
    BY DEF Command, history
  <1> HIDE DEF new
  <1>3. \A q \in Procs : proc[q] # Idle => Id(q) # id
    BY DEF Command, Free
  <1>4. proc'[p] = new /\ \A q \in Procs \ {p} : proc'[q] = proc[q]
    BY <1>2 DEF PatternInv, TypeOK
  <1>5. \A q, r \in Procs : proc'[q] # Idle /\ proc'[r] # Idle /\ Id(q)' = Id(r)' => q = r
    BY <1>1, <1>3, <1>4 DEF BatchInv
  <1>6. Pending' = Pending
    BY <1>2 DEF Pending
  <1>7. JobAccounted(p)'
    BY <1>1, <1>4 DEF JobAccounted, Settled
  <1>8. \A q \in Procs \ {p} : JobAccounted(q) => JobAccounted(q)'
    BY <1>2, <1>4, <1>6 DEF JobAccounted, Settled, KnowsChanges
  <1>9. \A q \in Procs : Executing(q) => Executing(q)' /\ Id(q)' = Id(q)
    BY <1>2, <1>4 DEF Executing
  <1>10. /\ \A x \in Ids : ChangedAsApproved(x) => ChangedAsApproved(x)'
         /\ \A x \in Ids : ToldInFull(x) => ToldInFull(x)'
         /\ \A x \in Ids : HoldsChanges(x) => HoldsChanges(x)'
         /\ \A x : Untouched(x) => Untouched(x)'
    BY <1>2 DEF ChangedAsApproved, ToldInFull, HoldsChanges, Untouched
  <1>11. ASSUME mishap # "crash"
         PROVE  /\ \A q \in Procs : proc'[q] # Idle => JobAccounted(q)'
                /\ \A x \in Pending : (\A q \in Procs : Executing(q)' => Id(q)' # x) => Untouched(x)'
    <2>1. \A q \in Procs : proc'[q] # Idle => JobAccounted(q)'
      BY <1>4, <1>7, <1>8, <1>11 DEF BatchInv
    <2>2. ASSUME NEW x \in Pending, \A q \in Procs : Executing(q)' => Id(q)' # x PROVE Untouched(x)'
      <3>1. \A q \in Procs : Executing(q) => Id(q) # x
        BY <1>9, <2>2
      <3>2. QED
        BY <1>10, <1>11, <3>1 DEF BatchInv
    <2>3. QED
      BY <2>1, <2>2
  <1>12. QED
    BY <1>2, <1>5, <1>6, <1>10, <1>11 DEF BatchInv

LEMMA CommandsTakeFree ==
  ASSUME PatternInv, BatchInv, ~Overlap, NEW p \in Procs,
         Approve(p) \/ ApproveLast(p) \/ ConfirmLast(p) \/ RejectLast(p)
  PROVE  BatchInv'
  <1>1. queue # <<>> => Last(queue) \in Ids
    BY DEF PatternInv, TypeOK, Last
  <1>2. NoCount \in Counts /\ \A count \in Counts \ {NoCount} : count \in Counts
    BY DEF Counts
  <1>3. QED
    BY <1>1, <1>2, CommandTakesFree DEF Approve, ApproveLast, ConfirmLast, RejectLast

\* What the files say of a batch stays true while its files and its history stay.
LEMMA FilesStay ==
  ASSUME PatternInv, BatchInv, NEW p \in Procs, NEW id \in Ids, id = Id(p), proc[p] # Idle,
         UNCHANGED <<matched, staged, snapshot, audited, changed, report, mishap>>
  PROVE  /\ ChangedAsApproved(id)'
         /\ mishap' # "crash" => ToldInFull(id)' /\ (~Races => HoldsChanges(id)')
         /\ Untouched(id) => Untouched(id)'
  <1>1. /\ ChangedAsApproved(id)
        /\ mishap # "crash" => ToldInFull(id) /\ (~Races => HoldsChanges(id))
    BY DEF BatchInv
  <1>2. QED
    BY <1>1 DEF ChangedAsApproved, ToldInFull, HoldsChanges, Untouched

LEMMA PendingAreIds == ASSUME PatternInv PROVE Pending \subseteq Ids
  BY DEF PatternInv, TypeOK, Pending, Range

\* The steps before the executor: the batch is let go, or kept as it is.
LEMMA BeforeBatch ==
  ASSUME PatternInv, BatchInv, NEW p \in Procs, NEW id \in Ids, id = Id(p), proc[p] # Idle,
         proc[p].at \in {"look", "confirm", "gate", "drop"},
         UNCHANGED <<matched, staged, snapshot, audited, changed, report, mishap>>,
         Pending' = Pending \/ Pending' = Pending \ {id},
         NEW new \in Job \cup {Idle}, proc' = [proc EXCEPT ![p] = new],
         new # Idle =>
            /\ new.id = id /\ new.at \in {"look", "confirm", "gate", "drop"}
            /\ new.applied = proc[p].applied /\ new.skipped = proc[p].skipped
            /\ new.failed = proc[p].failed /\ new.told = proc[p].told
  PROVE  BatchInv'
  <1>1. ~Executing(p)
    BY DEF Executing
  <1>2. proc'[p] = new
    BY DEF PatternInv, TypeOK
  <1>3. mishap # "crash" /\ id \in Pending' => Untouched(id)'
    BY <1>1, InHandUntouched, FilesStay
  <1>4. mishap # "crash" /\ new # Idle => JobAccounted(p)'
    <2>1. mishap # "crash" => JobAccounted(p)
      BY DEF BatchInv
    <2>2. new # Idle => Settled(p)' = Settled(p)
      BY <1>2 DEF Settled
    <2>3. QED
      BY <1>2, <2>1, <2>2 DEF JobAccounted
  <1>5. Pending' \subseteq Ids /\ \A x \in Ids \ {id} : x \in Pending' <=> x \in Pending
    BY PendingAreIds
  <1>6. QED
    BY <1>3, <1>4, <1>5, FilesStay, OwnBatch

LEMMA LookBatch ==
  ASSUME PatternInv, BatchInv, NEW p \in Procs, NEW id \in Ids, id = Id(p), Look(p) \/ Confirm(p) \/ Drop(p)
  PROVE  BatchInv'
  <1>1. /\ proc[p] # Idle /\ proc[p].at \in {"look", "confirm", "drop"} /\ proc[p] \in Job
        /\ UNCHANGED <<matched, staged, snapshot, audited, changed, report, mishap>>
    BY AtWork DEF Look, Confirm, Drop, history, Idle
  <1>2. Pending' = Pending \/ Pending' = Pending \ {id}
    <2>1. CASE Look(p)
      BY <2>1 DEF Look, Pending
    <2>2. CASE Confirm(p)
      BY <2>2, RecordCountIs DEF Confirm, RightCount, Pending
    <2>3. CASE Drop(p)
      BY <2>3, LeavesQueue DEF Drop, history
    <2>4. QED
      BY <2>1, <2>2, <2>3
  <1>3. ASSUME Quit(p) PROVE BatchInv'
    BY <1>1, <1>2, <1>3, BeforeBatch DEF Quit
  <1>4. ASSUME Goto(p, "confirm") PROVE BatchInv'
    <2> DEFINE new == [proc[p] EXCEPT !.at = "confirm"]
    <2>1. /\ proc' = [proc EXCEPT ![p] = new] /\ new \in Job /\ new.id = id /\ new.at = "confirm"
          /\ new.applied = proc[p].applied /\ new.skipped = proc[p].skipped
          /\ new.failed = proc[p].failed /\ new.told = proc[p].told
      BY <1>1, <1>4 DEF Goto, Job, Steps
    <2> HIDE DEF new
    <2>2. QED
      BY <1>1, <1>2, <2>1, BeforeBatch
  <1>5. ASSUME proc' = [proc EXCEPT ![p].at = "gate", ![p].count = NoCount] PROVE BatchInv'
    <2> DEFINE new == [proc[p] EXCEPT !.at = "gate", !.count = NoCount]
    <2>1. /\ proc' = [proc EXCEPT ![p] = new] /\ new \in Job /\ new.id = id /\ new.at = "gate"
          /\ new.applied = proc[p].applied /\ new.skipped = proc[p].skipped
          /\ new.failed = proc[p].failed /\ new.told = proc[p].told
      BY <1>1, <1>5 DEF Job, Steps, Counts
    <2> HIDE DEF new
    <2>2. QED
      BY <1>1, <1>2, <2>1, BeforeBatch
  <1>6. QED
    BY <1>3, <1>4, <1>5 DEF Look, Confirm, Drop

LEMMA GateBatch ==
  ASSUME PatternInv, BatchInv, NEW p \in Procs, NEW id \in Ids, id = Id(p), Gate(p)
  PROVE  BatchInv'
  <1>1. /\ proc[p] # Idle /\ proc[p].at = "gate" /\ proc[p] \in Job
        /\ DOMAIN matched[id] \subseteq Records
        /\ UNCHANGED <<matched, staged, snapshot, audited, changed, report, mishap>>
    BY AtWork DEF Gate, Idle
  <1>2. Pending' = Pending
    BY RecordCountIs DEF Gate, Pending
  <1>3. CASE Quit(p)
    BY <1>1, <1>2, <1>3, BeforeBatch DEF Quit
  <1>4. CASE StartBatch(p) /\ id \in Pending
    <2> DEFINE new == [proc[p] EXCEPT !.at = "read", !.left = DOMAIN matched[id]]
    <2>1. /\ proc' = [proc EXCEPT ![p] = new] /\ new \in Job /\ new.id = id /\ new.at = "read"
          /\ new.applied = proc[p].applied /\ new.skipped = proc[p].skipped
          /\ new.failed = proc[p].failed /\ new.told = proc[p].told
          /\ new.left = DOMAIN matched[id]
      BY <1>1, <1>4 DEF StartBatch, Job, Steps
    <2> HIDE DEF new
    <2>2. proc'[p] = new
      BY <2>1 DEF PatternInv, TypeOK
    <2>3. mishap # "crash" => Untouched(id) /\ JobAccounted(p)
      BY <1>1, <1>4, InHandUntouched DEF Executing, BatchInv
    <2>4. mishap # "crash" => JobAccounted(p)'
      <3>1. mishap # "crash" => Settled(p) = {} /\ proc[p].applied = {} /\ proc[p].told
        BY <1>1, <2>3 DEF JobAccounted, Settled
      <3>2. Settled(p)' = Settled(p) /\ DOMAIN Nothing = {}
        BY <2>1, <2>2 DEF Settled, Nothing
      <3>3. Id(p)' = id
        BY <2>1, <2>2
      <3> HIDE DEF Id
      <3>4. mishap # "crash" => KnowsChanges(p)'
        BY <1>1, <2>1, <2>2, <2>3, <3>1, <3>2, <3>3 DEF KnowsChanges, Untouched
      <3>5. QED
        BY <1>1, <1>2, <1>4, <2>1, <2>2, <2>3, <3>1, <3>2, <3>3, <3>4 DEF JobAccounted, Untouched
    <2>5. Executing(p)'
      BY <2>1, <2>2 DEF Executing, Idle
    <2>6. QED
      BY <1>1, <1>2, <2>1, <2>4, <2>5, FilesStay, PendingAreIds, OwnBatch
  <1>5. QED
    BY <1>3, <1>4 DEF Gate, RightCount
-----------------------------------------------------------------------------
\* A settled record goes from what is left to one of the three lists.
LEMMA SettledIs ==
  ASSUME PatternInv, NEW p \in Procs, At(p, "read") \/ At(p, "write"), proc[p].left # {},
         NEW outcome \in {"applied", "skipped", "failed"}, Settle(p, outcome)
  PROVE  /\ proc'[p].left = proc[p].left \ {Record(p)}
         /\ proc'[p].left \cup Settled(p)' = proc[p].left \cup Settled(p)
         /\ proc'[p].applied = IF outcome = "applied" THEN proc[p].applied \cup {Record(p)}
                               ELSE proc[p].applied
         /\ proc'[p].told = proc[p].told
  <1>1. proc[p] \in Job /\ Record(p) \in proc[p].left
    BY AtWork DEF Idle
  <1>2. /\ proc'[p].left = proc[p].left \ {Record(p)} /\ proc'[p].told = proc[p].told
        /\ proc'[p].applied = IF outcome = "applied" THEN proc[p].applied \cup {Record(p)} ELSE proc[p].applied
        /\ proc'[p].skipped = IF outcome = "skipped" THEN proc[p].skipped \cup {Record(p)} ELSE proc[p].skipped
        /\ proc'[p].failed = IF outcome = "failed" THEN proc[p].failed \cup {Record(p)} ELSE proc[p].failed
    <2>1. proc[p] \in Job /\ proc \in [Procs -> Job \cup {Idle}]
      BY <1>1 DEF PatternInv, TypeOK
    <2>2. CASE outcome = "applied"
      BY <2>1, <2>2 DEF Settle, Job
    <2>3. CASE outcome = "skipped"
      BY <2>1, <2>3 DEF Settle, Job
    <2>4. CASE outcome = "failed"
      BY <2>1, <2>4 DEF Settle, Job
    <2>5. QED
      BY <2>2, <2>3, <2>4
  <1>3. QED
    BY <1>1, <1>2 DEF Settled

\* The executor's own step, whose batch is pending and not reported.
LEMMA ExecutorBatch ==
  ASSUME PatternInv, BatchInv, NEW p \in Procs, NEW id \in Ids, id = Id(p), At(p, "read") \/ At(p, "write"),
         NEW new \in Job, proc' = [proc EXCEPT ![p] = new], new.id = id,
         new.at \in {"read", "write", "clear"},
         UNCHANGED <<matched, staged, queue, audited, report>>,
         mishap' = mishap \/ mishap = "none",
         \A x \in Ids \ {id} : changed'[x] = changed[x] /\ snapshot'[x] = snapshot[x],
         ChangedAsApproved(id)',
         new.at # "clear" => snapshot' = snapshot,
         ~Races /\ mishap' # "crash" => HoldsChanges(id)',
         mishap' # "crash" =>
            /\ new.told = proc[p].told
            /\ new.left \cup (new.applied \cup new.skipped \cup new.failed) = proc[p].left \cup Settled(p)
            /\ new.at = "clear" => new.left = {}
            /\ mishap' # "response_lost" => new.applied = DOMAIN changed'[id]
  PROVE  BatchInv'
  <1>1. proc[p] # Idle /\ Pending' = Pending
    BY DEF Idle, Pending
  <1>2. proc'[p] = new /\ new # Idle
    BY DEF PatternInv, TypeOK, Idle
  <1>3. ASSUME mishap' # "crash" PROVE JobAccounted(p)' /\ ToldInFull(id)'
    <2>1. mishap # "crash" /\ JobAccounted(p)
      BY <1>1, <1>3 DEF BatchInv
    <2>2. /\ id \in Pending /\ ~report[id].done /\ proc[p].told
          /\ proc[p].left \cup Settled(p) = DOMAIN matched[id]
          /\ snapshot[id] = Nothing
      BY <2>1 DEF JobAccounted, KnowsChanges
    <2>3. Id(p)' = id
      BY <1>2
    <2>4. Settled(p)' = new.applied \cup new.skipped \cup new.failed
      BY <1>2 DEF Settled
    <2> HIDE DEF Id
    <2>5. JobAccounted(p)'
      BY <1>1, <1>2, <1>3, <2>2, <2>3, <2>4 DEF JobAccounted, KnowsChanges
    <2>6. QED
      BY <2>2, <2>5 DEF ToldInFull
  <1>4. Executing(p)'
    BY <1>2 DEF Executing
  <1>5. QED
    BY <1>1, <1>3, <1>4, PendingAreIds, OwnBatch

LEMMA RereadBatch ==
  ASSUME PatternInv, BatchInv, NEW p \in Procs, NEW id \in Ids, id = Id(p), Reread(p)
  PROVE  BatchInv'
  <1>1. /\ At(p, "read") /\ proc[p].left # {} /\ proc[p] # Idle /\ proc[p] \in Job /\ id \in Ids
        /\ UNCHANGED <<matched, staged, queue, snapshot, audited, changed, report>>
        /\ mishap' = mishap \/ mishap = "none"
    BY AtWork DEF Reread, Idle, Mishap
  <1>2. /\ ChangedAsApproved(id)' /\ (~Races /\ mishap' # "crash" => HoldsChanges(id)')
        /\ mishap' # "crash" /\ mishap' # "response_lost" => proc[p].applied = DOMAIN changed'[id]
    <2>1. /\ ChangedAsApproved(id)
          /\ mishap # "crash" => JobAccounted(p) /\ (~Races => HoldsChanges(id))
      BY <1>1 DEF BatchInv
    <2>2. mishap # "crash" /\ mishap # "response_lost" => proc[p].applied = DOMAIN changed[id]
      BY <1>1, <2>1 DEF JobAccounted, KnowsChanges
    <2>3. QED
      BY <1>1, <2>1, <2>2 DEF ChangedAsApproved, HoldsChanges
  <1>3. CASE Goto(p, "write")
    <2> DEFINE new == [proc[p] EXCEPT !.at = "write"]
    <2>1. /\ proc' = [proc EXCEPT ![p] = new] /\ new \in Job /\ new.id = id /\ new.at = "write"
          /\ new.applied = proc[p].applied /\ new.left = proc[p].left /\ new.told = proc[p].told
          /\ new.applied \cup new.skipped \cup new.failed = Settled(p)
      BY <1>1, <1>3 DEF Goto, Job, Steps, Settled
    <2> HIDE DEF new
    <2>2. QED
      BY <1>1, <1>2, <2>1, ExecutorBatch
  <1>4. ASSUME NEW outcome \in {"skipped", "failed"}, Settle(p, outcome) PROVE BatchInv'
    <2>1. /\ proc' = [proc EXCEPT ![p] = proc'[p]] /\ proc'[p] \in Job
          /\ proc'[p].at = "read" /\ proc'[p].id = id
      BY <1>1, <1>4, SettleIs
    <2>2. /\ proc'[p].left \cup Settled(p)' = proc[p].left \cup Settled(p)
          /\ proc'[p].applied = proc[p].applied /\ proc'[p].told = proc[p].told
      BY <1>1, <1>4, SettledIs
    <2>3. Settled(p)' = proc'[p].applied \cup proc'[p].skipped \cup proc'[p].failed
      BY DEF Settled
    <2>4. QED
      BY <1>1, <1>2, <2>1, <2>2, <2>3, ExecutorBatch
  <1>5. QED
    BY <1>3, <1>4 DEF Reread

\* What HubSpot changed is what the executor knows of, unless the answer is lost.
LEMMA WriteBatch ==
  ASSUME PatternInv, BatchInv, NEW p \in Procs, NEW id \in Ids, id = Id(p), Write(p)
  PROVE  BatchInv'
  <1>1. /\ At(p, "write") /\ proc[p] # Idle /\ id \in Ids /\ JobInv(p) /\ proc[p].left # {}
        /\ Record(p) \in DOMAIN matched[id]
        /\ UNCHANGED <<matched, staged, queue, snapshot, audited, report>>
        /\ mishap' = mishap \/ mishap = "none"
    BY AtWork DEF Write, Idle, Mishap, JobInv
  <1>2. /\ ChangedAsApproved(id) /\ DOMAIN changed = Ids
        /\ mishap # "crash" => JobAccounted(p)
    BY <1>1 DEF BatchInv, PatternInv
  <1>3. mishap # "crash" => /\ snapshot[id] = Nothing
                            /\ mishap # "response_lost" => proc[p].applied = DOMAIN changed[id]
    BY <1>1, <1>2 DEF JobAccounted, KnowsChanges
  <1>4. mishap' # "crash" => HoldsChanges(id)'
    BY <1>1, <1>3 DEF HoldsChanges
  <1>5. PICK outcome \in {"applied", "failed"} :
          /\ Settle(p, outcome)
          /\ \/ HubSpotWrites(p) /\ (outcome = "applied" \/ mishap' = "response_lost")
             \/ UNCHANGED changed /\ outcome = "failed"
    BY DEF Write, Mishap
  <1>6. /\ proc' = [proc EXCEPT ![p] = proc'[p]] /\ proc'[p] \in Job
        /\ proc'[p].at = "read" /\ proc'[p].id = id
    BY <1>1, <1>5, SettleIs
  <1>7. /\ proc'[p].left \cup Settled(p)' = proc[p].left \cup Settled(p) /\ proc'[p].told = proc[p].told
        /\ proc'[p].applied = IF outcome = "applied" THEN proc[p].applied \cup {Record(p)}
                              ELSE proc[p].applied
        /\ Settled(p)' = proc'[p].applied \cup proc'[p].skipped \cup proc'[p].failed
    BY <1>1, <1>5, SettledIs DEF Settled
  <1>8. CASE HubSpotWrites(p) /\ (outcome = "applied" \/ mishap' = "response_lost")
    <2> DEFINE was == changed[id]
               now == [r \in DOMAIN was \cup {Record(p)} |-> IF r \in DOMAIN was THEN was[r] ELSE crm[r]]
    <2>1. changed' = [changed EXCEPT ![id] = now]
      BY <1>8 DEF HubSpotWrites
    <2>2. changed'[id] = now /\ \A x \in Ids \ {id} : changed'[x] = changed[x]
      BY <1>1, <1>2, <2>1
    <2>3. DOMAIN now = DOMAIN was \cup {Record(p)}
      OBVIOUS
    <2>4. ASSUME ~Races, mishap' # "not_captured"
          PROVE  \A r \in DOMAIN now : now[r] = matched[id][r].pre
      <3>1. SameValue(crm[Record(p)], matched[id][Record(p)].pre)
        BY <1>1, <2>4 DEF JobInv, Approved
      <3>2. matched[id][Record(p)].pre # NotCaptured
        BY <1>1, <2>4 DEF BatchInv
      <3>3. crm[Record(p)] = matched[id][Record(p)].pre
        BY <3>1, <3>2 DEF SameValue
      <3>4. \A r \in DOMAIN was : was[r] = matched[id][r].pre
        BY <1>1, <1>2, <2>4 DEF ChangedAsApproved
      <3>5. QED
        BY <3>3, <3>4
    <2> HIDE DEF now
    <2>5. ChangedAsApproved(id)'
      <3>1. DOMAIN now \subseteq DOMAIN matched[id]
        BY <1>1, <1>2, <2>3 DEF ChangedAsApproved
      <3>2. Id(p)' = id
        BY <1>6
      <3> HIDE DEF Id
      <3>3. QED
        BY <1>1, <2>2, <2>4, <3>1, <3>2 DEF ChangedAsApproved
    <2>6. mishap' # "crash" /\ mishap' # "response_lost" => proc'[p].applied = DOMAIN changed'[id]
      BY <1>1, <1>3, <1>7, <1>8, <2>2, <2>3
    <2>7. QED
      BY <1>1, <1>4, <1>6, <1>7, <2>2, <2>5, <2>6, ExecutorBatch
  <1>9. CASE UNCHANGED changed /\ outcome = "failed"
    <2>1. ChangedAsApproved(id)'
      BY <1>1, <1>2, <1>6, <1>9 DEF ChangedAsApproved
    <2>2. mishap' # "crash" /\ mishap' # "response_lost" => proc'[p].applied = DOMAIN changed'[id]
      BY <1>1, <1>3, <1>7, <1>9
    <2>3. QED
      BY <1>1, <1>4, <1>6, <1>7, <1>9, <2>1, <2>2, ExecutorBatch
  <1>10. QED
    BY <1>5, <1>8, <1>9

\* The snapshot takes the pre-images, which is what HubSpot held.
LEMMA SaveSnapshotBatch ==
  ASSUME PatternInv, BatchInv, NEW p \in Procs, NEW id \in Ids, id = Id(p), SaveSnapshot(p)
  PROVE  BatchInv'
  <1>1. /\ At(p, "read") /\ proc[p].left = {} /\ proc[p] # Idle /\ proc[p] \in Job /\ id \in Ids
        /\ UNCHANGED <<matched, staged, queue, audited, changed, report>>
        /\ mishap' = mishap \/ mishap = "none"
    BY AtWork DEF SaveSnapshot, Idle, Mishap
  <1> DEFINE saved == [r \in proc[p].applied |-> matched[id][r].pre]
             new   == [proc[p] EXCEPT !.at = "clear"]
  <1>2. /\ snapshot' = snapshot \/ snapshot' = [snapshot EXCEPT ![id] = saved]
        /\ DOMAIN snapshot = Ids
    BY DEF SaveSnapshot, PatternInv, TypeOK
  <1>3. /\ proc' = [proc EXCEPT ![p] = new] /\ new \in Job /\ new.id = id /\ new.at = "clear"
        /\ new.applied = proc[p].applied /\ new.left = {} /\ new.told = proc[p].told
        /\ new.applied \cup new.skipped \cup new.failed = Settled(p)
    BY <1>1 DEF SaveSnapshot, Goto, Job, Steps, Settled
  <1>4. DOMAIN saved = proc[p].applied /\ \A r \in proc[p].applied : saved[r] = matched[id][r].pre
    OBVIOUS
  <1> HIDE DEF saved, new
  <1>5. /\ ChangedAsApproved(id) /\ (mishap # "crash" => JobAccounted(p))
    BY <1>1 DEF BatchInv
  <1>6. mishap # "crash" => /\ snapshot[id] = Nothing
                            /\ mishap # "response_lost" => proc[p].applied = DOMAIN changed[id]
    BY <1>1, <1>5 DEF JobAccounted, KnowsChanges
  <1>7. Id(p)' = id
    BY <1>3 DEF PatternInv, TypeOK
  <1>8. ChangedAsApproved(id)'
    BY <1>1, <1>5, <1>7 DEF ChangedAsApproved
  <1>9. ~Races /\ mishap' # "crash" => HoldsChanges(id)'
    <2>1. snapshot'[id] \in {snapshot[id], saved}
      BY <1>1, <1>2
    <2> HIDE DEF Id
    <2>2. QED
      BY <1>1, <1>4, <1>5, <1>6, <1>7, <2>1 DEF HoldsChanges, ChangedAsApproved
  <1>10. \A x \in Ids \ {id} : snapshot'[x] = snapshot[x]
    BY <1>2
  <1>11. QED
    BY <1>1, <1>3, <1>6, <1>8, <1>9, <1>10, ExecutorBatch

LEMMA ClearPendingBatch ==
  ASSUME PatternInv, BatchInv, NEW p \in Procs, NEW id \in Ids, id = Id(p), ClearPending(p)
  PROVE  BatchInv'
  <1>1. /\ proc[p] # Idle /\ At(p, "clear") /\ proc[p] \in Job
        /\ UNCHANGED <<matched, staged, snapshot, audited, changed, report, mishap>>
    BY AtWork DEF ClearPending, history, Idle
  <1>2. Pending' = Pending \ {id}
    BY LeavesQueue DEF ClearPending, history
  <1> DEFINE new == [proc[p] EXCEPT !.at = "audit", !.left = proc[p].applied]
  <1>3. /\ proc' = [proc EXCEPT ![p] = new] /\ new \in Job /\ new.id = id /\ new.at = "audit"
        /\ new.applied = proc[p].applied /\ new.left = proc[p].applied /\ new.told = proc[p].told
        /\ new.applied \cup new.skipped \cup new.failed = Settled(p)
    BY <1>1 DEF ClearPending, Job, Steps, Settled
  <1> HIDE DEF new
  <1>4. proc'[p] = new /\ Settled(p)' = Settled(p)
    BY <1>3 DEF PatternInv, TypeOK, Settled
  <1>5. mishap # "crash" => JobAccounted(p)'
    <2>1. mishap # "crash" => JobAccounted(p)
      BY <1>1 DEF BatchInv
    <2>2. Id(p)' = id
      BY <1>3, <1>4
    <2>3. mishap # "crash" /\ KnowsChanges(p) => KnowsChanges(p)'
      BY <1>1, <1>3, <1>4 DEF KnowsChanges
    <2>4. mishap # "crash" => KnowsChanges(p) /\ Settled(p) = DOMAIN matched[id]
      BY <1>1, <2>1 DEF JobAccounted
    <2> HIDE DEF Id
    <2>5. QED
      BY <1>1, <1>2, <1>3, <1>4, <2>2, <2>3, <2>4 DEF JobAccounted
  <1>6. QED
    BY <1>1, <1>2, <1>3, <1>5, FilesStay, PendingAreIds, OwnBatch

LEMMA LogRecordBatch ==
  ASSUME PatternInv, BatchInv, NEW p \in Procs, NEW id \in Ids, id = Id(p), LogRecord(p)
  PROVE  BatchInv'
  <1>1. /\ proc[p] # Idle /\ At(p, "audit") /\ proc[p] \in Job /\ id \in Ids
        /\ UNCHANGED <<matched, staged, queue, snapshot, changed, report>>
        /\ mishap' = mishap \/ mishap = "none"
        /\ audited \subseteq audited' /\ Pending' = Pending
    BY AtWork DEF LogRecord, Idle, Mishap, Pending
  <1>2. /\ proc'[p].at = "audit" /\ proc'[p].id = id /\ proc' = [proc EXCEPT ![p] = proc'[p]]
        /\ proc'[p] \in Job /\ proc'[p].left = proc[p].left \ {Record(p)}
        /\ proc'[p].applied = proc[p].applied /\ Settled(p)' = Settled(p)
        /\ proc'[p].told => proc[p].told /\ <<id, Record(p)>> \in audited'
    <2>1. proc[p].told \in BOOLEAN /\ proc[p].left \ {Record(p)} \in SUBSET Records
      BY <1>1 DEF Job
    <2>2. PICK told \in BOOLEAN :
            /\ proc' = [proc EXCEPT ![p] = [proc[p] EXCEPT !.left = @ \ {Record(p)}, !.told = told]]
            /\ told => proc[p].told /\ <<id, Record(p)>> \in audited'
      <3>1. CASE /\ audited' = audited \cup {<<id, Record(p)>>}
                 /\ proc' = [proc EXCEPT ![p].left = @ \ {Record(p)}]
        <4>1. [proc[p] EXCEPT !.left = @ \ {Record(p)}]
                = [proc[p] EXCEPT !.left = @ \ {Record(p)}, !.told = proc[p].told]
          BY <1>1 DEF Job
        <4>2. QED
          BY <2>1, <3>1, <4>1
      <3>2. CASE proc' = [proc EXCEPT ![p].left = @ \ {Record(p)}, ![p].told = FALSE]
        BY <3>2
      <3>3. QED
        BY <3>1, <3>2 DEF LogRecord
    <2> DEFINE new == [proc[p] EXCEPT !.left = @ \ {Record(p)}, !.told = told]
    <2>3. /\ new \in Job /\ new.at = "audit" /\ new.id = id
          /\ new.left = proc[p].left \ {Record(p)} /\ new.told = told
          /\ new.applied = proc[p].applied
          /\ new.applied \cup new.skipped \cup new.failed = Settled(p)
      BY <1>1, <2>1 DEF Job, Settled
    <2>4. proc' = [proc EXCEPT ![p] = new]
      BY <2>2
    <2> HIDE DEF new
    <2>5. proc'[p] = new
      BY <2>4 DEF PatternInv, TypeOK
    <2>6. QED
      BY <2>2, <2>3, <2>4, <2>5 DEF Settled
  <1>3. /\ ChangedAsApproved(id)
        /\ mishap # "crash" => JobAccounted(p) /\ (~Races => HoldsChanges(id))
    BY <1>1 DEF BatchInv
  <1>4. Id(p)' = id /\ proc'[p] # Idle
    BY <1>2 DEF Idle
  <1>5. ChangedAsApproved(id)'
    BY <1>1, <1>3, <1>4 DEF ChangedAsApproved
  <1>6. ASSUME mishap' # "crash"
        PROVE  JobAccounted(p)' /\ ToldInFull(id)' /\ (~Races => HoldsChanges(id)')
               /\ id \notin Pending'
    <2>1. /\ JobAccounted(p) /\ (~Races => HoldsChanges(id))
          /\ mishap' # "response_lost" => mishap # "response_lost"
          /\ mishap' # "not_captured" => mishap # "not_captured"
      BY <1>1, <1>3, <1>6
    <2>2. /\ id \notin Pending /\ KnowsChanges(p) /\ Settled(p) = DOMAIN matched[id]
          /\ proc[p].told => \A r \in proc[p].applied \ proc[p].left : <<id, r>> \in audited
      BY <1>1, <2>1 DEF JobAccounted
    <2> HIDE DEF Id
    <2>3. KnowsChanges(p)'
      BY <1>1, <1>2, <1>4, <2>1, <2>2 DEF KnowsChanges
    <2>4. proc'[p].told => \A r \in proc'[p].applied \ proc'[p].left : <<id, r>> \in audited'
      BY <1>1, <1>2, <2>2
    <2>5. JobAccounted(p)'
      BY <1>1, <1>2, <1>4, <2>2, <2>3, <2>4 DEF JobAccounted
    <2>6. ToldInFull(id)' /\ (~Races => HoldsChanges(id)')
      BY <1>1, <1>4, <2>1, <2>2 DEF ToldInFull, HoldsChanges, KnowsChanges
    <2>7. QED
      BY <1>1, <2>2, <2>5, <2>6
  <1>7. QED
    BY <1>1, <1>2, <1>4, <1>5, <1>6, PendingAreIds, OwnBatch

\* The report names what the executor settled.
LEMMA ReportBatch ==
  ASSUME PatternInv, BatchInv, NEW p \in Procs, NEW id \in Ids, id = Id(p), Report(p)
  PROVE  BatchInv'
  <1>1. /\ proc[p] # Idle /\ At(p, "audit") /\ proc[p].left = {} /\ id \in Ids
        /\ UNCHANGED <<matched, staged, queue, snapshot, audited, changed, mishap>>
        /\ proc' = [proc EXCEPT ![p] = Idle] /\ Pending' = Pending
    BY AtWork DEF Report, Quit, Idle, Pending
  <1> DEFINE told == [done |-> TRUE, applied |-> proc[p].applied, skipped |-> proc[p].skipped,
                      failed |-> proc[p].failed, auditFailed |-> ~proc[p].told]
  <1>2. report' = [report EXCEPT ![id] = told] /\ DOMAIN report = Ids
    BY DEF Report, BatchInv
  <1>3. /\ told.applied = proc[p].applied /\ told.applied \cup told.skipped \cup told.failed = Settled(p)
        /\ told.auditFailed = ~proc[p].told
    BY DEF Settled
  <1> HIDE DEF told
  <1>4. report'[id] = told /\ \A x \in Ids \ {id} : report'[x] = report[x]
    BY <1>1, <1>2
  <1>5. DOMAIN report' = DOMAIN report
    BY <1>2
  <1>6. /\ ChangedAsApproved(id)
        /\ mishap # "crash" => JobAccounted(p) /\ (~Races => HoldsChanges(id))
    BY <1>1 DEF BatchInv
  <1> HIDE DEF told
  <1>7. /\ ChangedAsApproved(id)'
        /\ mishap # "crash" => (~Races => HoldsChanges(id)')
    BY <1>1, <1>6 DEF ChangedAsApproved, HoldsChanges
  <1>8. ASSUME mishap # "crash" PROVE ToldInFull(id)' /\ id \notin Pending
    <2>1. /\ id \notin Pending /\ Settled(p) = DOMAIN matched[id]
          /\ mishap # "response_lost" => proc[p].applied = DOMAIN changed[id]
          /\ proc[p].told => \A r \in proc[p].applied : <<id, r>> \in audited
      BY <1>1, <1>6, <1>8 DEF JobAccounted, KnowsChanges
    <2>2. QED
      BY <1>1, <1>3, <1>4, <2>1 DEF ToldInFull
  <1>9. QED
    BY <1>1, <1>4, <1>5, <1>7, <1>8, PendingAreIds, OwnBatch

\* A process that dies leaves its batch half done, and nothing more is said of it.
LEMMA CrashBatch ==
  ASSUME PatternInv, BatchInv, NEW p \in Procs, NEW id \in Ids, id = Id(p), Crash(p)
  PROVE  BatchInv'
  <1>1. /\ proc[p] # Idle /\ proc' = [proc EXCEPT ![p] = Idle] /\ mishap' = "crash" /\ mishap = "none"
        /\ UNCHANGED <<matched, staged, queue, snapshot, audited, changed, report>> /\ Pending' = Pending
    BY DEF Crash, Quit, Mishap, Pending
  <1>2. ChangedAsApproved(id)'
    BY <1>1 DEF BatchInv, ChangedAsApproved
  <1>3. QED
    BY <1>1, <1>2, PendingAreIds, OwnBatch

-----------------------------------------------------------------------------
\* Undo takes the snapshot of a batch that nobody executes.
LEMMA UndoBatch ==
  ASSUME PatternInv, BatchInv, NEW id \in Ids, Undo(id)
  PROVE  BatchInv'
  <1>1. /\ UNCHANGED <<matched, staged, queue, audited, proc, changed, report>>
        /\ Pending' = Pending /\ (mishap' = mishap \/ (mishap = "none" /\ mishap' = "refused"))
        /\ \A x \in Ids : snapshot'[x] \in {snapshot[x], Nothing}
    <2>1. DOMAIN snapshot = Ids
      BY DEF PatternInv, TypeOK
    <2>2. QED
      BY <2>1 DEF Undo, Mishap, Pending
  <1>2. \A x \in Ids : ChangedAsApproved(x) => ChangedAsApproved(x)'
    BY <1>1 DEF ChangedAsApproved
  <1>3. \A x \in Ids : ToldInFull(x) => ToldInFull(x)'
    BY <1>1 DEF ToldInFull
  <1>4. \A x \in Ids : HoldsChanges(x) => HoldsChanges(x)'
    BY <1>1 DEF HoldsChanges
  <1>5. \A x \in Ids : Untouched(x) => Untouched(x)'
    BY <1>1 DEF Untouched
  <1>6. ASSUME NEW q \in Procs, proc[q] # Idle, JobAccounted(q) PROVE JobAccounted(q)'
    <2>1. Id(q)' = Id(q) /\ Settled(q)' = Settled(q) /\ (KnowsChanges(q) => KnowsChanges(q)')
      BY <1>1 DEF Settled, KnowsChanges
    <2>2. Id(q) \in Ids
      BY <1>6, AtWork
    <2>3. snapshot'[Id(q)] \in {snapshot[Id(q)], Nothing}
      BY <1>1, <2>2
    <2> HIDE DEF Id
    <2>4. QED
      BY <1>1, <1>6, <2>1, <2>3 DEF JobAccounted
  <1>7. \A q \in Procs : Executing(q)' <=> Executing(q)
    BY <1>1 DEF Executing
  <1>8. ASSUME mishap' # "crash"
        PROVE  /\ \A q \in Procs : proc'[q] # Idle => JobAccounted(q)'
               /\ \A x \in Pending' : (\A q \in Procs : Executing(q)' => Id(q)' # x) => Untouched(x)'
               /\ \A x \in Ids : x \notin staged' => snapshot'[x] = Nothing /\ ~report'[x].done
    <2>1. mishap # "crash"
      BY <1>1, <1>8
    <2>2. \A q \in Procs : proc'[q] # Idle => JobAccounted(q)'
      BY <1>1, <1>6, <2>1 DEF BatchInv
    <2>3. \A x \in Pending : (\A q \in Procs : Executing(q) => Id(q) # x) => Untouched(x)
      BY <2>1 DEF BatchInv
    <2>4. ASSUME NEW x \in Pending', \A q \in Procs : Executing(q)' => Id(q)' # x PROVE Untouched(x)'
      <3>1. x \in Pending /\ x \in Ids /\ \A q \in Procs : Executing(q) => Id(q) # x
        BY <1>1, <1>7, <2>4, PendingAreIds
      <3>2. QED
        BY <1>5, <2>3, <3>1
    <2>5. \A x \in Ids : x \notin staged' => snapshot'[x] = Nothing /\ ~report'[x].done
      BY <1>1, <2>1 DEF BatchInv
    <2>6. QED
      BY <2>2, <2>4, <2>5
  <1>9. /\ DOMAIN report' = Ids
        /\ \A q, r \in Procs : proc'[q] # Idle /\ proc'[r] # Idle /\ Id(q)' = Id(r)' => q = r
        /\ mishap' # "not_captured" =>
              \A x \in Ids : \A r \in DOMAIN matched'[x] : matched'[x][r].pre # NotCaptured
    BY <1>1 DEF BatchInv
  <1>10. QED
    BY <1>1, <1>2, <1>3, <1>4, <1>8, <1>9 DEF BatchInv

\* A new batch is untouched, and no process has it in hand.
LEMMA StageBatch ==
  ASSUME PatternInv, BatchInv, NEW id \in Ids, Stage(id)
  PROVE  BatchInv'
  <1>1. /\ UNCHANGED <<snapshot, audited, proc, changed, report>> /\ id \notin staged
    BY DEF Stage
  <1>2. /\ staged' = staged \cup {id} /\ \A x \in Ids \ {id} : matched'[x] = matched[x]
        /\ mishap' # "not_captured" => \A r \in DOMAIN matched'[id] : matched'[id][r].pre # NotCaptured
        /\ Pending' = Pending \cup {id}
        /\ \A q \in Procs : proc[q] # Idle => Id(q) \in Ids \ {id} /\ matched'[Id(q)] = matched[Id(q)]
        /\ mishap' \in {mishap, "not_captured"} /\ (mishap' # mishap => mishap = "none")
    BY StageIs
  <1>3. changed[id] = Nothing /\ DOMAIN Nothing = {}
    BY <1>1 DEF PatternInv, Nothing
  <1>4. \A x \in Ids : ChangedAsApproved(x)'
    <2>1. \A x \in Ids \ {id} : ChangedAsApproved(x) => ChangedAsApproved(x)'
      BY <1>1, <1>2 DEF ChangedAsApproved
    <2>2. ChangedAsApproved(id)'
      BY <1>1, <1>3 DEF ChangedAsApproved
    <2>3. QED
      BY <2>1, <2>2 DEF BatchInv
  <1>5. /\ DOMAIN report' = Ids
        /\ \A q, r \in Procs : proc'[q] # Idle /\ proc'[r] # Idle /\ Id(q)' = Id(r)' => q = r
        /\ mishap' # "not_captured" =>
              \A x \in Ids : \A r \in DOMAIN matched'[x] : matched'[x][r].pre # NotCaptured
    BY <1>1, <1>2 DEF BatchInv
  <1>6. ASSUME mishap' # "crash"
        PROVE  /\ \A q \in Procs : proc'[q] # Idle => JobAccounted(q)'
               /\ \A x \in Ids : x \notin staged' => snapshot'[x] = Nothing /\ ~report'[x].done
               /\ \A x \in Pending' : (\A q \in Procs : Executing(q)' => Id(q)' # x) => Untouched(x)'
               /\ \A x \in Ids : ToldInFull(x)'
               /\ ~Races => \A x \in Ids : HoldsChanges(x)'
    <2>1. mishap # "crash"
      BY <1>2, <1>6
    <2>2. snapshot[id] = Nothing /\ ~report[id].done
      BY <1>1, <2>1 DEF BatchInv
    <2>3. ASSUME NEW q \in Procs, proc'[q] # Idle PROVE JobAccounted(q)'
      <3>1. JobAccounted(q) /\ Id(q)' = Id(q) /\ Settled(q)' = Settled(q)
        BY <1>1, <2>1, <2>3 DEF BatchInv, Settled
      <3>2. KnowsChanges(q) => KnowsChanges(q)'
        BY <1>1, <1>2 DEF KnowsChanges
      <3>3. matched'[Id(q)] = matched[Id(q)] /\ (Id(q) \in Pending' <=> Id(q) \in Pending)
        BY <1>1, <1>2, <2>3
      <3> HIDE DEF Id
      <3>4. QED
        BY <1>1, <3>1, <3>2, <3>3 DEF JobAccounted
    <2>4. \A x \in Ids : x \notin staged' => snapshot'[x] = Nothing /\ ~report'[x].done
      BY <1>1, <1>2, <2>1 DEF BatchInv
    <2>5. ASSUME NEW x \in Pending', \A q \in Procs : Executing(q)' => Id(q)' # x PROVE Untouched(x)'
      <3>1. CASE x = id
        BY <1>1, <1>3, <2>2, <3>1 DEF Untouched
      <3>2. CASE x # id
        <4>1. x \in Pending /\ \A q \in Procs : Executing(q) => Id(q) # x
          BY <1>1, <1>2, <2>5, <3>2 DEF Executing
        <4>2. Untouched(x)
          BY <2>1, <4>1 DEF BatchInv
        <4>3. QED
          BY <1>1, <4>2 DEF Untouched
      <3>3. QED
        BY <3>1, <3>2
    <2>6. ASSUME NEW x \in Ids PROVE ToldInFull(x)'
      <3>1. ToldInFull(x)
        BY <2>1 DEF BatchInv
      <3>2. QED
        BY <1>1, <1>2, <2>2, <3>1 DEF ToldInFull
    <2>7. ASSUME ~Races, NEW x \in Ids PROVE HoldsChanges(x)'
      <3>1. HoldsChanges(x)
        BY <2>1, <2>7 DEF BatchInv
      <3>2. QED
        BY <1>1, <1>2, <3>1 DEF HoldsChanges
    <2>8. QED
      BY <2>3, <2>4, <2>5, <2>6, <2>7
  <1>7. QED
    BY <1>4, <1>5, <1>6 DEF BatchInv

\* Nothing but HubSpot, or nothing at all, changes.
LEMMA StillBatch ==
  ASSUME BatchInv,
         UNCHANGED <<matched, staged, queue, snapshot, audited, proc, changed, report, mishap>>
  PROVE  BatchInv'
  <1>1. Pending' = Pending
    BY DEF Pending
  <1>2. \A x \in Ids : /\ ChangedAsApproved(x)' <=> ChangedAsApproved(x)
                       /\ ToldInFull(x)' <=> ToldInFull(x)
                       /\ HoldsChanges(x)' <=> HoldsChanges(x)
    BY DEF ChangedAsApproved, ToldInFull, HoldsChanges
  <1>3. \A x : Untouched(x)' <=> Untouched(x)
    BY DEF Untouched
  <1>4. \A q \in Procs : JobAccounted(q)' <=> JobAccounted(q)
    BY <1>1 DEF JobAccounted, Settled, KnowsChanges
  <1>5. \A q \in Procs : Executing(q)' <=> Executing(q)
    BY DEF Executing
  <1>6. QED
    BY <1>1, <1>2, <1>3, <1>4, <1>5 DEF BatchInv

LEMMA BatchInit == ASSUME Init PROVE BatchInv
  <1>1. DOMAIN Nothing = {}
    BY DEF Nothing
  <1>2. /\ DOMAIN report = Ids /\ \A id \in Ids : ~report[id].done
        /\ \A p \in Procs : proc[p] = Idle
        /\ \A id \in Ids : changed[id] = Nothing /\ matched[id] = Nothing /\ snapshot[id] = Nothing
        /\ Pending = {}
    BY DEF Init, NoReport, Pending, Range
  <1>3. \A id \in Ids : ChangedAsApproved(id) /\ ToldInFull(id) /\ HoldsChanges(id)
    BY <1>1, <1>2 DEF ChangedAsApproved, ToldInFull, HoldsChanges
  <1>4. QED
    BY <1>1, <1>2, <1>3 DEF BatchInv

LEMMA BatchKeeps ==
  ASSUME PatternInv, BatchInv, ~Overlap, [Next]_vars
  PROVE  BatchInv'
  <1>1. CASE UNCHANGED vars
    BY <1>1, StillBatch DEF vars, history
  <1>2. ASSUME NEW id \in Ids, Stage(id) \/ Undo(id) PROVE BatchInv'
    BY <1>2, StageBatch, UndoBatch
  <1>3. ASSUME NEW r \in Records, Edit(r) PROVE BatchInv'
    BY <1>3, StillBatch DEF Edit
  <1>4. ASSUME NEW p \in Procs, proc[p] = Idle,
               Approve(p) \/ ApproveLast(p) \/ ConfirmLast(p) \/ RejectLast(p)
        PROVE  BatchInv'
    BY <1>4, CommandsTakeFree
  <1>5. ASSUME NEW p \in Procs, proc[p] # Idle,
               \/ Look(p) \/ Confirm(p) \/ Drop(p) \/ Gate(p)
               \/ Reread(p) \/ Write(p) \/ SaveSnapshot(p) \/ ClearPending(p)
               \/ LogRecord(p) \/ Report(p) \/ Crash(p)
        PROVE  BatchInv'
    <2>1. PICK id \in Ids : id = Id(p)
      BY <1>5, AtWork
    <2>2. QED
      BY <1>5, <2>1, LookBatch, GateBatch, RereadBatch, WriteBatch, SaveSnapshotBatch, ClearPendingBatch,
         LogRecordBatch, ReportBatch, CrashBatch
  <1>6. ASSUME NEW p \in Procs,
               \/ Look(p) \/ Confirm(p) \/ Drop(p) \/ Gate(p)
               \/ Reread(p) \/ Write(p) \/ SaveSnapshot(p) \/ ClearPending(p)
               \/ LogRecord(p) \/ Report(p) \/ Crash(p)
        PROVE  proc[p] # Idle
    BY <1>6 DEF Look, Confirm, Drop, Gate, Reread, Write, SaveSnapshot, ClearPending, LogRecord, Report,
       Crash, Idle
  <1>7. ASSUME NEW p \in Procs, Approve(p) \/ ApproveLast(p) \/ ConfirmLast(p) \/ RejectLast(p)
        PROVE  proc[p] = Idle
    BY <1>7 DEF Approve, ApproveLast, ConfirmLast, RejectLast, Command
  <1>8. QED
    BY <1>1, <1>2, <1>3, <1>4, <1>5, <1>6, <1>7 DEF Next

\* If no two processes work on one action: executed once, told of, restorable.
LEMMA BatchInvariant == ASSUME ~Overlap PROVE Spec => []BatchInv
  <1>1. Init => BatchInv
    BY BatchInit
  <1>2. PatternInv /\ BatchInv /\ [Next]_vars => BatchInv'
    BY BatchKeeps
  <1>3. QED
    BY <1>1, <1>2, PatternInvariant, PTL DEF Spec

\* The report of a batch names every record and every change, and every change
\* has its audit line or is said to miss it (handlers.py, the end of
\* _execute_pattern_write), whichever fault happens, unless a process dies or an
\* answer of HubSpot is lost.
THEOREM BatchesAreAccountedFor == ASSUME ~Overlap PROVE Spec => []BatchIsAccountedFor
  <1>1. BatchInv => BatchIsAccountedFor
    <2> SUFFICES ASSUME BatchInv, NEW id \in Ids, report[id].done,
                        mishap \notin {"crash", "response_lost"}
                 PROVE  /\ report[id].applied \cup report[id].skipped \cup report[id].failed
                             = DOMAIN matched[id]
                        /\ report[id].applied = DOMAIN changed[id]
                        /\ \/ report[id].auditFailed
                           \/ \A r \in DOMAIN changed[id] : <<id, r>> \in audited
      BY DEF BatchIsAccountedFor, ReportIsComplete, ChangesAreAudited
    <2>1. ToldInFull(id)
      BY DEF BatchInv
    <2>2. QED
      BY <2>1 DEF ToldInFull
  <1>2. QED
    BY <1>1, BatchInvariant, PTL

\* A step that empties a snapshot is an undo that wrote every record back.
LEMMA EmptiedByUndo ==
  ASSUME PatternInv, BatchInv, ~Races, [Next]_vars, mishap \notin {"not_captured", "response_lost", "crash"},
         NEW id \in Ids, snapshot[id] # Nothing, snapshot'[id] = Nothing
  PROVE  \A r \in DOMAIN changed[id] : crm'[r] = changed[id][r]
  <1>1. DOMAIN snapshot = Ids /\ OnSomeRecords(snapshot[id], Values \cup {NotCaptured})
    BY DEF PatternInv, TypeOK
  <1>2. ASSUME NEW p \in Procs, SaveSnapshot(p) PROVE FALSE
    <2> DEFINE saved == [r \in proc[p].applied |-> matched[Id(p)][r].pre]
    <2>1. snapshot' = snapshot \/ (proc[p].applied # {} /\ snapshot' = [snapshot EXCEPT ![Id(p)] = saved])
      BY <1>2 DEF SaveSnapshot
    <2>2. DOMAIN saved = proc[p].applied /\ DOMAIN Nothing = {}
      BY DEF Nothing
    <2> HIDE DEF saved
    <2>3. proc[p].applied # {} => saved # Nothing
      BY <2>2
    <2>4. snapshot'[id] = snapshot[id] \/ (proc[p].applied # {} /\ snapshot'[id] = saved)
      BY <1>1, <2>1
    <2>5. QED
      BY <2>3, <2>4
  <1>3. PICK x \in Ids : Undo(x)
    <2>1. snapshot' # snapshot
      OBVIOUS
    <2>2. ~ UNCHANGED vars
      BY <2>1 DEF vars
    <2>3. \A x \in Ids : ~Stage(x)
      BY <2>1 DEF Stage
    <2>4. \A r \in Records : ~Edit(r)
      BY <2>1 DEF Edit
    <2>5. \A p \in Procs : ~(Approve(p) \/ ApproveLast(p) \/ ConfirmLast(p) \/ RejectLast(p))
      BY <2>1 DEF Approve, ApproveLast, ConfirmLast, RejectLast, Command
    <2>6. \A p \in Procs : ~(Look(p) \/ Confirm(p) \/ Drop(p) \/ Gate(p) \/ Reread(p) \/ Write(p)
                             \/ ClearPending(p) \/ LogRecord(p) \/ Report(p) \/ Crash(p))
      BY <2>1 DEF Look, Confirm, Drop, Gate, Reread, Write, ClearPending, LogRecord, Report, Crash
    <2>7. QED
      BY <1>2, <2>2, <2>3, <2>4, <2>5, <2>6 DEF Next
  <1>4. PICK refused \in SUBSET DOMAIN snapshot[x] :
          /\ crm' = [r \in Records |->
                IF r \in DOMAIN snapshot[x] \ refused /\ snapshot[x][r] # NotCaptured
                THEN snapshot[x][r] ELSE crm[r]]
          /\ snapshot' = IF refused = {} THEN [snapshot EXCEPT ![x] = Nothing] ELSE snapshot
    BY <1>3 DEF Undo
  <1>5. refused = {} /\ x = id
    BY <1>1, <1>4
  <1>6. /\ DOMAIN snapshot[id] = DOMAIN changed[id]
        /\ \A r \in DOMAIN changed[id] : snapshot[id][r] = changed[id][r]
    BY DEF BatchInv, HoldsChanges
  <1>7. /\ DOMAIN changed[id] \subseteq DOMAIN matched[id]
        /\ \A r \in DOMAIN changed[id] : changed[id][r] = matched[id][r].pre
    BY DEF BatchInv, ChangedAsApproved
  <1>8. \A r \in DOMAIN changed[id] : snapshot[id][r] # NotCaptured /\ r \in Records
    BY <1>1, <1>6, <1>7 DEF BatchInv, OnSomeRecords
  <1>9. \A r \in DOMAIN changed[id] : crm'[r] = snapshot[id][r]
    BY <1>4, <1>5, <1>6, <1>8
  <1>10. QED
    BY <1>6, <1>9

\* An undo that reports success leaves every record the batch changed as it was
\* before the batch (cli.py, the undo of a batch snapshot; handlers.py, the
\* snapshot of the applied records).
THEOREM UndoRestores == ASSUME ~Overlap, ~Races PROVE Spec => UndoRestoresTheBatch
  <1> DEFINE Restores ==
        mishap \notin {"not_captured", "response_lost", "snapshot_fails", "crash"} =>
          \A id \in Ids : snapshot[id] # Nothing /\ snapshot'[id] = Nothing =>
              \A r \in DOMAIN changed[id] : crm'[r] = changed[id][r]
  <1>1. PatternInv /\ BatchInv /\ [Next]_vars => [Restores]_vars
    BY EmptiedByUndo
  <1>2. QED
    BY <1>1, PatternInvariant, BatchInvariant, PTL DEF Spec, UndoRestoresTheBatch
=============================================================================
