-------------------------- MODULE Scheduler_proofs --------------------------
(***************************************************************************)
(* Proofs about Scheduler for any schedules, plans, ids, times to live and *)
(* faults: types; that an answered preview stays answered when no answer   *)
(* lands inside a stamp; and, with one sweep at a time, that a stamped     *)
(* preview is in its schedule's batch, that all of them are of one run,    *)
(* and that a tick is run once.                                            *)
(***************************************************************************)
EXTENDS Scheduler, TLAPS, FiniteSetTheorems, WellFoundedInduction

-----------------------------------------------------------------------------
(* Numbers *)

LEMMA LeastExists ==
  ASSUME NEW S \in SUBSET Nat, S # {}
  PROVE  \E x \in S : \A y \in S : x <= y
  <1>1. IsWellFoundedOn(OpToRel(<, Nat), Nat)
    BY NatLessThanWellFounded
  <1>2. PICK x \in S : \A y \in S : ~ (<<y, x>> \in OpToRel(<, Nat))
    BY <1>1, WFMin
  <1>3. \A y \in S : ~ (y < x)
    BY <1>2 DEF OpToRel
  <1>4. QED
    BY <1>3

LEMMA MinIsMember ==
  ASSUME NEW S \in SUBSET Ids, S # {}
  PROVE  Min(S) \in S
  <1>1. S \in SUBSET Nat
    BY SchedulerAssumption, FS_CardinalityType
  <1>2. \E x \in S : \A y \in S : x <= y
    BY <1>1, LeastExists
  <1>3. QED
    BY <1>2 DEF Min

\* The largest of some schedules: the last one is as far from it as any.
LEMMA MaxIsMember ==
  ASSUME NEW S \in SUBSET Schedules, S # {}
  PROVE  Max(S) \in S
  <1> DEFINE n == Cardinality(Schedules)
             T == {n - x : x \in S}
  <1>1. n \in Nat /\ S \subseteq 1..n
    BY SchedulerAssumption, FS_CardinalityType
  <1> HIDE DEF n
  <1>2. T \in SUBSET Nat /\ T # {}
    <2>1. ASSUME NEW x \in S PROVE n - x \in Nat
      <3>1. x \in 1..n
        BY <1>1
      <3>2. QED
        BY <1>1, <3>1
    <2>2. QED
      BY <2>1
  <1>3. PICK t \in T : \A u \in T : t <= u
    BY <1>2, LeastExists
  <1>4. PICK x \in S : t = n - x
    BY <1>3
  <1>5. \A y \in S : x >= y
    BY <1>1, <1>3, <1>4
  <1>6. QED
    BY <1>4, <1>5 DEF Max

\* What a sweep may be doing, and what the stores hold (TypeOK, in the form the
\* provers use).
Listings == UNION {[all -> Registered] : all \in (SUBSET Schedules) \ {{}}}
Job == [at : Steps, now : Instants, step : Nat, ids : SUBSET Ids, left : SUBSET Ids,
        listed : Listings]

Types ==
    /\ clock \in Instants
    /\ schedule \in [Schedules -> Registered \cup {NotAdded, Removed}]
    /\ preview \in [Ids -> Stored \cup {NoPreview}]
    /\ sweep \in [Sweeps -> Job \cup {Idle}]
    /\ minted \in [Ids -> [of : Schedules, at : Instants] \cup {NotMinted}]
    /\ answered \subseteq {id \in Ids : minted[id] # NotMinted}
    /\ runs \in [Schedules -> Seq(Instants)]
    /\ mishap \in {"none", "step_fails", "run_raises", "crash"}
    /\ \A p \in Sweeps : sweep[p] # Idle => sweep[p].left \subseteq sweep[p].ids

LEMMA ScheduleIsListed ==
  ASSUME NEW p, sweep[p] \in Job
  PROVE  /\ DOMAIN sweep[p].listed \subseteq Schedules
         /\ sweep[p].listed \in [DOMAIN sweep[p].listed -> Registered]
         /\ Current(p) \in DOMAIN sweep[p].listed
         /\ Current(p) \in Schedules
         /\ Copy(p) \in Registered
  <1>1. PICK all \in (SUBSET Schedules) \ {{}} : sweep[p].listed \in [all -> Registered]
    BY DEF Job, Listings
  <1>2. DOMAIN sweep[p].listed = all
    BY <1>1
  <1>3. Current(p) \in all
    BY <1>2, MaxIsMember DEF Current
  <1>4. QED
    BY <1>1, <1>2, <1>3 DEF Copy

-----------------------------------------------------------------------------
(* Types *)

Minted == {id \in Ids : minted[id] # NotMinted}

TypeInv ==
    /\ Types
    /\ Pending \subseteq Minted
    /\ \A p \in Sweeps : sweep[p] # Idle =>
          /\ sweep[p].ids \subseteq Minted
          /\ At(p, "store") => sweep[p].left # {}
          /\ sweep[p].at \in {"gate", "expire"} => sweep[p].left = {}

LEMMA TypeInit == ASSUME Init PROVE TypeInv
  <1>1. MaxClock \in Nat
    BY SchedulerAssumption
  <1>2. QED
    BY <1>1 DEF Init, TypeInv, Types, Instants, Pending, Minted, Idle, history, NoPreview,
              NotMinted, NotAdded

LEMMA SetLastBatchType ==
  ASSUME Types, NEW s \in Schedules, NEW batch \in Batches, SetLastBatch(s, batch)
  PROVE  /\ schedule' \in [Schedules -> Registered \cup {NotAdded, Removed}]
         /\ \A t \in Schedules : Exists(t)' <=> Exists(t)
         /\ Exists(s) => schedule'[s] = [schedule[s] EXCEPT !.batch = batch]
         /\ \A t \in Schedules : t # s \/ ~Exists(t) => schedule'[t] = schedule[t]
  <1>1. CASE ~Exists(s)
    BY <1>1 DEF Types, SetLastBatch, Exists
  <1>2. CASE Exists(s)
    <2>1. schedule[s] \in Registered
      BY <1>2 DEF Types, Exists
    <2>2. schedule' = [schedule EXCEPT ![s].batch = batch]
      BY <1>2 DEF SetLastBatch
    <2>3. [schedule[s] EXCEPT !.batch = batch] \in Registered
      BY <2>1 DEF Registered
    <2>4. schedule'[s] = [schedule[s] EXCEPT !.batch = batch]
      BY <2>2 DEF Types
    <2>5. schedule'[s] \notin {NotAdded, Removed}
      BY <2>3, <2>4 DEF Registered, NotAdded, Removed
    <2>6. QED
      BY <1>2, <2>2, <2>3, <2>4, <2>5 DEF Types, Exists
  <1>3. QED
    BY <1>1, <1>2

LEMMA SetLastRunType ==
  ASSUME Types, NEW s \in Schedules, NEW when \in Instants, SetLastRun(s, when)
  PROVE  /\ schedule' \in [Schedules -> Registered \cup {NotAdded, Removed}]
         /\ \A t \in Schedules : Exists(t)' <=> Exists(t)
         /\ \A t \in Schedules : Exists(t) => schedule'[t].batch = schedule[t].batch
         /\ \A t \in Schedules : ~Exists(t) => schedule'[t] = schedule[t]
  <1>1. CASE ~Exists(s)
    BY <1>1 DEF Types, SetLastRun, Exists
  <1>2. CASE Exists(s)
    <2>1. schedule[s] \in Registered
      BY <1>2 DEF Types, Exists
    <2>2. schedule' = [schedule EXCEPT ![s].lastRun = when]
      BY <1>2 DEF SetLastRun
    <2>3. [schedule[s] EXCEPT !.lastRun = when] \in Registered
      BY <2>1 DEF Registered
    <2>4. schedule'[s] = [schedule[s] EXCEPT !.lastRun = when]
      BY <2>2 DEF Types
    <2>5. schedule'[s] \notin {NotAdded, Removed} /\ schedule'[s].batch = schedule[s].batch
      BY <2>1, <2>3, <2>4 DEF Registered, NotAdded, Removed
    <2>6. QED
      BY <1>2, <2>2, <2>3, <2>4, <2>5 DEF Types, Exists
  <1>3. QED
    BY <1>1, <1>2

\* What each sweep may be doing, as a predicate of its own.
JobOK(p) ==
    /\ sweep[p] \in Job \cup {Idle}
    /\ sweep[p] # Idle =>
          /\ sweep[p].left \subseteq sweep[p].ids
          /\ sweep[p].ids \subseteq Minted
          /\ At(p, "store") => sweep[p].left # {}
          /\ sweep[p].at \in {"gate", "expire"} => sweep[p].left = {}

StoresOK ==
    /\ clock \in Instants
    /\ schedule \in [Schedules -> Registered \cup {NotAdded, Removed}]
    /\ preview \in [Ids -> Stored \cup {NoPreview}]
    /\ minted \in [Ids -> [of : Schedules, at : Instants] \cup {NotMinted}]
    /\ answered \subseteq {id \in Ids : minted[id] # NotMinted}
    /\ runs \in [Schedules -> Seq(Instants)]
    /\ mishap \in {"none", "step_fails", "run_raises", "crash"}
    /\ Pending \subseteq Minted

LEMMA TypeParts ==
  TypeInv <=> /\ StoresOK
              /\ sweep \in [Sweeps -> Job \cup {Idle}]
              /\ \A p \in Sweeps : JobOK(p)
  BY DEF TypeInv, Types, StoresOK, JobOK

LEMMA Busy ==
  ASSUME TypeInv, NEW p \in Sweeps, sweep[p] # Idle
  PROVE  /\ sweep[p] \in Job
         /\ sweep[p].left \subseteq sweep[p].ids /\ sweep[p].ids \subseteq Minted
         /\ At(p, "store") => sweep[p].left # {}
         /\ sweep[p].at \in {"gate", "expire"} => sweep[p].left = {}
  BY DEF TypeInv, Types

LEMMA AtIsBusy == ASSUME NEW p, NEW step \in Steps, At(p, step) PROVE sweep[p] # Idle
  BY DEF At, Steps, Idle

\* One sweep goes on to a well-formed job, the stores stay well-formed.
LEMMA OneSweepMoves ==
  ASSUME TypeInv, NEW p \in Sweeps, NEW job,
         sweep' = [sweep EXCEPT ![p] = job],
         StoresOK', Minted \subseteq Minted', JobOK(p)'
  PROVE  TypeInv'
  <1>1. sweep'[p] = job /\ job \in Job \cup {Idle}
    BY DEF TypeInv, Types, JobOK
  <1>2. sweep' \in [Sweeps -> Job \cup {Idle}]
    BY <1>1 DEF TypeInv, Types
  <1>3. ASSUME NEW q \in Sweeps, q # p PROVE JobOK(q)'
    <2>1. sweep'[q] = sweep[q]
      BY <1>3 DEF TypeInv, Types
    <2>2. JobOK(q)
      BY TypeParts
    <2>3. QED
      BY <2>1, <2>2 DEF JobOK, At
  <1>4. QED
    BY <1>2, <1>3 DEF TypeInv, Types, StoresOK, JobOK, At

LEMMA MintedStays == ASSUME UNCHANGED minted PROVE Minted' = Minted
  BY DEF Minted

LEMMA StoresStay ==
  ASSUME TypeInv, UNCHANGED <<clock, schedule, preview, history>>
  PROVE  StoresOK' /\ Minted' = Minted
  BY TypeParts DEF StoresOK, Minted, Pending, history

\* A job that goes on: within its schedule only these change.
Turn(p, step, count, ids, left) ==
    [at |-> step, now |-> sweep[p].now, step |-> count, ids |-> ids, left |-> left,
     listed |-> sweep[p].listed]

\* The fields a step may change, one or two at a time.
LEMMA NewLeft ==
  ASSUME NEW r \in Job, NEW left
  PROVE  [r EXCEPT !.left = left] =
           [at |-> r.at, now |-> r.now, step |-> r.step, ids |-> r.ids, left |-> left,
            listed |-> r.listed]
  BY DEF Job

LEMMA NewAtIds ==
  ASSUME NEW r \in Job, NEW at, NEW ids
  PROVE  [r EXCEPT !.at = at, !.ids = ids] =
           [at |-> at, now |-> r.now, step |-> r.step, ids |-> ids, left |-> r.left,
            listed |-> r.listed]
  <1> DEFINE q == [at |-> at, now |-> r.now, step |-> r.step, ids |-> r.ids, left |-> r.left,
            listed |-> r.listed]
  <1>1. [r EXCEPT !.at = at] = q
    BY DEF Job
  <1>2. [q EXCEPT !.ids = ids] =
           [at |-> at, now |-> r.now, step |-> r.step, ids |-> ids, left |-> r.left,
            listed |-> r.listed]
    OBVIOUS
  <1>3. [r EXCEPT !.at = at, !.ids = ids] = [[r EXCEPT !.at = at] EXCEPT !.ids = ids]
    OBVIOUS
  <1> HIDE DEF q
  <1>4. QED
    BY <1>1, <1>2, <1>3

LEMMA NewAtLeft ==
  ASSUME NEW r \in Job, NEW at, NEW left
  PROVE  [r EXCEPT !.at = at, !.left = left] =
           [at |-> at, now |-> r.now, step |-> r.step, ids |-> r.ids, left |-> left,
            listed |-> r.listed]
  <1> DEFINE q == [at |-> at, now |-> r.now, step |-> r.step, ids |-> r.ids, left |-> r.left,
            listed |-> r.listed]
  <1>1. [r EXCEPT !.at = at] = q
    BY DEF Job
  <1>2. [q EXCEPT !.left = left] =
           [at |-> at, now |-> r.now, step |-> r.step, ids |-> r.ids, left |-> left,
            listed |-> r.listed]
    OBVIOUS
  <1>3. [r EXCEPT !.at = at, !.left = left] = [[r EXCEPT !.at = at] EXCEPT !.left = left]
    OBVIOUS
  <1> HIDE DEF q
  <1>4. QED
    BY <1>1, <1>2, <1>3

LEMMA NewStepIds ==
  ASSUME NEW r \in Job, NEW step, NEW ids
  PROVE  [r EXCEPT !.step = step, !.ids = ids] =
           [at |-> r.at, now |-> r.now, step |-> step, ids |-> ids, left |-> r.left,
            listed |-> r.listed]
  <1> DEFINE q == [at |-> r.at, now |-> r.now, step |-> step, ids |-> r.ids, left |-> r.left,
            listed |-> r.listed]
  <1>1. [r EXCEPT !.step = step] = q
    BY DEF Job
  <1>2. [q EXCEPT !.ids = ids] =
           [at |-> r.at, now |-> r.now, step |-> step, ids |-> ids, left |-> r.left,
            listed |-> r.listed]
    OBVIOUS
  <1>3. [r EXCEPT !.step = step, !.ids = ids] = [[r EXCEPT !.step = step] EXCEPT !.ids = ids]
    OBVIOUS
  <1> HIDE DEF q
  <1>4. QED
    BY <1>1, <1>2, <1>3

LEMMA TurnType ==
  ASSUME TypeInv, NEW p \in Sweeps, sweep[p] # Idle, NEW step \in Steps, NEW count \in Nat,
         NEW ids \in SUBSET Ids, ids \subseteq Minted', NEW left \in SUBSET ids,
         step = "store" => left # {}, (step \in {"gate", "expire"} => left = {}),
         sweep' = [sweep EXCEPT ![p] = Turn(p, step, count, ids, left)]
  PROVE  JobOK(p)'
  <1>1. sweep[p] \in Job
    BY Busy
  <1>2. Turn(p, step, count, ids, left) \in Job
    BY <1>1 DEF Job, Turn
  <1>3. sweep'[p] = Turn(p, step, count, ids, left)
    BY DEF TypeInv, Types
  <1>4. sweep'[p].ids = ids /\ sweep'[p].left = left /\ sweep'[p].at = step
    BY <1>3 DEF Turn
  <1>5. QED
    BY <1>2, <1>3, <1>4 DEF JobOK, At

LEMMA NextScheduleType ==
  ASSUME TypeInv, NEW p \in Sweeps, sweep[p] # Idle, NextSchedule(p)
  PROVE  JobOK(p)'
  <1> DEFINE rest == DOMAIN sweep[p].listed \ {Current(p)}
             job == [at |-> "gate", now |-> sweep[p].now, step |-> 0, ids |-> {}, left |-> {},
                     listed |-> [s \in rest |-> sweep[p].listed[s]]]
  <1>1. sweep[p] \in Job
    BY Busy
  <1>2. CASE rest = {}
    <2>1. sweep'[p] = Idle
      BY <1>2 DEF NextSchedule, TypeInv, Types
    <2>2. QED
      BY <2>1 DEF JobOK
  <1>3. CASE rest # {}
    <2>1. sweep'[p] = job
      BY <1>3 DEF NextSchedule, TypeInv, Types
    <2>2. job.listed \in Listings
      <3>1. rest \in (SUBSET Schedules) \ {{}}
        BY <1>1, <1>3, ScheduleIsListed
      <3>2. [s \in rest |-> sweep[p].listed[s]] \in [rest -> Registered]
        BY <1>1, ScheduleIsListed
      <3>3. QED
        BY <3>1, <3>2 DEF Listings
    <2>3. job \in Job
      BY <1>1, <2>2 DEF Job, Steps
    <2>4. QED
      BY <2>1, <2>3 DEF JobOK, At
  <1>4. QED
    BY <1>2, <1>3

LEMMA NextScheduleMoves ==
  ASSUME NEW p, NextSchedule(p)
  PROVE  \E job : sweep' = [sweep EXCEPT ![p] = job]
  BY DEF NextSchedule

-----------------------------------------------------------------------------
(* Steps keep the types *)

\* The preview files after a change that adds at most one, of an id minted.
LEMMA PreviewsType ==
  ASSUME TypeInv, UNCHANGED <<clock, schedule, minted, answered, runs, mishap>>,
         preview' \in [Ids -> Stored \cup {NoPreview}],
         \A id \in Ids : preview'[id] # NoPreview => id \in Minted
  PROVE  StoresOK' /\ Minted' = Minted
  BY TypeParts DEF StoresOK, Minted, Pending

LEMMA TurnKeeps ==
  ASSUME TypeInv, NEW p \in Sweeps, sweep[p] # Idle, NEW step \in Steps, NEW count \in Nat,
         NEW ids \in SUBSET Ids, ids \subseteq Minted', NEW left \in SUBSET ids,
         step = "store" => left # {}, (step \in {"gate", "expire"} => left = {}),
         sweep' = [sweep EXCEPT ![p] = Turn(p, step, count, ids, left)],
         StoresOK', Minted \subseteq Minted'
  PROVE  TypeInv'
  BY TurnType, OneSweepMoves

LEMMA OnToNext ==
  ASSUME TypeInv, NEW p \in Sweeps, sweep[p] # Idle, NextSchedule(p), StoresOK', Minted' = Minted
  PROVE  TypeInv'
  <1>1. PICK job : sweep' = [sweep EXCEPT ![p] = job]
    BY NextScheduleMoves
  <1>2. QED
    BY <1>1, NextScheduleType, OneSweepMoves

\* To another step with nothing else changed.
LEMMA GotoIs ==
  ASSUME TypeInv, NEW p \in Sweeps, sweep[p] # Idle, NEW step, Goto(p, step)
  PROVE  sweep' = [sweep EXCEPT ![p] = Turn(p, step, sweep[p].step, sweep[p].ids, sweep[p].left)]
  <1>1. sweep[p] \in Job
    BY Busy
  <1>2. [sweep[p] EXCEPT !.at = step] = Turn(p, step, sweep[p].step, sweep[p].ids, sweep[p].left)
    BY <1>1 DEF Job, Turn
  <1>3. sweep' = [sweep EXCEPT ![p] = [sweep[p] EXCEPT !.at = step]]
    BY DEF Goto
  <1>4. QED
    BY <1>2, <1>3

LEMMA GotoKeeps ==
  ASSUME TypeInv, NEW p \in Sweeps, sweep[p] # Idle, NEW step \in Steps, Goto(p, step),
         step = "store" => sweep[p].left # {}, (step \in {"gate", "expire"} => sweep[p].left = {}), StoresOK', Minted' = Minted
  PROVE  TypeInv'
  <1>1. sweep[p] \in Job /\ sweep[p].left \subseteq sweep[p].ids /\ sweep[p].ids \subseteq Minted
    BY Busy
  <1>2. sweep[p].step \in Nat /\ sweep[p].ids \in SUBSET Ids
    BY <1>1 DEF Job
  <1>3. sweep' = [sweep EXCEPT ![p] = Turn(p, step, sweep[p].step, sweep[p].ids, sweep[p].left)]
    BY GotoIs
  <1>4. /\ sweep[p].ids \subseteq Minted' /\ Minted \subseteq Minted'
        /\ sweep[p].left \in SUBSET sweep[p].ids
    BY <1>1
  <1> HIDE DEF Turn
  <1>5. QED
    BY <1>2, <1>3, <1>4, TurnKeeps

LEMMA DueGateType ==
  ASSUME TypeInv, NEW p \in Sweeps, sweep[p] # Idle, DueGate(p), StoresOK', Minted' = Minted
  PROVE  TypeInv'
  <1>1. CASE Goto(p, "start")
    BY <1>1, GotoKeeps DEF Steps
  <1>2. CASE NextSchedule(p)
    BY <1>2, OnToNext
  <1>3. QED
    BY <1>1, <1>2 DEF DueGate

LEMMA BusyParts ==
  ASSUME TypeInv, NEW p \in Sweeps, sweep[p] # Idle
  PROVE  /\ sweep[p].at \in Steps /\ sweep[p].now \in Instants /\ sweep[p].step \in Nat
         /\ sweep[p].ids \in SUBSET Ids /\ sweep[p].left \in SUBSET sweep[p].ids
         /\ sweep[p].ids \subseteq Minted
         /\ Current(p) \in Schedules /\ Copy(p) \in Registered
  BY Busy, ScheduleIsListed DEF Job

LEMMA SchedulesType ==
  ASSUME TypeInv, schedule' \in [Schedules -> Registered \cup {NotAdded, Removed}],
         runs' \in [Schedules -> Seq(Instants)],
         mishap' \in {"none", "step_fails", "run_raises", "crash"},
         UNCHANGED <<clock, preview, minted, answered>>
  PROVE  StoresOK' /\ Minted' = Minted
  BY TypeParts DEF StoresOK, Minted, Pending

LEMMA BeginType ==
  ASSUME TypeInv, NEW p \in Sweeps, Begin(p)
  PROVE  TypeInv'
  <1> DEFINE all == {s \in Schedules : Exists(s)}
             job == [at |-> "gate", now |-> clock, step |-> 0, ids |-> {}, left |-> {},
                     listed |-> [s \in all |-> schedule[s]]]
  <1>1. all \in (SUBSET Schedules) \ {{}} /\ sweep' = [sweep EXCEPT ![p] = job]
    BY DEF Begin
  <1>2. [s \in all |-> schedule[s]] \in [all -> Registered]
    BY DEF TypeInv, Types, Exists
  <1>3. job \in Job
    <2>1. job.listed \in Listings
      BY <1>1, <1>2 DEF Listings
    <2>2. clock \in Instants /\ "gate" \in Steps
      BY DEF TypeInv, Types, Steps
    <2>3. QED
      BY <2>1, <2>2 DEF Job
  <1>4. sweep'[p] = job
    BY <1>1 DEF TypeInv, Types
  <1>5. JobOK(p)'
    BY <1>3, <1>4 DEF JobOK, At
  <1>6. StoresOK' /\ Minted' = Minted
    BY StoresStay DEF Begin
  <1> HIDE DEF job
  <1>7. QED
    BY <1>1, <1>5, <1>6, OneSweepMoves

\* Where a step leads that changes more than one field.
LEMMA GateExpires ==
  ASSUME TypeInv, NEW p \in Sweeps, At(p, "gate"),
         sweep' = [sweep EXCEPT ![p].at = "expire", ![p].ids = StillPending(p)]
  PROVE  sweep' = [sweep EXCEPT ![p] = Turn(p, "expire", sweep[p].step, StillPending(p), {})]
  <1>1. sweep[p] \in Job /\ sweep[p].left = {}
    BY AtIsBusy, Busy DEF At, Steps
  <1>2. [sweep[p] EXCEPT !.at = "expire", !.ids = StillPending(p)] =
          Turn(p, "expire", sweep[p].step, StillPending(p), sweep[p].left)
    BY <1>1, NewAtIds DEF Turn
  <1>3. sweep' = [sweep EXCEPT ![p] = [sweep[p] EXCEPT !.at = "expire", !.ids = StillPending(p)]]
    <2> DEFINE still == StillPending(p)
    <2>1. sweep' = [sweep EXCEPT ![p].at = "expire", ![p].ids = still]
      OBVIOUS
    <2>2. sweep \in [Sweeps -> Job \cup {Idle}]
      BY DEF TypeInv, Types
    <2> HIDE DEF still
    <2>3. sweep' = [sweep EXCEPT ![p] = [sweep[p] EXCEPT !.at = "expire", !.ids = still]]
      BY <2>1, <2>2
    <2>4. QED
      BY <2>3 DEF still
  <1>4. QED
    BY <1>1, <1>2, <1>3

LEMMA ExpireBatchGoes ==
  ASSUME TypeInv, NEW p \in Sweeps, ExpireBatch(p)
  PROVE  sweep' = [sweep EXCEPT ![p] = Turn(p, "mark", sweep[p].step, {}, {})]
  <1>1. sweep[p] \in Job /\ sweep[p].left = {}
    BY AtIsBusy, Busy DEF ExpireBatch, At, Steps
  <1>2. sweep' = [sweep EXCEPT ![p] = [sweep[p] EXCEPT !.at = "mark", !.ids = {}]]
    BY DEF ExpireBatch, TypeInv, Types
  <1>3. [sweep[p] EXCEPT !.at = "mark", !.ids = {}] = Turn(p, "mark", sweep[p].step, {}, sweep[p].left)
    BY <1>1, NewAtIds DEF Turn
  <1>4. QED
    BY <1>1, <1>2, <1>3

LEMMA StageWriteGoes ==
  ASSUME TypeInv, NEW p \in Sweeps, StageWrite(p)
  PROVE  sweep' = [sweep EXCEPT ![p] =
            Turn(p, "drive", sweep[p].step + 1, sweep[p].ids \cup {Min(Unminted)}, sweep[p].left)]
  <1> DEFINE id == Min(Unminted)
  <1>1. sweep' = [sweep EXCEPT ![p].step = @ + 1, ![p].ids = @ \cup {id}]
    BY DEF StageWrite
  <1>2. sweep[p] \in Job /\ sweep[p].at = "drive"
    BY AtIsBusy, Busy DEF StageWrite, At, Steps
  <1> HIDE DEF id
  <1>3. sweep' = [sweep EXCEPT ![p] = [sweep[p] EXCEPT !.step = sweep[p].step + 1, !.ids = sweep[p].ids \cup {id}]]
    BY <1>1 DEF TypeInv, Types
  <1>4. [sweep[p] EXCEPT !.step = sweep[p].step + 1, !.ids = sweep[p].ids \cup {id}] =
          Turn(p, sweep[p].at, sweep[p].step + 1, sweep[p].ids \cup {id}, sweep[p].left)
    BY <1>2, NewStepIds DEF Turn
  <1>5. QED
    BY <1>2, <1>3, <1>4 DEF id

LEMMA EndDriveGoes ==
  ASSUME TypeInv, NEW p \in Sweeps, EndDrive(p)
  PROVE  sweep' = [sweep EXCEPT ![p] = Turn(p, "stamp", sweep[p].step, sweep[p].ids, sweep[p].ids)]
  <1>1. sweep[p] \in Job
    BY AtIsBusy, Busy DEF EndDrive, Steps
  <1>2. sweep' = [sweep EXCEPT ![p] = [sweep[p] EXCEPT !.at = "stamp", !.left = sweep[p].ids]]
    BY DEF EndDrive, TypeInv, Types
  <1>3. QED
    BY <1>1, <1>2, NewAtLeft DEF Turn

LEMMA LoadForStampGoes ==
  ASSUME TypeInv, NEW p \in Sweeps, LoadForStamp(p), Min(sweep[p].left) \notin Pending
  PROVE  sweep' = [sweep EXCEPT ![p] =
            Turn(p, "stamp", sweep[p].step, sweep[p].ids, sweep[p].left \ {Min(sweep[p].left)})]
  <1> DEFINE rest == sweep[p].left \ {Min(sweep[p].left)}
  <1>1. sweep[p] \in Job /\ sweep[p].at = "stamp"
    BY AtIsBusy, Busy DEF LoadForStamp, At, Steps
  <1>2. sweep' = [sweep EXCEPT ![p] = [sweep[p] EXCEPT !.left = rest]]
    BY DEF LoadForStamp, TypeInv, Types
  <1>3. QED
    BY <1>1, <1>2, NewLeft DEF Turn

LEMMA StoreStampGoes ==
  ASSUME TypeInv, NEW p \in Sweeps, StoreStamp(p)
  PROVE  sweep' = [sweep EXCEPT ![p] =
            Turn(p, "stamp", sweep[p].step, sweep[p].ids, sweep[p].left \ {Min(sweep[p].left)})]
  <1> DEFINE rest == sweep[p].left \ {Min(sweep[p].left)}
  <1>1. sweep[p] \in Job
    BY AtIsBusy, Busy DEF StoreStamp, Steps
  <1>2. sweep' = [sweep EXCEPT ![p] = [sweep[p] EXCEPT !.at = "stamp", !.left = rest]]
    BY DEF StoreStamp, TypeInv, Types
  <1>3. QED
    BY <1>1, <1>2, NewAtLeft DEF Turn

LEMMA OverlapGateType ==
  ASSUME TypeInv, NEW p \in Sweeps, OverlapGate(p)
  PROVE  TypeInv'
  <1>1. sweep[p] # Idle /\ At(p, "gate")
    BY AtIsBusy DEF OverlapGate, Steps
  <1>2. StoresOK' /\ Minted' = Minted
    BY StoresStay DEF OverlapGate
  <1>3. CASE StillPending(p) = {}
    <2>1. DueGate(p)
      BY <1>3 DEF OverlapGate
    <2>2. QED
      BY <1>1, <1>2, <2>1, DueGateType
  <1>4. CASE StillPending(p) # {} /\ ~Expired(p)
    <2>1. NextSchedule(p)
      BY <1>4 DEF OverlapGate
    <2>2. QED
      BY <1>1, <1>2, <2>1, OnToNext
  <1>5. CASE StillPending(p) # {} /\ Expired(p)
    <2>1. sweep' = [sweep EXCEPT ![p].at = "expire", ![p].ids = StillPending(p)]
      BY <1>5 DEF OverlapGate
    <2>2. sweep[p] \in Job /\ sweep[p].left = {} /\ sweep[p].step \in Nat
      BY <1>1, Busy, BusyParts DEF At
    <2>3. StillPending(p) \subseteq Pending /\ Pending \subseteq Minted /\ Minted \subseteq Ids
      BY DEF StillPending, Minted, TypeInv
    <2>4. sweep' = [sweep EXCEPT ![p] = Turn(p, "expire", sweep[p].step, StillPending(p), {})]
      BY <1>1, <2>1, GateExpires
    <2> HIDE DEF Turn
    <2>5. "expire" \in Steps /\ StillPending(p) \in SUBSET Ids /\ StillPending(p) \subseteq Minted'
          /\ {} \in SUBSET StillPending(p) /\ Minted \subseteq Minted'
      BY <1>2, <2>3 DEF Steps
    <2>6. QED
      BY <1>1, <1>2, <2>2, <2>4, <2>5, TurnKeeps
  <1>6. QED
    BY <1>3, <1>4, <1>5

LEMMA ExpireBatchType ==
  ASSUME TypeInv, NEW p \in Sweeps, ExpireBatch(p)
  PROVE  TypeInv'
  <1>1. sweep[p] # Idle
    BY AtIsBusy DEF ExpireBatch, Steps
  <1>2. sweep[p] \in Job /\ sweep[p].step \in Nat
    BY <1>1, Busy, BusyParts
  <1>3. StoresOK' /\ Minted' = Minted
    <2>1. preview' \in [Ids -> Stored \cup {NoPreview}]
      BY DEF ExpireBatch, TypeInv, Types
    <2>2. \A id \in Ids : preview'[id] # NoPreview => id \in Minted
      BY DEF ExpireBatch, TypeInv, Pending
    <2>3. QED
      BY <2>1, <2>2, PreviewsType DEF ExpireBatch, history
  <1>4. sweep' = [sweep EXCEPT ![p] = Turn(p, "mark", sweep[p].step, {}, {})]
    BY ExpireBatchGoes
  <1> HIDE DEF Turn
  <1>7. "mark" \in Steps /\ {} \in SUBSET Ids /\ {} \subseteq Minted' /\ Minted \subseteq Minted'
    BY <1>3 DEF Steps
  <1>8. QED
    BY <1>1, <1>2, <1>3, <1>4, <1>7, TurnKeeps

LEMMA MarkExpiredType ==
  ASSUME TypeInv, NEW p \in Sweeps, MarkExpired(p)
  PROVE  TypeInv'
  <1>1. sweep[p] # Idle
    BY AtIsBusy DEF MarkExpired, Steps
  <1>2. [Copy(p).batch EXCEPT !.status = "expired"] \in Batches
    <2>1. Copy(p).batch \in Batches /\ 0 \in Instants
      <3>1. Copy(p) \in Registered
        BY <1>1, BusyParts
      <3>2. MaxClock \in Nat
        BY SchedulerAssumption
      <3>3. QED
        BY <3>1, <3>2 DEF Registered, Instants
    <2>2. CASE Copy(p).batch = NoBatch
      BY <2>1, <2>2 DEF Batches, NoBatch
    <2>3. CASE Copy(p).batch # NoBatch
      BY <2>1, <2>3 DEF Batches
    <2>4. QED
      BY <2>2, <2>3
  <1>3. StoresOK' /\ Minted' = Minted
    BY <1>1, <1>2, BusyParts, SetLastBatchType, SchedulesType DEF MarkExpired, TypeInv, Types, history
  <1>4. QED
    BY <1>1, <1>3, DueGateType DEF MarkExpired

LEMMA BatchType ==
  ASSUME NEW status \in {"running", "pending", "done", "failed", "expired"},
         NEW at \in Instants, NEW ids \in SUBSET Ids
  PROVE  Batch(status, at, ids) \in Batches
  BY DEF Batch, Batches

LEMMA StartRunType ==
  ASSUME TypeInv, NEW p \in Sweeps, StartRun(p)
  PROVE  TypeInv'
  <1>1. sweep[p] # Idle
    BY AtIsBusy DEF StartRun, Steps
  <1>2. Batch("running", sweep[p].now, {}) \in Batches
    BY <1>1, BusyParts, BatchType
  <1>3. StoresOK' /\ Minted' = Minted
    BY <1>1, <1>2, BusyParts, SetLastBatchType, SchedulesType DEF StartRun, TypeInv, Types, history
  <1>4. QED
    BY <1>1, <1>3, GotoKeeps DEF StartRun, Steps

LEMMA NextIdIsFree ==
  ASSUME Unminted # {}
  PROVE  Min(Unminted) \in Ids /\ minted[Min(Unminted)] = NotMinted
  BY MinIsMember DEF Unminted

LEMMA StageWriteType ==
  ASSUME TypeInv, NEW p \in Sweeps, StageWrite(p)
  PROVE  TypeInv'
  <1> DEFINE id == Min(Unminted)
             new == [of |-> Current(p), at |-> sweep[p].now]
  <1>1. sweep[p] # Idle /\ At(p, "drive")
    BY AtIsBusy DEF StageWrite, Steps
  <1>2. sweep[p] \in Job /\ sweep[p].left \subseteq sweep[p].ids /\ sweep[p].ids \subseteq Minted
    BY <1>1, Busy
  <1>3. id \in Ids /\ minted[id] = NotMinted
    BY NextIdIsFree DEF StageWrite
  <1>4. /\ preview' = [preview EXCEPT ![id] = [stamped |-> FALSE, stored |-> clock]]
        /\ minted' = [minted EXCEPT ![id] = new]
        /\ sweep' = [sweep EXCEPT ![p].step = @ + 1, ![p].ids = @ \cup {id}]
        /\ UNCHANGED <<clock, schedule, answered, runs, mishap>>
    BY DEF StageWrite
  <1>5. new \in [of : Schedules, at : Instants] /\ new # NotMinted
    <2>1. Current(p) \in Schedules /\ sweep[p].now \in Instants
      BY <1>1, BusyParts
    <2>2. 0 \notin Schedules
      BY SchedulerAssumption, FS_CardinalityType
    <2>3. QED
      BY <2>1, <2>2 DEF NotMinted
  <1> HIDE DEF id, new
  <1>6. minted' \in [Ids -> [of : Schedules, at : Instants] \cup {NotMinted}]
        /\ Minted' = Minted \cup {id}
    BY <1>3, <1>4, <1>5 DEF TypeInv, Types, Minted
  <1>7. [stamped |-> FALSE, stored |-> clock] \in Stored
    BY DEF TypeInv, Types, Stored
  <1>8. preview' \in [Ids -> Stored \cup {NoPreview}] /\ Pending' \subseteq Pending \cup {id}
    BY <1>3, <1>4, <1>7 DEF TypeInv, Types, Pending
  <1>9. StoresOK' /\ Minted \subseteq Minted'
    BY <1>3, <1>4, <1>6, <1>8 DEF TypeInv, Types, StoresOK, Minted
  <1>10. sweep' = [sweep EXCEPT ![p] = Turn(p, "drive", sweep[p].step + 1, sweep[p].ids \cup {id}, sweep[p].left)]
    BY StageWriteGoes DEF id
  <1> HIDE DEF Turn
  <1>11. /\ "drive" \in Steps /\ sweep[p].ids \cup {id} \in SUBSET Ids
         /\ sweep[p].ids \cup {id} \subseteq Minted'
         /\ sweep[p].left \in SUBSET (sweep[p].ids \cup {id})
    BY <1>2, <1>3, <1>6 DEF Steps, Minted
  <1>12. sweep[p].step + 1 \in Nat
    <2>1. sweep[p].step \in Nat
      BY <1>1, BusyParts
    <2>2. QED
      BY <2>1
  <1> DEFINE ids == sweep[p].ids \cup {id}
             left == sweep[p].left
             count == sweep[p].step + 1
  <1>13. /\ ids \in SUBSET Ids /\ ids \subseteq Minted' /\ left \in SUBSET ids /\ count \in Nat
         /\ sweep' = [sweep EXCEPT ![p] = Turn(p, "drive", count, ids, left)]
    BY <1>10, <1>11, <1>12
  <1> HIDE DEF ids, left, count
  <1>14. QED
    BY <1>1, <1>9, <1>11, <1>13, TurnKeeps

LEMMA EndDriveType ==
  ASSUME TypeInv, NEW p \in Sweeps, EndDrive(p)
  PROVE  TypeInv'
  <1>1. sweep[p] # Idle
    BY AtIsBusy DEF EndDrive, Steps
  <1>2. sweep[p] \in Job /\ sweep[p].step \in Nat /\ sweep[p].ids \subseteq Minted
    BY <1>1, Busy, BusyParts
  <1>3. StoresOK' /\ Minted' = Minted
    BY SchedulesType DEF EndDrive, Mishap, TypeInv, Types
  <1>4. sweep' = [sweep EXCEPT ![p] = Turn(p, "stamp", sweep[p].step, sweep[p].ids, sweep[p].ids)]
    BY EndDriveGoes
  <1> HIDE DEF Turn
  <1> DEFINE ids == sweep[p].ids
  <1>5. /\ "stamp" \in Steps /\ ids \in SUBSET Ids /\ ids \subseteq Minted' /\ ids \in SUBSET ids
        /\ Minted \subseteq Minted'
        /\ sweep' = [sweep EXCEPT ![p] = Turn(p, "stamp", sweep[p].step, ids, ids)]
    BY <1>2, <1>3, <1>4 DEF Steps, Minted
  <1> HIDE DEF ids
  <1>6. QED
    BY <1>1, <1>2, <1>3, <1>5, TurnKeeps

LEMMA RunRaisesType ==
  ASSUME TypeInv, NEW p \in Sweeps, RunRaises(p)
  PROVE  TypeInv'
  <1>1. sweep[p] # Idle
    BY AtIsBusy DEF RunRaises, Steps
  <1>2. Batch("failed", sweep[p].now, {}) \in Batches
    BY <1>1, BusyParts, BatchType
  <1>3. StoresOK' /\ Minted' = Minted
    BY <1>1, <1>2, BusyParts, SetLastBatchType, SchedulesType DEF RunRaises, Mishap, TypeInv, Types
  <1>4. QED
    BY <1>1, <1>3, OnToNext DEF RunRaises

LEMMA LoadForStampType ==
  ASSUME TypeInv, NEW p \in Sweeps, LoadForStamp(p)
  PROVE  TypeInv'
  <1>1. sweep[p] # Idle
    BY AtIsBusy DEF LoadForStamp, Steps
  <1>2. sweep[p] \in Job /\ sweep[p].step \in Nat /\ sweep[p].ids \subseteq Minted
        /\ sweep[p].left \subseteq sweep[p].ids /\ sweep[p].left # {} /\ sweep[p].at = "stamp"
    BY <1>1, Busy, BusyParts DEF LoadForStamp, At
  <1>3. StoresOK' /\ Minted' = Minted
    BY StoresStay DEF LoadForStamp
  <1>4. CASE Goto(p, "store")
    BY <1>1, <1>2, <1>3, <1>4, GotoKeeps DEF Steps
  <1>5. CASE Min(sweep[p].left) \notin Pending
    <2> DEFINE rest == sweep[p].left \ {Min(sweep[p].left)}
    <2>2. sweep' = [sweep EXCEPT ![p] = Turn(p, "stamp", sweep[p].step, sweep[p].ids, rest)]
      BY <1>5, LoadForStampGoes
    <2> HIDE DEF Turn
    <2>3. "stamp" \in Steps /\ sweep[p].ids \in SUBSET Ids /\ sweep[p].ids \subseteq Minted'
          /\ rest \in SUBSET sweep[p].ids /\ Minted \subseteq Minted'
      BY <1>2, <1>3 DEF Steps, Minted
    <2> HIDE DEF rest
    <2>4. QED
      BY <1>1, <1>2, <1>3, <2>2, <2>3, TurnKeeps
  <1>6. QED
    BY <1>4, <1>5 DEF LoadForStamp

LEMMA StoreStampType ==
  ASSUME TypeInv, NEW p \in Sweeps, StoreStamp(p)
  PROVE  TypeInv'
  <1> DEFINE id == Min(sweep[p].left)
             rest == sweep[p].left \ {id}
  <1>1. sweep[p] # Idle
    BY AtIsBusy DEF StoreStamp, Steps
  <1>2. sweep[p] \in Job /\ sweep[p].step \in Nat /\ sweep[p].ids \subseteq Minted
        /\ sweep[p].left \subseteq sweep[p].ids /\ sweep[p].left # {}
    BY <1>1, Busy, BusyParts DEF StoreStamp
  <1>3. id \in sweep[p].ids /\ id \in Minted
    BY <1>2, MinIsMember DEF Minted
  <1>4. preview' = [preview EXCEPT ![id] = [stamped |-> TRUE, stored |-> clock]]
        /\ sweep' = [sweep EXCEPT ![p].at = "stamp", ![p].left = @ \ {Min(@)}]
        /\ UNCHANGED <<clock, schedule, minted, answered, runs, mishap>>
    BY DEF StoreStamp, history
  <1>5. StoresOK' /\ Minted' = Minted
    <2>1. [stamped |-> TRUE, stored |-> clock] \in Stored
      BY DEF TypeInv, Types, Stored
    <2>2. preview' \in [Ids -> Stored \cup {NoPreview}]
      BY <1>4, <2>1 DEF TypeInv, Types
    <2>3. \A i \in Ids : preview'[i] # NoPreview => i \in Minted
      BY <1>3, <1>4 DEF TypeInv, Types, Pending
    <2>4. QED
      BY <1>4, <2>2, <2>3, PreviewsType
  <1>6. sweep' = [sweep EXCEPT ![p] = Turn(p, "stamp", sweep[p].step, sweep[p].ids, rest)]
    BY StoreStampGoes
  <1> HIDE DEF Turn
  <1>7. "stamp" \in Steps /\ sweep[p].ids \in SUBSET Ids /\ sweep[p].ids \subseteq Minted'
        /\ rest \in SUBSET sweep[p].ids /\ Minted \subseteq Minted'
    BY <1>2, <1>5 DEF Steps, Minted
  <1> HIDE DEF rest
  <1>8. QED
    BY <1>1, <1>2, <1>5, <1>6, <1>7, TurnKeeps

LEMMA RecordBatchType ==
  ASSUME TypeInv, NEW p \in Sweeps, RecordBatch(p)
  PROVE  TypeInv'
  <1> DEFINE batch == Batch(IF sweep[p].ids = {} THEN "done" ELSE "pending", sweep[p].now, sweep[p].ids)
  <1>1. sweep[p] # Idle
    BY AtIsBusy DEF RecordBatch, Steps
  <1>2. batch \in Batches
    BY <1>1, BusyParts, BatchType
  <1>3. runs' \in [Schedules -> Seq(Instants)]
    <2>1. Current(p) \in Schedules /\ sweep[p].now \in Instants
      BY <1>1, BusyParts
    <2>2. runs \in [Schedules -> Seq(Instants)]
      BY DEF TypeInv, Types
    <2>3. Append(runs[Current(p)], sweep[p].now) \in Seq(Instants)
      BY <2>1, <2>2
    <2>4. runs' = [runs EXCEPT ![Current(p)] = Append(runs[Current(p)], sweep[p].now)]
      BY DEF RecordBatch
    <2>5. QED
      BY <2>1, <2>2, <2>3, <2>4
  <1>4. StoresOK' /\ Minted' = Minted
    BY <1>1, <1>2, <1>3, BusyParts, SetLastBatchType, SchedulesType DEF RecordBatch, TypeInv, Types
  <1>5. QED
    BY <1>1, <1>4, GotoKeeps DEF RecordBatch, Steps

LEMMA AdvanceClockType ==
  ASSUME TypeInv, NEW p \in Sweeps, AdvanceClock(p)
  PROVE  TypeInv'
  <1>1. sweep[p] # Idle
    BY AtIsBusy DEF AdvanceClock, Steps
  <1>2. StoresOK' /\ Minted' = Minted
    <2>1. Current(p) \in Schedules /\ sweep[p].now \in Instants /\ Types
      BY <1>1, BusyParts DEF TypeInv
    <2>2. schedule' \in [Schedules -> Registered \cup {NotAdded, Removed}]
      BY <2>1, SetLastRunType DEF AdvanceClock
    <2>3. QED
      BY <2>1, <2>2, SchedulesType DEF AdvanceClock, Types, history
  <1>3. QED
    BY <1>1, <1>2, OnToNext DEF AdvanceClock

LEMMA CrashType ==
  ASSUME TypeInv, NEW p \in Sweeps, Crash(p)
  PROVE  TypeInv'
  <1>1. StoresOK' /\ Minted' = Minted
    BY SchedulesType DEF Crash, Mishap, TypeInv, Types
  <1>2. sweep' = [sweep EXCEPT ![p] = Idle]
    BY DEF Crash
  <1>3. sweep'[p] = Idle
    BY <1>2 DEF TypeInv, Types
  <1>4. QED
    BY <1>1, <1>2, <1>3, OneSweepMoves DEF JobOK

LEMMA OutsideSweeps ==
  ASSUME TypeInv, StoresOK', Minted' = Minted, UNCHANGED sweep
  PROVE  TypeInv'
  BY DEF TypeInv, Types, StoresOK, At

LEMMA AddType ==
  ASSUME TypeInv, NEW s \in Schedules, Add(s)
  PROVE  TypeInv'
  <1>1. [created |-> clock, lastRun |-> clock, batch |-> NoBatch] \in Registered
    BY DEF TypeInv, Types, Registered, Batches
  <1>2. schedule' \in [Schedules -> Registered \cup {NotAdded, Removed}]
    BY <1>1 DEF Add, TypeInv, Types
  <1>3. QED
    BY <1>2, SchedulesType, OutsideSweeps DEF Add, history, TypeInv, Types

LEMMA RemoveType ==
  ASSUME TypeInv, NEW s \in Schedules, Remove(s)
  PROVE  TypeInv'
  <1>1. schedule' \in [Schedules -> Registered \cup {NotAdded, Removed}]
    BY DEF Remove, TypeInv, Types
  <1>2. QED
    BY <1>1, SchedulesType, OutsideSweeps DEF Remove, history, TypeInv, Types

LEMMA AnswerType ==
  ASSUME TypeInv, NEW id \in Ids, Answer(id)
  PROVE  TypeInv'
  <1>1. preview' \in [Ids -> Stored \cup {NoPreview}] /\ Pending' \subseteq Pending
    BY DEF Answer, TypeInv, Types, Pending
  <1>2. answered' \subseteq {i \in Ids : minted[i] # NotMinted}
    BY DEF Answer, TypeInv, Types, Minted
  <1>3. Minted' = Minted
    BY MintedStays DEF Answer
  <1>4. StoresOK'
    BY <1>1, <1>2, <1>3 DEF Answer, TypeInv, Types, StoresOK
  <1>5. QED
    BY <1>3, <1>4, OutsideSweeps DEF Answer

LEMMA ReapType ==
  ASSUME TypeInv, Reap
  PROVE  TypeInv'
  <1>1. preview' \in [Ids -> Stored \cup {NoPreview}]
    BY DEF Reap, TypeInv, Types
  <1>2. \A id \in Ids : preview'[id] # NoPreview => id \in Minted
    BY DEF Reap, TypeInv, Pending
  <1>3. QED
    BY <1>1, <1>2, PreviewsType, OutsideSweeps DEF Reap, history

LEMMA TickType ==
  ASSUME TypeInv, Tick
  PROVE  TypeInv'
  <1>1. clock' \in Instants
    <2>1. MaxClock \in Nat
      BY SchedulerAssumption
    <2>2. QED
      BY <2>1 DEF Tick, TypeInv, Types, Instants
  <1>2. Minted' = Minted /\ Pending' = Pending
    BY DEF Tick, history, Minted, Pending
  <1>3. StoresOK'
    BY <1>1, <1>2 DEF Tick, history, TypeInv, Types, StoresOK
  <1>4. QED
    BY <1>2, <1>3, OutsideSweeps DEF Tick

LEMMA TypeStep == ASSUME TypeInv, [Next]_vars PROVE TypeInv'
  <1>1. ASSUME NEW p \in Sweeps, Begin(p) \/ SweepStep(p) \/ RunRaises(p) \/ Crash(p) PROVE TypeInv'
    BY <1>1, BeginType, OverlapGateType, ExpireBatchType, MarkExpiredType, StartRunType, StageWriteType,
       EndDriveType, RunRaisesType, LoadForStampType, StoreStampType, RecordBatchType, AdvanceClockType,
       CrashType
    DEF SweepStep
  <1>2. CASE UNCHANGED vars
    BY <1>2, StoresStay, OutsideSweeps DEF vars
  <1>3. QED
    BY <1>1, <1>2, AddType, RemoveType, AnswerType, ReapType, TickType DEF Next

\* It holds of every run.
THEOREM TypeInvariant == Spec => []TypeInv
  BY TypeInit, TypeStep, PTL DEF Spec

\* The stores and the sweeps keep their types: an answered id was staged, a sweep is on
\* one of the schedules it listed and stamps ids of its own batch (run_due_schedules).
THEOREM TypeCorrect == Spec => []TypeOK
  <1>1. Types => TypeOK
    <2>1. ASSUME NEW r \in Job
          PROVE  \E all \in (SUBSET Schedules) \ {{}} : r \in JobOn(all)
      <3>1. PICK all \in (SUBSET Schedules) \ {{}} : r.listed \in [all -> Registered]
        BY DEF Job, Listings
      <3>2. r \in JobOn(all)
        BY <3>1 DEF Job, JobOn
      <3>3. QED
        BY <3>2
    <2>2. QED
      BY <2>1 DEF Types, TypeOK
  <1>2. TypeInv => Types
    BY DEF TypeInv
  <1>3. QED
    BY <1>1, <1>2, TypeInvariant, PTL


-----------------------------------------------------------------------------
(* Where the steps of a sweep lead *)

LEMMA Moves ==
  ASSUME TypeInv, NEW p \in Sweeps, NEW job, sweep' = [sweep EXCEPT ![p] = job]
  PROVE  sweep'[p] = job /\ \A q \in Sweeps \ {p} : sweep'[q] = sweep[q]
  BY DEF TypeInv, Types

LEMMA TurnGoes ==
  ASSUME TypeInv, NEW p \in Sweeps, NEW step, NEW count, NEW ids, NEW left,
         sweep' = [sweep EXCEPT ![p] = Turn(p, step, count, ids, left)]
  PROVE  /\ sweep'[p].at = step /\ sweep'[p].ids = ids /\ sweep'[p].left = left
         /\ sweep'[p].now = sweep[p].now /\ sweep'[p].listed = sweep[p].listed
         /\ \A q \in Sweeps \ {p} : sweep'[q] = sweep[q]
  <1>1. sweep'[p] = Turn(p, step, count, ids, left) /\ \A q \in Sweeps \ {p} : sweep'[q] = sweep[q]
    BY Moves
  <1>2. QED
    BY <1>1 DEF Turn

LEMMA GotoGoes ==
  ASSUME TypeInv, NEW p \in Sweeps, sweep[p] # Idle, NEW step, Goto(p, step)
  PROVE  /\ sweep'[p].at = step /\ sweep'[p].ids = sweep[p].ids /\ sweep'[p].left = sweep[p].left
         /\ sweep'[p].now = sweep[p].now /\ sweep'[p].listed = sweep[p].listed
         /\ \A q \in Sweeps \ {p} : sweep'[q] = sweep[q]
  BY GotoIs, TurnGoes

LEMMA NextScheduleGoes ==
  ASSUME TypeInv, NEW p \in Sweeps, NextSchedule(p)
  PROVE  /\ \/ sweep'[p] = Idle /\ sweep'[p].at = "idle"
            \/ /\ sweep'[p].at = "gate" /\ sweep'[p].ids = {} /\ sweep'[p].left = {}
               /\ sweep'[p].listed =
                     [s \in DOMAIN sweep[p].listed \ {Current(p)} |-> sweep[p].listed[s]]
         /\ \A q \in Sweeps \ {p} : sweep'[q] = sweep[q]
  <1> DEFINE rest == DOMAIN sweep[p].listed \ {Current(p)}
             job == [at |-> "gate", now |-> sweep[p].now, step |-> 0, ids |-> {}, left |-> {},
                     listed |-> [s \in rest |-> sweep[p].listed[s]]]
  <1>1. sweep' = [sweep EXCEPT ![p] = IF rest = {} THEN Idle ELSE job]
    BY DEF NextSchedule
  <1>2. sweep'[p] = (IF rest = {} THEN Idle ELSE job) /\ \A q \in Sweeps \ {p} : sweep'[q] = sweep[q]
    BY <1>1, Moves
  <1>3. QED
    BY <1>2 DEF Idle

-----------------------------------------------------------------------------
(* An answered preview stays answered *)

ResolvedInv ==
    /\ answered \cap Pending = {}
    /\ \A p \in Sweeps : At(p, "store") => Min(sweep[p].left) \notin answered

\* A step of a sweep that adds no preview of an answered write.
LEMMA ResolvedKept ==
  ASSUME TypeInv, ResolvedInv, NEW p \in Sweeps, \A q \in Sweeps \ {p} : sweep'[q] = sweep[q],
         sweep'[p].at # "store", UNCHANGED answered, Pending' \cap answered \subseteq Pending
  PROVE  ResolvedInv'
  BY DEF ResolvedInv, At

LEMMA NextResolved ==
  ASSUME TypeInv, ResolvedInv, NEW p \in Sweeps, NextSchedule(p), UNCHANGED <<preview, answered>>
  PROVE  ResolvedInv'
  <1>1. sweep'[p].at # "store" /\ \A q \in Sweeps \ {p} : sweep'[q] = sweep[q]
    BY NextScheduleGoes
  <1>2. Pending' = Pending
    BY DEF Pending
  <1>3. QED
    BY <1>1, <1>2, ResolvedKept

LEMMA GotoResolved ==
  ASSUME TypeInv, ResolvedInv, NEW p \in Sweeps, sweep[p] # Idle, NEW step, step # "store",
         Goto(p, step), UNCHANGED <<preview, answered>>
  PROVE  ResolvedInv'
  <1>1. sweep'[p].at # "store" /\ \A q \in Sweeps \ {p} : sweep'[q] = sweep[q]
    BY GotoGoes
  <1>2. Pending' = Pending
    BY DEF Pending
  <1>3. QED
    BY <1>1, <1>2, ResolvedKept

LEMMA DueGateResolved ==
  ASSUME TypeInv, ResolvedInv, NEW p \in Sweeps, sweep[p] # Idle, DueGate(p),
         UNCHANGED <<preview, answered>>
  PROVE  ResolvedInv'
  BY NextResolved, GotoResolved DEF DueGate

LEMMA SweepResolved ==
  ASSUME TypeInv, ResolvedInv, NEW p \in Sweeps, SweepStep(p)
  PROVE  ResolvedInv'
  <1>1. CASE OverlapGate(p)
    <2>1. sweep[p] # Idle /\ At(p, "gate") /\ UNCHANGED <<preview, answered>>
      BY <1>1, AtIsBusy DEF OverlapGate, Steps, history
    <2>2. CASE DueGate(p) \/ NextSchedule(p)
      BY <2>1, <2>2, DueGateResolved, NextResolved
    <2>3. CASE sweep' = [sweep EXCEPT ![p].at = "expire", ![p].ids = StillPending(p)]
      <3>1. sweep' = [sweep EXCEPT ![p] = Turn(p, "expire", sweep[p].step, StillPending(p), {})]
        BY <2>1, <2>3, GateExpires
      <3>2. sweep'[p].at = "expire" /\ \A q \in Sweeps \ {p} : sweep'[q] = sweep[q]
        BY <3>1, TurnGoes
      <3>3. Pending' = Pending
        BY <2>1 DEF Pending
      <3>4. QED
        BY <2>1, <3>2, <3>3, ResolvedKept
    <2>4. QED
      BY <1>1, <2>2, <2>3 DEF OverlapGate
  <1>2. CASE ExpireBatch(p)
    <2>1. sweep'[p].at = "mark" /\ \A q \in Sweeps \ {p} : sweep'[q] = sweep[q]
      BY <1>2, ExpireBatchGoes, TurnGoes
    <2>2. Pending' \subseteq Pending /\ UNCHANGED answered
      BY <1>2 DEF ExpireBatch, Pending, history
    <2>3. QED
      BY <2>1, <2>2, ResolvedKept
  <1>3. CASE MarkExpired(p)
    BY <1>3, AtIsBusy, DueGateResolved DEF MarkExpired, Steps, history
  <1>4. CASE StartRun(p)
    BY <1>4, AtIsBusy, GotoResolved DEF StartRun, Steps, history
  <1>5. CASE StageWrite(p)
    <2> DEFINE id == Min(Unminted)
    <2>1. sweep'[p].at = "drive" /\ \A q \in Sweeps \ {p} : sweep'[q] = sweep[q]
      <3> DEFINE ids == sweep[p].ids \cup {id}
                 count == sweep[p].step + 1
      <3>1. sweep' = [sweep EXCEPT ![p] = Turn(p, "drive", count, ids, sweep[p].left)]
        BY <1>5, StageWriteGoes
      <3> HIDE DEF ids, count
      <3>2. QED
        BY <3>1, TurnGoes
    <2>2. id \in Ids /\ id \notin answered
      BY <1>5, NextIdIsFree DEF StageWrite, TypeInv, Types
    <2>3. Pending' \subseteq Pending \cup {id} /\ UNCHANGED answered
      <3>1. preview' = [preview EXCEPT ![id] = [stamped |-> FALSE, stored |-> clock]] /\ UNCHANGED answered
        BY <1>5 DEF StageWrite
      <3> HIDE DEF id
      <3>2. QED
        BY <2>2, <3>1 DEF Pending, TypeInv, Types
    <2>4. QED
      BY <2>1, <2>2, <2>3, ResolvedKept
  <1>6. CASE EndDrive(p)
    <2>1. sweep'[p].at = "stamp" /\ \A q \in Sweeps \ {p} : sweep'[q] = sweep[q]
      BY <1>6, EndDriveGoes, TurnGoes
    <2>2. Pending' = Pending /\ UNCHANGED answered
      BY <1>6 DEF EndDrive, Pending
    <2>3. QED
      BY <2>1, <2>2, ResolvedKept
  <1>7. CASE LoadForStamp(p)
    <2>1. sweep[p] # Idle /\ Pending' = Pending /\ UNCHANGED <<preview, answered>>
      BY <1>7, AtIsBusy DEF LoadForStamp, Steps, Pending, history
    <2>2. CASE Min(sweep[p].left) \in Pending
      <3>1. Goto(p, "store")
        BY <1>7, <2>2 DEF LoadForStamp
      <3>2. sweep'[p].left = sweep[p].left /\ \A q \in Sweeps \ {p} : sweep'[q] = sweep[q]
        BY <2>1, <3>1, GotoGoes
      <3>3. QED
        BY <2>1, <2>2, <3>2 DEF ResolvedInv, At
    <2>3. CASE Min(sweep[p].left) \notin Pending
      <3>1. sweep'[p].at = "stamp" /\ \A q \in Sweeps \ {p} : sweep'[q] = sweep[q]
        <4> DEFINE rest == sweep[p].left \ {Min(sweep[p].left)}
        <4>1. sweep' = [sweep EXCEPT ![p] = Turn(p, "stamp", sweep[p].step, sweep[p].ids, rest)]
          BY <1>7, <2>3, LoadForStampGoes
        <4> HIDE DEF rest
        <4>2. QED
          BY <4>1, TurnGoes
      <3>2. QED
        BY <2>1, <3>1, ResolvedKept
    <2>4. QED
      BY <2>2, <2>3
  <1>8. CASE StoreStamp(p)
    <2> DEFINE id == Min(sweep[p].left)
    <2>1. sweep'[p].at = "stamp" /\ \A q \in Sweeps \ {p} : sweep'[q] = sweep[q]
      <3> DEFINE rest == sweep[p].left \ {Min(sweep[p].left)}
      <3>1. sweep' = [sweep EXCEPT ![p] = Turn(p, "stamp", sweep[p].step, sweep[p].ids, rest)]
        BY <1>8, StoreStampGoes
      <3> HIDE DEF rest
      <3>2. QED
        BY <3>1, TurnGoes
    <2>2. id \notin answered
      BY <1>8 DEF StoreStamp, ResolvedInv
    <2>3. Pending' \subseteq Pending \cup {id} /\ UNCHANGED answered
      <3>1. preview' = [preview EXCEPT ![id] = [stamped |-> TRUE, stored |-> clock]] /\ UNCHANGED answered
        BY <1>8 DEF StoreStamp, history
      <3> HIDE DEF id
      <3>2. QED
        BY <3>1 DEF Pending, TypeInv, Types
    <2>4. QED
      BY <2>1, <2>2, <2>3, ResolvedKept
  <1>9. CASE RecordBatch(p)
    BY <1>9, AtIsBusy, GotoResolved DEF RecordBatch, Steps
  <1>10. CASE AdvanceClock(p)
    BY <1>10, NextResolved DEF AdvanceClock, history
  <1>11. QED
    BY <1>1, <1>2, <1>3, <1>4, <1>5, <1>6, <1>7, <1>8, <1>9, <1>10 DEF SweepStep

LEMMA ResolvedStep ==
  ASSUME TypeInv, ResolvedInv, "stamp_race" \notin Faults, [Next]_vars
  PROVE  ResolvedInv'
  <1>1. ASSUME NEW p \in Sweeps, Begin(p) PROVE ResolvedInv'
    <2>1. sweep'[p].at = "gate" /\ \A q \in Sweeps \ {p} : sweep'[q] = sweep[q]
      <3> DEFINE all == {s \in Schedules : Exists(s)}
                 job == [at |-> "gate", now |-> clock, step |-> 0, ids |-> {}, left |-> {},
                         listed |-> [s \in all |-> schedule[s]]]
      <3>1. sweep' = [sweep EXCEPT ![p] = job]
        BY <1>1 DEF Begin
      <3>2. job.at = "gate"
        OBVIOUS
      <3> HIDE DEF job
      <3>3. QED
        BY <3>1, <3>2, Moves
    <2>2. Pending' = Pending /\ UNCHANGED answered
      BY <1>1 DEF Begin, Pending, history
    <2>3. QED
      BY <2>1, <2>2, ResolvedKept
  <1>2. ASSUME NEW p \in Sweeps, RunRaises(p) PROVE ResolvedInv'
    BY <1>2, NextResolved DEF RunRaises
  <1>3. ASSUME NEW p \in Sweeps, Crash(p) PROVE ResolvedInv'
    <2>1. sweep'[p] = Idle /\ \A q \in Sweeps \ {p} : sweep'[q] = sweep[q]
      BY <1>3, Moves DEF Crash
    <2>2. Pending' = Pending /\ UNCHANGED answered
      BY <1>3 DEF Crash, Pending
    <2>3. QED
      BY <2>1, <2>2, ResolvedKept DEF Idle
  <1>4. CASE UNCHANGED <<preview, sweep, answered>>
    BY <1>4 DEF ResolvedInv, At, Pending
  <1>5. ASSUME NEW id \in Ids, Answer(id) PROVE ResolvedInv'
    <2>1. Pending' = Pending \ {id} /\ answered' = answered \cup {id} /\ sweep' = sweep
      BY <1>5 DEF Answer, Pending, TypeInv, Types
    <2>2. \A p \in Sweeps : At(p, "store") => id # Min(sweep[p].left)
      BY <1>5 DEF Answer
    <2>3. QED
      BY <2>1, <2>2 DEF ResolvedInv, At
  <1>6. CASE Reap
    <2>1. Pending' \subseteq Pending /\ UNCHANGED <<sweep, answered>>
      BY <1>6 DEF Reap, Pending, history
    <2>2. QED
      BY <2>1 DEF ResolvedInv, At
  <1>7. QED
    BY <1>1, <1>2, <1>3, <1>4, <1>5, <1>6, SweepResolved
       DEF Next, Add, Remove, Tick, vars, history

\* As long as no answer lands between the load and the store of a stamp, a
\* preview the operator approved or rejected does not come back, with any
\* number of sweeps beside each other, crashes and failing runs.
THEOREM ResolvedStays ==
  ASSUME "stamp_race" \notin Faults
  PROVE  Spec => []ResolvedStaysResolved
  <1>1. Init => ResolvedInv
    BY DEF Init, ResolvedInv, Pending, At, Idle
  <1>2. TypeInv /\ ResolvedInv /\ [Next]_vars => ResolvedInv'
    BY ResolvedStep
  <1>3. ResolvedInv => ResolvedStaysResolved
    BY DEF ResolvedInv, ResolvedStaysResolved
  <1>4. QED
    BY <1>1, <1>2, <1>3, TypeInvariant, PTL DEF Spec

-----------------------------------------------------------------------------
(* Stamped previews and the batches that name them, for one sweep at a time *)

OneSweep == \A p, q \in Sweeps : p = q

Stamped(s) == {id \in Mine(s) \cap Pending : preview[id].stamped}

Driving(p) == sweep[p].at \in {"drive", "stamp", "store"}
Before(p)  == sweep[p].at \in {"gate", "expire", "mark", "start"}

\* No batch names an id to come, and one that is not to be reviewed any more
\* has nothing left to review.
BatchOK(batch) ==
    /\ batch.ids \cap Unminted = {}
    /\ batch.status \notin {"running", "pending"} => batch.ids \cap Pending = {}

ScheduleOK(s) ==
    /\ schedule[s] = NotAdded => Mine(s) = {}
    /\ Exists(s) => BatchOK(schedule[s].batch)
    /\ \A a, b \in Stamped(s) : minted[a].at = minted[b].at

\* The batch of a schedule no run is at names all that is stamped of it.
OwnedOK(s) ==
    Exists(s) /\ (\A p \in Sweeps : Driving(p) => Current(p) # s)
        => Stamped(s) \subseteq schedule[s].batch.ids

\* The copies a sweep holds know of everything stamped before it began.
CopiesOK(p) ==
    \A s \in DOMAIN sweep[p].listed :
        /\ schedule[s] # NotAdded
        /\ BatchOK(sweep[p].listed[s].batch)
        /\ s # Current(p) \/ Before(p) => Stamped(s) \subseteq sweep[p].listed[s].batch.ids

\* The run a sweep is at: what it staged is of this run, is in no batch yet, and
\* is all that is stamped of its schedule.
RunOK(p) ==
    /\ \A id \in sweep[p].ids : minted[id] = [of |-> Current(p), at |-> sweep[p].now]
    /\ Stamped(Current(p)) \subseteq sweep[p].ids
    /\ \A s \in Schedules : Exists(s) => schedule[s].batch.ids \cap sweep[p].ids = {}
    /\ \A s \in DOMAIN sweep[p].listed : sweep[p].listed[s].batch.ids \cap sweep[p].ids = {}

SweepOK(p) ==
    /\ CopiesOK(p)
    /\ At(p, "gate") \/ At(p, "mark") \/ At(p, "start") => sweep[p].ids = {}
    /\ At(p, "expire") => Copy(p).batch.ids \cap Pending \subseteq sweep[p].ids
    /\ At(p, "mark") => Copy(p).batch.ids \cap Pending = {}
    /\ At(p, "start") \/ At(p, "drive") => Stamped(Current(p)) = {}
    /\ Driving(p) => RunOK(p)

BatchesInv ==
    /\ \A s \in Schedules : ScheduleOK(s) /\ OwnedOK(s)
    /\ \A p \in Sweeps : sweep[p] # Idle => SweepOK(p)

\* A crash is what breaks it.
SchedulesInv == mishap # "crash" => BatchesInv

\* Previews go, or stay as they are: all that most steps do to them.
Shrinks ==
    /\ UNCHANGED minted
    /\ \A id \in Ids : preview'[id] # NoPreview => preview'[id] = preview[id]

LEMMA Shrunk ==
  ASSUME Shrinks
  PROVE  /\ Pending' \subseteq Pending
         /\ \A s : Stamped(s)' \subseteq Stamped(s)
         /\ \A batch : BatchOK(batch) => BatchOK(batch)'
  <1>1. Pending' \subseteq Pending
    BY DEF Shrinks, Pending
  <1>2. Unminted' = Unminted /\ \A s : Mine(s)' = Mine(s)
    BY DEF Shrinks, Unminted, Mine
  <1>3. ASSUME NEW s PROVE Stamped(s)' \subseteq Stamped(s)
    BY <1>1, <1>2 DEF Shrinks, Stamped, Pending
  <1>4. QED
    BY <1>1, <1>2, <1>3 DEF BatchOK

LEMMA PreviewsStay == ASSUME UNCHANGED <<preview, minted>> PROVE Shrinks
  BY DEF Shrinks

\* What a step leaves of a schedule: the schedule, or its batch, or nothing.
Keeps(s) ==
    /\ schedule'[s] = NotAdded => schedule[s] = NotAdded
    /\ Exists(s)' => Exists(s) /\ schedule'[s].batch = schedule[s].batch

LEMMA ScheduleKept ==
  ASSUME Shrinks, NEW s \in Schedules, ScheduleOK(s), NEW batch,
         schedule'[s] = NotAdded => schedule[s] = NotAdded,
         Exists(s)' => schedule'[s].batch = batch /\ BatchOK(batch)'
  PROVE  ScheduleOK(s)'
  <1>1. Mine(s)' = Mine(s) /\ Stamped(s)' \subseteq Stamped(s) /\ UNCHANGED minted
    BY Shrunk DEF Shrinks, Mine
  <1>2. Exists(s)' => BatchOK(schedule[s].batch)'
    BY DEF BatchOK
  <1>3. QED
    BY <1>1, <1>2 DEF ScheduleOK

LEMMA ScheduleStands ==
  ASSUME Shrinks, NEW s \in Schedules, ScheduleOK(s), Keeps(s)
  PROVE  ScheduleOK(s)'
  <1>1. PICK batch : batch = schedule[s].batch
    OBVIOUS
  <1>2. Exists(s)' => schedule'[s].batch = batch /\ BatchOK(batch)
    BY <1>1 DEF Keeps, ScheduleOK
  <1>3. BatchOK(batch) => BatchOK(batch)'
    BY Shrunk
  <1>4. QED
    BY <1>2, <1>3, ScheduleKept DEF Keeps

\* The sweep's copies after a step that goes on with the same listing.
LEMMA CopiesKept ==
  ASSUME Shrinks, NEW p \in Sweeps, CopiesOK(p), sweep'[p].listed = sweep[p].listed,
         \A s \in DOMAIN sweep[p].listed : schedule'[s] # NotAdded,
         Before(p)' => Before(p)
  PROVE  CopiesOK(p)'
  <1>1. Current(p)' = Current(p)
    BY DEF Current
  <1>2. ASSUME NEW s \in DOMAIN sweep[p].listed
        PROVE  /\ BatchOK(sweep[p].listed[s].batch)'
               /\ s # Current(p) \/ Before(p) => Stamped(s)' \subseteq sweep[p].listed[s].batch.ids
    <2>1. BatchOK(sweep[p].listed[s].batch)
      BY DEF CopiesOK
    <2>2. Pending' \subseteq Pending /\ Unminted' = Unminted
      BY Shrunk DEF Shrinks, Unminted
    <2>3. QED
      BY <2>1, <2>2, Shrunk DEF CopiesOK, BatchOK
  <1>3. QED
    BY <1>1, <1>2 DEF CopiesOK

LEMMA RunKept ==
  ASSUME Shrinks, NEW p \in Sweeps, RunOK(p), sweep'[p].listed = sweep[p].listed,
         sweep'[p].ids = sweep[p].ids, sweep'[p].now = sweep[p].now,
         \A s \in Schedules : Exists(s)' => schedule'[s].batch.ids \cap sweep[p].ids = {}
  PROVE  RunOK(p)'
  <1>1. Current(p)' = Current(p)
    BY DEF Current
  <1>2. Stamped(Current(p))' \subseteq sweep[p].ids
    BY <1>1, Shrunk DEF RunOK, Stamped, Mine, Shrinks, Pending
  <1>3. QED
    BY <1>1, <1>2 DEF RunOK, Shrinks

LEMMA Listing ==
  ASSUME TypeInv, NEW p \in Sweeps, sweep[p] # Idle
  PROVE  Current(p) \in DOMAIN sweep[p].listed /\ DOMAIN sweep[p].listed \subseteq Schedules
  BY Busy, ScheduleIsListed

\* A schedule that is new.
Added(s) == schedule[s] = NotAdded /\ Exists(s)' /\ schedule'[s].batch = NoBatch

\* A step that leaves the sweeps and the batches alone.
LEMMA OutsideKeeps ==
  ASSUME TypeInv, BatchesInv, Shrinks, \A s \in Schedules : Keeps(s) \/ Added(s), UNCHANGED sweep
  PROVE  BatchesInv'
  <1>1. ASSUME NEW s \in Schedules PROVE ScheduleOK(s)'
    <2>1. CASE Keeps(s)
      BY <2>1, ScheduleStands DEF BatchesInv
    <2>2. CASE Added(s)
      <3>1. PICK batch : batch = NoBatch
        OBVIOUS
      <3>2. schedule'[s] # NotAdded /\ schedule'[s].batch = batch
        BY <2>2, <3>1 DEF Added, Exists
      <3>3. BatchOK(batch)'
        BY <3>1 DEF BatchOK, NoBatch
      <3>4. ScheduleOK(s)
        BY DEF BatchesInv
      <3>5. QED
        BY <3>2, <3>3, <3>4, ScheduleKept
    <2>3. QED
      BY <2>1, <2>2
  <1>2. ASSUME NEW s \in Schedules PROVE OwnedOK(s)'
    <2>1. OwnedOK(s) /\ ScheduleOK(s) /\ Stamped(s)' \subseteq Stamped(s)
      BY Shrunk DEF BatchesInv
    <2>2. CASE Keeps(s)
      BY <2>1, <2>2 DEF OwnedOK, Keeps, Driving, Current
    <2>3. CASE Added(s)
      BY <2>1, <2>3 DEF OwnedOK, Added, ScheduleOK, Stamped
    <2>4. QED
      BY <2>2, <2>3
  <1>3. ASSUME NEW p \in Sweeps, sweep[p] # Idle PROVE SweepOK(p)'
    <2>1. SweepOK(p) /\ Pending' \subseteq Pending
      BY <1>3, Shrunk DEF BatchesInv
    <2>2. CopiesOK(p)'
      <3>1. DOMAIN sweep[p].listed \subseteq Schedules
        BY <1>3, Listing
      <3>2. ASSUME NEW s \in DOMAIN sweep[p].listed PROVE schedule'[s] # NotAdded
        BY <2>1, <3>1 DEF SweepOK, CopiesOK, Keeps, Added
      <3>3. QED
        BY <2>1, <3>2, CopiesKept DEF SweepOK, Before
    <2>3. Driving(p) => RunOK(p)'
      <3>1. ASSUME Driving(p), NEW s \in Schedules, Exists(s)'
            PROVE  schedule'[s].batch.ids \cap sweep[p].ids = {}
        BY <2>1, <3>1 DEF SweepOK, RunOK, Keeps, Added, NoBatch
      <3>2. QED
        BY <2>1, <3>1, RunKept DEF SweepOK
    <2>4. Stamped(Current(p))' \subseteq Stamped(Current(p))
      BY Shrunk DEF Stamped, Mine, Shrinks, Pending, Current
    <2>5. QED
      BY <2>1, <2>2, <2>3, <2>4 DEF SweepOK, At, Driving, Copy, Current
  <1>4. QED
    BY <1>1, <1>2, <1>3 DEF BatchesInv

\* A step of the sweep on a schedule whose batch it may replace.
LEMMA SweepKeeps ==
  ASSUME OneSweep, BatchesInv, NEW p \in Sweeps, \A s \in Schedules : ScheduleOK(s)' /\ OwnedOK(s)',
         sweep'[p] # Idle => SweepOK(p)'
  PROVE  BatchesInv'
  BY DEF BatchesInv, OneSweep

\* On to the next schedule, or to the end of the sweep.
LEMMA NextSweepOK ==
  ASSUME TypeInv, NEW p \in Sweeps, CopiesOK(p), Shrinks, NextSchedule(p),
         \A s \in DOMAIN sweep[p].listed : schedule'[s] # NotAdded
  PROVE  /\ sweep'[p] # Idle => SweepOK(p)'
         /\ ~Driving(p)'
  <1> DEFINE rest == DOMAIN sweep[p].listed \ {Current(p)}
  <1>1. CASE sweep'[p] = Idle
    BY <1>1 DEF Driving, Idle
  <1>2. CASE /\ sweep'[p].at = "gate"
             /\ sweep'[p].listed = [s \in rest |-> sweep[p].listed[s]]
             /\ sweep'[p].ids = {}
    <2>1. ASSUME NEW s \in rest
          PROVE  /\ schedule'[s] # NotAdded
                 /\ BatchOK(sweep[p].listed[s].batch)
                 /\ Stamped(s)' \subseteq sweep[p].listed[s].batch.ids
      BY Shrunk DEF CopiesOK
    <2>2. Pending' \subseteq Pending /\ Unminted' = Unminted
      BY Shrunk DEF Shrinks, Unminted
    <2>3. CopiesOK(p)'
      BY <1>2, <2>1, <2>2 DEF CopiesOK, BatchOK
    <2>4. QED
      BY <1>2, <2>3 DEF SweepOK, At, Driving
  <1>3. QED
    BY <1>1, <1>2, NextScheduleGoes

\* On to the run of a schedule nothing is stamped of.
LEMMA StartSweepOK ==
  ASSUME TypeInv, NEW p \in Sweeps, sweep[p] # Idle, CopiesOK(p), Before(p), Shrinks, Goto(p, "start"),
         sweep[p].ids = {}, Copy(p).batch.ids \cap Pending = {},
         \A s \in DOMAIN sweep[p].listed : schedule'[s] # NotAdded
  PROVE  SweepOK(p)' /\ ~Driving(p)'
  <1>1. sweep'[p].at = "start" /\ sweep'[p].listed = sweep[p].listed /\ sweep'[p].ids = {}
    BY GotoGoes
  <1>2. CopiesOK(p)'
    BY <1>1, CopiesKept
  <1>3. Stamped(Current(p)) = {}
    BY Listing DEF CopiesOK, Copy, Stamped
  <1>4. Stamped(Current(p))' = {}
    <2>1. Current(p)' = Current(p) /\ \A s : Stamped(s)' \subseteq Stamped(s)
      BY <1>1, Shrunk DEF Current
    <2>2. Stamped(Current(p))' \subseteq Stamped(Current(p))
      BY <2>1 DEF Stamped, Mine, Shrinks, Pending
    <2>3. QED
      BY <1>3, <2>2
  <1>5. QED
    BY <1>1, <1>2, <1>4 DEF SweepOK, At, Driving

LEMMA DueGateSweepOK ==
  ASSUME TypeInv, NEW p \in Sweeps, sweep[p] # Idle, CopiesOK(p), Before(p), Shrinks, DueGate(p),
         sweep[p].ids = {}, Copy(p).batch.ids \cap Pending = {},
         \A s \in DOMAIN sweep[p].listed : schedule'[s] # NotAdded
  PROVE  /\ sweep'[p] # Idle => SweepOK(p)'
         /\ ~Driving(p)'
  BY NextSweepOK, StartSweepOK DEF DueGate

\* Of a schedule the sweep is not running nothing changes hands.
LEMMA OwnedStands ==
  ASSUME OneSweep, BatchesInv, NEW p \in Sweeps, NEW s \in Schedules,
         Driving(p) => Current(p) # s, Shrinks, Keeps(s)
  PROVE  OwnedOK(s)'
  <1>1. Stamped(s)' \subseteq Stamped(s)
    BY Shrunk
  <1>2. Exists(s) => Stamped(s) \subseteq schedule[s].batch.ids
    BY DEF BatchesInv, OwnedOK, OneSweep
  <1>3. QED
    BY <1>1, <1>2 DEF OwnedOK, Keeps

LEMMA OverlapGateKeeps ==
  ASSUME TypeInv, OneSweep, BatchesInv, NEW p \in Sweeps, OverlapGate(p)
  PROVE  BatchesInv'
  <1>1. sweep[p] # Idle /\ At(p, "gate") /\ Before(p) /\ ~Driving(p)
    BY AtIsBusy DEF OverlapGate, Steps, At, Before, Driving
  <1>2. UNCHANGED <<schedule, preview, minted>> /\ Shrinks
    BY PreviewsStay DEF OverlapGate, history
  <1>3. \A s \in Schedules : Keeps(s)
    BY <1>2 DEF Keeps, Exists
  <1>4. CopiesOK(p) /\ sweep[p].ids = {}
    BY <1>1 DEF BatchesInv, SweepOK
  <1>5. \A s \in DOMAIN sweep[p].listed : schedule'[s] # NotAdded
    BY <1>2, <1>4 DEF CopiesOK
  <1>6. sweep'[p] # Idle => SweepOK(p)'
    <2>1. CASE StillPending(p) = {}
      <3>1. Copy(p).batch.ids \cap Pending = {}
        BY <1>1, <1>4, <2>1, Listing DEF StillPending, CopiesOK, BatchOK, Copy
      <3>2. DueGate(p)
        BY <2>1 DEF OverlapGate
      <3>3. QED
        BY <1>1, <1>2, <1>4, <1>5, <3>1, <3>2, DueGateSweepOK
    <2>2. CASE StillPending(p) # {} /\ ~Expired(p)
      <3>1. NextSchedule(p)
        BY <2>2 DEF OverlapGate
      <3>2. QED
        BY <1>2, <1>4, <1>5, <3>1, NextSweepOK
    <2>3. CASE StillPending(p) # {} /\ Expired(p)
      <3>1. sweep' = [sweep EXCEPT ![p].at = "expire", ![p].ids = StillPending(p)]
        BY <2>3 DEF OverlapGate
      <3>2. sweep' = [sweep EXCEPT ![p] = Turn(p, "expire", sweep[p].step, StillPending(p), {})]
        BY <1>1, <3>1, GateExpires
      <3>3. /\ sweep'[p].at = "expire" /\ sweep'[p].ids = StillPending(p)
            /\ sweep'[p].listed = sweep[p].listed
        <4> DEFINE still == StillPending(p)
        <4>1. sweep' = [sweep EXCEPT ![p] = Turn(p, "expire", sweep[p].step, still, {})]
          BY <3>2
        <4> HIDE DEF still
        <4>2. sweep'[p].at = "expire" /\ sweep'[p].ids = still /\ sweep'[p].listed = sweep[p].listed
          <5> DEFINE job == Turn(p, "expire", sweep[p].step, still, {})
          <5>1. job.at = "expire" /\ job.ids = still /\ job.listed = sweep[p].listed
            BY DEF Turn
          <5>2. sweep' = [sweep EXCEPT ![p] = job]
            BY <4>1
          <5> HIDE DEF job
          <5>3. QED
            BY <5>1, <5>2, Moves
        <4>3. QED
          BY <4>2 DEF still
      <3>4. CopiesOK(p)'
        BY <1>1, <1>2, <1>4, <1>5, <3>3, CopiesKept
      <3>5. Copy(p).batch.ids \cap Pending = StillPending(p)
        BY <2>3 DEF StillPending
      <3>6. Copy(p)' = Copy(p) /\ Pending' = Pending
        BY <1>2, <3>3 DEF Copy, Current, Pending
      <3>7. QED
        BY <3>3, <3>4, <3>5, <3>6 DEF SweepOK, At, Driving
    <2>4. QED
      BY <2>1, <2>2, <2>3
  <1>7. \A s \in Schedules : ScheduleOK(s)' /\ OwnedOK(s)'
    BY <1>1, <1>2, <1>3, ScheduleStands, OwnedStands DEF BatchesInv
  <1>8. QED
    BY <1>6, <1>7, SweepKeeps

LEMMA ExpireBatchKeeps ==
  ASSUME TypeInv, OneSweep, BatchesInv, NEW p \in Sweeps, ExpireBatch(p)
  PROVE  BatchesInv'
  <1>1. sweep[p] # Idle /\ At(p, "expire") /\ Before(p) /\ ~Driving(p)
    BY AtIsBusy DEF ExpireBatch, Steps, At, Before, Driving
  <1>2. UNCHANGED <<schedule, minted>> /\ Shrinks
    BY DEF ExpireBatch, history, Shrinks
  <1>3. \A s \in Schedules : Keeps(s)
    BY <1>2 DEF Keeps, Exists
  <1>4. SweepOK(p)
    BY <1>1 DEF BatchesInv
  <1>5. sweep'[p].at = "mark" /\ sweep'[p].listed = sweep[p].listed
    BY ExpireBatchGoes, TurnGoes
  <1>6. SweepOK(p)'
    <2>0. sweep'[p].ids = {}
      BY ExpireBatchGoes, TurnGoes
    <2>1. CopiesOK(p)'
      BY <1>1, <1>2, <1>4, <1>5, CopiesKept DEF SweepOK, CopiesOK
    <2>2. Pending' = Pending \ sweep[p].ids
      BY DEF ExpireBatch, Pending
    <2>3. Copy(p)' = Copy(p)
      BY <1>5 DEF Copy, Current
    <2>4. QED
      BY <1>1, <1>4, <1>5, <2>0, <2>1, <2>2, <2>3 DEF SweepOK, At, Driving
  <1>7. \A s \in Schedules : ScheduleOK(s)' /\ OwnedOK(s)'
    BY <1>1, <1>2, <1>3, ScheduleStands, OwnedStands DEF BatchesInv
  <1>8. QED
    BY <1>6, <1>7, SweepKeeps

\* What recording a batch changes.
LEMMA NewBatch ==
  ASSUME TypeInv, NEW s \in Schedules, NEW batch \in Batches, SetLastBatch(s, batch)
  PROVE  /\ \A t \in Schedules : schedule'[t] = NotAdded => schedule[t] = NotAdded
         /\ \A t \in Schedules : t # s => Keeps(t)
         /\ Exists(s)' => schedule'[s].batch = batch
  <1>1. /\ \A t \in Schedules : Exists(t)' <=> Exists(t)
        /\ Exists(s) => schedule'[s] = [schedule[s] EXCEPT !.batch = batch]
        /\ \A t \in Schedules : t # s \/ ~Exists(t) => schedule'[t] = schedule[t]
    BY SetLastBatchType DEF TypeInv
  <1>2. Exists(s) => schedule[s] \in Registered
    BY DEF TypeInv, Types, Exists
  <1>3. Exists(s)' => schedule'[s].batch = batch
    BY <1>1, <1>2 DEF Registered
  <1>4. ASSUME NEW t \in Schedules, schedule'[t] = NotAdded PROVE schedule[t] = NotAdded
    BY <1>1, <1>4 DEF Exists
  <1>5. ASSUME NEW t \in Schedules, t # s PROVE Keeps(t)
    BY <1>1, <1>4, <1>5 DEF Keeps
  <1>6. QED
    BY <1>3, <1>4, <1>5

\* The schedules after a sweep recorded a batch for the one it is on, when no
\* run was on another.
LEMMA SchedulesAfterBatch ==
  ASSUME TypeInv, OneSweep, BatchesInv, NEW p \in Sweeps, sweep[p] # Idle, Shrinks,
         NEW batch \in Batches, SetLastBatch(Current(p), batch), BatchOK(batch)',
         \A s \in Schedules : s = Current(p) => OwnedOK(s)'
  PROVE  \A s \in Schedules : ScheduleOK(s)' /\ OwnedOK(s)'
  <1>1. Current(p) \in Schedules
    BY BusyParts
  <1>2. PICK cur : cur = Current(p)
    OBVIOUS
  <1>3. /\ \A t \in Schedules : schedule'[t] = NotAdded => schedule[t] = NotAdded
        /\ \A t \in Schedules : t # cur => Keeps(t)
        /\ Exists(cur)' => schedule'[cur].batch = batch
    BY <1>1, <1>2, NewBatch
  <1>4. ASSUME NEW s \in Schedules PROVE ScheduleOK(s)'
    <2>1. CASE s = cur
      BY <1>3, <2>1, ScheduleKept DEF BatchesInv
    <2>2. CASE s # cur
      BY <1>3, <2>2, ScheduleStands DEF BatchesInv
    <2>3. QED
      BY <2>1, <2>2
  <1>5. ASSUME NEW s \in Schedules, s # cur PROVE OwnedOK(s)'
    BY <1>2, <1>3, <1>5, OwnedStands
  <1>6. QED
    BY <1>2, <1>4, <1>5

LEMMA ExpiredIsBatch ==
  ASSUME TypeInv, NEW p \in Sweeps, sweep[p] # Idle
  PROVE  /\ [Copy(p).batch EXCEPT !.status = "expired"] \in Batches
         /\ [Copy(p).batch EXCEPT !.status = "expired"].ids = Copy(p).batch.ids
  <1>1. Copy(p).batch \in Batches /\ 0 \in Instants
    <2>1. Copy(p) \in Registered
      BY BusyParts
    <2>2. MaxClock \in Nat
      BY SchedulerAssumption
    <2>3. QED
      BY <2>1, <2>2 DEF Registered, Instants
  <1>2. CASE Copy(p).batch = NoBatch
    BY <1>1, <1>2 DEF Batches, NoBatch
  <1>3. CASE Copy(p).batch # NoBatch
    BY <1>1, <1>3 DEF Batches
  <1>4. QED
    BY <1>2, <1>3

LEMMA MarkExpiredKeeps ==
  ASSUME TypeInv, OneSweep, BatchesInv, NEW p \in Sweeps, MarkExpired(p)
  PROVE  BatchesInv'
  <1>1. sweep[p] # Idle /\ At(p, "mark") /\ Before(p) /\ ~Driving(p)
    BY AtIsBusy DEF MarkExpired, Steps, At, Before, Driving
  <1>2. UNCHANGED <<preview, minted>> /\ Shrinks
    BY PreviewsStay DEF MarkExpired, history
  <1>3. SweepOK(p) /\ Current(p) \in DOMAIN sweep[p].listed /\ DOMAIN sweep[p].listed \subseteq Schedules
    BY <1>1, Listing DEF BatchesInv
  <1>4. PICK batch : batch = [Copy(p).batch EXCEPT !.status = "expired"]
    OBVIOUS
  <1>5. /\ batch \in Batches /\ batch.ids = Copy(p).batch.ids
        /\ SetLastBatch(Current(p), batch)
    BY <1>1, <1>4, ExpiredIsBatch DEF MarkExpired
  <1>6. BatchOK(Copy(p).batch) /\ Copy(p).batch.ids \cap Pending = {} /\ sweep[p].ids = {} /\ CopiesOK(p)
        /\ Stamped(Current(p)) \subseteq Copy(p).batch.ids
    BY <1>1, <1>3 DEF SweepOK, CopiesOK, Copy
  <1>7. BatchOK(batch)'
    <2>1. Pending' = Pending /\ Unminted' = Unminted
      BY <1>2 DEF Pending, Unminted
    <2>2. QED
      BY <1>5, <1>6, <2>1 DEF BatchOK
  <1>8. \A s \in DOMAIN sweep[p].listed : schedule'[s] # NotAdded
    BY <1>3, <1>5, <1>6, NewBatch DEF CopiesOK
  <1>9. (sweep'[p] # Idle => SweepOK(p)') /\ ~Driving(p)'
    BY <1>1, <1>2, <1>6, <1>8, DueGateSweepOK DEF MarkExpired
  <1>10. ASSUME NEW s \in Schedules, s = Current(p) PROVE OwnedOK(s)'
    <2>1. Stamped(s)' \subseteq Stamped(s)
      BY <1>2, Shrunk
    <2>2. Exists(s)' => schedule'[s].batch = batch
      BY <1>5, <1>10, NewBatch
    <2>3. QED
      BY <1>5, <1>6, <1>10, <2>1, <2>2 DEF OwnedOK
  <1>11. \A s \in Schedules : ScheduleOK(s)' /\ OwnedOK(s)'
    BY <1>1, <1>2, <1>5, <1>7, <1>10, SchedulesAfterBatch
  <1>12. QED
    BY <1>9, <1>11, SweepKeeps

LEMMA StartRunKeeps ==
  ASSUME TypeInv, OneSweep, BatchesInv, NEW p \in Sweeps, StartRun(p)
  PROVE  BatchesInv'
  <1>1. sweep[p] # Idle /\ At(p, "start") /\ Before(p) /\ ~Driving(p)
    BY AtIsBusy DEF StartRun, Steps, At, Before, Driving
  <1>2. UNCHANGED <<preview, minted>> /\ Shrinks
    BY PreviewsStay DEF StartRun, history
  <1>3. SweepOK(p) /\ Current(p) \in DOMAIN sweep[p].listed /\ DOMAIN sweep[p].listed \subseteq Schedules
    BY <1>1, Listing DEF BatchesInv
  <1>4. PICK batch : batch = Batch("running", sweep[p].now, {})
    OBVIOUS
  <1>5. batch \in Batches /\ batch.ids = {} /\ batch.status = "running" /\ SetLastBatch(Current(p), batch)
    BY <1>1, <1>4, BusyParts, BatchType DEF StartRun, Batch
  <1>6. CopiesOK(p) /\ sweep[p].ids = {} /\ Stamped(Current(p)) = {}
    BY <1>1, <1>3 DEF SweepOK
  <1>7. BatchOK(batch)'
    BY <1>5 DEF BatchOK
  <1>8. /\ sweep'[p].at = "drive" /\ sweep'[p].ids = {} /\ sweep'[p].listed = sweep[p].listed
        /\ sweep'[p].now = sweep[p].now
    BY <1>1, <1>6, GotoGoes DEF StartRun
  <1>9. Current(p)' = Current(p)
    BY <1>8 DEF Current
  <1>10. \A s \in Schedules : ScheduleOK(s)' /\ OwnedOK(s)'
    <2>1. \A s \in Schedules : s = Current(p) => OwnedOK(s)'
      BY <1>8, <1>9 DEF OwnedOK, Driving
    <2>2. QED
      BY <1>1, <1>2, <1>5, <1>7, <2>1, SchedulesAfterBatch
  <1>11. CopiesOK(p)'
    <2>1. \A s \in DOMAIN sweep[p].listed : schedule'[s] # NotAdded
      BY <1>3, <1>5, <1>6, NewBatch DEF CopiesOK
    <2>2. QED
      BY <1>1, <1>2, <1>6, <1>8, <2>1, CopiesKept
  <1>12. Stamped(Current(p))' = {}
    BY <1>2, <1>6, <1>9 DEF Stamped, Mine, Pending
  <1>13. RunOK(p)'
    BY <1>8, <1>12 DEF RunOK
  <1>14. SweepOK(p)'
    BY <1>8, <1>11, <1>12, <1>13 DEF SweepOK, At
  <1>15. QED
    BY <1>10, <1>14, SweepKeeps

LEMMA StageWriteKeeps ==
  ASSUME TypeInv, OneSweep, BatchesInv, NEW p \in Sweeps, StageWrite(p)
  PROVE  BatchesInv'
  <1>1. sweep[p] # Idle /\ At(p, "drive") /\ Driving(p)
    BY AtIsBusy DEF StageWrite, Steps, At, Driving
  <1>2. PICK id : id = Min(Unminted)
    OBVIOUS
  <1>3. PICK cur : cur = Current(p)
    OBVIOUS
  <1>4. id \in Ids /\ minted[id] = NotMinted /\ cur \in Schedules
    BY <1>1, <1>2, <1>3, NextIdIsFree, BusyParts DEF StageWrite
  <1>5. /\ preview' = [preview EXCEPT ![id] = [stamped |-> FALSE, stored |-> clock]]
        /\ minted' = [minted EXCEPT ![id] = [of |-> cur, at |-> sweep[p].now]]
        /\ UNCHANGED schedule
    BY <1>2, <1>3 DEF StageWrite
  <1>6. /\ sweep'[p].at = "drive" /\ sweep'[p].ids = sweep[p].ids \cup {id}
        /\ sweep'[p].now = sweep[p].now /\ sweep'[p].listed = sweep[p].listed
    <2> DEFINE ids == sweep[p].ids \cup {id}
               count == sweep[p].step + 1
    <2>1. sweep' = [sweep EXCEPT ![p] = Turn(p, "drive", count, ids, sweep[p].left)]
      BY <1>2, StageWriteGoes
    <2> HIDE DEF ids, count
    <2> DEFINE job == Turn(p, "drive", count, ids, sweep[p].left)
    <2>2. job.at = "drive" /\ job.ids = ids /\ job.now = sweep[p].now /\ job.listed = sweep[p].listed
      BY DEF Turn
    <2> HIDE DEF job
    <2>3. sweep'[p] = job
      BY <2>1, Moves DEF job
    <2>4. QED
      BY <2>2, <2>3 DEF ids
  <1>7. SweepOK(p) /\ CopiesOK(p) /\ RunOK(p) /\ Stamped(cur) = {}
    BY <1>1, <1>3 DEF BatchesInv, SweepOK
  <1>8. /\ Pending' \subseteq Pending \cup {id} /\ Unminted' \subseteq Unminted /\ id \in Unminted
        /\ \A other \in Ids \ {id} : minted'[other] = minted[other] /\ preview'[other] = preview[other]
        /\ minted'[id] = [of |-> cur, at |-> sweep[p].now]
        /\ ~preview'[id].stamped
    <2>1. preview \in [Ids -> Stored \cup {NoPreview}] /\ minted \in [Ids -> [of : Schedules, at : Instants] \cup {NotMinted}]
      BY DEF TypeInv, Types
    <2>2. 0 \notin Schedules
      BY SchedulerAssumption, FS_CardinalityType
    <2>3. QED
      BY <1>4, <1>5, <2>1, <2>2 DEF Pending, Unminted, NotMinted
  <1>9. \A s \in Schedules : id \notin Mine(s)
    <2>1. 0 \notin Schedules
      BY SchedulerAssumption, FS_CardinalityType
    <2>2. QED
      BY <1>4, <2>1 DEF Mine, NotMinted
  <1>10. ASSUME NEW s \in Schedules
         PROVE  /\ Stamped(s)' \subseteq Stamped(s)
                /\ s # cur => Mine(s)' = Mine(s)
                /\ \A a \in Stamped(s) : minted'[a] = minted[a]
    BY <1>8, <1>9 DEF Stamped, Mine, Pending
  <1>11. \A batch : BatchOK(batch) => BatchOK(batch)'
    BY <1>8 DEF BatchOK
  <1>12. cur \in DOMAIN sweep[p].listed /\ DOMAIN sweep[p].listed \subseteq Schedules /\ schedule[cur] # NotAdded
    BY <1>1, <1>3, <1>7, Listing DEF CopiesOK
  <1>13. ASSUME NEW s \in Schedules PROVE ScheduleOK(s)' /\ OwnedOK(s)'
    <2>1. ScheduleOK(s) /\ OwnedOK(s) /\ schedule'[s] = schedule[s] /\ (Exists(s)' <=> Exists(s))
      BY <1>5 DEF BatchesInv, Exists
    <2>2. ScheduleOK(s)'
      <3>1. schedule'[s] = NotAdded => Mine(s)' = {}
        BY <1>10, <1>12, <2>1 DEF ScheduleOK
      <3>2. PICK batch : batch = schedule[s].batch
        OBVIOUS
      <3>3. Exists(s)' => BatchOK(batch)'
        BY <1>11, <2>1, <3>2 DEF ScheduleOK
      <3>4. Exists(s)' => BatchOK(schedule[s].batch)'
        BY <2>1, <3>2, <3>3 DEF BatchOK
      <3>5. \A a, b \in Stamped(s)' : minted'[a].at = minted'[b].at
        BY <1>10, <2>1 DEF ScheduleOK
      <3>6. QED
        BY <3>1, <3>4, <3>5 DEF ScheduleOK
    <2>3. OwnedOK(s)'
      <3>1. Current(p)' = Current(p) /\ Driving(p)'
        BY <1>6 DEF Current, Driving
      <3>2. s # cur => OwnedOK(s)'
        BY <1>1, <1>3, <1>10, <2>1 DEF OwnedOK, OneSweep
      <3>3. s = cur => OwnedOK(s)'
        BY <1>3, <3>1 DEF OwnedOK
      <3>4. QED
        BY <3>2, <3>3
    <2>4. QED
      BY <2>2, <2>3
  <1>14. Current(p)' = cur
    BY <1>3, <1>6 DEF Current
  <1>15. CopiesOK(p)'
    <2>1. ASSUME NEW s \in DOMAIN sweep[p].listed
          PROVE  /\ schedule'[s] # NotAdded
                 /\ BatchOK(sweep[p].listed[s].batch)
                 /\ s # cur => Stamped(s)' \subseteq sweep[p].listed[s].batch.ids
      BY <1>3, <1>5, <1>7, <1>10, <1>12 DEF CopiesOK
    <2>2. ASSUME NEW s \in DOMAIN sweep[p].listed
          PROVE  /\ sweep[p].listed[s].batch.ids \cap Unminted' = {}
                 /\ sweep[p].listed[s].batch.status \notin {"running", "pending"} =>
                       sweep[p].listed[s].batch.ids \cap Pending' = {}
      BY <1>8, <2>1 DEF BatchOK
    <2>3. QED
      BY <1>6, <1>14, <2>1, <2>2 DEF CopiesOK, BatchOK, Before
  <1>16. RunOK(p)'
    <2>1. ASSUME NEW other \in sweep[p].ids \cup {id}
          PROVE  minted'[other] = [of |-> cur, at |-> sweep[p].now]
      <3>1. sweep[p].ids \subseteq Ids
        BY <1>1, BusyParts
      <3>2. QED
        BY <1>3, <1>7, <1>8, <3>1 DEF RunOK
    <2>2. ASSUME NEW s \in Schedules, Exists(s)'
          PROVE  schedule'[s].batch.ids \cap (sweep[p].ids \cup {id}) = {}
      <3>1. Exists(s) /\ schedule'[s] = schedule[s] /\ BatchOK(schedule[s].batch)
        BY <1>5, <2>2 DEF Exists, BatchesInv, ScheduleOK
      <3>2. QED
        BY <1>7, <1>8, <3>1 DEF RunOK, BatchOK
    <2>3. ASSUME NEW s \in DOMAIN sweep[p].listed
          PROVE  sweep[p].listed[s].batch.ids \cap (sweep[p].ids \cup {id}) = {}
      BY <1>7, <1>8 DEF RunOK, BatchOK, CopiesOK
    <2>4. Stamped(Current(p))' = {}
      <3>1. Stamped(cur)' = {}
        BY <1>4, <1>7, <1>10
      <3>2. QED
        BY <1>14, <3>1 DEF Stamped, Mine
    <2>5. QED
      BY <1>6, <1>14, <2>1, <2>2, <2>3, <2>4 DEF RunOK
  <1>17. SweepOK(p)'
    <2>1. Stamped(Current(p))' = {}
      <3>1. Stamped(cur)' = {}
        BY <1>4, <1>7, <1>10
      <3>2. QED
        BY <1>14, <3>1 DEF Stamped, Mine
    <2>2. QED
      BY <1>6, <1>15, <1>16, <2>1 DEF SweepOK, At
  <1>18. QED
    BY <1>13, <1>17, SweepKeeps

\* A step within a run that changes nobody's previews.
LEMMA RunGoesOn ==
  ASSUME TypeInv, OneSweep, BatchesInv, NEW p \in Sweeps, sweep[p] # Idle, Driving(p),
         UNCHANGED <<schedule, preview, minted>>, sweep'[p].at \in {"stamp", "store"},
         sweep'[p].ids = sweep[p].ids, sweep'[p].now = sweep[p].now,
         sweep'[p].listed = sweep[p].listed
  PROVE  BatchesInv'
  <1>1. Shrinks /\ \A s \in Schedules : Keeps(s)
    BY PreviewsStay DEF Keeps, Exists
  <1>2. SweepOK(p) /\ CopiesOK(p) /\ RunOK(p)
    BY DEF BatchesInv, SweepOK
  <1>3. Current(p)' = Current(p) /\ Driving(p)'
    BY DEF Current, Driving
  <1>4. CopiesOK(p)'
    <2>1. ~Before(p)' /\ \A s \in DOMAIN sweep[p].listed : schedule'[s] # NotAdded
      BY <1>2 DEF Before, CopiesOK
    <2>2. QED
      BY <1>1, <1>2, <2>1, CopiesKept
  <1>5. RunOK(p)'
    <2>1. \A s \in Schedules : Exists(s)' => schedule'[s].batch.ids \cap sweep[p].ids = {}
      BY <1>2 DEF RunOK, Exists
    <2>2. QED
      BY <1>1, <1>2, <2>1, RunKept
  <1>6. SweepOK(p)'
    BY <1>4, <1>5 DEF SweepOK, At
  <1>7. ASSUME NEW s \in Schedules PROVE ScheduleOK(s)' /\ OwnedOK(s)'
    <2>1. ScheduleOK(s)'
      BY <1>1, ScheduleStands DEF BatchesInv
    <2>2. OwnedOK(s)'
      <3>1. CASE s = Current(p)
        BY <1>3, <3>1 DEF OwnedOK
      <3>2. CASE s # Current(p)
        BY <1>1, <3>2, OwnedStands
      <3>3. QED
        BY <3>1, <3>2
    <2>3. QED
      BY <2>1, <2>2
  <1>8. QED
    BY <1>6, <1>7, SweepKeeps

LEMMA EndDriveKeeps ==
  ASSUME TypeInv, OneSweep, BatchesInv, NEW p \in Sweeps, EndDrive(p)
  PROVE  BatchesInv'
  <1>1. sweep[p] # Idle /\ Driving(p) /\ UNCHANGED <<schedule, preview, minted>>
    BY AtIsBusy DEF EndDrive, Steps, At, Driving
  <1>2. /\ sweep'[p].at = "stamp" /\ sweep'[p].ids = sweep[p].ids /\ sweep'[p].now = sweep[p].now
        /\ sweep'[p].listed = sweep[p].listed
    BY EndDriveGoes, Moves DEF Turn
  <1>3. QED
    BY <1>1, <1>2, RunGoesOn

LEMMA LoadForStampKeeps ==
  ASSUME TypeInv, OneSweep, BatchesInv, NEW p \in Sweeps, LoadForStamp(p)
  PROVE  BatchesInv'
  <1>1. sweep[p] # Idle /\ Driving(p) /\ UNCHANGED <<schedule, preview, minted>>
    BY AtIsBusy DEF LoadForStamp, Steps, At, Driving, history
  <1>2. CASE Min(sweep[p].left) \in Pending
    <2>1. Goto(p, "store")
      BY <1>2 DEF LoadForStamp
    <2>2. QED
      BY <1>1, <2>1, GotoGoes, RunGoesOn
  <1>3. CASE Min(sweep[p].left) \notin Pending
    <2> DEFINE rest == sweep[p].left \ {Min(sweep[p].left)}
               job == Turn(p, "stamp", sweep[p].step, sweep[p].ids, rest)
    <2>1. sweep' = [sweep EXCEPT ![p] = job]
      BY <1>3, LoadForStampGoes
    <2>2. job.at = "stamp" /\ job.ids = sweep[p].ids /\ job.now = sweep[p].now /\ job.listed = sweep[p].listed
      BY DEF Turn
    <2> HIDE DEF job
    <2>3. sweep'[p] = job
      BY <2>1, Moves
    <2>4. QED
      BY <1>1, <2>2, <2>3, RunGoesOn
  <1>4. QED
    BY <1>2, <1>3

LEMMA StoreStampKeeps ==
  ASSUME TypeInv, OneSweep, BatchesInv, NEW p \in Sweeps, StoreStamp(p)
  PROVE  BatchesInv'
  <1>1. sweep[p] # Idle /\ At(p, "store") /\ Driving(p) /\ UNCHANGED <<schedule, minted>>
    BY AtIsBusy DEF StoreStamp, Steps, At, Driving, history
  <1>2. PICK id : id = Min(sweep[p].left)
    OBVIOUS
  <1>3. PICK cur : cur = Current(p)
    OBVIOUS
  <1>4. id \in sweep[p].ids /\ sweep[p].ids \subseteq Ids /\ cur \in Schedules
        /\ cur \in DOMAIN sweep[p].listed /\ DOMAIN sweep[p].listed \subseteq Schedules
    <2>1. sweep[p].left # {} /\ sweep[p].left \subseteq sweep[p].ids /\ sweep[p].ids \subseteq Ids
      BY <1>1, Busy, BusyParts
    <2>2. id \in sweep[p].left
      BY <1>2, <2>1, MinIsMember
    <2>3. QED
      BY <1>1, <1>3, <2>1, <2>2, Listing
  <1>5. preview' = [preview EXCEPT ![id] = [stamped |-> TRUE, stored |-> clock]]
    BY <1>2 DEF StoreStamp
  <1>6. /\ sweep'[p].at = "stamp" /\ sweep'[p].ids = sweep[p].ids
        /\ sweep'[p].now = sweep[p].now /\ sweep'[p].listed = sweep[p].listed
    <2> DEFINE rest == sweep[p].left \ {Min(sweep[p].left)}
               job == Turn(p, "stamp", sweep[p].step, sweep[p].ids, rest)
    <2>1. sweep' = [sweep EXCEPT ![p] = job]
      BY StoreStampGoes
    <2>2. job.at = "stamp" /\ job.ids = sweep[p].ids /\ job.now = sweep[p].now /\ job.listed = sweep[p].listed
      BY DEF Turn
    <2> HIDE DEF job
    <2>3. sweep'[p] = job
      BY <2>1, Moves
    <2>4. QED
      BY <2>2, <2>3
  <1>7. SweepOK(p) /\ CopiesOK(p) /\ RunOK(p)
    BY <1>1 DEF BatchesInv, SweepOK
  <1>8. /\ Pending' \subseteq Pending \cup {id} /\ Unminted' = Unminted
        /\ \A other \in Ids \ {id} : preview'[other] = preview[other]
    BY <1>1, <1>4, <1>5 DEF Pending, Unminted, TypeInv, Types
  <1>9. /\ \A s : Mine(s)' = Mine(s)
        /\ minted[id] = [of |-> cur, at |-> sweep[p].now]
    BY <1>1, <1>3, <1>4, <1>7 DEF Mine, RunOK
  <1>10. ASSUME NEW s \in Schedules
         PROVE  Stamped(s)' \subseteq IF s = cur THEN Stamped(s) \cup {id} ELSE Stamped(s)
    BY <1>8, <1>9 DEF Stamped, Mine, Pending
  <1>11. ASSUME NEW batch, BatchOK(batch), id \notin batch.ids PROVE BatchOK(batch)'
    BY <1>8, <1>11 DEF BatchOK
  <1>12. Stamped(cur)' \subseteq sweep[p].ids
    BY <1>3, <1>4, <1>7, <1>10 DEF RunOK
  <1>13. Current(p)' = cur /\ Driving(p)'
    BY <1>3, <1>6 DEF Current, Driving
  <1>14. ASSUME NEW s \in Schedules PROVE ScheduleOK(s)' /\ OwnedOK(s)'
    <2>1. ScheduleOK(s) /\ OwnedOK(s) /\ schedule'[s] = schedule[s] /\ (Exists(s)' <=> Exists(s))
      BY <1>1 DEF BatchesInv, Exists
    <2>2. Exists(s)' => BatchOK(schedule[s].batch)'
      <3>1. PICK batch : batch = schedule[s].batch
        OBVIOUS
      <3>2. Exists(s)' => BatchOK(batch) /\ id \notin batch.ids
        BY <1>4, <1>7, <2>1, <3>1 DEF ScheduleOK, RunOK
      <3>3. Exists(s)' => BatchOK(batch)'
        BY <1>11, <3>2
      <3>4. QED
        BY <2>1, <3>1, <3>3 DEF BatchOK
    <2>3. \A a, b \in Stamped(s)' : minted'[a].at = minted'[b].at
      <3>1. CASE s = cur
        BY <1>1, <1>3, <1>7, <1>12, <3>1 DEF RunOK
      <3>2. CASE s # cur
        BY <1>1, <1>10, <2>1, <3>2 DEF ScheduleOK
      <3>3. QED
        BY <3>1, <3>2
    <2>4. ScheduleOK(s)'
      BY <1>9, <2>1, <2>2, <2>3 DEF ScheduleOK
    <2>5. OwnedOK(s)'
      <3>1. CASE s = cur
        BY <1>13, <3>1 DEF OwnedOK
      <3>2. CASE s # cur
        BY <1>3, <1>10, <2>1, <3>2 DEF OwnedOK, OneSweep
      <3>3. QED
        BY <3>1, <3>2
    <2>6. QED
      BY <2>4, <2>5
  <1>15. CopiesOK(p)'
    <2>1. ASSUME NEW s \in DOMAIN sweep[p].listed
          PROVE  /\ schedule'[s] # NotAdded
                 /\ BatchOK(sweep[p].listed[s].batch) /\ id \notin sweep[p].listed[s].batch.ids
                 /\ s # cur => Stamped(s)' \subseteq sweep[p].listed[s].batch.ids
      BY <1>1, <1>3, <1>4, <1>7, <1>10 DEF CopiesOK, RunOK
    <2>2. ASSUME NEW s \in DOMAIN sweep[p].listed
          PROVE  /\ sweep[p].listed[s].batch.ids \cap Unminted' = {}
                 /\ sweep[p].listed[s].batch.status \notin {"running", "pending"} =>
                       sweep[p].listed[s].batch.ids \cap Pending' = {}
      BY <1>8, <2>1 DEF BatchOK
    <2>3. QED
      BY <1>6, <1>13, <2>1, <2>2 DEF CopiesOK, BatchOK, Before
  <1>16. RunOK(p)'
    <2>1. Stamped(Current(p))' \subseteq sweep[p].ids
      BY <1>12, <1>13 DEF Stamped, Mine
    <2>2. \A s \in Schedules : Exists(s)' => schedule'[s].batch.ids \cap sweep[p].ids = {}
      BY <1>1, <1>7 DEF RunOK, Exists
    <2>3. QED
      BY <1>1, <1>3, <1>6, <1>7, <1>13, <2>1, <2>2 DEF RunOK
  <1>17. SweepOK(p)'
    BY <1>6, <1>15, <1>16 DEF SweepOK, At
  <1>18. QED
    BY <1>14, <1>17, SweepKeeps

LEMMA RunRaisesKeeps ==
  ASSUME TypeInv, OneSweep, BatchesInv, NEW p \in Sweeps, RunRaises(p)
  PROVE  BatchesInv'
  <1>1. sweep[p] # Idle /\ At(p, "drive") /\ Driving(p)
    BY AtIsBusy DEF RunRaises, Steps, At, Driving
  <1>2. UNCHANGED <<preview, minted>> /\ Shrinks
    BY PreviewsStay DEF RunRaises
  <1>3. CopiesOK(p) /\ Stamped(Current(p)) = {} /\ DOMAIN sweep[p].listed \subseteq Schedules
        /\ Current(p) \in Schedules
    BY <1>1, Listing DEF BatchesInv, SweepOK
  <1>4. PICK batch : batch = Batch("failed", sweep[p].now, {})
    OBVIOUS
  <1>5. batch \in Batches /\ batch.ids = {} /\ SetLastBatch(Current(p), batch)
    BY <1>1, <1>4, BusyParts, BatchType DEF RunRaises, Batch
  <1>6. BatchOK(batch)'
    BY <1>5 DEF BatchOK
  <1>7. \A s \in DOMAIN sweep[p].listed : schedule'[s] # NotAdded
    BY <1>3, <1>5, NewBatch DEF CopiesOK
  <1>8. sweep'[p] # Idle => SweepOK(p)'
    BY <1>2, <1>3, <1>7, NextSweepOK DEF RunRaises
  <1>9. ASSUME NEW s \in Schedules, s = Current(p) PROVE OwnedOK(s)'
    <2>1. Stamped(s)' \subseteq Stamped(s)
      BY <1>2, Shrunk
    <2>2. QED
      BY <1>3, <1>9, <2>1 DEF OwnedOK
  <1>10. \A s \in Schedules : ScheduleOK(s)' /\ OwnedOK(s)'
    BY <1>1, <1>2, <1>5, <1>6, <1>9, SchedulesAfterBatch
  <1>11. QED
    BY <1>8, <1>10, SweepKeeps

LEMMA RecordBatchKeeps ==
  ASSUME TypeInv, OneSweep, BatchesInv, NEW p \in Sweeps, RecordBatch(p)
  PROVE  BatchesInv'
  <1>1. sweep[p] # Idle /\ At(p, "stamp") /\ Driving(p)
    BY AtIsBusy DEF RecordBatch, Steps, At, Driving
  <1>2. UNCHANGED <<preview, minted>> /\ Shrinks
    BY PreviewsStay DEF RecordBatch
  <1>3. SweepOK(p) /\ CopiesOK(p) /\ RunOK(p)
    BY <1>1 DEF BatchesInv, SweepOK
  <1>4. /\ DOMAIN sweep[p].listed \subseteq Schedules /\ Current(p) \in Schedules
        /\ sweep[p].ids \subseteq Minted /\ sweep[p].ids \in SUBSET Ids /\ sweep[p].now \in Instants
    BY <1>1, Busy, BusyParts, Listing
  <1>5. PICK batch : batch = Batch(IF sweep[p].ids = {} THEN "done" ELSE "pending", sweep[p].now, sweep[p].ids)
    OBVIOUS
  <1>6. /\ batch \in Batches /\ batch.ids = sweep[p].ids /\ SetLastBatch(Current(p), batch)
        /\ batch.status \notin {"running", "pending"} => batch.ids = {}
    BY <1>4, <1>5, BatchType DEF RecordBatch, Batch
  <1>7. BatchOK(batch)'
    <2>1. Unminted' = Unminted /\ sweep[p].ids \cap Unminted = {}
      BY <1>2, <1>4 DEF Unminted, Minted
    <2>2. QED
      BY <1>6, <2>1 DEF BatchOK
  <1>8. sweep'[p].at = "advance" /\ sweep'[p].listed = sweep[p].listed
    BY <1>1, GotoGoes DEF RecordBatch
  <1>9. \A s \in DOMAIN sweep[p].listed : schedule'[s] # NotAdded
    BY <1>3, <1>4, <1>6, NewBatch DEF CopiesOK
  <1>10. SweepOK(p)'
    <2>1. CopiesOK(p)'
      <3>1. ~Before(p)'
        BY <1>8 DEF Before
      <3>2. QED
        BY <1>2, <1>3, <1>8, <1>9, <3>1, CopiesKept
    <2>2. QED
      BY <1>8, <2>1 DEF SweepOK, At, Driving
  <1>11. ASSUME NEW s \in Schedules, s = Current(p) PROVE OwnedOK(s)'
    <2>1. Stamped(s)' \subseteq Stamped(s) /\ Stamped(s) \subseteq sweep[p].ids
      BY <1>2, <1>3, <1>11, Shrunk DEF RunOK
    <2>2. Exists(s)' => schedule'[s].batch = batch
      BY <1>6, <1>11, NewBatch
    <2>3. QED
      BY <1>6, <2>1, <2>2 DEF OwnedOK
  <1>12. \A s \in Schedules : ScheduleOK(s)' /\ OwnedOK(s)'
    BY <1>1, <1>2, <1>6, <1>7, <1>11, SchedulesAfterBatch
  <1>13. QED
    BY <1>10, <1>12, SweepKeeps

LEMMA AdvanceClockKeeps ==
  ASSUME TypeInv, OneSweep, BatchesInv, NEW p \in Sweeps, AdvanceClock(p)
  PROVE  BatchesInv'
  <1>1. sweep[p] # Idle /\ At(p, "advance") /\ ~Driving(p)
    BY AtIsBusy DEF AdvanceClock, Steps, At, Driving
  <1>2. UNCHANGED <<preview, minted>> /\ Shrinks
    BY PreviewsStay DEF AdvanceClock, history
  <1>3. CopiesOK(p) /\ DOMAIN sweep[p].listed \subseteq Schedules
        /\ Current(p) \in Schedules /\ sweep[p].now \in Instants
    BY <1>1, Listing, BusyParts DEF BatchesInv, SweepOK
  <1>4. \A s \in Schedules : Keeps(s)
    <2>1. /\ \A s \in Schedules : Exists(s)' <=> Exists(s)
          /\ \A s \in Schedules : Exists(s) => schedule'[s].batch = schedule[s].batch
          /\ \A s \in Schedules : ~Exists(s) => schedule'[s] = schedule[s]
      BY <1>3, SetLastRunType DEF AdvanceClock, TypeInv
    <2>2. QED
      BY <2>1 DEF Keeps, Exists
  <1>5. sweep'[p] # Idle => SweepOK(p)'
    <2>1. \A s \in DOMAIN sweep[p].listed : schedule'[s] # NotAdded
      BY <1>3, <1>4 DEF CopiesOK, Keeps
    <2>2. QED
      BY <1>2, <1>3, <2>1, NextSweepOK DEF AdvanceClock
  <1>6. \A s \in Schedules : ScheduleOK(s)' /\ OwnedOK(s)'
    BY <1>1, <1>2, <1>4, ScheduleStands, OwnedStands DEF BatchesInv
  <1>7. QED
    BY <1>5, <1>6, SweepKeeps

LEMMA BeginKeeps ==
  ASSUME TypeInv, OneSweep, BatchesInv, NEW p \in Sweeps, Begin(p)
  PROVE  BatchesInv'
  <1> DEFINE all == {s \in Schedules : Exists(s)}
             job == [at |-> "gate", now |-> clock, step |-> 0, ids |-> {}, left |-> {},
                     listed |-> [s \in all |-> schedule[s]]]
  <1>1. ~Driving(p) /\ UNCHANGED <<schedule, preview, minted>> /\ Shrinks
    BY PreviewsStay DEF Begin, Driving, Idle, history
  <1>2. \A s \in Schedules : Keeps(s)
    BY <1>1 DEF Keeps, Exists
  <1>3. /\ sweep'[p].at = "gate" /\ sweep'[p].ids = {}
        /\ sweep'[p].listed = [s \in all |-> schedule[s]]
    <2>1. sweep' = [sweep EXCEPT ![p] = job]
      BY DEF Begin
    <2>2. job.at = "gate" /\ job.ids = {} /\ job.listed = [s \in all |-> schedule[s]]
      OBVIOUS
    <2> HIDE DEF job
    <2>3. QED
      BY <2>1, <2>2, Moves
  <1>4. CopiesOK(p)'
    <2>1. ASSUME NEW s \in all
          PROVE  schedule[s] # NotAdded /\ BatchOK(schedule[s].batch) /\ Stamped(s) \subseteq schedule[s].batch.ids
      BY <1>1, <2>1 DEF BatchesInv, ScheduleOK, OwnedOK, OneSweep, Exists
    <2>2. Pending' = Pending /\ Unminted' = Unminted /\ \A s : Stamped(s)' = Stamped(s)
      BY <1>1 DEF Pending, Unminted, Stamped, Mine
    <2>3. QED
      BY <1>1, <1>3, <2>1, <2>2 DEF CopiesOK, BatchOK
  <1>5. SweepOK(p)'
    BY <1>3, <1>4 DEF SweepOK, At, Driving
  <1>6. \A s \in Schedules : ScheduleOK(s)' /\ OwnedOK(s)'
    BY <1>1, <1>2, ScheduleStands, OwnedStands DEF BatchesInv
  <1>7. QED
    BY <1>5, <1>6, SweepKeeps

LEMMA OutsideSteps ==
  ASSUME TypeInv, BatchesInv,
         \/ \E s \in Schedules : Add(s) \/ Remove(s)
         \/ \E id \in Ids : Answer(id)
         \/ Reap \/ Tick \/ UNCHANGED vars
  PROVE  BatchesInv'
  <1>1. UNCHANGED sweep
    BY DEF Add, Remove, Answer, Reap, Tick, vars
  <1>2. Shrinks
    BY DEF Add, Remove, Answer, Reap, Tick, vars, history, Shrinks, TypeInv, Types
  <1>3. ASSUME NEW s \in Schedules, Add(s), NEW t \in Schedules PROVE Keeps(t) \/ Added(t)
    <2>1. schedule' = [schedule EXCEPT ![s] = [created |-> clock, lastRun |-> clock, batch |-> NoBatch]]
          /\ schedule[s] = NotAdded
      BY <1>3 DEF Add
    <2>2. CASE t = s
      BY <2>1, <2>2 DEF Added, Exists, NotAdded, Removed, TypeInv, Types
    <2>3. CASE t # s
      BY <2>1, <2>3 DEF Keeps, Exists, TypeInv, Types
    <2>4. QED
      BY <2>2, <2>3
  <1>4. ASSUME NEW s \in Schedules, Remove(s), NEW t \in Schedules PROVE Keeps(t)
    <2>1. schedule' = [schedule EXCEPT ![s] = Removed]
      BY <1>4 DEF Remove
    <2>2. CASE t = s
      BY <2>1, <2>2 DEF Keeps, Exists, NotAdded, Removed, TypeInv, Types
    <2>3. CASE t # s
      BY <2>1, <2>3 DEF Keeps, Exists, TypeInv, Types
    <2>4. QED
      BY <2>2, <2>3
  <1>5. UNCHANGED schedule => \A s \in Schedules : Keeps(s)
    BY DEF Keeps, Exists
  <1>6. \A s \in Schedules : Keeps(s) \/ Added(s)
    BY <1>3, <1>4, <1>5 DEF Answer, Reap, Tick, vars
  <1>7. QED
    BY <1>1, <1>2, <1>6, OutsideKeeps

LEMMA SchedulesStep ==
  ASSUME TypeInv, OneSweep, SchedulesInv, [Next]_vars
  PROVE  SchedulesInv'
  <1>1. mishap' = "crash" \/ mishap = mishap' \/ mishap = "none"
    BY DEF Next, vars, history, Begin, SweepStep, OverlapGate, ExpireBatch, MarkExpired, StartRun,
           StageWrite, EndDrive, LoadForStamp, StoreStamp, RecordBatch, AdvanceClock, RunRaises,
           Crash, Mishap, Add, Remove, Answer, Reap, Tick
  <1>2. CASE \E p \in Sweeps : Crash(p)
    BY <1>2 DEF Crash, Mishap, SchedulesInv
  <1>3. ASSUME ~ \E p \in Sweeps : Crash(p), mishap' # "crash" PROVE BatchesInv'
    <2>1. BatchesInv
      BY <1>1, <1>3 DEF SchedulesInv
    <2>2. ASSUME NEW p \in Sweeps, SweepStep(p) PROVE BatchesInv'
      BY <2>1, <2>2, OverlapGateKeeps, ExpireBatchKeeps, MarkExpiredKeeps, StartRunKeeps,
         StageWriteKeeps, EndDriveKeeps, LoadForStampKeeps, StoreStampKeeps, RecordBatchKeeps,
         AdvanceClockKeeps DEF SweepStep
    <2>3. QED
      BY <1>3, <2>1, <2>2, BeginKeeps, RunRaisesKeeps, OutsideSteps DEF Next
  <1>4. QED
    BY <1>2, <1>3 DEF SchedulesInv

LEMMA SchedulesInit == ASSUME Init PROVE SchedulesInv
  <1>1. \A s \in Schedules : Mine(s) = {}
    <2>1. 0 \notin Schedules
      BY SchedulerAssumption, FS_CardinalityType
    <2>2. QED
      BY <2>1 DEF Init, Mine, NotMinted
  <1>2. QED
    BY <1>1 DEF Init, SchedulesInv, BatchesInv, ScheduleOK, OwnedOK, Exists, Stamped

\* With one sweep at a time, and no crash, all the stamped previews of a schedule
\* that wait for the operator are of one run: the overlap gate keeps its promise,
\* also when runs raise, fail half-way, expire or have their schedule removed.
THEOREM BatchesDoNotMix ==
  ASSUME OneSweep
  PROVE  Spec => []OneBatchAtATime
  <1>1. Init => SchedulesInv
    BY SchedulesInit
  <1>2. TypeInv /\ SchedulesInv /\ [Next]_vars => SchedulesInv'
    BY SchedulesStep
  <1>3. SchedulesInv => OneBatchAtATime
    BY DEF SchedulesInv, BatchesInv, ScheduleOK, Stamped, OneBatchAtATime
  <1>4. QED
    BY <1>1, <1>2, <1>3, TypeInvariant, PTL DEF Spec

\* With one sweep at a time and no answer inside a stamp, a stamped preview of a
\* schedule is one its batch names, or the sweep at work on it is about to name,
\* and an answered preview does not come back.
THEOREM StampsStayRight ==
  ASSUME OneSweep, "stamp_race" \notin Faults
  PROVE  Spec => []StampsAreRight
  <1>1. Init => SchedulesInv
    BY SchedulesInit
  <1>2. TypeInv /\ SchedulesInv /\ [Next]_vars => SchedulesInv'
    BY SchedulesStep
  <1>3. SchedulesInv => StampedIsOwned
    <2>1. ASSUME BatchesInv, NEW s \in Schedules, NEW id \in Mine(s) \cap Pending,
                 preview[id].stamped, Exists(s)
          PROVE  \/ id \in schedule[s].batch.ids
                 \/ \E p \in Sweeps : sweep[p] # Idle /\ Current(p) = s /\ id \in sweep[p].ids
      <3>1. id \in Stamped(s) /\ OwnedOK(s)
        BY <2>1 DEF BatchesInv, Stamped
      <3>2. CASE \E p \in Sweeps : Driving(p) /\ Current(p) = s
        <4>1. PICK p \in Sweeps : Driving(p) /\ Current(p) = s
          BY <3>2
        <4>2. sweep[p] # Idle
          BY <4>1 DEF Driving, Idle
        <4>3. Stamped(s) \subseteq sweep[p].ids
          BY <2>1, <4>1, <4>2 DEF BatchesInv, SweepOK, RunOK
        <4>4. QED
          BY <3>1, <4>1, <4>2, <4>3
      <3>3. CASE ~ \E p \in Sweeps : Driving(p) /\ Current(p) = s
        BY <2>1, <3>1, <3>3 DEF OwnedOK
      <3>4. QED
        BY <3>2, <3>3
    <2>2. QED
      BY <2>1 DEF SchedulesInv, StampedIsOwned
  <1>4. StampedIsOwned /\ ResolvedStaysResolved => StampsAreRight
    BY DEF StampsAreRight
  <1>5. QED
    BY <1>1, <1>2, <1>3, <1>4, TypeInvariant, ResolvedStays, PTL DEF Spec

-----------------------------------------------------------------------------
(* A tick is run once, for one sweep at a time *)

\* Minutes of instants.
LEMMA DivBounds ==
  ASSUME NEW t \in Int, NEW d \in Nat \ {0}
  PROVE  t \div d \in Int /\ (t \div d) * d <= t /\ t < ((t \div d) + 1) * d
  OBVIOUS

LEMMA TimesMonotone ==
  ASSUME NEW a \in Int, NEW b \in Int, a <= b, NEW d \in Nat
  PROVE  a * d <= b * d
  OBVIOUS

LEMMA MinuteBounds ==
  ASSUME NEW t \in Int
  PROVE  Minute(t) \in Int /\ Minute(t) * PerMinute <= t /\ t < (Minute(t) + 1) * PerMinute
  BY CronAssumption, DivBounds DEF Minute

\* The minutes of the clock are those of the calendar.
LEMMA MinuteOfClock ==
  ASSUME NEW t \in Instants, NEW m \in 0..Minute(t)
  PROVE  m \in DOMAIN Calendar
  <1>1. MaxClock \in Nat /\ t \in Nat /\ t <= MaxClock
    BY SchedulerAssumption DEF Instants
  <1>2. Minute(t) <= Minute(MaxClock)
    <2>1. /\ Minute(t) \in Int /\ Minute(t) * PerMinute <= t
          /\ Minute(MaxClock) \in Int /\ MaxClock < (Minute(MaxClock) + 1) * PerMinute
      BY <1>1, MinuteBounds
    <2>2. PerMinute \in Nat
      BY CronAssumption
    <2> DEFINE late == Minute(t)
               last == Minute(MaxClock)
    <2>3. late \in Int /\ last \in Int /\ late * PerMinute <= t /\ MaxClock < (last + 1) * PerMinute
      BY <2>1
    <2> HIDE DEF late, last
    <2>4. ASSUME last + 1 <= late PROVE FALSE
      <3>1. (last + 1) * PerMinute <= late * PerMinute
        BY <2>2, <2>3, <2>4, TimesMonotone
      <3> DEFINE x == (last + 1) * PerMinute
                 y == late * PerMinute
      <3>2. x \in Int /\ y \in Int /\ x <= y /\ y <= t /\ MaxClock < x
        BY <2>2, <2>3, <3>1
      <3> HIDE DEF x, y
      <3>3. QED
        BY <1>1, <3>2
    <2>5. late <= last
      BY <2>3, <2>4
    <2>6. QED
      BY <2>5 DEF late, last
  <1>3. Minute(t) \in Int /\ Minute(MaxClock) \in Int
    BY <1>1, MinuteBounds
  <1>4. m \in 0..Minute(MaxClock)
    BY <1>2, <1>3
  <1>5. QED
    BY <1>4, SchedulerAssumption

\* What a due schedule has behind it.
LEMMA DueHasTicked ==
  ASSUME NEW s \in Schedules, NEW after \in Instants, NEW now \in Instants,
         IsDue(plan[s].cron, after, now)
  PROVE  Ticked(s, after, now)
  <1>1. after \in Nat /\ now \in Nat /\ PerMinute \in Nat \ {0} /\ ScanCap \in Nat /\ Never \notin Int
    BY SchedulerAssumption, CronAssumption DEF Instants
  <1>2. /\ Minute(now) \in Int /\ Minute(now) * PerMinute <= now
        /\ Minute(after) \in Int /\ Minute(after) * PerMinute <= after
        /\ after < (Minute(after) + 1) * PerMinute
    BY <1>1, MinuteBounds
  <1>3. CASE after < (Minute(now) - ScanCap) * PerMinute
    <2>1. (Minute(now) - ScanCap) * PerMinute = Minute(now) * PerMinute - ScanCap * PerMinute
      BY <1>1, <1>2
    <2>2. Minute(now) * PerMinute \in Int /\ ScanCap * PerMinute \in Int
      BY <1>1, <1>2
    <2>3. now - after > ScanCap * PerMinute
      BY <1>1, <1>2, <1>3, <2>1, <2>2
    <2>4. QED
      BY <2>3 DEF Ticked
  <1>4. CASE ~(after < (Minute(now) - ScanCap) * PerMinute)
    <2>1. after # Never
      BY <1>1
    <2>2. \E m \in (Minute(after) + 1)..Minute(now) : Matches(plan[s].cron, Calendar[m])
      BY <1>4, <2>1 DEF IsDue
    <2>3. PICK m \in (Minute(after) + 1)..Minute(now) : Matches(plan[s].cron, Calendar[m])
      BY <2>2
    <2>4. m \in Int /\ Minute(after) + 1 <= m /\ m <= Minute(now) /\ Minute(after) + 1 \in Int
      BY <1>2, <2>3
    <2>5. (Minute(after) + 1) * PerMinute <= m * PerMinute /\ m * PerMinute <= Minute(now) * PerMinute
      BY <1>1, <1>2, <2>4, TimesMonotone
    <2>6. after < m * PerMinute /\ m * PerMinute <= now
      <3> DEFINE w == (Minute(after) + 1) * PerMinute
                 x == m * PerMinute
                 y == Minute(now) * PerMinute
      <3>1. w \in Int /\ x \in Int /\ y \in Int
        BY <1>1, <1>2, <2>4
      <3>2. after < w /\ w <= x /\ x <= y /\ y <= now
        BY <1>2, <2>5
      <3> HIDE DEF w, x, y
      <3>3. after < x /\ x <= now
        BY <1>1, <3>1, <3>2
      <3>4. QED
        BY <3>3 DEF x
    <2>7. m \in DOMAIN Calendar
      <3>1. Minute(after) >= 0
        <4> DEFINE k == Minute(after)
        <4>1. k \in Int /\ after < (k + 1) * PerMinute
          BY <1>2
        <4> HIDE DEF k
        <4>2. ASSUME k + 1 <= 0 PROVE FALSE
          <5>1. (k + 1) * PerMinute <= 0 * PerMinute
            BY <1>1, <4>1, <4>2, TimesMonotone
          <5> DEFINE x == (k + 1) * PerMinute
          <5>2. x \in Int /\ x <= 0 /\ after < x
            BY <1>1, <4>1, <5>1
          <5> HIDE DEF x
          <5>3. QED
            BY <1>1, <5>2
        <4>3. k >= 0
          BY <4>1, <4>2
        <4>4. QED
          BY <4>3 DEF k
      <3>2. m \in 0..Minute(now)
        BY <1>2, <2>4, <3>1
      <3>3. QED
        BY <3>2, MinuteOfClock
    <2>8. QED
      BY <2>3, <2>6, <2>7 DEF Ticked
  <1>5. QED
    BY <1>3, <1>4

\* A tick after an instant is one after every earlier instant.
LEMMA TickedSince ==
  ASSUME NEW s, NEW early \in Instants, NEW after \in Instants, NEW until \in Instants,
         early <= after, Ticked(s, after, until)
  PROVE  Ticked(s, early, until) /\ after < until
  <1>1. early \in Nat /\ after \in Nat /\ until \in Nat /\ PerMinute \in Nat /\ ScanCap \in Nat
    BY SchedulerAssumption, CronAssumption DEF Instants
  <1>2. CASE until - after > ScanCap * PerMinute
    <2>1. ScanCap * PerMinute \in Nat
      BY <1>1
    <2>2. until - early > ScanCap * PerMinute /\ after < until
      BY <1>1, <1>2, <2>1
    <2>3. QED
      BY <2>2 DEF Ticked
  <1>3. CASE ~(until - after > ScanCap * PerMinute)
    <2>1. PICK m \in DOMAIN Calendar :
             /\ Matches(plan[s].cron, Calendar[m])
             /\ after < m * PerMinute /\ m * PerMinute <= until
      BY <1>3 DEF Ticked
    <2>2. m \in Int
      <3>1. MaxClock \in Nat
        BY SchedulerAssumption
      <3>2. Minute(MaxClock) \in Int
        BY <3>1, MinuteBounds
      <3>3. QED
        BY <2>1, <3>2, SchedulerAssumption
    <2>3. early < m * PerMinute /\ after < until
      <3> DEFINE x == m * PerMinute
      <3>1. x \in Int /\ after < x /\ x <= until
        BY <1>1, <2>1, <2>2
      <3> HIDE DEF x
      <3>2. early < x /\ after < until
        BY <1>1, <3>1
      <3>3. QED
        BY <3>2 DEF x
    <2>4. QED
      BY <2>1, <2>3 DEF Ticked
  <1>4. QED
    BY <1>2, <1>3

RunsBy(s, time) == \A i \in DOMAIN runs[s] : runs[s][i] <= time

\* The run clock of a schedule no sweep is about to advance is that of its last
\* run or later, and a tick lies between any two of its runs.
RunClockOK(s) ==
    /\ schedule[s] = NotAdded => runs[s] = <<>>
    /\ \A i \in DOMAIN runs[s] : \A j \in 1..(i - 1) : Ticked(s, runs[s][j], runs[s][i])
    /\ Exists(s) =>
          /\ schedule[s].created <= schedule[s].lastRun
          /\ \A i \in DOMAIN runs[s] : Ticked(s, schedule[s].created, runs[s][i])
          /\ (\A p \in Sweeps : At(p, "advance") => Current(p) # s) => RunsBy(s, schedule[s].lastRun)

\* The copy of a schedule a sweep has yet to run knows of all its runs.
CopyIsFresh(p, s) ==
    /\ schedule[s] # NotAdded
    /\ Exists(s) => schedule[s].created = sweep[p].listed[s].created
    /\ sweep[p].listed[s].created <= sweep[p].listed[s].lastRun
    /\ s # Current(p) \/ ~At(p, "advance") => RunsBy(s, sweep[p].listed[s].lastRun)

AtWork == {"start", "drive", "stamp", "store"}

TickOK(p) ==
    /\ \A s \in DOMAIN sweep[p].listed : CopyIsFresh(p, s)
    /\ sweep[p].at \in AtWork => Ticked(Current(p), Copy(p).lastRun, sweep[p].now)
    /\ At(p, "advance") => RunsBy(Current(p), sweep[p].now) /\ Copy(p).created <= sweep[p].now

TicksInv ==
    /\ \A s \in Schedules : RunClockOK(s)
    /\ \A p \in Sweeps : sweep[p] # Idle => TickOK(p)

\* A crash between a run's record and its clock is what breaks it.
RunsInv == mishap # "crash" => TicksInv

\* What most steps leave of a schedule: it is not taken back, nor are its times.
SameTimes(s) ==
    /\ schedule'[s] = NotAdded => schedule[s] = NotAdded
    /\ Exists(s)' =>
          /\ Exists(s)
          /\ schedule'[s].created = schedule[s].created
          /\ schedule'[s].lastRun = schedule[s].lastRun

LEMMA BatchLeavesTimes ==
  ASSUME TypeInv, NEW cur \in Schedules, NEW batch \in Batches, SetLastBatch(cur, batch),
         NEW s \in Schedules
  PROVE  SameTimes(s)
  <1>1. /\ Exists(s)' <=> Exists(s)
        /\ Exists(cur) => schedule'[cur] = [schedule[cur] EXCEPT !.batch = batch]
        /\ s # cur \/ ~Exists(s) => schedule'[s] = schedule[s]
    BY SetLastBatchType DEF TypeInv
  <1>2. CASE s = cur /\ Exists(s)
    <2>1. schedule[s] \in Registered
      BY <1>2 DEF TypeInv, Types, Exists
    <2>2. /\ [schedule[s] EXCEPT !.batch = batch].created = schedule[s].created
          /\ [schedule[s] EXCEPT !.batch = batch].lastRun = schedule[s].lastRun
      BY <2>1 DEF Registered
    <2>3. schedule'[s] # NotAdded
      BY <1>1, <1>2 DEF Exists
    <2>4. QED
      BY <1>1, <1>2, <2>2, <2>3 DEF SameTimes
  <1>3. QED
    BY <1>1, <1>2 DEF SameTimes

LEMMA SchedulesStayTimes ==
  ASSUME UNCHANGED schedule, NEW s
  PROVE  SameTimes(s)
  BY DEF SameTimes, Exists

LEMMA RunClockKept ==
  ASSUME NEW s \in Schedules, SameTimes(s), RunClockOK(s), runs'[s] = runs[s],
         (\A p \in Sweeps : At(p, "advance")' => Current(p)' # s) =>
            \A p \in Sweeps : At(p, "advance") => Current(p) # s
  PROVE  RunClockOK(s)'
  <1>1. schedule'[s] = NotAdded => runs'[s] = <<>>
    BY DEF RunClockOK, SameTimes
  <1>2. \A i \in DOMAIN runs'[s] : \A j \in 1..(i - 1) : Ticked(s, runs'[s][j], runs'[s][i])
    BY DEF RunClockOK
  <1>3. ASSUME Exists(s)'
        PROVE  /\ schedule'[s].created <= schedule'[s].lastRun
               /\ \A i \in DOMAIN runs'[s] : Ticked(s, schedule'[s].created, runs'[s][i])
    BY <1>3 DEF RunClockOK, SameTimes
  <1>4. ASSUME Exists(s)', \A p \in Sweeps : At(p, "advance")' => Current(p)' # s
        PROVE  \A i \in DOMAIN runs'[s] : runs'[s][i] <= schedule'[s].lastRun
    BY <1>4 DEF RunClockOK, SameTimes, RunsBy
  <1>5. QED
    BY <1>1, <1>2, <1>3, <1>4 DEF RunClockOK, Ticked, RunsBy

LEMMA CopyKept ==
  ASSUME NEW p \in Sweeps, NEW s \in Schedules, SameTimes(s), CopyIsFresh(p, s), runs'[s] = runs[s],
         sweep'[p].listed[s] = sweep[p].listed[s],
         s # Current(p)' \/ ~At(p, "advance")' => s # Current(p) \/ ~At(p, "advance")
  PROVE  CopyIsFresh(p, s)'
  BY DEF CopyIsFresh, SameTimes, RunsBy

\* With one sweep the others have nothing to keep.
LEMMA SweepTicks ==
  ASSUME OneSweep, NEW p \in Sweeps, \A s \in Schedules : RunClockOK(s)', sweep'[p] # Idle => TickOK(p)'
  PROVE  TicksInv'
  BY DEF OneSweep, TicksInv

LEMMA NoneAdvances ==
  ASSUME OneSweep, NEW p \in Sweeps, ~At(p, "advance")
  PROVE  \A q \in Sweeps : ~At(q, "advance")
  BY DEF OneSweep

\* A step of a sweep within a schedule, or to its run.
LEMMA WithinTicks ==
  ASSUME TypeInv, OneSweep, TicksInv, NEW p \in Sweeps, sweep[p] # Idle, ~At(p, "advance"),
         UNCHANGED runs, \A s \in Schedules : SameTimes(s),
         sweep'[p].listed = sweep[p].listed, sweep'[p].now = sweep[p].now, sweep'[p].at # "advance",
         sweep'[p].at \in AtWork => Ticked(Current(p), Copy(p).lastRun, sweep[p].now)
  PROVE  TicksInv'
  <1>1. \A q \in Sweeps : ~At(q, "advance")
    BY NoneAdvances
  <1>2. \A s \in Schedules : RunClockOK(s)'
    BY <1>1, RunClockKept DEF TicksInv
  <1>3. TickOK(p) /\ DOMAIN sweep[p].listed \subseteq Schedules
    BY Listing DEF TicksInv
  <1>4. \A s \in DOMAIN sweep[p].listed : CopyIsFresh(p, s)'
    BY <1>3, CopyKept DEF TickOK
  <1>5. Current(p)' = Current(p) /\ Copy(p)' = Copy(p) /\ ~At(p, "advance")'
    BY DEF Current, Copy, At
  <1>6. sweep'[p].at \in AtWork => Ticked(Current(p), Copy(p).lastRun, sweep[p].now)'
    BY <1>5 DEF Ticked
  <1>7. TickOK(p)'
    BY <1>4, <1>5, <1>6 DEF TickOK, AtWork
  <1>8. QED
    BY <1>2, <1>7, SweepTicks

\* The copies left when a sweep goes on to its next schedule.
LEMMA NextTicks ==
  ASSUME TypeInv, NEW p \in Sweeps, sweep[p] # Idle, TickOK(p), UNCHANGED runs,
         \A s \in Schedules \ {Current(p)} : SameTimes(s), NextSchedule(p)
  PROVE  (sweep'[p] # Idle => TickOK(p)') /\ ~At(p, "advance")'
  <1> DEFINE rest == DOMAIN sweep[p].listed \ {Current(p)}
  <1>1. CASE sweep'[p] = Idle
    BY <1>1 DEF At, Idle
  <1>2. CASE sweep'[p].at = "gate" /\ sweep'[p].listed = [s \in rest |-> sweep[p].listed[s]]
    <2>1. rest \subseteq Schedules \ {Current(p)} /\ DOMAIN sweep'[p].listed = rest
      BY <1>2, Listing
    <2>2. ASSUME NEW s \in rest PROVE CopyIsFresh(p, s)'
      <3>1. sweep'[p].listed[s] = sweep[p].listed[s] /\ s \in Schedules /\ s # Current(p) /\ runs'[s] = runs[s]
        BY <1>2, <2>1
      <3>2. CopyIsFresh(p, s) /\ SameTimes(s)
        BY <2>1 DEF TickOK
      <3>3. QED
        BY <3>1, <3>2, CopyKept
    <2>3. sweep'[p].at \notin AtWork /\ ~At(p, "advance")'
      BY <1>2 DEF AtWork, At
    <2>4. \A s \in (DOMAIN sweep[p].listed)' : CopyIsFresh(p, s)'
      BY <2>1, <2>2
    <2>5. QED
      BY <2>3, <2>4 DEF TickOK, AtWork
  <1>3. QED
    BY <1>1, <1>2, NextScheduleGoes

LEMMA OnToNextTicks ==
  ASSUME TypeInv, OneSweep, TicksInv, NEW p \in Sweeps, sweep[p] # Idle, ~At(p, "advance"),
         UNCHANGED runs, \A s \in Schedules : SameTimes(s), NextSchedule(p)
  PROVE  TicksInv'
  <1>1. \A q \in Sweeps : ~At(q, "advance")
    BY NoneAdvances
  <1>2. \A s \in Schedules : RunClockOK(s)'
    BY <1>1, RunClockKept DEF TicksInv
  <1>3. sweep'[p] # Idle => TickOK(p)'
    BY NextTicks DEF TicksInv
  <1>4. QED
    BY <1>2, <1>3, SweepTicks

\* The cron gate lets a run start only after a tick since the last.
LEMMA DueGateTicks ==
  ASSUME TypeInv, OneSweep, TicksInv, NEW p \in Sweeps, sweep[p] # Idle, ~At(p, "advance"),
         UNCHANGED runs, \A s \in Schedules : SameTimes(s), DueGate(p)
  PROVE  TicksInv'
  <1>1. CASE NextSchedule(p)
    BY <1>1, OnToNextTicks
  <1>2. CASE IsDue(plan[Current(p)].cron, Copy(p).lastRun, sweep[p].now) /\ Goto(p, "start")
    <2>1. Current(p) \in Schedules /\ Copy(p).lastRun \in Instants /\ sweep[p].now \in Instants
      BY BusyParts DEF Registered
    <2>2. Ticked(Current(p), Copy(p).lastRun, sweep[p].now)
      <3> DEFINE cur == Current(p)
                 last == Copy(p).lastRun
                 now == sweep[p].now
      <3>1. cur \in Schedules /\ last \in Instants /\ now \in Instants /\ IsDue(plan[cur].cron, last, now)
        BY <1>2, <2>1
      <3> HIDE DEF cur, last, now
      <3>2. Ticked(cur, last, now)
        BY <3>1, DueHasTicked
      <3>3. QED
        BY <3>2 DEF cur, last, now
    <2>3. /\ sweep'[p].at = "start" /\ sweep'[p].listed = sweep[p].listed
          /\ sweep'[p].now = sweep[p].now
      BY <1>2, GotoGoes
    <2>4. QED
      BY <2>2, <2>3, WithinTicks
  <1>3. QED
    BY <1>1, <1>2 DEF DueGate

LEMMA OverlapGateTicks ==
  ASSUME TypeInv, OneSweep, TicksInv, NEW p \in Sweeps, OverlapGate(p)
  PROVE  TicksInv'
  <1>1. sweep[p] # Idle /\ At(p, "gate") /\ ~At(p, "advance")
    BY AtIsBusy DEF OverlapGate, Steps, At
  <1>2. UNCHANGED runs /\ \A s \in Schedules : SameTimes(s)
    BY SchedulesStayTimes DEF OverlapGate, history
  <1>3. CASE DueGate(p) \/ NextSchedule(p)
    BY <1>1, <1>2, <1>3, DueGateTicks, OnToNextTicks
  <1>4. CASE sweep' = [sweep EXCEPT ![p].at = "expire", ![p].ids = StillPending(p)]
    <2>1. sweep' = [sweep EXCEPT ![p] = Turn(p, "expire", sweep[p].step, StillPending(p), {})]
      BY <1>1, <1>4, GateExpires
    <2>2. sweep'[p].at = "expire" /\ sweep'[p].listed = sweep[p].listed /\ sweep'[p].now = sweep[p].now
      BY <2>1, TurnGoes
    <2>3. sweep'[p].at \notin AtWork /\ sweep'[p].at # "advance"
      BY <2>2 DEF AtWork
    <2>4. QED
      BY <1>1, <1>2, <2>2, <2>3, WithinTicks
  <1>5. QED
    BY <1>3, <1>4 DEF OverlapGate

LEMMA ExpireBatchTicks ==
  ASSUME TypeInv, OneSweep, TicksInv, NEW p \in Sweeps, ExpireBatch(p)
  PROVE  TicksInv'
  <1>1. sweep[p] # Idle /\ ~At(p, "advance")
    BY AtIsBusy DEF ExpireBatch, Steps, At
  <1>2. UNCHANGED runs /\ \A s \in Schedules : SameTimes(s)
    BY SchedulesStayTimes DEF ExpireBatch, history
  <1>3. sweep'[p].at = "mark" /\ sweep'[p].listed = sweep[p].listed /\ sweep'[p].now = sweep[p].now
    BY ExpireBatchGoes, TurnGoes
  <1>4. sweep'[p].at \notin AtWork /\ sweep'[p].at # "advance"
    BY <1>3 DEF AtWork
  <1>5. QED
    BY <1>1, <1>2, <1>3, <1>4, WithinTicks

LEMMA MarkExpiredTicks ==
  ASSUME TypeInv, OneSweep, TicksInv, NEW p \in Sweeps, MarkExpired(p)
  PROVE  TicksInv'
  <1>1. sweep[p] # Idle /\ ~At(p, "advance")
    BY AtIsBusy DEF MarkExpired, Steps, At
  <1>2. PICK batch : batch = [Copy(p).batch EXCEPT !.status = "expired"]
    OBVIOUS
  <1>3. batch \in Batches
    <2>1. Copy(p).batch \in Batches /\ 0 \in Instants
      <3>1. Copy(p) \in Registered
        BY <1>1, BusyParts
      <3>2. MaxClock \in Nat
        BY SchedulerAssumption
      <3>3. QED
        BY <3>1, <3>2 DEF Registered, Instants
    <2>2. CASE Copy(p).batch = NoBatch
      BY <1>2, <2>1, <2>2 DEF Batches, NoBatch
    <2>3. CASE Copy(p).batch # NoBatch
      BY <1>2, <2>1, <2>3 DEF Batches
    <2>4. QED
      BY <2>2, <2>3
  <1>4. Current(p) \in Schedules /\ SetLastBatch(Current(p), batch) /\ UNCHANGED runs /\ DueGate(p)
    BY <1>1, <1>2, BusyParts DEF MarkExpired, history
  <1>5. \A s \in Schedules : SameTimes(s)
    BY <1>3, <1>4, BatchLeavesTimes
  <1>6. QED
    BY <1>1, <1>4, <1>5, DueGateTicks

LEMMA StartRunTicks ==
  ASSUME TypeInv, OneSweep, TicksInv, NEW p \in Sweeps, StartRun(p)
  PROVE  TicksInv'
  <1>1. sweep[p] # Idle /\ sweep[p].at = "start" /\ ~At(p, "advance")
    BY AtIsBusy DEF StartRun, Steps, At
  <1>2. PICK batch : batch = Batch("running", sweep[p].now, {})
    OBVIOUS
  <1>3. batch \in Batches /\ Current(p) \in Schedules /\ SetLastBatch(Current(p), batch) /\ UNCHANGED runs
    BY <1>1, <1>2, BusyParts, BatchType DEF StartRun, history
  <1>4. \A s \in Schedules : SameTimes(s)
    BY <1>3, BatchLeavesTimes
  <1>5. sweep'[p].at = "drive" /\ sweep'[p].listed = sweep[p].listed /\ sweep'[p].now = sweep[p].now
    BY <1>1, GotoGoes DEF StartRun
  <1>6. Ticked(Current(p), Copy(p).lastRun, sweep[p].now)
    BY <1>1 DEF TicksInv, TickOK, AtWork
  <1>7. QED
    BY <1>1, <1>3, <1>4, <1>5, <1>6, WithinTicks

\* A step of a run at work, which changes no schedule.
LEMMA WorkTicks ==
  ASSUME TypeInv, OneSweep, TicksInv, NEW p \in Sweeps, sweep[p].at \in AtWork, sweep[p] # Idle,
         UNCHANGED <<schedule, runs>>,
         sweep'[p].listed = sweep[p].listed, sweep'[p].now = sweep[p].now, sweep'[p].at # "advance"
  PROVE  TicksInv'
  <1>1. ~At(p, "advance")
    BY DEF At, AtWork
  <1>2. Ticked(Current(p), Copy(p).lastRun, sweep[p].now)
    BY DEF TicksInv, TickOK
  <1>3. \A s \in Schedules : SameTimes(s)
    BY SchedulesStayTimes
  <1>4. QED
    BY <1>1, <1>2, <1>3, WithinTicks

LEMMA DriveTicks ==
  ASSUME TypeInv, OneSweep, TicksInv, NEW p \in Sweeps,
         StageWrite(p) \/ EndDrive(p) \/ LoadForStamp(p) \/ StoreStamp(p)
  PROVE  TicksInv'
  <1>1. sweep[p] # Idle /\ sweep[p].at \in AtWork /\ UNCHANGED <<schedule, runs>>
    BY AtIsBusy DEF StageWrite, EndDrive, LoadForStamp, StoreStamp, Steps, At, AtWork, history
  <1>2. /\ sweep'[p].listed = sweep[p].listed /\ sweep'[p].now = sweep[p].now
        /\ sweep'[p].at # "advance"
    <2>1. CASE StageWrite(p)
      <3> DEFINE ids == sweep[p].ids \cup {Min(Unminted)}
                 count == sweep[p].step + 1
      <3>1. sweep' = [sweep EXCEPT ![p] = Turn(p, "drive", count, ids, sweep[p].left)]
        BY <2>1, StageWriteGoes
      <3> HIDE DEF ids, count
      <3>2. sweep'[p].at = "drive" /\ sweep'[p].listed = sweep[p].listed /\ sweep'[p].now = sweep[p].now
        BY <3>1, TurnGoes
      <3>3. QED
        BY <3>2
    <2>2. CASE EndDrive(p)
      BY <2>2, EndDriveGoes, TurnGoes
    <2>3. CASE LoadForStamp(p) /\ Min(sweep[p].left) \in Pending
      <3>1. Goto(p, "store")
        BY <2>3 DEF LoadForStamp
      <3>2. QED
        BY <1>1, <3>1, GotoGoes
    <2>4. CASE (LoadForStamp(p) /\ Min(sweep[p].left) \notin Pending) \/ StoreStamp(p)
      <3> DEFINE rest == sweep[p].left \ {Min(sweep[p].left)}
      <3>1. sweep' = [sweep EXCEPT ![p] = Turn(p, "stamp", sweep[p].step, sweep[p].ids, rest)]
        BY <2>4, LoadForStampGoes, StoreStampGoes
      <3> HIDE DEF rest
      <3>2. sweep'[p].at = "stamp" /\ sweep'[p].listed = sweep[p].listed /\ sweep'[p].now = sweep[p].now
        BY <3>1, TurnGoes
      <3>3. QED
        BY <3>2
    <2>5. QED
      BY <2>1, <2>2, <2>3, <2>4
  <1>3. QED
    BY <1>1, <1>2, WorkTicks

LEMMA RunRaisesTicks ==
  ASSUME TypeInv, OneSweep, TicksInv, NEW p \in Sweeps, RunRaises(p)
  PROVE  TicksInv'
  <1>1. sweep[p] # Idle /\ ~At(p, "advance")
    BY AtIsBusy DEF RunRaises, Steps, At
  <1>2. PICK batch : batch = Batch("failed", sweep[p].now, {})
    OBVIOUS
  <1>3. batch \in Batches /\ Current(p) \in Schedules /\ SetLastBatch(Current(p), batch)
    BY <1>1, <1>2, BusyParts, BatchType DEF RunRaises
  <1>4. \A s \in Schedules : SameTimes(s)
    BY <1>3, BatchLeavesTimes
  <1>5. QED
    BY <1>1, <1>4, OnToNextTicks DEF RunRaises

\* The run is recorded: a tick lies between it and all before it.
LEMMA RecordBatchTicks ==
  ASSUME TypeInv, OneSweep, TicksInv, NEW p \in Sweeps, RecordBatch(p)
  PROVE  TicksInv'
  <1>1. sweep[p] # Idle /\ sweep[p].at = "stamp" /\ ~At(p, "advance")
    BY AtIsBusy DEF RecordBatch, Steps, At
  <1>2. PICK cur : cur = Current(p)
    OBVIOUS
  <1>3. PICK now : now = sweep[p].now
    OBVIOUS
  <1>4. PICK last : last = Copy(p).lastRun
    OBVIOUS
  <1>5. PICK created : created = Copy(p).created
    OBVIOUS
  <1>6. PICK batch : batch = Batch(IF sweep[p].ids = {} THEN "done" ELSE "pending", sweep[p].now, sweep[p].ids)
    OBVIOUS
  <1>7. /\ cur \in Schedules /\ now \in Instants /\ last \in Instants /\ created \in Instants
        /\ batch \in Batches /\ SetLastBatch(cur, batch) /\ cur \in DOMAIN sweep[p].listed
        /\ runs' = [runs EXCEPT ![cur] = Append(runs[cur], now)]
    BY <1>1, <1>2, <1>3, <1>4, <1>5, <1>6, BusyParts, Listing, BatchType DEF RecordBatch, Registered
  <1>8. \A s \in Schedules : SameTimes(s)
    BY <1>7, BatchLeavesTimes
  <1>9. sweep'[p].at = "advance" /\ sweep'[p].listed = sweep[p].listed /\ sweep'[p].now = now
    BY <1>1, <1>3, GotoGoes DEF RecordBatch
  <1>10. Current(p)' = cur /\ At(p, "advance")' /\ Copy(p)' = Copy(p)
    BY <1>2, <1>9 DEF Current, Copy, At
  <1>11. TickOK(p) /\ CopyIsFresh(p, cur) /\ Ticked(cur, last, now)
    BY <1>1, <1>2, <1>3, <1>4, <1>7 DEF TicksInv, TickOK, AtWork
  <1>12. /\ schedule[cur] # NotAdded /\ created <= last
         /\ Exists(cur) => schedule[cur].created = created
         /\ \A i \in DOMAIN runs[cur] : runs[cur][i] <= last
    BY <1>1, <1>2, <1>4, <1>5, <1>11 DEF CopyIsFresh, Copy, RunsBy
  <1>13. runs[cur] \in Seq(Instants) /\ runs \in [Schedules -> Seq(Instants)]
    BY <1>7 DEF TypeInv, Types
  <1>14. Instants \subseteq Int
    BY SchedulerAssumption DEF Instants
  <1>15. /\ runs'[cur] = Append(runs[cur], now) /\ \A s \in Schedules \ {cur} : runs'[s] = runs[s]
    BY <1>7, <1>13
  <1>16. PICK len : len = Len(runs[cur])
    OBVIOUS
  <1>17. /\ len \in Nat /\ DOMAIN runs[cur] = 1..len /\ DOMAIN runs'[cur] = 1..(len + 1)
         /\ runs'[cur][len + 1] = now
         /\ \A i \in 1..len : runs'[cur][i] = runs[cur][i] /\ runs[cur][i] \in Instants
    BY <1>7, <1>13, <1>15, <1>16
  <1>18. last < now /\ Ticked(cur, created, now)
    BY <1>7, <1>11, <1>12, TickedSince
  <1>19. ASSUME NEW i \in 1..len
         PROVE  Ticked(cur, runs[cur][i], now) /\ runs[cur][i] <= now
    <2>1. runs[cur][i] \in Instants /\ runs[cur][i] <= last
      BY <1>12, <1>17
    <2>2. Ticked(cur, runs[cur][i], now)
      BY <1>7, <1>11, <2>1, TickedSince
    <2>3. runs[cur][i] \in Int /\ last \in Int /\ now \in Int
      BY <1>7, <1>14, <2>1
    <2>4. QED
      BY <1>18, <2>1, <2>2, <2>3
  <1>20. RunClockOK(cur)'
    <2>1. RunClockOK(cur)
      BY <1>7 DEF TicksInv
    <2>2. ASSUME NEW i \in DOMAIN runs'[cur], NEW j \in 1..(i - 1)
          PROVE  Ticked(cur, runs'[cur][j], runs'[cur][i])
      <3>1. CASE i = len + 1
        BY <1>17, <1>19, <3>1
      <3>2. CASE i \in 1..len
        <4>1. j \in 1..len
          BY <1>17, <3>2
        <4>2. Ticked(cur, runs[cur][j], runs[cur][i])
          BY <1>17, <2>1, <3>2 DEF RunClockOK
        <4>3. QED
          BY <1>17, <3>2, <4>1, <4>2
      <3>3. QED
        BY <1>17, <3>1, <3>2
    <2>3. ASSUME Exists(cur)', NEW i \in DOMAIN runs'[cur]
          PROVE  Ticked(cur, schedule'[cur].created, runs'[cur][i])
      <3>1. Exists(cur) /\ schedule'[cur].created = created
        BY <1>7, <1>8, <1>12, <2>3 DEF SameTimes
      <3>2. CASE i = len + 1
        BY <1>17, <1>18, <3>1, <3>2
      <3>3. CASE i \in 1..len
        BY <1>12, <1>17, <2>1, <3>1, <3>3 DEF RunClockOK
      <3>4. QED
        BY <1>17, <3>2, <3>3
    <2>4. Exists(cur)' => schedule'[cur].created <= schedule'[cur].lastRun
      BY <1>7, <1>8, <2>1 DEF SameTimes, RunClockOK
    <2>5. schedule'[cur] # NotAdded
      BY <1>7, <1>8, <1>12 DEF SameTimes
    <2>6. QED
      BY <1>10, <2>2, <2>3, <2>4, <2>5 DEF RunClockOK, Ticked
  <1>21. ASSUME NEW s \in Schedules \ {cur} PROVE RunClockOK(s)'
    <2>1. \A q \in Sweeps : ~At(q, "advance")
      BY <1>1, NoneAdvances
    <2>2. RunClockOK(s) /\ SameTimes(s) /\ runs'[s] = runs[s]
      BY <1>8, <1>15 DEF TicksInv
    <2>3. QED
      BY <2>1, <2>2, RunClockKept
  <1>22. ASSUME NEW s \in DOMAIN sweep[p].listed PROVE CopyIsFresh(p, s)'
    <2>1. CopyIsFresh(p, s) /\ SameTimes(s) /\ s \in Schedules
      BY <1>1, <1>8, <1>11, Listing DEF TickOK
    <2>2. CASE s # cur
      <3>1. runs'[s] = runs[s]
        BY <1>15, <2>1, <2>2
      <3>2. QED
        BY <1>1, <1>9, <2>1, <3>1, CopyKept
    <2>3. CASE s = cur
      BY <1>9, <1>10, <2>1, <2>3 DEF CopyIsFresh, SameTimes
    <2>4. QED
      BY <2>2, <2>3
  <1>23. TickOK(p)'
    <2>1. sweep'[p].at \notin AtWork
      BY <1>9 DEF AtWork
    <2>2. \A i \in DOMAIN runs'[cur] : runs'[cur][i] <= now
      <3>1. ASSUME NEW i \in DOMAIN runs'[cur] PROVE runs'[cur][i] <= now
        <4>1. CASE i = len + 1
          BY <1>7, <1>14, <1>17, <4>1
        <4>2. CASE i \in 1..len
          BY <1>17, <1>19, <4>2
        <4>3. QED
          BY <1>17, <4>1, <4>2
      <3>2. QED
        BY <3>1
    <2>3. created <= now
      BY <1>7, <1>12, <1>14, <1>18
    <2>4. RunsBy(Current(p), sweep[p].now)' /\ (Copy(p).created <= sweep[p].now)'
      BY <1>5, <1>9, <1>10, <2>2, <2>3 DEF RunsBy
    <2>5. QED
      BY <1>9, <1>22, <2>1, <2>4 DEF TickOK, AtWork
  <1>24. QED
    BY <1>20, <1>21, <1>23, SweepTicks

\* The run clock is advanced to the run just recorded.
LEMMA AdvanceClockTicks ==
  ASSUME TypeInv, OneSweep, TicksInv, NEW p \in Sweeps, AdvanceClock(p)
  PROVE  TicksInv'
  <1>1. sweep[p] # Idle /\ At(p, "advance") /\ NextSchedule(p) /\ UNCHANGED runs
    BY AtIsBusy DEF AdvanceClock, Steps, history
  <1>2. PICK cur : cur = Current(p)
    OBVIOUS
  <1>3. PICK now : now = sweep[p].now
    OBVIOUS
  <1>4. /\ cur \in Schedules /\ now \in Instants /\ cur \in DOMAIN sweep[p].listed
        /\ SetLastRun(cur, now)
    BY <1>1, <1>2, <1>3, BusyParts, Listing DEF AdvanceClock
  <1>5. TickOK(p) /\ CopyIsFresh(p, cur) /\ RunsBy(cur, now) /\ sweep[p].listed[cur].created <= now
    BY <1>1, <1>2, <1>3, <1>4 DEF TicksInv, TickOK, Copy
  <1>6. /\ \A s \in Schedules : Exists(s)' <=> Exists(s)
        /\ \A s \in Schedules : ~Exists(s) => schedule'[s] = schedule[s]
    BY <1>4, SetLastRunType DEF TypeInv
  <1>7. ASSUME Exists(cur)
        PROVE  schedule'[cur].lastRun = now /\ schedule'[cur].created = schedule[cur].created
    <2>1. schedule[cur] \in Registered /\ schedule' = [schedule EXCEPT ![cur].lastRun = now]
      BY <1>4, <1>7 DEF SetLastRun, Exists, TypeInv, Types
    <2>2. schedule'[cur] = [schedule[cur] EXCEPT !.lastRun = now]
      BY <1>4, <2>1 DEF TypeInv, Types
    <2>3. QED
      BY <2>1, <2>2 DEF Registered
  <1>8. ASSUME NEW s \in Schedules \ {cur} PROVE SameTimes(s)
    <2>1. schedule'[s] = schedule[s]
      BY <1>4 DEF SetLastRun, TypeInv, Types
    <2>2. QED
      BY <2>1 DEF SameTimes, Exists
  <1>9. (sweep'[p] # Idle => TickOK(p)') /\ ~At(p, "advance")'
    BY <1>1, <1>2, <1>5, <1>8, NextTicks
  <1>10. ASSUME NEW s \in Schedules \ {cur} PROVE RunClockOK(s)'
    <2>1. \A q \in Sweeps : At(q, "advance") => Current(q) # s
      BY <1>2 DEF OneSweep
    <2>2. RunClockOK(s) /\ SameTimes(s) /\ runs'[s] = runs[s]
      BY <1>1, <1>8 DEF TicksInv
    <2>3. QED
      BY <2>1, <2>2, RunClockKept
  <1>11. RunClockOK(cur)'
    <2>1. RunClockOK(cur) /\ schedule[cur] # NotAdded
      BY <1>4, <1>5 DEF TicksInv, CopyIsFresh
    <2>2. schedule'[cur] # NotAdded
      BY <1>4, <1>6, <2>1 DEF Exists
    <2>3. ASSUME Exists(cur)'
          PROVE  /\ schedule'[cur].created <= schedule'[cur].lastRun
                 /\ \A i \in DOMAIN runs'[cur] : Ticked(cur, schedule'[cur].created, runs'[cur][i])
                 /\ \A i \in DOMAIN runs'[cur] : runs'[cur][i] <= schedule'[cur].lastRun
      <3>1. Exists(cur)
        BY <1>4, <1>6, <2>3
      <3>2. schedule'[cur].lastRun = now /\ schedule'[cur].created = schedule[cur].created
        BY <1>7, <3>1
      <3>3. schedule[cur].created <= now
        BY <1>5, <3>1 DEF CopyIsFresh
      <3>4. QED
        BY <1>1, <1>5, <2>1, <3>1, <3>2, <3>3 DEF RunClockOK, RunsBy
    <2>4. \A i \in DOMAIN runs'[cur] : \A j \in 1..(i - 1) : Ticked(cur, runs'[cur][j], runs'[cur][i])
      BY <1>1, <2>1 DEF RunClockOK
    <2>5. QED
      BY <2>2, <2>3, <2>4 DEF RunClockOK, RunsBy, Ticked
  <1>12. QED
    BY <1>9, <1>10, <1>11, SweepTicks

\* What a sweep lists is what is stored.
LEMMA BeginTicks ==
  ASSUME TypeInv, OneSweep, TicksInv, NEW p \in Sweeps, Begin(p)
  PROVE  TicksInv'
  <1> DEFINE all == {s \in Schedules : Exists(s)}
             job == [at |-> "gate", now |-> clock, step |-> 0, ids |-> {}, left |-> {},
                     listed |-> [s \in all |-> schedule[s]]]
  <1>1. ~At(p, "advance") /\ UNCHANGED <<schedule, runs>>
    BY DEF Begin, At, Idle, history
  <1>2. \A s \in Schedules : SameTimes(s)
    BY <1>1, SchedulesStayTimes
  <1>3. sweep'[p].at = "gate" /\ sweep'[p].listed = [s \in all |-> schedule[s]]
    <2>1. sweep' = [sweep EXCEPT ![p] = job]
      BY DEF Begin
    <2>2. job.at = "gate" /\ job.listed = [s \in all |-> schedule[s]]
      OBVIOUS
    <2> HIDE DEF job
    <2>3. QED
      BY <2>1, <2>2, Moves
  <1>4. \A q \in Sweeps : ~At(q, "advance")
    BY <1>1, NoneAdvances
  <1>5. \A s \in Schedules : RunClockOK(s)'
    BY <1>1, <1>2, <1>4, RunClockKept DEF TicksInv
  <1>6. ASSUME NEW s \in all PROVE CopyIsFresh(p, s)'
    <2>1. RunClockOK(s) /\ schedule[s] # NotAdded
      BY DEF TicksInv, Exists
    <2>2. schedule[s].created <= schedule[s].lastRun /\ RunsBy(s, schedule[s].lastRun)
      BY <1>4, <2>1 DEF RunClockOK
    <2>3. sweep'[p].listed[s] = schedule[s]
      BY <1>3
    <2>4. QED
      BY <1>1, <2>1, <2>2, <2>3 DEF CopyIsFresh, RunsBy
  <1>7. (DOMAIN sweep[p].listed)' = all
    BY <1>3
  <1>8. sweep'[p].at \notin AtWork /\ ~At(p, "advance")'
    BY <1>3 DEF AtWork, At
  <1>9. TickOK(p)'
    BY <1>6, <1>7, <1>8 DEF TickOK, AtWork
  <1>10. QED
    BY <1>5, <1>9, SweepTicks

LEMMA AddTicks ==
  ASSUME TypeInv, TicksInv, NEW s \in Schedules, Add(s)
  PROVE  TicksInv'
  <1>1. /\ schedule' = [schedule EXCEPT ![s] = [created |-> clock, lastRun |-> clock, batch |-> NoBatch]]
        /\ schedule[s] = NotAdded /\ UNCHANGED <<sweep, runs>>
    BY DEF Add, history
  <1>2. ASSUME NEW t \in Schedules, t # s PROVE SameTimes(t)
    BY <1>1, <1>2 DEF SameTimes, Exists, TypeInv, Types
  <1>3. RunClockOK(s)'
    <2>1. runs'[s] = <<>>
      BY <1>1 DEF TicksInv, RunClockOK
    <2>2. DOMAIN runs'[s] = {}
      BY <2>1
    <2>3. schedule'[s].created = clock /\ schedule'[s].lastRun = clock
      BY <1>1 DEF TypeInv, Types
    <2>4. schedule'[s].created <= schedule'[s].lastRun
      <3>1. clock \in Int
        BY SchedulerAssumption DEF TypeInv, Types, Instants
      <3>2. QED
        BY <2>3, <3>1
    <2>5. QED
      BY <2>1, <2>2, <2>4 DEF RunClockOK, RunsBy
  <1>4. ASSUME NEW t \in Schedules, t # s PROVE RunClockOK(t)'
    BY <1>1, <1>2, <1>4, RunClockKept DEF TicksInv, At, Current
  <1>5. ASSUME NEW p \in Sweeps, sweep[p] # Idle PROVE TickOK(p)'
    <2>1. TickOK(p) /\ DOMAIN sweep[p].listed \subseteq Schedules
      BY <1>5, Listing DEF TicksInv
    <2>2. ASSUME NEW t \in DOMAIN sweep[p].listed PROVE CopyIsFresh(p, t)'
      <3>1. CopyIsFresh(p, t) /\ t # s /\ t \in Schedules
        BY <1>1, <2>1 DEF TickOK, CopyIsFresh
      <3>2. QED
        BY <1>1, <1>2, <3>1, CopyKept DEF At, Current
    <2>3. QED
      BY <1>1, <2>1, <2>2 DEF TickOK, At, Current, Copy, RunsBy, Ticked
  <1>6. QED
    BY <1>1, <1>3, <1>4, <1>5 DEF TicksInv

\* What leaves the sweeps alone and takes the times of no schedule.
LEMMA OutsideTicks ==
  ASSUME TypeInv, TicksInv, UNCHANGED <<sweep, runs>>, \A s \in Schedules : SameTimes(s)
  PROVE  TicksInv'
  <1>1. ASSUME NEW s \in Schedules PROVE RunClockOK(s)'
    BY RunClockKept DEF TicksInv, At, Current
  <1>2. ASSUME NEW p \in Sweeps, sweep[p] # Idle PROVE TickOK(p)'
    <2>1. TickOK(p) /\ DOMAIN sweep[p].listed \subseteq Schedules
      BY <1>2, Listing DEF TicksInv
    <2>2. ASSUME NEW s \in DOMAIN sweep[p].listed PROVE CopyIsFresh(p, s)'
      BY <2>1, CopyKept DEF TickOK, At, Current
    <2>3. QED
      BY <2>1, <2>2 DEF TickOK, At, Current, Copy, RunsBy, Ticked
  <1>3. QED
    BY <1>1, <1>2 DEF TicksInv

LEMMA RestTicks ==
  ASSUME TypeInv, TicksInv,
         \/ \E s \in Schedules : Add(s) \/ Remove(s)
         \/ \E id \in Ids : Answer(id)
         \/ Reap \/ Tick \/ UNCHANGED vars
  PROVE  TicksInv'
  <1>1. ASSUME NEW s \in Schedules, Remove(s) PROVE TicksInv'
    <2>1. ASSUME NEW t \in Schedules PROVE SameTimes(t)
      <3>1. schedule' = [schedule EXCEPT ![s] = Removed]
        BY <1>1 DEF Remove
      <3>2. CASE t = s
        BY <3>1, <3>2 DEF SameTimes, Exists, NotAdded, Removed, TypeInv, Types
      <3>3. CASE t # s
        BY <3>1, <3>3 DEF SameTimes, Exists, TypeInv, Types
      <3>4. QED
        BY <3>2, <3>3
    <2>2. QED
      BY <1>1, <2>1, OutsideTicks DEF Remove, history
  <1>2. CASE UNCHANGED <<schedule, sweep, runs>>
    BY <1>2, SchedulesStayTimes, OutsideTicks
  <1>3. QED
    BY <1>1, <1>2, AddTicks DEF Answer, Reap, Tick, vars, history

LEMMA RunsStep ==
  ASSUME TypeInv, OneSweep, RunsInv, [Next]_vars
  PROVE  RunsInv'
  <1>1. mishap' = "crash" \/ mishap = mishap' \/ mishap = "none"
    BY DEF Next, vars, history, Begin, SweepStep, OverlapGate, ExpireBatch, MarkExpired, StartRun,
           StageWrite, EndDrive, LoadForStamp, StoreStamp, RecordBatch, AdvanceClock, RunRaises,
           Crash, Mishap, Add, Remove, Answer, Reap, Tick
  <1>2. CASE \E p \in Sweeps : Crash(p)
    BY <1>2 DEF Crash, Mishap, RunsInv
  <1>3. ASSUME ~ \E p \in Sweeps : Crash(p), mishap' # "crash" PROVE TicksInv'
    <2>1. TicksInv
      BY <1>1, <1>3 DEF RunsInv
    <2>2. ASSUME NEW p \in Sweeps, SweepStep(p) PROVE TicksInv'
      BY <2>1, <2>2, OverlapGateTicks, ExpireBatchTicks, MarkExpiredTicks, StartRunTicks,
         DriveTicks, RecordBatchTicks, AdvanceClockTicks DEF SweepStep
    <2>3. QED
      BY <1>3, <2>1, <2>2, BeginTicks, RunRaisesTicks, RestTicks DEF Next
  <1>4. QED
    BY <1>2, <1>3 DEF RunsInv

LEMMA RunsInit == ASSUME Init PROVE RunsInv
  <1>1. \A s \in Schedules : schedule[s] = NotAdded /\ runs[s] = <<>> /\ DOMAIN runs[s] = {}
    BY DEF Init
  <1>2. \A p \in Sweeps : sweep[p] = Idle
    BY DEF Init
  <1>3. QED
    BY <1>1, <1>2 DEF RunsInv, TicksInv, RunClockOK, Exists

\* With one sweep at a time a tick of a schedule is run once: a tick lies between
\* its creation and each of its runs, and between any two of them, also when runs
\* raise or fail half-way, batches expire, or their schedule is removed meanwhile.
THEOREM TicksRunOnce ==
  ASSUME OneSweep
  PROVE  Spec => []EachTickOnce
  <1>1. Init => RunsInv
    BY RunsInit
  <1>2. TypeInv /\ RunsInv /\ [Next]_vars => RunsInv'
    BY RunsStep
  <1>3. RunsInv => EachTickOnce
    BY DEF RunsInv, TicksInv, RunClockOK, EachTickOnce
  <1>4. QED
    BY <1>1, <1>2, <1>3, TypeInvariant, PTL DEF Spec
=============================================================================
