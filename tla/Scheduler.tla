------------------------------ MODULE Scheduler ------------------------------
(***************************************************************************)
(* Scheduled tasks: orchestrator.run_scheduled_due with schedule_store,    *)
(* the cron gate, and what the operator and the 24 h reaper do to the      *)
(* previews a run stages.                                                  *)
(*                                                                         *)
(* A sweep is one `schedule run-due` process, started by an external       *)
(* timer.  It works on copies of the schedules it listed at its start.     *)
(* Each action is the code between two file operations, where the operator *)
(* and other processes run.  What answering a preview does to HubSpot is   *)
(* WriteGate's; here an answer removes the preview.                        *)
(***************************************************************************)
EXTENDS Cron, FiniteSets, FiniteSetsExt

CONSTANTS
    Sweeps,    \* processes that run `schedule run-due`
    Schedules, \* 1..n, in the order they are added
    plan,      \* schedule -> [cron, writes]: its compiled cron, how many writes it stages
    Ids,       \* 1..n, action ids in the order they are minted; n bounds the stagings
    TTL,       \* schedule_queue_ttl_days, in instants
    ReapAge,   \* the reaper's 24 hours, in instants
    Faults,    \* what may go wrong
    MaxClock   \* bound on the clock

AllFaults ==
    {"step_fails",  \* a step of the plan fails, or the plan's budget is spent
     "run_raises",  \* the replay raises out of _drive_loop
     "crash",       \* the sweep dies; of these three one happens, once
     "stamp_race"}  \* an answer lands between the stamp's load and its store

ASSUME SchedulerAssumption ==
    /\ IsFiniteSet(Schedules) /\ Schedules = 1..Cardinality(Schedules)
    /\ IsFiniteSet(Ids) /\ Ids = 1..Cardinality(Ids)
    /\ {TTL, ReapAge, MaxClock} \subseteq Nat
    /\ Faults \subseteq AllFaults
    /\ \A s \in Schedules : plan[s].writes \in Nat
    /\ DOMAIN Calendar = 0..Minute(MaxClock)

VARIABLES
    clock,
    schedule, \* schedules/<id>.json
    preview,  \* pending_previews/<id>.json
    sweep,    \* what each process is doing
    minted,   \* history: action id -> the run that staged it
    answered, \* history: ids the operator approved or rejected
    runs,     \* history: schedule -> the instants of its recorded runs
    mishap    \* history: which of the first three faults happened, if one did

history == <<minted, answered, runs, mishap>>
vars    == <<clock, schedule, preview, sweep, history>>

NotAdded   == [gone |-> FALSE]
Removed    == [gone |-> TRUE]
NoBatch    == [status |-> "none", at |-> 0, ids |-> {}]
NoPreview  == [stamped |-> FALSE, stored |-> Never]
NotMinted  == [of |-> 0, at |-> Never]
Idle       == [at |-> "idle"]

Instants   == 0..MaxClock
Batches    == [status : {"running", "pending", "done", "failed", "expired"},
               at : Instants, ids : SUBSET Ids] \cup {NoBatch}
Registered == [created : Instants, lastRun : Instants, batch : Batches]
Stored     == [stamped : BOOLEAN, stored : Instants]
Steps      == {"gate", "expire", "mark", "start", "drive", "stamp", "store", "advance"}
JobOn(all) == [at : Steps, now : Instants, step : Nat, ids : SUBSET Ids, left : SUBSET Ids,
               listed : [all -> Registered]]

TypeOK ==
    /\ clock \in Instants
    /\ schedule \in [Schedules -> Registered \cup {NotAdded, Removed}]
    /\ preview \in [Ids -> Stored \cup {NoPreview}]
    /\ minted \in [Ids -> [of : Schedules, at : Instants] \cup {NotMinted}]
    /\ answered \subseteq {id \in Ids : minted[id] # NotMinted}
    /\ runs \in [Schedules -> Seq(Instants)]
    /\ mishap \in {"none", "step_fails", "run_raises", "crash"}
    /\ DOMAIN sweep = Sweeps
    /\ \A p \in Sweeps : sweep[p] # Idle =>
          /\ \E all \in (SUBSET Schedules) \ {{}} : sweep[p] \in JobOn(all)
          /\ sweep[p].left \subseteq sweep[p].ids

Init ==
    /\ clock = 0
    /\ schedule = [s \in Schedules |-> NotAdded]
    /\ preview = [id \in Ids |-> NoPreview]
    /\ sweep = [p \in Sweeps |-> Idle]
    /\ minted = [id \in Ids |-> NotMinted]
    /\ answered = {}
    /\ runs = [s \in Schedules |-> <<>>]
    /\ mishap = "none"

-----------------------------------------------------------------------------
(* Stores *)

Exists(s)  == schedule[s] \notin {NotAdded, Removed}
Pending    == {id \in Ids : preview[id] # NoPreview}
Unminted   == {id \in Ids : minted[id] = NotMinted}

\* schedule_store._mutate: nothing happens to a schedule that is gone.
SetLastBatch(s, batch) ==
    schedule' = IF Exists(s) THEN [schedule EXCEPT ![s].batch = batch] ELSE schedule

\* Seeded fault: a schedule that is gone is written anew.
SetLastRunAnyway(s, when) == schedule' = [schedule EXCEPT ![s] = [lastRun |-> when]]

SetLastRun(s, when) ==
    schedule' = IF Exists(s) THEN [schedule EXCEPT ![s].lastRun = when] ELSE schedule

Batch(status, at, ids) == [status |-> status, at |-> at, ids |-> ids]

-----------------------------------------------------------------------------
(* A sweep *)

At(p, step) == sweep[p].at = step

\* list_schedules is newest first.
Current(p) == Max(DOMAIN sweep[p].listed)
Copy(p)    == sweep[p].listed[Current(p)]

Goto(p, step) == sweep' = [sweep EXCEPT ![p].at = step]

NextSchedule(p) ==
    LET rest == DOMAIN sweep[p].listed \ {Current(p)}
    IN  sweep' = [sweep EXCEPT ![p] =
            IF rest = {} THEN Idle
            ELSE [at |-> "gate", now |-> sweep[p].now, step |-> 0, ids |-> {}, left |-> {},
                  listed |-> [s \in rest |-> sweep[p].listed[s]]]]

Mishap(fault) ==
    /\ fault \in Faults
    /\ mishap = "none"
    /\ mishap' = fault

Begin(p) ==
    LET all == {s \in Schedules : Exists(s)}
    IN  /\ sweep[p] = Idle
        /\ all # {}
        /\ sweep' = [sweep EXCEPT ![p] =
              [at |-> "gate", now |-> clock, step |-> 0, ids |-> {}, left |-> {},
               listed |-> [s \in all |-> schedule[s]]]]
        /\ UNCHANGED <<clock, schedule, preview, history>>

DueGate(p) ==
    IF IsDue(plan[Current(p)].cron, Copy(p).lastRun, sweep[p].now)
    THEN Goto(p, "start")
    ELSE NextSchedule(p)

\* Seeded fault: a batch that is recorded no longer holds its schedule back.
RunningStillPending(p) == IF Copy(p).batch.status = "running" THEN Copy(p).batch.ids \cap Pending ELSE {}

\* "Still pending" is what is on disk, whatever the batch's status says.
StillPending(p) ==
    IF Copy(p).batch.status \in {"running", "pending"}
    THEN Copy(p).batch.ids \cap Pending
    ELSE {}

\* Seeded fault: an unreviewed batch never expires.
NeverExpired(p) == FALSE

Expired(p) == sweep[p].now - Copy(p).batch.at >= TTL

OverlapGate(p) ==
    /\ At(p, "gate")
    /\ CASE StillPending(p) = {} -> DueGate(p)
         [] StillPending(p) # {} /\ ~Expired(p) -> NextSchedule(p)
         [] OTHER -> sweep' = [sweep EXCEPT ![p].at = "expire", ![p].ids = StillPending(p)]
    /\ UNCHANGED <<clock, schedule, preview, history>>

ExpireBatch(p) ==
    /\ At(p, "expire")
    /\ preview' = [id \in Ids |-> IF id \in sweep[p].ids THEN NoPreview ELSE preview[id]]
    /\ sweep' = [sweep EXCEPT ![p].at = "mark", ![p].ids = {}]
    /\ UNCHANGED <<clock, schedule, history>>

MarkExpired(p) ==
    /\ At(p, "mark")
    /\ SetLastBatch(Current(p), [Copy(p).batch EXCEPT !.status = "expired"])
    /\ DueGate(p)
    /\ UNCHANGED <<clock, preview, history>>

StartRun(p) ==
    /\ At(p, "start")
    /\ SetLastBatch(Current(p), Batch("running", sweep[p].now, {}))
    /\ Goto(p, "drive")
    /\ UNCHANGED <<clock, preview, history>>

\* A write step of the replay: the preview is stored, nothing is sent.
StageWrite(p) ==
    /\ At(p, "drive")
    /\ sweep[p].step < plan[Current(p)].writes
    /\ Unminted # {}
    /\ LET id == Min(Unminted)
       IN  /\ preview' = [preview EXCEPT ![id] = [stamped |-> FALSE, stored |-> clock]]
           /\ minted' = [minted EXCEPT ![id] = [of |-> Current(p), at |-> sweep[p].now]]
           /\ sweep' = [sweep EXCEPT ![p].step = @ + 1, ![p].ids = @ \cup {id}]
    /\ UNCHANGED <<clock, schedule, answered, runs, mishap>>

EndDrive(p) ==
    /\ At(p, "drive")
    /\ \/ sweep[p].step = plan[Current(p)].writes /\ UNCHANGED mishap
       \/ sweep[p].step < plan[Current(p)].writes /\ Mishap("step_fails")
    /\ sweep' = [sweep EXCEPT ![p].at = "stamp", ![p].left = sweep[p].ids]
    /\ UNCHANGED <<clock, schedule, preview, minted, answered, runs>>

\* One schedule's failure does not abort the sweep; its run clock stays.
RunRaises(p) ==
    /\ At(p, "drive")
    /\ Mishap("run_raises")
    /\ SetLastBatch(Current(p), Batch("failed", sweep[p].now, {}))
    /\ NextSchedule(p)
    /\ UNCHANGED <<clock, preview, minted, answered, runs>>

\* The load of the stamp: a preview that is gone is left alone.
LoadForStamp(p) ==
    /\ At(p, "stamp")
    /\ sweep[p].left # {}
    /\ IF Min(sweep[p].left) \in Pending
       THEN Goto(p, "store")
       ELSE sweep' = [sweep EXCEPT ![p].left = @ \ {Min(@)}]
    /\ UNCHANGED <<clock, schedule, preview, history>>

StoreStamp(p) ==
    /\ At(p, "store")
    /\ preview' = [preview EXCEPT ![Min(sweep[p].left)] = [stamped |-> TRUE, stored |-> clock]]
    /\ sweep' = [sweep EXCEPT ![p].at = "stamp", ![p].left = @ \ {Min(@)}]
    /\ UNCHANGED <<clock, schedule, history>>

\* Seeded fault: the batch is recorded as the run's start left it.
RecordBatchStatusOnly(p) ==
    /\ At(p, "stamp")
    /\ sweep[p].left = {}
    /\ SetLastBatch(Current(p), Batch("pending", sweep[p].now, {}))
    /\ runs' = [runs EXCEPT ![Current(p)] = Append(@, sweep[p].now)]
    /\ Goto(p, "advance")
    /\ UNCHANGED <<clock, preview, minted, answered, mishap>>

RecordBatch(p) ==
    /\ At(p, "stamp")
    /\ sweep[p].left = {}
    /\ SetLastBatch(Current(p),
          Batch(IF sweep[p].ids = {} THEN "done" ELSE "pending", sweep[p].now, sweep[p].ids))
    /\ runs' = [runs EXCEPT ![Current(p)] = Append(@, sweep[p].now)]
    /\ Goto(p, "advance")
    /\ UNCHANGED <<clock, preview, minted, answered, mishap>>

\* Seeded fault: the run clock is left where it was.
AdvanceNothing(p) ==
    /\ At(p, "advance")
    /\ NextSchedule(p)
    /\ UNCHANGED <<clock, schedule, preview, history>>

AdvanceClock(p) ==
    /\ At(p, "advance")
    /\ SetLastRun(Current(p), sweep[p].now)
    /\ NextSchedule(p)
    /\ UNCHANGED <<clock, preview, history>>

Crash(p) ==
    /\ sweep[p] # Idle
    /\ Mishap("crash")
    /\ sweep' = [sweep EXCEPT ![p] = Idle]
    /\ UNCHANGED <<clock, schedule, preview, minted, answered, runs>>

SweepStep(p) ==
    \/ OverlapGate(p) \/ ExpireBatch(p) \/ MarkExpired(p)
    \/ StartRun(p) \/ StageWrite(p) \/ EndDrive(p)
    \/ LoadForStamp(p) \/ StoreStamp(p) \/ RecordBatch(p) \/ AdvanceClock(p)

-----------------------------------------------------------------------------
(* Everyone else *)

\* The run clock starts at creation.
Add(s) ==
    /\ schedule[s] = NotAdded
    /\ \A t \in Schedules : t < s => schedule[t] # NotAdded
    /\ schedule' = [schedule EXCEPT ![s] =
          [created |-> clock, lastRun |-> clock, batch |-> NoBatch]]
    /\ UNCHANGED <<clock, preview, sweep, history>>

Remove(s) ==
    /\ Exists(s)
    /\ schedule' = [schedule EXCEPT ![s] = Removed]
    /\ UNCHANGED <<clock, preview, sweep, history>>

\* The operator approves or rejects a staged write.
Answer(id) ==
    /\ id \in Pending
    /\ "stamp_race" \in Faults \/ \A p \in Sweeps : At(p, "store") => id # Min(sweep[p].left)
    /\ preview' = [preview EXCEPT ![id] = NoPreview]
    /\ answered' = answered \cup {id}
    /\ UNCHANGED <<clock, schedule, sweep, minted, runs, mishap>>

\* persistence.reap_expired leaves stamped previews to their schedule.
Reap ==
    LET old == {id \in Pending : ~preview[id].stamped /\ clock - preview[id].stored > ReapAge}
    IN  /\ old # {}
        /\ preview' = [id \in Ids |-> IF id \in old THEN NoPreview ELSE preview[id]]
        /\ UNCHANGED <<clock, schedule, sweep, history>>

\* A sweep is over within the reaper's 24 hours.
Tick ==
    /\ clock < MaxClock
    /\ \A p \in Sweeps : sweep[p] # Idle => clock - sweep[p].now < ReapAge
    /\ clock' = clock + 1
    /\ UNCHANGED <<schedule, preview, sweep, history>>

Next ==
    \/ \E p \in Sweeps : Begin(p) \/ SweepStep(p) \/ RunRaises(p) \/ Crash(p)
    \/ \E s \in Schedules : Add(s) \/ Remove(s)
    \/ \E id \in Ids : Answer(id)
    \/ Reap
    \/ Tick

Spec == Init /\ [][Next]_vars

\* Time passes and the external timer keeps polling.  The operator owes nothing.
FairSpec ==
    /\ Spec
    /\ WF_vars(Tick)
    /\ \A p \in Sweeps : WF_vars(Begin(p)) /\ WF_vars(SweepStep(p))

-----------------------------------------------------------------------------
(* Properties *)

Mine(s) == {id \in Ids : minted[id].of = s}

\* The stamped previews of a schedule that wait for the operator all come from
\* one of its runs: the overlap gate holds a schedule back while its last batch
\* is unreviewed.  A crash between staging and recording defeats it.
OneBatchAtATime ==
    mishap # "crash" =>
        \A s \in Schedules : \A a, b \in Mine(s) \cap Pending :
            preview[a].stamped /\ preview[b].stamped => minted[a].at = minted[b].at

\* A stamped preview, which the reaper spares, is in its schedule's batch, or a
\* sweep is about to put it there: expiry can reach it.  A crash defeats it.
StampedIsOwned ==
    mishap # "crash" =>
        \A s \in Schedules : \A id \in Mine(s) \cap Pending :
            preview[id].stamped /\ Exists(s) =>
                \/ id \in schedule[s].batch.ids
                \/ \E p \in Sweeps :
                      sweep[p] # Idle /\ Current(p) = s /\ id \in sweep[p].ids

\* A preview the operator approved or rejected does not come back: the stamp
\* does not store again what it did not find.
ResolvedStaysResolved == answered \cap Pending = {}

\* What the stamp may do to a preview: hand it to its schedule, not revive it.
StampsAreRight == StampedIsOwned /\ ResolvedStaysResolved

\* A tick of the schedule lies between two instants, or more than the scan goes
\* back: a run that is so late is made without looking for its tick.
Ticked(s, after, until) ==
    \/ \E m \in DOMAIN Calendar :
          /\ Matches(plan[s].cron, Calendar[m])
          /\ after < m * PerMinute /\ m * PerMinute <= until
    \/ until - after > ScanCap * PerMinute

\* A tick of the cron expression is run once: between two recorded runs of a
\* schedule, and between its creation and each of them, lies a tick of its own,
\* wherever in the minute the runs started.
EachTickOnce ==
    mishap # "crash" =>
        \A s \in Schedules : \A i \in DOMAIN runs[s] :
            /\ \A j \in 1..(i - 1) : Ticked(s, runs[s][j], runs[s][i])
            /\ Exists(s) => Ticked(s, schedule[s].created, runs[s][i])

\* The bound on the clock comes before the batch's TTL.
NoTimeLeft(s) == \E id \in schedule[s].batch.ids \cap Pending : schedule[s].batch.at + TTL > MaxClock

\* An unreviewed batch does not freeze its schedule: whatever the operator does,
\* and after a crash or a run that raised, every tick is followed by a run once
\* the queue TTL of the batch in its way is over.
TickServed ==
    \A s \in Schedules : \A m \in {n \in DOMAIN Calendar : Matches(plan[s].cron, Calendar[n])} :
        (Exists(s) /\ schedule[s].lastRun < m * PerMinute /\ clock >= m * PerMinute)
            ~> (~Exists(s) \/ schedule[s].lastRun >= m * PerMinute \/ NoTimeLeft(s))
=============================================================================
