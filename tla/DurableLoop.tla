----------------------------- MODULE DurableLoop -----------------------------
(***************************************************************************)
(* The interactive durable loop of orchestrator.py: a plan is driven step  *)
(* by step, every write is staged at the gate and the loop parks until a   *)
(* person approved it out of band and reported a verdict on it.            *)
(*                                                                         *)
(* Every `hubspot loop` command is a process that loads loop-state.json,   *)
(* works on its copy and saves the copy; proc[p].s is that copy.  Nothing  *)
(* is locked in between.  The gate is WriteGate in two steps: a write is   *)
(* executed and its preview goes, then the audit line is written.  What is *)
(* executed was answered as a success, and no more than that: the answer   *)
(* of an agent's step or a bulk write hides calls that HubSpot refused.    *)
(***************************************************************************)
EXTENDS LoopController, Sequences, FiniteSets

CONSTANTS
    Procs,   \* the processes that serve loop commands
    Mortal,  \* those of them that may be killed
    Ids,     \* the action ids: bounds how many writes are staged
    Loops,   \* the trace ids: bounds how many loops are started
    Plans,   \* the plans Claude may hand in
    Overlap, \* commands may run beside each other and beside an approval
    Faults,  \* what may go wrong
    NoId     \* no action

ASSUME LoopAssumption ==
    /\ Mortal \subseteq Procs
    /\ Overlap \in BOOLEAN
    /\ Plans \subseteq Seq({"read", "update", "create"})
    /\ Faults \subseteq {"step_fails", "audit_unseen", "id_unrecorded"}
    /\ NoId \notin Ids

VARIABLES
    plan,     \* the plan of each loop
    started,  \* the loops that were started
    disk,     \* loop-state.json
    stale,    \* nobody has saved it for two hours
    write,    \* the loop and step that staged each action
    stage,    \* where the action is in its life at the gate
    recorded, \* the actions whose snapshot holds the created id
    audited,  \* the actions with an `approve:<id>` among the last audit lines
    verified, \* history: the actions a verdict found verified
    failed,   \* history: the actions a verdict complained about
    proc      \* what each process is doing

gate    == <<write, stage, recorded, audited>>
history == <<verified, failed>>
vars    == <<plan, started, disk, stale, gate, history, proc>>

Waiting  == {"awaiting_approval", "awaiting_verification"}
Terminal == {"completed", "failed", "escalate", "stop", "stopped"}

\* current_step counts from 0: plan[current_step + 1] is next.
LoopState ==
    [loop : Loops, status : {"running"} \cup Waiting \cup Terminal,
     current_step : Nat, created : SUBSET Nat, iterations : Nat, step_count : Nat,
     last_error : BOOLEAN, last_verification_hash : Hashes, plateau_count : Nat,
     pending_action_id : Ids \cup {NoId}]

NoLoop  == [status |-> "none"]
NoWrite == [step |-> 0]

Fresh(loop) ==
    [loop |-> loop, status |-> "running", current_step |-> 0, created |-> {},
     iterations |-> 0, step_count |-> 0, last_error |-> FALSE,
     last_verification_hash |-> NoHash, plateau_count |-> 0, pending_action_id |-> NoId]

Idle == [at |-> "idle"]
Dead == [at |-> "dead"]
Work ==
    [at : {"start", "drive", "staged", "saved", "resume", "clear", "checkpoint"}, s : LoopState]
    \cup [at : {"decide"}, s : LoopState, verdict : Verdicts]

TypeOK ==
    /\ plan \in [Loops -> Plans]
    /\ started \subseteq Loops
    /\ disk \in LoopState \cup {NoLoop}
    /\ stale \in BOOLEAN
    /\ write \in [Ids -> [loop : Loops, step : Nat \ {0}] \cup {NoWrite}]
    /\ stage \in [Ids -> {"none", "pending", "applied", "executed", "discarded"}]
    /\ \A id \in Ids : stage[id] = "none" <=> write[id] = NoWrite
    /\ recorded \subseteq Ids
    /\ audited \subseteq {id \in Ids : stage[id] = "executed"}
    /\ verified \cup failed \subseteq Ids \cup {NoId}
    /\ proc \in [Procs -> {Idle, Dead} \cup Work]

Init ==
    /\ plan \in [Loops -> Plans]
    /\ started = {}
    /\ disk = NoLoop
    /\ stale = FALSE
    /\ write = [id \in Ids |-> NoWrite]
    /\ stage = [id \in Ids |-> "none"]
    /\ recorded = {}
    /\ audited = {}
    /\ verified = {}
    /\ failed = {}
    /\ proc = [p \in Procs |-> Idle]

-----------------------------------------------------------------------------
(* Processes and the state file *)

At(p, step) == proc[p].at = step
Copy(p)     == proc[p].s

Goto(p, step, s) == proc' = [proc EXCEPT ![p] = [at |-> step, s |-> s]]
Return(p)        == proc' = [proc EXCEPT ![p] = Idle]

\* Overlap = FALSE: one command or approval at a time.
Quiet ==
    ~Overlap => /\ \A p \in Procs : proc[p] \in {Idle, Dead}
                /\ \A id \in Ids : stage[id] # "applied"

MayStart(p) == proc[p] = Idle /\ Quiet

save(s) == disk' = s /\ stale' = FALSE
clear   == disk' = NoLoop /\ stale' = FALSE

\* Neither start nor run_loop takes a loop's place while it is active.
Active(s) == s # NoLoop /\ s.status \notin Terminal

StepOf(s)   == plan[s.loop][s.current_step + 1]
IsWrite(s)  == StepOf(s) \in {"update", "create"}
Finished(s) == s.current_step = Len(plan[s.loop])
InBudget(s) == s.step_count < MaxSteps

Advanced(s) == [s EXCEPT !.current_step = @ + 1]

Counted(s) == [s EXCEPT !.step_count = @ + 1]

-----------------------------------------------------------------------------
(* _drive_loop: from a step to the next pause *)

StopAtBudget(p) ==
    LET s == Copy(p)
    IN  /\ At(p, "drive") /\ ~Finished(s) /\ ~InBudget(s)
        /\ save([s EXCEPT !.status = "stopped", !.last_error = TRUE])
        /\ Return(p)
        /\ UNCHANGED <<plan, started, gate, history>>

RunRead(p) ==
    LET s == Copy(p)
    IN  /\ At(p, "drive") /\ ~Finished(s) /\ InBudget(s)
        /\ ~IsWrite(s)
        /\ save(Advanced(Counted(s)))
        /\ Goto(p, "drive", Advanced(Counted(s)))
        /\ UNCHANGED <<plan, started, gate, history>>

\* A read, a preview or a placeholder fails after its retries.
FailStep(p) ==
    LET s == Copy(p)
    IN  /\ "step_fails" \in Faults
        /\ At(p, "drive") /\ ~Finished(s) /\ InBudget(s)
        /\ save([Counted(s) EXCEPT !.status = "failed", !.last_error = TRUE])
        /\ Return(p)
        /\ UNCHANGED <<plan, started, gate, history>>

\* The gate stores the preview before the loop hears of it.
StageWrite(p) ==
    LET s == Copy(p)
    IN  /\ At(p, "drive") /\ ~Finished(s) /\ InBudget(s)
        /\ IsWrite(s)
        /\ \E id \in Ids :
              /\ write[id] = NoWrite
              /\ write' = [write EXCEPT ![id] = [loop |-> s.loop, step |-> s.current_step + 1]]
              /\ stage' = [stage EXCEPT ![id] = "pending"]
              /\ Goto(p, "staged", [Counted(s) EXCEPT !.pending_action_id = id])
        /\ UNCHANGED <<plan, started, disk, stale, recorded, audited, history>>

\* The line of the loop log that follows a save will fail.
LogFails(p, s) == "step_fails" \in Faults /\ Goto(p, "saved", s)

Pause(p) ==
    LET s == [Copy(p) EXCEPT !.status = "awaiting_approval"]
    IN  /\ At(p, "staged")
        /\ save(s)
        /\ Return(p) \/ LogFails(p, s)
        /\ UNCHANGED <<plan, started, gate, history>>

\* Seeded fault: the loop that crashed drops the name of the write it staged.
CrashNameless(p) ==
    /\ "step_fails" \in Faults
    /\ proc[p].at \in {"drive", "staged", "saved"}
    /\ save([Copy(p) EXCEPT !.status = "failed", !.last_error = TRUE, !.pending_action_id = NoId])
    /\ Return(p)
    /\ UNCHANGED <<plan, started, gate, history>>

\* _drive_loop_guarded: the driver raises, before its next step, between the store
\* of a preview and the save, or between a save and its log line.
Crash(p) ==
    /\ "step_fails" \in Faults
    /\ proc[p].at \in {"drive", "staged", "saved"}
    /\ save([Copy(p) EXCEPT !.status = "failed", !.last_error = TRUE])
    /\ Return(p)
    /\ UNCHANGED <<plan, started, gate, history>>

Complete(p) ==
    LET s == [Copy(p) EXCEPT !.status = "completed"]
    IN  /\ At(p, "drive") /\ Finished(Copy(p))
        /\ save(s)
        /\ Goto(p, "clear", s) \/ LogFails(p, s)
        /\ UNCHANGED <<plan, started, gate, history>>

ClearState(p) ==
    /\ At(p, "clear")
    /\ clear
    /\ Return(p)
    /\ UNCHANGED <<plan, started, gate, history>>

-----------------------------------------------------------------------------
(* The commands *)

\* loop start, before it calls run_loop.
Start(p, loop) ==
    /\ MayStart(p)
    /\ loop \notin started
    /\ Active(disk) => stale
    /\ started' = started \cup {loop}
    /\ Goto(p, "start", Fresh(loop))
    /\ UNCHANGED <<plan, disk, stale, gate, history>>

\* run_loop on a loop that runs or awaits its approval.
TakeUp(p) ==
    \/ disk.status = "running" /\ Goto(p, "drive", disk)
    \/ disk.status = "awaiting_approval" /\ Goto(p, "resume", disk)

\* run_loop looks at the file again: a loop that came up since then is taken up
\* in place of the plan, and one that ended goes.  The new state is in memory
\* only until its first step is over.
Begin(p) ==
    /\ At(p, "start")
    /\ \/ /\ Active(disk) /\ ~stale
          /\ TakeUp(p) \/ (disk.status = "awaiting_verification" /\ Return(p))
          /\ UNCHANGED <<disk, stale>>
       \/ /\ Active(disk) => stale
          /\ clear
          /\ Goto(p, "drive", Copy(p)) \/ Return(p) \* validate_plan may refuse
    /\ UNCHANGED <<plan, started, gate, history>>

\* loop continue; a loop that awaits its verdict only repeats the question.
Continue(p) ==
    /\ MayStart(p)
    /\ disk # NoLoop
    /\ \/ (~Active(disk) \/ stale) /\ Goto(p, "clear", disk)
       \/ ~stale /\ TakeUp(p)
    /\ UNCHANGED <<plan, started, disk, stale, gate, history>>

\* The artifact of the step, replaced by what the undo snapshot tells.
WithArtifact(s) ==
    [s EXCEPT !.created = (@ \ {s.current_step}) \cup
        {n \in {s.current_step} : s.pending_action_id \in recorded}]

\* Seeded fault: only the audit log is asked.
ResumeByLogOnly(p) ==
    LET s == Copy(p)
    IN  /\ At(p, "resume")
        /\ save(IF s.pending_action_id \in audited
                THEN [WithArtifact(s) EXCEPT !.status = "awaiting_verification"]
                ELSE [s EXCEPT !.status = "stop"])
        /\ Return(p)
        /\ UNCHANGED <<plan, started, gate, history>>

\* Seeded fault: without an audit line the loop goes on waiting.
ResumeWaitsOn(p) ==
    LET s == Copy(p)
    IN  /\ At(p, "resume")
        /\ \/ s.pending_action_id \notin audited /\ UNCHANGED <<disk, stale>>
           \/ /\ s.pending_action_id \in audited
              /\ save([WithArtifact(s) EXCEPT !.status = "awaiting_verification"])
        /\ Return(p)
        /\ UNCHANGED <<plan, started, gate, history>>

\* Seeded fault: a preview that is gone was approved.
ResumeOnceGone(p) ==
    LET s == Copy(p)
    IN  /\ At(p, "resume")
        /\ \/ stage[s.pending_action_id] = "pending" /\ UNCHANGED <<disk, stale>>
           \/ /\ stage[s.pending_action_id] # "pending"
              /\ save([WithArtifact(s) EXCEPT !.status = "awaiting_verification"])
        /\ Return(p)
        /\ UNCHANGED <<plan, started, gate, history>>

\* _resume_awaiting_approval tells from the preview file and the audit log
\* what became of the write.
Resume(p) ==
    LET s  == Copy(p)
        id == s.pending_action_id
    IN  /\ At(p, "resume")
        /\ \/ stage[id] = "pending" /\ UNCHANGED <<disk, stale>>
           \/ /\ stage[id] # "pending" /\ id \in audited
              /\ save([WithArtifact(s) EXCEPT !.status = "awaiting_verification"])
           \/ /\ stage[id] # "pending" /\ id \notin audited
              /\ save([s EXCEPT !.status = "stop"])
        /\ Return(p)
        /\ UNCHANGED <<plan, started, gate, history>>

\* loop verify, with the verdict Claude formed.
Verify(p, verdict) ==
    /\ MayStart(p)
    /\ disk # NoLoop /\ disk.status = "awaiting_verification"
    /\ proc' = [proc EXCEPT ![p] = [at |-> "decide", s |-> disk, verdict |-> verdict]]
    /\ UNCHANGED <<plan, started, disk, stale, gate, history>>

\* The loop waits for no write any more.
Unpark(s, status) == [s EXCEPT !.status = status, !.pending_action_id = NoId]

WithoutArtifact(s) == [s EXCEPT !.created = @ \ {s.current_step}]

\* Seeded fault: a retry begins with the first step again.
OnRetryFromTheStart(s) ==
    IF s.current_step \in s.created THEN Unpark(s, "escalate")
    ELSE Unpark([record_iteration(s) EXCEPT !.current_step = 0], "running")

\* What loop_verify makes of a retry: not of a create whose record exists.
OnRetry(s) ==
    IF s.current_step \in s.created THEN Unpark(s, "escalate")
    ELSE Unpark(WithoutArtifact(record_iteration(s)), "running")

\* Seeded fault: a verified write is driven once more.
ProceedInPlace(s, decision) ==
    IF decision = "proceed" THEN Unpark(s, "running")
    ELSE IF decision = "retry" THEN OnRetry(s) ELSE Unpark(s, decision)

AfterDecision(s, decision) ==
    IF decision = "proceed" THEN Unpark(Advanced(s), "running")
    ELSE IF decision = "retry" THEN OnRetry(s) ELSE Unpark(s, decision)

Decide(p) ==
    LET s       == Copy(p)
        verdict == proc[p].verdict
        next    == AfterDecision(Remembered(s, verdict), next_action(s, verdict))
    IN  /\ At(p, "decide")
        /\ save(next)
        /\ IF next.status = "running" THEN Goto(p, "drive", next) ELSE Return(p)
        /\ IF verdict.status = "verified"
           THEN verified' = verified \cup {s.pending_action_id} /\ UNCHANGED failed
           ELSE failed' = failed \cup {s.pending_action_id} /\ UNCHANGED verified
        /\ UNCHANGED <<plan, started, gate>>

\* handle_loop_checkpoint saves what it loaded.
Checkpoint(p) ==
    /\ MayStart(p)
    /\ disk # NoLoop
    /\ Goto(p, "checkpoint", disk)
    /\ UNCHANGED <<plan, started, disk, stale, gate, history>>

SaveCheckpoint(p) ==
    /\ At(p, "checkpoint")
    /\ save(Copy(p))
    /\ Return(p)
    /\ UNCHANGED <<plan, started, gate, history>>

\* loop abandon: the staged write keeps waiting at the gate.
Abandon(p) ==
    /\ MayStart(p)
    /\ disk # NoLoop
    /\ clear
    /\ UNCHANGED <<plan, started, gate, history, proc>>

-----------------------------------------------------------------------------
(* The gate, time and deaths *)

\* A person's approval is executed.  The record a create made is known from the undo
\* snapshot, unless that could not be saved, or the answer hid that there is none.
Approve(id) ==
    /\ Quiet
    /\ stage[id] = "pending"
    /\ stage' = [stage EXCEPT ![id] = "applied"]
    /\ \/ plan[write[id].loop][write[id].step] = "create" /\ recorded' = recorded \cup {id}
       \/ /\ \/ plan[write[id].loop][write[id].step] # "create"
             \/ "id_unrecorded" \in Faults
          /\ UNCHANGED recorded
    /\ UNCHANGED <<plan, started, disk, stale, write, audited, history, proc>>

\* The audit line fails, or 200 other lines follow before the loop looks.
LogApprove(id) ==
    /\ stage[id] = "applied"
    /\ stage' = [stage EXCEPT ![id] = "executed"]
    /\ \/ audited' = audited \cup {id}
       \/ "audit_unseen" \in Faults /\ UNCHANGED audited
    /\ UNCHANGED <<plan, started, disk, stale, write, recorded, history, proc>>

\* Rejected, or reaped after 24 hours.
Discard(id) ==
    /\ Quiet
    /\ stage[id] = "pending"
    /\ stage' = [stage EXCEPT ![id] = "discarded"]
    /\ UNCHANGED <<plan, started, disk, stale, write, recorded, audited, history, proc>>

\* is_stale never holds while the loop waits for a person.
Age ==
    /\ \A p \in Procs : proc[p] \in {Idle, Dead}
    /\ disk # NoLoop /\ disk.status \notin Waiting
    /\ ~stale
    /\ stale' = TRUE
    /\ UNCHANGED <<plan, started, disk, gate, history, proc>>

\* A killed process serves no other command; one whose fail-safe cannot save either
\* leaves the same file behind.
Kill(p) ==
    /\ p \in Mortal
    /\ proc[p] \notin {Idle, Dead}
    /\ proc' = [proc EXCEPT ![p] = Dead]
    /\ UNCHANGED <<plan, started, disk, stale, gate, history>>

Drive(p) ==
    \/ Begin(p) \/ StopAtBudget(p) \/ RunRead(p) \/ FailStep(p) \/ StageWrite(p) \/ Pause(p)
    \/ Crash(p) \/ Complete(p) \/ ClearState(p) \/ Resume(p) \/ Decide(p) \/ SaveCheckpoint(p)

Command(p) ==
    \/ \E loop \in Loops : Start(p, loop)
    \/ Continue(p)
    \/ \E verdict \in Verdicts : Verify(p, verdict)
    \/ Checkpoint(p)
    \/ Abandon(p)

Next ==
    \/ \E p \in Procs : Drive(p) \/ Command(p) \/ Kill(p)
    \/ \E id \in Ids : Approve(id) \/ LogApprove(id) \/ Discard(id)
    \/ Age

Spec == Init /\ [][Next]_vars

-----------------------------------------------------------------------------
(* Fairness: a process that is not killed runs on, and the person answers.   *)
(* Nothing else moves the loop: no timer, no daemon.                         *)

Answer(p) == Continue(p) \/ \E verdict \in Verdicts : Verify(p, verdict)

FairSpec ==
    /\ Spec
    /\ \A p \in Procs : WF_vars(Drive(p) \/ Kill(p))
    /\ \A p \in Procs \ Mortal : SF_vars(Answer(p))
    /\ \A id \in Ids : WF_vars(LogApprove(id)) /\ SF_vars(Approve(id) \/ Discard(id))

-----------------------------------------------------------------------------
(* Properties of every run: any overlap, any fault, any death *)

Executed(id)         == stage[id] \in {"applied", "executed"}
IsFor(id, l, n)  == write[id] = [loop |-> l, step |-> n]
IsWriteStep(l, n) == plan[l][n] \in {"update", "create"}

\* No write step is behind the loop before one of its writes was executed, logged
\* and found verified by a verdict (_resume_awaiting_approval and
\* loop_verify are the only way past it).
Behind(s) ==
    \A n \in 1..s.current_step : IsWriteStep(s.loop, n) =>
        \E id \in audited \cap verified : IsFor(id, s.loop, n)

WritesAreVerified == disk # NoLoop => Behind(disk)

\* A verdict is only taken on a write that was executed and logged.
VerdictsAreOnExecuted == verified \cup failed \subseteq audited

\* What every overlap, fault and death leaves true of the way past a write.
OnlyVerifiedBehind == WritesAreVerified /\ VerdictsAreOnExecuted

-----------------------------------------------------------------------------
(* Properties of serial runs *)

\* A loop keeps at most one write at the gate, the one its saved state names: the
\* loop waits for it, or failed when it had just staged it (_drive_loop parks at a
\* write, and its fail-safe keeps the name).
OneOpenWrite ==
    \A id \in Ids : stage[id] = "pending" /\ disk # NoLoop /\ write[id].loop = disk.loop =>
        \/ disk.status \in {"awaiting_approval", "failed"} /\ disk.pending_action_id = id
        \/ \E p \in Procs : At(p, "staged") /\ Copy(p).pending_action_id = id

Same(id, other) == id # other /\ Executed(id) /\ Executed(other) /\ write[id] = write[other]

\* A step is executed again only after a verdict complained about its first
\* execution (loop_verify is the only way to repeat a write).
RepeatsNeedAComplaint ==
    \A id, other \in Ids : Same(id, other) => id \in failed \/ other \in failed

\* loop_verify on creates: "Retrying would create duplicate records".
CreatedOnce ==
    \A id, other \in Ids : Same(id, other) =>
        plan[write[id].loop][write[id].step] # "create"

\* What may be executed twice, and why.
RepeatsAreWarranted == RepeatsNeedAComplaint /\ CreatedOnce

\* _resume_awaiting_approval: "pending gone + no approve entry ->
\* rejected/cancelled -> stop the loop".
StopMeansRejected ==
    disk # NoLoop /\ disk.status = "stop" /\ disk.pending_action_id # NoId =>
        stage[disk.pending_action_id] = "discarded"

\* The budget bounds a loop across all its pauses and processes: it never
\* stages more writes than it has steps (R12, proxy budget).  It is a part of what
\* OrderedWrites promises.
StagedWithinBudget ==
    \A l \in Loops : Cardinality({id \in Ids : write[id] # NoWrite /\ write[id].loop = l})
                        <= IF MaxSteps > 0 THEN MaxSteps ELSE 0

\* A step that is behind a loop stays behind it (loop_verify advances, nothing
\* goes back).
NeverBack ==
    disk # NoLoop /\ disk' # NoLoop /\ disk'.loop = disk.loop =>
        disk'.current_step >= disk.current_step

\* A loop that ended does not come back to life.
EndsForGood ==
    disk # NoLoop /\ disk.status \in Terminal =>
        disk' = NoLoop \/ disk'.status \in Terminal \/ disk'.loop # disk.loop

\* loop start "refuses to clobber an already-active loop": a fresh active loop
\* leaves the file, or another takes its place, when it is abandoned only.
StartRefusesActive ==
    /\ disk # NoLoop /\ disk.status \notin Terminal /\ ~stale
    /\ disk' # NoLoop => disk'.loop # disk.loop
    => \E p \in Procs : Abandon(p)

\* What no step of a command does to the saved loop: take it back, wake it up
\* after its end, or put another in its place.
LoopsKeepTheirPlace == [][NeverBack /\ EndsForGood /\ StartRefusesActive]_vars

\* Where a write is in its life, whether its audit line is there or not.
Fate == [id \in Ids |-> IF stage[id] = "executed" THEN "applied" ELSE stage[id]]

Ordered == INSTANCE OrderedWrites WITH
    fate   <- Fate,
    known  <- recorded,
    Budget <- IF MaxSteps > 0 THEN MaxSteps ELSE 0

\* The writes of the loops come one by one and in the order of their plans, each
\* after its predecessors were verified, again only after a complaint, and none after
\* a rejection (the promise of _drive_loop, _resume_awaiting_approval and loop_verify).
ImplementsOrderedWrites == Ordered!Spec

\* Whatever the verdicts, an attended loop comes to its end: every retry is
\* counted and every step is budgeted.
EveryLoopEnds == Active(disk) ~> ~Active(disk)
=============================================================================
