------------------------- MODULE DurableLoop_proofs -------------------------
(***************************************************************************)
(* Proofs about DurableLoop for any plans, budgets, processes and ids.     *)
(*                                                                         *)
(* Any overlap of commands, any fault and any death: every state is typed, *)
(* and no loop gets past a write that was not approved, logged and         *)
(* verified.  One command at a time: the saved loop keeps its place and    *)
(* stops for a rejection only.  One command at a time, each run to its     *)
(* end: every write that the loop ever staged is accounted for.            *)
(***************************************************************************)
EXTENDS DurableLoop, FiniteSetTheorems, TLAPS

\* What a loop state can rely on, given the plans, the staged writes, the audit
\* log and the verdicts.
SoundIn(s, plans, writes, log, verdicts) ==
    /\ \A n \in 1..s.current_step : plans[s.loop][n] \in {"update", "create"} =>
          \E id \in log \cap verdicts : writes[id] = [loop |-> s.loop, step |-> n]
    /\ s.status \in Waiting =>
          /\ s.pending_action_id \in Ids
          /\ writes[s.pending_action_id] = [loop |-> s.loop, step |-> s.current_step + 1]
    /\ s.status = "awaiting_verification" => s.pending_action_id \in log

\* What the work of a process can rely on.
WorkIn(w, plans, writes, log, verdicts) ==
    w \notin {Idle, Dead} =>
        /\ SoundIn(w.s, plans, writes, log, verdicts)
        /\ w.at = "staged" =>
              /\ w.s.pending_action_id \in Ids
              /\ writes[w.s.pending_action_id] = [loop |-> w.s.loop, step |-> w.s.current_step + 1]
        /\ w.at \in {"start", "drive", "staged"} => w.s.status = "running"
        /\ w.at = "resume" => w.s.status = "awaiting_approval"
        /\ w.at = "decide" => w.s.status = "awaiting_verification"

Sound(s)     == SoundIn(s, plan, write, audited, verified)
WorkSound(w) == WorkIn(w, plan, write, audited, verified)

LoopInv ==
    /\ disk # NoLoop => Sound(disk)
    /\ \A p \in Procs : WorkSound(proc[p])
    /\ verified \cup failed \subseteq audited

-----------------------------------------------------------------------------
(* Types *)

\* What the controller leaves in the state is a state.
LEMMA ControllerTyped ==
    ASSUME NEW s \in LoopState, NEW v \in Verdicts
    PROVE  /\ Remembered(s, v) \in LoopState
           /\ next_action(s, v) \in Decisions
           /\ Remembered(s, v).loop = s.loop
           /\ Remembered(s, v).current_step = s.current_step
           /\ Remembered(s, v).pending_action_id = s.pending_action_id
           /\ Remembered(s, v).created = s.created
  <1>1. Hash(v) \in Hashes
    BY DEF Hash, Hashes, NoHash, Verdicts
  <1>2. Plateau(s, v) \in Nat
    BY DEF Plateau, LoopState
  <1>3. DecisionOn(v.status) \in Decisions
    BY DEF DecisionOn, Decisions, Verdicts
  <1>4. next_action(s, v) \in Decisions
    BY <1>3 DEF next_action, Decisions
  <1>5. /\ Remembered(s, v) \in LoopState
        /\ Remembered(s, v).loop = s.loop
        /\ Remembered(s, v).current_step = s.current_step
        /\ Remembered(s, v).pending_action_id = s.pending_action_id
        /\ Remembered(s, v).created = s.created
    BY <1>1, <1>2 DEF Remembered, LoopState
  <1> QED BY <1>4, <1>5

LEMMA MovesTyped ==
    ASSUME NEW s \in LoopState
    PROVE  /\ Counted(s) \in LoopState
           /\ Advanced(s) \in LoopState
           /\ WithArtifact(s) \in LoopState
           /\ WithoutArtifact(s) \in LoopState
           /\ record_iteration(s) \in LoopState
           /\ s # NoLoop
  BY DEF Counted, Advanced, WithArtifact, WithoutArtifact, record_iteration,
         LoopState, NoLoop, Waiting, Terminal

\* Where a loop stands changes on an advance only.
LEMMA MovesStay ==
    ASSUME NEW s \in LoopState
    PROVE  /\ Counted(s).loop = s.loop /\ Counted(s).current_step = s.current_step
           /\ Counted(s).status = s.status
           /\ Advanced(s).loop = s.loop /\ Advanced(s).current_step = s.current_step + 1
           /\ Advanced(s).status = s.status
           /\ WithArtifact(s).loop = s.loop
           /\ WithArtifact(s).current_step = s.current_step
           /\ WithArtifact(s).pending_action_id = s.pending_action_id
           /\ WithoutArtifact(s).loop = s.loop
           /\ WithoutArtifact(s).current_step = s.current_step
           /\ record_iteration(s).loop = s.loop
           /\ record_iteration(s).current_step = s.current_step
  BY DEF Counted, Advanced, WithArtifact, WithoutArtifact, record_iteration, LoopState

LEMMA UnparkTyped ==
    ASSUME NEW s \in LoopState, NEW status \in {"running"} \cup Terminal
    PROVE  /\ Unpark(s, status) \in LoopState
           /\ Unpark(s, status).loop = s.loop
           /\ Unpark(s, status).status \notin Waiting
           /\ Unpark(s, status).current_step = s.current_step
  BY DEF Unpark, LoopState, Waiting, Terminal

\* A decision leads to a state of the same loop: it runs on, at the same step
\* or the next, or it ended.
LEMMA DecisionTyped ==
    ASSUME NEW s \in LoopState, NEW d \in Decisions
    PROVE  /\ AfterDecision(s, d) \in LoopState
           /\ AfterDecision(s, d).loop = s.loop
           /\ AfterDecision(s, d).status \notin Waiting
           /\ d = "proceed" => AfterDecision(s, d).current_step = s.current_step + 1
           /\ d # "proceed" => AfterDecision(s, d).current_step = s.current_step
  <1>1. CASE d = "proceed"
    <2>1. Advanced(s) \in LoopState
      BY MovesTyped
    <2>2. Advanced(s).loop = s.loop /\ Advanced(s).current_step = s.current_step + 1
      BY MovesStay
    <2> QED BY <1>1, <2>1, <2>2, UnparkTyped DEF AfterDecision
  <1>2. CASE d = "retry"
    <2>1. WithoutArtifact(record_iteration(s)) \in LoopState
      BY MovesTyped
    <2>2. /\ WithoutArtifact(record_iteration(s)).loop = s.loop
          /\ WithoutArtifact(record_iteration(s)).current_step = s.current_step
      BY MovesTyped, MovesStay
    <2> QED BY <1>2, <2>1, <2>2, UnparkTyped DEF AfterDecision, OnRetry, Terminal
  <1>3. CASE d \in {"escalate", "stop"}
    BY <1>3, UnparkTyped DEF AfterDecision, Terminal
  <1> QED BY <1>1, <1>2, <1>3 DEF Decisions

\* After a decision the loop names no write.
LEMMA DecisionUnparks ==
    ASSUME NEW s \in LoopState, NEW d \in Decisions
    PROVE  AfterDecision(s, d).pending_action_id = NoId
  <1>1. ASSUME NEW t \in LoopState, NEW status PROVE Unpark(t, status).pending_action_id = NoId
    BY DEF Unpark, LoopState
  <1>2. Advanced(s) \in LoopState /\ WithoutArtifact(record_iteration(s)) \in LoopState
    BY MovesTyped
  <1> QED BY <1>1, <1>2 DEF AfterDecision, OnRetry

\* A process that is at some step of its work has a copy.
LEMMA AtWork ==
    ASSUME TypeOK, NEW p \in Procs, proc[p] \notin {Idle, Dead}
    PROVE  /\ Copy(p) \in LoopState
           /\ At(p, "decide") => proc[p].verdict \in Verdicts
  BY DEF TypeOK, Work, Copy, At

\* What a process does next, as a value of proc.
LEMMA ProcTyped ==
    ASSUME TypeOK, NEW p \in Procs, NEW s \in LoopState
    PROVE  /\ Return(p) => proc' \in [Procs -> {Idle, Dead} \cup Work]
           /\ \A at \in {"start", "drive", "staged", "saved", "resume", "clear", "checkpoint"} :
                 Goto(p, at, s) => proc' \in [Procs -> {Idle, Dead} \cup Work]
  BY DEF TypeOK, Return, Goto, Work

\* What TypeOK says of everything but the gate, when the gate is left alone.
LEMMA GateKept ==
    ASSUME TypeOK, UNCHANGED <<plan, gate>>,
           started' \subseteq Loops,
           disk' \in LoopState \cup {NoLoop}, stale' \in BOOLEAN,
           (verified \cup failed)' \subseteq Ids \cup {NoId},
           proc' \in [Procs -> {Idle, Dead} \cup Work]
    PROVE  TypeOK'
  BY DEF TypeOK, gate

\* What TypeOK says of the gate, when everything else is left alone.
LEMMA LoopKept ==
    ASSUME TypeOK, UNCHANGED <<plan, started, disk, stale, history, proc>>,
           write' = write, recorded' \subseteq Ids,
           NEW id \in Ids, stage[id] # "none",
           NEW next \in {"applied", "executed", "discarded"},
           stage[id] # "executed" \/ next = "executed",
           stage' = [stage EXCEPT ![id] = next],
           audited' \subseteq IF next = "executed" THEN audited \cup {id} ELSE audited
    PROVE  TypeOK'
  BY DEF TypeOK, history

\* The steps of a command at work.
LEMMA DriveTyped ==
    ASSUME TypeOK, NEW p \in Procs, Drive(p)
    PROVE  TypeOK'
  <1>1. proc[p] \notin {Idle, Dead}
    BY DEF Drive, At, Begin, StopAtBudget, RunRead, FailStep, StageWrite, Pause, Crash, LogFails, Complete,
           ClearState, Resume, Decide, SaveCheckpoint, Idle, Dead
  <1>2. /\ Copy(p) \in LoopState
        /\ At(p, "decide") => proc[p].verdict \in Verdicts
    BY <1>1, AtWork
  <1> DEFINE s == Copy(p)
  <1> USE DEF save, clear, history
  <1>3. /\ Counted(s) \in LoopState /\ Advanced(Counted(s)) \in LoopState
        /\ WithArtifact(s) \in LoopState
    BY <1>2, MovesTyped
  <1>4. CASE StopAtBudget(p)
    <2>1. [s EXCEPT !.status = "stopped", !.last_error = TRUE] \in LoopState
      BY <1>2 DEF LoopState, Terminal
    <2> QED BY <1>2, <1>4, <2>1, ProcTyped, GateKept DEF StopAtBudget, TypeOK
  <1>5. CASE RunRead(p)
    BY <1>3, <1>5, ProcTyped, GateKept DEF RunRead, TypeOK
  <1>6. CASE FailStep(p)
    <2>1. [Counted(s) EXCEPT !.status = "failed", !.last_error = TRUE] \in LoopState
      BY <1>3 DEF LoopState, Terminal
    <2> QED BY <1>2, <1>6, <2>1, ProcTyped, GateKept DEF FailStep, TypeOK
  <1>15. CASE Crash(p)
    <2>1. [s EXCEPT !.status = "failed", !.last_error = TRUE] \in LoopState
      BY <1>2 DEF LoopState, Terminal
    <2> QED BY <1>2, <1>15, <2>1, ProcTyped, GateKept DEF Crash, TypeOK
  <1>7. CASE StageWrite(p)
    <2>1. PICK id \in Ids :
            /\ write[id] = NoWrite
            /\ write' = [write EXCEPT ![id] = [loop |-> s.loop, step |-> s.current_step + 1]]
            /\ stage' = [stage EXCEPT ![id] = "pending"]
            /\ Goto(p, "staged", [Counted(s) EXCEPT !.pending_action_id = id])
      BY <1>7 DEF StageWrite
    <2>2. [Counted(s) EXCEPT !.pending_action_id = id] \in LoopState
      BY <1>3 DEF LoopState
    <2>3. proc' \in [Procs -> {Idle, Dead} \cup Work]
      BY <2>1, <2>2, ProcTyped
    <2>4. s.loop \in Loops /\ s.current_step + 1 \in Nat \ {0}
      BY <1>2 DEF LoopState
    <2>5. /\ write' \in [Ids -> [loop : Loops, step : Nat \ {0}] \cup {NoWrite}]
          /\ stage' \in [Ids -> {"none", "pending", "applied", "executed", "discarded"}]
      BY <2>1, <2>4 DEF TypeOK
    <2>6. [loop |-> s.loop, step |-> s.current_step + 1] # NoWrite
      BY <2>4 DEF NoWrite
    <2>7. \A i \in Ids : stage'[i] = "none" <=> write'[i] = NoWrite
      BY <2>1, <2>6 DEF TypeOK
    <2>8. stage[id] = "none" /\ id \notin audited
      BY <2>1 DEF TypeOK
    <2>9. audited' \subseteq {i \in Ids : stage'[i] = "executed"}
      BY <1>7, <2>1, <2>8 DEF TypeOK, StageWrite
    <2> QED BY <1>7, <2>3, <2>5, <2>7, <2>9 DEF StageWrite, TypeOK
  <1>8. CASE Pause(p)
    <2>1. [s EXCEPT !.status = "awaiting_approval"] \in LoopState
      BY <1>2 DEF LoopState, Waiting
    <2> QED BY <1>2, <1>8, <2>1, ProcTyped, GateKept DEF Pause, LogFails, TypeOK
  <1>9. CASE Complete(p)
    <2>1. [s EXCEPT !.status = "completed"] \in LoopState
      BY <1>2 DEF LoopState, Terminal
    <2> QED BY <1>9, <2>1, ProcTyped, GateKept DEF Complete, LogFails, TypeOK
  <1>10. CASE ClearState(p)
    BY <1>2, <1>10, ProcTyped, GateKept DEF ClearState, TypeOK
  <1>11. CASE Resume(p)
    <2>1. /\ [s EXCEPT !.status = "stop"] \in LoopState
          /\ [WithArtifact(s) EXCEPT !.status = "awaiting_verification"] \in LoopState
      BY <1>2, <1>3 DEF LoopState, Waiting, Terminal
    <2>2. disk' \in LoopState \cup {NoLoop} /\ stale' \in BOOLEAN
      BY <1>11, <2>1 DEF Resume, TypeOK
    <2> QED BY <1>2, <1>11, <2>2, ProcTyped, GateKept DEF Resume, TypeOK
  <1>12. CASE Decide(p)
    <2> DEFINE v    == proc[p].verdict
               next == AfterDecision(Remembered(s, v), next_action(s, v))
    <2>1. v \in Verdicts
      BY <1>2, <1>12 DEF Decide
    <2>2. next \in LoopState
      BY <1>2, <2>1, ControllerTyped, DecisionTyped
    <2> HIDE DEF next
    <2>3. disk' = next /\ stale' = FALSE
      BY <1>12 DEF Decide, next
    <2>4. Goto(p, "drive", next) \/ Return(p)
      BY <1>12 DEF Decide, next
    <2>5. (verified \cup failed)' \subseteq Ids \cup {NoId}
      BY <1>2, <1>12 DEF Decide, TypeOK, LoopState
    <2> QED BY <1>12, <2>2, <2>3, <2>4, <2>5, ProcTyped, GateKept DEF Decide, TypeOK
  <1>13. CASE SaveCheckpoint(p)
    BY <1>2, <1>13, ProcTyped, GateKept DEF SaveCheckpoint, TypeOK
  <1>14. CASE Begin(p)
    <2>1. disk' \in LoopState \cup {NoLoop} /\ stale' \in BOOLEAN
      BY <1>14 DEF Begin, TypeOK
    <2>2. CASE Active(disk) /\ TakeUp(p)
      <3>1. disk \in LoopState
        BY <2>2 DEF Active, TypeOK
      <3>2. proc' \in [Procs -> {Idle, Dead} \cup Work]
        BY <2>2, <3>1, ProcTyped DEF TakeUp
      <3> QED BY <1>14, <2>1, <3>2, GateKept DEF Begin, TypeOK
    <2>3. CASE Goto(p, "drive", s) \/ Return(p)
      <3>1. proc' \in [Procs -> {Idle, Dead} \cup Work]
        BY <1>2, <2>3, ProcTyped
      <3> QED BY <1>14, <2>1, <3>1, GateKept DEF Begin, TypeOK
    <2> QED BY <1>14, <2>2, <2>3 DEF Begin
  <1> QED BY <1>4, <1>5, <1>6, <1>7, <1>8, <1>9, <1>10, <1>11, <1>12, <1>13, <1>14, <1>15 DEF Drive

LEMMA CommandTyped ==
    ASSUME TypeOK, NEW p \in Procs, Command(p)
    PROVE  TypeOK'
  <1> USE DEF save, clear, history
  <1>1. ASSUME NEW loop \in Loops, Start(p, loop) PROVE TypeOK'
    <2>1. Fresh(loop) \in LoopState
      BY DEF Fresh, LoopState, Hashes, NoHash
    <2>2. proc' \in [Procs -> {Idle, Dead} \cup Work]
      BY <1>1, <2>1, ProcTyped DEF Start, TypeOK
    <2> QED BY <1>1, <2>2, GateKept DEF Start, TypeOK
  <1>2. CASE Continue(p)
    <2>1. disk \in LoopState
      BY <1>2 DEF Continue, TypeOK
    <2>2. proc' \in [Procs -> {Idle, Dead} \cup Work]
      BY <1>2, <2>1, ProcTyped DEF Continue, TakeUp
    <2> QED BY <1>2, <2>2, GateKept DEF Continue, TypeOK
  <1>3. ASSUME NEW v \in Verdicts, Verify(p, v) PROVE TypeOK'
    <2>1. disk \in LoopState
      BY <1>3 DEF Verify, TypeOK
    <2>2. proc' \in [Procs -> {Idle, Dead} \cup Work]
      BY <1>3, <2>1 DEF Verify, TypeOK, Work
    <2> QED BY <1>3, <2>2, GateKept DEF Verify, TypeOK
  <1>4. CASE Checkpoint(p)
    <2>1. disk \in LoopState
      BY <1>4 DEF Checkpoint, TypeOK
    <2>2. proc' \in [Procs -> {Idle, Dead} \cup Work]
      BY <1>4, <2>1, ProcTyped DEF Checkpoint
    <2> QED BY <1>4, <2>2, GateKept DEF Checkpoint, TypeOK
  <1>5. CASE Abandon(p)
    BY <1>5, GateKept DEF Abandon, TypeOK
  <1> QED BY <1>1, <1>2, <1>3, <1>4, <1>5 DEF Command

LEMMA StepTyped ==
    ASSUME TypeOK, [Next]_vars
    PROVE  TypeOK'
  <1>1. ASSUME NEW p \in Procs, Kill(p) PROVE TypeOK'
    BY <1>1, GateKept DEF Kill, TypeOK, history
  <1>2. ASSUME NEW id \in Ids, Approve(id) PROVE TypeOK'
    <2>1. recorded' \subseteq Ids
      BY <1>2 DEF Approve, TypeOK
    <2> QED BY <1>2, <2>1, LoopKept DEF Approve
  <1>3. ASSUME NEW id \in Ids, LogApprove(id) PROVE TypeOK'
    <2>1. audited' \subseteq audited \cup {id}
      BY <1>3 DEF LogApprove
    <2> QED BY <1>3, <2>1, LoopKept DEF LogApprove, TypeOK
  <1>4. ASSUME NEW id \in Ids, Discard(id) PROVE TypeOK'
    BY <1>4, LoopKept DEF Discard, TypeOK
  <1>5. CASE Age
    BY <1>5, GateKept DEF Age, TypeOK, history
  <1>6. CASE UNCHANGED vars
    BY <1>6 DEF vars, gate, history, TypeOK
  <1> QED BY <1>1, <1>2, <1>3, <1>4, <1>5, <1>6, DriveTyped, CommandTyped DEF Next

\* The loop state, the gate's view of every action and every process are what
\* they are declared to be; an audit line stands for an executed write only.
THEOREM TypeCorrect == Spec => []TypeOK
  <1>1. Init => TypeOK
    BY DEF Init, TypeOK
  <1>2. TypeOK /\ [Next]_vars => TypeOK'
    BY StepTyped
  <1> QED BY <1>1, <1>2, PTL DEF Spec

-----------------------------------------------------------------------------
(* Nothing gets behind the loop unverified *)

\* The gate and the history only grow.
Grows ==
    /\ UNCHANGED plan
    /\ audited \subseteq audited' /\ verified \subseteq verified'
    /\ \A id \in Ids : write[id] # NoWrite => write'[id] = write[id]

LEMMA StepGrows ==
    ASSUME TypeOK, [Next]_vars
    PROVE  Grows
  <1> USE DEF gate, history
  <1>1. ASSUME NEW p \in Procs, Drive(p) PROVE Grows
    <2>1. CASE StageWrite(p)
      BY <2>1 DEF StageWrite, Grows, TypeOK
    <2>2. CASE Decide(p)
      BY <2>2 DEF Decide, Grows
    <2> QED BY <1>1, <2>1, <2>2
        DEF Drive, Grows, Begin, StopAtBudget, RunRead, FailStep, Pause, Crash, LogFails, Complete, ClearState,
            Resume, SaveCheckpoint
  <1>2. ASSUME NEW p \in Procs, Command(p) \/ Kill(p) PROVE Grows
    BY <1>2 DEF Command, Kill, Start, Continue, Verify, Checkpoint, Abandon, Grows
  <1>3. ASSUME NEW id \in Ids, Approve(id) \/ LogApprove(id) \/ Discard(id) PROVE Grows
    BY <1>3 DEF Approve, LogApprove, Discard, Grows
  <1>4. CASE Age \/ UNCHANGED vars
    BY <1>4 DEF Age, vars, Grows
  <1> QED BY <1>1, <1>2, <1>3, <1>4 DEF Next

\* A longer log, more verdicts and more staged writes take nothing away.
LEMMA SoundGrows ==
    ASSUME NEW s \in LoopState, NEW plans, NEW writes, NEW log, NEW verdicts,
           NEW writes2, NEW log2, NEW verdicts2,
           log \subseteq Ids, log \subseteq log2, verdicts \subseteq verdicts2,
           \A id \in Ids : writes[id] # NoWrite => writes2[id] = writes[id],
           SoundIn(s, plans, writes, log, verdicts)
    PROVE  SoundIn(s, plans, writes2, log2, verdicts2)
  <1>1. s.loop \in Loops /\ s.current_step \in Nat
    BY DEF LoopState
  <1>2. \A id \in Ids, n \in Nat \ {0} :
          writes[id] = [loop |-> s.loop, step |-> n] => writes2[id] = [loop |-> s.loop, step |-> n]
    BY DEF NoWrite
  <1>3. ASSUME NEW n \in 1..s.current_step, plans[s.loop][n] \in {"update", "create"}
        PROVE  \E id \in log2 \cap verdicts2 : writes2[id] = [loop |-> s.loop, step |-> n]
    <2>1. PICK id \in log \cap verdicts : writes[id] = [loop |-> s.loop, step |-> n]
      BY <1>3 DEF SoundIn
    <2>2. n \in Nat \ {0}
      BY <1>1
    <2> QED BY <1>2, <2>1, <2>2
  <1>4. s.current_step + 1 \in Nat \ {0}
    BY <1>1
  <1> QED BY <1>2, <1>3, <1>4 DEF SoundIn

LEMMA WorkGrows ==
    ASSUME NEW w \in {Idle, Dead} \cup Work, NEW plans, NEW writes, NEW log, NEW verdicts,
           NEW writes2, NEW log2, NEW verdicts2,
           log \subseteq Ids, log \subseteq log2, verdicts \subseteq verdicts2,
           \A id \in Ids : writes[id] # NoWrite => writes2[id] = writes[id],
           WorkIn(w, plans, writes, log, verdicts)
    PROVE  WorkIn(w, plans, writes2, log2, verdicts2)
  <1> SUFFICES ASSUME w \notin {Idle, Dead}
               PROVE  WorkIn(w, plans, writes2, log2, verdicts2)
    BY DEF WorkIn
  <1>1. w.s \in LoopState
    BY DEF Work
  <1>2. SoundIn(w.s, plans, writes2, log2, verdicts2)
    BY <1>1, SoundGrows DEF WorkIn
  <1>3. w.s.current_step + 1 \in Nat \ {0}
    BY <1>1 DEF LoopState
  <1>4. [loop |-> w.s.loop, step |-> w.s.current_step + 1] # NoWrite
    BY <1>3 DEF NoWrite
  <1> QED BY <1>2, <1>4 DEF WorkIn

\* An invariant step is one that only adds to the gate and the history, and
\* leaves sound what it saves and what it goes on with.
LEMMA InvStays ==
    ASSUME TypeOK, LoopInv, Grows,
           disk' \in {NoLoop, disk} \/ Sound(disk)',
           NEW p \in Procs, proc'[p] = proc[p] \/ WorkSound(proc[p])',
           \A q \in Procs \ {p} : proc'[q] = proc[q],
           (verified \cup failed \subseteq audited)'
    PROVE  LoopInv'
  <1>1. audited \subseteq Ids
    BY DEF TypeOK
  <1>2. disk' # NoLoop => Sound(disk)'
    <2>1. disk # NoLoop => SoundIn(disk, plan, write', audited', verified')
      BY <1>1, SoundGrows DEF LoopInv, TypeOK, Sound, Grows
    <2> QED BY <2>1 DEF Sound, Grows
  <1>3. ASSUME NEW q \in Procs PROVE WorkSound(proc[q])'
    <2>1. proc[q] \in {Idle, Dead} \cup Work
      BY DEF TypeOK
    <2>2. WorkIn(proc[q], plan, write', audited', verified')
      BY <1>1, <2>1, WorkGrows DEF LoopInv, WorkSound, Grows
    <2> QED BY <2>2 DEF WorkSound, Grows
  <1> QED BY <1>2, <1>3 DEF LoopInv

\* A loop that waits for nobody is as sound as the place where it stands.
LEMMA SoundWhereItStands ==
    ASSUME NEW s \in LoopState, NEW t \in LoopState,
           NEW plans, NEW writes, NEW log, NEW verdicts,
           SoundIn(s, plans, writes, log, verdicts),
           t.loop = s.loop, t.status \notin Waiting,
           \/ t.current_step = s.current_step
           \/ /\ t.current_step = s.current_step + 1
              /\ plans[s.loop][t.current_step] \in {"update", "create"} =>
                    \E id \in log \cap verdicts :
                        writes[id] = [loop |-> s.loop, step |-> t.current_step]
    PROVE  SoundIn(t, plans, writes, log, verdicts)
  <1>1. s.current_step \in Nat /\ t.current_step \in Nat
    BY DEF LoopState
  <1>2. \A n \in 1..t.current_step : n \in 1..s.current_step \/ n = t.current_step
    BY <1>1
  <1>3. ASSUME NEW n \in 1..t.current_step, plans[t.loop][n] \in {"update", "create"}
        PROVE  \E id \in log \cap verdicts : writes[id] = [loop |-> t.loop, step |-> n]
    <2>1. CASE n \in 1..s.current_step
      BY <1>3, <2>1 DEF SoundIn
    <2>2. CASE n \notin 1..s.current_step
      <3>1. n = t.current_step /\ t.current_step # s.current_step
        BY <1>1, <1>2, <2>2
      <3> QED BY <1>3, <3>1
    <2> QED BY <2>1, <2>2
  <1>4. t.status # "awaiting_verification"
    BY DEF Waiting
  <1> QED BY <1>3, <1>4 DEF SoundIn

\* What a process has in hand is sound after the step as well.
LEMMA HandStays ==
    ASSUME TypeOK, LoopInv, Grows, NEW p \in Procs, proc[p] \notin {Idle, Dead}
    PROVE  /\ Copy(p) \in LoopState
           /\ WorkIn(proc[p], plan', write', audited', verified')
           /\ SoundIn(Copy(p), plan', write', audited', verified')
  <1>1. audited \subseteq Ids /\ proc[p] \in {Idle, Dead} \cup Work
    BY DEF TypeOK
  <1>2. WorkIn(proc[p], plan, write', audited', verified')
    BY <1>1, WorkGrows DEF LoopInv, WorkSound, Grows
  <1> QED BY <1>2, AtWork DEF WorkIn, Copy, Grows

\* Sound once the step is over.
SoundAfter(s) == SoundIn(s, plan', write', audited', verified')

\* What a process goes on with is sound if its copy is.
LEMMA GoesOnSound ==
    ASSUME TypeOK, NEW p \in Procs, NEW s \in LoopState, SoundAfter(s)
    PROVE  /\ Return(p) => WorkSound(proc[p])'
           /\ Goto(p, "start", s) /\ s.status = "running" => WorkSound(proc[p])'
           /\ Goto(p, "saved", s) \/ Goto(p, "clear", s) \/ Goto(p, "checkpoint", s)
                 => WorkSound(proc[p])'
           /\ Goto(p, "drive", s) /\ s.status = "running" => WorkSound(proc[p])'
           /\ Goto(p, "resume", s) /\ s.status = "awaiting_approval" => WorkSound(proc[p])'
  BY DEF TypeOK, Return, Goto, WorkSound, WorkIn, SoundAfter

LEMMA DriveKeepsInv ==
    ASSUME TypeOK, LoopInv, NEW p \in Procs, Drive(p)
    PROVE  LoopInv'
  <1> DEFINE s == Copy(p)
  <1> USE DEF save, clear, history, gate
  <1>1. proc[p] \notin {Idle, Dead}
    BY DEF Drive, At, Begin, StopAtBudget, RunRead, FailStep, StageWrite, Pause, Crash, LogFails, Complete,
           ClearState, Resume, Decide, SaveCheckpoint, Idle, Dead
  <1>2. TypeOK' /\ Grows
    BY StepTyped, StepGrows DEF Next
  <1>3. /\ s \in LoopState
        /\ WorkIn(proc[p], plan', write', audited', verified')
        /\ SoundAfter(s)
    BY <1>1, <1>2, HandStays DEF SoundAfter
  <1>4. /\ Counted(s) \in LoopState /\ Counted(s).loop = s.loop
        /\ Counted(s).current_step = s.current_step /\ Counted(s).status = s.status
        /\ WithArtifact(s) \in LoopState
    BY <1>3, MovesTyped, MovesStay
  <1>5. At(p, "drive") => s.status = "running"
    BY <1>1, <1>3 DEF WorkIn, At, Copy
  <1>6. At(p, "start") => s.status = "running"
    BY <1>1, <1>3 DEF WorkIn, At, Copy
  \* It suffices that what is saved and gone on with is sound.
  <1>7. ASSUME NEW t \in LoopState, SoundAfter(t), disk' \in {NoLoop, disk, t},
               \/ Return(p) \/ Goto(p, "saved", t) \/ Goto(p, "clear", t)
               \/ Goto(p, "drive", t) /\ t.status = "running",
               verified \cup failed \subseteq audited => (verified \cup failed \subseteq audited)'
        PROVE  LoopInv'
    <2>1. disk' \in {NoLoop, disk} \/ Sound(disk)'
      BY <1>7 DEF SoundAfter, Sound
    <2>2. WorkSound(proc[p])'
      BY <1>7, GoesOnSound
    <2>3. \A q \in Procs \ {p} : proc'[q] = proc[q]
      BY <1>7 DEF Return, Goto, TypeOK
    <2> QED BY <1>2, <1>7, <2>1, <2>2, <2>3, InvStays DEF LoopInv
  <1>8. CASE StopAtBudget(p)
    <2> DEFINE t == [s EXCEPT !.status = "stopped", !.last_error = TRUE]
    <2>1. t \in LoopState /\ t.loop = s.loop /\ t.current_step = s.current_step
          /\ t.status \notin Waiting
      BY <1>3 DEF LoopState, Terminal, Waiting
    <2>2. SoundAfter(t)
      BY <1>3, <2>1, SoundWhereItStands DEF SoundAfter
    <2> QED BY <1>7, <1>8, <2>1, <2>2 DEF StopAtBudget
  <1>9. CASE RunRead(p)
    <2> DEFINE t == Advanced(Counted(s))
    <2>1. s.status = "running"
      BY <1>5, <1>9 DEF RunRead
    <2> HIDE DEF s
    <2>2. t \in LoopState
      BY <1>4, MovesTyped
    <2>3. t.loop = s.loop /\ t.current_step = s.current_step + 1 /\ t.status = "running"
      BY <1>4, <2>1, MovesStay
    <2> USE DEF s
    <2>4. plan'[s.loop][t.current_step] \notin {"update", "create"}
      BY <1>9, <2>3 DEF RunRead, IsWrite, StepOf
    <2>5. SoundAfter(t)
      BY <1>3, <2>2, <2>3, <2>4, SoundWhereItStands DEF SoundAfter, Waiting
    <2> QED BY <1>7, <1>9, <2>2, <2>3, <2>5 DEF RunRead
  <1>10. CASE FailStep(p)
    <2> DEFINE t == [Counted(s) EXCEPT !.status = "failed", !.last_error = TRUE]
    <2>1. t \in LoopState /\ t.loop = s.loop /\ t.current_step = s.current_step
          /\ t.status \notin Waiting
      BY <1>4 DEF LoopState, Terminal, Waiting
    <2>2. SoundAfter(t)
      BY <1>3, <2>1, SoundWhereItStands DEF SoundAfter
    <2> QED BY <1>7, <1>10, <2>1, <2>2 DEF FailStep
  <1>19. CASE Crash(p)
    <2> DEFINE t == [s EXCEPT !.status = "failed", !.last_error = TRUE]
    <2>1. t \in LoopState /\ t.loop = s.loop /\ t.current_step = s.current_step
          /\ t.status \notin Waiting
      BY <1>3 DEF LoopState, Terminal, Waiting
    <2>2. SoundAfter(t)
      BY <1>3, <2>1, SoundWhereItStands DEF SoundAfter
    <2> QED BY <1>7, <1>19, <2>1, <2>2 DEF Crash
  <1>11. CASE StageWrite(p)
    <2>1. PICK id \in Ids :
            /\ write' = [write EXCEPT ![id] = [loop |-> s.loop, step |-> s.current_step + 1]]
            /\ Goto(p, "staged", [Counted(s) EXCEPT !.pending_action_id = id])
      BY <1>11 DEF StageWrite
    <2> DEFINE t == [Counted(s) EXCEPT !.pending_action_id = id]
    <2>2. t \in LoopState /\ t.loop = s.loop /\ t.current_step = s.current_step
          /\ t.status = "running" /\ t.pending_action_id = id
      BY <1>4, <1>5, <1>11 DEF LoopState, StageWrite
    <2>3. SoundAfter(t)
      BY <1>3, <2>2, SoundWhereItStands DEF SoundAfter, Waiting
    <2>4. write'[id] = [loop |-> s.loop, step |-> s.current_step + 1]
      BY <2>1 DEF TypeOK
    <2>5. proc'[p] = [at |-> "staged", s |-> t]
      BY <2>1 DEF Goto, TypeOK
    <2> HIDE DEF t
    <2>6. WorkSound(proc[p])'
      BY <2>2, <2>3, <2>4, <2>5 DEF WorkSound, WorkIn, SoundAfter
    <2>7. \A q \in Procs \ {p} : proc'[q] = proc[q]
      BY <2>1 DEF Goto, TypeOK
    <2> QED BY <1>2, <1>11, <2>6, <2>7, InvStays DEF LoopInv, StageWrite
  <1>12. CASE Pause(p)
    <2> DEFINE t == [s EXCEPT !.status = "awaiting_approval"]
    <2>1. t \in LoopState /\ t.loop = s.loop /\ t.current_step = s.current_step
          /\ t.status = "awaiting_approval" /\ t.pending_action_id = s.pending_action_id
      BY <1>3 DEF LoopState, Waiting
    <2>2. /\ s.pending_action_id \in Ids
          /\ write'[s.pending_action_id] = [loop |-> s.loop, step |-> s.current_step + 1]
      BY <1>1, <1>3, <1>12 DEF WorkIn, Pause, At, Copy
    <2> HIDE DEF t
    <2>3. SoundAfter(t)
      BY <1>3, <2>1, <2>2 DEF SoundAfter, SoundIn, Waiting
    <2> QED BY <1>7, <1>12, <2>1, <2>3 DEF Pause, LogFails, t
  <1>13. CASE Complete(p)
    <2> DEFINE t == [s EXCEPT !.status = "completed"]
    <2>1. t \in LoopState /\ t.loop = s.loop /\ t.current_step = s.current_step
          /\ t.status \notin Waiting
      BY <1>3 DEF LoopState, Terminal, Waiting
    <2>2. SoundAfter(t)
      BY <1>3, <2>1, SoundWhereItStands DEF SoundAfter
    <2> QED BY <1>7, <1>13, <2>1, <2>2 DEF Complete, LogFails
  <1>14. CASE ClearState(p)
    BY <1>3, <1>7, <1>14 DEF ClearState, SoundAfter
  <1>15. CASE Resume(p)
    <2> DEFINE halted == [s EXCEPT !.status = "stop"]
               found  == [WithArtifact(s) EXCEPT !.status = "awaiting_verification"]
    <2>1. s.status = "awaiting_approval"
      BY <1>1, <1>3, <1>15 DEF WorkIn, Resume, At, Copy
    <2>2. halted \in LoopState /\ halted.loop = s.loop /\ halted.current_step = s.current_step
          /\ halted.status \notin Waiting
      BY <1>3 DEF LoopState, Terminal, Waiting
    <2>3. SoundAfter(halted)
      BY <1>3, <2>2, SoundWhereItStands DEF SoundAfter
    <2>4. found \in LoopState /\ found.loop = s.loop /\ found.current_step = s.current_step
          /\ found.pending_action_id = s.pending_action_id
      BY <1>3, <1>4, MovesStay DEF LoopState, Waiting
    <2> HIDE DEF halted, found
    <2>5. s.pending_action_id \in audited' => SoundAfter(found)
      BY <1>3, <2>1, <2>4 DEF SoundAfter, SoundIn, Waiting
    <2>6. CASE disk' = disk
      BY <1>3, <1>7, <1>15, <2>6 DEF Resume, SoundAfter
    <2>7. CASE disk' = halted
      BY <1>7, <1>15, <2>2, <2>3, <2>7 DEF Resume
    <2>8. CASE disk' = found /\ s.pending_action_id \in audited
      BY <1>7, <1>15, <2>4, <2>5, <2>8 DEF Resume
    <2> QED BY <1>15, <2>6, <2>7, <2>8 DEF Resume, halted, found
  <1>16. CASE Decide(p)
    <2> DEFINE v == proc[p].verdict
               r == Remembered(s, v)
               d == next_action(s, v)
               t == AfterDecision(r, d)
               id == s.pending_action_id
    <2>1. s.status = "awaiting_verification"
      BY <1>1, <1>3, <1>16 DEF WorkIn, Decide, At, Copy
    <2>2. /\ id \in audited'
          /\ write'[id] = [loop |-> s.loop, step |-> s.current_step + 1]
      BY <1>2, <1>3, <2>1 DEF SoundAfter, SoundIn, Waiting, Grows
    <2>3. v \in Verdicts
      BY <1>1, <1>16, AtWork DEF Decide
    <2>4. r \in LoopState /\ d \in Decisions
          /\ r.loop = s.loop /\ r.current_step = s.current_step
      BY <1>3, <2>3, ControllerTyped
    <2>5. /\ t \in LoopState /\ t.loop = s.loop /\ t.status \notin Waiting
          /\ d = "proceed" => t.current_step = s.current_step + 1
          /\ d # "proceed" => t.current_step = s.current_step
      BY <2>4, DecisionTyped
    <2>6. d = "proceed" => v.status = "verified"
      BY <2>3 DEF next_action, DecisionOn, Verdicts
    <2>7. v.status = "verified" => id \in verified'
      BY <1>16 DEF Decide
    <2>8. verified \cup failed \subseteq audited => (verified \cup failed \subseteq audited)'
      BY <1>16, <2>2 DEF Decide
    <2>9. disk' = t /\ ((t.status = "running" /\ Goto(p, "drive", t)) \/ Return(p))
      BY <1>16 DEF Decide
    <2> HIDE DEF v, r, d, t
    <2>10. SoundAfter(t)
      <3>1. d = "proceed" => id \in audited' \cap verified'
        BY <2>2, <2>6, <2>7
      <3> QED BY <1>3, <2>2, <2>5, <3>1, SoundWhereItStands DEF SoundAfter
    <2> QED BY <1>7, <2>5, <2>8, <2>9, <2>10
  <1>17. CASE SaveCheckpoint(p)
    BY <1>3, <1>7, <1>17 DEF SaveCheckpoint, SoundAfter
  <1>18. CASE Begin(p)
    <2>1. CASE Active(disk) /\ TakeUp(p) /\ disk' = disk
      <3>1. disk \in LoopState /\ Sound(disk)
        BY <2>1 DEF Active, TypeOK, LoopInv
      <3>2. UNCHANGED <<plan, write, audited, verified, failed>>
        BY <1>18 DEF Begin
      <3>3. SoundAfter(disk)
        BY <3>1, <3>2 DEF Sound, SoundAfter
      <3>4. WorkSound(proc[p])'
        BY <2>1, <3>1, <3>3, GoesOnSound DEF TakeUp
      <3>5. \A q \in Procs \ {p} : proc'[q] = proc[q]
        BY <2>1 DEF TakeUp, Goto, TypeOK
      <3> QED BY <1>2, <2>1, <3>2, <3>4, <3>5, InvStays DEF LoopInv
    <2>2. CASE disk' \in {NoLoop, disk} /\ (Goto(p, "drive", s) \/ Return(p))
      BY <1>3, <1>6, <1>7, <1>18, <2>2 DEF Begin
    <2> QED BY <1>18, <2>1, <2>2 DEF Begin
  <1> QED BY <1>8, <1>9, <1>10, <1>11, <1>12, <1>13, <1>14, <1>15, <1>16, <1>17, <1>18, <1>19
      DEF Drive

LEMMA CommandKeepsInv ==
    ASSUME TypeOK, LoopInv, NEW p \in Procs, Command(p)
    PROVE  LoopInv'
  <1> USE DEF save, clear, history, gate
  <1>1. Grows
    BY StepGrows DEF Next
  <1>2. disk # NoLoop => disk \in LoopState
    BY DEF TypeOK
  <1>3. disk # NoLoop => SoundAfter(disk)
    <2>1. audited \subseteq Ids
      BY DEF TypeOK
    <2>2. disk # NoLoop => SoundIn(disk, plan, write', audited', verified')
      BY <1>1, <1>2, <2>1, SoundGrows DEF LoopInv, Sound, Grows
    <2> QED BY <1>1, <2>2 DEF SoundAfter, Grows
  \* It suffices that what the command works on is sound.
  <1>4. ASSUME WorkSound(proc[p])' \/ proc' = proc, disk' \in {NoLoop, disk},
               \A q \in Procs \ {p} : proc'[q] = proc[q],
               UNCHANGED <<gate, history>>
        PROVE  LoopInv'
    <2>1. (verified \cup failed \subseteq audited)'
      BY <1>4 DEF LoopInv
    <2> QED BY <1>1, <1>4, <2>1, InvStays
  <1>5. ASSUME NEW loop \in Loops, Start(p, loop) PROVE LoopInv'
    <2> DEFINE t == Fresh(loop)
    <2>1. t \in LoopState /\ t.status = "running" /\ t.current_step = 0
      BY DEF Fresh, LoopState, Hashes, NoHash
    <2> HIDE DEF t
    <2>2. SoundAfter(t)
      BY <2>1 DEF SoundAfter, SoundIn, Waiting
    <2>3. Goto(p, "start", t)
      BY <1>5 DEF Start, t
    <2>4. WorkSound(proc[p])'
      BY <2>1, <2>2, <2>3, GoesOnSound
    <2>5. \A q \in Procs \ {p} : proc'[q] = proc[q]
      BY <2>3 DEF Goto, TypeOK
    <2> QED BY <1>4, <1>5, <2>4, <2>5 DEF Start
  <1>6. CASE Continue(p)
    <2>1. disk # NoLoop
      BY <1>6 DEF Continue
    <2>2. \/ Goto(p, "clear", disk)
          \/ Goto(p, "drive", disk) /\ disk.status = "running"
          \/ Goto(p, "resume", disk) /\ disk.status = "awaiting_approval"
      BY <1>6 DEF Continue, TakeUp
    <2>3. WorkSound(proc[p])'
      BY <1>2, <1>3, <2>1, <2>2, GoesOnSound
    <2>4. \A q \in Procs \ {p} : proc'[q] = proc[q]
      BY <2>2 DEF Goto, TypeOK
    <2> QED BY <1>4, <1>6, <2>3, <2>4 DEF Continue
  <1>7. ASSUME NEW v \in Verdicts, Verify(p, v) PROVE LoopInv'
    <2>1. proc'[p] = [at |-> "decide", s |-> disk, verdict |-> v]
      BY <1>7 DEF Verify, TypeOK
    <2>2. WorkSound(proc[p])'
      BY <1>3, <1>7, <2>1 DEF Verify, WorkSound, WorkIn, SoundAfter
    <2>3. \A q \in Procs \ {p} : proc'[q] = proc[q]
      BY <1>7 DEF Verify, TypeOK
    <2> QED BY <1>4, <1>7, <2>2, <2>3 DEF Verify
  <1>8. CASE Checkpoint(p)
    <2>1. disk # NoLoop /\ Goto(p, "checkpoint", disk)
      BY <1>8 DEF Checkpoint
    <2>2. WorkSound(proc[p])'
      BY <1>2, <1>3, <2>1, GoesOnSound
    <2>3. \A q \in Procs \ {p} : proc'[q] = proc[q]
      BY <2>1 DEF Goto, TypeOK
    <2> QED BY <1>4, <1>8, <2>2, <2>3 DEF Checkpoint
  <1>9. CASE Abandon(p)
    BY <1>4, <1>9 DEF Abandon
  <1> QED BY <1>5, <1>6, <1>7, <1>8, <1>9 DEF Command

\* The gate, time and a death save nothing and give nobody anything to do.
LEMMA OthersKeepInv ==
    ASSUME TypeOK, LoopInv, Grows, disk' = disk, UNCHANGED history,
           \A q \in Procs : proc'[q] \in {proc[q], Dead}
    PROVE  LoopInv'
  <1>1. audited \subseteq Ids
    BY DEF TypeOK
  <1>2. disk' # NoLoop => Sound(disk)'
    <2>1. disk # NoLoop => SoundIn(disk, plan, write', audited', verified')
      BY <1>1, SoundGrows DEF LoopInv, TypeOK, Sound, Grows
    <2> QED BY <2>1 DEF Sound, Grows
  <1>3. ASSUME NEW q \in Procs PROVE WorkSound(proc[q])'
    <2>1. proc[q] \in {Idle, Dead} \cup Work
      BY DEF TypeOK
    <2>2. WorkIn(proc[q], plan, write', audited', verified')
      BY <1>1, <2>1, WorkGrows DEF LoopInv, WorkSound, Grows
    <2> QED BY <2>2 DEF WorkSound, Grows, WorkIn
  <1>4. (verified \cup failed \subseteq audited)'
    BY DEF LoopInv, history, Grows
  <1> QED BY <1>2, <1>3, <1>4 DEF LoopInv

LEMMA StepKeepsInv ==
    ASSUME TypeOK, LoopInv, [Next]_vars
    PROVE  LoopInv'
  <1>1. Grows
    BY StepGrows
  <1>2. ASSUME NEW p \in Procs, Kill(p) PROVE LoopInv'
    <2>1. \A q \in Procs : proc'[q] \in {proc[q], Dead}
      BY <1>2 DEF Kill, TypeOK
    <2> QED BY <1>1, <1>2, <2>1, OthersKeepInv DEF Kill
  <1>3. ASSUME NEW id \in Ids, Approve(id) \/ LogApprove(id) \/ Discard(id) PROVE LoopInv'
    <2>1. disk' = disk /\ UNCHANGED history /\ proc' = proc
      BY <1>3 DEF Approve, LogApprove, Discard
    <2> QED BY <1>1, <2>1, OthersKeepInv
  <1>4. CASE Age \/ UNCHANGED vars
    <2>1. disk' = disk /\ UNCHANGED history /\ proc' = proc
      BY <1>4 DEF Age, vars
    <2> QED BY <1>1, <2>1, OthersKeepInv
  <1> QED BY <1>2, <1>3, <1>4, DriveKeepsInv, CommandKeepsInv DEF Next

\* Whatever commands, approvals, faults and deaths come together, no loop gets
\* past a write before it was executed, logged and found verified, and
\* no verdict is taken on a write that was never executed.
THEOREM NothingUnverifiedBehind == Spec => []OnlyVerifiedBehind
  <1>1. Init => LoopInv
    BY DEF Init, LoopInv, WorkSound, WorkIn, Idle
  <1>2. TypeOK /\ LoopInv /\ [Next]_vars => LoopInv'
    BY StepKeepsInv
  <1>3. LoopInv => OnlyVerifiedBehind
    BY DEF LoopInv, Sound, SoundIn, OnlyVerifiedBehind, WritesAreVerified, VerdictsAreOnExecuted, Behind,
           IsFor, IsWriteStep
  <1> QED BY <1>1, <1>2, <1>3, TypeCorrect, PTL DEF Spec

-----------------------------------------------------------------------------
(* One command at a time: loops keep their place *)

Busy(p) == proc[p] \notin {Idle, Dead}

\* A command has the loop to itself: nobody else is at work, nobody approves.
Alone ==
    \A p \in Procs : Busy(p) =>
        /\ \A q \in Procs : Busy(q) => q = p
        /\ \A id \in Ids : stage[id] # "applied"

\* The saved state is the copy of who works on it; of a loop that has just begun
\* nothing is saved yet, and of one that has just staged a write, where it stands.
InPlace(w) ==
    /\ w.at = "drive" => disk \in {NoLoop, w.s}
    /\ w.at = "staged" /\ disk # NoLoop =>
          /\ disk.loop = w.s.loop /\ disk.current_step = w.s.current_step
          /\ disk.status = "running"
    /\ w.at \in {"saved", "resume", "decide", "checkpoint", "clear"} => disk = w.s
    /\ w.at = "clear" => ~Active(disk) \/ stale

PlaceInv == Alone /\ \A p \in Procs : Busy(p) => InPlace(proc[p])

\* A loop that stops while its write is named was told that it is discarded, as
\* long as every approval is logged.
StopInv ==
    /\ \A id \in Ids : stage[id] = "executed" => id \in audited
    /\ StopMeansRejected

\* Only who is busy drives, and it takes a command or a person nobody disturbs.
LEMMA WhoIsBusy ==
    ASSUME TypeOK, ~Overlap, NEW p \in Procs
    PROVE  /\ Drive(p) \/ Kill(p) => Busy(p)
           /\ Command(p) => /\ \A q \in Procs : ~Busy(q)
                            /\ \A id \in Ids : stage[id] # "applied"
           /\ Busy(p) => proc[p] \in Work /\ Copy(p) \in LoopState /\ Copy(p) # NoLoop
  <1>1. Drive(p) \/ Kill(p) => Busy(p)
    BY DEF Drive, At, Begin, StopAtBudget, RunRead, FailStep, StageWrite, Pause, Crash, LogFails, Complete,
           ClearState, Resume, Decide, SaveCheckpoint, Kill, Idle, Dead, Busy
  <1>2. Command(p) => /\ \A q \in Procs : ~Busy(q)
                      /\ \A id \in Ids : stage[id] # "applied"
    BY DEF Command, Start, Continue, Verify, Checkpoint, Abandon, MayStart, Quiet, Busy
  <1>3. Busy(p) => proc[p] \in Work /\ Copy(p) \in LoopState
    BY AtWork DEF Busy, TypeOK
  <1> QED BY <1>1, <1>2, <1>3, MovesTyped

\* A step of p keeps the places if it keeps its own.
LEMMA PlaceStays ==
    ASSUME TypeOK, Alone, NEW p \in Procs, \A q \in Procs \ {p} : ~Busy(q),
           Busy(p) \/ \A id \in Ids : stage[id] # "applied",
           \A q \in Procs \ {p} : proc'[q] = proc[q],
           Busy(p)' => InPlace(proc[p])',
           \A id \in Ids : stage'[id] \in {stage[id], "pending"}
    PROVE  PlaceInv'
  BY DEF Alone, PlaceInv, Busy

\* What a process goes on with is in place if it is what it just saved.
LEMMA GoesOnInPlace ==
    ASSUME TypeOK, NEW p \in Procs, NEW s \in LoopState
    PROVE  /\ Return(p) => ~Busy(p)'
           /\ Goto(p, "start", s) => InPlace(proc[p])'
           /\ Goto(p, "drive", s) /\ disk' \in {NoLoop, s} => InPlace(proc[p])'
           /\ Goto(p, "saved", s) \/ Goto(p, "resume", s) \/ Goto(p, "checkpoint", s) =>
                 (disk' = s => InPlace(proc[p])')
           /\ Goto(p, "clear", s) /\ disk' = s /\ (~Active(s) \/ stale') => InPlace(proc[p])'
           /\ Return(p) \/ (\E at \in {"start", "drive", "saved", "resume", "checkpoint", "clear"} :
                                Goto(p, at, s))
              => \A q \in Procs \ {p} : proc'[q] = proc[q]
  BY DEF TypeOK, Return, Goto, InPlace, Busy, Active

LEMMA DriveKeepsPlace ==
    ASSUME TypeOK, LoopInv, ~Overlap, PlaceInv, NEW p \in Procs, Drive(p)
    PROVE  PlaceInv'
  <1> DEFINE s == Copy(p)
  <1> USE DEF save, clear, gate
  <1>1. Busy(p) /\ s \in LoopState /\ s # NoLoop
    BY WhoIsBusy
  <1>2. /\ InPlace(proc[p])
        /\ \A q \in Procs \ {p} : ~Busy(q)
        /\ WorkIn(proc[p], plan, write, audited, verified)
    BY <1>1 DEF PlaceInv, Alone, LoopInv, WorkSound
  <1>3. ASSUME \A q \in Procs \ {p} : proc'[q] = proc[q],
               Busy(p)' => InPlace(proc[p])', stage' = stage
        PROVE  PlaceInv'
    BY <1>1, <1>2, <1>3, PlaceStays DEF PlaceInv
  <1>4. CASE StopAtBudget(p) \/ FailStep(p) \/ Crash(p) \/ ClearState(p) \/ Resume(p)
             \/ SaveCheckpoint(p)
    <2>1. Return(p) /\ stage' = stage
      BY <1>4 DEF StopAtBudget, FailStep, Crash, ClearState, Resume, SaveCheckpoint
    <2> QED BY <1>1, <1>3, <2>1, GoesOnInPlace
  <1>10. CASE Pause(p)
    <2> DEFINE t == [s EXCEPT !.status = "awaiting_approval"]
    <2>1. t \in LoopState
      BY <1>1 DEF LoopState, Waiting
    <2>2. disk' = t /\ (Return(p) \/ Goto(p, "saved", t)) /\ stage' = stage
      BY <1>10 DEF Pause, LogFails
    <2> HIDE DEF s, t
    <2> QED BY <1>3, <2>1, <2>2, GoesOnInPlace
  <1>5. CASE RunRead(p)
    <2> DEFINE t == Advanced(Counted(s))
    <2> HIDE DEF s
    <2>1. t \in LoopState
      BY <1>1, MovesTyped
    <2> HIDE DEF t
    <2>2. disk' = t /\ Goto(p, "drive", t) /\ stage' = stage
      BY <1>5 DEF RunRead, s, t
    <2> QED BY <1>3, <2>1, <2>2, GoesOnInPlace
  <1>6. CASE StageWrite(p)
    <2>1. PICK id \in Ids :
            /\ stage' = [stage EXCEPT ![id] = "pending"]
            /\ Goto(p, "staged", [Counted(s) EXCEPT !.pending_action_id = id])
      BY <1>6 DEF StageWrite
    <2> DEFINE t == [Counted(s) EXCEPT !.pending_action_id = id]
    <2>2. /\ t.loop = s.loop /\ t.current_step = s.current_step
          /\ proc[p].at = "drive" /\ s.status = "running"
      BY <1>1, <1>2, <1>6 DEF StageWrite, Counted, LoopState, WorkIn, At, Copy, Busy
    <2>3. disk' \in {NoLoop, s}
      BY <1>2, <1>6, <2>2 DEF StageWrite, InPlace, Copy
    <2>4. proc' = [proc EXCEPT ![p] = [at |-> "staged", s |-> t]]
      BY <2>1 DEF Goto
    <2> HIDE DEF t, s
    <2>5. InPlace(proc[p])'
      BY <2>2, <2>3, <2>4 DEF InPlace, TypeOK
    <2>6. \A q \in Procs \ {p} : proc'[q] = proc[q]
      BY <2>4 DEF TypeOK
    <2>7. \A i \in Ids : stage'[i] \in {stage[i], "pending"}
      BY <2>1 DEF TypeOK
    <2> QED BY <1>1, <1>2, <2>5, <2>6, <2>7, PlaceStays DEF PlaceInv
  <1>7. CASE Complete(p)
    <2> DEFINE t == [s EXCEPT !.status = "completed"]
    <2>1. t \in LoopState /\ ~Active(t)
      BY <1>1 DEF LoopState, Terminal, Active
    <2>2. disk' = t /\ (Goto(p, "clear", t) \/ Goto(p, "saved", t)) /\ stage' = stage
      BY <1>7 DEF Complete, LogFails
    <2> HIDE DEF s, t
    <2> QED BY <1>3, <2>1, <2>2, GoesOnInPlace
  <1>8. CASE Decide(p)
    <2> DEFINE v == proc[p].verdict
               t == AfterDecision(Remembered(s, v), next_action(s, v))
    <2>1. v \in Verdicts
      BY <1>1, <1>8, AtWork DEF Decide, Busy
    <2>2. t \in LoopState
      BY <1>1, <2>1, ControllerTyped, DecisionTyped
    <2>3. disk' = t /\ (Goto(p, "drive", t) \/ Return(p)) /\ stage' = stage
      BY <1>8 DEF Decide
    <2> HIDE DEF t
    <2> QED BY <1>1, <1>3, <2>2, <2>3, GoesOnInPlace
  <1>9. CASE Begin(p)
    <2>1. stage' = stage
      BY <1>9 DEF Begin
    <2>2. CASE disk # NoLoop /\ TakeUp(p) /\ disk' = disk
      <3>1. disk \in LoopState
        BY <2>2 DEF TypeOK
      <3> QED BY <1>3, <2>1, <2>2, <3>1, GoesOnInPlace DEF TakeUp
    <2>3. CASE Return(p)
      BY <1>1, <1>3, <2>1, <2>3, GoesOnInPlace
    <2>4. CASE Goto(p, "drive", s) /\ disk' = NoLoop
      BY <1>1, <1>3, <2>1, <2>4, GoesOnInPlace
    <2> QED BY <1>9, <2>2, <2>3, <2>4 DEF Begin, Active
  <1> QED BY <1>4, <1>5, <1>6, <1>7, <1>8, <1>9, <1>10 DEF Drive

LEMMA CommandKeepsPlace ==
    ASSUME TypeOK, ~Overlap, PlaceInv, NEW p \in Procs, Command(p)
    PROVE  PlaceInv'
  <1> USE DEF save, clear, gate
  <1>1. /\ \A q \in Procs : ~Busy(q)
        /\ \A id \in Ids : stage[id] # "applied"
    BY WhoIsBusy
  <1>2. ASSUME \A q \in Procs \ {p} : proc'[q] = proc[q],
               Busy(p)' => InPlace(proc[p])', stage' = stage
        PROVE  PlaceInv'
    BY <1>1, <1>2, PlaceStays DEF PlaceInv
  <1>3. ASSUME NEW loop \in Loops, Start(p, loop) PROVE PlaceInv'
    <2> DEFINE t == Fresh(loop)
    <2>1. t \in LoopState
      BY DEF Fresh, LoopState, Hashes, NoHash
    <2> HIDE DEF t
    <2>2. Goto(p, "start", t) /\ stage' = stage
      BY <1>3 DEF Start, t
    <2> QED BY <1>2, <2>1, <2>2, GoesOnInPlace
  <1>4. CASE Continue(p)
    <2>1. disk \in LoopState /\ disk' = disk /\ stale' = stale /\ stage' = stage
      BY <1>4 DEF Continue, TypeOK
    <2>2. \/ (~Active(disk) \/ stale) /\ Goto(p, "clear", disk)
          \/ Goto(p, "drive", disk) \/ Goto(p, "resume", disk)
      BY <1>4 DEF Continue, TakeUp
    <2> QED BY <1>2, <2>1, <2>2, GoesOnInPlace
  <1>5. ASSUME NEW v \in Verdicts, Verify(p, v) PROVE PlaceInv'
    <2>1. disk' = disk /\ stage' = stage
      BY <1>5 DEF Verify
    <2>2. proc' = [proc EXCEPT ![p] = [at |-> "decide", s |-> disk, verdict |-> v]]
      BY <1>5 DEF Verify
    <2>3. InPlace(proc[p])' /\ \A q \in Procs \ {p} : proc'[q] = proc[q]
      BY <2>1, <2>2 DEF InPlace, TypeOK
    <2> QED BY <1>2, <2>1, <2>3
  <1>6. CASE Checkpoint(p)
    <2>1. disk \in LoopState /\ disk' = disk /\ Goto(p, "checkpoint", disk) /\ stage' = stage
      BY <1>6 DEF Checkpoint, TypeOK
    <2> QED BY <1>2, <2>1, GoesOnInPlace
  <1>7. CASE Abandon(p)
    BY <1>1, <1>2, <1>7 DEF Abandon, Busy
  <1> QED BY <1>3, <1>4, <1>5, <1>6, <1>7 DEF Command

LEMMA StepKeepsPlace ==
    ASSUME TypeOK, LoopInv, ~Overlap, PlaceInv, [Next]_vars
    PROVE  PlaceInv'
  <1> USE DEF gate
  <1>1. ASSUME NEW p \in Procs, Kill(p) PROVE PlaceInv'
    BY <1>1 DEF Kill, PlaceInv, Alone, InPlace, Busy, TypeOK
  <1>2. ASSUME NEW id \in Ids, Approve(id) \/ Discard(id) PROVE PlaceInv'
    <2>1. (\A q \in Procs : ~Busy(q)) /\ proc' = proc
      BY <1>2 DEF Approve, Discard, Quiet, Busy
    <2> QED BY <2>1 DEF PlaceInv, Alone, Busy
  <1>3. ASSUME NEW id \in Ids, LogApprove(id) PROVE PlaceInv'
    <2>1. (\A q \in Procs : ~Busy(q)) /\ proc' = proc
      BY <1>3 DEF LogApprove, PlaceInv, Alone
    <2> QED BY <2>1 DEF PlaceInv, Alone, Busy
  <1>4. CASE Age
    <2>1. (\A q \in Procs : ~Busy(q)) /\ proc' = proc
      BY <1>4 DEF Age, Busy
    <2> QED BY <2>1 DEF PlaceInv, Alone, Busy
  <1>5. CASE UNCHANGED vars
    BY <1>5 DEF vars, PlaceInv, Alone, InPlace, Busy
  <1> QED BY <1>1, <1>2, <1>3, <1>4, <1>5, DriveKeepsPlace, CommandKeepsPlace DEF Next

\* What LoopsKeepTheirPlace says of every step.
KeptInPlace == NeverBack /\ EndsForGood /\ StartRefusesActive

\* A step that saves nothing, saves what it works on, or clears a file that is
\* free to be cleared takes nothing back.
LEMMA StepKeepsTheLoop ==
    ASSUME TypeOK, LoopInv, ~Overlap, PlaceInv, Next
    PROVE  KeptInPlace
  <1> USE DEF save, clear, gate
  <1>1. ASSUME disk' = disk PROVE KeptInPlace
    BY <1>1 DEF KeptInPlace, NeverBack, EndsForGood, StartRefusesActive, TypeOK, LoopState
  <1>2. ASSUME disk' = NoLoop, ~Active(disk) \/ stale PROVE KeptInPlace
    BY <1>2 DEF KeptInPlace, NeverBack, EndsForGood, StartRefusesActive, Active
  <1>3. ASSUME NEW t \in LoopState, disk' = t,
               disk # NoLoop => /\ t.loop = disk.loop /\ t.current_step >= disk.current_step
                                /\ disk.status \notin Terminal \/ t.status \in Terminal
        PROVE  KeptInPlace
    BY <1>3, MovesTyped DEF KeptInPlace, NeverBack, EndsForGood, StartRefusesActive
  <1>4. ASSUME NEW p \in Procs, Drive(p) PROVE KeptInPlace
    <2> DEFINE s == Copy(p)
    <2>1. Busy(p) /\ s \in LoopState /\ s # NoLoop /\ s.current_step \in Nat
      BY <1>4, WhoIsBusy DEF LoopState
    <2>2. InPlace(proc[p]) /\ WorkIn(proc[p], plan, write, audited, verified)
      BY <2>1 DEF PlaceInv, LoopInv, WorkSound, Busy
    <2>15. /\ Counted(s) \in LoopState /\ Counted(s).loop = s.loop
           /\ Counted(s).current_step = s.current_step
           /\ WithArtifact(s) \in LoopState /\ WithArtifact(s).loop = s.loop
           /\ WithArtifact(s).current_step = s.current_step
      BY <2>1, MovesTyped, MovesStay
    <2>16. Advanced(Counted(s)) \in LoopState
           /\ Advanced(Counted(s)).loop = s.loop
           /\ Advanced(Counted(s)).current_step = s.current_step + 1
      <3> HIDE DEF s
      <3>1. Advanced(Counted(s)) \in LoopState
        BY <2>15, MovesTyped
      <3>2. /\ Advanced(Counted(s)).loop = Counted(s).loop
            /\ Advanced(Counted(s)).current_step = Counted(s).current_step + 1
        BY <2>15, MovesStay
      <3> QED BY <2>15, <3>1, <3>2
    <2>3. At(p, "drive") => s.status \notin Terminal /\ disk \in {NoLoop, s}
      BY <2>1, <2>2 DEF InPlace, WorkIn, At, Copy, Terminal, Busy
    <2>4. CASE StopAtBudget(p)
      <3> DEFINE t == [s EXCEPT !.status = "stopped", !.last_error = TRUE]
      <3>1. t \in LoopState /\ t.loop = s.loop /\ t.current_step = s.current_step
        BY <2>1 DEF LoopState, Terminal
      <3>2. disk' = t /\ At(p, "drive")
        BY <2>4 DEF StopAtBudget
      <3> HIDE DEF t, s
      <3> QED BY <1>3, <2>1, <2>3, <3>1, <3>2
    <2>5. CASE RunRead(p)
      <3> DEFINE t == Advanced(Counted(s))
      <3>1. t \in LoopState /\ t.loop = s.loop /\ t.current_step = s.current_step + 1
        BY <2>16
      <3>2. disk' = t /\ At(p, "drive")
        BY <2>5 DEF RunRead
      <3> HIDE DEF t, s
      <3> QED BY <1>3, <2>1, <2>3, <3>1, <3>2
    <2>6. CASE FailStep(p)
      <3> DEFINE t == [Counted(s) EXCEPT !.status = "failed", !.last_error = TRUE]
      <3>1. t \in LoopState /\ t.loop = s.loop /\ t.current_step = s.current_step
        BY <2>15 DEF LoopState, Terminal
      <3>2. disk' = t /\ At(p, "drive")
        BY <2>6 DEF FailStep
      <3> HIDE DEF t, s
      <3> QED BY <1>3, <2>1, <2>3, <3>1, <3>2
    <2>17. CASE Crash(p)
      <3> DEFINE t == [s EXCEPT !.status = "failed", !.last_error = TRUE]
      <3>1. /\ t \in LoopState /\ t.loop = s.loop /\ t.current_step = s.current_step
            /\ t.status \in Terminal
        BY <2>1 DEF LoopState, Terminal
      <3>2. disk # NoLoop => disk.loop = s.loop /\ disk.current_step = s.current_step
        BY <2>2, <2>17 DEF Crash, InPlace, Copy
      <3>3. disk' = t
        BY <2>17 DEF Crash
      <3> HIDE DEF t, s
      <3> QED BY <1>3, <2>1, <3>1, <3>2, <3>3
    <2>7. CASE StageWrite(p)
      BY <1>1, <2>7 DEF StageWrite
    <2>8. CASE Pause(p)
      <3> DEFINE t == [s EXCEPT !.status = "awaiting_approval"]
      <3>1. t \in LoopState /\ t.loop = s.loop /\ t.current_step = s.current_step
        BY <2>1 DEF LoopState, Waiting
      <3>2. disk # NoLoop => /\ disk.loop = s.loop /\ disk.current_step = s.current_step
                             /\ disk.status \notin Terminal
        BY <2>2, <2>8 DEF Pause, InPlace, At, Copy, Terminal
      <3>3. disk' = t
        BY <2>8 DEF Pause
      <3> HIDE DEF t, s
      <3> QED BY <1>3, <2>1, <3>1, <3>2, <3>3
    <2>9. CASE Complete(p)
      <3> DEFINE t == [s EXCEPT !.status = "completed"]
      <3>1. t \in LoopState /\ t.loop = s.loop /\ t.current_step = s.current_step
        BY <2>1 DEF LoopState, Terminal
      <3>2. disk' = t /\ At(p, "drive")
        BY <2>9 DEF Complete
      <3> HIDE DEF t, s
      <3> QED BY <1>3, <2>1, <2>3, <3>1, <3>2
    <2>10. CASE ClearState(p)
      BY <1>2, <2>2, <2>10 DEF ClearState, InPlace, At
    <2>11. CASE Resume(p)
      <3>1. disk = s /\ s.status = "awaiting_approval"
        BY <2>1, <2>2, <2>11 DEF Resume, InPlace, WorkIn, At, Copy, Busy
      <3>2. CASE disk' = disk
        BY <1>1, <3>2
      <3>3. CASE disk' = [s EXCEPT !.status = "stop"]
        <4> DEFINE t == [s EXCEPT !.status = "stop"]
        <4>1. t \in LoopState /\ t.loop = s.loop /\ t.current_step = s.current_step
          BY <2>1 DEF LoopState, Terminal
        <4>2. disk' = t
          BY <3>3
        <4> HIDE DEF t, s
        <4> QED BY <1>3, <2>1, <3>1, <4>1, <4>2 DEF Terminal
      <3>4. CASE disk' = [WithArtifact(s) EXCEPT !.status = "awaiting_verification"]
        <4> DEFINE t == [WithArtifact(s) EXCEPT !.status = "awaiting_verification"]
        <4>1. t \in LoopState /\ t.loop = s.loop /\ t.current_step = s.current_step
          BY <2>15 DEF LoopState, Waiting
        <4>2. disk' = t
          BY <3>4
        <4> HIDE DEF t, s
        <4> QED BY <1>3, <2>1, <3>1, <4>1, <4>2 DEF Terminal
      <3> QED BY <2>11, <3>2, <3>3, <3>4 DEF Resume
    <2>12. CASE Decide(p)
      <3> DEFINE v == proc[p].verdict
                 t == AfterDecision(Remembered(s, v), next_action(s, v))
      <3>1. disk = s /\ s.status \notin Terminal
        BY <2>1, <2>2, <2>12 DEF Decide, InPlace, WorkIn, At, Copy, Busy, Terminal
      <3>2. v \in Verdicts
        BY <2>1, <2>12, AtWork DEF Decide, Busy
      <3>3. /\ t \in LoopState /\ t.loop = s.loop
            /\ t.current_step \in {s.current_step, s.current_step + 1}
        <4>1. /\ Remembered(s, v) \in LoopState /\ Remembered(s, v).loop = s.loop
              /\ Remembered(s, v).current_step = s.current_step
              /\ next_action(s, v) \in Decisions
          BY <2>1, <3>2, ControllerTyped
        <4> HIDE DEF s, v
        <4> QED BY <4>1, DecisionTyped
      <3>4. disk' = t
        BY <2>12 DEF Decide
      <3> HIDE DEF t
      <3> QED BY <1>3, <2>1, <3>1, <3>3, <3>4
    <2>13. CASE SaveCheckpoint(p)
      BY <1>1, <2>2, <2>13 DEF SaveCheckpoint, InPlace, At, Copy
    <2>14. CASE Begin(p)
      BY <1>1, <1>2, <2>14 DEF Begin
    <2> QED BY <1>4, <2>4, <2>5, <2>6, <2>7, <2>8, <2>9, <2>10, <2>11, <2>12, <2>13, <2>14, <2>17
        DEF Drive
  <1>5. ASSUME NEW p \in Procs, Command(p) PROVE KeptInPlace
    <2>1. CASE Abandon(p)
      BY <2>1 DEF Abandon, KeptInPlace, NeverBack, EndsForGood, StartRefusesActive
    <2> QED BY <1>1, <1>5, <2>1 DEF Command, Start, Continue, Verify, Checkpoint
  <1>6. ASSUME NEW p \in Procs, Kill(p) PROVE KeptInPlace
    BY <1>1, <1>6 DEF Kill
  <1>7. ASSUME NEW id \in Ids, Approve(id) \/ LogApprove(id) \/ Discard(id) PROVE KeptInPlace
    BY <1>1, <1>7 DEF Approve, LogApprove, Discard
  <1>8. CASE Age
    BY <1>1, <1>8 DEF Age
  <1> QED BY <1>4, <1>5, <1>6, <1>7, <1>8 DEF Next

\* One command at a time, whatever fails and whoever dies: no saved loop goes
\* back, comes back to life after its end, or loses its place to another.
THEOREM LoopsStayInPlace ==
    ASSUME ~Overlap
    PROVE  Spec => LoopsKeepTheirPlace
  <1>1. Init => LoopInv /\ PlaceInv
    BY DEF Init, LoopInv, WorkSound, WorkIn, PlaceInv, Alone, Busy, Idle
  <1>2. TypeOK /\ LoopInv /\ PlaceInv /\ [Next]_vars => LoopInv' /\ PlaceInv'
    BY StepKeepsInv, StepKeepsPlace
  <1>3. TypeOK /\ LoopInv /\ PlaceInv /\ [Next]_vars
        => [NeverBack /\ EndsForGood /\ StartRefusesActive]_vars
    BY StepKeepsTheLoop DEF KeptInPlace
  <1> QED BY <1>1, <1>2, <1>3, TypeCorrect, PTL DEF Spec, LoopsKeepTheirPlace

\* One command at a time and every approval in the log: a loop stops on a write
\* it names only after the write was rejected or reaped, whoever dies.
THEOREM StopsAreRejections ==
    ASSUME ~Overlap, "audit_unseen" \notin Faults
    PROVE  Spec => []StopMeansRejected
  <1>1. Init => LoopInv /\ PlaceInv /\ StopInv
    BY DEF Init, LoopInv, WorkSound, WorkIn, PlaceInv, Alone, Busy, Idle, StopInv,
           StopMeansRejected
  <1>2. TypeOK /\ LoopInv /\ PlaceInv /\ StopInv /\ [Next]_vars
        => LoopInv' /\ PlaceInv' /\ StopInv'
    <2> SUFFICES ASSUME TypeOK, LoopInv, PlaceInv, StopInv, [Next]_vars PROVE StopInv'
      BY StepKeepsInv, StepKeepsPlace
    <2> USE DEF save, clear, gate
    \* A discarded write stays discarded; one that is logged stays logged.
    <2>1. ASSUME disk' \in {NoLoop, disk} \/ disk'.status # "stop"
                 \/ disk'.pending_action_id = NoId,
                 \A id \in Ids : /\ stage[id] = "discarded" => stage'[id] = "discarded"
                                 /\ stage'[id] = "executed" => stage[id] = "executed"
                                                               \/ id \in audited',
                 audited \subseteq audited'
          PROVE  StopInv'
      <3>1. disk # NoLoop => disk.pending_action_id \in Ids \cup {NoId}
        BY DEF TypeOK, LoopState
      <3> QED BY <2>1, <3>1 DEF StopInv, StopMeansRejected
    <2>2. ASSUME NEW p \in Procs, Drive(p) PROVE StopInv'
      <3> DEFINE s == Copy(p)
      <3>1. Busy(p) /\ s \in LoopState
        BY <2>2, WhoIsBusy
      <3>2. /\ InPlace(proc[p]) /\ WorkIn(proc[p], plan, write, audited, verified)
            /\ \A id \in Ids : stage[id] # "applied"
        BY <3>1 DEF PlaceInv, Alone, LoopInv, WorkSound, Busy
      <3>3. Counted(s) \in LoopState /\ WithArtifact(s) \in LoopState
        BY <3>1, MovesTyped
      <3>4. CASE StopAtBudget(p)
        <4>1. disk'.status # "stop" /\ stage' = stage /\ audited' = audited
          BY <3>1, <3>4 DEF StopAtBudget, LoopState
        <4> QED BY <2>1, <4>1
      <3>5. CASE RunRead(p)
        <4>1. s.status = "running"
          BY <3>1, <3>2, <3>5 DEF RunRead, WorkIn, At, Copy, Busy
        <4>2. Advanced(Counted(s)).status = s.status
          BY <3>1, <3>3, MovesStay
        <4>3. disk'.status # "stop" /\ stage' = stage /\ audited' = audited
          BY <3>5, <4>1, <4>2 DEF RunRead
        <4> QED BY <2>1, <4>3
      <3>6. CASE FailStep(p)
        <4>1. disk'.status # "stop" /\ stage' = stage /\ audited' = audited
          BY <3>3, <3>6 DEF FailStep, LoopState
        <4> QED BY <2>1, <4>1
      <3>14. CASE Crash(p)
        <4>1. disk'.status # "stop" /\ stage' = stage /\ audited' = audited
          BY <3>1, <3>14 DEF Crash, LoopState
        <4> QED BY <2>1, <4>1
      <3>7. CASE StageWrite(p)
        <4>1. PICK id \in Ids : stage' = [stage EXCEPT ![id] = "pending"] /\ write[id] = NoWrite
          BY <3>7 DEF StageWrite
        <4>2. stage[id] = "none"
          BY <4>1 DEF TypeOK
        <4>3. \A i \in Ids : stage'[i] = stage[i] \/ (i = id /\ stage'[i] = "pending")
          BY <4>1 DEF TypeOK
        <4>4. disk' = disk /\ audited' = audited
          BY <3>7 DEF StageWrite
        <4> QED BY <2>1, <4>2, <4>3, <4>4
      <3>8. CASE Pause(p)
        <4>1. disk'.status # "stop" /\ stage' = stage /\ audited' = audited
          BY <3>1, <3>8 DEF Pause, LoopState
        <4> QED BY <2>1, <4>1
      <3>9. CASE Complete(p)
        <4>1. disk'.status # "stop" /\ stage' = stage /\ audited' = audited
          BY <3>1, <3>9 DEF Complete, LoopState
        <4> QED BY <2>1, <4>1
      <3>10. CASE ClearState(p) \/ Begin(p)
        <4>1. disk' \in {NoLoop, disk} /\ stage' = stage /\ audited' = audited
          BY <3>10 DEF ClearState, Begin
        <4> QED BY <2>1, <4>1
      <3>11. CASE Resume(p)
        <4>1. s.status = "awaiting_approval"
          BY <3>1, <3>2, <3>11 DEF Resume, WorkIn, At, Copy, Busy
        <4>2. /\ s.pending_action_id \in Ids
              /\ write[s.pending_action_id] = [loop |-> s.loop, step |-> s.current_step + 1]
          BY <3>1, <3>2, <4>1 DEF WorkIn, SoundIn, Waiting, Copy, Busy
        <4>3. write[s.pending_action_id] # NoWrite
          BY <3>1, <4>2 DEF NoWrite, LoopState
        <4>4. stage[s.pending_action_id] \in {"pending", "executed", "discarded"}
          BY <3>2, <4>2, <4>3 DEF TypeOK
        <4>5. stage' = stage /\ audited' = audited
          BY <3>11 DEF Resume
        <4>6. CASE disk' = disk
          BY <2>1, <4>5, <4>6
        <4>7. CASE disk' = [WithArtifact(s) EXCEPT !.status = "awaiting_verification"]
          <5>1. disk'.status # "stop"
            BY <3>3, <4>7 DEF LoopState
          <5> QED BY <2>1, <4>5, <5>1
        <4>8. CASE /\ disk' = [s EXCEPT !.status = "stop"]
                   /\ stage[s.pending_action_id] # "pending"
                   /\ s.pending_action_id \notin audited
          <5>1. stage[s.pending_action_id] = "discarded"
            BY <4>2, <4>4, <4>8 DEF StopInv
          <5>2. disk'.pending_action_id = s.pending_action_id
            BY <3>1, <4>8 DEF LoopState
          <5> QED BY <4>5, <5>1, <5>2 DEF StopInv, StopMeansRejected
        <4> QED BY <3>11, <4>6, <4>7, <4>8 DEF Resume
      <3>12. CASE Decide(p)
        <4> DEFINE v == proc[p].verdict
                   t == AfterDecision(Remembered(s, v), next_action(s, v))
        <4>1. v \in Verdicts
          BY <3>1, <3>12, AtWork DEF Decide, Busy
        <4>2. Remembered(s, v) \in LoopState /\ next_action(s, v) \in Decisions
          BY <3>1, <4>1, ControllerTyped
        <4>3. t.pending_action_id = NoId
          BY <4>2, DecisionUnparks
        <4>4. disk' = t /\ stage' = stage /\ audited' = audited
          BY <3>12 DEF Decide
        <4> HIDE DEF t
        <4> QED BY <2>1, <4>3, <4>4
      <3>13. CASE SaveCheckpoint(p)
        <4>1. disk' = disk /\ stage' = stage /\ audited' = audited
          BY <3>2, <3>13 DEF SaveCheckpoint, InPlace, At, Copy
        <4> QED BY <2>1, <4>1
      <3> QED BY <2>2, <3>4, <3>5, <3>6, <3>7, <3>8, <3>9, <3>10, <3>11, <3>12, <3>13, <3>14
          DEF Drive
    <2>3. ASSUME NEW p \in Procs, Command(p) \/ Kill(p) PROVE StopInv'
      <3>1. disk' \in {NoLoop, disk} /\ stage' = stage /\ audited' = audited
        BY <2>3 DEF Command, Kill, Start, Continue, Verify, Checkpoint, Abandon
      <3> QED BY <2>1, <3>1
    <2>4. ASSUME NEW id \in Ids, Approve(id) \/ LogApprove(id) \/ Discard(id) PROVE StopInv'
      <3>1. disk' = disk /\ audited \subseteq audited'
        BY <2>4 DEF Approve, LogApprove, Discard
      <3>2. \A i \in Ids : /\ stage[i] = "discarded" => stage'[i] = "discarded"
                           /\ stage'[i] = "executed" => stage[i] = "executed" \/ i \in audited'
        BY <2>4 DEF Approve, LogApprove, Discard, TypeOK
      <3> QED BY <2>1, <3>1, <3>2
    <2>5. CASE Age \/ UNCHANGED vars
      <3>1. disk' = disk /\ stage' = stage /\ audited' = audited
        BY <2>5 DEF Age, vars
      <3> QED BY <2>1, <3>1
    <2> QED BY <2>2, <2>3, <2>4, <2>5 DEF Next
  <1>3. StopInv => StopMeansRejected
    BY DEF StopInv
  <1> QED BY <1>1, <1>2, <1>3, TypeCorrect, PTL DEF Spec

-----------------------------------------------------------------------------
(* One command at a time, run to its end: every write is accounted for *)

\* The writes that a loop staged.
OfLoop(l, writes) == {id \in Ids : writes[id] # NoWrite /\ writes[id].loop = l}

\* What a loop state says of the writes of its loop: they are counted, none is
\* ahead of the loop, one at most waits at the gate and is named, and all are judged
\* but the one that the loop waits for; those of the step that it is to drive next
\* may be repeated, and a create on trial left its trace.
Names(s, id) == s.status \in {"awaiting_approval", "failed"} /\ s.pending_action_id = id

AccountedIn(s, writes, stages, passed, complaints, known) ==
    /\ Cardinality(OfLoop(s.loop, writes)) <= s.step_count
    /\ \A id \in OfLoop(s.loop, writes) :
          /\ writes[id].step <= s.current_step + 1
          /\ stages[id] = "pending" => Names(s, id)
          /\ \/ s.status \in Terminal
             \/ s.status \in Waiting /\ s.pending_action_id = id
             \/ /\ id \in passed \cup complaints
                /\ writes[id].step = s.current_step + 1 => id \in complaints \ known
    /\ s.status \in Waiting => s.pending_action_id \notin passed \cup complaints
    /\ s.status = "awaiting_verification" /\ s.pending_action_id \in known
          => s.current_step \in s.created

Accounted(s) == AccountedIn(s, write, stage, verified, failed, recorded)

\* Of a process that has just staged a write, the state that it is about to save.
InHand(w) == IF w.at = "staged" THEN [w.s EXCEPT !.status = "awaiting_approval"] ELSE w.s

\* Of two writes of one step one was complained about and is not known to have
\* created a record.
Repeated(id, other) == {id, other} \cap (failed \ recorded) # {}

\* Where the faults allow it, the gate knows what every create created.
Recording == "id_unrecorded" \notin Faults

Budget == IF MaxSteps > 0 THEN MaxSteps ELSE 0

\* The gate knows the loops that were started only, what they created, and each
\* step once as long as nobody complained; no loop staged beyond its budget.
GateInv ==
    /\ disk # NoLoop => disk.loop \in started
    /\ \A p \in Procs : Busy(p) => Copy(p).loop \in started
    /\ \A id \in Ids : write[id] # NoWrite => write[id].loop \in started
    /\ \A id \in Ids : Recording /\ Executed(id) /\ plan[write[id].loop][write[id].step] = "create"
                       => id \in recorded
    /\ \A id, other \in Ids :
          id # other /\ write[id] # NoWrite /\ write[id] = write[other] => Repeated(id, other)
    /\ \A l \in Loops : /\ IsFiniteSet(OfLoop(l, write))
                        /\ Cardinality(OfLoop(l, write)) <= Budget

WritesInv ==
    /\ GateInv
    /\ \A p \in Procs : Busy(p) => Accounted(InHand(proc[p]))
    /\ disk # NoLoop /\ (\A p \in Procs : ~At(p, "staged")) => Accounted(disk)

AccountedAfter(s) == AccountedIn(s, write', stage', verified', failed', recorded')

\* A write that waits no more takes nothing away, whatever it is known to have created.
LEMMA AccountStays ==
    ASSUME NEW s, NEW writes, NEW stages, NEW passed, NEW complaints, NEW known,
           NEW stages2, NEW known2,
           AccountedIn(s, writes, stages, passed, complaints, known),
           s.status \in Waiting => s.pending_action_id \in OfLoop(s.loop, writes),
           \A id \in Ids : stages2[id] = "pending" => stages[id] = "pending",
           \A id \in known2 \ known : stages[id] = "pending"
    PROVE  AccountedIn(s, writes, stages2, passed, complaints, known2)
  <1> DEFINE mine == OfLoop(s.loop, writes)
  <1>1. mine \subseteq Ids
    BY DEF OfLoop
  <1> HIDE DEF mine
  <1>2. ASSUME NEW id \in mine
        PROVE  /\ writes[id].step <= s.current_step + 1
               /\ stages2[id] = "pending" => Names(s, id)
               /\ \/ s.status \in Terminal
                  \/ s.status \in Waiting /\ s.pending_action_id = id
                  \/ /\ id \in passed \cup complaints
                     /\ writes[id].step = s.current_step + 1 => id \in complaints \ known2
    <2>1. /\ writes[id].step <= s.current_step + 1
          /\ stages[id] = "pending" => Names(s, id)
          /\ \/ s.status \in Terminal
             \/ s.status \in Waiting /\ s.pending_action_id = id
             \/ /\ id \in passed \cup complaints
                /\ writes[id].step = s.current_step + 1 => id \in complaints \ known
      BY <1>2 DEF AccountedIn, mine
    <2>2. id \in known2 \ known =>
             s.status \in Terminal \/ (s.status \in Waiting /\ s.pending_action_id = id)
      BY <1>1, <1>2, <2>1 DEF Names, Waiting, Terminal
    <2> QED BY <1>1, <1>2, <2>1, <2>2
  <1>3. s.status = "awaiting_verification" => s.pending_action_id \notin known2 \ known
    BY DEF AccountedIn, OfLoop, Names, Waiting
  <1> QED BY <1>2, <1>3 DEF AccountedIn, mine

\* A loop that waits at the gate no more accounts for its writes wherever it goes:
\* to its end, to the next step once its write is judged, or to the same step after a
\* complaint.
LEMMA AccountGoesOn ==
    ASSUME NEW s \in LoopState, NEW t \in LoopState, NEW writes, NEW stages, NEW known,
           NEW passed, NEW complaints, NEW passed2, NEW complaints2,
           passed \subseteq passed2, complaints \subseteq complaints2,
           \A id \in Ids : writes[id] # NoWrite => writes[id].step \in Nat,
           IsFiniteSet(OfLoop(s.loop, writes)),
           AccountedIn(s, writes, stages, passed, complaints, known),
           ~Names(s, s.pending_action_id) \/ stages[s.pending_action_id] # "pending",
           t.loop = s.loop, t.step_count >= s.step_count, t.status \notin Waiting,
           \/ t.status \in Terminal /\ t.current_step = s.current_step
           \/ /\ t.current_step = s.current_step + 1
              /\ \/ s.status = "running"
                 \/ s.status \in Waiting /\ s.pending_action_id \in passed2 \cup complaints2
           \/ /\ t.current_step = s.current_step
              /\ \/ s.status = "running"
                 \/ s.status \in Waiting /\ s.pending_action_id \in complaints2 \ known
    PROVE  AccountedIn(t, writes, stages, passed2, complaints2, known)
  <1> DEFINE mine == OfLoop(s.loop, writes)
  <1>1. /\ s.step_count \in Nat /\ t.step_count \in Nat
        /\ s.current_step \in Nat /\ t.current_step \in Nat
    BY DEF LoopState
  <1>2. mine = OfLoop(t.loop, writes) /\ \A id \in mine : writes[id].step \in Nat
    BY DEF OfLoop
  <1>3. Cardinality(mine) <= t.step_count
    <2>1. Cardinality(mine) <= s.step_count /\ Cardinality(mine) \in Nat
      BY FS_CardinalityType DEF AccountedIn
    <2> HIDE DEF mine
    <2> QED BY <1>1, <2>1
  <1>4. ASSUME NEW id \in mine
        PROVE  /\ writes[id].step <= t.current_step + 1
               /\ stages[id] # "pending"
               /\ \/ t.status \in Terminal
                  \/ /\ id \in passed2 \cup complaints2
                     /\ writes[id].step = t.current_step + 1 => id \in complaints2 \ known
    <2>1. /\ writes[id].step <= s.current_step + 1
          /\ stages[id] = "pending" => Names(s, id)
          /\ \/ s.status \in Terminal
             \/ s.status \in Waiting /\ s.pending_action_id = id
             \/ /\ id \in passed \cup complaints
                /\ writes[id].step = s.current_step + 1 => id \in complaints \ known
      BY <1>4 DEF AccountedIn
    <2>2. writes[id].step <= t.current_step + 1 /\ stages[id] # "pending"
      BY <1>1, <1>2, <1>4, <2>1 DEF Names
    <2>3. t.current_step = s.current_step + 1 => writes[id].step # t.current_step + 1
      BY <1>1, <1>2, <1>4, <2>1
    <2>4. t.status \notin Terminal =>
             /\ id \in passed2 \cup complaints2
             /\ t.current_step = s.current_step /\ writes[id].step = s.current_step + 1
                   => id \in complaints2 \ known
      BY <1>1, <2>1 DEF Terminal, Waiting
    <2> QED BY <2>2, <2>3, <2>4
  <1> QED BY <1>2, <1>3, <1>4 DEF AccountedIn, Waiting

\* A loop that fails where it stands accounts for its writes and keeps the name of the
\* one that waits at the gate.
LEMMA AccountFails ==
    ASSUME NEW s, NEW t, NEW writes, NEW stages, NEW passed, NEW complaints, NEW known,
           AccountedIn(s, writes, stages, passed, complaints, known),
           t.loop = s.loop, t.current_step = s.current_step, t.step_count = s.step_count,
           t.pending_action_id = s.pending_action_id, t.status = "failed"
    PROVE  AccountedIn(t, writes, stages, passed, complaints, known)
  BY DEF AccountedIn, Names, Terminal, Waiting

\* What moves of the loop state leave alone.
LEMMA CountsStay ==
    ASSUME NEW s \in LoopState
    PROVE  /\ Counted(s).step_count = s.step_count + 1
           /\ Advanced(s).step_count = s.step_count
           /\ WithArtifact(s).step_count = s.step_count
           /\ WithoutArtifact(s).step_count = s.step_count
           /\ record_iteration(s).step_count = s.step_count
           /\ WithArtifact(s).created = (s.created \ {s.current_step}) \cup
                 {n \in {s.current_step} : s.pending_action_id \in recorded}
  BY DEF Counted, Advanced, WithArtifact, WithoutArtifact, record_iteration, LoopState

LEMMA RememberedCounts ==
    ASSUME NEW s \in LoopState, NEW v \in Verdicts
    PROVE  Remembered(s, v).step_count = s.step_count
  BY DEF Remembered, LoopState

\* A loop runs again at the step it stands on only after a retry, and not where a
\* record was created.
LEMMA DecisionCounts ==
    ASSUME NEW s \in LoopState, NEW d \in Decisions
    PROVE  /\ AfterDecision(s, d).step_count = s.step_count
           /\ d # "proceed" /\ AfterDecision(s, d).status \notin Terminal
                 => d = "retry" /\ s.current_step \notin s.created
  <1>1. ASSUME NEW t \in LoopState, NEW status
        PROVE  /\ Unpark(t, status).step_count = t.step_count
               /\ Unpark(t, status).status = status
    BY DEF Unpark, LoopState
  <1>2. CASE d = "proceed"
    BY <1>1, <1>2, MovesTyped, CountsStay DEF AfterDecision
  <1>3. CASE d = "retry"
    <2>1. record_iteration(s) \in LoopState /\ record_iteration(s).step_count = s.step_count
      BY MovesTyped, CountsStay
    <2>2. /\ WithoutArtifact(record_iteration(s)) \in LoopState
          /\ WithoutArtifact(record_iteration(s)).step_count = s.step_count
      BY <2>1, MovesTyped, CountsStay
    <2> QED BY <1>1, <1>3, <2>2 DEF AfterDecision, OnRetry, Terminal
  <1>4. CASE d \in {"escalate", "stop"}
    BY <1>1, <1>4 DEF AfterDecision, Terminal
  <1> QED BY <1>2, <1>3, <1>4 DEF Decisions

\* A step that stages nothing leaves the gate in order if it only works on loops
\* that were started and records what it approves.
LEMMA GateStays ==
    ASSUME TypeOK, GateInv, UNCHANGED <<plan, write>>,
           started \subseteq started', failed \ recorded \subseteq failed' \ recorded',
           disk' # NoLoop => disk'.loop \in started',
           \A p \in Procs : Busy(p)' => proc'[p].s.loop \in started',
           \A id \in Ids : stage'[id] \in {"applied", "executed"} =>
              \/ Executed(id) /\ (id \in recorded => id \in recorded')
              \/ Recording /\ plan[write[id].loop][write[id].step] = "create" => id \in recorded'
    PROVE  GateInv'
  <1>1. \A p \in Procs : Busy(p)' => Copy(p)'.loop \in started'
    BY DEF Copy
  <1>2. \A id \in Ids : (Recording /\ Executed(id) /\ plan[write[id].loop][write[id].step] = "create"
                          => id \in recorded)'
    BY DEF GateInv, Executed
  <1>3. \A id, other \in Ids :
           (id # other /\ write[id] # NoWrite /\ write[id] = write[other] => Repeated(id, other))'
    BY DEF GateInv, Repeated
  <1>4. \A l \in Loops : /\ IsFiniteSet(OfLoop(l, write'))
                         /\ Cardinality(OfLoop(l, write')) <= Budget
    BY DEF GateInv
  <1>5. \A id \in Ids : write'[id] # NoWrite => write'[id].loop \in started'
    BY DEF GateInv
  <1> QED BY <1>1, <1>2, <1>3, <1>4, <1>5 DEF GateInv

\* What the step of a process leaves behind.
LEMMA WritesStay ==
    ASSUME GateInv', NEW p \in Procs, plan' = plan,
           \A q \in Procs \ {p} : ~Busy(q)',
           Busy(p)' => AccountedAfter(InHand(proc'[p])),
           disk' # NoLoop => proc'[p].at = "staged" \/ AccountedAfter(disk')
    PROVE  WritesInv'
  BY DEF WritesInv, Accounted, AccountedAfter, AccountedIn, StepOf, At

\* What is there once a write is staged.
LEMMA StageAccounts ==
    ASSUME TypeOK, GateInv, NEW s \in LoopState, s.status = "running", s.loop \in started,
           Accounted(s), InBudget(s),
           NEW id \in Ids, write[id] = NoWrite, id \notin verified \cup failed,
           write' = [write EXCEPT ![id] = [loop |-> s.loop, step |-> s.current_step + 1]],
           stage' = [stage EXCEPT ![id] = "pending"],
           UNCHANGED <<plan, started, recorded, verified, failed, disk>>,
           NEW t \in LoopState, t.loop = s.loop, t.current_step = s.current_step,
           t.status = "awaiting_approval", t.step_count = s.step_count + 1,
           t.pending_action_id = id,
           \A p \in Procs : Busy(p)' => proc'[p].s.loop \in started
    PROVE  GateInv' /\ AccountedAfter(t)
  <1> DEFINE new  == [loop |-> s.loop, step |-> s.current_step + 1]
             mine == OfLoop(s.loop, write)
  <1>1. /\ s.loop \in Loops /\ s.current_step \in Nat /\ s.step_count \in Nat
        /\ s.status \notin Terminal /\ s.status \notin Waiting
    BY DEF LoopState, Terminal, Waiting
  <1>2. /\ new # NoWrite /\ write'[id] = new
        /\ \A i \in Ids \ {id} : write'[i] = write[i] /\ stage'[i] = stage[i]
        /\ stage'[id] = "pending" /\ id \notin mine
    BY <1>1 DEF NoWrite, TypeOK, OfLoop
  <1>3. /\ OfLoop(s.loop, write') = mine \cup {id}
        /\ \A l \in Loops : l # s.loop => OfLoop(l, write') = OfLoop(l, write)
    BY <1>2 DEF OfLoop
  <1>4. /\ IsFiniteSet(mine \cup {id}) /\ Cardinality(mine \cup {id}) = Cardinality(mine) + 1
        /\ Cardinality(mine) \in Nat
    BY <1>1, <1>2, FS_AddElement, FS_CardinalityType DEF GateInv
  <1>5. Cardinality(mine) + 1 <= s.step_count + 1 /\ Cardinality(mine) + 1 <= Budget
    <2>1. Cardinality(mine) <= s.step_count
      BY DEF Accounted, AccountedIn
    <2>2. s.step_count < MaxSteps /\ MaxSteps \in Int
      BY LimitsAssumption DEF InBudget
    <2> HIDE DEF mine
    <2> QED BY <1>1, <1>4, <2>1, <2>2 DEF Budget
  <1>6. \A l \in Loops : IsFiniteSet(OfLoop(l, write')) /\ Cardinality(OfLoop(l, write')) <= Budget
    BY <1>3, <1>4, <1>5 DEF GateInv
  \* Who has staged this step before was complained about.
  <1>7. ASSUME NEW i \in Ids \ {id}, write[i] = new
        PROVE  i \in failed \ recorded
    <2>1. i \in mine /\ write[i].step = s.current_step + 1
      BY <1>2, <1>7 DEF OfLoop
    <2> QED BY <1>1, <2>1 DEF Accounted, AccountedIn
  <1>8. ASSUME NEW i \in Ids, NEW other \in Ids, i # other, write'[i] # NoWrite,
               write'[i] = write'[other]
        PROVE  Repeated(i, other)'
    <2>1. CASE i # id /\ other # id
      BY <1>2, <1>8, <2>1 DEF GateInv, Repeated
    <2>2. CASE i = id \/ other = id
      <3>1. i \in failed \ recorded \/ other \in failed \ recorded
        BY <1>2, <1>7, <1>8, <2>2
      <3> QED BY <3>1 DEF Repeated
    <2> QED BY <2>1, <2>2
  <1>9. \A i \in Ids : (Recording /\ Executed(i) /\ plan[write[i].loop][write[i].step] = "create"
                         => i \in recorded)'
    BY <1>2 DEF GateInv, Executed
  <1>10. GateInv'
    <2>1. \A i \in Ids : write'[i] # NoWrite => write'[i].loop \in started
      BY <1>2 DEF GateInv
    <2>2. disk' # NoLoop => disk'.loop \in started
      BY DEF GateInv
    <2> HIDE DEF new, mine
    <2> QED BY <1>6, <1>8, <1>9, <2>1, <2>2 DEF GateInv, Copy
  <1>11. AccountedAfter(t)
    <2>1. Cardinality(OfLoop(t.loop, write')) <= t.step_count
      BY <1>3, <1>4, <1>5
    <2>2. ASSUME NEW i \in OfLoop(t.loop, write'), i # id
          PROVE  /\ write'[i].step <= t.current_step + 1 /\ stage'[i] # "pending"
                 /\ i \in verified \cup failed
                 /\ write'[i].step = t.current_step + 1 => i \in failed \ recorded
      <3>1. i \in mine /\ i \in Ids
        BY <1>3, <2>2 DEF OfLoop
      <3>2. /\ write[i].step <= s.current_step + 1
            /\ stage[i] # "pending"
            /\ i \in verified \cup failed
            /\ write[i].step = s.current_step + 1 => i \in failed \ recorded
        BY <1>1, <3>1 DEF Accounted, AccountedIn, Names, Terminal
      <3> QED BY <1>2, <2>2, <3>1, <3>2
    <2>3. write'[id].step <= t.current_step + 1
      BY <1>1, <1>2
    <2> QED BY <2>1, <2>2, <2>3 DEF AccountedAfter, AccountedIn, Names, Waiting
  <1> QED BY <1>10, <1>11

LEMMA DriveKeepsWrites ==
    ASSUME TypeOK, LoopInv, ~Overlap, PlaceInv, WritesInv, NEW p \in Procs, Drive(p)
    PROVE  WritesInv'
  <1> DEFINE s == Copy(p)
  <1> USE DEF save, clear, gate, history
  <1>1. Busy(p) /\ s \in LoopState /\ s.loop \in started
    BY WhoIsBusy DEF WritesInv, GateInv
  <1>2. /\ InPlace(proc[p]) /\ WorkIn(proc[p], plan, write, audited, verified)
        /\ \A q \in Procs \ {p} : ~Busy(q)
    BY <1>1 DEF PlaceInv, Alone, LoopInv, WorkSound, Busy
  <1>3. /\ ~At(p, "staged") => Accounted(s)
        /\ ~At(p, "staged") /\ disk # NoLoop => Accounted(disk)
    <2>1. \A q \in Procs \ {p} : ~At(q, "staged")
      BY <1>2 DEF Busy, At, Idle, Dead
    <2> QED BY <1>1, <2>1 DEF WritesInv, InHand, At, Copy
  <1>4. /\ plan' = plan /\ \A id \in Ids : write[id] # NoWrite => write[id].step \in Nat
        /\ IsFiniteSet(OfLoop(s.loop, write))
    <2>1. s.loop \in Loops
      BY <1>1 DEF LoopState
    <2> QED BY <2>1, StepGrows DEF Grows, Next, TypeOK, WritesInv, GateInv
  <1>5. At(p, "drive") => s.status = "running"
    BY <1>1, <1>2 DEF WorkIn, At, Copy, Busy
  \* It suffices that what is saved and gone on with accounts for the writes.
  <1>6. ASSUME NEW t \in LoopState, AccountedAfter(t), t.loop = s.loop,
               disk' = t \/ (disk' \in {NoLoop, disk} /\ ~At(p, "staged")),
               disk' = t \/ UNCHANGED <<verified, failed>>,
               \/ Return(p) \/ Goto(p, "drive", t)
               \/ Goto(p, "saved", t) \/ Goto(p, "clear", t),
               write' = write, stage' = stage, recorded' = recorded, started' = started,
               failed \subseteq failed'
        PROVE  WritesInv'
    <2>1. /\ \A q \in Procs \ {p} : proc'[q] = proc[q]
          /\ proc'[p].at # "staged"
          /\ Busy(p)' => proc'[p].s = t
      BY <1>6 DEF Return, Goto, TypeOK, Busy, Idle
    <2>2. \A q \in Procs : Busy(q)' => proc'[q].s.loop \in started'
      BY <1>1, <1>2, <1>6, <2>1 DEF Busy
    <2>3. disk' # NoLoop => disk'.loop \in started'
      BY <1>1, <1>6 DEF WritesInv, GateInv
    <2>4. GateInv'
      BY <1>4, <1>6, <2>2, <2>3, GateStays DEF WritesInv, Executed
    <2>5. disk' # NoLoop => AccountedAfter(disk')
      BY <1>3, <1>6 DEF Accounted, AccountedAfter
    <2>6. Busy(p)' => AccountedAfter(InHand(proc'[p]))
      BY <1>6, <2>1 DEF InHand
    <2>7. \A q \in Procs \ {p} : ~Busy(q)'
      BY <1>2, <2>1 DEF Busy
    <2> QED BY <1>4, <2>4, <2>5, <2>6, <2>7, WritesStay
  <1>7. ASSUME At(p, "drive"), NEW t \in LoopState, t.loop = s.loop,
               t.step_count >= s.step_count,
               \/ t.status \in Terminal /\ t.current_step = s.current_step
               \/ t.status = "running" /\ t.current_step = s.current_step + 1
        PROVE  Accounted(t)
    <2>1. Accounted(s) /\ s.status = "running"
      BY <1>3, <1>5, <1>7 DEF At
    <2>2. t.status \notin Waiting
      BY <1>7 DEF Terminal, Waiting
    <2> HIDE DEF s
    <2>3. ~Names(s, s.pending_action_id)
      BY <2>1 DEF Names
    <2> QED BY <1>1, <1>4, <1>7, <2>1, <2>2, <2>3, AccountGoesOn DEF Accounted
  <1>8. /\ Counted(s) \in LoopState /\ Counted(s).loop = s.loop
        /\ Counted(s).current_step = s.current_step /\ Counted(s).status = s.status
        /\ Counted(s).step_count = s.step_count + 1 /\ s.step_count \in Nat
    BY <1>1, MovesTyped, MovesStay, CountsStay DEF LoopState
  <1>9. CASE StopAtBudget(p)
    <2> DEFINE t == [s EXCEPT !.status = "stopped", !.last_error = TRUE]
    <2>1. /\ t \in LoopState /\ t.loop = s.loop /\ t.current_step = s.current_step
          /\ t.status \in Terminal /\ t.step_count = s.step_count
      BY <1>1 DEF LoopState, Terminal
    <2>2. /\ At(p, "drive") /\ disk' = t /\ Return(p)
          /\ UNCHANGED <<started, write, stage, recorded, verified, failed>>
      BY <1>9 DEF StopAtBudget
    <2> HIDE DEF t, s
    <2>3. AccountedAfter(t)
      BY <1>7, <1>8, <2>1, <2>2 DEF Accounted, AccountedAfter
    <2> QED BY <1>6, <2>1, <2>2, <2>3
  <1>10. CASE RunRead(p)
    <2> DEFINE t == Advanced(Counted(s))
    <2>1. At(p, "drive") /\ disk' = t /\ Goto(p, "drive", t)
          /\ UNCHANGED <<started, write, stage, recorded, verified, failed>>
      BY <1>10 DEF RunRead
    <2> HIDE DEF s
    <2>2. t \in LoopState
      BY <1>8, MovesTyped
    <2>3. /\ t.loop = s.loop /\ t.current_step = s.current_step + 1 /\ t.status = s.status
          /\ t.step_count = s.step_count + 1
      BY <1>8, MovesStay, CountsStay
    <2> HIDE DEF t
    <2>4. AccountedAfter(t)
      BY <1>5, <1>7, <1>8, <2>1, <2>2, <2>3 DEF Accounted, AccountedAfter
    <2> QED BY <1>6, <2>1, <2>2, <2>3, <2>4
  <1>11. CASE FailStep(p)
    <2> DEFINE t == [Counted(s) EXCEPT !.status = "failed", !.last_error = TRUE]
    <2>1. /\ t \in LoopState /\ t.loop = s.loop /\ t.current_step = s.current_step
          /\ t.status \in Terminal /\ t.step_count = s.step_count + 1
      BY <1>8 DEF LoopState, Terminal
    <2>2. /\ At(p, "drive") /\ disk' = t /\ Return(p)
          /\ UNCHANGED <<started, write, stage, recorded, verified, failed>>
      BY <1>11 DEF FailStep
    <2> HIDE DEF t, s
    <2>3. AccountedAfter(t)
      BY <1>7, <1>8, <2>1, <2>2 DEF Accounted, AccountedAfter
    <2> QED BY <1>6, <2>1, <2>2, <2>3
  <1>19. CASE Crash(p)
    <2> DEFINE u == InHand(proc[p])
               t == [s EXCEPT !.status = "failed", !.last_error = TRUE]
    <2>1. /\ t \in LoopState /\ t.loop = u.loop /\ t.loop = s.loop
          /\ t.current_step = u.current_step /\ t.step_count = u.step_count
          /\ t.pending_action_id = u.pending_action_id /\ t.status = "failed"
      BY <1>1 DEF LoopState, Terminal, InHand, Copy
    <2>2. /\ disk' = t /\ Return(p)
          /\ UNCHANGED <<started, write, stage, recorded, verified, failed>>
      BY <1>19 DEF Crash
    <2>3. Accounted(u)
      BY <1>1 DEF WritesInv
    <2> HIDE DEF u, t, s
    <2>4. AccountedAfter(t)
      BY <2>1, <2>2, <2>3, AccountFails DEF Accounted, AccountedAfter
    <2> QED BY <1>6, <2>1, <2>2, <2>4
  <1>12. CASE StageWrite(p)
    <2>1. PICK id \in Ids :
            /\ write[id] = NoWrite
            /\ write' = [write EXCEPT ![id] = [loop |-> s.loop, step |-> s.current_step + 1]]
            /\ stage' = [stage EXCEPT ![id] = "pending"]
            /\ Goto(p, "staged", [Counted(s) EXCEPT !.pending_action_id = id])
      BY <1>12 DEF StageWrite
    <2> DEFINE u == [Counted(s) EXCEPT !.pending_action_id = id]
               t == [u EXCEPT !.status = "awaiting_approval"]
    <2>2. /\ t \in LoopState /\ t.loop = s.loop /\ t.current_step = s.current_step
          /\ t.status = "awaiting_approval" /\ t.step_count = s.step_count + 1
          /\ t.pending_action_id = id /\ u.loop = s.loop
      BY <1>8 DEF LoopState, Waiting
    <2>3. proc' = [proc EXCEPT ![p] = [at |-> "staged", s |-> u]]
      BY <2>1 DEF Goto
    <2>4. /\ s.status = "running" /\ InBudget(s) /\ Accounted(s)
          /\ UNCHANGED <<plan, started, recorded, verified, failed, disk>>
          /\ id \notin verified \cup failed
      BY <1>3, <1>5, <1>12, <2>1 DEF StageWrite, At, LoopInv, TypeOK
    <2>5. proc'[p] = [at |-> "staged", s |-> u] /\ InHand(proc'[p]) = t
      BY <2>3 DEF InHand, TypeOK
    <2>6. \A q \in Procs \ {p} : proc'[q] = proc[q]
      BY <2>3 DEF TypeOK
    <2> HIDE DEF u, t, s
    <2>7. \A q \in Procs : Busy(q)' => proc'[q].s.loop \in started
      BY <1>1, <1>2, <2>2, <2>5, <2>6 DEF Busy
    <2>8. GateInv' /\ AccountedAfter(t)
      BY <1>1, <2>1, <2>2, <2>4, <2>7, StageAccounts DEF WritesInv
    <2>9. \A q \in Procs \ {p} : ~Busy(q)'
      BY <1>2, <2>6 DEF Busy
    <2> QED BY <1>4, <2>5, <2>8, <2>9, WritesStay
  <1>13. CASE Pause(p)
    <2> DEFINE t == [s EXCEPT !.status = "awaiting_approval"]
    <2>1. t \in LoopState /\ t.loop = s.loop
      BY <1>1 DEF LoopState, Waiting
    <2>2. /\ At(p, "staged") /\ disk' = t /\ (Return(p) \/ Goto(p, "saved", t))
          /\ UNCHANGED <<started, write, stage, recorded, verified, failed>>
      BY <1>13 DEF Pause, LogFails
    <2>3. InHand(proc[p]) = t
      BY <2>2 DEF InHand, At, Copy
    <2> HIDE DEF t, s
    <2>4. AccountedAfter(t)
      BY <1>1, <2>2, <2>3 DEF WritesInv, Accounted, AccountedAfter
    <2> QED BY <1>6, <2>1, <2>2, <2>4
  <1>14. CASE Complete(p)
    <2> DEFINE t == [s EXCEPT !.status = "completed"]
    <2>1. /\ t \in LoopState /\ t.loop = s.loop /\ t.current_step = s.current_step
          /\ t.status \in Terminal /\ t.step_count = s.step_count
      BY <1>1 DEF LoopState, Terminal
    <2>2. /\ At(p, "drive") /\ disk' = t /\ (Goto(p, "clear", t) \/ Goto(p, "saved", t))
          /\ UNCHANGED <<started, write, stage, recorded, verified, failed>>
      BY <1>14 DEF Complete, LogFails
    <2> HIDE DEF t, s
    <2>3. AccountedAfter(t)
      BY <1>7, <1>8, <2>1, <2>2 DEF Accounted, AccountedAfter
    <2> QED BY <1>6, <2>1, <2>2, <2>3
  <1>15. CASE ClearState(p) \/ SaveCheckpoint(p)
    <2>1. /\ ~At(p, "staged") /\ disk' \in {NoLoop, s} /\ Return(p)
          /\ UNCHANGED <<started, write, stage, recorded, verified, failed>>
      BY <1>15 DEF ClearState, SaveCheckpoint, At
    <2>2. AccountedAfter(s)
      BY <1>3, <2>1 DEF Accounted, AccountedAfter
    <2> QED BY <1>1, <1>6, <2>1, <2>2
  <1>16. CASE Resume(p)
    <2> DEFINE halted == [s EXCEPT !.status = "stop"]
               found  == [WithArtifact(s) EXCEPT !.status = "awaiting_verification"]
               id     == s.pending_action_id
    <2>1. /\ ~At(p, "staged") /\ Return(p)
          /\ UNCHANGED <<started, write, stage, recorded, verified, failed>>
      BY <1>16 DEF Resume, At
    <2>2. s.status = "awaiting_approval" /\ Accounted(s)
      BY <1>1, <1>2, <1>3, <1>16, <2>1 DEF WorkIn, Resume, At, Copy, Busy
    <2>3. CASE disk' = disk
      BY <1>1, <1>6, <2>1, <2>2, <2>3 DEF Accounted, AccountedAfter
    <2>4. CASE disk' = halted /\ stage[id] # "pending"
      <3>1. /\ halted \in LoopState /\ halted.loop = s.loop
            /\ halted.current_step = s.current_step /\ halted.status \in Terminal
            /\ halted.step_count >= s.step_count /\ halted.status \notin Waiting
        BY <1>1, <1>8 DEF LoopState, Terminal, Waiting
      <3> HIDE DEF halted, s
      <3>2. Accounted(halted)
        BY <1>1, <1>4, <2>2, <2>4, <3>1, AccountGoesOn DEF Accounted, id
      <3> QED BY <1>6, <2>1, <2>4, <3>1, <3>2 DEF Accounted, AccountedAfter
    <2>5. CASE disk' = found /\ stage[id] # "pending" /\ id \in audited
      <3>1. /\ WithArtifact(s) \in LoopState /\ WithArtifact(s).loop = s.loop
            /\ WithArtifact(s).current_step = s.current_step
            /\ WithArtifact(s).step_count = s.step_count
            /\ WithArtifact(s).pending_action_id = s.pending_action_id
            /\ id \in recorded => s.current_step \in WithArtifact(s).created
        BY <1>1, MovesTyped, MovesStay, CountsStay
      <3>2. /\ found \in LoopState /\ found.loop = s.loop
            /\ found.current_step = s.current_step /\ found.step_count = s.step_count
            /\ found.status = "awaiting_verification" /\ found.pending_action_id = id
            /\ id \in recorded => found.current_step \in found.created
        BY <3>1 DEF LoopState, Waiting
      <3> HIDE DEF found, s
      <3>3. Accounted(found)
        BY <2>2, <2>5, <3>2 DEF Accounted, AccountedIn, Names, Waiting, Terminal
      <3> QED BY <1>6, <2>1, <2>5, <3>2, <3>3 DEF Accounted, AccountedAfter
    <2> QED BY <1>16, <2>3, <2>4, <2>5 DEF Resume
  <1>17. CASE Decide(p)
    <2> DEFINE v == proc[p].verdict
               r == Remembered(s, v)
               d == next_action(s, v)
               t == AfterDecision(r, d)
               id == s.pending_action_id
    <2>1. s.status = "awaiting_verification" /\ Accounted(s) /\ ~At(p, "staged")
      BY <1>1, <1>2, <1>3, <1>17 DEF WorkIn, Decide, At, Copy, Busy
    <2>2. v \in Verdicts
      BY <1>1, <1>17, AtWork DEF Decide, Busy
    <2>3. /\ r \in LoopState /\ d \in Decisions /\ r.loop = s.loop
          /\ r.current_step = s.current_step /\ r.created = s.created
          /\ r.step_count = s.step_count
      BY <1>1, <2>2, ControllerTyped, RememberedCounts
    <2>4. d = "retry" => v.status # "verified"
      BY <2>2 DEF next_action, DecisionOn, Verdicts
    <2>5. /\ disk' = t /\ (Goto(p, "drive", t) \/ Return(p))
          /\ UNCHANGED <<started, write, stage, recorded>>
          /\ verified \subseteq verified' /\ failed \subseteq failed'
          /\ id \in verified' \cup failed' /\ (v.status # "verified" => id \in failed')
      BY <1>17 DEF Decide
    <2>6. id \in recorded => s.current_step \in s.created
      BY <2>1 DEF Accounted, AccountedIn
    <2> HIDE DEF s, v, r, d, t
    <2>7. /\ t \in LoopState /\ t.loop = s.loop /\ t.status \notin Waiting
          /\ d = "proceed" => t.current_step = s.current_step + 1
          /\ d # "proceed" => t.current_step = s.current_step
      BY <2>3, DecisionTyped DEF t
    <2>8. /\ t.step_count = s.step_count
          /\ d # "proceed" /\ t.status \notin Terminal => d = "retry" /\ s.current_step \notin s.created
      BY <2>3, DecisionCounts DEF t
    <2>9. t.step_count >= s.step_count /\ ~Names(s, s.pending_action_id) /\ s.status \in Waiting
      BY <1>8, <2>1, <2>8 DEF Names, Waiting
    <2>10. \/ t.status \in Terminal /\ t.current_step = s.current_step
           \/ t.current_step = s.current_step + 1 /\ id \in verified' \cup failed'
           \/ t.current_step = s.current_step /\ id \in failed' \ recorded
      BY <2>4, <2>5, <2>6, <2>7, <2>8
    <2>11. AccountedIn(t, write, stage, verified', failed', recorded)
      BY <1>1, <1>4, <2>1, <2>5, <2>7, <2>9, <2>10, AccountGoesOn DEF Accounted
    <2>12. AccountedAfter(t)
      BY <2>5, <2>11 DEF AccountedAfter
    <2> QED BY <1>6, <2>1, <2>5, <2>7, <2>12
  <1>18. CASE Begin(p)
    <2>1. /\ ~At(p, "staged") /\ disk' \in {NoLoop, disk}
          /\ UNCHANGED <<started, write, stage, recorded, verified, failed>>
      BY <1>18 DEF Begin, At
    <2>2. CASE Return(p) \/ Goto(p, "drive", s)
      <3>1. AccountedAfter(s)
        BY <1>3, <2>1 DEF Accounted, AccountedAfter
      <3> QED BY <1>1, <1>6, <2>1, <2>2, <3>1
    <2>3. CASE disk # NoLoop /\ TakeUp(p)
      <3>1. Accounted(disk) /\ disk.loop \in started
        BY <1>3, <2>1, <2>3 DEF WritesInv, GateInv
      <3>2. AccountedAfter(disk)
        BY <2>1, <3>1 DEF Accounted, AccountedAfter
      <3>3. /\ \A q \in Procs \ {p} : proc'[q] = proc[q]
            /\ proc'[p].s = disk /\ proc'[p].at # "staged"
        BY <2>3 DEF TakeUp, Goto, TypeOK
      <3>4. \A q \in Procs : Busy(q)' => proc'[q].s.loop \in started'
        BY <1>2, <2>1, <3>1, <3>3 DEF Busy
      <3>5. GateInv'
        BY <1>4, <2>1, <3>1, <3>4, GateStays DEF WritesInv, Executed
      <3>6. \A q \in Procs \ {p} : ~Busy(q)'
        BY <1>2, <3>3 DEF Busy
      <3>7. AccountedAfter(InHand(proc'[p])) /\ (disk' # NoLoop => AccountedAfter(disk'))
        BY <2>1, <3>2, <3>3 DEF InHand
      <3> QED BY <1>4, <3>5, <3>6, <3>7, WritesStay
    <2> QED BY <1>18, <2>2, <2>3 DEF Begin, Active
  <1> QED BY <1>9, <1>10, <1>11, <1>12, <1>13, <1>14, <1>15, <1>16, <1>17, <1>18, <1>19 DEF Drive

LEMMA CommandKeepsWrites ==
    ASSUME TypeOK, ~Overlap, WritesInv, NEW p \in Procs, Command(p)
    PROVE  WritesInv'
  <1> USE DEF save, clear, gate, history
  <1>1. \A q \in Procs : ~Busy(q)
    BY WhoIsBusy
  <1>2. disk # NoLoop => Accounted(disk) /\ disk.loop \in started
    <2>1. \A q \in Procs : ~At(q, "staged")
      BY <1>1 DEF Busy, At, Idle, Dead
    <2> QED BY <2>1 DEF WritesInv, GateInv
  <1>3. /\ UNCHANGED <<plan, write, stage, recorded, verified, failed>> /\ disk' \in {NoLoop, disk}
        /\ started \subseteq started' /\ \A q \in Procs \ {p} : proc'[q] = proc[q]
    BY DEF Command, Start, Continue, Verify, Checkpoint, Abandon, TakeUp, Goto, TypeOK
  \* It suffices that what the command works on accounts for the writes.
  <1>4. ASSUME Busy(p)' => /\ AccountedAfter(proc'[p].s) /\ proc'[p].at # "staged"
                           /\ proc'[p].s.loop \in started'
        PROVE  WritesInv'
    <2>1. \A q \in Procs \ {p} : ~Busy(q)'
      BY <1>1, <1>3 DEF Busy
    <2>2. GateInv'
      <3>1. disk' # NoLoop => disk'.loop \in started'
        BY <1>2, <1>3
      <3>2. \A q \in Procs : Busy(q)' => proc'[q].s.loop \in started'
        BY <1>4, <2>1
      <3> QED BY <1>3, <3>1, <3>2, GateStays DEF WritesInv, Executed
    <2>3. disk' # NoLoop => AccountedAfter(disk')
      BY <1>2, <1>3 DEF Accounted, AccountedAfter
    <2>4. Busy(p)' => AccountedAfter(InHand(proc'[p]))
      BY <1>4 DEF InHand
    <2> QED BY <1>3, <2>1, <2>2, <2>3, <2>4, WritesStay
  <1>5. ASSUME NEW loop \in Loops, Start(p, loop) PROVE WritesInv'
    <2> DEFINE t == Fresh(loop)
    <2>1. OfLoop(loop, write) = {}
      BY <1>5 DEF Start, OfLoop, WritesInv, GateInv
    <2>2. Accounted(t) /\ t.loop = loop
      BY <2>1, FS_EmptySet DEF Accounted, AccountedIn, Fresh, Waiting
    <2>3. proc'[p] = [at |-> "start", s |-> t] /\ loop \in started'
      BY <1>5 DEF Start, Goto, TypeOK
    <2> HIDE DEF t
    <2> QED BY <1>3, <1>4, <2>2, <2>3 DEF Accounted, AccountedAfter
  <1>6. CASE Continue(p) \/ (\E v \in Verdicts : Verify(p, v)) \/ Checkpoint(p)
    <2>1. disk # NoLoop /\ proc'[p].s = disk /\ proc'[p].at # "staged" /\ started' = started
      BY <1>6 DEF Continue, TakeUp, Goto, Verify, Checkpoint, TypeOK
    <2>2. AccountedAfter(disk)
      BY <1>2, <1>3, <2>1 DEF Accounted, AccountedAfter
    <2> QED BY <1>2, <1>4, <2>1, <2>2
  <1>7. CASE Abandon(p)
    BY <1>1, <1>4, <1>7 DEF Abandon, Busy
  <1> QED BY <1>5, <1>6, <1>7 DEF Command

LEMMA StepKeepsWrites ==
    ASSUME TypeOK, LoopInv, ~Overlap, Mortal = {}, PlaceInv, WritesInv, [Next]_vars
    PROVE  WritesInv'
  <1> USE DEF gate, history
  \* The gate and time: a write waits no more, and a create is recorded.
  <1>1. ASSUME UNCHANGED <<plan, started, disk, write, verified, failed, proc>>,
               recorded \subseteq recorded',
               \A id \in recorded' \ recorded : stage[id] = "pending",
               \A id \in Ids : stage'[id] = "pending" => stage[id] = "pending",
               \A id \in Ids : stage'[id] \in {"applied", "executed"} =>
                  \/ Executed(id)
                  \/ Recording /\ plan[write[id].loop][write[id].step] = "create" => id \in recorded'
        PROVE  WritesInv'
    <2>1. GateInv'
      <3>1. failed \ recorded \subseteq failed' \ recorded'
        BY <1>1 DEF LoopInv, TypeOK
      <3> QED BY <1>1, <3>1, GateStays DEF WritesInv, GateInv, Copy, Busy
    <2>2. ASSUME NEW p \in Procs, Busy(p)' PROVE AccountedAfter(InHand(proc[p]))
      <3> DEFINE t == InHand(proc[p])
      <3>1. Accounted(t) /\ Busy(p)
        BY <1>1, <2>2 DEF WritesInv, Busy
      <3>2. t.status \in Waiting => t.pending_action_id \in OfLoop(t.loop, write)
        <4>1. WorkIn(proc[p], plan, write, audited, verified) /\ proc[p].s \in LoopState
          BY <3>1, AtWork DEF LoopInv, WorkSound, Busy, Copy
        <4>2. /\ t.loop = proc[p].s.loop /\ t.pending_action_id = proc[p].s.pending_action_id
              /\ proc[p].at # "staged" => t.status = proc[p].s.status
          BY <4>1 DEF InHand, LoopState
        <4> QED BY <3>1, <4>1, <4>2 DEF WorkIn, SoundIn, Busy, OfLoop, NoWrite
      <3> HIDE DEF t
      <3>3. AccountedIn(t, write, stage', verified, failed, recorded')
        BY <1>1, <3>1, <3>2, AccountStays DEF Accounted
      <3> QED BY <1>1, <3>3 DEF AccountedAfter, t
    <2>3. ASSUME disk # NoLoop, \A p \in Procs : ~At(p, "staged") PROVE AccountedAfter(disk)
      <3>1. Accounted(disk)
        BY <2>3 DEF WritesInv
      <3>2. disk.status \in Waiting => disk.pending_action_id \in OfLoop(disk.loop, write)
        BY <2>3 DEF LoopInv, Sound, SoundIn, OfLoop, NoWrite
      <3>3. AccountedIn(disk, write, stage', verified, failed, recorded')
        BY <1>1, <3>1, <3>2, AccountStays DEF Accounted
      <3> QED BY <1>1, <3>3 DEF AccountedAfter
    <2> QED BY <1>1, <2>1, <2>2, <2>3
        DEF WritesInv, Accounted, AccountedAfter, AccountedIn, StepOf, At
  <1>2. ASSUME NEW id \in Ids, Approve(id) PROVE WritesInv'
    BY <1>1, <1>2 DEF Approve, TypeOK, Executed, Recording
  <1>3. ASSUME NEW id \in Ids, LogApprove(id) \/ Discard(id) PROVE WritesInv'
    BY <1>1, <1>3 DEF LogApprove, Discard, TypeOK, Executed
  <1>4. CASE Age \/ UNCHANGED vars
    BY <1>1, <1>4 DEF Age, vars, TypeOK, Executed
  <1>5. \A p \in Procs : ~Kill(p)
    BY DEF Kill
  <1> QED BY <1>2, <1>3, <1>4, <1>5, DriveKeepsWrites, CommandKeepsWrites DEF Next

\* One command at a time, each run to its end: everything about the writes.
LEMMA WritesAreAccounted ==
    ASSUME ~Overlap, Mortal = {}
    PROVE  Spec => [](TypeOK /\ LoopInv /\ PlaceInv /\ WritesInv)
  <1>1. Init => LoopInv /\ PlaceInv
    BY DEF Init, LoopInv, WorkSound, WorkIn, PlaceInv, Alone, Busy, Idle
  <1>2. Init => WritesInv
    <2> SUFFICES ASSUME Init PROVE WritesInv
      OBVIOUS
    <2>1. \A l : OfLoop(l, write) = {}
      BY DEF Init, OfLoop
    <2>2. 0 <= Budget
      BY LimitsAssumption DEF Budget
    <2> QED BY <2>1, <2>2, FS_EmptySet DEF Init, WritesInv, GateInv, Busy, Idle, Executed
  <1>3. TypeOK /\ LoopInv /\ PlaceInv /\ WritesInv /\ [Next]_vars
        => LoopInv' /\ PlaceInv' /\ WritesInv'
    BY StepKeepsInv, StepKeepsPlace, StepKeepsWrites
  <1> QED BY <1>1, <1>2, <1>3, TypeCorrect, PTL DEF Spec

\* One command at a time, each run to its end, whatever fails: what waits at the
\* gate for a saved loop is the one write that its state names.
THEOREM OneWriteAtTheGate ==
    ASSUME ~Overlap, Mortal = {}
    PROVE  Spec => []OneOpenWrite
  <1>1. TypeOK /\ PlaceInv /\ WritesInv => OneOpenWrite
    <2> SUFFICES ASSUME TypeOK, PlaceInv, WritesInv, NEW id \in Ids, stage[id] = "pending",
                        disk # NoLoop, write[id].loop = disk.loop,
                        \A p \in Procs : ~(At(p, "staged") /\ Copy(p).pending_action_id = id)
                 PROVE  Names(disk, id)
      BY DEF OneOpenWrite, Names
    <2>1. id \in OfLoop(disk.loop, write)
      BY DEF OfLoop, TypeOK
    <2>2. \A p \in Procs : ~At(p, "staged")
      <3> SUFFICES ASSUME NEW p \in Procs, At(p, "staged") PROVE FALSE
        OBVIOUS
      <3>1. Busy(p) /\ Copy(p) \in LoopState
        BY AtWork DEF Busy, At, Idle, Dead
      <3>2. disk.loop = Copy(p).loop
        BY <3>1 DEF PlaceInv, InPlace, At, Copy
      <3> DEFINE t == [Copy(p) EXCEPT !.status = "awaiting_approval"]
      <3>3. t.loop = disk.loop /\ t.pending_action_id = Copy(p).pending_action_id
        BY <3>1, <3>2 DEF LoopState
      <3>4. Accounted(t)
        BY <3>1 DEF WritesInv, InHand, At, Copy
      <3> HIDE DEF t
      <3> QED BY <2>1, <3>3, <3>4 DEF Accounted, AccountedIn, Names
    <2> QED BY <2>1, <2>2 DEF WritesInv, Accounted, AccountedIn
  <1> QED BY <1>1, WritesAreAccounted, PTL

\* One command at a time, each run to its end, and the created ids known: a step
\* is executed twice only after a complaint, and no create is.
THEOREM RepeatsWereWarranted ==
    ASSUME ~Overlap, Mortal = {}, "id_unrecorded" \notin Faults
    PROVE  Spec => []RepeatsAreWarranted
  <1>1. TypeOK /\ WritesInv => RepeatsAreWarranted
    BY DEF WritesInv, GateInv, RepeatsAreWarranted, RepeatsNeedAComplaint, CreatedOnce, Same,
           Repeated, Executed, Recording, TypeOK
  <1> QED BY <1>1, WritesAreAccounted, PTL

\* One command at a time, each run to its end, whatever fails: no loop stages more
\* writes than it has steps, over all its pauses and retries.
THEOREM BudgetBoundsTheLoop ==
    ASSUME ~Overlap, Mortal = {}
    PROVE  Spec => []StagedWithinBudget
  <1>1. WritesInv => StagedWithinBudget
    BY DEF WritesInv, GateInv, StagedWithinBudget, OfLoop, Budget
  <1> QED BY <1>1, WritesAreAccounted, PTL

-----------------------------------------------------------------------------
(* Refinement: one command at a time, the loops are OrderedWrites *)

\* No loop is past the end of its plan, and no write is for a step beyond it.
Within(s) == s.current_step <= Len(plan[s.loop])

PlanInv ==
    /\ \A id \in Ids : write[id] # NoWrite => write[id].step \in 1 .. Len(plan[write[id].loop])
    /\ disk # NoLoop => Within(disk)
    /\ \A p \in Procs : Busy(p) => Within(Copy(p))

LEMMA DriveKeepsPlan ==
    ASSUME TypeOK, LoopInv, PlanInv, NEW p \in Procs, Busy(p), Drive(p)
    PROVE  PlanInv'
  <1> DEFINE s == Copy(p)
  <1> USE DEF save, clear, gate, history
  <1>1. /\ s \in LoopState /\ Within(s) /\ s.current_step \in Nat /\ s.loop \in Loops
        /\ Len(plan[s.loop]) \in Nat /\ WorkIn(proc[p], plan, write, audited, verified)
    <2>1. s \in LoopState
      BY AtWork DEF Busy
    <2>2. s.current_step \in Nat /\ s.loop \in Loops
      BY <2>1 DEF LoopState
    <2>3. plan[s.loop] \in Seq({"read", "update", "create"})
      BY <2>2, LoopAssumption DEF TypeOK
    <2> QED BY <2>1, <2>2, <2>3 DEF PlanInv, LoopInv, WorkSound
  \* It suffices that what is saved and gone on with is within its plan.
  <1>2. ASSUME NEW t, t \in LoopState, t.loop = s.loop, t.current_step <= Len(plan[s.loop]),
               NEW u, u \in LoopState, u.loop = s.loop, u.current_step <= Len(plan[s.loop]),
               disk' \in {NoLoop, disk, t}, plan' = plan,
               Return(p) \/ \E at \in {"drive", "staged", "saved", "clear"} : Goto(p, at, u),
               \A id \in Ids : \/ write'[id] = write[id]
                               \/ write'[id].step \in 1 .. Len(plan[write'[id].loop])
        PROVE  PlanInv'
    <2>1. \A q \in Procs \ {p} : proc'[q] = proc[q]
      BY <1>2 DEF Return, Goto, TypeOK
    <2>2. proc'[p] = Idle \/ proc'[p].s = u
      BY <1>2 DEF Return, Goto, TypeOK
    <2>3. \A q \in Procs : Busy(q)' => Within(Copy(q))'
      BY <1>2, <2>1, <2>2 DEF PlanInv, Busy, Within, Copy
    <2>4. (disk # NoLoop => Within(disk))'
      BY <1>2 DEF PlanInv, Within
    <2>5. (\A id \in Ids : write[id] # NoWrite
                             => write[id].step \in 1 .. Len(plan[write[id].loop]))'
      BY <1>2 DEF PlanInv
    <2> QED BY <2>3, <2>4, <2>5 DEF PlanInv
  <1>3. Counted(s) \in LoopState /\ Counted(s).loop = s.loop /\ Counted(s).current_step = s.current_step
    BY <1>1, MovesTyped, MovesStay
  <1>4. ~Finished(s) => s.current_step + 1 \in 1 .. Len(plan[s.loop])
    BY <1>1 DEF Finished, Within
  <1>5. CASE StopAtBudget(p)
    <2> DEFINE t == [s EXCEPT !.status = "stopped", !.last_error = TRUE]
    <2>1. t \in LoopState /\ t.loop = s.loop /\ t.current_step <= Len(plan[s.loop])
      BY <1>1 DEF LoopState, Terminal, Within
    <2>2. disk' = t /\ Return(p) /\ UNCHANGED <<plan, write>>
      BY <1>5 DEF StopAtBudget
    <2> HIDE DEF t, s
    <2> QED BY <1>2, <2>1, <2>2
  <1>6. CASE RunRead(p)
    <2> DEFINE t == Advanced(Counted(s))
    <2>1. disk' = t /\ Goto(p, "drive", t) /\ UNCHANGED <<plan, write>> /\ ~Finished(s)
      BY <1>6 DEF RunRead
    <2> HIDE DEF s
    <2>2. t \in LoopState /\ t.loop = s.loop /\ t.current_step = s.current_step + 1
      BY <1>3, MovesTyped, MovesStay
    <2> HIDE DEF t
    <2>3. t.current_step <= Len(plan[s.loop])
      BY <1>1, <1>4, <2>1, <2>2
    <2> QED BY <1>2, <2>1, <2>2, <2>3
  <1>7. CASE FailStep(p)
    <2> DEFINE t == [Counted(s) EXCEPT !.status = "failed", !.last_error = TRUE]
    <2>1. t \in LoopState /\ t.loop = s.loop /\ t.current_step <= Len(plan[s.loop])
      BY <1>1, <1>3 DEF LoopState, Terminal, Within
    <2>2. disk' = t /\ Return(p) /\ UNCHANGED <<plan, write>>
      BY <1>7 DEF FailStep
    <2> HIDE DEF t, s
    <2> QED BY <1>2, <2>1, <2>2
  <1>15. CASE Crash(p)
    <2> DEFINE t == [s EXCEPT !.status = "failed", !.last_error = TRUE]
    <2>1. t \in LoopState /\ t.loop = s.loop /\ t.current_step <= Len(plan[s.loop])
      BY <1>1 DEF LoopState, Terminal, Within
    <2>2. disk' = t /\ Return(p) /\ UNCHANGED <<plan, write>>
      BY <1>15 DEF Crash
    <2> HIDE DEF t, s
    <2> QED BY <1>2, <2>1, <2>2
  <1>8. CASE StageWrite(p)
    <2>1. PICK id \in Ids :
            /\ write' = [write EXCEPT ![id] = [loop |-> s.loop, step |-> s.current_step + 1]]
            /\ Goto(p, "staged", [Counted(s) EXCEPT !.pending_action_id = id])
      BY <1>8 DEF StageWrite
    <2> DEFINE t == [Counted(s) EXCEPT !.pending_action_id = id]
    <2>2. t \in LoopState /\ t.loop = s.loop /\ t.current_step <= Len(plan[s.loop])
      BY <1>1, <1>3 DEF LoopState, Within
    <2>3. ~Finished(s) /\ disk' = disk /\ plan' = plan
      BY <1>8 DEF StageWrite
    <2> HIDE DEF t, s
    <2>4. /\ write'[id] = [loop |-> s.loop, step |-> s.current_step + 1]
          /\ \A i \in Ids \ {id} : write'[i] = write[i]
      BY <2>1 DEF TypeOK
    <2>5. \A i \in Ids : \/ write'[i] = write[i]
                         \/ write'[i].step \in 1 .. Len(plan[write'[i].loop])
      BY <1>4, <2>3, <2>4
    <2>6. Goto(p, "staged", t)
      BY <2>1 DEF t
    <2> QED BY <1>2, <2>2, <2>3, <2>5, <2>6
  <1>9. CASE Pause(p)
    <2> DEFINE t == [s EXCEPT !.status = "awaiting_approval"]
    <2>1. t \in LoopState /\ t.loop = s.loop /\ t.current_step <= Len(plan[s.loop])
      BY <1>1 DEF LoopState, Waiting, Within
    <2>2. disk' = t /\ (Return(p) \/ Goto(p, "saved", t)) /\ UNCHANGED <<plan, write>>
      BY <1>9 DEF Pause, LogFails
    <2> HIDE DEF t, s
    <2> QED BY <1>2, <2>1, <2>2
  <1>10. CASE Complete(p)
    <2> DEFINE t == [s EXCEPT !.status = "completed"]
    <2>1. t \in LoopState /\ t.loop = s.loop /\ t.current_step <= Len(plan[s.loop])
      BY <1>1 DEF LoopState, Terminal, Within
    <2>2. disk' = t /\ (Goto(p, "clear", t) \/ Goto(p, "saved", t)) /\ UNCHANGED <<plan, write>>
      BY <1>10 DEF Complete, LogFails
    <2> HIDE DEF t, s
    <2> QED BY <1>2, <2>1, <2>2
  <1>11. CASE ClearState(p) \/ SaveCheckpoint(p)
    <2>1. disk' \in {NoLoop, s} /\ Return(p) /\ UNCHANGED <<plan, write>>
      BY <1>11 DEF ClearState, SaveCheckpoint
    <2> HIDE DEF s
    <2> QED BY <1>1, <1>2, <2>1 DEF Within
  <1>12. CASE Resume(p)
    <2> DEFINE halted == [s EXCEPT !.status = "stop"]
               found  == [WithArtifact(s) EXCEPT !.status = "awaiting_verification"]
    <2>1. /\ WithArtifact(s) \in LoopState /\ WithArtifact(s).loop = s.loop
          /\ WithArtifact(s).current_step = s.current_step
      BY <1>1, MovesTyped, MovesStay
    <2>2. /\ halted \in LoopState /\ halted.loop = s.loop /\ halted.current_step <= Len(plan[s.loop])
          /\ found \in LoopState /\ found.loop = s.loop /\ found.current_step <= Len(plan[s.loop])
      BY <1>1, <2>1 DEF LoopState, Terminal, Waiting, Within
    <2>3. disk' \in {disk, halted, found} /\ Return(p) /\ UNCHANGED <<plan, write>>
      BY <1>12 DEF Resume
    <2> HIDE DEF halted, found, s
    <2> QED BY <1>2, <2>2, <2>3
  <1>13. CASE Decide(p)
    <2> DEFINE v == proc[p].verdict
               r == Remembered(s, v)
               d == next_action(s, v)
               t == AfterDecision(r, d)
    <2>1. v \in Verdicts
      BY <1>13, AtWork DEF Decide, Busy
    <2>2. /\ disk' = t /\ (Goto(p, "drive", t) \/ Return(p)) /\ UNCHANGED <<plan, write>>
          /\ At(p, "decide")
      BY <1>13 DEF Decide
    <2>3. s.current_step + 1 <= Len(plan[s.loop])
      <3>1. s.pending_action_id \in Ids /\ write[s.pending_action_id] = [loop |-> s.loop, step |-> s.current_step + 1]
        BY <1>1, <2>2 DEF WorkIn, SoundIn, Waiting, At, Copy, Busy
      <3> HIDE DEF s
      <3> QED BY <1>1, <3>1 DEF PlanInv, NoWrite
    <2>4. /\ r \in LoopState /\ d \in Decisions /\ r.loop = s.loop
          /\ r.current_step = s.current_step
      BY <1>1, <2>1, ControllerTyped
    <2> HIDE DEF s, v, r, d, t
    <2>5. t \in LoopState /\ t.loop = s.loop /\ t.current_step \in {s.current_step, s.current_step + 1}
      BY <2>4, DecisionTyped DEF t
    <2>6. t.current_step <= Len(plan[s.loop])
      BY <1>1, <2>3, <2>5
    <2> QED BY <1>2, <2>2, <2>5, <2>6
  <1>14. CASE Begin(p)
    <2>1. disk' \in {NoLoop, disk} /\ UNCHANGED <<plan, write>>
      BY <1>14 DEF Begin
    <2>2. CASE Return(p) \/ Goto(p, "drive", s)
      <3> HIDE DEF s
      <3> QED BY <1>1, <1>2, <2>1, <2>2 DEF Within
    <2>3. CASE disk # NoLoop /\ TakeUp(p)
      <3>1. \A q \in Procs \ {p} : proc'[q] = proc[q]
        BY <2>3 DEF TakeUp, Goto, TypeOK
      <3>2. proc'[p].s = disk
        BY <2>3 DEF TakeUp, Goto, TypeOK
      <3> QED BY <2>1, <2>3, <3>1, <3>2 DEF PlanInv, Within, Busy, Copy
    <2> QED BY <1>14, <2>2, <2>3 DEF Begin, Active
  <1> QED BY <1>5, <1>6, <1>7, <1>8, <1>9, <1>10, <1>11, <1>12, <1>13, <1>14, <1>15 DEF Drive

LEMMA StepKeepsPlan ==
    ASSUME TypeOK, LoopInv, PlanInv, [Next]_vars
    PROVE  PlanInv'
  <1> USE DEF clear, gate, history
  <1>1. ASSUME NEW p \in Procs, Drive(p) PROVE PlanInv'
    <2>1. Busy(p)
      BY <1>1 DEF Drive, Begin, StopAtBudget, RunRead, FailStep, StageWrite, Pause, Crash, LogFails, Complete,
                  ClearState, Resume, Decide, SaveCheckpoint, At, Busy, Idle, Dead
    <2> QED BY <1>1, <2>1, DriveKeepsPlan
  <1>2. ASSUME NEW p \in Procs, Command(p) PROVE PlanInv'
    <2>1. /\ UNCHANGED <<plan, write>> /\ disk' \in {NoLoop, disk}
          /\ \A q \in Procs \ {p} : proc'[q] = proc[q]
      BY <1>2 DEF Command, Start, Continue, Verify, Checkpoint, Abandon, TakeUp, Goto, TypeOK
    <2>2. Busy(p)' => \/ Busy(p) /\ proc'[p] = proc[p]
                      \/ disk # NoLoop /\ proc'[p].s = disk
                      \/ \E loop \in Loops : proc'[p].s = Fresh(loop)
      BY <1>2 DEF Command, Start, Continue, Verify, Checkpoint, Abandon, TakeUp, Goto, TypeOK, Busy
    <2>3. \A loop \in Loops : Within(Fresh(loop))
      <3> SUFFICES ASSUME NEW loop \in Loops PROVE Within(Fresh(loop))
        OBVIOUS
      <3>1. plan[loop] \in Seq({"read", "update", "create"})
        BY LoopAssumption DEF TypeOK
      <3> QED BY <3>1 DEF Within, Fresh
    <2> QED BY <2>1, <2>2, <2>3 DEF PlanInv, Within, Busy, Copy
  <1>3. ASSUME NEW p \in Procs, Kill(p) PROVE PlanInv'
    BY <1>3 DEF Kill, PlanInv, Within, Busy, Copy, TypeOK
  <1>4. CASE (\E id \in Ids : Approve(id) \/ LogApprove(id) \/ Discard(id)) \/ Age \/ UNCHANGED vars
    BY <1>4 DEF Approve, LogApprove, Discard, Age, vars, PlanInv, Within, Busy, Copy
  <1> QED BY <1>1, <1>2, <1>3, <1>4 DEF Next

\* A step that stages, settles and judges nothing is none of OrderedWrites.
LEMMA Unseen ==
    ASSUME UNCHANGED <<plan, write, stage, recorded, verified, failed>>
    PROVE  UNCHANGED Ordered!orderedVars
  BY DEF Ordered!orderedVars, Fate

LEMMA FateMoves ==
    ASSUME TypeOK, NEW id \in Ids, NEW to, stage' = [stage EXCEPT ![id] = to]
    PROVE  Fate' = [Fate EXCEPT ![id] = IF to = "executed" THEN "applied" ELSE to]
  BY DEF Fate, TypeOK

\* What is staged is in its turn.
LEMMA StagedIsProposed ==
    ASSUME TypeOK, LoopInv, PlanInv, ~Overlap, PlaceInv, WritesInv, NEW p \in Procs, StageWrite(p)
    PROVE  Ordered!Next
  <1> DEFINE s    == Copy(p)
             loop == s.loop
             step == s.current_step + 1
             mine == OfLoop(loop, write)
  <1>1. Drive(p)
    BY DEF Drive
  <1>2. Busy(p) /\ s \in LoopState /\ \A q \in Procs \ {p} : ~Busy(q)
    BY <1>1, WhoIsBusy DEF PlaceInv, Alone
  <1>3. /\ s.loop \in Loops /\ s.current_step \in Nat /\ s.step_count \in Nat
        /\ Len(plan[loop]) \in Nat
    <2>1. s.loop \in Loops /\ s.current_step \in Nat /\ s.step_count \in Nat
      BY <1>2 DEF LoopState
    <2>2. plan[loop] \in Seq({"read", "update", "create"})
      BY <2>1, LoopAssumption DEF TypeOK
    <2> QED BY <2>1, <2>2
  <1>4. /\ s.status = "running" /\ Accounted(s)
        /\ SoundIn(s, plan, write, audited, verified)
    <2>1. At(p, "drive")
      BY DEF StageWrite
    <2> QED BY <1>2, <2>1 DEF LoopInv, WorkSound, WorkIn, WritesInv, InHand, At, Copy, Busy
  <1>5. step \in 1 .. Len(plan[loop]) /\ plan[loop][step] \in {"update", "create"}
    BY <1>2, <1>3 DEF StageWrite, Finished, IsWrite, StepOf, PlanInv, Within
  <1>6. PICK id \in Ids :
          /\ write[id] = NoWrite
          /\ write' = [write EXCEPT ![id] = [loop |-> loop, step |-> step]]
          /\ stage' = [stage EXCEPT ![id] = "pending"]
    BY DEF StageWrite
  <1>7. UNCHANGED <<plan, recorded, verified, failed>> /\ InBudget(s)
    BY DEF StageWrite, history
  <1>8. /\ \A i \in mine : /\ write[i].step <= step
                           /\ i \in verified \cup failed
                           /\ write[i].step = step => i \in failed \ recorded
        /\ Cardinality(mine) <= s.step_count /\ Cardinality(mine) \in Nat
    <2>1. s.status \notin Terminal /\ s.status \notin Waiting
      BY <1>4 DEF Terminal, Waiting
    <2>2. IsFiniteSet(mine)
      BY <1>3 DEF WritesInv, GateInv
    <2> QED BY <1>4, <2>1, <2>2, FS_CardinalityType DEF Accounted, AccountedIn
  <1>9. Cardinality(mine) < IF MaxSteps > 0 THEN MaxSteps ELSE 0
    <2>1. s.step_count < MaxSteps /\ MaxSteps \in Int
      BY <1>7, LimitsAssumption DEF InBudget
    <2> HIDE DEF mine, s
    <2> QED BY <1>3, <1>8, <2>1
  <1>10. \A n \in 1 .. step - 1 : plan[loop][n] \in {"update", "create"} =>
           \E i \in verified : write[i] = [loop |-> loop, step |-> n]
    <2>1. step - 1 = s.current_step
      BY <1>3
    <2> QED BY <1>4, <2>1 DEF SoundIn
  <1>11. Ordered!WritesOf(loop) = mine
    BY DEF Ordered!WritesOf, Ordered!NoWrite, OfLoop, NoWrite
  <1>12. Fate' = [Fate EXCEPT ![id] = "pending"]
    BY <1>6, FateMoves
  <1> HIDE DEF s, loop, step, mine
  <1>13. Ordered!ItsTurn(loop, step)
    BY <1>8, <1>10, <1>11 DEF Ordered!ItsTurn, Ordered!Judged
  <1>14. Ordered!Propose(id, loop, step)
    <2>1. Ordered!Cardinality(Ordered!WritesOf(loop)) < IF MaxSteps > 0 THEN MaxSteps ELSE 0
      <3>1. Ordered!Cardinality(mine) = Cardinality(mine)
        BY DEF Ordered!Cardinality, Cardinality, Ordered!IsFiniteSet, IsFiniteSet
      <3> QED BY <1>9, <1>11, <3>1
    <2>2. write[id] = Ordered!NoWrite
      BY <1>6 DEF Ordered!NoWrite, NoWrite
    <2>3. /\ write' = [write EXCEPT ![id] = [loop |-> loop, step |-> step]]
          /\ UNCHANGED <<plan, recorded, verified, failed>>
      BY <1>6, <1>7
    <2> QED BY <1>5, <1>12, <1>13, <2>1, <2>2, <2>3 DEF Ordered!Propose
  <1>15. loop \in Loops /\ step \in DOMAIN plan[loop]
    <2>1. plan[loop] \in Seq({"read", "update", "create"})
      BY <1>3, LoopAssumption DEF TypeOK, loop
    <2> QED BY <1>3, <1>5, <2>1 DEF loop
  <1> QED BY <1>14, <1>15 DEF Ordered!Next

\* What is decided on was executed and was not judged before.
LEMMA DecisionIsJudgement ==
    ASSUME TypeOK, LoopInv, ~Overlap, PlaceInv, WritesInv, NEW p \in Procs, Decide(p)
    PROVE  Ordered!Next
  <1> DEFINE s  == Copy(p)
             id == s.pending_action_id
  <1>1. Drive(p)
    BY DEF Drive
  <1>2. Busy(p) /\ s \in LoopState /\ At(p, "decide")
    BY <1>1, WhoIsBusy DEF Decide
  <1>3. s.status = "awaiting_verification" /\ SoundIn(s, plan, write, audited, verified)
        /\ Accounted(s)
    BY <1>2 DEF LoopInv, WorkSound, WorkIn, WritesInv, InHand, At, Copy, Busy
  <1>4. id \in Ids /\ id \in audited /\ id \notin verified \cup failed
    BY <1>3 DEF SoundIn, Accounted, AccountedIn, Waiting
  <1>5. Fate[id] = "applied"
    BY <1>4 DEF TypeOK, Fate
  <1>6. /\ UNCHANGED <<plan, write, stage, recorded>>
        /\ \/ verified' = verified \cup {id} /\ UNCHANGED failed
           \/ failed' = failed \cup {id} /\ UNCHANGED verified
    BY DEF Decide, gate
  <1>7. Fate' = Fate
    BY <1>6 DEF Fate
  <1> HIDE DEF s, id
  <1>8. Ordered!Judge(id)
    BY <1>4, <1>5, <1>6, <1>7 DEF Ordered!Judge, Ordered!Judged
  <1> QED BY <1>4, <1>8 DEF Ordered!Next

\* One command at a time, each run to its end, whatever fails and however often a
\* person complains: the writes of a loop come before a person one by one, in the order
\* of the plan, after their predecessors were verified, again only after a complaint,
\* never after a discarded one, and within the budget (_drive_loop,
\* _resume_awaiting_approval and loop_verify together).
THEOREM LoopsWriteInOrder ==
    ASSUME ~Overlap, Mortal = {}
    PROVE  Spec => ImplementsOrderedWrites
  <1>1. Init => Ordered!Init /\ PlanInv
    BY DEF Init, Ordered!Init, Ordered!NoWrite, NoWrite, Fate, PlanInv, Busy, Idle
  <1>2. TypeOK /\ LoopInv /\ PlanInv /\ [Next]_vars => PlanInv'
    BY StepKeepsPlan
  <1>3. TypeOK /\ LoopInv /\ PlanInv /\ PlaceInv /\ WritesInv /\ [Next]_vars
        => [Ordered!Next]_(Ordered!orderedVars)
    <2> SUFFICES ASSUME TypeOK, LoopInv, PlanInv, PlaceInv, WritesInv, [Next]_vars
                 PROVE  Ordered!Next \/ UNCHANGED Ordered!orderedVars
      OBVIOUS
    <2> USE DEF gate, history
    <2>1. ASSUME NEW p \in Procs, Drive(p)
          PROVE  Ordered!Next \/ UNCHANGED Ordered!orderedVars
      <3>1. CASE StageWrite(p)
        BY <3>1, StagedIsProposed
      <3>2. CASE Decide(p)
        BY <3>2, DecisionIsJudgement
      <3>3. CASE ~StageWrite(p) /\ ~Decide(p)
        <4>1. UNCHANGED <<plan, write, stage, recorded, verified, failed>>
          BY <2>1, <3>3 DEF Drive, Begin, StopAtBudget, RunRead, FailStep, Pause, Crash, LogFails, Complete,
                            ClearState, Resume, SaveCheckpoint
        <4> QED BY <4>1, Unseen
      <3> QED BY <3>1, <3>2, <3>3
    <2>2. ASSUME NEW p \in Procs, Command(p) \/ Kill(p)
          PROVE  UNCHANGED Ordered!orderedVars
      <3>1. UNCHANGED <<plan, write, stage, recorded, verified, failed>>
        BY <2>2 DEF Command, Start, Continue, Verify, Checkpoint, Abandon, Kill
      <3> QED BY <3>1, Unseen
    <2>3. ASSUME NEW id \in Ids, Approve(id) PROVE Ordered!Execute(id)
      <3>1. /\ stage[id] = "pending" /\ stage' = [stage EXCEPT ![id] = "applied"]
            /\ UNCHANGED <<plan, write, verified, failed>>
            /\ \/ UNCHANGED recorded
               \/ /\ plan[write[id].loop][write[id].step] = "create"
                  /\ recorded' = recorded \cup {id}
        BY <2>3 DEF Approve
      <3>2. Fate[id] = "pending" /\ Fate' = [Fate EXCEPT ![id] = "applied"]
        BY <3>1, FateMoves DEF Fate
      <3> QED BY <3>1, <3>2 DEF Ordered!Execute, Ordered!Becomes
    <2>4. ASSUME NEW id \in Ids, LogApprove(id) PROVE UNCHANGED Ordered!orderedVars
      <3>1. /\ stage[id] = "applied" /\ stage' = [stage EXCEPT ![id] = "executed"]
            /\ UNCHANGED <<plan, write, recorded, verified, failed>>
        BY <2>4 DEF LogApprove
      <3>2. Fate' = Fate
        <4>1. Fate' = [Fate EXCEPT ![id] = "applied"]
          BY <3>1, FateMoves
        <4> QED BY <3>1, <4>1 DEF Fate
      <3> QED BY <3>1, <3>2 DEF Ordered!orderedVars
    <2>5. ASSUME NEW id \in Ids, Discard(id) PROVE Ordered!Discard(id)
      <3>1. /\ stage[id] = "pending" /\ stage' = [stage EXCEPT ![id] = "discarded"]
            /\ UNCHANGED <<plan, write, recorded, verified, failed>>
        BY <2>5 DEF Discard
      <3>2. Fate[id] = "pending" /\ Fate' = [Fate EXCEPT ![id] = "discarded"]
        BY <3>1, FateMoves DEF Fate
      <3> QED BY <3>1, <3>2 DEF Ordered!Discard, Ordered!Becomes
    <2>6. CASE Age \/ UNCHANGED vars
      <3>1. UNCHANGED <<plan, write, stage, recorded, verified, failed>>
        BY <2>6 DEF Age, vars
      <3> QED BY <3>1, Unseen
    <2> QED BY <2>1, <2>2, <2>3, <2>4, <2>5, <2>6 DEF Next, Ordered!Next
  <1> QED
    BY <1>1, <1>2, <1>3, WritesAreAccounted, PTL DEF Spec, ImplementsOrderedWrites, Ordered!Spec
=============================================================================
