# TLA+ models of hubspot_agent

`hubspot_agent` (`src/src/hubspot_agent/`) lets an assistant read and change a HubSpot
portal. Its central promise is about *writes*: nothing is changed before a person has
seen a preview and approved it, unless the change is provably safe and can be undone;
and what was changed is logged and can be put back. This directory models the parts of
the program that keep this promise (or do not: see "Where the program and its
documentation disagree"), checks the models with TLC on small instances, and proves the
central properties with TLAPS for instances of any size.

Line numbers refer to files under `src/src/hubspot_agent/`.

## The system

| component | state it keeps | operations | where it is modelled |
|---|---|---|---|
| **Approval policy** (`policy.py`, `snapshot.is_undoable`) | `approval_policy.json`, global and per portal | `load_approval_policy`, `_coerce`, `classify_write` | `Policy`, `PolicyFiles` |
| **Write gate** (`safety.apply_write`, `handlers.execute_pending_write`, `persistence`, `snapshot`, `audit`) | `pending_previews/<id>.json`, `undo_snapshots/<id>.json`, `audit.log` | stage, approve with an id, reject, undo, reap | `WriteGate`, `GatedWrite` |
| **Pattern writes** (`handlers._execute_pattern_write`) | the same files, one batch snapshot | stage with pre-images, re-read, compare and set each record, undo | `PatternWrite` |
| **Bare commands** (`cli._handle_approve_last`, `_handle_confirm`, `_handle_reject_last`) | the newest file in `pending_previews/` | approve, confirm or reject "the last one" | `PatternWrite` |
| **Durable loop** (`orchestrator.run_loop`, `_drive_loop`, `_resume_awaiting_approval`, `loop_state`) | `loop-state.json`, `loop_log` | start, run a step, pause at a write, resume, retry, verify, checkpoint, abandon | `DurableLoop`, `OrderedWrites` |
| **Loop controller** (`loop_controller`) | counters inside the loop state | `next_action`, `record_iteration` | `LoopController` |
| **Scheduler** (`orchestrator.run_scheduled_due`, `schedule_store`, `cron`) | `schedules/<id>.json`, staged batches | add, remove, run what is due, stamp, record, expire a batch | `Scheduler`, `Cron` |
| **HTTP client** (`client.HubSpotClient`, `auth.refresh_access_token`) | request times, tokens, the refresh lock | pace, refresh, send, retry | `Client` |
| **Daemon and router** (`daemon`, `router`) | socket, pid file, one process at a time | start, serve, idle out, kill, send, fall back | `Daemon`, `StoreOnce` |
| **Tools and scopes** (`tools/`, `scope_registry`) | none | one HubSpot request each | `Tools`, run by `Dispatch` |
| **Agents and dispatch** (`agents/`, `orchestrator.dispatch_agent`, `handlers.handle_tool`) | none | preview, execute, reconcile | `Agents`, run by `Dispatch` |
| **Bulk writes** (`objects.py` upsert, `hygiene.py` bulk update, `checkpoint`, `progress`) | checkpoint and progress files | chunk by chunk, resume, verify by echo | `Bulk`, run by `Dispatch` |
| **Planning** (`planning`, `sequential_dispatch`) | none | `parse_plan`, `validate_plan`, `is_write_step` | the last in `Dispatch` |
| Schema cache, blueprints, redaction, command line, setup, texts | JSON files, static tables | see "Not modelled" | not modelled |

**How they interact.** A request arrives in a daemon (one asyncio loop, every
connection a coroutine) or in a CLI process of its own; tool calls usually go to
the daemon, `approve`, `reject`, `undo`, `loop` and `schedule` commands always
run in their own process. Both call the same handlers, and they meet only in the
files of the portal. `persistence` takes a `flock` around each single store,
clear, confirm and reap; nothing is locked from one of these calls to the next,
and HubSpot is called in between. The durable loop and the scheduler stage their
writes through the same gate and later find out from the pending file and the
audit log what became of them. The daemon may be killed or idle out, a CLI
process may be interrupted, and HubSpot may apply a request whose answer is lost.

**What makes each component correct.**

- *Policy*: no content of the files, malformed or well-meant, lets an unsafe
  write run unattended; an edit that loosens a gate says so by a number raised, an
  action lowered or a name moved, and never moves a shipped name.
- *Write gate*: no effect without the approval its tier asks for; at most one
  effect per approval; a discarded write stays discarded; every effect is logged
  or reported; what is reversible stays reversible; a failure keeps the preview.
- *Pattern writes*: only records that still hold their approved values are
  overwritten; the report, the log and the snapshot name exactly the applied ones.
- *Bare commands*: a write over the threshold is executed with its own count,
  whichever preview "the last one" is when the command looks.
- *Durable loop*: it pauses at every write and gets past it only when the write
  was executed and found verified, repeats a write only after a complaint and a
  create never, stops after a rejection, is not replaced by another loop, and ends
  within its budgets.
- *Scheduler*: a tick is served, and once; a staged batch is owned, holds its
  schedule back until it is reviewed, and expires.
- *Client*: at most 100 requests in any 10 seconds; a read survives an expired
  token; as many refreshes as expiries and refused tasks, and no more; a write is sent
  once; every request ends.
- *Daemon*: a write call stores one preview and, when its tier lets it go at once,
  makes its change once, under its own portal, and its caller is told; every call
  ends; a daemon nobody can reach goes away.
- *Tools, scopes, agents*: separately written tables agree: what is taken for a
  read changes nothing, what goes by itself removes nothing, what is called is covered
  by the scopes asked for, a text leads to the change it names.
- *Bulk writes*: every input is counted, a resumed batch loses nothing.

`PROJECT.json` lists the hazards behind these at their lines.

## What is modelled

### `Policy` and `PolicyFiles`

`Policy` has the pure part: the merge of the shipped policy, the global and the portal's
file (`Overlay`, `load_approval_policy`), the coercion of malformed values (`_coerce`),
and the tier rules in their order (`classify_write`). A JSON value is abstracted to what
the code distinguishes: absent (`Unset`), of a wrong type (`Malformed`), a number beyond
every integer (`Infinite`, as JSON reads 1e999), or a value. `_coerce` catches what
`int()` says of the malformed ones, and not what it says of an infinite one: loading the
policy raises then (`Coerces`). A preview is what `classify_write` reads of it: the
risk, the intent, how many records it targets and how many were captured, the property
names, the tool.

`PolicyFiles` lets the operator edit either file at any time and stages writes
under the files as they are, as a pattern when that is asked for and the policy
allows it (`PatternEligible`, `PatternTier`), or not at all when the policy does not
load (`StageFails`). `schedule_queue_ttl_days` matters here for that alone; what it
bounds is `TTL` in `Scheduler`.

### `WriteGate`

A process is one request being served. Each action is the code between two
points where another process can run: a file read, a file write, or a call of
HubSpot. `proc[p]` is where a process is, with the id it works on and, before
`confirm`, the kind of count it was given. The actions follow
`execute_pending_write` step by step:

    Propose / Approve -> Gate -> ConfirmCount -> SaveSnapshot
        -> HubSpotApplies | HubSpotRefuses
        -> RecordCreated -> ClearPending -> LogApprove        (success)
        -> DropSnapshot                                       (failure)

and `Reject -> ClearRejected`, `Undo -> Restore -> ConsumeSnapshot -> LogUndo`,
`Expire`, `Reap` and `Crash` stand beside them. `request[id]` is what the preview
file says (immutable once stored), `pending` and `confirmed` are the files and
the `confirmed_count` in them, `snapshot`, `audited` and `undoAudited` the other
files. `applied` and `undone` are what happened at HubSpot, `asked`, `typed` and
`rejected` are history variables for what people did.

`Undo` is `handle_undo` up to its first call of HubSpot, with its early returns: no
snapshot, a type that is not known, pre-change values or an id that are not there.
`Restore` is the call. A request has an `object` flag: the creates of notes, lists,
tasks or forms name no CRM object type, and the object tool that is to delete what
they made raises before it calls HubSpot. `LeavesTraceAndUndo` says that an undo finds
all it asks for before its call, and `GatedWrite` leaves open whether it comes about.

Some choices that matter:

- *The gate is read off a copy.* After `Approve` loaded the preview nothing
  looks at the file again, except `ConfirmCount`, which does so under the lock.
- *A refusal of HubSpot and a lost answer look the same to the caller.* A tool's
  error becomes an `ExecuteError`; the agents' execute handlers and the bulk tool
  may hide it (`AfterError`), while exceptions still get through.
- *Previews of an older release* have no tier. `Init` allows any id to be one.
- *`Overlap = FALSE`* restricts the runs to those where nobody starts work on an
  action (or reaps it) while another process works on it. `Faults` says what may
  go wrong. Both are constants, so that a property can be claimed exactly for the
  circumstances in which the code keeps it.

`GatedWrite` is the promise: a write is staged, permitted, then executed once or
discarded, then perhaps undone. It knows no files, processes or logs.

Abstractions: an action id does not repeat (eight hex digits of a uuid4); a typed
count is right or wrong; one flag stands for the pre-change values a snapshot
holds; a snapshot is written in one step (`snapshot.py:96` writes in place, a
torn file is not modelled). Commands that name no id are in `PatternWrite`.

### `PatternWrite`

One approved rule, a set of records: `matched[id]` is the change of each record
with the pre-image captured when the preview was built. A process is a command:

    Approve | ApproveLast | ConfirmLast | RejectLast
        -> Look -> Confirm | Drop | Gate       (the commands without an id)
        -> (Reread -> Write)*                  for each record, in order
        -> SaveSnapshot -> ClearPending -> LogRecord* -> Report

and `Stage` (with the pre-images, some of which may be unreadable), `Undo`, `Edit`
and `Crash` stand beside them. A rule may be empty: the pattern of a payload without
a list of records (an update of one record with `--pattern`) is staged with no record
matched (handlers.py:106, safety.py:175), and its approval changes nothing and
reports a success.

- The executor works on the copy of the preview it loaded. `Reread` compares
  every field named by the change with the captured value; a drifted record is
  skipped, a failed read or write is noted, and the loop goes on.
- The snapshot is saved *after* the last record; what was applied before that is
  in memory only.
- `queue` is the order of the file times, which is what the commands without an id
  go by. `Confirm` rewrites a file and so makes it the newest; each of these
  commands picks its target in one step and acts on it in a later one.
- `Edit` is anybody else changing a record. `Races = FALSE` keeps every other change
  (an edit, an undo, the write of another approve) out of the step from the re-read
  to the write of the same record, `Overlap = FALSE` as in `WriteGate`. One fault
  happens, once (`mishap`).

`staged`, `changed`, `clobbered`, `typed` and `report` are history: what was staged,
what HubSpot held when it was changed, which drifted records were written, whose
count was typed, and what the approval said at its end.

### `LoopController` and `DurableLoop`

`LoopController` has the decision that follows a verdict (`next_action`), what it
remembers of the verdict in the state, and `record_iteration`. A verdict is its
status and what it complains about; the fingerprint of a complaint (`Hash`) is the
complaint. `step_count` and `api_call_count` grow together in the code, so
`MaxSteps` stands for the smaller of `max_steps` and `max_api_calls`. The error
budget is in the model but cannot fire, because `last_error` is only ever set
together with a status that ends the loop.

`DurableLoop` is the interactive loop. `disk` is `loop-state.json` and `stale` says
that nobody saved it for two hours. A process is one `hubspot loop` command;
`proc[p].s` is the copy of the state it loaded and works on, and nothing is locked
between its load and its save. The actions:

    Start -> Begin -> RunRead* -> Complete -> ClearState          run to the end
                   -> StageWrite -> Pause                         parked at a write
                   -> FailStep | StopAtBudget | Crash
    Continue -> Resume | (drive on) | ClearState
    Verify -> Decide -> (drive on)
    Checkpoint -> SaveCheckpoint        Abandon

- `Start` is the check of the command line, `Begin` the second look of `run_loop`:
  a loop that came up in between is taken up in place of the plan.
- `StageWrite` and `Pause` are two steps because the preview is stored before the
  loop state says so; in between the count and the action id are in memory only.
- `Crash` is the fail-safe around the driver: the log or the disk raises before a
  step, between the preview and the save, or between a save and its line in the log
  (`LogFails`). The loop ends as failed and keeps the name of the preview it staged.
- `Resume` tells from the preview file and the last audit lines what became of the
  write. The gate is `WriteGate` in two steps: `Approve` (executed, the preview goes),
  then `LogApprove` (the audit line). *Executed* means answered as a success: the
  answer of an agent's step or of a bulk write may hide calls that HubSpot refused
  (handlers.py:658), and only the person's verdict says what came of it. `Discard` is
  a reject or the reaper.
- `Decide` is the whole of `loop_verify` from the controller to the save:
  `AfterDecision` advances, retries, or ends the loop, `OnRetry` refuses to retry a
  create of which the undo snapshot (`recorded`) has the id.

`verified` and `failed` are history: the actions on which a verdict was taken.

`OrderedWrites` is the promise, without files, processes, commands and counts: a write
of a plan is proposed when it is its turn (all writes of its loop judged, those before
it verified, its own complained about and not known to have created a record), is
executed or is discarded, and is judged once. A discarded write is never judged, so
nothing comes after it. `ImplementsOrderedWrites` maps `stage` to what became of a write
(`Fate`: with its audit line or without) and `recorded` to what is known.

`Overlap` lets commands run beside each other and beside an approval, `Mortal` are
the processes that may be killed, and `Faults` may contain `step_fails` (any step
fails, and so may the driver itself at any point), `audit_unseen` (the audit line was
not written, or 200 others follow it) and `id_unrecorded` (the created id did not get
into the snapshot).

Abstractions: a read, its retries and the pacing sleeps are one step; the contents
of artifacts are left out but for "this step created something"; a plan is a
sequence of reads, updates and creates, where an update stands for every write
that has no created id; `validate_plan` may refuse any plan; the model ends with
`Loops`, the number of loops started. Scheduled mode (no pause, a state of its own
per run) is `Scheduler`'s. An undo between an approve and the next continue, which
takes the created ids with it, is left out.

### `Scheduler` and `Cron`

`Cron` compiles a five-field expression to the sets the code keeps (`Compile`,
with day and weekday joined by "or" when both are restricted), matches a minute of
the `Calendar`, and decides `IsDue` over the half-open window since the last run,
scanned back `ScanCap` minutes. Instants are finer than minutes.

`Scheduler` is one `schedule run-due` process per sweep. It works on copies of the
schedules it listed at its start (`sweep[p].listed`) and goes through them newest
first:

    Begin -> OverlapGate -> [ExpireBatch -> MarkExpired] -> StartRun
          -> StageWrite* -> EndDrive -> (LoadForStamp -> StoreStamp)*
          -> RecordBatch -> AdvanceClock -> the next schedule

`RunRaises` is the exception handler around one schedule, `Crash` the end of the
process. Beside it run `Add`, `Remove`, `Answer` (the operator approves or rejects
a staged write), `Reap` (24 hours, previews with a stamp excepted) and `Tick`.
`preview[id].stamped` is the origin that takes a preview from the reaper and gives
it to its schedule. `minted`, `answered` and `runs` are history.

### `Client`

The tasks of one event loop share one `HubSpotClient` and interleave where the
code awaits: the sleep of the window, the refresh lock, the token endpoint, the
answer. `window` holds ages, so time never ends. Of a token it is kept whether
HubSpot still honours it (`token` in the portal, `header` in the client). HubSpot
is external: it refuses a token it no longer honours and may otherwise answer with
a success, 429, 401, an error or not at all. `gathered` says whether requests run
together or one after another.

### `Daemon`

The daemon's life (`warming -> named -> serving -> stopping -> unlinked -> dead`),
its watchdog and its handling of a connection; and the router's call: look at the
socket, clean up, spawn, await, send, receive, kill a daemon of another portal and
start over, run locally. `socket` and `pid` are the two shared files: a path leads
to the daemon that bound it last. Each action is the code between two file
operations.

A write that waits for a person is stored and shown (`StagePreview`). One of the AUTO
tier is stored and executed in the same request (`handle_tool`, handlers.py:414-429):
a request at a daemon is *sent*, *held* once its preview is stored, and *made* once
HubSpot has made the change (`StageAuto -> MakeChange -> ClearAndAnswer`). When the
execution fails on the way, the answer is an error that names the preview which stays
(`AutoApplyFails`, "named"), and when a disk operation raises that nobody turns into
an `ExecuteError`, it is an error that names nothing (`DiskFails`, "fault"). In process
the same handler runs with a client of its own (`RunInProcess`), whose closing may
raise too.

`StoreOnce` is the promise, without daemons, sockets and retries: a write goes once, and
under the portal it was for, from its preview to its change to the preview's removal,
or stops on the way; its caller is told once, in words that fit where the write then
is; and nothing moves after that unless the caller was warned. Only a "fault" leaves a
preview or a change behind of which the caller was told nothing.
`ImplementsStoreOnce` maps `staged`, `made` and what each call has shown (`out`) to it.

### `Tools`, `Agents`, `Bulk` and `Dispatch`

`Tools` says of each tool what it does to HubSpot (reads, adds, alters, removes), which
scopes the registry wants for it, what the gate takes it for (`handlers`), and whether a
call of it may be of the AUTO tier (`MayAutoApply`). `Agents` gives each agent a plan
per intent for its preview, its execution and its reconciliation: a sequence of calls
and early returns. The nineteen record agents cloned from `objects` are one definition
each only where they differ. These tables were written independently in the source, and
that is the hazard: `Dispatch` takes a request (a tool call, a step of a loop, a typed
request to an agent), classifies its text by the set of its words, checks the scopes,
decides whether it must be approved or goes by itself (`StageTool`, `AutoApply`), and
runs the plan call by call, with refusals, changes by others and lost answers. The
agents' checks for a write whose answer was lost are tables only: nothing in the program
calls `reconcile_after_timeout`, so `Dispatch` does not run it, and `ChecksFit`, a part
of `TheTablesAgree`, compares them with the plans. The reads of a tool's preview, which
capture old values, are left out of `StageTool`.

`Bulk` has the two batch tools chunk by chunk: the partition by key, the counts,
the checkpoint and the progress file, a death between two chunks and the resume;
for the bulk update the comparison of HubSpot's echo with what was asked.

## What TLC checks

A property named in a run is often a conjunction of two or three named parts
(`RefreshesSuffice == ReadsSurviveExpiry /\ RefreshesAreBounded`): one idea, stated in
parts.

| run | instance | distinct states | what it shows |
|---|---|---|---|
| `policy_files` | 3 tools, 2 properties, one of each shipped; 13 global and 20 portal file contents, with malformed and infinite numbers | 213,169 | `AutoIsSafe`, `EditsLoosenOpenly`: whatever the two files hold |
| `gate_serial` | 2 ids, 2 processes, no overlap; refusals, failing snapshots and audits; one request of each tier and intent, one of no object type | 383,250 | `ImplementsGatedWrite`, `LeavesTraceAndUndo` |
| `gate_concurrent` | 1 id, 2 processes, every overlap, every fault; tool, bulk and agent requests | 218,336 | `GateHonoured`, `NothingVanishes`, `NoResurrection`, `AuditIsTruthful` |
| `gate_crash` | 1 id, 2 processes, no overlap; crashes, failing snapshots, ids and audits | 12,493 | `EffectHasSnapshot` |
| `loop_serial` | 2 loops of up to 4 steps, 4 ids, a budget of 3 steps and 3 iterations, 2 complaints; one command at a time, steps and drivers may fail | 271,245 | `OneOpenWrite`, `RepeatsAreWarranted`, `StopMeansRejected`, `LoopsKeepTheirPlace`, `ImplementsOrderedWrites` |
| `loop_concurrent` | 2 loops, 2 ids, 2 processes of which one may die; every overlap, every fault | 3,375,950 | `OnlyVerifiedBehind` |
| `loop_ends` | 1 loop with 2 writes, 4 ids, 2 iterations; no overlap; a mortal process, failing steps and drivers, unseen audits; `FairSpec` | 40,871 | `EveryLoopEnds` |
| `pattern_write` | 2 records, 2 ids, 2 processes, 3 rules of which one names no record, threshold 1, 1 edit from elsewhere, any one fault | 1,924,152 | `NeverOverwrites`, `ManyNeedTheirCount`, `BatchIsAccountedFor`, `UndoRestoresTheBatch` |
| `scheduler` | 1 sweep at a time, 2 schedules (every minute, minute 1), 5 ids, 3 minutes, TTL of 2, reaper at 1; one failed step, raising run or crash; `FairSpec` | 209,478 | `OneBatchAtATime`, `StampsAreRight`, `EachTickOnce`, `TickServed` |
| `client` | 2 tasks, one reads and one writes; limit 2, window 2, a 429 sleeps 1; 2 expiries, 1 near expiry; `FairSpec` | 188,579 | `WriteSentOnce`, `RefreshesSuffice`, `WithinLimit`, `RequestsEnd` |
| `daemon` | a writing caller on portal A and a reading one on B, 2 daemons; writes that wait and writes applied at once; `FairSpec` | 296,490 | `OneWritePerCall`, `WritesAreTold`, `ImplementsStoreOnce`, `CallsEnd`, `OrphansExit` |
| `dispatch` | every tool with and without a type, 20 agents, 11 texts, 4 sets of scopes, 11 batches in chunks of 2 | 67,613 | `ChangesAreApproved`, `AgentsKeepTheirWord`, `ScopesCoverTheCalls`, `BatchAddsUp` |

The runs of `Scheduler` and `PatternWrite` check `TypeOK` too.

**Fairness.** The gate, the policy, pattern writes and the dispatch have safety
properties only: each of their steps is taken because a person, a daemon or HubSpot
moves, and nothing in the code schedules it again. Four components have liveness:

- *The loop* (`EveryLoopEnds`): weak fairness of each live process (`Drive(p)`, or
  its death): a command that runs goes on to its next pause, it waits for nobody;
  strong fairness of `Answer(p)` for the processes that do not die, and of an
  approval or a reject of each preview: a person who is asked again and again at
  last answers (strong, because the question is withdrawn while another command is
  at work); weak fairness of the audit line of an approval that took effect.
  Nothing is assumed of `Start`, `Checkpoint`, `Abandon`, `Age`, nor of *which*
  answer is given: every verdict may be a complaint and every step may fail.
- *The scheduler* (`TickServed`): time passes, the external timer starts a sweep
  whenever none runs, and a sweep that runs goes on. The operator owes nothing:
  an unanswered batch is what the TTL is for.
- *The client* (`RequestsEnd`): time passes, a task whose await is over goes on, and
  an `asyncio.Lock` is strongly fair (its waiters form a queue).
- *The daemon* (`CallsEnd`, `OrphansExit`): a process that can move does, and the
  watchdog's sleep ends. A handler that hangs, a crash and a failing start owe
  nothing; the callers' timeouts are what ends a call.

`CHECK_DEADLOCK FALSE` wherever the instance comes to its end: once every id, call
or daemon is used up and settled, nothing is left to do.

**Why the bounds are enough.** Writes share no state but the processes that serve them,
so one id shows every interference on a write and two ids show that work on one leaves
the other alone. Two processes are needed for an approve beside an approve, a reject, an
undo or a reap, and a third adds no new pair. `MaxEffects` (2 or 3) stops *new* approves
once that many effects happened; two overlapping approves, a crash and a retry all fit
below it. In `PolicyFiles` one write is staged between two edits, since a tier depends
on the files and its own preview only; ceilings lie below and above the shipped one, and
thresholds and counts of records on both sides of them. `EditsLoosenOpenly` compares
that write before and after an edit, so it is about any two contents of the files, not
about the shipped policy. The theorems below remove these bounds for most of the
properties.

Loops share the state file and nothing else, so two loops show a loop beside its
successor or its rival. The plans have every kind of step first and last and one is
longer than its budget; the budgets (2 or 3) lie below what a loop needs that is
retried each time, so they do bite. `Ids` bounds how many writes are staged over all
loops; `StageWrite` has no other outcome when the ids are used up, so a safety run
only ends there, and `loop_ends` has as many ids as the iterations and deaths of its
loop can use: with a stuck `StageWrite` its property would be violated. One
complaint is enough where the plateau is not at stake. The loop's ids (and in
`gate_serial` and `pattern_write` the ids and the processes) are interchangeable in
every definition and property, so the safety runs use symmetry; the runs with
liveness do not.

A pattern write needs two records for "one applied, one not" and a threshold below
two; two ids for "the newest is another one by now"; one edit is a drift, and it may
come before the preview, before the re-read or after the write. All records hold
the same at first; that they differ comes of the first edit or batch. In `Scheduler` the
ids suffice for every tick of both schedules, the TTL expires within the clock, and
the reaper's age is shorter than the TTL as 24 hours are shorter than the shipped
seven days, so a preview without a stamp goes first. `NoTimeLeft` in `TickServed`
excludes exactly the batches whose TTL lies beyond the clock. `ScanCap` (4) exceeds
the clock: the runs later than the scan goes back, which `EachTickOnce` concedes, do not
occur here; `TicksRunOnce` covers them. In
`Client` a full window of two and two tasks are enough for one to wait on the
other's entry; ages make the state space finite without a last instant, so
`RequestsEnd` is about runs without end. In `Daemon` two callers of two portals make
the socket change hands, and two daemons are an old and a new one; `Start` beyond
them fails, which the code also has to survive. `Dispatch` runs one request at a time,
since tools and agents keep no state; `MaxOthers` lets somebody else change the
portal once, say between the preview and the approval.

**What the circumstances mean.** `gate_serial` leaves out crashes and lost
answers because the code does not keep its properties under them: a crash after
HubSpot applied the write leaves the preview in place, and the write can be
executed again; a lost answer drops the snapshot of a write that took effect. Two
approvals of one action that overlap execute it twice: overlap is in `gate_concurrent`
alone, whose properties do not speak of that.
`gate_crash` leaves out refusals because the retry after a crash that HubSpot
refuses drops the snapshot of the first attempt.

`loop_serial` has no deaths: a process that dies between `StageWrite` and `Pause`
leaves a preview the loop knows nothing of, and the next continue stages the step
again without having counted the first time. It has no `id_unrecorded`, with which a
create is retried, and no `audit_unseen`, under which a stop need not be a
rejection. With overlap the properties of `loop_serial` and `loop_ends` are lost
too: a checkpoint saves what it loaded over whatever a driver saved since, and two
starts that overlap both find no loop, because a new loop is in memory only until
its first step is over (orchestrator.py:1401-1411). What survives every
circumstance is `loop_concurrent`.

`pattern_write` has neither overlap nor races. Two approves of one pattern that
overlap each save a snapshot of the records they wrote themselves, the later over
the earlier. An edit between the re-read and the write is overwritten; the code
cannot exclude it, HubSpot has no conditional update. The conditions inside the
properties name what each fault takes away: a lost answer makes a failure of a
change, a crash leaves written records without report, log and snapshot (a second
approve skips them as drifted), a pre-image that could not be read is taken for an
empty one and "restored" by doing nothing.

`scheduler` has one sweep at a time and no `stamp_race`. Two sweeps that overlap run one
schedule twice for one tick. With `stamp_race` the stamp stores a preview again that was
answered after its load (orchestrator.py:1524): the same write can be approved twice. A
crash after staging and before recording leaves stamped previews which no batch names,
so neither the reaper nor the TTL reaches them; removing a schedule does the same to its
own. Hence `mishap # "crash"` and `Exists(s)` in the properties. A disk that fails while
previews are stamped is left out. A run that raises records an empty batch; its previews
have no stamp then, and the reaper takes them.

In `client` the limit is claimed for requests made one after another: gathered tasks
that wake from a full window all append without a second look (client.py:109). A
request sent again after a 401 is not counted in the window, and a 429 clears it.
A refresh that a 401 forces does not look again under the lock (client.py:132-133), so
requests that are refused together refresh one by one, and all but the first do it in
vain. `RefreshesAreBounded` says how much that is: tasks that find the token about to
expire refresh it once between them, and no task forces more refreshes than the tokens
expired.

### Where the program and its documentation disagree

The models show these when the named circumstance is allowed; none has a run of its
own.

- SKILL.md:160, "a second `approve` of the same action is rejected (no
  double-execute)": both approves load the preview before one clears it (`WriteGate`,
  `Overlap = TRUE`).
- handlers.py:544-545, "the snapshot is dropped since nothing was changed to undo":
  the write took effect and its answer was lost (`response_lost`).
- handlers.py:543-544, "A soft execution failure raises ExecuteError and leaves the
  pending preview on disk": an agent or the bulk tool reports the refusal as a
  success (agent and bulk requests with `refused`).
- SKILL.md:160, "`reject <action_id>` discards a pending action": an approve past
  its load goes on after the reject succeeded (`Overlap = TRUE`).
- README.md:29, "Any approved create/update is undoable": an approve that HubSpot
  refuses deletes the snapshot of one of the same action that succeeded beside it
  (`Overlap = TRUE`, `refused`). And the undo of a create that names no object type (a
  note, a list, a task) always fails: cli.py:826-833 deletes what it made with the
  object tool, which refuses a type it does not know (tools/objects.py:15-25).
- policy.py:3-4, "provably-safe writes can auto-apply": `is_undoable` takes the word of
  the intent, so under the shipped policy a tool call that creates a refund or sends an
  e-mail goes without a person, though deleting the record does not take either back.
- handlers.py:410-411, "a provably-safe interactive write auto-applies", for calls of
  the daemon: when its answer is lost the router warns that "the write preview may
  still have been stored" (router.py:263-268), and the write may have been applied.
  `WritesAreTold` counts that warning as one.
- policy.py:75-90, malformed overrides fall back to a default: a number beyond every
  integer (1e999) raises an OverflowError that nothing catches, and no write can be
  staged until the file is repaired.
- SKILL.md:158, a sensitive write under `full_gate` needs its count: the never_auto
  rule is matched first and makes it `CONFIRM`.
- docs/PRD.md:70, a portal edit "can only ADD": it replaces the list of the global
  file before that is united with the shipped one. What an edit may loosen, and how, is
  in `EditsLoosenOpenly`.
- policy.py:39, the pattern threshold "Defaults to auto_apply_max_records when
  unset": the shipped 100 is never unset.
- orchestrator.py:1285, "pending gone + no approve entry → rejected/cancelled":
  between the end of the preview and the audit line an executed write looks rejected
  (`DurableLoop`, `Overlap = TRUE` or `audit_unseen`).
- orchestrator.py:1612, "Escalate for human review instead of silently duplicating":
  a create whose id was not recorded is retried (`id_unrecorded`).
- cli.py:1022, "Refuses to clobber an already-active loop", and
  orchestrator.py:1361, "validate, persist a fresh LoopState, and drive": it drives
  first, see above.
- docs/PRD.md:72, the error budget and the plateau: `_drive_loop` looks at neither
  between two steps, and `parse_plan` (planning.py:72-139) drops `max_steps`,
  `max_api_calls`, `error_budget` and `verification_plateau` of a plan, so the
  defaults of models.py:63-69 always hold. `validate_plan` accepts a step that
  depends on itself.
- README.md:34, records that "drifted since the preview are skipped, never
  overwritten": not one that drifts between the re-read and the write (`Races =
  TRUE`).
- cli.py:744-749, `confirm 1` on a single-record preview of the full gate is refused,
  although the gate asks for that count.
- orchestrator.py:1420-1422 and docs/QUICKSTART.md:222-223, runs "never overlap":
  two sweeps do (`Sweeps = {p1, p2}`).
- docs/PRD.md:33 and :54, README.md:35 and QUICKSTART.md:220-222, a scheduled write is
  checked for drift: the approval of a staged single write compares nothing.
- cron.py: a day field `*/1` counts as restricted, and turns "and" with the weekday
  into "or".
- daemon.py:124-127, "Closes the startup TOCTOU race (#3)": a daemon that exits, or a
  late clean-up of a caller, unlinks the socket and pid file of the one that came
  after it; a second starter binds over the first. `OrphansExit` and `CallsEnd` are
  what holds nevertheless. A request longer than the idle time is not counted as
  activity.
- `_save_oauth_tokens` writes a portal without its `tier`.
- sequential_dispatch.py:24-29, the gate and the executor "can never disagree": the gate
  reads the action, the executor the whole text; the step of `ChangesAreApproved`'s
  exception changes HubSpot at once, and `_execute_read_step_with_retry`, whose
  docstring (orchestrator.py:925) says "NEVER used for the write-approval path", may
  send it three times.
- orchestrator.py:481-488, an approved text without a type ends in "success" for the
  record agents and sequences, without a call. Agents ignore the error of a tool
  whose result they do not read and report a success; the previews of pipelines,
  users, lists and workflows propose an empty payload, so their updates always
  end in an error; the executor searches again and acts on the first record it
  finds, which need not be the previewed one.
- scope_registry.py:228-230, `_AGENT_TOOLS` lists what the agents call: not the
  custom objects agent's object tools, nor the associations agent's search. The object
  a tool's preview reads (handlers.py:209) is not part of the scope check either.
- Creates of other than object types are claimed undoable; a PUT of the raw tool is
  gated and then refused; disassociate, remove_from_list and deactivate_user are of
  medium risk and not destructive.
- objects.py:160-161 ("Bug 8d"): when HubSpot refuses a whole chunk, the result and
  the progress file count one failure; the checkpoint counts each record. A batch
  that is run again does not look at the checkpoint of the attempt under way, and
  after `finalize` `get_resume_state` answers None.
- `execute_single_step` leaves its preview pending after it executed.
  `reconcile_after_timeout` has no caller in `src/`, so a write whose answer was lost is
  not looked up by the program.

## What is proved

Each theorem holds for every value of the constants that its module's assumption
admits. Those assumptions say only that sets are finite or disjoint where the code's
are, that bounds are numbers, and that marks like `Malformed` are not values.

`PolicyFiles_proofs`, for all names, files and previews:

- `TypeCorrect`: files without infinite numbers load as a policy, and a write that is
  staged has a tier, `Spec => []TypeOK`.
- `AutoStaysSafe`, `EditsAreOpen`: the invariant and the action property of the run. The
  strengthening `StagedInv` says that the staged write carries the tier of its own
  preview under the present files; the rest is the case analysis of `classify_write`
  and of the pattern gate under policies that contain the shipped protections
  (`NormalGateLowered`, `TierLowered`: by which rules a tier can be the lower one).

`WriteGate_proofs`, for any ids, processes, requests and faults and any policy:

- `TypeCorrect`.
- `GateIsHonoured`, from `GateInv`: a process past the gate is *licensed*, which the
  copy it holds cannot lose, since requests are immutable and `typed` and `asked`
  only grow. The property alone is not inductive: it says nothing about a process
  between the gate and HubSpot.
- `AuditTellsTheTruth` and `NoWriteVanishes`, from `EffectInv`: a process past the
  call knows that HubSpot executed a tool write, and an undo past its restore knows
  that it was restored.
- `GoneIsGone`: no action adds a stored id back to `pending`.
- `EffectsHaveSnapshots`, with deaths and overlap, if HubSpot refuses nothing and
  answers (`Answering`): from `WayBackInv`, by which nobody gets to the failure branch,
  the only one that drops a snapshot, and who is about to send a write has saved its
  snapshot, unless it was undone since.
- `SerialRefinement`, `SerialFailureKeepsPreview`, `SerialLeavesTraceAndUndo` for
  behaviours without overlap, crash, lost answer and hidden error (`Serial`), from
  `SerialInv`: no two processes share a write, `StepInv` says for every step whether
  the preview is still there and whether the effect happened, and a snapshot nobody
  works on belongs to an effect. The last theorem adds `LeftBehind`, what an approval
  has put in place at each step, and also assumes that a created id is always
  recorded. `SerialFailureKeepsPreview` is not a run of its own any more, because the
  refinement implies most of it.

`DurableLoop_proofs`, for any plans, budgets, ids, processes, overlap, faults and
deaths:

- `TypeCorrect`, which also says that an audit line stands for an executed write.
- `NothingUnverifiedBehind`: the property of `loop_concurrent`. The file alone is not
  inductive, because any process may save its copy over it. `LoopInv` says that every
  copy in any hand is as *sound* as the file: its writes behind are verified and, when
  it waits, it waits for a write of its own step. What a copy relies on (an audit
  line, a verdict, a staged write) is never taken back (`StepGrows`), so an old copy
  stays sound (`SoundGrows`) however late it is saved; that is why the property
  survives lost updates, which break almost everything else.

The other six are about one command at a time (`~Overlap`), which the code needs:
`loop_concurrent` is what is left with overlap.

- `LoopsStayInPlace`, with deaths and faults, from `PlaceInv`: who is at work is alone,
  and at each of his steps the saved loop is his copy, what the copy was, or not yet
  there.
- `StopsAreRejections`, with deaths, if every approval is in the log, from `StopInv`:
  what was executed is in the log when the loop looks for it there.
- `OneWriteAtTheGate`, `RepeatsWereWarranted` and `BudgetBoundsTheLoop`, if nobody dies
  (`Mortal = {}`), from `WritesInv`: `GateInv` pairs every write at the gate with the
  loop that waits for it or that failed and names it, and `AccountedIn` counts the steps
  a loop has taken against the writes it has staged, all of them judged but the one it
  waits for. The second also assumes that created ids are recorded. The third,
  `StagedWithinBudget`, is a part of what the next one states, and the run checks it
  there.
- `LoopsWriteInOrder`, if nobody dies and whatever is lost or fails: the loop implements
  `OrderedWrites`. `StageWrite` is the proposal (`StagedIsProposed`: what the copy in
  hand says of its writes, from `LoopInv` and `WritesInv`, is that it is the step's
  turn), `Decide` the judgement (`DecisionIsJudgement`), `Approve` and `Discard` are
  themselves, and every other step is one `OrderedWrites` does not see. `PlanInv`, which
  needs no assumption, adds that no loop gets past the end of its plan.

`PatternWrite_proofs`, for any records, rules, threshold, ids, faults and processes:

- `TypeCorrect`, from `PatternInv`. Its part about the queue (an id is pending once)
  rests on the lemmas `WithoutOne` and `AppendNew` about sequences without
  repetitions.
- `DriftedAreSkipped`, for `~Races`: a process about to write holds a record that had
  its approved value when it was read, and nobody else changes it since. With
  overlapping approves as well: what another approve wrote is a drift to this one.
- `BatchesAreAccountedFor` and `UndoRestores`, one command at a time, from `BatchInv`:
  the records behind the executor are each in the report once, those it applied and no
  others are in the snapshot with what they had before, and those ahead are as they
  were. The second is also for `~Races`.
- `ManyAreCounted`: a process that works on records over the threshold has passed a
  gate, and the count it was given is that of the id it works on.

`Scheduler_proofs`, for any schedules, calendar, ids, times and faults:

- `TypeCorrect`, which says also what a sweep holds at each of its steps.
- `ResolvedStays`, without `stamp_race` and for any number of sweeps: an answered
  preview is never pending again. `ResolvedInv` adds that a sweep about to store a
  stamp has a preview in hand that nobody answered.
- `BatchesDoNotMix` and `StampsStayRight`, for one sweep at a time. Neither is
  inductive: a sweep works on copies of schedules that are added, removed and answered
  meanwhile, and it is the stale copy that the gate reads. `BatchesInv` says what a
  copy is still good for: it names every stamped preview of its schedule that was
  there when the sweep began (`CopiesOK`), the batch on disk does so whenever no run
  is under way (`OwnedOK`), what the run itself has staged is of this schedule and
  tick and in no batch yet (`RunOK`), and when a run starts nothing stamped of its
  schedule is left (`SweepOK`). A crash voids all of it (`SchedulesInv`), as the
  properties themselves concede.
- `TicksRunOnce`, for one sweep at a time, from `RunsInv`: the stored time of the last
  run is never before a run that happened, unless a sweep is about to advance it, and
  the copy a sweep decides on knows of every run. That a tick lies in between (`Ticked`)
  is what the scan of `is_due` finds, minute by minute, unless it gives up at `ScanCap`.

`Client_proofs`, for any number of tasks, any limit, window and answers:

- `WriteNeverRepeated`, from `SendInv`: a write that was sent is past every step that
  could send it again; only the 401 of a read leads back.
- `RefreshesAreEnough`, from `ReadInv`, `LockInv`, `RefreshInv` and `ForcedInv`: a read
  sent again after its own refresh carries an honoured token unless the tokens expired
  since; whoever refreshes without a 401 holds the lock and uses up one coming expiry;
  and a task owes at most one refresh for each expiry (`Owes`: it was sent, or will be,
  with a token HubSpot no longer honours), which the refresh it forces pays.
- `SerialRequestsStayWithin`, for requests one after another, from `WindowInv`: the
  entries are in order, and who sleeps in front of a full window sleeps until the
  oldest of them has left it.

`Daemon_proofs`, for any callers, daemons and portals:

- `TypeCorrect`.
- `WrittenOnce`, `CallersAreTold`, from `HeldOnceInv` (at most one daemon holds the
  request of a write, and what was stored and made fits the stage the request is in)
  and `KnowsInv` (what the caller can conclude at each step, in-process or by an answer).
  The point is the retry: a caller starts over only when its request was refused unread
  or never sent, also when the write would have been applied at once.
- `CallsStoreOnce`: the router and its daemons implement `StoreOnce`. `StagePreview`,
  `StageAuto`, `MakeChange` and `ClearAndAnswer` are steps of `Goes`, the answers of
  `AutoApplyFails` and `DiskFails` are not seen until the caller shows them, every end
  of a call is `Tells`, a call that ends in process may be both at once, and the rest is
  not seen. `ToldInv` adds to the invariants above that nothing is told before the end.

`Dispatch_proofs`, for any texts, requests, lists of scopes, records and numbers of
runs and of other users' changes:

- `ApprovedAlone`, `AgentsDoAsTold` and `CallsAreCovered`, from `DispatchInv`: what is
  left of a plan fits the mode it runs in (`PlanOK`), with all its calls covered; who
  changed something has nothing left to do (`ChangedOK`); and a mode tells what was
  asked before (`ModeOK`). `ApprovedAlone` names the two ways a change comes about
  without an approval: a tool call of the AUTO tier, which adds or alters and never
  removes, and the step of a loop whose action hides what its text says.
- Their hypothesis is `TablesAgree`: what the tables of the tools, the scopes, the
  agents' plans and the registry, written independently of each other, owe each other.
  It is finite, and `MC_Dispatch` assumes it (`TheTablesAgree`, with `ChecksFit`), so
  that TLC evaluates it over the whole tables. The provers take the tables as they come:
  they do not expand the `@@` and `:>` these are built with.

- `BatchesAddUp`, for every list of records and any size of chunks, without that
  hypothesis, from `BatchInv`. A plan is described by where it *cuts* the inputs
  (`Cuts`): its n-th chunk lies between two marks, the marks grow, and the last one is
  the number of inputs (`PlanCuts`, from `ChunksCut` and `CutsJoin`). What was sent is
  the inputs up to a mark (`SentUpTo`), so the marks are the sums that the checkpoint
  is compared with, and no key is sent twice because the selections of the partition
  share no position and no key (`KeysAreSentOnce`). For the bulk update, `EchoesHold`
  says that the last echo of a key is what HubSpot holds for it.
- What this needs of the operators is an induction over positions: that a set of n
  positions has an n-th one (`NthIsThere`), that the sum of a sequence exists and is
  the last of its partial sums (`SumsExist`, `TotalOf`). The library's induction
  theorems take an operator; a least counterexample does not (`LeastNumber`, from
  `WFMin`): of the numbers for which the claim fails the least is neither the first
  nor the next of one for which it holds.

**Only model-checked.** Liveness under fairness and `ENABLED` are out of the prover's
reach: `EveryLoopEnds`, `TickServed`, `RequestsEnd`, `CallsEnd`, `OrphansExit`. Every
other property of a run is a theorem. The hypotheses of the theorems are the
circumstances of the runs: what the code does not keep outside of them is said under
the bounds.

## Not modelled

- *Schema cache* (`cache.py`): several processes load, extend and save it without a
  lock. A lost extension is fetched again and nothing else depends on it.
- *A torn snapshot or loop state*: most stores replace the file atomically;
  `snapshot.py:96` writes in place, and a death in the middle would leave a file that
  cannot be parsed. The models save a snapshot in one step.
- *Workflow blueprints*: pure conversions from one JSON format to another, without
  state. For `Tools` a body that does not convert is a refused call.
- *Redaction and request validation*: pure functions on strings.
- *Command line, setup, credentials, texts and reports*: parsing, prompts, wording,
  read-only listings. The handlers the command line calls are modelled with their
  component. The one-time OAuth authorization (`auth.py` 55-168) is interactive.
- *The choice of an agent for a text* (`route_request`): `Dispatch` tries every agent
  with every text. `parse_plan` and `validate_plan` are input checks on a dictionary;
  what they drop and let through is listed above.
- *Unreachable code*: the default engagement types and the merge of two results in the
  hygiene tool are never reached; `reconcile_after_timeout` is called by no module, and
  only its agents' tables are here (`Agents`, `ChecksFit`).
- *The environment*: a process id that the system gives to another program, copies of
  the tokens that other processes on the machine hold, and batch answers of HubSpot
  that succeed without accounting for each input.

## Plan

What is left, the most useful first.

1. An abstract specification of a scheduled batch (staged, reviewed or expired) that
   `Scheduler` implements with one sweep at a time.
2. Torn files: a snapshot that can be half written, with what undo makes of it.
3. The schema cache, should anything come to depend on an extension.

## Files

`X.tla` is a component, `X_proofs.tla` its theorems, `MC_X.tla` its small instances. The
`.cfg` files are the runs of `PROJECT.json`, which also maps every definition to the
lines it stands for. Definitions commented "Seeded fault" are mutated forms of the
definition after them: each property of a run is violated when one of them takes the
place of the code's.

Run a model with `tlc -config Gate_Serial.cfg MC_WriteGate`, check proofs with
`tlapm WriteGate_proofs.tla`.
