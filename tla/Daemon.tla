------------------------------- MODULE Daemon -------------------------------
(***************************************************************************)
(* The warm daemon and the router that sends `tool` calls to it            *)
(* (daemon.py, router.py).                                                 *)
(*                                                                         *)
(* Two files connect them, one pair per data directory whatever the        *)
(* portal: the socket's path, which leads to the daemon that bound it last *)
(* or to nothing, and the pid file.  Every process reads and unlinks both  *)
(* without a lock, so each action is the code between two file operations. *)
(* Daemons crash, callers give up and stopping daemons drop the            *)
(* connections they hold.  A pid is never reused.                          *)
(***************************************************************************)
EXTENDS Naturals, Sequences, FiniteSets

CONSTANTS
    Callers, \* processes that run `hubspot tool`
    Daemons, \* 1..n, in the order they are started; a start beyond n fails
    Portals,
    kind,    \* caller -> "write" or "read"
    target,  \* caller -> the portal it works on
    Nobody   \* no daemon: no such file, or an empty one

ASSUME DaemonAssumption ==
    /\ kind \in [Callers -> {"write", "read"}]
    /\ Portals # {} /\ target \in [Callers -> Portals]
    /\ Daemons = 1..Cardinality(Daemons)
    /\ Nobody \notin Daemons

VARIABLES
    socket,  \* hubspot.sock: the daemon that bound it last
    pid,     \* hubspot.pid: the daemon it names
    life,    \* daemon -> where it is in its life
    portal,  \* daemon -> the portal it is warmed for
    stop,    \* daemons whose _stop event is set
    inbox,   \* daemon -> caller -> what became of the request it sent
    call,    \* caller -> where it is
    staged,  \* caller -> portals of the previews its call has on disk
    made     \* caller -> how often HubSpot has made its change

vars == <<socket, pid, life, portal, stop, inbox, call, staged, made>>

Steps   == {"look", "clean", "spawn", "await", "send", "receive", "kill", "wait", "local", "done"}
\* A call's answer: the stored preview; the change it applied; an error that names
\* the preview it leaves; an error of the disk or of closing the client, after the
\* store; data, or an error that speaks of none of this.
Answers == {"preview", "applied", "named", "fault", "other"}
Outs    == Answers \cup {"none", "warned"}
Living  == {"warming", "named", "serving", "stopping", "unlinked"}
Calls   == [at : Steps, attempt : {1, 2}, to : Daemons \cup {Nobody},
            answer : Answers \cup {"none", "mismatch"}, out : Outs]

\* A request: sent; its preview stored and about to be applied; its change made.
Stages  == {"sent", "held", "made"}

TypeOK ==
    /\ {socket, pid} \subseteq Daemons \cup {Nobody}
    /\ life \in [Daemons -> Living \cup {"unborn", "dead"}]
    /\ portal \in [Daemons -> Portals]
    /\ stop \subseteq Daemons
    /\ inbox \in [Daemons -> [Callers -> Stages \cup {"nothing"}]]
    /\ call \in [Callers -> Calls]
    /\ staged \in [Callers -> Seq(Portals)]
    /\ made \in [Callers -> Nat]
    \* a request that is being handled was sent
    /\ \A c \in Callers, d \in Daemons : call[c].to = d => life[d] # "unborn"

\* What a daemon that is not there is warmed for does not matter.
Unset == CHOOSE p \in Portals : TRUE

Init ==
    /\ socket = Nobody /\ pid = Nobody
    /\ life = [d \in Daemons |-> "unborn"]
    /\ portal = [d \in Daemons |-> Unset]
    /\ stop = {}
    /\ inbox = [d \in Daemons |-> [c \in Callers |-> "nothing"]]
    /\ call = [c \in Callers |-> [at |-> "look", attempt |-> 1, to |-> Nobody,
                                  answer |-> "none", out |-> "none"]]
    /\ staged = [c \in Callers |-> <<>>]
    /\ made = [c \in Callers |-> 0]

-----------------------------------------------------------------------------
(* The two files *)

Alive(d)  == d # Nobody /\ life[d] \in Living
Listens(d) == d # Nobody /\ life[d] = "serving"

UnlinkBoth == socket' = Nobody /\ pid' = Nobody

-----------------------------------------------------------------------------
(* A daemon's life *)

Becomes(d, stage) == life' = [life EXCEPT ![d] = stage]

\* The requests it holds are dropped: their callers see the connection close.
Dies(d) ==
    /\ Becomes(d, "dead")
    /\ stop' = stop \ {d}
    /\ portal' = [portal EXCEPT ![d] = Unset]
    /\ inbox' = [inbox EXCEPT ![d] = [c \in Callers |-> "nothing"]]

Start(p) ==
    \E d \in Daemons :
        /\ life[d] = "unborn" /\ \A e \in 1..(d - 1) : life[e] # "unborn"
        /\ Becomes(d, "warming")
        /\ portal' = [portal EXCEPT ![d] = p]

WarmFails(d) ==
    /\ life[d] = "warming"
    /\ Dies(d)
    /\ UNCHANGED <<socket, pid, call, staged, made>>

\* cleanup_stale_socket, then the pid file, before the bind.
WritePid(d) ==
    /\ life[d] = "warming"
    /\ socket' = IF Alive(pid) THEN socket ELSE Nobody
    /\ pid' = d
    /\ Becomes(d, "named")
    /\ UNCHANGED <<portal, stop, inbox, call, staged, made>>

\* asyncio removes a socket that is at the path before it binds its own.
Bind(d) ==
    /\ life[d] = "named"
    /\ socket' = d
    /\ Becomes(d, "serving")
    /\ UNCHANGED <<pid, portal, stop, inbox, call, staged, made>>

BindFails(d) ==
    /\ life[d] = "named"
    /\ pid' = Nobody
    /\ Dies(d)
    /\ UNCHANGED <<socket, call, staged, made>>

\* Seeded fault: only the daemon the socket leads to watches its idle time.
WhenIdleAndBound(d) == life[d] = "serving" /\ d \notin stop /\ socket = d

\* No line for idle_timeout seconds; a request still being handled is no activity.
WhenIdle(d) == life[d] = "serving" /\ d \notin stop

IdleTimeout(d) ==
    /\ WhenIdle(d)
    /\ stop' = stop \cup {d}
    /\ UNCHANGED <<socket, pid, life, portal, inbox, call, staged, made>>

Close(d) ==
    /\ life[d] = "serving" /\ d \in stop
    /\ Becomes(d, "stopping")
    /\ UNCHANGED <<socket, pid, portal, stop, inbox, call, staged, made>>

\* Whoever's socket is at the path by now, and whoever the pid file names.
UnlinkSocket(d) ==
    /\ life[d] = "stopping"
    /\ socket' = Nobody
    /\ Becomes(d, "unlinked")
    /\ UNCHANGED <<pid, portal, stop, inbox, call, staged, made>>

\* Handlers still at work are cancelled.
Exit(d) ==
    /\ life[d] = "unlinked"
    /\ pid' = Nobody
    /\ Dies(d)
    /\ UNCHANGED <<socket, call, staged, made>>

Crash(d) ==
    /\ life[d] \in Living
    /\ Dies(d)
    /\ UNCHANGED <<socket, pid, call, staged, made>>

-----------------------------------------------------------------------------
(* Requests inside a daemon *)

Holds(d, c, stage) ==
    /\ life[d] \in {"serving", "stopping", "unlinked"}
    /\ inbox[d][c] = stage

\* A caller that has given up has closed its end.
Reply(d, c, answer) ==
    /\ inbox' = [inbox EXCEPT ![d][c] = "nothing"]
    /\ call' = IF call[c].at = "receive" /\ call[c].to = d
               THEN [call EXCEPT ![c].answer = answer] ELSE call
    /\ UNCHANGED <<socket, pid, life, portal, stop>>

Reaches(d, c, stage) ==
    /\ inbox' = [inbox EXCEPT ![d][c] = stage]
    /\ UNCHANGED <<socket, pid, life, portal, stop, call>>

ServesPortal(d, c) == target[c] = portal[d]

Refuse(d, c) ==
    /\ Holds(d, c, "sent") /\ ~ServesPortal(d, c)
    /\ Reply(d, c, "mismatch")
    /\ UNCHANGED <<staged, made>>

\* A read's data, or a HandlerError before anything is stored.
AnswerOther(d, c) ==
    /\ Holds(d, c, "sent") /\ ServesPortal(d, c)
    /\ Reply(d, c, "other")
    /\ UNCHANGED <<staged, made>>

Store(d, c) ==
    /\ Holds(d, c, "sent") /\ ServesPortal(d, c)
    /\ kind[c] = "write"
    /\ staged' = [staged EXCEPT ![c] = Append(@, portal[d])]
    /\ UNCHANGED made

\* handle_tool stores the preview under the portal the daemon is warmed for.  (A
\* daemon that dies before it answers leaves what one leaves that answers a caller
\* who has given up; so it is with ClearAndAnswer.)
StagePreview(d, c) == Store(d, c) /\ Reply(d, c, "preview")

\* An AUTO write goes on to its change at once.
StageAuto(d, c) == Store(d, c) /\ Reaches(d, c, "held")

MakeChange(d, c) ==
    /\ Holds(d, c, "held")
    /\ made' = [made EXCEPT ![c] = @ + 1]
    /\ Reaches(d, c, "made")
    /\ UNCHANGED staged

\* Seeded fault: handle_tool lets the ExecuteError through.
AutoApplyUncaught(d, c) ==
    /\ Holds(d, c, "held") \/ Holds(d, c, "made")
    /\ Reply(d, c, "other")
    /\ UNCHANGED <<staged, made>>

\* An ExecuteError: a snapshot not written, a change refused, or its answer lost.
AutoApplyFails(d, c) ==
    /\ Holds(d, c, "held") \/ Holds(d, c, "made")
    /\ Reply(d, c, "named")
    /\ UNCHANGED <<staged, made>>

\* Loading or clearing the preview raises; nobody turns that into an ExecuteError.
DiskFails(d, c) ==
    /\ Holds(d, c, "held") \/ Holds(d, c, "made")
    /\ Reply(d, c, "fault")
    /\ UNCHANGED <<staged, made>>

ClearAndAnswer(d, c) ==
    /\ Holds(d, c, "made")
    /\ staged' = [staged EXCEPT ![c] = <<>>]
    /\ Reply(d, c, "applied")
    /\ UNCHANGED made

-----------------------------------------------------------------------------
(* A caller *)

Over(out)      == [at |-> "done", attempt |-> 1, to |-> Nobody, answer |-> "none", out |-> out]
At(c, step)    == call[c].at = step
Goto(c, step)  == call' = [call EXCEPT ![c].at = step]
Finish(c, out) == call' = [call EXCEPT ![c] = Over(out)]

\* is_daemon_alive; the unlinks that follow a dead owner are a step later.
IsDaemonAlive(c) ==
    /\ At(c, "look")
    /\ IF socket = Nobody
       THEN Goto(c, "spawn")
       ELSE Goto(c, IF Alive(pid) THEN "send" ELSE "clean")
    /\ UNCHANGED <<socket, pid, life, portal, stop, inbox, staged, made>>

CleanUp(c) ==
    /\ At(c, "clean")
    /\ UnlinkBoth
    /\ Goto(c, "spawn")
    /\ UNCHANGED <<life, portal, stop, inbox, staged, made>>

StartDaemon(c) ==
    /\ At(c, "spawn")
    /\ Start(target[c])
    /\ Goto(c, "await")
    /\ UNCHANGED <<socket, pid, stop, inbox, staged, made>>

StartFails(c) ==
    /\ At(c, "spawn")
    /\ Goto(c, "local")
    /\ UNCHANGED <<socket, pid, life, portal, stop, inbox, staged, made>>

\* Any daemon that listens will do; send connects anew.
SocketAppears(c) ==
    /\ At(c, "await")
    /\ Listens(socket)
    /\ Goto(c, "send")
    /\ UNCHANGED <<socket, pid, life, portal, stop, inbox, staged, made>>

\* Seeded fault: the wait for the socket has no deadline.
WaitWithoutDeadline(c) == FALSE

Deadline(c) == At(c, "await") /\ ~Listens(socket)

NoSocketInTime(c) ==
    /\ Deadline(c)
    /\ Goto(c, "local")
    /\ UNCHANGED <<socket, pid, life, portal, stop, inbox, staged, made>>

Connect(c) ==
    /\ At(c, "send")
    /\ Listens(socket)
    /\ inbox' = [inbox EXCEPT ![socket][c] = "sent"]
    /\ call' = [call EXCEPT ![c].at = "receive", ![c].to = socket]
    /\ UNCHANGED <<socket, pid, life, portal, stop, staged, made>>

\* The first failure is answered with a new daemon, the second in-process.
Retry(c) == [call[c] EXCEPT !.at = IF call[c].attempt = 1 THEN "kill" ELSE "local",
                            !.attempt = 2, !.to = Nobody]

Unreachable(c) ==
    /\ At(c, "send")
    /\ ~Listens(socket)
    /\ call' = [call EXCEPT ![c] = Retry(c)]
    /\ UNCHANGED <<socket, pid, life, portal, stop, inbox, staged, made>>

\* Seeded fault: whatever failed after the send is tried again.
RetryAfterSend(c) == Retry(c)

\* Seeded fault: a write that was not answered is said to have failed.
FailedAfterSend(c) == IF kind[c] = "write" THEN Over("other") ELSE Retry(c)

AfterPostSend(c) ==
    IF kind[c] = "write" THEN Over("warned") ELSE Retry(c)

\* RPC_TIMEOUT, or the daemon hung up: it may have done the work, or may still.  (A
\* read that goes on for nobody changes nothing.)
NoAnswer(c) ==
    /\ At(c, "receive") /\ call[c].answer = "none"
    /\ call' = [call EXCEPT ![c] = AfterPostSend(c)]
    /\ inbox' = IF kind[c] = "read" THEN [inbox EXCEPT ![call[c].to][c] = "nothing"] ELSE inbox
    /\ UNCHANGED <<socket, pid, life, portal, stop, staged, made>>

\* What the answer is shown as.
Shown(c) == IF call[c].answer = "mismatch" THEN "other" ELSE call[c].answer

Receive(c) ==
    /\ At(c, "receive") /\ call[c].answer # "none"
    /\ IF call[c].answer = "mismatch" /\ call[c].attempt = 1
       THEN call' = [call EXCEPT ![c] = [Retry(c) EXCEPT !.answer = "none"]]
       ELSE Finish(c, Shown(c))
    /\ UNCHANGED <<socket, pid, life, portal, stop, inbox, staged, made>>

\* A daemon that has written its pid has its signal handler in place.
KillDaemon(c) ==
    /\ At(c, "kill")
    /\ Goto(c, "wait")
    /\ stop' = IF Alive(pid) THEN stop \cup {pid} ELSE stop
    /\ UNCHANGED <<socket, pid, life, portal, inbox, staged, made>>

\* It waits a second at most, then unlinks both files whoever owns them.
Killed(c) ==
    /\ At(c, "wait")
    /\ UnlinkBoth
    /\ Goto(c, "spawn")
    /\ UNCHANGED <<life, portal, stop, inbox, staged, made>>

\* The in-process command is over in one step: the same handler with a client of
\* its own, whose closing may fail too.
RunInProcess(c) ==
    /\ At(c, "local")
    /\ \/ Finish(c, "other") /\ UNCHANGED <<staged, made>>
       \/ /\ kind[c] = "write"
          /\ \/ /\ staged' = [staged EXCEPT ![c] = Append(@, target[c])]
                /\ \/ UNCHANGED made /\ \E out \in {"preview", "named", "fault"} : Finish(c, out)
                   \/ /\ made' = [made EXCEPT ![c] = @ + 1]
                      /\ \E out \in {"named", "fault"} : Finish(c, out)
             \/ /\ made' = [made EXCEPT ![c] = @ + 1]
                /\ UNCHANGED staged
                /\ \E out \in {"applied", "fault"} : Finish(c, out)
    /\ UNCHANGED <<socket, pid, life, portal, stop, inbox>>

-----------------------------------------------------------------------------
(* The operator's `hubspot serve` and `hubspot serve stop` *)

Serve ==
    /\ \E p \in Portals : Start(p)
    /\ UNCHANGED <<socket, pid, stop, inbox, call, staged, made>>

\* serve_stop carries no portal; without a live pid the command cleans up.
ServeStop ==
    /\ socket # Nobody
    /\ IF ~Alive(pid) THEN UnlinkBoth /\ UNCHANGED stop
       ELSE /\ Listens(socket)
            /\ stop' = stop \cup {socket}
            /\ UNCHANGED <<socket, pid>>
    /\ UNCHANGED <<life, portal, inbox, call, staged, made>>

-----------------------------------------------------------------------------
LifeStep(d) ==
    \/ WarmFails(d) \/ WritePid(d) \/ Bind(d) \/ BindFails(d)
    \/ IdleTimeout(d) \/ Close(d) \/ UnlinkSocket(d) \/ Exit(d)

HandleStep(d, c) ==
    \/ Refuse(d, c) \/ AnswerOther(d, c) \/ StagePreview(d, c) \/ StageAuto(d, c)
    \/ MakeChange(d, c) \/ AutoApplyFails(d, c) \/ DiskFails(d, c)
    \/ ClearAndAnswer(d, c)

CallerStep(c) ==
    \/ IsDaemonAlive(c) \/ CleanUp(c) \/ StartDaemon(c) \/ StartFails(c)
    \/ SocketAppears(c) \/ NoSocketInTime(c) \/ Connect(c) \/ Unreachable(c)
    \/ NoAnswer(c) \/ Receive(c) \/ KillDaemon(c) \/ Killed(c) \/ RunInProcess(c)

Next ==
    \/ \E d \in Daemons : LifeStep(d) \/ Crash(d)
    \/ \E d \in Daemons, c \in Callers : HandleStep(d, c)
    \/ \E c \in Callers : CallerStep(c)
    \/ Serve \/ ServeStop

Spec == Init /\ [][Next]_vars

Fairness ==
    /\ \A d \in Daemons : WF_vars(LifeStep(d))
    /\ \A c \in Callers : WF_vars(CallerStep(c))

FairSpec == Spec /\ Fairness

-----------------------------------------------------------------------------
(* Properties *)

\* However daemons die, hang up or answer late, one write call has at most one
\* preview on disk and makes its change at most once (router.py: a write is never
\* re-sent and never falls back), and the preview is under the portal its caller
\* asked for, although the socket and the daemon behind it change hands between
\* portals.
OneWritePerCall ==
    \A c \in Callers :
        /\ made[c] <= 1 /\ Len(staged[c]) <= 1
        /\ \A i \in DOMAIN staged[c] : staged[c][i] = target[c]

\* A call that is over has told what it left: a preview it shows or names is on
\* disk, a write it calls applied was made and left none, and neither is there
\* in silence.  The exceptions are told apart: "fault", an error of the disk or
\* of closing the client that happens after the store, and "warned".
WritesAreTold ==
    \A c \in Callers : At(c, "done") =>
        /\ call[c].out \in {"preview", "named"} => staged[c] # <<>>
        /\ call[c].out = "preview" => made[c] = 0
        /\ call[c].out = "applied" => made[c] = 1 /\ staged[c] = <<>>
        /\ call[c].out = "other" => made[c] = 0 /\ staged[c] = <<>>

\* The router, its retries and whatever daemons hold the socket come to what
\* StoreOnce promises, step by step: no step stores a preview or makes a change
\* for a caller who was told otherwise, or a second one, or tells a caller twice.
Call == INSTANCE StoreOnce WITH
    Calls <- Callers,
    write <- [c \in Callers |-> [stored |-> staged[c], made |-> made[c]]],
    told  <- [c \in Callers |-> call[c].out]

ImplementsStoreOnce == Call!Spec

\* Every call ends, whatever the daemons do.
CallsEnd == <>(\A c \in Callers : At(c, "done"))

\* A daemon whose socket has been taken from it does not live on for ever: it
\* hears of nobody any more, so nothing but its own watchdog ends it.
Orphaned(d) == life[d] = "serving" /\ socket # d
OrphansExit == (\E d \in Daemons : Orphaned(d)) ~> (\A d \in Daemons : ~Orphaned(d))
=============================================================================
