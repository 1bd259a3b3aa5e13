------------------------------- MODULE Client -------------------------------
(***************************************************************************)
(* HubSpotClient (client.py): the sliding window, the token refresh and    *)
(* the retries of the requests that share one client.                      *)
(*                                                                         *)
(* The tasks of one event loop interleave where the code awaits: a sleep,  *)
(* the refresh lock, the token endpoint, HubSpot's answer.  Times are kept *)
(* as ages, so that time has no end: an entry of the window is how long    *)
(* ago it was made, a sleep how much of it is left.  Of a token only       *)
(* whether HubSpot still honours it is kept.  HubSpot is external: it      *)
(* refuses a token it no longer honours and may answer anything else.      *)
(***************************************************************************)
EXTENDS Naturals, Sequences, FiniteSets

CONSTANTS
    Tasks,       \* each makes one request after another
    Reads,       \* the tasks whose requests are GET or HEAD
    Limit,       \* _RATE_LIMIT
    Window,      \* _WINDOW_SECONDS, in ticks
    RetryAfter,  \* the sleep after a 429, in ticks
    MaxExpiries, \* bound on how often HubSpot stops honouring the tokens it issued
    MaxNears,    \* bound on how often expires_at comes near
    Nobody

ASSUME ClientAssumption ==
    /\ Reads \subseteq Tasks
    /\ {Limit, Window, RetryAfter} \subseteq Nat \ {0}
    /\ {MaxExpiries, MaxNears} \subseteq Nat
    /\ Nobody \notin Tasks

VARIABLES
    oauth,    \* auth_type is "oauth" and there is a refresh token
    gathered, \* the tasks run together (asyncio.gather), not one after another
    window,   \* _request_times
    token,    \* portal.token, saved with the portal: HubSpot honours it
    header,   \* the token of the Authorization header: HubSpot honours it
    nearing,  \* expires_at is less than the buffer away
    lock,     \* who holds _token_refresh_lock
    task,     \* task -> where it is
    recent,   \* history: ages of the requests the window let through since a 429,
              \* unless the tasks are gathered
    sent,     \* history: how often each task's last request, a write, was sent
    tally     \* history: expiries, nears, the refreshes nobody forced, and those a
              \* 401 of each task forced

history == <<recent, sent, tally>>
vars    == <<oauth, gathered, window, token, header, nearing, lock, task, history>>

MaxAttempts == 3
Sleeps == {"paced", "retry"}

Task == [at : {"limit", "lock", "refreshing", "waiting", "done"} \cup Sleeps,
         attempt : 1..MaxAttempts,
         left : 0..(Window + RetryAfter), \* of a sleep
         forced : BOOLEAN,                \* a 401 made it refresh
         carries : BOOLEAN,               \* HubSpot honours the token of the request under way
         expired : BOOLEAN,               \* history: the tokens expired after its refresh
         out : {"none", "answered", "auth", "rate", "raised"}]

NoRequest == [at |-> "done", attempt |-> 1, left |-> 0, forced |-> FALSE,
              carries |-> FALSE, expired |-> FALSE, out |-> "none"]

TypeOK ==
    /\ {oauth, gathered, nearing, token, header} \subseteq BOOLEAN
    /\ window \in Seq(0..Window) /\ recent \in Seq(0..Window)
    /\ task \in [Tasks -> Task]
    /\ sent \in [Tasks \ Reads -> Nat]
    /\ tally \in [expiries : 0..MaxExpiries, nears : 0..MaxNears, unforced : Nat,
                 forced : [Tasks -> Nat]]
    \* the lock is held exactly while the token endpoint is asked
    /\ \A t \in Tasks : lock = t <=> task[t].at = "refreshing"
    /\ lock \in Tasks \cup {Nobody}

Init ==
    /\ oauth \in BOOLEAN /\ gathered \in BOOLEAN
    /\ window = <<>> /\ recent = <<>>
    /\ token = TRUE /\ header = TRUE
    /\ nearing = FALSE
    /\ lock = Nobody
    /\ task = [t \in Tasks |-> NoRequest]
    /\ sent = [t \in Tasks \ Reads |-> 0]
    /\ tally = [expiries |-> 0, nears |-> 0, unforced |-> 0, forced |-> [t \in Tasks |-> 0]]

At(t, step) == task[t].at = step
Over(t)     == At(t, "done")

\* A request that is over keeps nothing but its outcome.
Finish(t, out) ==
    task' = [task EXCEPT ![t] = [NoRequest EXCEPT !.out = out,
                                                  !.expired = task[t].expired /\ out = "auth"]]

-----------------------------------------------------------------------------
(* Time, and HubSpot's own steps *)

\* The window lists its requests in the order they were made: those that have
\* become too old are its first.
Older(ages) ==
    LET aged == [i \in DOMAIN ages |-> ages[i] + 1]
        gone == {i \in DOMAIN ages : aged[i] >= Window}
    IN  SubSeq(aged, Cardinality(gone) + 1, Len(ages))

\* An entry that has left the window is never read again.
Tick ==
    /\ window' = Older(window)
    /\ recent' = Older(recent)
    /\ task' = [t \in Tasks |-> [task[t] EXCEPT !.left = IF @ = 0 THEN 0 ELSE @ - 1]]
    /\ UNCHANGED <<oauth, gathered, token, header, nearing, lock, sent, tally>>

TokensExpire ==
    /\ tally.expiries < MaxExpiries
    /\ token' = FALSE /\ header' = FALSE
    /\ task' = [t \in Tasks |-> [task[t] EXCEPT !.carries = FALSE, !.expired = @ \/ task[t].forced]]
    /\ tally' = [tally EXCEPT !.expiries = @ + 1]
    /\ UNCHANGED <<oauth, gathered, window, nearing, lock, recent, sent>>

ExpiryNears ==
    /\ oauth /\ ~nearing
    /\ tally.nears < MaxNears
    /\ nearing' = TRUE
    /\ tally' = [tally EXCEPT !.nears = @ + 1]
    /\ UNCHANGED <<oauth, gathered, window, token, header, lock, task, recent, sent>>

-----------------------------------------------------------------------------
(* _enforce_rate_limit *)

\* The request goes out with the header of that moment.
Sends(t) == sent' = IF t \in Reads THEN sent ELSE [sent EXCEPT ![t] = @ + 1]

Dispatch(t, with) ==
    /\ task' = [task EXCEPT ![t].at = "waiting", ![t].left = 0, ![t].carries = with]
    /\ Sends(t)

\* Past the window: refresh a token that is about to expire, or send.
LetThrough(t) ==
    /\ window' = Append(window, 0)
    /\ recent' = IF gathered THEN recent ELSE Append(recent, 0)
    /\ IF oauth /\ nearing
       THEN task' = [task EXCEPT ![t].at = "lock", ![t].left = 0] /\ UNCHANGED sent
       ELSE Dispatch(t, header)

Begin(t) ==
    /\ Over(t)
    /\ gathered \/ \A u \in Tasks : Over(u)
    /\ task' = [task EXCEPT ![t] = [NoRequest EXCEPT !.at = "limit"]]
    /\ sent' = [u \in DOMAIN sent |-> IF u = t THEN 0 ELSE sent[u]]
    /\ UNCHANGED <<oauth, gathered, window, token, header, nearing, lock, recent, tally>>

\* Seeded fault: a window one request too wide.
RoomForOneMore == Len(window) <= Limit

HasRoom == Len(window) < Limit

EnforceRateLimit(t) ==
    /\ At(t, "limit")
    /\ \/ HasRoom /\ LetThrough(t)
       \/ /\ ~HasRoom
          /\ task' = [task EXCEPT ![t].at = "paced", ![t].left = Window - window[1]]
          /\ UNCHANGED <<window, recent, sent>>
    /\ UNCHANGED <<oauth, gathered, token, header, nearing, lock, tally>>

\* Whoever wakes goes through: the window is not looked at again.
WakePaced(t) ==
    /\ At(t, "paced") /\ task[t].left = 0
    /\ LetThrough(t)
    /\ UNCHANGED <<oauth, gathered, token, header, nearing, lock, tally>>

-----------------------------------------------------------------------------
(* _get_fresh_token *)

\* Another task has refreshed meanwhile; a forced refresh does not look.
Settled(t) == ~task[t].forced /\ ~nearing

AcquireLock(t) ==
    /\ At(t, "lock") /\ lock = Nobody
    /\ \/ Settled(t) /\ Dispatch(t, header) /\ UNCHANGED lock
       \/ /\ ~Settled(t)
          /\ lock' = t
          /\ task' = [task EXCEPT ![t].at = "refreshing"]
          /\ UNCHANGED sent
    /\ UNCHANGED <<oauth, gathered, window, token, header, nearing, recent, tally>>

Release == lock' = Nobody

\* Seeded fault: the client's header is left as it was.
HoldTokenOnly(new) == token' = new /\ UNCHANGED header

HoldToken(new) == token' = new /\ header' = new

\* Seeded fault: whatever was refused is sent again.
SendAgain(t, with) ==
    /\ task' = [task EXCEPT ![t].at = "waiting", ![t].carries = with,
                            ![t].expired = FALSE]
    /\ Sends(t)

\* A read whose 401 forced the refresh is sent again; a write has failed.
AfterRefresh(t, with) ==
    IF task[t].forced /\ t \notin Reads
    THEN Finish(t, "auth") /\ UNCHANGED sent
    ELSE /\ task' = [task EXCEPT ![t].at = "waiting", ![t].carries = with,
                                 ![t].expired = FALSE]
         /\ Sends(t)

Refreshed(t) ==
    /\ At(t, "refreshing")
    /\ HoldToken(TRUE)
    /\ nearing' = FALSE
    /\ Release
    /\ tally' = IF task[t].forced THEN [tally EXCEPT !.forced[t] = @ + 1]
                                  ELSE [tally EXCEPT !.unforced = @ + 1]
    /\ AfterRefresh(t, header')
    /\ UNCHANGED <<oauth, gathered, window, recent>>

RefreshFails(t) ==
    /\ At(t, "refreshing")
    /\ Release
    /\ Finish(t, "raised")
    /\ UNCHANGED <<oauth, gathered, window, token, header, nearing, history>>

-----------------------------------------------------------------------------
(* _request: what the answer leads to *)

\* The first 401 of an attempt; the second is final.
Refused(t) ==
    /\ At(t, "waiting") /\ ~task[t].carries
    /\ IF task[t].forced THEN Finish(t, "auth") /\ UNCHANGED sent
       ELSE IF oauth
            THEN task' = [task EXCEPT ![t].at = "lock", ![t].forced = TRUE] /\ UNCHANGED sent
            ELSE IF t \in Reads \* the token cannot be refreshed: the same one again
                 THEN /\ task' = [task EXCEPT ![t].forced = TRUE, ![t].carries = header]
                      /\ Sends(t)
                 ELSE Finish(t, "auth") /\ UNCHANGED sent
    /\ UNCHANGED <<oauth, gathered, window, token, header, nearing, lock, recent, tally>>

\* Seeded fault: a read is tried for as long as HubSpot says 429.
TriesForEver(t) == t \in Reads

TriesAgain(t) == t \in Reads /\ task[t].attempt < MaxAttempts

Throttled(t) ==
    /\ At(t, "waiting") /\ task[t].carries
    /\ \/ /\ TriesAgain(t)
          /\ window' = <<>> /\ recent' = <<>>
          /\ task' = [task EXCEPT ![t].at = "retry", ![t].left = RetryAfter, ![t].forced = FALSE,
                                  ![t].attempt = IF @ < MaxAttempts THEN @ + 1 ELSE @]
       \/ /\ ~TriesAgain(t)
          /\ Finish(t, "rate")
          /\ UNCHANGED <<window, recent>>
    /\ UNCHANGED <<oauth, gathered, token, header, nearing, lock, sent, tally>>

WakeRetry(t) ==
    /\ At(t, "retry") /\ task[t].left = 0
    /\ task' = [task EXCEPT ![t].at = "limit"]
    /\ UNCHANGED <<oauth, gathered, window, token, header, nearing, lock, history>>

Answered(t) ==
    /\ At(t, "waiting") /\ task[t].carries
    /\ Finish(t, "answered")
    /\ UNCHANGED <<oauth, gathered, window, token, header, nearing, lock, history>>

\* httpx raises: no answer within 30 s, or no connection.
Lost(t) ==
    /\ At(t, "waiting")
    /\ Finish(t, "raised")
    /\ UNCHANGED <<oauth, gathered, window, token, header, nearing, lock, history>>

-----------------------------------------------------------------------------
Step(t) ==
    \/ EnforceRateLimit(t) \/ WakePaced(t) \/ AcquireLock(t)
    \/ Refreshed(t) \/ RefreshFails(t) \/ Refused(t) \/ Throttled(t) \/ WakeRetry(t)
    \/ Answered(t) \/ Lost(t)

Next == Tick \/ TokensExpire \/ ExpiryNears \/ \E t \in Tasks : Begin(t) \/ Step(t)

Spec == Init /\ [][Next]_vars

\* asyncio.Lock wakes its waiters in order: strong fairness on taking it.
Fairness ==
    /\ WF_vars(Tick)
    /\ \A t \in Tasks : WF_vars(Step(t)) /\ SF_vars(AcquireLock(t))

FairSpec == Spec /\ Fairness

-----------------------------------------------------------------------------
(* Properties *)

\* A write leaves the client once, whatever HubSpot answers and whichever
\* refresh it waits for (client.py: only reads are sent again).
WriteSentOnce == \A t \in Tasks \ Reads : sent[t] <= 1

\* A read gives up for its token only if the tokens expired after the refresh
\* its 401 forced: however refreshes interleave, it carries the newest one.
ReadsSurviveExpiry ==
    \A t \in Reads : oauth /\ task[t].out = "auth" => task[t].expired

\* Requests that find the token about to expire refresh it once between them
\* (the second look under the lock).  A 401 forces a refresh without that look
\* (client.py:120, 132), so tasks that are refused together each make one, all but
\* the first in vain; but a task makes one at most for each time the tokens expired.
RefreshesAreBounded ==
    /\ tally.unforced <= tally.nears
    /\ \A t \in Tasks : tally.forced[t] <= tally.expiries

\* There are refreshes enough, and no more of them than tokens expired and tasks met.
RefreshesSuffice == ReadsSurviveExpiry /\ RefreshesAreBounded

\* Requests made one after another never exceed the limit within a window,
\* since HubSpot last said 429 and the window was cleared.
WithinLimit == Len(recent) <= Limit

\* Every request ends, even if HubSpot answers 429 for ever.
RequestsEnd == \A t \in Tasks : At(t, "limit") ~> Over(t)
=============================================================================
