--------------------------- MODULE Client_proofs ---------------------------
(***************************************************************************)
(* Proofs about Client for any number of tasks, any limit and window, and  *)
(* any number of expiries: what a request may send, what a refresh is      *)
(* worth to those that wait for it, and how many requests a window lets    *)
(* through.                                                                *)
(***************************************************************************)
EXTENDS Client, FiniteSetTheorems, TLAPS

\* Every task has its fields, and the counters are numbers.
Shape ==
    /\ DOMAIN task = Tasks
    /\ \A t \in Tasks : DOMAIN task[t] = DOMAIN NoRequest /\ task[t].forced \in BOOLEAN
    /\ sent \in [Tasks \ Reads -> Nat]
    /\ DOMAIN tally = {"expiries", "nears", "unforced", "forced"}
    /\ tally.nears \in Nat /\ tally.unforced \in Nat

\* Where the request of a task is tells whether it has been refused.
PhaseInv(t) ==
    /\ At(t, "limit") \/ At(t, "paced") \/ At(t, "retry") => ~task[t].forced
    /\ task[t].out # "none" => Over(t)

\* A write has not been sent before it is past the window and the refresh.
SendInv(t) ==
    /\ sent[t] <= 1
    /\ At(t, "limit") \/ At(t, "paced") => sent[t] = 0
    /\ At(t, "lock") \/ At(t, "refreshing") => task[t].forced \/ sent[t] = 0
    /\ ~At(t, "retry")

\* After the refresh it forced, a read carries a token HubSpot honours until the
\* tokens expire again.
ReadInv(t) ==
    oauth =>
        /\ task[t].out = "auth" => task[t].expired
        /\ At(t, "waiting") /\ task[t].forced => task[t].carries \/ task[t].expired

\* Whoever refreshes holds the lock, and has a reason to.
LockInv(t) ==
    /\ At(t, "refreshing") => lock = t
    /\ At(t, "refreshing") => task[t].forced \/ nearing

\* A refresh nobody forced uses up one coming expiry.
RefreshInv == tally.unforced + (IF nearing THEN 1 ELSE 0) <= tally.nears

ClientInv ==
    /\ Shape
    /\ \A t \in Tasks : PhaseInv(t) /\ LockInv(t)
    /\ \A t \in Tasks \ Reads : SendInv(t)
    /\ \A t \in Reads : ReadInv(t)
    /\ RefreshInv

-----------------------------------------------------------------------------
USE DEF At, Over

LEMMA ClientInit == ASSUME Init PROVE ClientInv
  <1>1. Shape
    BY DEF Init, Shape, NoRequest
  <1>2. \A t \in Tasks : PhaseInv(t) /\ LockInv(t)
    BY DEF Init, PhaseInv, LockInv, NoRequest
  <1>3. \A t \in Tasks \ Reads : SendInv(t)
    BY DEF Init, SendInv, NoRequest
  <1>4. \A t \in Reads : ReadInv(t)
    BY ClientAssumption DEF Init, ReadInv, NoRequest
  <1>5. QED
    BY <1>1, <1>2, <1>3, <1>4 DEF Init, ClientInv, RefreshInv

\* A step of one task keeps the invariant if what it leaves behind fits.
LEMMA OneTask ==
  ASSUME NEW t \in Tasks, ClientInv,
         DOMAIN task' = Tasks, \A u \in Tasks : u # t => task'[u] = task[u],
         DOMAIN task'[t] = DOMAIN NoRequest, task'[t].forced \in BOOLEAN,
         sent' \in [Tasks \ Reads -> Nat], \A u \in Tasks \ Reads : u # t => sent'[u] = sent[u],
         oauth' = oauth,
         DOMAIN tally' = {"expiries", "nears", "unforced", "forced"},
         tally'.nears \in Nat, tally'.unforced \in Nat, RefreshInv',
         PhaseInv(t)', \A u \in Tasks : LockInv(u)',
         t \notin Reads => SendInv(t)', t \in Reads => ReadInv(t)'
  PROVE  ClientInv'
  <1>1. Shape'
    BY DEF ClientInv, Shape, NoRequest
  <1>2. \A u \in Tasks : PhaseInv(u)'
    BY DEF ClientInv, PhaseInv
  <1>3. \A u \in Tasks \ Reads : SendInv(u)'
    BY DEF ClientInv, SendInv
  <1>4. \A u \in Reads : ReadInv(u)'
    BY ClientAssumption DEF ClientInv, ReadInv
  <1>5. QED
    BY <1>1, <1>2, <1>3, <1>4 DEF ClientInv

\* The same, of a step that leaves lock and counters alone and does not end in
\* the refresh.
LEMMA OneTaskOnly ==
  ASSUME NEW t \in Tasks, ClientInv,
         NEW new, task' = [task EXCEPT ![t] = new],
         DOMAIN new = DOMAIN NoRequest, new.forced \in BOOLEAN,
         sent' \in [Tasks \ Reads -> Nat], \A u \in Tasks \ Reads : u # t => sent'[u] = sent[u],
         UNCHANGED <<oauth, tally, nearing, lock>>,
         new.at # "refreshing",
         PhaseInv(t)', t \notin Reads => SendInv(t)', t \in Reads => ReadInv(t)'
  PROVE  ClientInv'
  <1>1. DOMAIN task' = Tasks /\ task'[t] = new /\ \A u \in Tasks : u # t => task'[u] = task[u]
    BY DEF ClientInv, Shape
  <1>2. \A u \in Tasks : LockInv(u)'
    BY <1>1 DEF ClientInv, LockInv
  <1>3. RefreshInv' /\ DOMAIN tally' = {"expiries", "nears", "unforced", "forced"}
        /\ tally'.nears \in Nat /\ tally'.unforced \in Nat
    BY DEF ClientInv, Shape, RefreshInv
  <1>4. QED
    BY <1>1, <1>2, <1>3, OneTask

LEMMA SendsOnce ==
  ASSUME NEW t \in Tasks, ClientInv, Sends(t)
  PROVE  /\ sent' \in [Tasks \ Reads -> Nat]
         /\ \A u \in Tasks \ Reads : u # t => sent'[u] = sent[u]
         /\ t \notin Reads => sent'[t] = sent[t] + 1
  BY DEF ClientInv, Shape, Sends

LEMMA TickKeeps ==
  ASSUME ClientInv, Tick PROVE ClientInv'
  BY ClientAssumption
  DEF ClientInv, Shape, PhaseInv, LockInv, SendInv, ReadInv, RefreshInv, NoRequest, Tick

LEMMA TokensExpireKeeps ==
  ASSUME ClientInv, TokensExpire PROVE ClientInv'
  <1>1. Shape'
    BY DEF ClientInv, Shape, NoRequest, TokensExpire
  <1>2. \A u \in Tasks : PhaseInv(u)' /\ LockInv(u)'
    BY DEF ClientInv, Shape, PhaseInv, LockInv, NoRequest, TokensExpire
  <1>3. \A u \in Tasks \ Reads : SendInv(u)'
    BY DEF ClientInv, Shape, SendInv, NoRequest, TokensExpire
  <1>4. \A u \in Reads : ReadInv(u)'
    BY ClientAssumption DEF ClientInv, Shape, ReadInv, NoRequest, TokensExpire
  <1>5. RefreshInv'
    BY DEF ClientInv, Shape, RefreshInv, TokensExpire
  <1>6. QED
    BY <1>1, <1>2, <1>3, <1>4, <1>5 DEF ClientInv

LEMMA ExpiryNearsKeeps ==
  ASSUME ClientInv, ExpiryNears PROVE ClientInv'
  BY ClientAssumption
  DEF ClientInv, Shape, PhaseInv, LockInv, SendInv, ReadInv, RefreshInv, NoRequest, ExpiryNears

LEMMA FinishKeeps ==
  ASSUME NEW t \in Tasks, ClientInv, NEW out, Finish(t, out),
         t \in Reads /\ oauth /\ out = "auth" => task[t].expired,
         sent' \in [Tasks \ Reads -> Nat], \A u \in Tasks \ Reads : sent'[u] = sent[u],
         oauth' = oauth,
         DOMAIN tally' = {"expiries", "nears", "unforced", "forced"},
         tally'.nears \in Nat, tally'.unforced \in Nat, RefreshInv',
         \A u \in Tasks : u # t => LockInv(u)'
  PROVE  ClientInv'
  <1> DEFINE new == [NoRequest EXCEPT !.out = out, !.expired = task[t].expired /\ out = "auth"]
  <1>1. /\ DOMAIN task' = Tasks /\ task'[t] = new
        /\ \A u \in Tasks : u # t => task'[u] = task[u]
    BY DEF ClientInv, Shape, Finish
  <1>2. /\ DOMAIN new = DOMAIN NoRequest /\ new.forced = FALSE /\ new.at = "done"
        /\ new.out = out /\ new.expired = (task[t].expired /\ out = "auth")
    BY DEF NoRequest
  <1>3. PhaseInv(t)' /\ LockInv(t)'
    BY <1>1, <1>2 DEF PhaseInv, LockInv
  <1>4. t \notin Reads => SendInv(t)'
    BY <1>1, <1>2 DEF ClientInv, SendInv
  <1>5. t \in Reads => ReadInv(t)'
    BY <1>1, <1>2 DEF ReadInv
  <1>6. \A u \in Tasks : LockInv(u)'
    BY <1>3
  <1> HIDE DEF new
  <1>7. QED
    BY <1>1, <1>2, <1>3, <1>4, <1>5, <1>6, OneTask

\* The same, of an end that only concerns its task.
LEMMA EndKeeps ==
  ASSUME NEW t \in Tasks, ClientInv, NEW out, Finish(t, out),
         t \in Reads /\ oauth /\ out = "auth" => task[t].expired,
         UNCHANGED <<oauth, nearing, lock, sent, tally>>
  PROVE  ClientInv'
  <1>1. \A u \in Tasks : u # t => LockInv(u)'
    BY DEF ClientInv, Shape, LockInv, Finish
  <1>2. /\ RefreshInv' /\ DOMAIN tally' = {"expiries", "nears", "unforced", "forced"}
        /\ tally'.nears \in Nat /\ tally'.unforced \in Nat
        /\ sent' \in [Tasks \ Reads -> Nat] /\ \A u \in Tasks \ Reads : sent'[u] = sent[u]
    BY DEF ClientInv, Shape, RefreshInv
  <1>3. QED
    BY <1>1, <1>2, FinishKeeps

LEMMA DispatchKeeps ==
  ASSUME NEW t \in Tasks, ClientInv, NEW with, Dispatch(t, with), ~task[t].forced,
         t \notin Reads => sent[t] = 0, task[t].out = "none",
         UNCHANGED <<oauth, tally, nearing, lock>>
  PROVE  ClientInv'
  <1> DEFINE new == [task[t] EXCEPT !.at = "waiting", !.left = 0, !.carries = with]
  <1>1. task' = [task EXCEPT ![t] = new]
    BY DEF Dispatch
  <1>2. DOMAIN new = DOMAIN NoRequest /\ new.forced = FALSE /\ new.at = "waiting"
        /\ new.out = "none"
    BY DEF ClientInv, Shape, NoRequest
  <1>3. task'[t] = new
    BY <1>1 DEF ClientInv, Shape
  <1>4. Sends(t)
    BY DEF Dispatch
  <1>5. PhaseInv(t)'
    BY <1>2, <1>3 DEF PhaseInv
  <1>6. t \notin Reads => SendInv(t)'
    BY <1>2, <1>3, <1>4, SendsOnce DEF SendInv
  <1>7. t \in Reads => ReadInv(t)'
    BY <1>2, <1>3 DEF ReadInv
  <1>8. QED
    BY <1>1, <1>2, <1>4, <1>5, <1>6, <1>7, SendsOnce, OneTaskOnly

\* Past the window, a request that was never refused goes out or waits.
LEMMA LetThroughKeeps ==
  ASSUME NEW t \in Tasks, ClientInv, LetThrough(t), At(t, "limit") \/ At(t, "paced"),
         UNCHANGED <<oauth, tally, nearing, lock>>
  PROVE  ClientInv'
  <1>1. ~task[t].forced /\ task[t].out = "none" /\ (t \notin Reads => sent[t] = 0)
    BY DEF ClientInv, PhaseInv, SendInv
  <1>2. CASE oauth /\ nearing
    <2> DEFINE new == [task[t] EXCEPT !.at = "lock", !.left = 0]
    <2>1. task' = [task EXCEPT ![t] = new] /\ sent' = sent
      BY <1>2 DEF LetThrough
    <2>2. /\ DOMAIN new = DOMAIN NoRequest /\ new.forced = FALSE /\ new.at = "lock"
          /\ new.out = "none" /\ task'[t] = new
      BY <1>1, <2>1 DEF ClientInv, Shape, NoRequest
    <2>3. PhaseInv(t)' /\ (t \notin Reads => SendInv(t)') /\ (t \in Reads => ReadInv(t)')
      BY <1>1, <2>1, <2>2 DEF PhaseInv, SendInv, ReadInv
    <2>4. sent \in [Tasks \ Reads -> Nat]
      BY DEF ClientInv, Shape
    <2> HIDE DEF new
    <2>5. QED
      BY <2>1, <2>2, <2>3, <2>4, OneTaskOnly
  <1>3. CASE ~(oauth /\ nearing)
    BY <1>1, <1>3, DispatchKeeps DEF LetThrough
  <1>4. QED
    BY <1>2, <1>3

LEMMA EnforceRateLimitKeeps ==
  ASSUME NEW t \in Tasks, ClientInv, EnforceRateLimit(t) PROVE ClientInv'
  <1>1. CASE LetThrough(t)
    BY <1>1, LetThroughKeeps DEF EnforceRateLimit
  <1>2. CASE ~LetThrough(t)
    <2> DEFINE new == [task[t] EXCEPT !.at = "paced", !.left = Window - window[1]]
    <2>1. task' = [task EXCEPT ![t] = new] /\ UNCHANGED <<oauth, nearing, lock, sent, tally>>
      BY <1>2 DEF EnforceRateLimit
    <2>2. ~task[t].forced /\ task[t].out = "none" /\ (t \notin Reads => sent[t] = 0)
      BY DEF EnforceRateLimit, ClientInv, PhaseInv, SendInv
    <2>3. /\ DOMAIN new = DOMAIN NoRequest /\ new.forced = FALSE /\ new.at = "paced"
          /\ new.out = "none" /\ task'[t] = new
      BY <2>1, <2>2 DEF ClientInv, Shape, NoRequest
    <2> HIDE DEF new
    <2>4. PhaseInv(t)' /\ (t \notin Reads => SendInv(t)') /\ (t \in Reads => ReadInv(t)')
      BY <2>1, <2>2, <2>3 DEF PhaseInv, SendInv, ReadInv
    <2>5. sent \in [Tasks \ Reads -> Nat]
      BY DEF ClientInv, Shape
    <2>6. QED
      BY <2>1, <2>3, <2>4, <2>5, OneTaskOnly
  <1>3. QED
    BY <1>1, <1>2

LEMMA WakePacedKeeps ==
  ASSUME NEW t \in Tasks, ClientInv, WakePaced(t) PROVE ClientInv'
  BY LetThroughKeeps DEF WakePaced

LEMMA BeginKeeps ==
  ASSUME NEW t \in Tasks, ClientInv, Begin(t) PROVE ClientInv'
  <1> DEFINE new == [NoRequest EXCEPT !.at = "limit"]
  <1>1. task' = [task EXCEPT ![t] = new] /\ UNCHANGED <<oauth, nearing, lock, tally>>
    BY DEF Begin
  <1>2. /\ DOMAIN new = DOMAIN NoRequest /\ new.forced = FALSE /\ new.at = "limit"
        /\ new.out = "none" /\ task'[t] = new
    BY <1>1 DEF ClientInv, Shape, NoRequest
  <1>3. /\ sent' \in [Tasks \ Reads -> Nat]
        /\ \A u \in Tasks \ Reads : u # t => sent'[u] = sent[u]
        /\ t \notin Reads => sent'[t] = 0
    BY DEF Begin, ClientInv, Shape
  <1>4. PhaseInv(t)' /\ (t \notin Reads => SendInv(t)') /\ (t \in Reads => ReadInv(t)')
    BY <1>2, <1>3 DEF PhaseInv, SendInv, ReadInv
  <1> HIDE DEF new
  <1>5. QED
    BY <1>1, <1>2, <1>3, <1>4, OneTaskOnly

\* A second look finds the token fresh, or the task goes and refreshes it.
LEMMA AcquireLockKeeps ==
  ASSUME NEW t \in Tasks, ClientInv, AcquireLock(t) PROVE ClientInv'
  <1>1. task[t].out = "none" /\ (t \notin Reads => task[t].forced \/ sent[t] = 0)
    BY DEF AcquireLock, ClientInv, PhaseInv, SendInv
  <1>2. CASE Settled(t)
    <2>1. Dispatch(t, header) /\ UNCHANGED <<oauth, tally, nearing, lock>> /\ ~task[t].forced
      BY <1>2 DEF AcquireLock, Settled
    <2>2. QED
      BY <1>1, <2>1, DispatchKeeps
  <1>3. CASE ~Settled(t)
    <2> DEFINE new == [task[t] EXCEPT !.at = "refreshing"]
    <2>1. /\ task' = [task EXCEPT ![t] = new] /\ UNCHANGED <<oauth, nearing, sent, tally>>
          /\ lock' = t /\ lock = Nobody
      BY <1>3 DEF AcquireLock
    <2>2. /\ DOMAIN task' = Tasks /\ task'[t] = new /\ \A u \in Tasks : u # t => task'[u] = task[u]
      BY <2>1 DEF ClientInv, Shape
    <2>3. /\ DOMAIN new = DOMAIN NoRequest /\ new.forced = task[t].forced /\ new.at = "refreshing"
          /\ new.out = "none" /\ task[t].forced \in BOOLEAN
      BY <1>1 DEF ClientInv, Shape, NoRequest
    <2>4. PhaseInv(t)' /\ (t \notin Reads => SendInv(t)') /\ (t \in Reads => ReadInv(t)')
      BY <1>1, <2>1, <2>2, <2>3 DEF ClientInv, PhaseInv, SendInv, ReadInv
    <2>5. \A u \in Tasks : LockInv(u)'
      BY <1>3, <2>1, <2>2, <2>3, ClientAssumption DEF ClientInv, LockInv, Settled
    <2>6. /\ RefreshInv' /\ DOMAIN tally' = {"expiries", "nears", "unforced", "forced"}
          /\ tally'.nears \in Nat /\ tally'.unforced \in Nat /\ sent \in [Tasks \ Reads -> Nat]
      BY <2>1 DEF ClientInv, Shape, RefreshInv
    <2> HIDE DEF new
    <2>7. QED
      BY <2>1, <2>2, <2>3, <2>4, <2>5, <2>6, OneTask
  <1>4. QED
    BY <1>2, <1>3

\* The others do not refresh: the lock is the task's, and free again.
LEMMA RefreshedKeeps ==
  ASSUME NEW t \in Tasks, ClientInv, Refreshed(t) PROVE ClientInv'
  <1>1. /\ lock = t /\ lock' = Nobody /\ nearing' = FALSE /\ oauth' = oauth /\ header' = TRUE
        /\ task[t].forced \in BOOLEAN /\ (task[t].forced \/ nearing) /\ task[t].out = "none"
    BY DEF Refreshed, Release, HoldToken, ClientInv, LockInv, PhaseInv, Shape
  <1>2. /\ DOMAIN tally' = {"expiries", "nears", "unforced", "forced"} /\ tally'.nears = tally.nears
        /\ tally'.unforced = IF task[t].forced THEN tally.unforced ELSE tally.unforced + 1
        /\ tally.nears \in Nat /\ tally.unforced \in Nat
    BY DEF Refreshed, ClientInv, Shape
  <1>3. tally'.nears \in Nat /\ tally'.unforced \in Nat /\ RefreshInv'
    BY <1>1, <1>2 DEF ClientInv, RefreshInv
  <1>4. CASE task[t].forced /\ t \notin Reads
    <2>1. Finish(t, "auth") /\ sent' = sent
      BY <1>4 DEF Refreshed, AfterRefresh
    <2>2. \A u \in Tasks : u # t => LockInv(u)'
      BY <1>1, <2>1 DEF ClientInv, Shape, LockInv, Finish
    <2>3. sent \in [Tasks \ Reads -> Nat]
      BY DEF ClientInv, Shape
    <2>4. QED
      BY <1>1, <1>2, <1>3, <1>4, <2>1, <2>2, <2>3, FinishKeeps
  <1>5. CASE ~(task[t].forced /\ t \notin Reads)
    <2> DEFINE new == [task[t] EXCEPT !.at = "waiting", !.carries = header', !.expired = FALSE]
    <2>1. task' = [task EXCEPT ![t] = new] /\ Sends(t)
      BY <1>5 DEF Refreshed, AfterRefresh
    <2>2. /\ DOMAIN task' = Tasks /\ task'[t] = new /\ \A u \in Tasks : u # t => task'[u] = task[u]
      BY <2>1 DEF ClientInv, Shape
    <2>3. /\ DOMAIN new = DOMAIN NoRequest /\ new.forced = task[t].forced /\ new.at = "waiting"
          /\ new.out = "none" /\ new.carries = TRUE
      BY <1>1 DEF ClientInv, Shape, NoRequest
    <2>4. t \notin Reads => sent[t] = 0
      BY <1>5 DEF Refreshed, ClientInv, SendInv
    <2>5. PhaseInv(t)' /\ (t \in Reads => ReadInv(t)')
      BY <2>2, <2>3 DEF PhaseInv, ReadInv
    <2>6. t \notin Reads => SendInv(t)'
      BY <1>5, <2>1, <2>2, <2>3, <2>4, SendsOnce DEF SendInv
    <2>7. \A u \in Tasks : LockInv(u)'
      BY ZenonT(40), <1>1, <2>2, <2>3 DEF ClientInv, LockInv
    <2> HIDE DEF new
    <2>8. QED
      BY <1>1, <1>2, <1>3, <2>1, <2>2, <2>3, <2>5, <2>6, <2>7, SendsOnce, OneTask
  <1>6. QED
    BY <1>4, <1>5

LEMMA RefreshFailsKeeps ==
  ASSUME NEW t \in Tasks, ClientInv, RefreshFails(t) PROVE ClientInv'
  <1>1. lock = t /\ Finish(t, "raised") /\ UNCHANGED <<oauth, nearing, sent, tally>>
    BY DEF RefreshFails, Release, history, ClientInv, LockInv
  <1>2. \A u \in Tasks : u # t => LockInv(u)'
    BY <1>1 DEF ClientInv, Shape, LockInv, Finish
  <1>3. /\ RefreshInv' /\ DOMAIN tally' = {"expiries", "nears", "unforced", "forced"}
        /\ tally'.nears \in Nat /\ tally'.unforced \in Nat
        /\ sent' \in [Tasks \ Reads -> Nat] /\ \A u \in Tasks \ Reads : sent'[u] = sent[u]
    BY <1>1 DEF ClientInv, Shape, RefreshInv
  <1>4. QED
    BY <1>1, <1>2, <1>3, FinishKeeps

\* The first 401 of a request leads to the refresh, the second is its end.
LEMMA RefusedKeeps ==
  ASSUME NEW t \in Tasks, ClientInv, Refused(t) PROVE ClientInv'
  <1>0. /\ UNCHANGED <<oauth, nearing, lock, tally>> /\ task[t].forced \in BOOLEAN
        /\ At(t, "waiting") /\ ~task[t].carries /\ task[t].out = "none"
        /\ sent \in [Tasks \ Reads -> Nat]
    BY DEF Refused, ClientInv, Shape, PhaseInv
  <1>1. CASE task[t].forced
    <2>1. t \in Reads /\ oauth => task[t].expired
      BY <1>0, <1>1 DEF ClientInv, ReadInv
    <2>2. QED
      BY <1>0, <1>1, <2>1, EndKeeps DEF Refused
  <1>2. CASE ~task[t].forced /\ oauth
    <2> DEFINE new == [task[t] EXCEPT !.at = "lock", !.forced = TRUE]
    <2>1. task' = [task EXCEPT ![t] = new] /\ sent' = sent
      BY <1>2 DEF Refused
    <2>2. /\ DOMAIN new = DOMAIN NoRequest /\ new.forced = TRUE /\ new.at = "lock"
          /\ new.out = "none" /\ task'[t] = new
      BY <1>0, <2>1 DEF ClientInv, Shape, NoRequest
    <2>3. PhaseInv(t)' /\ (t \in Reads => ReadInv(t)')
      BY <2>2 DEF PhaseInv, ReadInv
    <2>4. t \notin Reads => SendInv(t)'
      BY <2>1, <2>2 DEF ClientInv, SendInv
    <2> HIDE DEF new
    <2>5. QED
      BY <1>0, <2>1, <2>2, <2>3, <2>4, OneTaskOnly
  <1>3. CASE ~task[t].forced /\ ~oauth /\ t \in Reads
    <2> DEFINE new == [task[t] EXCEPT !.forced = TRUE, !.carries = header]
    <2>1. task' = [task EXCEPT ![t] = new] /\ Sends(t)
      BY <1>3 DEF Refused
    <2>2. /\ DOMAIN new = DOMAIN NoRequest /\ new.forced = TRUE /\ new.at = "waiting"
          /\ new.out = "none" /\ task'[t] = new
      BY <1>0, <2>1 DEF ClientInv, Shape, NoRequest
    <2>3. PhaseInv(t)' /\ ReadInv(t)'
      BY <1>0, <1>3, <2>2 DEF PhaseInv, ReadInv
    <2> HIDE DEF new
    <2>4. QED
      BY <1>0, <1>3, <2>1, <2>2, <2>3, SendsOnce, OneTaskOnly
  <1>4. CASE ~task[t].forced /\ ~oauth /\ t \notin Reads
    BY <1>0, <1>4, EndKeeps DEF Refused
  <1>5. QED
    BY <1>0, <1>1, <1>2, <1>3, <1>4

LEMMA ThrottledKeeps ==
  ASSUME NEW t \in Tasks, ClientInv, Throttled(t) PROVE ClientInv'
  <1>0. UNCHANGED <<oauth, nearing, lock, sent, tally>> /\ At(t, "waiting")
    BY DEF Throttled
  <1>1. CASE TriesAgain(t)
    <2> DEFINE attempt == IF task[t].attempt < MaxAttempts THEN task[t].attempt + 1
                          ELSE task[t].attempt
               new == [task[t] EXCEPT !.at = "retry", !.left = RetryAfter, !.forced = FALSE,
                                      !.attempt = attempt]
    <2>1. task' = [task EXCEPT ![t] = new] /\ t \in Reads
      BY <1>1 DEF Throttled, TriesAgain
    <2>2. task[t].out = "none" /\ sent \in [Tasks \ Reads -> Nat]
      BY <1>0 DEF ClientInv, Shape, PhaseInv
    <2>3. /\ DOMAIN new = DOMAIN NoRequest /\ new.forced = FALSE /\ new.at = "retry"
          /\ new.out = "none" /\ task'[t] = new
      BY <2>1, <2>2 DEF ClientInv, Shape, NoRequest
    <2>4. PhaseInv(t)' /\ ReadInv(t)'
      BY <2>3 DEF PhaseInv, ReadInv
    <2> HIDE DEF new
    <2>5. QED
      BY <1>0, <2>1, <2>2, <2>3, <2>4, OneTaskOnly
  <1>2. CASE ~TriesAgain(t)
    BY <1>0, <1>2, EndKeeps DEF Throttled
  <1>3. QED
    BY <1>1, <1>2

LEMMA WakeRetryKeeps ==
  ASSUME NEW t \in Tasks, ClientInv, WakeRetry(t) PROVE ClientInv'
  <1> DEFINE new == [task[t] EXCEPT !.at = "limit"]
  <1>1. task' = [task EXCEPT ![t] = new] /\ UNCHANGED <<oauth, nearing, lock, sent, tally>>
    BY DEF WakeRetry, history
  <1>2. /\ task[t].out = "none" /\ ~task[t].forced /\ t \in Reads
        /\ sent \in [Tasks \ Reads -> Nat]
    BY DEF WakeRetry, ClientInv, Shape, PhaseInv, SendInv
  <1>3. /\ DOMAIN new = DOMAIN NoRequest /\ new.forced = FALSE /\ new.at = "limit"
        /\ new.out = "none" /\ task'[t] = new
    BY <1>1, <1>2 DEF ClientInv, Shape, NoRequest
  <1>4. PhaseInv(t)' /\ ReadInv(t)'
    BY <1>3 DEF PhaseInv, ReadInv
  <1> HIDE DEF new
  <1>5. QED
    BY <1>1, <1>2, <1>3, <1>4, OneTaskOnly

LEMMA AnsweredKeeps ==
  ASSUME NEW t \in Tasks, ClientInv, Answered(t) \/ Lost(t) PROVE ClientInv'
  <1>1. UNCHANGED <<oauth, nearing, lock, sent, tally>>
    BY DEF Answered, Lost, history
  <1>2. QED
    BY <1>1, EndKeeps DEF Answered, Lost

LEMMA StepKeeps ==
  ASSUME ClientInv, [Next]_vars PROVE ClientInv'
  <1>1. CASE UNCHANGED vars
    BY <1>1 DEF vars, history, ClientInv, Shape, PhaseInv, LockInv, SendInv, ReadInv, RefreshInv
  <1>2. ASSUME NEW t \in Tasks, Begin(t) \/ Step(t) PROVE ClientInv'
    BY <1>2, BeginKeeps, EnforceRateLimitKeeps, WakePacedKeeps, AcquireLockKeeps,
       RefreshedKeeps, RefreshFailsKeeps, RefusedKeeps, ThrottledKeeps, WakeRetryKeeps,
       AnsweredKeeps
    DEF Step
  <1>3. QED
    BY <1>1, <1>2, TickKeeps, TokensExpireKeeps, ExpiryNearsKeeps DEF Next

\* What is true of the requests of one process whatever they do: the holder of the
\* refresh lock, what each has sent, and how old the token is that each goes with.
THEOREM ClientInvariant == Spec => []ClientInv
  BY ClientInit, StepKeeps, PTL DEF Spec

\* For any number of tasks, any limit and any answers, a write leaves the client
\* at most once.
THEOREM WriteNeverRepeated == Spec => []WriteSentOnce
  <1>1. ClientInv => WriteSentOnce
    BY DEF ClientInv, SendInv, WriteSentOnce
  <1>2. QED
    BY <1>1, ClientInvariant, PTL

-----------------------------------------------------------------------------
(* The refreshes that are forced *)

\* HubSpot no longer honours what the task goes with, or will go with next, and it
\* has not forced a refresh since.
Owes(t) ==
    \/ ~header
    \/ At(t, "waiting") /\ ~task[t].carries
    \/ (At(t, "lock") \/ At(t, "refreshing")) /\ task[t].forced

\* Every refresh a task forces uses up an expiry of the tokens.
ForcedInv ==
    /\ tally.expiries \in Nat
    /\ tally.forced \in [Tasks -> Nat]
    /\ \A t \in Tasks : tally.forced[t] + (IF Owes(t) THEN 1 ELSE 0) <= tally.expiries

LEMMA ForcedInit == ASSUME Init PROVE ForcedInv
  BY DEF Init, ForcedInv, Owes, NoRequest

\* A step that refreshes nothing keeps the invariant if nobody owes more after it.
LEMMA OwesNoMore ==
  ASSUME ForcedInv, tally'.expiries = tally.expiries, tally'.forced = tally.forced,
         \A t \in Tasks : Owes(t)' => Owes(t)
  PROVE  ForcedInv'
  BY DEF ForcedInv

\* A step of one task that leaves the header alone owes nothing the task does not.
LEMMA OwnStep ==
  ASSUME ClientInv, ForcedInv, NEW t \in Tasks, UNCHANGED <<header, tally>>,
         NEW new, task' = [task EXCEPT ![t] = new],
         \/ new.at \in {"limit", "paced", "retry", "done"}
         \/ new.at = "waiting" /\ (new.carries <=> header)
         \/ new.at \in {"lock", "refreshing"} /\ (new.forced => Owes(t))
  PROVE  ForcedInv'
  <1>1. task'[t] = new /\ \A u \in Tasks : u # t => task'[u] = task[u]
    BY DEF ClientInv, Shape
  <1>2. \A u \in Tasks : Owes(u)' => Owes(u)
    BY <1>1 DEF Owes
  <1>3. QED
    BY <1>2, OwesNoMore

LEMMA FinishOwes ==
  ASSUME ClientInv, ForcedInv, NEW t \in Tasks, UNCHANGED <<header, tally>>,
         NEW out, Finish(t, out)
  PROVE  ForcedInv'
  <1> DEFINE new == [NoRequest EXCEPT !.out = out, !.expired = task[t].expired /\ out = "auth"]
  <1>1. task' = [task EXCEPT ![t] = new] /\ new.at = "done"
    BY DEF Finish, NoRequest
  <1> HIDE DEF new
  <1>2. QED
    BY <1>1, OwnStep

LEMMA DispatchOwes ==
  ASSUME ClientInv, ForcedInv, NEW t \in Tasks, UNCHANGED <<header, tally>>,
         Dispatch(t, header)
  PROVE  ForcedInv'
  <1> DEFINE new == [task[t] EXCEPT !.at = "waiting", !.left = 0, !.carries = header]
  <1>1. task' = [task EXCEPT ![t] = new]
    BY DEF Dispatch
  <1>2. new.at = "waiting" /\ new.carries = header
    BY DEF ClientInv, Shape, NoRequest
  <1> HIDE DEF new
  <1>3. QED
    BY <1>1, <1>2, OwnStep

LEMMA LetThroughOwes ==
  ASSUME ClientInv, ForcedInv, NEW t \in Tasks, UNCHANGED <<header, tally>>,
         LetThrough(t), ~task[t].forced
  PROVE  ForcedInv'
  <1>1. CASE oauth /\ nearing
    <2> DEFINE new == [task[t] EXCEPT !.at = "lock", !.left = 0]
    <2>1. task' = [task EXCEPT ![t] = new]
      BY <1>1 DEF LetThrough
    <2>2. new.at = "lock" /\ ~new.forced
      BY DEF ClientInv, Shape, NoRequest
    <2> HIDE DEF new
    <2>3. QED
      BY <2>1, <2>2, OwnStep
  <1>2. CASE ~(oauth /\ nearing)
    BY <1>2, DispatchOwes DEF LetThrough
  <1>3. QED
    BY <1>1, <1>2

LEMMA AnyStepOwes ==
  ASSUME ClientInv, ForcedInv, NEW t \in Tasks, Begin(t) \/ Step(t) PROVE ForcedInv'
  <1> DEFINE Kept == UNCHANGED <<header, tally>>
  <1>1. CASE Begin(t)
    <2> DEFINE new == [NoRequest EXCEPT !.at = "limit"]
    <2>1. task' = [task EXCEPT ![t] = new] /\ Kept /\ new.at = "limit"
      BY <1>1 DEF Begin, NoRequest
    <2> HIDE DEF new
    <2>2. QED
      BY <2>1, OwnStep
  <1>2. CASE EnforceRateLimit(t)
    <2>1. Kept /\ ~task[t].forced
      BY <1>2 DEF EnforceRateLimit, ClientInv, PhaseInv
    <2>2. CASE LetThrough(t)
      BY <2>1, <2>2, LetThroughOwes
    <2>3. CASE ~LetThrough(t)
      <3> DEFINE new == [task[t] EXCEPT !.at = "paced", !.left = Window - window[1]]
      <3>1. task' = [task EXCEPT ![t] = new]
        BY <1>2, <2>3 DEF EnforceRateLimit
      <3>2. new.at = "paced"
        BY DEF ClientInv, Shape, NoRequest
      <3> HIDE DEF new
      <3>3. QED
        BY <2>1, <3>1, <3>2, OwnStep
    <2>4. QED
      BY <2>2, <2>3
  <1>3. CASE WakePaced(t)
    <2>1. Kept /\ ~task[t].forced /\ LetThrough(t)
      BY <1>3 DEF WakePaced, ClientInv, PhaseInv
    <2>2. QED
      BY <2>1, LetThroughOwes
  <1>4. CASE AcquireLock(t)
    <2>1. Kept /\ At(t, "lock")
      BY <1>4 DEF AcquireLock
    <2>2. CASE Settled(t)
      BY <1>4, <2>1, <2>2, DispatchOwes DEF AcquireLock
    <2>3. CASE ~Settled(t)
      <3> DEFINE new == [task[t] EXCEPT !.at = "refreshing"]
      <3>1. task' = [task EXCEPT ![t] = new]
        BY <1>4, <2>3 DEF AcquireLock
      <3>2. new.at = "refreshing" /\ (new.forced => Owes(t))
        BY <2>1 DEF ClientInv, Shape, NoRequest, Owes
      <3> HIDE DEF new
      <3>3. QED
        BY <2>1, <3>1, <3>2, OwnStep
    <2>4. QED
      BY <2>2, <2>3
  <1>5. CASE Refreshed(t)
    <2>1. header' = TRUE /\ tally'.expiries = tally.expiries
      BY <1>5 DEF Refreshed, HoldToken, ClientInv, Shape
    <2> DEFINE over == [NoRequest EXCEPT !.out = "auth", !.expired = task[t].expired /\ TRUE]
               sends == [task[t] EXCEPT !.at = "waiting", !.carries = header', !.expired = FALSE]
    <2>a. task' = [task EXCEPT ![t] = over] \/ task' = [task EXCEPT ![t] = sends]
      BY <1>5 DEF Refreshed, AfterRefresh, Finish
    <2>b. over.at = "done" /\ sends.at = "waiting" /\ sends.carries = TRUE
      BY <2>1 DEF NoRequest, ClientInv, Shape
    <2> HIDE DEF over, sends
    <2>2. /\ \A u \in Tasks : u # t => task'[u] = task[u]
          /\ \/ task'[t].at = "waiting" /\ task'[t].carries = TRUE
             \/ task'[t].at = "done"
      BY <2>a, <2>b DEF ClientInv, Shape
    <2>3. ~Owes(t)' /\ \A u \in Tasks : Owes(u)' => Owes(u)
      BY <2>1, <2>2 DEF Owes
    <2>4. CASE task[t].forced
      <3>1. tally'.forced = [tally.forced EXCEPT ![t] = @ + 1] /\ Owes(t)
        BY <1>5, <2>4 DEF Refreshed, ClientInv, Shape, Owes
      <3>2. QED
        BY <2>1, <2>3, <3>1 DEF ForcedInv
    <2>5. CASE ~task[t].forced
      <3>1. tally'.forced = tally.forced
        BY <1>5, <2>5 DEF Refreshed, ClientInv, Shape
      <3>2. QED
        BY <2>1, <2>3, <3>1, OwesNoMore
    <2>6. QED
      BY <2>4, <2>5
  <1>6. CASE RefreshFails(t)
    BY <1>6, FinishOwes DEF RefreshFails, history
  <1>7. CASE Refused(t)
    <2>1. Kept /\ Owes(t)
      BY <1>7 DEF Refused, Owes
    <2>2. CASE \E out : Finish(t, out)
      BY <2>1, <2>2, FinishOwes
    <2>3. CASE task' = [task EXCEPT ![t].at = "lock", ![t].forced = TRUE]
      <3> DEFINE new == [task[t] EXCEPT !.at = "lock", !.forced = TRUE]
      <3>1. task' = [task EXCEPT ![t] = new]
        BY <2>3
      <3>2. new.at = "lock"
        BY DEF ClientInv, Shape, NoRequest
      <3> HIDE DEF new
      <3>3. QED
        BY <2>1, <3>1, <3>2, OwnStep
    <2>4. CASE task' = [task EXCEPT ![t].forced = TRUE, ![t].carries = header]
      <3> DEFINE new == [task[t] EXCEPT !.forced = TRUE, !.carries = header]
      <3>1. task' = [task EXCEPT ![t] = new]
        BY <2>4
      <3>2. new.at = "waiting" /\ new.carries = header
        BY <1>7 DEF Refused, ClientInv, Shape, NoRequest
      <3> HIDE DEF new
      <3>3. QED
        BY <2>1, <3>1, <3>2, OwnStep
    <2>5. QED
      BY <1>7, <2>2, <2>3, <2>4 DEF Refused
  <1>8. CASE Throttled(t)
    <2>1. Kept
      BY <1>8 DEF Throttled
    <2>2. CASE TriesAgain(t)
      <3> DEFINE attempt == IF task[t].attempt < MaxAttempts THEN task[t].attempt + 1
                            ELSE task[t].attempt
                 new == [task[t] EXCEPT !.at = "retry", !.left = RetryAfter, !.forced = FALSE,
                                        !.attempt = attempt]
      <3>1. task' = [task EXCEPT ![t] = new]
        BY <1>8, <2>2 DEF Throttled
      <3>2. new.at = "retry"
        BY DEF ClientInv, Shape, NoRequest
      <3> HIDE DEF new
      <3>3. QED
        BY <2>1, <3>1, <3>2, OwnStep
    <2>3. CASE ~TriesAgain(t)
      BY <1>8, <2>1, <2>3, FinishOwes DEF Throttled
    <2>4. QED
      BY <2>2, <2>3
  <1>9. CASE WakeRetry(t)
    <2> DEFINE new == [task[t] EXCEPT !.at = "limit"]
    <2>1. task' = [task EXCEPT ![t] = new] /\ Kept
      BY <1>9 DEF WakeRetry, history
    <2>2. new.at = "limit"
      BY DEF ClientInv, Shape, NoRequest
    <2> HIDE DEF new
    <2>3. QED
      BY <2>1, <2>2, OwnStep
  <1>10. CASE Answered(t) \/ Lost(t)
    BY <1>10, FinishOwes DEF Answered, Lost, history
  <1>11. QED
    BY <1>1, <1>2, <1>3, <1>4, <1>5, <1>6, <1>7, <1>8, <1>9, <1>10 DEF Step

LEMMA NextOwes ==
  ASSUME ClientInv, ForcedInv, [Next]_vars PROVE ForcedInv'
  <1>1. CASE UNCHANGED vars
    <2>1. tally' = tally /\ \A t \in Tasks : Owes(t)' => Owes(t)
      BY <1>1 DEF vars, history, Owes
    <2>2. QED
      BY <2>1, OwesNoMore
  <1>2. CASE Tick
    <2>1. tally' = tally /\ header' = header
          /\ \A t \in Tasks : /\ task'[t].at = task[t].at
                              /\ task'[t].carries = task[t].carries
                              /\ task'[t].forced = task[t].forced
      BY <1>2 DEF Tick, ClientInv, Shape, NoRequest
    <2>2. \A t \in Tasks : Owes(t)' => Owes(t)
      BY <2>1 DEF Owes
    <2>3. QED
      BY <2>1, <2>2, OwesNoMore
  <1>3. CASE TokensExpire
    <2>1. tally'.expiries = tally.expiries + 1 /\ tally'.forced = tally.forced
      BY <1>3 DEF TokensExpire, ClientInv, Shape
    <2>2. QED
      BY <2>1 DEF ForcedInv
  <1>4. CASE ExpiryNears
    <2>1. /\ tally'.expiries = tally.expiries /\ tally'.forced = tally.forced
          /\ UNCHANGED <<task, header>>
      BY <1>4 DEF ExpiryNears, ClientInv, Shape
    <2>2. \A t \in Tasks : Owes(t)' => Owes(t)
      BY <2>1 DEF Owes
    <2>3. QED
      BY <2>1, <2>2, OwesNoMore
  <1>5. QED
    BY <1>1, <1>2, <1>3, <1>4, AnyStepOwes DEF Next

\* However the refreshes of any number of tasks interleave, a read gives up for its
\* token only if the tokens expired again; one refresh that nobody forced is made for
\* each time the expiry comes near, and no task forces more refreshes than the tokens
\* expired.
THEOREM RefreshesAreEnough == Spec => []RefreshesSuffice
  <1>1. ClientInv => ReadsSurviveExpiry /\ tally.unforced <= tally.nears
    BY DEF ClientInv, Shape, ReadInv, RefreshInv, ReadsSurviveExpiry
  <1>2. ForcedInv => \A t \in Tasks : tally.forced[t] <= tally.expiries
    BY DEF ForcedInv
  <1>3. ClientInv /\ ForcedInv => RefreshesSuffice
    BY <1>1, <1>2 DEF RefreshesSuffice, RefreshesAreBounded
  <1>4. Init => ForcedInv
    BY ForcedInit
  <1>5. ClientInv /\ ForcedInv /\ [Next]_vars => ForcedInv'
    BY NextOwes
  <1>6. QED
    BY <1>3, <1>4, <1>5, ClientInvariant, PTL DEF Spec

-----------------------------------------------------------------------------
(* The window *)

InOrder(ages) == \A i, j \in 1..Len(ages) : i < j => ages[j] <= ages[i]

\* The window lets through what the history counts; at most one request is under
\* way, and if it waits for a full window, it waits until the oldest entry leaves.
WindowInv ==
    /\ window \in Seq(0..(Window - 1)) /\ InOrder(window)
    /\ gathered => recent = <<>>
    /\ ~gathered =>
          /\ recent = window /\ Len(window) <= Limit
          /\ \A t, u \in Tasks : ~Over(t) /\ ~Over(u) => t = u
          /\ \A t \in Tasks : At(t, "paced") =>
                /\ task[t].left \in Nat
                /\ Len(window) = Limit => window[1] + task[t].left = Window

LEMMA SameElements ==
  ASSUME NEW S, NEW T, NEW s \in Seq(S), \A i \in 1..Len(s) : s[i] \in T
  PROVE  s \in Seq(T)
  <1>1. s \in [1..Len(s) -> T] /\ Len(s) \in Nat
    OBVIOUS
  <1>2. QED
    BY <1>1

\* Those that leave an ordered window are its first, and the others grow older.
LEMMA OlderIs ==
  ASSUME NEW ages \in Seq(0..(Window - 1)), InOrder(ages)
  PROVE  /\ Older(ages) \in Seq(0..(Window - 1)) /\ InOrder(Older(ages))
         /\ Len(Older(ages)) <= Len(ages)
         /\ Len(Older(ages)) = Len(ages) => \A i \in 1..Len(ages) : Older(ages)[i] = ages[i] + 1
         /\ ages # <<>> /\ ages[1] + 1 >= Window => Len(Older(ages)) < Len(ages)
  <1> DEFINE n    == Len(ages)
             aged == [i \in DOMAIN ages |-> ages[i] + 1]
             gone == {i \in DOMAIN ages : aged[i] >= Window}
             k    == Cardinality(gone)
  <1>1. n \in Nat /\ Window \in Nat \ {0} /\ \A i \in 1..n : ages[i] \in 0..(Window - 1)
    BY ClientAssumption
  <1>2. DOMAIN ages = 1..n
    OBVIOUS
  <1>3. aged \in Seq(Nat) /\ Len(aged) = n /\ \A i \in 1..n : aged[i] = ages[i] + 1
    <2>1. aged = [i \in 1..n |-> ages[i] + 1]
      BY <1>2
    <2>2. \A i \in 1..n : ages[i] + 1 \in Nat
      BY <1>1
    <2> HIDE DEF aged, n
    <2>3. aged \in [1..n -> Nat]
      BY <2>1, <2>2
    <2>4. aged \in Seq(Nat) /\ Len(aged) = n
      BY <1>1, <2>3
    <2>5. QED
      BY <2>1, <2>4
  <1>4. gone \subseteq 1..n /\ IsFiniteSet(gone) /\ k \in Nat /\ k <= n
    <2>1. IsFiniteSet(1..n) /\ Cardinality(1..n) = n
      <3>1. n \in Nat /\ 1 \in Int /\ n \in Int
        BY <1>1
      <3> HIDE DEF n
      <3>2. IsFiniteSet(1..n) /\ Cardinality(1..n) = IF 1 > n THEN 0 ELSE n - 1 + 1
        BY <3>1, FS_Interval
      <3>3. (IF 1 > n THEN 0 ELSE n - 1 + 1) = n
        BY <3>1
      <3>4. QED
        BY <3>2, <3>3
    <2>2. gone \in SUBSET (1..n)
      BY <1>2
    <2> HIDE DEF gone
    <2>3. IsFiniteSet(gone) /\ Cardinality(gone) <= n
      BY <2>1, <2>2, FS_Subset
    <2>4. QED
      BY <2>2, <2>3, FS_CardinalityType
  <1>5. Older(ages) = SubSeq(aged, k + 1, n)
    BY DEF Older
  <1>6. \A i \in 1..n : i \in gone <=> ages[i] + 1 >= Window
    BY <1>2, <1>3
  <1> HIDE DEF aged, gone, k, n
  <1>7. ASSUME NEW i \in gone PROVE i <= k
    <2>1. i \in 1..n
      BY <1>4
    <2>2. ASSUME NEW j \in 1..i PROVE j \in gone
      <3>1. j \in 1..n /\ (j < i \/ j = i)
        BY <1>1, <2>1
      <3>2. j < i => ages[i] <= ages[j]
        BY <2>1, <3>1 DEF InOrder, n
      <3>3. QED
        BY <1>1, <1>6, <1>7, <2>1, <3>1, <3>2
    <2>3. 1..i \in SUBSET gone
      BY <2>2
    <2>4. Cardinality(1..i) = i
      BY <1>1, <2>1, FS_Interval
    <2>5. Cardinality(1..i) <= k
      BY <1>4, <2>3, FS_Subset DEF k
    <2>6. QED
      BY <2>4, <2>5
  <1>8. Len(Older(ages)) = n - k /\ \A i \in 1..(n - k) : Older(ages)[i] = ages[k + i] + 1
    <2>1. k + 1 \in 1..(n + 1)
      BY <1>1, <1>4
    <2>2. Len(SubSeq(aged, k + 1, n)) = n - k /\ \A i \in 1..(n - k) : SubSeq(aged, k + 1, n)[i] = aged[k + i]
      BY <1>1, <1>3, <1>4, <2>1
    <2>3. \A i \in 1..(n - k) : k + i \in 1..n
      BY <1>1, <1>4
    <2>4. QED
      BY <1>3, <1>5, <2>2, <2>3
  <1>9. \A i \in 1..(n - k) : k + i \in 1..n /\ Older(ages)[i] \in 0..(Window - 1)
    <2>1. ASSUME NEW i \in 1..(n - k) PROVE k + i \in 1..n /\ Older(ages)[i] \in 0..(Window - 1)
      <3>1. k + i \in 1..n /\ ~(k + i <= k)
        BY <1>1, <1>4
      <3>2. k + i \notin gone
        BY <1>7, <3>1
      <3>3. ~(ages[k + i] + 1 >= Window)
        BY <1>6, <3>1, <3>2
      <3>4. QED
        BY <1>1, <1>8, <3>1, <3>3
    <2>2. QED
      BY <2>1
  <1>10. Older(ages) \in Seq(0..(Window - 1))
    <2>1. Older(ages) \in Seq(Nat)
      BY <1>1, <1>3, <1>4, <1>5
    <2>2. \A i \in 1..Len(Older(ages)) : Older(ages)[i] \in 0..(Window - 1)
      BY <1>8, <1>9
    <2>3. QED
      BY <2>1, <2>2, SameElements
  <1>11. InOrder(Older(ages))
    <2>1. ASSUME NEW i \in 1..(n - k), NEW j \in 1..(n - k), i < j PROVE Older(ages)[j] <= Older(ages)[i]
      <3>1. k + i \in 1..n /\ k + j \in 1..n /\ k + i < k + j
        BY <1>4, <1>9, <2>1
      <3>2. ages[k + j] <= ages[k + i]
        BY <3>1 DEF InOrder, n
      <3>3. Older(ages)[i] = ages[k + i] + 1 /\ Older(ages)[j] = ages[k + j] + 1
        BY <1>8
      <3>4. ages[k + i] \in Int /\ ages[k + j] \in Int
        BY <1>1, <3>1
      <3>5. QED
        BY <3>2, <3>3, <3>4
    <2>2. QED
      BY <1>8, <2>1 DEF InOrder
  <1>12. n - k = n => \A i \in 1..n : Older(ages)[i] = ages[i] + 1
    <2>1. n - k = n => k = 0
      BY <1>1, <1>4
    <2>2. QED
      BY <1>1, <1>8, <2>1
  <1>13. ages # <<>> /\ ages[1] + 1 >= Window => n - k < n
    <2>1. ages # <<>> => 1 \in 1..n
      BY DEF n
    <2>2. 1 \in gone => 1 <= k
      BY <1>7
    <2>3. QED
      BY <1>1, <1>4, <1>6, <2>1, <2>2
  <1>14. QED
    BY <1>1, <1>4, <1>8, <1>10, <1>11, <1>12, <1>13 DEF n

\* A step of the one request under way, or of one of the gathered ones.
LEMMA OneWindow ==
  ASSUME ClientInv, WindowInv, NEW t \in Tasks, NEW new, task' = [task EXCEPT ![t] = new],
         UNCHANGED gathered, gathered \/ \A u \in Tasks : u # t => Over(u),
         window' \in Seq(0..(Window - 1)), InOrder(window'),
         gathered => recent' = <<>>,
         ~gathered =>
            /\ recent' = window' /\ Len(window') <= Limit
            /\ new.at = "paced" =>
                  new.left \in Nat /\ (Len(window') = Limit => window'[1] + new.left = Window)
  PROVE  WindowInv'
  <1>1. task'[t] = new /\ \A u \in Tasks : u # t => task'[u] = task[u]
    BY DEF ClientInv, Shape
  <1>2. ~gathered => \A u \in Tasks : u # t => Over(u)'
    BY <1>1
  <1>3. QED
    BY <1>1, <1>2 DEF WindowInv

\* Whoever is not over is the only one, unless the tasks are gathered.
LEMMA OnlyOne ==
  ASSUME WindowInv, NEW t \in Tasks, ~Over(t)
  PROVE  gathered \/ \A u \in Tasks : u # t => Over(u)
  BY DEF WindowInv

\* A step that leaves the window alone, and does not wait for it.
LEMMA WindowAside ==
  ASSUME ClientInv, WindowInv, NEW t \in Tasks, NEW new, task' = [task EXCEPT ![t] = new],
         UNCHANGED <<gathered, window, recent>>, gathered \/ \A u \in Tasks : u # t => Over(u),
         new.at # "paced"
  PROVE  WindowInv'
  <1>1. /\ window' \in Seq(0..(Window - 1)) /\ InOrder(window')
        /\ gathered => recent' = <<>>
        /\ ~gathered => recent' = window' /\ Len(window') <= Limit
    BY DEF WindowInv
  <1>2. QED
    BY <1>1, OneWindow

LEMMA BeginWindow ==
  ASSUME ClientInv, WindowInv, NEW t \in Tasks, Begin(t) PROVE WindowInv'
  <1> DEFINE new == [NoRequest EXCEPT !.at = "limit"]
  <1>1. new.at = "limit"
    BY DEF NoRequest
  <1>2. /\ task' = [task EXCEPT ![t] = new] /\ UNCHANGED <<gathered, window, recent>>
        /\ gathered \/ \A u \in Tasks : u # t => Over(u)
    BY DEF Begin
  <1> HIDE DEF new
  <1>3. QED
    BY <1>1, <1>2, WindowAside

\* A request that goes on does not come back to the window at once.
LEMMA DispatchIs ==
  ASSUME ClientInv, NEW t \in Tasks, NEW with, Dispatch(t, with)
  PROVE  \E new : task' = [task EXCEPT ![t] = new] /\ new.at = "waiting"
  <1> DEFINE new == [task[t] EXCEPT !.at = "waiting", !.left = 0, !.carries = with]
  <1>1. task' = [task EXCEPT ![t] = new]
    BY DEF Dispatch
  <1>2. new.at = "waiting"
    BY DEF ClientInv, Shape, NoRequest
  <1> HIDE DEF new
  <1>3. QED
    BY <1>1, <1>2

LEMMA FinishIs ==
  ASSUME NEW t \in Tasks, NEW out, Finish(t, out)
  PROVE  \E new : task' = [task EXCEPT ![t] = new] /\ new.at = "done"
  <1> DEFINE new == [NoRequest EXCEPT !.out = out, !.expired = task[t].expired /\ out = "auth"]
  <1>1. task' = [task EXCEPT ![t] = new]
    BY DEF Finish
  <1>2. new.at = "done"
    BY DEF NoRequest
  <1> HIDE DEF new
  <1>3. QED
    BY <1>1, <1>2

LEMMA LetThroughIs ==
  ASSUME ClientInv, NEW t \in Tasks, LetThrough(t)
  PROVE  \E new : task' = [task EXCEPT ![t] = new] /\ new.at \in {"waiting", "lock"}
  <1>1. CASE Dispatch(t, header)
    BY <1>1, DispatchIs
  <1>2. CASE task' = [task EXCEPT ![t].at = "lock", ![t].left = 0]
    <2> DEFINE new == [task[t] EXCEPT !.at = "lock", !.left = 0]
    <2>1. task' = [task EXCEPT ![t] = new] /\ new.at = "lock"
      BY <1>2 DEF ClientInv, Shape, NoRequest
    <2> HIDE DEF new
    <2>2. QED
      BY <2>1
  <1>3. QED
    BY <1>1, <1>2 DEF LetThrough

\* The request that passes is the newest entry.
LEMMA LetThroughWindow ==
  ASSUME ClientInv, WindowInv, NEW t \in Tasks, LetThrough(t), ~Over(t), UNCHANGED gathered,
         ~gathered => Len(window) < Limit
  PROVE  WindowInv'
  <1>1. window' = Append(window, 0) /\ recent' = IF gathered THEN recent ELSE Append(recent, 0)
    BY DEF LetThrough
  <1>2. Window \in Nat \ {0} /\ 0 \in 0..(Window - 1) /\ Limit \in Nat
    BY ClientAssumption
  <1>3. window \in Seq(0..(Window - 1)) /\ InOrder(window)
    BY DEF WindowInv
  <1>4. /\ window' \in Seq(0..(Window - 1)) /\ Len(window') = Len(window) + 1
        /\ \A i \in 1..Len(window) : window'[i] = window[i] /\ window[i] \in 0..(Window - 1)
        /\ window'[Len(window) + 1] = 0
    BY <1>1, <1>2, <1>3
  <1>5. InOrder(window')
    <2>1. ASSUME NEW i \in 1..(Len(window) + 1), NEW j \in 1..(Len(window) + 1), i < j
          PROVE  window'[j] <= window'[i]
      <3>1. i \in 1..Len(window)
        BY <1>3, <2>1
      <3>2. CASE j = Len(window) + 1
        BY <1>2, <1>4, <3>1, <3>2
      <3>3. CASE j # Len(window) + 1
        <4>1. j \in 1..Len(window)
          BY <1>3, <3>3
        <4>2. QED
          BY <1>3, <1>4, <2>1, <3>1, <4>1 DEF InOrder
      <3>4. QED
        BY <3>2, <3>3
    <2>2. QED
      BY <1>4, <2>1 DEF InOrder
  <1>6. /\ gathered => recent' = <<>>
        /\ ~gathered => recent' = window' /\ Len(window') <= Limit
    BY <1>1, <1>2, <1>3, <1>4 DEF WindowInv
  <1>7. PICK new : task' = [task EXCEPT ![t] = new] /\ new.at \in {"waiting", "lock"}
    BY LetThroughIs
  <1>8. gathered \/ \A u \in Tasks : u # t => Over(u)
    BY OnlyOne
  <1>9. QED
    BY <1>4, <1>5, <1>6, <1>7, <1>8, OneWindow

\* A full window makes the request wait until its first entry is too old.
LEMMA EnforceWindow ==
  ASSUME ClientInv, WindowInv, NEW t \in Tasks, EnforceRateLimit(t) PROVE WindowInv'
  <1>1. ~Over(t) /\ UNCHANGED gathered
    BY DEF EnforceRateLimit
  <1>2. CASE HasRoom /\ LetThrough(t)
    BY <1>1, <1>2, LetThroughWindow DEF HasRoom
  <1>3. CASE ~HasRoom /\ task' = [task EXCEPT ![t].at = "paced", ![t].left = Window - window[1]]
             /\ UNCHANGED <<window, recent>>
    <2> DEFINE new == [task[t] EXCEPT !.at = "paced", !.left = Window - window[1]]
    <2>1. task' = [task EXCEPT ![t] = new] /\ new.left = Window - window[1]
      BY <1>3 DEF ClientInv, Shape, NoRequest
    <2> HIDE DEF new
    <2>2. window \in Seq(0..(Window - 1)) /\ ~(Len(window) < Limit) /\ Limit \in Nat \ {0} /\ Window \in Nat
      BY <1>3, ClientAssumption DEF WindowInv, HasRoom
    <2>3. window[1] \in 0..(Window - 1)
      BY <2>2
    <2>4. new.left \in Nat /\ window[1] + new.left = Window
      BY <2>1, <2>2, <2>3
    <2>5. /\ window' \in Seq(0..(Window - 1)) /\ InOrder(window')
          /\ gathered => recent' = <<>>
          /\ ~gathered => recent' = window' /\ Len(window') <= Limit
      BY <1>3 DEF WindowInv
    <2>6. QED
      BY <1>1, <1>3, <2>1, <2>4, <2>5, OnlyOne, OneWindow
  <1>4. QED
    BY <1>2, <1>3 DEF EnforceRateLimit

\* Whoever slept finds room: the entry it waited for has left.
LEMMA WakePacedWindow ==
  ASSUME ClientInv, WindowInv, NEW t \in Tasks, WakePaced(t) PROVE WindowInv'
  <1>1. ~Over(t) /\ UNCHANGED gathered /\ LetThrough(t) /\ At(t, "paced") /\ task[t].left = 0
    BY DEF WakePaced
  <1>2. ASSUME ~gathered PROVE Len(window) < Limit
    <2>1. /\ window \in Seq(0..(Window - 1)) /\ Len(window) <= Limit
          /\ Len(window) = Limit => window[1] + 0 = Window
      BY <1>1, <1>2 DEF WindowInv
    <2>2. Limit \in Nat \ {0} /\ Window \in Nat
      BY ClientAssumption
    <2>3. Len(window) = Limit => window[1] \in 0..(Window - 1)
      BY <2>1, <2>2
    <2>4. QED
      BY <2>1, <2>2, <2>3
  <1>3. QED
    BY <1>1, <1>2, LetThroughWindow

LEMMA AcquireWindow ==
  ASSUME ClientInv, WindowInv, NEW t \in Tasks, AcquireLock(t) PROVE WindowInv'
  <1>1. ~Over(t) /\ UNCHANGED <<gathered, window, recent>>
    BY DEF AcquireLock
  <1>2. CASE Dispatch(t, header)
    BY <1>1, <1>2, DispatchIs, OnlyOne, WindowAside
  <1>3. CASE task' = [task EXCEPT ![t].at = "refreshing"]
    <2> DEFINE new == [task[t] EXCEPT !.at = "refreshing"]
    <2>1. task' = [task EXCEPT ![t] = new] /\ new.at = "refreshing"
      BY <1>3 DEF ClientInv, Shape, NoRequest
    <2> HIDE DEF new
    <2>2. QED
      BY <1>1, <2>1, OnlyOne, WindowAside
  <1>4. QED
    BY <1>2, <1>3 DEF AcquireLock

LEMMA RefreshWindow ==
  ASSUME ClientInv, WindowInv, NEW t \in Tasks, Refreshed(t) \/ RefreshFails(t) PROVE WindowInv'
  <1>1. ~Over(t) /\ UNCHANGED <<gathered, window, recent>>
    BY DEF Refreshed, RefreshFails, history
  <1>2. ASSUME NEW out, Finish(t, out) PROVE WindowInv'
    BY <1>1, <1>2, FinishIs, OnlyOne, WindowAside
  <1>3. CASE task' = [task EXCEPT ![t].at = "waiting", ![t].carries = header', ![t].expired = FALSE]
    <2> DEFINE new == [task[t] EXCEPT !.at = "waiting", !.carries = header', !.expired = FALSE]
    <2>1. task' = [task EXCEPT ![t] = new] /\ new.at = "waiting"
      BY <1>3 DEF ClientInv, Shape, NoRequest
    <2> HIDE DEF new
    <2>2. QED
      BY <1>1, <2>1, OnlyOne, WindowAside
  <1>4. QED
    BY <1>2, <1>3 DEF Refreshed, RefreshFails, AfterRefresh

LEMMA RefusedWindow ==
  ASSUME ClientInv, WindowInv, NEW t \in Tasks, Refused(t) PROVE WindowInv'
  <1>1. ~Over(t) /\ At(t, "waiting") /\ UNCHANGED <<gathered, window, recent>>
    BY DEF Refused
  <1>2. CASE Finish(t, "auth")
    BY <1>1, <1>2, FinishIs, OnlyOne, WindowAside
  <1>3. CASE task' = [task EXCEPT ![t].at = "lock", ![t].forced = TRUE]
    <2> DEFINE new == [task[t] EXCEPT !.at = "lock", !.forced = TRUE]
    <2>1. task' = [task EXCEPT ![t] = new] /\ new.at = "lock"
      BY <1>3 DEF ClientInv, Shape, NoRequest
    <2> HIDE DEF new
    <2>2. QED
      BY <1>1, <2>1, OnlyOne, WindowAside
  <1>4. CASE task' = [task EXCEPT ![t].forced = TRUE, ![t].carries = header]
    <2> DEFINE new == [task[t] EXCEPT !.forced = TRUE, !.carries = header]
    <2>1. task' = [task EXCEPT ![t] = new] /\ new.at = "waiting"
      BY <1>1, <1>4 DEF ClientInv, Shape, NoRequest
    <2> HIDE DEF new
    <2>2. QED
      BY <1>1, <2>1, OnlyOne, WindowAside
  <1>5. QED
    BY <1>2, <1>3, <1>4 DEF Refused

\* A 429 clears the window.
LEMMA ThrottledWindow ==
  ASSUME ClientInv, WindowInv, NEW t \in Tasks, Throttled(t) PROVE WindowInv'
  <1>1. ~Over(t) /\ UNCHANGED gathered
    BY DEF Throttled
  <1>2. CASE Finish(t, "rate") /\ UNCHANGED <<window, recent>>
    BY <1>1, <1>2, FinishIs, OnlyOne, WindowAside
  <1>3. CASE TriesAgain(t)
    <2> DEFINE attempt == IF task[t].attempt < MaxAttempts THEN task[t].attempt + 1
                          ELSE task[t].attempt
               new == [task[t] EXCEPT !.at = "retry", !.left = RetryAfter, !.forced = FALSE,
                                      !.attempt = attempt]
    <2>1. task' = [task EXCEPT ![t] = new] /\ window' = <<>> /\ recent' = <<>>
      BY <1>3 DEF Throttled
    <2>2. new.at = "retry"
      BY DEF ClientInv, Shape, NoRequest
    <2> HIDE DEF new
    <2>3. <<>> \in Seq(0..(Window - 1)) /\ InOrder(<<>>) /\ Len(<<>>) <= Limit
      BY ClientAssumption DEF InOrder
    <2>4. QED
      BY <1>1, <2>1, <2>2, <2>3, OnlyOne, OneWindow
  <1>4. QED
    BY <1>2, <1>3 DEF Throttled

LEMMA WakeRetryWindow ==
  ASSUME ClientInv, WindowInv, NEW t \in Tasks, WakeRetry(t) PROVE WindowInv'
  <1> DEFINE new == [task[t] EXCEPT !.at = "limit"]
  <1>1. /\ ~Over(t) /\ UNCHANGED <<gathered, window, recent>>
        /\ task' = [task EXCEPT ![t] = new] /\ new.at = "limit"
    BY DEF WakeRetry, history, ClientInv, Shape, NoRequest
  <1> HIDE DEF new
  <1>2. QED
    BY <1>1, OnlyOne, WindowAside

LEMMA AnsweredWindow ==
  ASSUME ClientInv, WindowInv, NEW t \in Tasks, Answered(t) \/ Lost(t) PROVE WindowInv'
  <1>1. /\ ~Over(t) /\ UNCHANGED <<gathered, window, recent>>
        /\ Finish(t, "answered") \/ Finish(t, "raised")
    BY DEF Answered, Lost, history
  <1>2. QED
    BY <1>1, FinishIs, OnlyOne, WindowAside

\* Time makes the window and the sleep for its first entry shorter together.
LEMMA TickWindow ==
  ASSUME ClientInv, WindowInv, Tick PROVE WindowInv'
  <1>1. /\ window' = Older(window) /\ recent' = Older(recent) /\ gathered' = gathered
        /\ \A t \in Tasks : /\ task'[t].at = task[t].at
                            /\ task'[t].left = IF task[t].left = 0 THEN 0 ELSE task[t].left - 1
    BY DEF Tick, ClientInv, Shape, NoRequest
  <1>2. window \in Seq(0..(Window - 1)) /\ InOrder(window)
    BY DEF WindowInv
  <1>3. /\ Window \in Nat \ {0} /\ Limit \in Nat \ {0} /\ Len(window) \in Nat
        /\ \A i \in 1..Len(window) : window[i] \in 0..(Window - 1)
    BY <1>2, ClientAssumption
  <1>4. /\ window' \in Seq(0..(Window - 1)) /\ InOrder(window') /\ Len(window') <= Len(window)
        /\ Len(window') = Len(window) => \A i \in 1..Len(window) : window'[i] = window[i] + 1
        /\ window # <<>> /\ window[1] + 1 >= Window => Len(window') < Len(window)
    BY <1>1, <1>2, OlderIs
  <1>5. gathered => recent' = <<>>
    <2>1. <<>> \in Seq(0..(Window - 1)) /\ InOrder(<<>>) /\ Len(<<>>) = 0
      BY DEF InOrder
    <2>2. Older(<<>>) \in Seq(0..(Window - 1)) /\ Len(Older(<<>>)) <= 0
      BY <2>1, OlderIs
    <2>3. Older(<<>>) = <<>>
      BY <2>2
    <2>4. QED
      BY <1>1, <2>3 DEF WindowInv
  <1>6. ASSUME ~gathered
        PROVE  /\ recent' = window' /\ Len(window') <= Limit
               /\ \A t, u \in Tasks : ~Over(t)' /\ ~Over(u)' => t = u
    <2>1. recent = window /\ Len(window) <= Limit
      BY <1>6 DEF WindowInv
    <2>2. QED
      BY <1>1, <1>3, <1>4, <1>6, <2>1 DEF WindowInv
  <1>7. ASSUME ~gathered, NEW t \in Tasks, At(t, "paced")
        PROVE  /\ task'[t].left \in Nat
               /\ Len(window') = Limit => window'[1] + task'[t].left = Window
    <2>1. /\ task[t].left \in Nat /\ Len(window) <= Limit
          /\ Len(window) = Limit => window[1] + task[t].left = Window
      BY <1>7 DEF WindowInv
    <2>2. task'[t].left \in Nat
      BY <1>1, <2>1
    <2>3. ASSUME Len(window') = Limit PROVE window'[1] + task'[t].left = Window
      <3>1. Len(window) = Limit /\ Len(window') = Len(window) /\ 1 \in 1..Len(window)
        BY <1>2, <1>3, <1>4, <2>1, <2>3
      <3>2. window'[1] = window[1] + 1 /\ window[1] \in 0..(Window - 1) /\ window[1] + task[t].left = Window
        BY <1>3, <1>4, <2>1, <3>1
      <3>3. task[t].left # 0 /\ task'[t].left = task[t].left - 1
        BY <1>1, <1>3, <2>1, <3>2
      <3>4. QED
        BY <1>3, <2>1, <3>2, <3>3
    <2>4. QED
      BY <2>2, <2>3
  <1>8. QED
    BY <1>1, <1>4, <1>5, <1>6, <1>7 DEF WindowInv

\* What HubSpot does to its tokens does not touch the window.
LEMMA ElsewhereWindow ==
  ASSUME ClientInv, WindowInv, TokensExpire \/ ExpiryNears PROVE WindowInv'
  <1>1. /\ UNCHANGED <<gathered, window, recent>>
        /\ \A t \in Tasks : task'[t].at = task[t].at /\ task'[t].left = task[t].left
    <2>1. CASE TokensExpire
      <3>1. \A t \in Tasks : task'[t] = [task[t] EXCEPT !.carries = FALSE, !.expired = @ \/ task[t].forced]
        BY <2>1 DEF TokensExpire
      <3>2. \A t \in Tasks : {"at", "left"} \subseteq DOMAIN task[t]
        BY DEF ClientInv, Shape, NoRequest
      <3>3. \A t \in Tasks : task'[t].at = task[t].at /\ task'[t].left = task[t].left
        BY <3>1, <3>2
      <3>4. QED
        BY <2>1, <3>3 DEF TokensExpire
    <2>2. CASE ExpiryNears
      BY <2>2 DEF ExpiryNears
    <2>3. QED
      BY <2>1, <2>2
  <1>2. QED
    BY <1>1 DEF WindowInv

LEMMA WindowInit == ASSUME Init PROVE WindowInv
  BY ClientAssumption DEF Init, WindowInv, InOrder, NoRequest

LEMMA WindowKeeps ==
  ASSUME ClientInv, WindowInv, [Next]_vars PROVE WindowInv'
  <1>1. CASE UNCHANGED vars
    BY <1>1 DEF vars, history, WindowInv
  <1>2. ASSUME NEW t \in Tasks, Begin(t) \/ Step(t) PROVE WindowInv'
    BY <1>2, BeginWindow, EnforceWindow, WakePacedWindow, AcquireWindow, RefreshWindow, RefusedWindow,
       ThrottledWindow, WakeRetryWindow, AnsweredWindow
    DEF Step
  <1>3. QED
    BY <1>1, <1>2, TickWindow, ElsewhereWindow DEF Next

\* For any limit and any window, requests made one after another never exceed the
\* limit within a window (client.py, _enforce_rate_limit): the one that slept does
\* not look at the window again, and need not.
THEOREM SerialRequestsStayWithin == Spec => []WithinLimit
  <1>1. WindowInv => WithinLimit
    BY ClientAssumption DEF WindowInv, WithinLimit
  <1>2. Init => WindowInv
    BY WindowInit
  <1>3. ClientInv /\ WindowInv /\ [Next]_vars => WindowInv'
    BY WindowKeeps
  <1>4. QED
    BY <1>1, <1>2, <1>3, ClientInvariant, PTL DEF Spec
=============================================================================
