---------------------------- MODULE Daemon_proofs ----------------------------
(***************************************************************************)
(* Proofs about Daemon for any number of callers, daemons and portals: a   *)
(* write call stores at most one preview and makes its change at most      *)
(* once, and its caller is told; together they implement StoreOnce.        *)
(***************************************************************************)
EXTENDS Daemon, TLAPS

\* Where a write is on its way.
NotBegun(c) == staged[c] = <<>> /\ made[c] = 0
Stored(c)   == staged[c] = <<target[c]>> /\ made[c] = 0
Made(c)     == staged[c] = <<target[c]>> /\ made[c] = 1
Gone(c)     == staged[c] = <<>> /\ made[c] = 1

OnItsWay(c) == NotBegun(c) \/ Stored(c) \/ Made(c) \/ Gone(c)

\* A word, a daemon's or the router's, and what it says of the write.
IsTrue(c, word) ==
    /\ word \in {"other", "mismatch"} => NotBegun(c)
    /\ word = "preview" => Stored(c)
    /\ word = "applied" => Gone(c)
    /\ word = "named"   => Stored(c) \/ Made(c)
    /\ word = "fault"   => ~NotBegun(c)

\* A daemon that was never started holds nothing.
HoldsInv(d) == life[d] = "unborn" => \A c \in Callers : inbox[d][c] = "nothing"

\* A read leaves nothing behind, and is only handed data or an error.
ReadInv(c) ==
    /\ NotBegun(c)
    /\ call[c].answer \in {"none", "mismatch", "other"}
    /\ call[c].out \in {"none", "other"}
    /\ \A d \in Daemons : inbox[d][c] \in {"nothing", "sent"}

\* One daemon at most holds the request of a write, and knows where the write is.
HeldOnceInv(c) ==
    /\ \A d, e \in Daemons : inbox[d][c] # "nothing" /\ inbox[e][c] # "nothing" => d = e
    /\ \A d \in Daemons : /\ inbox[d][c] = "sent" => NotBegun(c)
                          /\ inbox[d][c] = "held" => Stored(c)
                          /\ inbox[d][c] = "made" => Made(c)

\* What the caller of a write knows of it at each step.
KnowsInv(c) ==
    /\ ~At(c, "receive") /\ ~At(c, "done") =>
        /\ NotBegun(c) /\ call[c].answer = "none"
        /\ \A d \in Daemons : inbox[d][c] = "nothing"
    /\ At(c, "receive") =>
        /\ \A d \in Daemons : inbox[d][c] # "nothing" => d = call[c].to /\ call[c].answer = "none"
        /\ IsTrue(c, call[c].answer)
    /\ At(c, "done") =>
        /\ IsTrue(c, call[c].out)
        /\ \A d \in Daemons : inbox[d][c] # "nothing" => call[c].out = "warned"

CallInv(c) ==
    /\ OnItsWay(c)
    /\ kind[c] = "read" => ReadInv(c)
    /\ kind[c] = "write" => HeldOnceInv(c) /\ KnowsInv(c)

DaemonInv ==
    /\ TypeOK
    /\ \A d \in Daemons : HoldsInv(d)
    /\ \A c \in Callers : CallInv(c)

-----------------------------------------------------------------------------
USE DEF At

LEMMA UnsetIsPortal == Unset \in Portals
  BY DaemonAssumption DEF Unset

LEMMA InitInv == ASSUME Init PROVE DaemonInv
  <1>1. TypeOK
    BY UnsetIsPortal, DaemonAssumption DEF Init, TypeOK, Living, Calls, Steps, Outs, Answers, Stages
  <1>2. QED
    BY <1>1, DaemonAssumption DEF Init, DaemonInv, HoldsInv, CallInv, ReadInv, HeldOnceInv, KnowsInv,
                                  OnItsWay, NotBegun

\* What is said of a write stays true while nothing is done about it.
LEMMA SameWork ==
  ASSUME NEW c \in Callers, staged'[c] = staged[c], made'[c] = made[c]
  PROVE  /\ OnItsWay(c)' <=> OnItsWay(c)
         /\ NotBegun(c)' <=> NotBegun(c)
         /\ Stored(c)' <=> Stored(c)
         /\ Made(c)' <=> Made(c)
         /\ \A word : IsTrue(c, word)' <=> IsTrue(c, word)
  BY DEF OnItsWay, NotBegun, Stored, Made, Gone, IsTrue

\* A call and a write that are left alone; the call's requests may be dropped.
LEMMA DroppedCall ==
  ASSUME NEW c \in Callers, CallInv(c), call'[c] = call[c], staged'[c] = staged[c],
         made'[c] = made[c], \A d \in Daemons : inbox'[d][c] \in {"nothing", inbox[d][c]}
  PROVE  CallInv(c)'
  <1>1. /\ OnItsWay(c)' <=> OnItsWay(c)
        /\ NotBegun(c)' <=> NotBegun(c)
        /\ Stored(c)' <=> Stored(c)
        /\ Made(c)' <=> Made(c)
        /\ IsTrue(c, call[c].answer)' <=> IsTrue(c, call[c].answer)
        /\ IsTrue(c, call[c].out)' <=> IsTrue(c, call[c].out)
    BY DEF OnItsWay, NotBegun, Stored, Made, Gone, IsTrue
  <1>2. kind[c] = "write" => HeldOnceInv(c)' /\ KnowsInv(c)'
    BY <1>1 DEF CallInv, HeldOnceInv, KnowsInv
  <1>3. QED
    BY <1>1, <1>2 DEF CallInv, ReadInv

LEMMA OtherCall ==
  ASSUME NEW c \in Callers, CallInv(c), call'[c] = call[c], staged'[c] = staged[c],
         made'[c] = made[c], \A d \in Daemons : inbox'[d][c] = inbox[d][c]
  PROVE  CallInv(c)'
  BY DroppedCall

\* What is outside the requests may change, and daemons may be born into other
\* states than the first.
LEMMA OutsideKeeps ==
  ASSUME DaemonInv, TypeOK', UNCHANGED <<portal, inbox, call, staged, made>>,
         \A d \in Daemons : life'[d] = "unborn" => life[d] = "unborn"
  PROVE  DaemonInv'
  <1>1. \A d \in Daemons : HoldsInv(d)'
    BY DEF DaemonInv, HoldsInv
  <1>2. \A c \in Callers : CallInv(c)'
    BY OtherCall DEF DaemonInv
  <1>3. QED
    BY <1>1, <1>2 DEF DaemonInv

\* A daemon that drops what it holds.
LEMMA DropKeeps ==
  ASSUME NEW d \in Daemons, DaemonInv, life[d] \in Living, Dies(d),
         {socket', pid'} \subseteq Daemons \cup {Nobody}, UNCHANGED <<call, staged, made>>
  PROVE  DaemonInv'
  <1>1. /\ inbox' \in [Daemons -> [Callers -> Stages \cup {"nothing"}]]
        /\ \A c \in Callers : inbox'[d][c] = "nothing"
        /\ \A e \in Daemons \ {d} : inbox'[e] = inbox[e]
    BY DEF Dies, DaemonInv, TypeOK
  <1>2. /\ life' \in [Daemons -> Living \cup {"unborn", "dead"}]
        /\ \A e \in Daemons : life'[e] = "unborn" => life[e] = "unborn"
    BY DEF Dies, Becomes, DaemonInv, TypeOK, Living
  <1>3. portal' \in [Daemons -> Portals] /\ \A e \in Daemons \ {d} : portal'[e] = portal[e]
    BY UnsetIsPortal DEF Dies, DaemonInv, TypeOK
  <1>4. TypeOK' /\ \A e \in Daemons : HoldsInv(e)'
    <2>1. TypeOK'
      BY <1>1, <1>2, <1>3 DEF DaemonInv, TypeOK, Dies
    <2>2. QED
      BY <1>1, <1>2, <1>3, <2>1 DEF DaemonInv, HoldsInv
  <1>5. \A c \in Callers : CallInv(c)'
    BY <1>1, DroppedCall DEF DaemonInv
  <1>6. QED
    BY <1>4, <1>5 DEF DaemonInv

LEMMA StartKeeps ==
  ASSUME DaemonInv, NEW p \in Portals, Start(p),
         UNCHANGED <<socket, pid, stop, inbox, call, staged, made>>
  PROVE  DaemonInv'
  <1>1. PICK d \in Daemons : life[d] = "unborn" /\ Becomes(d, "warming") /\ portal' = [portal EXCEPT ![d] = p]
    BY DEF Start
  <1>2. TypeOK'
    BY <1>1 DEF DaemonInv, TypeOK, Becomes, Living
  <1>3. \A e \in Daemons : HoldsInv(e)'
    BY <1>1 DEF DaemonInv, HoldsInv, TypeOK, Becomes
  <1>4. \A c \in Callers : CallInv(c)'
    BY OtherCall DEF DaemonInv
  <1>5. QED
    BY <1>2, <1>3, <1>4 DEF DaemonInv

\* A caller's step that sends nothing; its requests may be dropped.
LEMMA CallKeeps ==
  ASSUME NEW c \in Callers, DaemonInv, NEW new \in Calls,
         call' = [call EXCEPT ![c] = new],
         new.to = Nobody \/ new.to = call[c].to,
         UNCHANGED <<life, portal, staged, made>>,
         inbox' \in [Daemons -> [Callers -> Stages \cup {"nothing"}]],
         \A d \in Daemons : inbox'[d][c] \in {"nothing", inbox[d][c]},
         \A d \in Daemons, e \in Callers \ {c} : inbox'[d][e] = inbox[d][e],
         {socket', pid'} \subseteq Daemons \cup {Nobody}, stop' \subseteq Daemons,
         kind[c] = "read" => ReadInv(c)',
         kind[c] = "write" => KnowsInv(c)'
  PROVE  DaemonInv'
  <1>1. call' \in [Callers -> Calls] /\ call'[c] = new /\ \A e \in Callers \ {c} : call'[e] = call[e]
    BY DEF DaemonInv, TypeOK
  <1>2. TypeOK'
    BY <1>1, DaemonAssumption DEF DaemonInv, TypeOK
  <1>3. \A d \in Daemons : HoldsInv(d)'
    BY DEF DaemonInv, HoldsInv
  <1>4. ASSUME NEW e \in Callers PROVE CallInv(e)'
    <2>1. CASE e = c
      <3>1. OnItsWay(c)' /\ (kind[c] = "write" => HeldOnceInv(c)')
        BY SameWork DEF DaemonInv, CallInv, HeldOnceInv
      <3>2. QED
        BY <2>1, <3>1 DEF CallInv
    <2>2. CASE e # c
      BY <1>1, <2>2, OtherCall DEF DaemonInv
    <2>3. QED
      BY <2>1, <2>2
  <1>5. QED
    BY <1>2, <1>3, <1>4 DEF DaemonInv

\* The same with no request dropped.
LEMMA QuietCallKeeps ==
  ASSUME NEW c \in Callers, DaemonInv, NEW new \in Calls,
         call' = [call EXCEPT ![c] = new],
         new.to = Nobody \/ new.to = call[c].to,
         UNCHANGED <<life, portal, inbox, staged, made>>,
         {socket', pid'} \subseteq Daemons \cup {Nobody}, stop' \subseteq Daemons,
         kind[c] = "read" => ReadInv(c)',
         kind[c] = "write" => KnowsInv(c)'
  PROVE  DaemonInv'
  <1>1. inbox' \in [Daemons -> [Callers -> Stages \cup {"nothing"}]]
    BY DEF DaemonInv, TypeOK
  <1>2. QED
    BY <1>1, CallKeeps
-----------------------------------------------------------------------------
LEMMA LifeKeeps ==
  ASSUME DaemonInv, NEW d \in Daemons, LifeStep(d) \/ Crash(d)
  PROVE  DaemonInv'
  <1>1. CASE WritePid(d) \/ Bind(d) \/ IdleTimeout(d) \/ Close(d) \/ UnlinkSocket(d)
    <2>1. /\ life' \in [Daemons -> Living \cup {"unborn", "dead"}]
          /\ \A e \in Daemons : life'[e] = "unborn" <=> life[e] = "unborn"
      BY <1>1 DEF DaemonInv, TypeOK, WritePid, Bind, IdleTimeout, WhenIdle, Close, UnlinkSocket, Becomes, Living
    <2>2. TypeOK' /\ UNCHANGED <<portal, inbox, call, staged, made>>
      BY <1>1, <2>1 DEF DaemonInv, TypeOK, WritePid, Bind, IdleTimeout, Close, UnlinkSocket
    <2>3. QED
      BY <2>1, <2>2, OutsideKeeps
  <1>2. CASE WarmFails(d) \/ BindFails(d) \/ Exit(d) \/ Crash(d)
    BY <1>2, DropKeeps DEF WarmFails, BindFails, Exit, Crash, Living, DaemonInv, TypeOK
  <1>3. QED
    BY <1>1, <1>2 DEF LifeStep

\* A daemon's step on one request disturbs nobody else's.
LEMMA HandlingKeeps ==
  ASSUME DaemonInv, NEW d \in Daemons, NEW c \in Callers, life[d] # "unborn",
         NEW after \in Stages \cup {"nothing"}, inbox' = [inbox EXCEPT ![d][c] = after],
         UNCHANGED <<socket, pid, life, portal, stop>>,
         call' \in [Callers -> Calls], \A e \in Callers : call'[e].to = call[e].to,
         staged' \in [Callers -> Seq(Portals)], made' \in [Callers -> Nat],
         \A e \in Callers \ {c} : call'[e] = call[e] /\ staged'[e] = staged[e] /\ made'[e] = made[e],
         CallInv(c)'
  PROVE  DaemonInv'
  <1>1. /\ inbox' \in [Daemons -> [Callers -> Stages \cup {"nothing"}]]
        /\ \A e \in Daemons, x \in Callers : e # d \/ x # c => inbox'[e][x] = inbox[e][x]
    BY DEF DaemonInv, TypeOK
  <1>2. TypeOK'
    <2>1. TypeOK
      BY DEF DaemonInv
    <2>2. /\ {socket', pid'} \subseteq Daemons \cup {Nobody}
          /\ life' \in [Daemons -> Living \cup {"unborn", "dead"}]
          /\ portal' \in [Daemons -> Portals] /\ stop' \subseteq Daemons
      BY <2>1 DEF TypeOK
    <2>3. life' = life /\ \A e \in Callers, x \in Daemons : call[e].to = x => life[x] # "unborn"
      BY <2>1 DEF TypeOK
    <2>4. \A e \in Callers, x \in Daemons : call'[e].to = x => life'[x] # "unborn"
      BY <2>3
    <2>5. QED
      BY <1>1, <2>2, <2>4 DEF TypeOK
  <1>3. ASSUME NEW e \in Daemons PROVE HoldsInv(e)'
    <2>1. HoldsInv(e) /\ life'[e] = life[e]
      BY DEF DaemonInv
    <2>2. QED
      BY <1>1, <2>1 DEF HoldsInv
  <1>4. ASSUME NEW e \in Callers \ {c} PROVE CallInv(e)'
    BY <1>1, OtherCall DEF DaemonInv
  <1>5. QED
    BY <1>2, <1>3, <1>4 DEF DaemonInv

\* What a held request tells of its call: it is the only one, and its caller waits
\* for it or was warned.
LEMMA Held ==
  ASSUME DaemonInv, NEW d \in Daemons, NEW c \in Callers, inbox[d][c] # "nothing", kind[c] = "write"
  PROVE  /\ \A e \in Daemons : e # d => inbox[e][c] = "nothing"
         /\ \/ At(c, "receive") /\ call[c].to = d /\ call[c].answer = "none"
            \/ At(c, "done") /\ call[c].out = "warned"
  BY DEF DaemonInv, CallInv, HeldOnceInv, KnowsInv

\* An answer reaches a caller that still waits, and frees its daemon.
LEMMA ReplyKeeps ==
  ASSUME DaemonInv, NEW d \in Daemons, NEW c \in Callers,
         NEW answer \in Answers \cup {"mismatch"}, NEW stage \in Stages,
         Holds(d, c, stage), Reply(d, c, answer),
         staged' \in [Callers -> Seq(Portals)], made' \in [Callers -> Nat],
         \A e \in Callers \ {c} : staged'[e] = staged[e] /\ made'[e] = made[e],
         OnItsWay(c)', IsTrue(c, answer)',
         kind[c] = "read" => NotBegun(c)' /\ answer \in {"mismatch", "other"}
  PROVE  DaemonInv'
  <1> DEFINE waits == At(c, "receive") /\ call[c].to = d
  <1>1. /\ life[d] # "unborn" /\ inbox[d][c] = stage /\ stage # "nothing"
        /\ inbox' = [inbox EXCEPT ![d][c] = "nothing"]
        /\ UNCHANGED <<socket, pid, life, portal, stop>>
    BY DEF Holds, Reply, Stages
  <1>2. /\ inbox'[d][c] = "nothing"
        /\ \A e \in Daemons, x \in Callers : e # d \/ x # c => inbox'[e][x] = inbox[e][x]
    BY <1>1 DEF DaemonInv, TypeOK
  <1>3. /\ call' \in [Callers -> Calls]
        /\ \A e \in Callers \ {c} : call'[e] = call[e]
        /\ call'[c].at = call[c].at /\ call'[c].to = call[c].to /\ call'[c].out = call[c].out
        /\ call'[c].answer = IF waits THEN answer ELSE call[c].answer
    <2>1. call \in [Callers -> Calls] /\ answer \in Answers \cup {"none", "mismatch"}
      BY DEF DaemonInv, TypeOK
    <2>2. CASE waits
      <3>1. call' = [call EXCEPT ![c].answer = answer]
        BY <2>2 DEF Reply
      <3>2. QED
        BY <2>1, <2>2, <3>1 DEF Calls
    <2>3. CASE ~waits
      BY <2>1, <2>3 DEF Reply
    <2>4. QED
      BY <2>2, <2>3
  <1>4. CASE kind[c] = "read"
    <2>1. ReadInv(c)'
      BY <1>2, <1>3, <1>4 DEF DaemonInv, CallInv, ReadInv
    <2>2. CallInv(c)'
      BY <1>4, <2>1 DEF CallInv
    <2>3. QED
      BY <1>1, <1>3, <2>2, HandlingKeeps
  <1>5. CASE kind[c] = "write"
    <2>1. \A e \in Daemons : inbox'[e][c] = "nothing"
      BY <1>1, <1>2, <1>5, Held
    <2>2. HeldOnceInv(c)'
      BY <2>1 DEF HeldOnceInv
    <2>3. ASSUME At(c, "receive"), call[c].to = d PROVE KnowsInv(c)'
      <3>1. call'[c].answer = answer
        BY <1>3, <2>3
      <3>2. IsTrue(c, call[c].answer)'
        BY <3>1 DEF IsTrue, NotBegun, Stored, Made, Gone
      <3>3. QED
        BY <1>3, <2>1, <2>3, <3>2 DEF KnowsInv
    <2>4. ASSUME At(c, "done"), call[c].out = "warned" PROVE KnowsInv(c)'
      <3>1. IsTrue(c, call[c].out)'
        BY <1>3, <2>4 DEF IsTrue
      <3>2. QED
        BY <1>3, <2>1, <2>4, <3>1 DEF KnowsInv
    <2>5. KnowsInv(c)'
      BY <1>1, <1>5, <2>3, <2>4, Held
    <2>6. CallInv(c)'
      BY <1>5, <2>2, <2>5 DEF CallInv
    <2>7. QED
      BY <1>1, <1>3, <2>6, HandlingKeeps
  <1>6. QED
    BY <1>4, <1>5, DaemonAssumption

\* A daemon that has brought a write further still holds it.
LEMMA ReachesKeeps ==
  ASSUME DaemonInv, NEW d \in Daemons, NEW c \in Callers, kind[c] = "write",
         NEW stage \in Stages, Holds(d, c, stage), NEW after \in {"held", "made"}, Reaches(d, c, after),
         staged' \in [Callers -> Seq(Portals)], made' \in [Callers -> Nat],
         \A e \in Callers \ {c} : staged'[e] = staged[e] /\ made'[e] = made[e],
         after = "held" => Stored(c)', after = "made" => Made(c)'
  PROVE  DaemonInv'
  <1>1. /\ life[d] # "unborn" /\ inbox[d][c] = stage /\ stage # "nothing"
        /\ inbox' = [inbox EXCEPT ![d][c] = after] /\ after \in Stages
        /\ UNCHANGED <<socket, pid, life, portal, stop, call>>
    BY DEF Holds, Reaches, Stages
  <1>2. /\ inbox'[d][c] = after
        /\ \A e \in Daemons, x \in Callers : e # d \/ x # c => inbox'[e][x] = inbox[e][x]
    BY <1>1 DEF DaemonInv, TypeOK
  <1>3. \A e \in Daemons : e # d => inbox'[e][c] = "nothing"
    BY <1>1, <1>2, Held
  <1>4. OnItsWay(c)'
    BY DEF OnItsWay
  <1>5. HeldOnceInv(c)'
    BY <1>2, <1>3 DEF HeldOnceInv
  <1>6. \/ At(c, "receive")' /\ call'[c].to = d /\ call'[c].answer = "none"
        \/ At(c, "done")' /\ call'[c].out = "warned"
    BY <1>1, Held
  <1>7. KnowsInv(c)'
    BY <1>3, <1>6 DEF KnowsInv, IsTrue
  <1>8. CallInv(c)'
    BY <1>4, <1>5, <1>7 DEF CallInv
  <1>9. call' \in [Callers -> Calls]
    BY <1>1 DEF DaemonInv, TypeOK
  <1>10. QED
    BY <1>1, <1>8, <1>9, HandlingKeeps

\* The previews of a write change by its own steps only.
LEMMA StagedIs ==
  ASSUME DaemonInv, NEW c \in Callers, NEW new \in Seq(Portals), staged' = [staged EXCEPT ![c] = new]
  PROVE  /\ staged' \in [Callers -> Seq(Portals)] /\ staged'[c] = new
         /\ \A e \in Callers \ {c} : staged'[e] = staged[e]
  BY DEF DaemonInv, TypeOK

LEMMA StoreIs ==
  ASSUME DaemonInv, NEW d \in Daemons, NEW c \in Callers, Store(d, c)
  PROVE  /\ kind[c] = "write" /\ Holds(d, c, "sent") /\ NotBegun(c) /\ Stored(c)'
         /\ staged' \in [Callers -> Seq(Portals)] /\ made' \in [Callers -> Nat]
         /\ staged' = [staged EXCEPT ![c] = <<target[c]>>] /\ UNCHANGED made
         /\ \A e \in Callers \ {c} : staged'[e] = staged[e] /\ made'[e] = made[e]
  <1>1. kind[c] = "write" /\ Holds(d, c, "sent") /\ portal[d] = target[c] /\ UNCHANGED made
    BY DEF Store, ServesPortal
  <1>2. NotBegun(c)
    BY <1>1 DEF Holds, DaemonInv, CallInv, HeldOnceInv
  <1>3. Append(staged[c], portal[d]) = <<target[c]>> /\ <<target[c]>> \in Seq(Portals)
    BY <1>1, <1>2, DaemonAssumption DEF NotBegun
  <1>4. staged' = [staged EXCEPT ![c] = <<target[c]>>]
    BY <1>3 DEF Store
  <1>5. made \in [Callers -> Nat]
    BY DEF DaemonInv, TypeOK
  <1>6. staged'[c] = <<target[c]>> /\ staged' \in [Callers -> Seq(Portals)]
    BY <1>3, <1>4, StagedIs
  <1>7. Stored(c)'
    BY <1>1, <1>2, <1>6 DEF Stored, NotBegun
  <1>8. QED
    BY <1>1, <1>2, <1>3, <1>4, <1>5, <1>6, <1>7, StagedIs

\* A read is never held beyond "sent", and a held write is where the daemon has it.
LEMMA HeldAt ==
  ASSUME DaemonInv, NEW d \in Daemons, NEW c \in Callers
  PROVE  /\ Holds(d, c, "sent") => NotBegun(c)
         /\ Holds(d, c, "held") => kind[c] = "write" /\ Stored(c)
         /\ Holds(d, c, "made") => kind[c] = "write" /\ Made(c)
  <1>1. kind[c] = "read" => NotBegun(c) /\ inbox[d][c] \in {"nothing", "sent"}
    BY DEF DaemonInv, CallInv, ReadInv
  <1>2. kind[c] = "write" => HeldOnceInv(c)
    BY DEF DaemonInv, CallInv
  <1>3. QED
    BY <1>1, <1>2, DaemonAssumption DEF Holds, HeldOnceInv

LEMMA MakeChangeIs ==
  ASSUME DaemonInv, NEW d \in Daemons, NEW c \in Callers, MakeChange(d, c)
  PROVE  /\ kind[c] = "write" /\ Stored(c) /\ Made(c)'
         /\ made' \in [Callers -> Nat] /\ made' = [made EXCEPT ![c] = 1] /\ UNCHANGED staged
         /\ \A e \in Callers \ {c} : made'[e] = made[e]
  <1>1. kind[c] = "write" /\ Stored(c) /\ UNCHANGED staged
    BY HeldAt DEF MakeChange
  <1>2. made \in [Callers -> Nat] /\ made' = [made EXCEPT ![c] = 1]
    BY <1>1 DEF MakeChange, Stored, DaemonInv, TypeOK
  <1>3. QED
    BY <1>1, <1>2 DEF Stored, Made

LEMMA ClearIs ==
  ASSUME DaemonInv, NEW d \in Daemons, NEW c \in Callers, ClearAndAnswer(d, c)
  PROVE  /\ kind[c] = "write" /\ Made(c) /\ Gone(c)'
         /\ staged' \in [Callers -> Seq(Portals)]
         /\ staged' = [staged EXCEPT ![c] = <<>>] /\ UNCHANGED made
         /\ \A e \in Callers \ {c} : staged'[e] = staged[e]
  <1>1. kind[c] = "write" /\ Made(c) /\ UNCHANGED made
    BY HeldAt DEF ClearAndAnswer
  <1>2. staged' = [staged EXCEPT ![c] = <<>>] /\ <<>> \in Seq(Portals)
    BY DEF ClearAndAnswer
  <1>3. QED
    BY <1>1, <1>2, StagedIs DEF Made, Gone

LEMMA HandleKeeps ==
  ASSUME DaemonInv, NEW d \in Daemons, NEW c \in Callers, HandleStep(d, c)
  PROVE  DaemonInv'
  <1>1. /\ staged \in [Callers -> Seq(Portals)] /\ made \in [Callers -> Nat]
        /\ OnItsWay(c) /\ (kind[c] = "read" => NotBegun(c))
    BY DEF DaemonInv, TypeOK, CallInv, ReadInv
  <1>2. UNCHANGED <<staged, made>> =>
            /\ OnItsWay(c)' /\ (kind[c] = "read" => NotBegun(c)')
            /\ NotBegun(c)' <=> NotBegun(c)
            /\ Stored(c)' <=> Stored(c)
            /\ Made(c)' <=> Made(c)
    BY <1>1 DEF OnItsWay, NotBegun, Stored, Made, Gone
  <1>3. CASE Refuse(d, c) \/ AnswerOther(d, c)
    <2>1. /\ UNCHANGED <<staged, made>> /\ Holds(d, c, "sent")
          /\ \E answer \in {"mismatch", "other"} : Reply(d, c, answer)
      BY <1>3 DEF Refuse, AnswerOther
    <2>2. PICK answer \in {"mismatch", "other"} : Reply(d, c, answer)
      BY <2>1
    <2>3. IsTrue(c, answer)'
      BY <1>2, <2>1, HeldAt DEF IsTrue
    <2>4. answer \in Answers \cup {"mismatch"} /\ "sent" \in Stages
      BY DEF Answers, Stages
    <2>5. QED
      BY <1>1, <1>2, <2>1, <2>2, <2>3, <2>4, ReplyKeeps
  <1>4. CASE StagePreview(d, c)
    <2>1. Store(d, c) /\ Reply(d, c, "preview")
      BY <1>4 DEF StagePreview
    <2>2. IsTrue(c, "preview")' /\ OnItsWay(c)' /\ "preview" \in Answers /\ "sent" \in Stages
      BY <2>1, StoreIs DEF IsTrue, OnItsWay, Answers, Stages
    <2>3. QED
      BY <2>1, <2>2, StoreIs, ReplyKeeps
  <1>5. CASE StageAuto(d, c)
    <2>1. Store(d, c) /\ Reaches(d, c, "held") /\ "sent" \in Stages
      BY <1>5 DEF StageAuto, Stages
    <2>2. QED
      BY <2>1, StoreIs, ReachesKeeps
  <1>6. CASE MakeChange(d, c)
    <2>1. Holds(d, c, "held") /\ Reaches(d, c, "made") /\ "held" \in Stages
      BY <1>6 DEF MakeChange, Stages
    <2>2. QED
      BY <1>1, <1>6, <2>1, MakeChangeIs, ReachesKeeps
  <1>7. CASE AutoApplyFails(d, c) \/ DiskFails(d, c)
    <2>1. /\ UNCHANGED <<staged, made>>
          /\ \E answer \in {"named", "fault"} : Reply(d, c, answer)
          /\ \E stage \in {"held", "made"} : Holds(d, c, stage)
      BY <1>7 DEF AutoApplyFails, DiskFails
    <2>2. PICK answer \in {"named", "fault"} : Reply(d, c, answer)
      BY <2>1
    <2>3. PICK stage \in {"held", "made"} : Holds(d, c, stage)
      BY <2>1
    <2>4. kind[c] = "write" /\ (Stored(c) \/ Made(c))
      BY <2>3, HeldAt
    <2>5. IsTrue(c, answer)'
      BY <1>2, <2>1, <2>4 DEF IsTrue, NotBegun, Stored, Made
    <2>6. answer \in Answers /\ stage \in Stages
      BY DEF Answers, Stages
    <2>7. QED
      BY <1>1, <1>2, <2>1, <2>2, <2>3, <2>4, <2>5, <2>6, ReplyKeeps
  <1>8. CASE ClearAndAnswer(d, c)
    <2>1. Holds(d, c, "made") /\ Reply(d, c, "applied") /\ "made" \in Stages /\ "applied" \in Answers
      BY <1>8 DEF ClearAndAnswer, Stages, Answers
    <2>2. IsTrue(c, "applied")' /\ OnItsWay(c)'
      BY <1>8, ClearIs DEF IsTrue, OnItsWay
    <2>3. QED
      BY <1>1, <1>8, <2>1, <2>2, ClearIs, ReplyKeeps
  <1>9. QED
    BY <1>3, <1>4, <1>5, <1>6, <1>7, <1>8 DEF HandleStep
-----------------------------------------------------------------------------
\* What a caller's step needs to know of its own call.
LEMMA Known ==
  ASSUME DaemonInv, NEW c \in Callers
  PROVE  /\ call[c] \in Calls /\ kind[c] \in {"write", "read"}
         /\ {socket, pid} \subseteq Daemons \cup {Nobody} /\ stop \subseteq Daemons
         /\ kind[c] = "read" => ReadInv(c)
         /\ kind[c] = "write" => HeldOnceInv(c) /\ KnowsInv(c)
  BY DaemonAssumption DEF DaemonInv, TypeOK, CallInv

\* Going on to another step before anything is sent.
LEMMA GotoKeeps ==
  ASSUME DaemonInv, NEW c \in Callers, NEW step \in Steps \ {"receive", "done"}, Goto(c, step),
         ~At(c, "receive"), ~At(c, "done"), UNCHANGED <<life, portal, inbox, staged, made>>,
         {socket', pid'} \subseteq Daemons \cup {Nobody}, stop' \subseteq Daemons
  PROVE  DaemonInv'
  <1> DEFINE new == [call[c] EXCEPT !.at = step]
  <1>1. /\ new \in Calls /\ new.to = call[c].to /\ new.out = call[c].out
        /\ new.at = step /\ new.answer = call[c].answer
    BY Known DEF Calls
  <1>2. call' = [call EXCEPT ![c] = new] /\ call'[c] = new
    BY DEF Goto, DaemonInv, TypeOK
  <1>3. kind[c] = "read" => ReadInv(c)'
    BY <1>1, <1>2, Known, SameWork DEF ReadInv
  <1>4. kind[c] = "write" => KnowsInv(c)'
    BY <1>1, <1>2, Known, SameWork DEF KnowsInv
  <1>5. QED
    BY <1>1, <1>2, <1>3, <1>4, QuietCallKeeps

LEMMA RetryIs ==
  ASSUME DaemonInv, NEW c \in Callers
  PROVE  /\ Retry(c) \in Calls
         /\ [Retry(c) EXCEPT !.answer = "none"] \in Calls
         /\ Retry(c).to = Nobody /\ Retry(c).out = call[c].out /\ Retry(c).answer = call[c].answer
         /\ Retry(c).at \in {"kill", "local"}
  BY Known DEF Retry, Calls, Steps

LEMMA UnreachableKeeps ==
  ASSUME DaemonInv, NEW c \in Callers, Unreachable(c)
  PROVE  DaemonInv'
  <1>1. call' = [call EXCEPT ![c] = Retry(c)] /\ call'[c] = Retry(c)
    BY DEF Unreachable, DaemonInv, TypeOK
  <1>2. ~At(c, "receive") /\ ~At(c, "done") /\ UNCHANGED <<socket, pid, life, portal, stop, inbox, staged, made>>
    BY DEF Unreachable
  <1>3. kind[c] = "read" => ReadInv(c)'
    <2>1. kind[c] = "read" => NotBegun(c)'
      BY <1>2, Known, SameWork DEF ReadInv
    <2>2. call'[c].answer = call[c].answer /\ call'[c].out = call[c].out
      BY <1>1, RetryIs
    <2>3. \A d \in Daemons : inbox'[d][c] = inbox[d][c]
      BY <1>2
    <2>4. QED
      BY <2>1, <2>2, <2>3, Known DEF ReadInv
  <1>4. kind[c] = "write" => KnowsInv(c)'
    BY <1>1, <1>2, Known, RetryIs, SameWork DEF KnowsInv
  <1>5. QED
    BY <1>1, <1>2, <1>3, <1>4, Known, RetryIs, QuietCallKeeps

LEMMA NoAnswerKeeps ==
  ASSUME DaemonInv, NEW c \in Callers, NoAnswer(c)
  PROVE  DaemonInv'
  <1>1. /\ At(c, "receive") /\ call[c].answer = "none"
        /\ UNCHANGED <<socket, pid, life, portal, stop, staged, made>>
    BY DEF NoAnswer
  <1>2. CASE kind[c] = "write"
    <2>1. Over("warned") \in Calls
      BY DEF Over, Calls, Steps, Outs
    <2>2. call' = [call EXCEPT ![c] = Over("warned")] /\ call'[c] = Over("warned") /\ UNCHANGED inbox
      BY <1>2 DEF NoAnswer, AfterPostSend, DaemonInv, TypeOK
    <2>3. KnowsInv(c)'
      BY <2>2 DEF KnowsInv, Over, IsTrue
    <2>4. QED
      BY <1>1, <1>2, <2>1, <2>2, <2>3, Known, QuietCallKeeps DEF Over
  <1>3. CASE kind[c] = "read"
    <2>1. call' = [call EXCEPT ![c] = Retry(c)] /\ call'[c] = Retry(c)
      BY <1>3 DEF NoAnswer, AfterPostSend, DaemonInv, TypeOK
    <2>2. /\ inbox' \in [Daemons -> [Callers -> Stages \cup {"nothing"}]]
          /\ \A d \in Daemons : inbox'[d][c] \in {"nothing", inbox[d][c]}
          /\ \A d \in Daemons, e \in Callers \ {c} : inbox'[d][e] = inbox[d][e]
      BY <1>3 DEF NoAnswer, DaemonInv, TypeOK
    <2>3. ReadInv(c)'
      <3>1. ReadInv(c) /\ NotBegun(c)'
        BY <1>1, <1>3, Known, SameWork DEF ReadInv
      <3>2. QED
        BY <2>1, <2>2, <3>1, RetryIs DEF ReadInv
    <2>4. QED
      BY <1>1, <1>3, <2>1, <2>2, <2>3, Known, RetryIs, CallKeeps
  <1>4. QED
    BY <1>2, <1>3, Known

LEMMA ShownIs ==
  ASSUME DaemonInv, NEW c \in Callers, At(c, "receive"), call[c].answer # "none"
  PROVE  /\ Shown(c) \in Answers
         /\ kind[c] = "write" => IsTrue(c, Shown(c)) /\ \A d \in Daemons : inbox[d][c] = "nothing"
         /\ kind[c] = "read" => Shown(c) = "other"
  <1>1. call[c].answer \in Answers \cup {"mismatch"}
    BY Known DEF Calls
  <1>2. kind[c] = "write" => IsTrue(c, call[c].answer)
    BY Known DEF KnowsInv
  <1>3. QED
    BY <1>1, <1>2, Known DEF Shown, IsTrue, KnowsInv, ReadInv, Answers

LEMMA ReceiveKeeps ==
  ASSUME DaemonInv, NEW c \in Callers, Receive(c)
  PROVE  DaemonInv'
  <1>1. /\ At(c, "receive") /\ call[c].answer # "none"
        /\ UNCHANGED <<socket, pid, life, portal, stop, inbox, staged, made>>
    BY DEF Receive
  <1>2. CASE call[c].answer = "mismatch" /\ call[c].attempt = 1
    <2> DEFINE new == [Retry(c) EXCEPT !.answer = "none"]
    <2>1. /\ call' = [call EXCEPT ![c] = new] /\ call'[c] = new
          /\ new.at \in {"kill", "local"} /\ new.answer = "none" /\ new.to = Nobody /\ new.out = call[c].out
      <3>1. call' = [call EXCEPT ![c] = new] /\ call'[c] = new
        BY <1>2 DEF Receive, DaemonInv, TypeOK
      <3>2. new.at = Retry(c).at /\ new.to = Retry(c).to /\ new.out = Retry(c).out /\ new.answer = "none"
        BY RetryIs DEF Calls
      <3>3. QED
        BY <3>1, <3>2, RetryIs
    <2>2. kind[c] = "read" => ReadInv(c)'
      BY <1>1, <2>1, Known, SameWork DEF ReadInv
    <2>3. kind[c] = "write" => NotBegun(c) /\ \A d \in Daemons : inbox[d][c] = "nothing"
      BY <1>1, <1>2, Known DEF KnowsInv, IsTrue
    <2>4. kind[c] = "write" => KnowsInv(c)'
      BY <1>1, <2>1, <2>3, SameWork DEF KnowsInv
    <2>5. QED
      BY <1>1, <2>1, <2>2, <2>4, Known, RetryIs, QuietCallKeeps
  <1>3. CASE ~(call[c].answer = "mismatch" /\ call[c].attempt = 1)
    <2> DEFINE new == Over(Shown(c))
    <2>1. call' = [call EXCEPT ![c] = new] /\ call'[c] = new
      BY <1>3 DEF Receive, Finish, DaemonInv, TypeOK
    <2>2. /\ new \in Calls /\ new.at = "done" /\ new.to = Nobody /\ new.answer = "none"
          /\ new.out = Shown(c)
      BY <1>1, ShownIs DEF Over, Calls, Steps, Outs
    <2> HIDE DEF new
    <2>3. kind[c] = "read" => ReadInv(c)'
      BY <1>1, <2>1, <2>2, Known, ShownIs, SameWork DEF ReadInv
    <2>4. kind[c] = "write" => IsTrue(c, Shown(c)) /\ \A d \in Daemons : inbox[d][c] = "nothing"
      BY <1>1, ShownIs
    <2>5. kind[c] = "write" => IsTrue(c, call[c].out)'
      <3>1. call'[c].out = Shown(c)
        BY <2>1, <2>2
      <3>2. QED
        BY <1>1, <2>4, <3>1 DEF IsTrue, NotBegun, Stored, Made, Gone
    <2>6. kind[c] = "write" => KnowsInv(c)'
      BY <1>1, <2>1, <2>2, <2>4, <2>5 DEF KnowsInv
    <2>7. QED
      BY <1>1, <2>1, <2>2, <2>3, <2>6, Known, QuietCallKeeps
  <1>4. QED
    BY <1>2, <1>3

LEMMA ConnectKeeps ==
  ASSUME DaemonInv, NEW c \in Callers, Connect(c)
  PROVE  DaemonInv'
  <1>1. /\ At(c, "send") /\ socket \in Daemons /\ life[socket] = "serving"
        /\ UNCHANGED <<socket, pid, life, portal, stop, staged, made>>
    BY Known DEF Connect, Listens
  <1> DEFINE new == [call[c] EXCEPT !.at = "receive", !.to = socket]
  <1>2. /\ new \in Calls /\ new.at = "receive" /\ new.to = socket
        /\ new.answer = call[c].answer /\ new.out = call[c].out
    BY <1>1, Known DEF Calls, Steps
  <1>3. /\ call' = [call EXCEPT ![c] = new] /\ call'[c] = new
        /\ \A e \in Callers \ {c} : call'[e] = call[e]
    BY DEF Connect, DaemonInv, TypeOK
  <1> HIDE DEF new
  <1>4. /\ inbox' \in [Daemons -> [Callers -> Stages \cup {"nothing"}]]
        /\ inbox'[socket][c] = "sent"
        /\ \A d \in Daemons, e \in Callers : d # socket \/ e # c => inbox'[d][e] = inbox[d][e]
    BY <1>1 DEF Connect, DaemonInv, TypeOK, Stages
  <1>5. TypeOK'
    <2>1. \A e \in Callers, d \in Daemons : call'[e].to = d => life'[d] # "unborn"
      BY <1>1, <1>2, <1>3 DEF DaemonInv, TypeOK
    <2>2. call' \in [Callers -> Calls]
      BY <1>2, <1>3 DEF DaemonInv, TypeOK
    <2>3. QED
      BY <1>1, <1>4, <2>1, <2>2 DEF DaemonInv, TypeOK
  <1>6. ASSUME NEW d \in Daemons PROVE HoldsInv(d)'
    <2>1. HoldsInv(d) /\ life'[d] = life[d]
      BY <1>1 DEF DaemonInv
    <2>2. \A e \in Callers : inbox'[d][e] = inbox[d][e] \/ (inbox'[d][e] = "sent" /\ life[d] # "unborn")
      BY <1>1, <1>4
    <2>3. QED
      BY <2>1, <2>2 DEF HoldsInv
  <1>7. ASSUME NEW e \in Callers PROVE CallInv(e)'
    <2>1. CASE e # c
      BY <1>1, <1>3, <1>4, <2>1, OtherCall DEF DaemonInv
    <2>2. CASE e = c
      <3>1. kind[c] = "read" => ReadInv(c)'
        BY <1>1, <1>2, <1>3, <1>4, Known, SameWork DEF ReadInv
      <3>2. ASSUME kind[c] = "write"
            PROVE  /\ NotBegun(c)' /\ call[c].answer = "none"
                   /\ \A d \in Daemons : d # socket => inbox'[d][c] = "nothing"
        BY <1>1, <1>4, <3>2, Known, SameWork DEF KnowsInv
      <3>3. kind[c] = "write" => HeldOnceInv(c)'
        BY <1>4, <3>2 DEF HeldOnceInv
      <3>4. kind[c] = "write" => KnowsInv(c)'
        BY <1>2, <1>3, <1>4, <3>2 DEF KnowsInv, IsTrue
      <3>5. OnItsWay(c)'
        BY <1>1, SameWork DEF DaemonInv, CallInv
      <3>6. QED
        BY <2>2, <3>1, <3>3, <3>4, <3>5 DEF CallInv
    <2>3. QED
      BY <2>1, <2>2
  <1>8. QED
    BY <1>5, <1>6, <1>7 DEF DaemonInv

\* The end of a call that runs in process: what it tells is what it left.
LEMMA InProcessIs ==
  ASSUME DaemonInv, NEW c \in Callers, RunInProcess(c)
  PROVE  /\ NotBegun(c) /\ ~At(c, "receive") /\ ~At(c, "done")
         /\ staged' \in [Callers -> Seq(Portals)] /\ made' \in [Callers -> Nat]
         /\ staged' = [staged EXCEPT ![c] = staged'[c]] /\ made' = [made EXCEPT ![c] = made'[c]]
         /\ OnItsWay(c)' /\ (NotBegun(c)' \/ kind[c] = "write")
         /\ \E out \in Answers : /\ call' = [call EXCEPT ![c] = Over(out)] /\ IsTrue(c, out)'
                                 /\ out # "other" => kind[c] = "write"
  <1>1. At(c, "local") /\ NotBegun(c)
    BY Known DEF RunInProcess, ReadInv, KnowsInv
  <1>2. /\ staged \in [Callers -> Seq(Portals)] /\ made \in [Callers -> Nat]
        /\ Append(staged[c], target[c]) = <<target[c]>> /\ <<target[c]>> \in Seq(Portals)
        /\ made[c] + 1 = 1
    BY <1>1, DaemonAssumption DEF DaemonInv, TypeOK, NotBegun
  <1>3. CASE Finish(c, "other") /\ UNCHANGED <<staged, made>>
    <2>1. NotBegun(c)' /\ OnItsWay(c)' /\ IsTrue(c, "other")'
      BY <1>1, <1>3, SameWork DEF OnItsWay, IsTrue
    <2>2. QED
      BY <1>1, <1>2, <1>3, <2>1 DEF Finish, Answers
  <1>4. CASE /\ kind[c] = "write" /\ staged' = [staged EXCEPT ![c] = Append(@, target[c])]
             /\ UNCHANGED made /\ \E out \in {"preview", "named", "fault"} : Finish(c, out)
    <2>1. staged' = [staged EXCEPT ![c] = <<target[c]>>]
      BY <1>2, <1>4
    <2>2. Stored(c)' /\ staged' \in [Callers -> Seq(Portals)]
      BY <1>1, <1>2, <1>4, <2>1 DEF Stored, NotBegun
    <2>3. OnItsWay(c)' /\ \A out \in {"preview", "named", "fault"} : IsTrue(c, out)'
      BY <2>2 DEF OnItsWay, IsTrue, NotBegun, Stored
    <2>4. QED
      BY <1>1, <1>2, <1>4, <2>1, <2>2, <2>3 DEF Finish, Answers
  <1>5. CASE /\ kind[c] = "write" /\ staged' = [staged EXCEPT ![c] = Append(@, target[c])]
             /\ made' = [made EXCEPT ![c] = @ + 1] /\ \E out \in {"named", "fault"} : Finish(c, out)
    <2>1. staged' = [staged EXCEPT ![c] = <<target[c]>>] /\ made' = [made EXCEPT ![c] = 1]
      BY <1>2, <1>5
    <2>2. Made(c)' /\ staged' \in [Callers -> Seq(Portals)] /\ made' \in [Callers -> Nat]
      BY <1>2, <2>1 DEF Made
    <2>3. OnItsWay(c)' /\ \A out \in {"named", "fault"} : IsTrue(c, out)'
      BY <2>2 DEF OnItsWay, IsTrue, NotBegun, Made
    <2>4. QED
      BY <1>1, <1>5, <2>1, <2>2, <2>3 DEF Finish, Answers
  <1>6. CASE /\ kind[c] = "write" /\ UNCHANGED staged
             /\ made' = [made EXCEPT ![c] = @ + 1] /\ \E out \in {"applied", "fault"} : Finish(c, out)
    <2>1. made' = [made EXCEPT ![c] = 1]
      BY <1>2, <1>6
    <2>2. Gone(c)' /\ made' \in [Callers -> Nat]
      BY <1>1, <1>2, <1>6, <2>1 DEF Gone, NotBegun
    <2>3. OnItsWay(c)' /\ \A out \in {"applied", "fault"} : IsTrue(c, out)'
      BY <2>2 DEF OnItsWay, IsTrue, NotBegun, Gone
    <2>4. QED
      BY <1>1, <1>2, <1>6, <2>1, <2>2, <2>3 DEF Finish, Answers
  <1>7. QED
    BY <1>3, <1>4, <1>5, <1>6 DEF RunInProcess

LEMMA RunInProcessKeeps ==
  ASSUME DaemonInv, NEW c \in Callers, RunInProcess(c)
  PROVE  DaemonInv'
  <1>1. UNCHANGED <<socket, pid, life, portal, stop, inbox>>
    BY DEF RunInProcess
  <1>2. PICK out \in Answers : /\ call' = [call EXCEPT ![c] = Over(out)] /\ IsTrue(c, out)'
                               /\ out # "other" => kind[c] = "write"
    BY InProcessIs
  <1>3. Over(out) \in Calls /\ Over(out).out = out /\ Over(out).at = "done" /\ Over(out).to = Nobody
        /\ Over(out).answer = "none"
    BY DEF Over, Calls, Steps, Outs
  <1>4. /\ call' \in [Callers -> Calls] /\ call'[c] = Over(out)
        /\ \A e \in Callers \ {c} : call'[e] = call[e]
    BY <1>2, <1>3 DEF DaemonInv, TypeOK
  <1>5. \A e \in Callers \ {c} : staged'[e] = staged[e] /\ made'[e] = made[e]
    BY InProcessIs DEF DaemonInv, TypeOK
  <1>6. CallInv(c)'
    <2>1. kind[c] = "read" => ReadInv(c)'
      BY <1>1, <1>2, <1>3, <1>4, InProcessIs, Known, DaemonAssumption DEF ReadInv
    <2>2. kind[c] = "write" => \A d \in Daemons : inbox'[d][c] = "nothing"
      BY <1>1, InProcessIs, Known DEF KnowsInv
    <2>3. kind[c] = "write" => HeldOnceInv(c)'
      BY <2>2 DEF HeldOnceInv
    <2>4. IsTrue(c, call[c].out)'
      BY <1>2, <1>3, <1>4 DEF IsTrue, NotBegun, Stored, Made, Gone
    <2>5. kind[c] = "write" => KnowsInv(c)'
      BY <1>3, <1>4, <2>2, <2>4 DEF KnowsInv
    <2>6. QED
      BY <2>1, <2>3, <2>5, InProcessIs DEF CallInv
  <1>7. TypeOK'
    <2>1. \A e \in Callers, d \in Daemons : call'[e].to = d => call[e].to = d
      BY <1>3, <1>4, DaemonAssumption
    <2>2. TypeOK /\ life' = life
      BY <1>1 DEF DaemonInv
    <2>3. \A e \in Callers, d \in Daemons : call'[e].to = d => life'[d] # "unborn"
      BY <2>1, <2>2 DEF TypeOK
    <2>4. QED
      BY <1>1, <1>4, <2>2, <2>3, InProcessIs DEF TypeOK
  <1>8. \A d \in Daemons : HoldsInv(d)'
    BY <1>1 DEF DaemonInv, HoldsInv
  <1>9. \A e \in Callers \ {c} : CallInv(e)'
    BY <1>1, <1>4, <1>5, OtherCall DEF DaemonInv
  <1>10. QED
    BY <1>6, <1>7, <1>8, <1>9 DEF DaemonInv

LEMMA CallerKeeps ==
  ASSUME DaemonInv, NEW c \in Callers, CallerStep(c)
  PROVE  DaemonInv'
  <1>1. CASE IsDaemonAlive(c)
    BY <1>1, Known, GotoKeeps DEF IsDaemonAlive, Steps
  <1>2. CASE CleanUp(c)
    BY <1>2, Known, GotoKeeps DEF CleanUp, UnlinkBoth, Steps
  <1>3. CASE StartDaemon(c)
    <2>1. PICK d \in Daemons : /\ life[d] = "unborn" /\ Becomes(d, "warming")
                               /\ portal' = [portal EXCEPT ![d] = target[c]]
      BY <1>3 DEF StartDaemon, Start
    <2> DEFINE new == [call[c] EXCEPT !.at = "await"]
    <2>2. /\ At(c, "spawn") /\ UNCHANGED <<socket, pid, stop, inbox, staged, made>>
          /\ call' = [call EXCEPT ![c] = new] /\ call'[c] = new
          /\ \A e \in Callers \ {c} : call'[e] = call[e]
      BY <1>3 DEF StartDaemon, Goto, DaemonInv, TypeOK
    <2>3. /\ new \in Calls /\ new.to = call[c].to /\ new.out = call[c].out
          /\ new.at = "await" /\ new.answer = call[c].answer
      BY Known DEF Calls, Steps
    <2>4. target[c] \in Portals
      BY DaemonAssumption
    <2>5. TypeOK'
      <3>1. /\ life' \in [Daemons -> Living \cup {"unborn", "dead"}] /\ portal' \in [Daemons -> Portals]
            /\ \A e \in Daemons : life'[e] = "unborn" => life[e] = "unborn"
        BY <2>1, <2>4 DEF DaemonInv, TypeOK, Becomes, Living
      <3>2. call' \in [Callers -> Calls] /\ \A e \in Callers : call'[e].to = call[e].to
        BY <2>2, <2>3 DEF DaemonInv, TypeOK
      <3>3. QED
        BY <2>2, <3>1, <3>2 DEF DaemonInv, TypeOK
    <2>6. \A e \in Daemons : HoldsInv(e)'
      BY <2>1, <2>2 DEF DaemonInv, HoldsInv, TypeOK, Becomes
    <2>7. ASSUME NEW e \in Callers PROVE CallInv(e)'
      <3>1. CASE e # c
        BY <2>2, <2>7, <3>1, OtherCall DEF DaemonInv
      <3>2. CASE e = c
        <4>1. kind[c] = "read" => ReadInv(c)'
          BY <2>2, <2>3, Known, SameWork DEF ReadInv
        <4>2. kind[c] = "write" => HeldOnceInv(c)' /\ KnowsInv(c)'
          BY <2>2, <2>3, Known, SameWork DEF HeldOnceInv, KnowsInv
        <4>3. OnItsWay(c)'
          BY <2>2, SameWork DEF DaemonInv, CallInv
        <4>4. QED
          BY <3>2, <4>1, <4>2, <4>3 DEF CallInv
      <3>3. QED
        BY <3>1, <3>2
    <2>8. QED
      BY <2>5, <2>6, <2>7 DEF DaemonInv
  <1>4. CASE StartFails(c)
    BY <1>4, Known, GotoKeeps DEF StartFails, Steps
  <1>5. CASE SocketAppears(c)
    BY <1>5, Known, GotoKeeps DEF SocketAppears, Steps
  <1>6. CASE NoSocketInTime(c)
    BY <1>6, Known, GotoKeeps DEF NoSocketInTime, Deadline, Steps
  <1>7. CASE KillDaemon(c)
    <2>1. stop' \subseteq Daemons
      BY <1>7, Known DEF KillDaemon, Alive
    <2>2. QED
      BY <1>7, <2>1, Known, GotoKeeps DEF KillDaemon, Steps
  <1>8. CASE Killed(c)
    BY <1>8, Known, GotoKeeps DEF Killed, UnlinkBoth, Steps
  <1>9. QED
    BY <1>1, <1>2, <1>3, <1>4, <1>5, <1>6, <1>7, <1>8, UnreachableKeeps, NoAnswerKeeps,
       ReceiveKeeps, ConnectKeeps, RunInProcessKeeps DEF CallerStep

LEMMA OperatorKeeps ==
  ASSUME DaemonInv, Serve \/ ServeStop
  PROVE  DaemonInv'
  <1>1. CASE Serve
    BY <1>1, StartKeeps DEF Serve
  <1>2. CASE ServeStop
    <2>1. TypeOK' /\ UNCHANGED <<portal, inbox, call, staged, made, life>>
      BY <1>2 DEF DaemonInv, TypeOK, ServeStop, UnlinkBoth, Listens
    <2>2. QED
      BY <2>1, OutsideKeeps
  <1>3. QED
    BY <1>1, <1>2

\* However daemons and callers interleave, every request a daemon holds is the
\* only one of its call, and every caller's knowledge of it is right.
THEOREM DaemonInvariant == Spec => []DaemonInv
  <1>1. Init => DaemonInv
    BY InitInv
  <1>2. DaemonInv /\ [Next]_vars => DaemonInv'
    <2> SUFFICES ASSUME DaemonInv, [Next]_vars PROVE DaemonInv'
      OBVIOUS
    <2>1. CASE Next
      BY <2>1, LifeKeeps, HandleKeeps, CallerKeeps, OperatorKeeps DEF Next
    <2>2. CASE UNCHANGED vars
      <3>1. TypeOK' /\ UNCHANGED <<portal, inbox, call, staged, made, life>>
        BY <2>2 DEF vars, DaemonInv, TypeOK
      <3>2. QED
        BY <3>1, OutsideKeeps
    <2>3. QED
      BY <2>1, <2>2
  <1>3. QED
    BY <1>1, <1>2, PTL DEF Spec

\* The state keeps its types, and whatever a caller waits for has been started.
THEOREM TypeCorrect == Spec => []TypeOK
  <1>1. DaemonInv => TypeOK
    BY DEF DaemonInv
  <1>2. QED
    BY <1>1, DaemonInvariant, PTL

\* One write call has at most one preview and makes its change at most once, under
\* its caller's portal, whatever daemons die, hang up or answer late (router.py, the
\* split before and after the send).
THEOREM WrittenOnce == Spec => []OneWritePerCall
  <1>1. ASSUME DaemonInv PROVE OneWritePerCall
    <2>1. ASSUME NEW c \in Callers
          PROVE  /\ made[c] <= 1 /\ Len(staged[c]) <= 1
                 /\ \A i \in DOMAIN staged[c] : staged[c][i] = target[c]
      <3>1. made[c] \in {0, 1} /\ staged[c] \in {<<>>, <<target[c]>>}
        BY <1>1 DEF DaemonInv, CallInv, OnItsWay, NotBegun, Stored, Made, Gone
      <3>2. CASE staged[c] = <<>>
        BY <3>1, <3>2
      <3>3. CASE staged[c] = <<target[c]>>
        BY <3>1, <3>3
      <3>4. QED
        BY <3>1, <3>2, <3>3
    <2>2. QED
      BY <2>1 DEF OneWritePerCall
  <1>2. QED
    BY <1>1, DaemonInvariant, PTL

\* A call that is over has told of the preview it leaves and of the change it made,
\* or warned of them, or handed on an error of the disk, and tells of none that is
\* not there: also when handle_tool fails to apply what it has just stored.
THEOREM CallersAreTold == Spec => []WritesAreTold
  <1>1. ASSUME DaemonInv PROVE WritesAreTold
    <2>1. ASSUME NEW c \in Callers, At(c, "done")
          PROVE  IsTrue(c, call[c].out) /\ (kind[c] = "read" => NotBegun(c) /\ call[c].out \in {"none", "other"})
      BY <1>1, <2>1, Known DEF KnowsInv, ReadInv, IsTrue
    <2>2. QED
      BY <2>1 DEF WritesAreTold, IsTrue, NotBegun, Stored, Made, Gone
  <1>2. QED
    BY <1>1, DaemonInvariant, PTL

-----------------------------------------------------------------------------
(* The refinement of StoreOnce. *)

\* A caller has been told something if and only if its call is over.
ToldInv == \A c \in Callers : At(c, "done") <=> call[c].out # "none"

Told    == [c \in Callers |-> call[c].out]
Written == [c \in Callers |-> [stored |-> staged[c], made |-> made[c]]]

\* The stages of the abstract write and of this one.
LEMMA SameWay ==
  ASSUME NEW c \in Callers
  PROVE  /\ NotBegun(c) <=> Written[c] = Call!Way(c)[1]
         /\ Stored(c) <=> Written[c] = Call!Way(c)[2]
         /\ Made(c) <=> Written[c] = Call!Way(c)[3]
         /\ Gone(c) <=> Written[c] = Call!Way(c)[4]
  BY DEF NotBegun, Stored, Made, Gone, Written, Call!Way

LEMMA SameWayThen ==
  ASSUME NEW c \in Callers
  PROVE  /\ NotBegun(c)' <=> Written'[c] = Call!Way(c)[1]
         /\ Stored(c)' <=> Written'[c] = Call!Way(c)[2]
         /\ Made(c)' <=> Written'[c] = Call!Way(c)[3]
         /\ Gone(c)' <=> Written'[c] = Call!Way(c)[4]
  BY DEF NotBegun, Stored, Made, Gone, Written, Call!Way

\* A step that does nothing to any write and tells nobody.
LEMMA QuietStutters ==
  ASSUME ToldInv, UNCHANGED <<staged, made>>,
         \A c \in Callers : call'[c].out = call[c].out /\ (call'[c].at = "done" <=> call[c].at = "done")
  PROVE  ToldInv' /\ [Call!Next]_<<Written, Told>>
  BY DEF ToldInv, Told, Written

\* The part of a step that brings a write further.
LEMMA Further ==
  ASSUME DaemonInv, NEW c \in Callers, kind[c] = "write", Told[c] \in {"none", "warned"},
         OnItsWay(c), OnItsWay(c)',
         staged' = [staged EXCEPT ![c] = staged'[c]], made' = [made EXCEPT ![c] = made'[c]],
         \/ NotBegun(c) /\ ~NotBegun(c)'
         \/ Stored(c) /\ Made(c)'
         \/ Made(c) /\ Gone(c)'
  PROVE  Call!Goes(c)
  <1>1. Written' = [Written EXCEPT ![c] = Written'[c]]
    <2>1. \A e \in Callers \ {c} : staged'[e] = staged[e] /\ made'[e] = made[e]
      BY DEF DaemonInv, TypeOK
    <2>2. QED
      BY <2>1 DEF Written
  <1>2. \E i, j \in 1..4 : i < j /\ Written[c] = Call!Way(c)[i] /\ Written'[c] = Call!Way(c)[j]
    <2>1. CASE NotBegun(c) /\ ~NotBegun(c)'
      BY <2>1, SameWay, SameWayThen DEF OnItsWay
    <2>2. CASE Stored(c) /\ Made(c)'
      BY <2>2, SameWay, SameWayThen
    <2>3. CASE Made(c) /\ Gone(c)'
      BY <2>3, SameWay, SameWayThen
    <2>4. QED
      BY <2>1, <2>2, <2>3
  <1>3. QED
    BY <1>1, <1>2 DEF Call!Goes, Told, Written

\* Daemons only hand a caller an answer.
LEMMA ReplyIsQuiet ==
  ASSUME DaemonInv, ToldInv, NEW d \in Daemons, NEW c \in Callers, NEW answer, Reply(d, c, answer)
  PROVE  ToldInv' /\ UNCHANGED Told
  <1>1. \A e \in Callers : call'[e].out = call[e].out /\ call'[e].at = call[e].at
    BY DEF Reply, DaemonInv, TypeOK, Calls
  <1>2. QED
    BY <1>1 DEF ToldInv, Told

\* A daemon's step on a write: its caller still waits or was warned.
LEMMA HandleMaps ==
  ASSUME DaemonInv, ToldInv, NEW d \in Daemons, NEW c \in Callers, HandleStep(d, c)
  PROVE  ToldInv' /\ [Call!Next]_<<Written, Told>>
  <1>1. CASE Refuse(d, c) \/ AnswerOther(d, c) \/ AutoApplyFails(d, c) \/ DiskFails(d, c)
    <2>1. UNCHANGED Written /\ \E answer : Reply(d, c, answer)
      BY <1>1 DEF Refuse, AnswerOther, AutoApplyFails, DiskFails, Written
    <2>2. QED
      BY <2>1, ReplyIsQuiet
  <1>2. ASSUME kind[c] = "write", NEW stage \in Stages, Holds(d, c, stage)
        PROVE  Told[c] \in {"none", "warned"} /\ OnItsWay(c)
    <2>1. inbox[d][c] # "nothing"
      BY <1>2 DEF Holds, Stages
    <2>2. QED
      BY <1>2, <2>1, Held DEF ToldInv, Told, DaemonInv, CallInv
  <1>3. CASE StagePreview(d, c) \/ StageAuto(d, c)
    <2>1. Store(d, c) /\ "sent" \in Stages
      BY <1>3 DEF StagePreview, StageAuto, Stages
    <2>2. ToldInv' /\ UNCHANGED Told
      BY <1>3, ReplyIsQuiet DEF StagePreview, StageAuto, Reaches, ToldInv, Told
    <2>3. Stored(c)'
      BY <2>1, StoreIs
    <2>4. OnItsWay(c)' /\ ~NotBegun(c)'
      BY <2>3 DEF OnItsWay, NotBegun, Stored
    <2>5. staged' = [staged EXCEPT ![c] = staged'[c]] /\ made' = [made EXCEPT ![c] = made'[c]]
      BY <2>1, StoreIs DEF DaemonInv, TypeOK
    <2>6. Call!Goes(c)
      BY <1>2, <2>1, <2>4, <2>5, StoreIs, Further
    <2>7. QED
      BY <2>2, <2>6 DEF Call!Next, Told
  <1>4. CASE MakeChange(d, c)
    <2>1. Holds(d, c, "held") /\ "held" \in Stages /\ UNCHANGED call
      BY <1>4 DEF MakeChange, Reaches, Stages
    <2>2. ToldInv' /\ UNCHANGED Told
      BY <2>1 DEF ToldInv, Told
    <2>3. staged' = [staged EXCEPT ![c] = staged'[c]] /\ made' = [made EXCEPT ![c] = made'[c]]
      BY <1>4, MakeChangeIs DEF DaemonInv, TypeOK
    <2>4. Call!Goes(c)
      BY <1>2, <1>4, <2>1, <2>3, MakeChangeIs, Further DEF OnItsWay
    <2>5. QED
      BY <2>2, <2>4 DEF Call!Next, Told
  <1>5. CASE ClearAndAnswer(d, c)
    <2>1. Holds(d, c, "made") /\ "made" \in Stages /\ Reply(d, c, "applied")
      BY <1>5 DEF ClearAndAnswer, Stages
    <2>2. ToldInv' /\ UNCHANGED Told
      BY <2>1, ReplyIsQuiet
    <2>3. staged' = [staged EXCEPT ![c] = staged'[c]] /\ made' = [made EXCEPT ![c] = made'[c]]
      BY <1>5, ClearIs DEF DaemonInv, TypeOK
    <2>4. Call!Goes(c)
      BY <1>2, <1>5, <2>1, <2>3, ClearIs, Further DEF OnItsWay
    <2>5. QED
      BY <2>2, <2>4 DEF Call!Next, Told
  <1>6. QED
    BY <1>1, <1>3, <1>4, <1>5 DEF HandleStep

\* The step of a caller that is not over by it.
LEMMA GoingOnIsQuiet ==
  ASSUME DaemonInv, ToldInv, NEW c \in Callers, NEW new, ~At(c, "done"),
         new.at # "done", new.out = call[c].out, call' = [call EXCEPT ![c] = new],
         UNCHANGED <<staged, made>>
  PROVE  ToldInv' /\ [Call!Next]_<<Written, Told>>
  <1>1. \A e \in Callers : call'[e] = IF e = c THEN new ELSE call[e]
    BY DEF DaemonInv, TypeOK
  <1>2. QED
    BY <1>1, QuietStutters

LEMMA GotoIsQuiet ==
  ASSUME DaemonInv, ToldInv, NEW c \in Callers, NEW step \in Steps \ {"done"}, ~At(c, "done"),
         Goto(c, step), UNCHANGED <<staged, made>>
  PROVE  ToldInv' /\ [Call!Next]_<<Written, Told>>
  <1> DEFINE new == [call[c] EXCEPT !.at = step]
  <1>1. new.at # "done" /\ new.out = call[c].out
    BY Known DEF Calls, Steps
  <1>2. call' = [call EXCEPT ![c] = new]
    BY DEF Goto, DaemonInv, TypeOK
  <1> HIDE DEF new
  <1>3. QED
    BY <1>1, <1>2, GoingOnIsQuiet

\* The end of a call: it tells what is the case by then.
LEMMA EndTells ==
  ASSUME DaemonInv, ToldInv, NEW c \in Callers, ~At(c, "done"),
         NEW out \in Answers \cup {"warned"}, call' = [call EXCEPT ![c] = Over(out)],
         IsTrue(c, out)', out = "warned" => kind[c] = "write",
         OnItsWay(c)', UNCHANGED Written \/ Call!Goes(c)
  PROVE  ToldInv' /\ [Call!Next]_<<Written, Told>>
  <1>1. \A e \in Callers : call'[e] = IF e = c THEN Over(out) ELSE call[e]
    BY DEF DaemonInv, TypeOK
  <1>2. ToldInv'
    BY <1>1 DEF ToldInv, Over, Answers
  <1>3. Told[c] = "none" /\ Told' = [Told EXCEPT ![c] = out]
    <2>1. Over(out).out = out
      BY DEF Over
    <2>2. \A e \in Callers : call'[e].out = IF e = c THEN out ELSE call[e].out
      BY <1>1, <2>1
    <2>3. call[c].out = "none"
      BY DEF ToldInv
    <2>4. QED
      BY <2>2, <2>3 DEF Told
  <1>4. Call!Fits(c, out, Written'[c])
    <2>1. /\ out = "preview" => Stored(c)'
          /\ out = "applied" => Gone(c)'
          /\ out = "named" => Stored(c)' \/ Made(c)'
          /\ out = "fault" => ~NotBegun(c)'
          /\ out = "other" => NotBegun(c)'
      BY DEF IsTrue
    <2>2. QED
      BY <2>1, SameWayThen DEF Call!Fits
  <1>5. Call!Tells(c)
    BY <1>3, <1>4 DEF Call!Tells, Told, Written, Answers
  <1>6. QED
    BY <1>2, <1>5 DEF Call!Next, Told, Written

LEMMA ReceiveTells ==
  ASSUME DaemonInv, ToldInv, NEW c \in Callers, Receive(c)
  PROVE  ToldInv' /\ [Call!Next]_<<Written, Told>>
  <1>1. At(c, "receive") /\ call[c].answer # "none" /\ UNCHANGED <<staged, made>>
    BY DEF Receive
  <1>2. CASE call[c].answer = "mismatch" /\ call[c].attempt = 1
    <2> DEFINE new == [Retry(c) EXCEPT !.answer = "none"]
    <2>1. new.at # "done" /\ new.out = call[c].out
      BY RetryIs DEF Calls
    <2>2. call' = [call EXCEPT ![c] = new]
      BY <1>2 DEF Receive
    <2> HIDE DEF new
    <2>3. QED
      BY <1>1, <2>1, <2>2, GoingOnIsQuiet
  <1>3. CASE ~(call[c].answer = "mismatch" /\ call[c].attempt = 1)
    <2>1. call' = [call EXCEPT ![c] = Over(Shown(c))]
      BY <1>3 DEF Receive, Finish
    <2>2. PICK out \in Answers : out = Shown(c)
      BY <1>1, ShownIs
    <2>3. IsTrue(c, out)
      <3>1. CASE kind[c] = "write"
        BY <1>1, <2>2, <3>1, ShownIs
      <3>2. CASE kind[c] = "read"
        BY <1>1, <2>2, <3>2, ShownIs, Known DEF ReadInv, IsTrue
      <3>3. QED
        BY <3>1, <3>2, Known
    <2>4. IsTrue(c, out)' /\ OnItsWay(c)'
      BY <1>1, <2>3, SameWork DEF DaemonInv, CallInv
    <2>5. UNCHANGED Written /\ out # "warned" /\ ~At(c, "done")
      BY <1>1 DEF Written, Answers
    <2>6. QED
      BY <2>1, <2>2, <2>4, <2>5, EndTells
  <1>4. QED
    BY <1>2, <1>3

LEMMA InProcessTells ==
  ASSUME DaemonInv, ToldInv, NEW c \in Callers, RunInProcess(c)
  PROVE  ToldInv' /\ [Call!Next]_<<Written, Told>>
  <1>1. /\ ~At(c, "done") /\ NotBegun(c) /\ OnItsWay(c)' /\ (NotBegun(c)' \/ kind[c] = "write")
        /\ staged' = [staged EXCEPT ![c] = staged'[c]] /\ made' = [made EXCEPT ![c] = made'[c]]
    BY InProcessIs
  <1>2. PICK out \in Answers : call' = [call EXCEPT ![c] = Over(out)] /\ IsTrue(c, out)'
    BY InProcessIs
  <1>3. UNCHANGED Written \/ Call!Goes(c)
    <2>1. CASE NotBegun(c)'
      <3>1. \A e \in Callers : staged'[e] = staged[e] /\ made'[e] = made[e]
        BY <1>1, <2>1 DEF NotBegun, DaemonInv, TypeOK
      <3>2. QED
        BY <3>1 DEF Written
    <2>2. CASE ~NotBegun(c)'
      <3>1. Told[c] = "none"
        BY <1>1 DEF ToldInv, Told
      <3>2. QED
        BY <1>1, <2>2, <3>1, Further DEF OnItsWay
    <2>3. QED
      BY <2>1, <2>2
  <1>4. out # "warned"
    BY DEF Answers
  <1>5. QED
    BY <1>1, <1>2, <1>3, <1>4, EndTells

LEMMA CallerMaps ==
  ASSUME DaemonInv, ToldInv, NEW c \in Callers, CallerStep(c)
  PROVE  ToldInv' /\ [Call!Next]_<<Written, Told>>
  <1>1. CASE IsDaemonAlive(c) \/ CleanUp(c) \/ StartDaemon(c) \/ StartFails(c) \/ SocketAppears(c)
                \/ NoSocketInTime(c) \/ KillDaemon(c) \/ Killed(c)
    <2>1. PICK step \in Steps \ {"done"} : Goto(c, step) /\ ~At(c, "done") /\ UNCHANGED <<staged, made>>
      BY <1>1 DEF IsDaemonAlive, CleanUp, StartDaemon, StartFails, SocketAppears,
                  NoSocketInTime, Deadline, KillDaemon, Killed, Steps
    <2>2. QED
      BY <2>1, GotoIsQuiet
  <1>2. CASE Connect(c)
    <2> DEFINE new == [call[c] EXCEPT !.at = "receive", !.to = socket]
    <2>1. new.at # "done" /\ new.out = call[c].out
      BY Known DEF Calls
    <2>2. call' = [call EXCEPT ![c] = new] /\ ~At(c, "done") /\ UNCHANGED <<staged, made>>
      BY <1>2 DEF Connect, DaemonInv, TypeOK
    <2> HIDE DEF new
    <2>3. QED
      BY <2>1, <2>2, GoingOnIsQuiet
  <1>3. CASE Unreachable(c)
    BY <1>3, RetryIs, GoingOnIsQuiet DEF Unreachable
  <1>4. CASE NoAnswer(c)
    <2>1. CASE kind[c] = "write"
      <3>1. /\ call' = [call EXCEPT ![c] = Over("warned")] /\ ~At(c, "done")
            /\ UNCHANGED <<staged, made>>
        BY <1>4, <2>1 DEF NoAnswer, AfterPostSend
      <3>2. UNCHANGED Written /\ OnItsWay(c)' /\ IsTrue(c, "warned")'
        BY <3>1, SameWork DEF Written, DaemonInv, CallInv, IsTrue
      <3>3. QED
        BY <2>1, <3>1, <3>2, EndTells
    <2>2. CASE kind[c] # "write"
      BY <1>4, <2>2, RetryIs, GoingOnIsQuiet DEF NoAnswer, AfterPostSend
    <2>3. QED
      BY <2>1, <2>2
  <1>5. QED
    BY <1>1, <1>2, <1>3, <1>4, ReceiveTells, InProcessTells DEF CallerStep

LEMMA StepMaps ==
  ASSUME DaemonInv, ToldInv, [Next]_vars
  PROVE  ToldInv' /\ [Call!Next]_<<Written, Told>>
  <1>1. CASE UNCHANGED <<call, staged, made>>
    BY <1>1, QuietStutters
  <1>2. ASSUME NEW d \in Daemons, LifeStep(d) \/ Crash(d)
        PROVE  UNCHANGED <<call, staged, made>>
    BY <1>2 DEF LifeStep, IdleTimeout, Crash, WarmFails, WritePid, Bind, BindFails, Close, UnlinkSocket, Exit
  <1>3. ASSUME NEW d \in Daemons, NEW c \in Callers, HandleStep(d, c)
        PROVE  ToldInv' /\ [Call!Next]_<<Written, Told>>
    BY <1>3, HandleMaps
  <1>4. Serve \/ ServeStop \/ UNCHANGED vars => UNCHANGED <<call, staged, made>>
    BY DEF Serve, ServeStop, vars
  <1>5. QED
    BY <1>1, <1>2, <1>3, <1>4, CallerMaps DEF Next

\* Whatever the daemons and the callers do, a call keeps what StoreOnce promises
\* of it: router.py, the split before and after the send, and handle_tool in a
\* daemon or in process.
THEOREM CallsStoreOnce == Spec => ImplementsStoreOnce
  <1>1. Init => ToldInv /\ Call!Init
    BY DEF Init, ToldInv, Call!Init, Call!Way
  <1>2. DaemonInv /\ ToldInv /\ [Next]_vars => ToldInv' /\ [Call!Next]_Call!callVars
    BY StepMaps DEF Call!callVars, Told, Written
  <1>3. QED
    BY <1>1, <1>2, DaemonInvariant, PTL DEF Spec, ImplementsStoreOnce, Call!Spec
=============================================================================
