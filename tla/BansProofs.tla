------------------------------ MODULE BansProofs ------------------------------
(***************************************************************************)
(* Proofs about Bans, for any number of requests, any durations and any    *)
(* bound of the strikes: its types, and that the strikes of an identity    *)
(* have a time to live.  About ClientAddress, for any addresses, any       *)
(* proxies and any headers.  And about Ingress, for any hosts, any limits  *)
(* and any requests.                                                       *)
(***************************************************************************)
EXTENDS Bans, Ingress, TLAPS

-----------------------------------------------------------------------------
(* The inductive invariant *)

\* A request that sets a ban has counted a strike.
CountedInv == \A r \in Requests : req[r].stage \in {"expire", "set"} => req[r].n > 0

IInv == TypeOK /\ CountedInv /\ StrikesTimed

-----------------------------------------------------------------------------
(* Lemmas *)

LEMMA Settings ==
    /\ MaxStrikes \in Nat /\ MaxStrikes > 1 /\ Window \in Nat /\ Window > 0
    /\ Base \in Nat /\ Factor \in Nat /\ Unit \in Nat /\ MaxBan \in Nat
BY ConstantsAssumption

LEMMA Places ==
    ASSUME NEW stage \in Stages, NEW n \in 0 .. MaxStrikes
    PROVE  /\ At(stage, n) \in [stage : Stages, n : 0 .. MaxStrikes]
           /\ At(stage, n).stage = stage /\ At(stage, n).n = n
BY DEF At

\* A ban lasts a natural number of seconds.
LEMMA Durations ==
    ASSUME NEW n \in 1 .. MaxStrikes
    PROVE  Duration(n) \in Nat
<1>1. Factor ^ (n - 1) \in Nat /\ Unit ^ (n - 1) \in Nat \ {0}
    BY PowersAssumption
<1>2. \A a \in Nat, b \in Nat \ {0} : (Base * a) \div b \in Nat
    <2>1. \A a \in Nat : Base * a \in Nat
        BY Settings
    <2>2. \A c \in Nat, b \in Nat \ {0} : c \div b \in Nat
        OBVIOUS
    <2>. QED
        BY <2>1, <2>2
<1>3. (Base * Factor ^ (n - 1)) \div Unit ^ (n - 1) \in Nat
    BY <1>1, <1>2
<1>. QED
    BY <1>3, Settings DEF Duration, Least

\* The counter keeps its type when it is counted up, timed, or counted down.
LEMMA CounterTypes ==
    ASSUME TypeOK
    PROVE  /\ strikes.n \in 0 .. MaxStrikes /\ strikes.timed \in BOOLEAN /\ strikes.ttl \in 0 .. Window
           /\ strikes = [n |-> strikes.n, timed |-> strikes.timed, ttl |-> strikes.ttl]
           /\ (strikes.timed <=> strikes.ttl > 0)
           /\ strikes.timed => strikes.n > 0
           /\ NoStrikes \in Strikes /\ NoStrikes.n = 0 /\ ~NoStrikes.timed /\ NoStrikes.ttl = 0
BY Settings DEF TypeOK, Strikes, NoStrikes

\* A request goes to another place.
LEMMA Going ==
    ASSUME TypeOK, NEW r \in Requests, NEW stage \in Stages, NEW n \in 0 .. MaxStrikes,
           Goto(r, At(stage, n))
    PROVE  /\ req' \in [Requests -> [stage : Stages, n : 0 .. MaxStrikes]]
           /\ req'[r].stage = stage /\ req'[r].n = n
           /\ \A q \in Requests \ {r} : req'[q] = req[q]
BY Places DEF TypeOK, Goto

\* The place of a request keeps what is said of it, when it goes to one at
\* which nothing is said.
LEMMA GoingOn ==
    ASSUME IInv, NEW r \in Requests, NEW stage \in Stages \ {"expire", "set"}, NEW n \in 0 .. MaxStrikes,
           Goto(r, At(stage, n))
    PROVE  CountedInv'
BY Going DEF IInv, CountedInv

\* StrikesTimed, when the counter stays and no request gives up its EXPIRE.
LEMMA StillTimed ==
    ASSUME StrikesTimed, UNCHANGED <<strikes, broken>>,
           \A r \in Requests : req[r].stage = "expire" => req'[r].stage = "expire"
    PROVE  StrikesTimed'
BY DEF StrikesTimed

-----------------------------------------------------------------------------
(* The invariant is inductive *)

LEMMA Initially ==
    ASSUME Init PROVE IInv
<1>1. NoStrikes \in Strikes /\ NoStrikes.n = 0 /\ ~NoStrikes.timed /\ NoStrikes.ttl = 0
    BY Settings DEF NoStrikes, Strikes
<1>2. Idle \in [stage : Stages, n : 0 .. MaxStrikes] /\ Idle.stage = "idle"
    BY Settings, Places DEF Idle, Stages
<1>3. Asleep \in Sync
    BY DEF Asleep, Sync
<1>4. (NoStrikes.timed <=> NoStrikes.ttl > 0)
    BY <1>1 DEF NoStrikes
<1>. QED
    BY <1>1, <1>2, <1>3, <1>4 DEF Init, IInv, TypeOK, CountedInv, StrikesTimed

\* Requests that only look, or give up another command than EXPIRE.
LEMMA PassKeeps ==
    ASSUME IInv, NEW r \in Requests, Check(r) \/ Leave(r) \/ Overflow(r) PROVE IInv'
<1>. USE DEF IInv
<1>1. PICK stage \in {"idle", "passed"} : Goto(r, At(stage, 0))
    BY DEF Check, Leave, Overflow, Idle
<1>2. stage \in Stages \ {"expire", "set"} /\ 0 \in 0 .. MaxStrikes
    BY Settings DEF Stages
<1>3. UNCHANGED <<redisVars, syncVars, broken>> /\ req[r].stage # "expire"
    BY Settings, Places DEF Check, Leave, Overflow, Idle, Stages
<1>4. TypeOK'
    BY <1>1, <1>2, <1>3, Going DEF TypeOK, redisVars, syncVars
<1>5. StrikesTimed'
  <2>1. \A q \in Requests : req[q].stage = "expire" => req'[q].stage = "expire"
    BY <1>1, <1>2, <1>3, Going
  <2>. QED
    BY <1>3, <2>1, StillTimed DEF redisVars
<1>. QED
    BY <1>1, <1>2, <1>4, <1>5, GoingOn

LEMMA CountKeeps ==
    ASSUME IInv, NEW r \in Requests, Count(r) PROVE IInv'
<1>. USE DEF IInv
<1>. DEFINE n == Least(strikes.n + 1, MaxStrikes)
<1>1. /\ req[r].stage \in {"idle", "passed"}
      /\ strikes' = [strikes EXCEPT !.n = n]
      /\ \/ Goto(r, AfterCount(n)) /\ UNCHANGED broken
         \/ Goto(r, Idle) /\ broken' = (broken \/ n = 1)
      /\ UNCHANGED <<ban, syncVars>>
    BY DEF Count
<1>2. n \in 1 .. MaxStrikes /\ n \in 0 .. MaxStrikes /\ (n = 1 => strikes.n = 0)
    BY CounterTypes, Settings DEF Least
<1>3. strikes' = [n |-> n, timed |-> strikes.timed, ttl |-> strikes.ttl]
    BY <1>1, CounterTypes
<1>4. /\ strikes' \in Strikes /\ (strikes'.timed <=> strikes'.ttl > 0)
      /\ strikes'.timed => strikes'.n > 0
      /\ strikes'.n = n /\ strikes'.timed = strikes.timed
    BY <1>2, <1>3, CounterTypes DEF Strikes
<1>5. CASE Goto(r, AfterCount(n)) /\ UNCHANGED broken
  <2>. DEFINE stage == IF n = 1 THEN "expire" ELSE "set"
  <2>1. stage \in Stages /\ Goto(r, At(stage, n))
    BY <1>5 DEF AfterCount, Stages
  <2>2. /\ req' \in [Requests -> [stage : Stages, n : 0 .. MaxStrikes]]
        /\ req'[r].stage = stage /\ req'[r].n = n
        /\ \A q \in Requests \ {r} : req'[q] = req[q]
    BY <1>2, <2>1, Going
  <2>3. TypeOK'
    BY <1>1, <1>4, <1>5, <2>2 DEF TypeOK, syncVars
  <2>4. CountedInv'
    BY <1>2, <2>2 DEF CountedInv
  <2>5. StrikesTimed'
    <3>1. CASE n = 1
      BY <2>2, <3>1 DEF StrikesTimed
    <3>2. CASE n # 1
      <4>1. strikes.n > 0
        BY <1>2, <3>2, CounterTypes, Settings DEF Least
      <4>. QED
        BY <1>1, <1>4, <1>5, <2>2, <4>1 DEF StrikesTimed
    <3>. QED
      BY <3>1, <3>2
  <2>. QED
    BY <2>3, <2>4, <2>5
<1>6. CASE Goto(r, Idle) /\ broken' = (broken \/ n = 1)
  <2>1. /\ req' \in [Requests -> [stage : Stages, n : 0 .. MaxStrikes]]
        /\ \A q \in Requests \ {r} : req'[q] = req[q]
        /\ req'[r].stage = "idle"
    BY <1>6, Settings, Going DEF Idle, Stages
  <2>2. TypeOK'
    BY <1>1, <1>4, <1>6, <2>1 DEF TypeOK, syncVars
  <2>3. CountedInv'
    BY <2>1 DEF CountedInv
  <2>4. StrikesTimed'
    <3>1. CASE n = 1
      BY <1>6, <3>1 DEF StrikesTimed
    <3>2. CASE n # 1
      <4>1. strikes.n > 0
        BY <1>2, <3>2, CounterTypes, Settings DEF Least
      <4>. QED
        BY <1>1, <1>4, <1>6, <2>1, <4>1 DEF StrikesTimed
    <3>. QED
      BY <3>1, <3>2
  <2>. QED
    BY <2>2, <2>3, <2>4
<1>. QED
    BY <1>1, <1>5, <1>6

LEMMA ExpireKeeps ==
    ASSUME IInv, NEW r \in Requests, Expire(r) PROVE IInv'
<1>. USE DEF IInv
<1>1. /\ req[r].stage = "expire" /\ strikes' = Timed
      /\ Goto(r, At("set", req[r].n)) \/ Goto(r, Idle)
      /\ broken' = FALSE /\ UNCHANGED <<ban, syncVars>>
    BY DEF Expire
<1>2. req[r].n \in 0 .. MaxStrikes /\ req[r].n > 0
    BY <1>1 DEF TypeOK, CountedInv
<1>3. /\ strikes' \in Strikes /\ (strikes'.timed <=> strikes'.ttl > 0)
      /\ (strikes'.timed <=> strikes'.n > 0)
  <2>1. CASE strikes.n = 0
    BY <1>1, <2>1, CounterTypes DEF Timed, TypeOK
  <2>2. CASE strikes.n # 0
    <3>1. strikes' = [n |-> strikes.n, timed |-> TRUE, ttl |-> Window]
      BY <1>1, <2>2, CounterTypes DEF Timed
    <3>. QED
      BY <2>2, <3>1, CounterTypes, Settings DEF Strikes
  <2>. QED
    BY <2>1, <2>2
<1>4. /\ req' \in [Requests -> [stage : Stages, n : 0 .. MaxStrikes]]
      /\ CountedInv'
  <2>1. CASE Goto(r, At("set", req[r].n))
    BY <1>2, <2>1, Going DEF Stages, CountedInv
  <2>2. CASE Goto(r, Idle)
    BY <2>2, Settings, Going, GoingOn DEF Idle, Stages
  <2>. QED
    BY <1>1, <2>1, <2>2
<1>5. TypeOK'
    BY <1>1, <1>3, <1>4 DEF TypeOK, syncVars
<1>6. StrikesTimed'
    BY <1>3 DEF StrikesTimed
<1>. QED
    BY <1>4, <1>5, <1>6

LEMMA SetBanKeeps ==
    ASSUME IInv, NEW r \in Requests, SetBan(r) PROVE IInv'
<1>. USE DEF IInv
<1>1. /\ req[r].stage = "set" /\ ban' = Duration(req[r].n) /\ Goto(r, Idle)
      /\ UNCHANGED <<strikes, syncVars, broken>>
    BY DEF SetBan
<1>2. ban' \in Nat
  <2>1. req[r].n \in 1 .. MaxStrikes
    BY <1>1, Settings DEF TypeOK, CountedInv
  <2>. QED
    BY <1>1, <2>1, Durations
<1>3. /\ req' \in [Requests -> [stage : Stages, n : 0 .. MaxStrikes]]
      /\ \A q \in Requests \ {r} : req'[q] = req[q]
    BY <1>1, Settings, Going DEF Idle, Stages
<1>4. CountedInv'
    BY <1>1, Settings, GoingOn DEF Idle, Stages
<1>5. TypeOK'
    BY <1>1, <1>2, <1>3 DEF TypeOK, syncVars
<1>6. StrikesTimed'
    BY <1>1, <1>3, StillTimed
<1>. QED
    BY <1>4, <1>5, <1>6

LEMMA CommandFailsKeeps ==
    ASSUME IInv, NEW r \in Requests, CommandFails(r) PROVE IInv'
<1>. USE DEF IInv
<1>1. /\ Goto(r, Idle)
      /\ broken' = (broken \/ (req[r].stage = "expire" /\ strikes.n > 0))
      /\ UNCHANGED <<redisVars, syncVars>>
    BY DEF CommandFails
<1>2. /\ req' \in [Requests -> [stage : Stages, n : 0 .. MaxStrikes]]
      /\ \A q \in Requests \ {r} : req'[q] = req[q]
    BY <1>1, Settings, Going DEF Idle, Stages
<1>3. CountedInv'
    BY <1>1, Settings, GoingOn DEF Idle, Stages
<1>4. TypeOK'
    BY <1>1, <1>2 DEF TypeOK, redisVars, syncVars
<1>5. StrikesTimed'
    BY <1>1, <1>2 DEF StrikesTimed, redisVars
<1>. QED
    BY <1>3, <1>4, <1>5

LEMMA UnbanKeeps ==
    ASSUME IInv, NEW r \in Requests, UnbanBan(r) \/ UnbanStrikes(r) PROVE IInv'
<1>. USE DEF IInv
<1>1. CASE UnbanBan(r)
  <2>1. /\ Goto(r, At("forgive", 0)) /\ ban' = 0 /\ req[r].stage # "expire"
        /\ UNCHANGED <<strikes, syncVars, broken>>
    BY <1>1 DEF UnbanBan, Idle, At
  <2>2. /\ req' \in [Requests -> [stage : Stages, n : 0 .. MaxStrikes]]
        /\ \A q \in Requests \ {r} : req'[q] = req[q]
    BY <2>1, Settings, Going DEF Stages
  <2>3. CountedInv'
    BY <2>1, Settings, GoingOn DEF Stages
  <2>4. TypeOK'
    BY <2>1, <2>2 DEF TypeOK, syncVars
  <2>5. StrikesTimed'
    BY <2>1, <2>2, StillTimed
  <2>. QED
    BY <2>3, <2>4, <2>5
<1>2. CASE UnbanStrikes(r)
  <2>1. /\ Goto(r, Idle) /\ strikes' = NoStrikes /\ broken' = FALSE
        /\ UNCHANGED <<ban, syncVars>>
    BY <1>2 DEF UnbanStrikes
  <2>2. req' \in [Requests -> [stage : Stages, n : 0 .. MaxStrikes]]
    BY <2>1, Settings, Going DEF Idle, Stages
  <2>3. CountedInv'
    BY <2>1, Settings, GoingOn DEF Idle, Stages
  <2>4. (NoStrikes.timed <=> NoStrikes.ttl > 0)
    BY DEF NoStrikes
  <2>5. TypeOK'
    BY <2>1, <2>2, <2>4, CounterTypes DEF TypeOK, syncVars
  <2>6. StrikesTimed'
    BY <2>1, CounterTypes DEF StrikesTimed
  <2>. QED
    BY <2>3, <2>5, <2>6
<1>. QED
    BY <1>1, <1>2

LEMMA WipeKeeps ==
    ASSUME IInv, Wipe PROVE IInv'
<1>1. (NoStrikes.timed <=> NoStrikes.ttl > 0)
    BY DEF NoStrikes
<1>2. TypeOK'
    BY <1>1, CounterTypes DEF IInv, Wipe, TypeOK, syncVars
<1>. QED
    BY <1>2, CounterTypes DEF IInv, Wipe, CountedInv, StrikesTimed

LEMMA TickKeeps ==
    ASSUME IInv, Tick PROVE IInv'
<1>. USE DEF IInv
<1>1. /\ ban' = IF ban > 0 THEN ban - 1 ELSE 0
      /\ broken' = (broken /\ strikes'.n > 0)
      /\ UNCHANGED <<req, syncVars>>
    BY DEF Tick
<1>2. /\ strikes' \in Strikes /\ (strikes'.timed <=> strikes'.ttl > 0)
      /\ strikes'.timed => strikes'.n > 0
      /\ \/ strikes' = strikes
         \/ strikes'.n = 0
         \/ strikes'.timed
  <2>1. CASE ~strikes.timed
    BY <2>1 DEF Tick, TypeOK
  <2>2. CASE strikes.timed /\ strikes.ttl = 1
    <3>1. strikes' = NoStrikes /\ (NoStrikes.timed <=> NoStrikes.ttl > 0)
      BY <2>2 DEF Tick, NoStrikes
    <3>. QED
      BY <3>1, CounterTypes
  <2>3. CASE strikes.timed /\ strikes.ttl # 1
    <3>1. strikes' = [n |-> strikes.n, timed |-> TRUE, ttl |-> strikes.ttl - 1]
      BY <2>3, CounterTypes DEF Tick
    <3>. QED
      BY <2>3, <3>1, CounterTypes, Settings DEF Strikes
  <2>. QED
    BY <2>1, <2>2, <2>3
<1>3. TypeOK'
    BY <1>1, <1>2 DEF TypeOK, syncVars
<1>4. CountedInv'
    BY <1>1 DEF CountedInv
<1>5. StrikesTimed'
  <2>1. SUFFICES ASSUME strikes'.n > 0, ~strikes'.timed
                 PROVE  broken' \/ \E r \in Requests : req[r].stage = "expire"
    BY <1>1 DEF StrikesTimed
  <2>2. strikes' = strikes /\ strikes.n > 0
    BY <1>2, <2>1
  <2>3. broken \/ \E r \in Requests : req[r].stage = "expire"
    BY <2>1, <2>2 DEF StrikesTimed
  <2>. QED
    BY <1>1, <2>1, <2>3, Zenon
<1>. QED
    BY <1>3, <1>4, <1>5

\* The sidecar only reads Redis.
LEMMA SyncKeeps ==
    ASSUME IInv, SyncList \/ SyncFlush \/ SyncAdd \/ SyncFails PROVE IInv'
<1>1. UNCHANGED <<redisVars, req, broken>>
    BY DEF SyncList, SyncFlush, SyncAdd, SyncFails
<1>2. sync' \in Sync /\ kernel' \in BOOLEAN
  <2>1. CASE SyncList
    BY <2>1 DEF IInv, TypeOK, SyncList, Sync
  <2>2. CASE SyncFlush
    <3>1. sync' = [stage |-> "flushed", found |-> sync.found]
      BY <2>2 DEF IInv, TypeOK, SyncFlush, Sync
    <3>. QED
      BY <2>2, <3>1 DEF IInv, TypeOK, SyncFlush, Flushed, Sync
  <2>3. CASE SyncAdd
    BY <2>3 DEF IInv, TypeOK, SyncAdd, Asleep, Sync
  <2>4. CASE SyncFails
    BY <2>4 DEF IInv, TypeOK, SyncFails, Asleep, Sync
  <2>. QED
    BY <2>1, <2>2, <2>3, <2>4
<1>. QED
    BY <1>1, <1>2 DEF IInv, TypeOK, CountedInv, StrikesTimed, redisVars

LEMMA Inductive ==
    ASSUME IInv, [Next]_vars PROVE IInv'
<1>1. CASE UNCHANGED vars
    BY <1>1 DEF IInv, vars, redisVars, syncVars, TypeOK, CountedInv, StrikesTimed
<1>2. CASE Next
    BY <1>2, PassKeeps, CountKeeps, ExpireKeeps, SetBanKeeps, CommandFailsKeeps, UnbanKeeps,
       WipeKeeps, TickKeeps, SyncKeeps DEF Next, Proceed
<1>. QED
    BY <1>1, <1>2

-----------------------------------------------------------------------------
(* Theorems *)

\* The inductive invariant holds in every reachable state.
THEOREM InvariantHolds == Spec => []IInv
<1>1. Init => IInv
    BY Initially
<1>2. IInv /\ [Next]_vars => IInv'
    BY Inductive
<1>. QED
    BY <1>1, <1>2, PTL DEF Spec

\* A time to live is never given to a counter that is gone, and a ban always
\* has a number of seconds (reputation.py:60-80).
THEOREM TypeCorrect == Spec => []TypeOK
<1>1. IInv => TypeOK
    BY DEF IInv
<1>. QED
    BY <1>1, InvariantHolds, PTL

\* A counter of strikes without a time to live is about to be given one, or one
\* of the commands of a ban has failed (reputation.py:66-70).
THEOREM StrikesHaveTime == Spec => []StrikesTimed
<1>1. IInv => StrikesTimed
    BY DEF IInv
<1>. QED
    BY <1>1, InvariantHolds, PTL

\* What a client writes into the header never makes it another client: behind
\* Hops proxies, and without any (client_ip.py:38-63).
THEOREM AddressesKept == AddressKept
<1>1. ASSUME NEW client \in Addresses, NEW path \in [1 .. Hops -> Trusted], NEW forged \in Headers,
             Hops > 0
      PROVE  Resolve(path[Hops], forged \o Appended(client, path)) = client
  <2>. DEFINE h == forged \o Appended(client, path)
  <2>1. /\ Hops \in Nat /\ forged \in Seq(Addresses) /\ path[Hops] \in Trusted
        /\ Trusted \subseteq Addresses
    BY <1>1, AddressAssumption
  <2>2. /\ Appended(client, path) \in Seq(Addresses)
        /\ Len(Appended(client, path)) = Hops
        /\ Appended(client, path)[1] = client
    <3>1. DOMAIN path = 1 .. Hops
      OBVIOUS
    <3>2. Appended(client, path) = [i \in 1 .. Hops |-> IF i = 1 THEN client ELSE path[i - 1]]
      BY <3>1 DEF Appended
    <3>3. \A i \in 1 .. Hops : i # 1 => path[i - 1] \in Addresses
      BY <2>1
    <3>4. \A i \in 1 .. Hops : (IF i = 1 THEN client ELSE path[i - 1]) \in Addresses
      BY <3>3
    <3>. QED
      BY <1>1, <2>1, <3>2, <3>4
  <2>3. /\ h \in Seq(Addresses) /\ Len(h) = Len(forged) + Hops
        /\ h[Len(forged) + 1] = client
        /\ Len(forged) \in Nat
    BY <1>1, <2>1, <2>2
  <2>4. Position(Len(h)) = Len(forged) + 1
    BY <1>1, <2>1, <2>3 DEF Position
  <2>. QED
    BY <1>1, <2>1, <2>3, <2>4 DEF Resolve
<1>2. ASSUME NEW client \in Addresses \ Trusted, NEW forged \in Headers
      PROVE  Resolve(client, forged) = client
    BY <1>2 DEF Resolve
<1>. QED
    BY <1>1, <1>2 DEF AddressKept

-----------------------------------------------------------------------------
(* The ways in *)

\* An answer of the engine or of what it wraps.
Answers == [status : Int, marks : SUBSET {"gate", "kms"},
            reached : SUBSET {"device", "host", "sentinel", "engine", "size", "app"},
            records : SUBSET Int]

LEMMA AppAnswer ==
    ASSUME NEW r \in Request
    PROVE  LET a == App(r) IN
             /\ a \in Answers /\ a.reached = {"app"} /\ a.marks = {} /\ a.records = {}
             /\ Crashed(r, a) => a.status = 500
BY DEF Request, Outcomes, App, Answer, Answers, Crashed

LEMMA SecurityHeadersAnswer ==
    ASSUME NEW r \in Request
    PROVE  LET a == SecurityHeaders(r, App(r)) IN
             /\ a \in Answers /\ a.reached = {"app"} /\ a.records = {}
             /\ a.marks = IF r.outcome = "raises" THEN {} ELSE {"kms"}
<1> DEFINE a == App(r)
<1>1. a \in Answers /\ a.reached = {"app"} /\ a.marks = {} /\ a.records = {}
    BY AppAnswer
<1> HIDE DEF a
<1>2. SecurityHeaders(r, a) = IF r.outcome = "raises" THEN a ELSE [a EXCEPT !.marks = {"kms"}]
    BY <1>1 DEF SecurityHeaders
<1>3. LET b == SecurityHeaders(r, a) IN
         /\ b \in Answers /\ b.reached = {"app"} /\ b.records = {}
         /\ b.marks = IF r.outcome = "raises" THEN {} ELSE {"kms"}
    BY <1>1, <1>2 DEF Answers
<1>4. QED  BY <1>3 DEF a

LEMMA SizeAnswer ==
    ASSUME NEW r \in Request, NEW most \in Int, NEW inner \in Answers
    PROVE  LET a == BodySizeLimit(most, r, inner) IN
             /\ a \in Answers
             /\ r.length = NoNumber \/ IsLonger(r.length, most) =>
                   a.marks = {} /\ a.reached = {"size"} /\ a.records = {}
             /\ r.length # NoNumber /\ ~IsLonger(r.length, most) =>
                   a.marks = inner.marks /\ a.records = inner.records /\ a.status = inner.status
                   /\ a.reached = inner.reached \union {"size"}
BY DEF BodySizeLimit, Answer, Through, Answers

LEMMA HostAnswer ==
    ASSUME NEW r \in Request, NEW hosts, NEW inner \in Answers
    PROVE  LET a == HostGate(hosts, r, inner)
               known == ~HostsChecked(hosts) \/ \E i \in DOMAIN hosts : hosts[i] = r.host
           IN
             /\ a \in Answers
             /\ ~known => a.marks = {} /\ a.reached = {"host"} /\ a.records = {}
             /\ known =>
                   a.marks = inner.marks /\ a.records = inner.records /\ a.status = inner.status
                   /\ a.reached = inner.reached \union {"host"}
BY DEF HostGate, Answer, Through, Answers

LEMMA SentinelAnswer ==
    ASSUME NEW r \in Request, NEW most \in Int, NEW inner \in Answers
    PROVE  LET a == Sentinel(most, r, inner)
               refused == r.crowded \/ IsLonger(r.length, most)
           IN
             /\ a \in Answers
             /\ refused => a.marks = {} /\ a.reached = {"sentinel"} /\ a.records = {}
             /\ ~refused /\ r.decision = "raises" =>
                   a.marks = {} /\ a.reached = {"sentinel", "engine"} /\ a.records = {}
             /\ ~refused /\ r.decision \notin {"allow", "raises"} =>
                   a.marks = {"gate"} /\ a.reached = {"sentinel", "engine"} /\ a.records = {a.status}
             /\ ~refused /\ r.decision = "allow" =>
                   /\ a.reached = inner.reached \union {"sentinel", "engine"}
                   /\ a.status = inner.status
                   /\ Crashed(r, inner) => a.marks = inner.marks /\ a.records = inner.records
                   /\ ~Crashed(r, inner) =>
                         a.marks = inner.marks \union {"gate"} /\ a.records = {inner.status}
<1>1. r.decision \in Decisions /\ r.crowded \in BOOLEAN
    BY DEF Request
<1>2. r.decision \notin {"allow", "raises"} => Status(r.decision) \in Int
    BY <1>1 DEF Decisions, Status
<1>3. Decided(r, inner) \in Answers
      /\ (r.decision = "raises" =>
            Decided(r, inner).marks = {} /\ Decided(r, inner).reached = {"sentinel", "engine"}
            /\ Decided(r, inner).records = {})
    <2> DEFINE a == Decided(r, inner)
    <2>1. CASE r.decision = "raises"
        <3>1. a = Answer(500, {"sentinel", "engine"})
            BY <2>1 DEF Decided
        <3>2. QED  BY <3>1 DEF Answer, Answers
    <2>2. CASE r.decision = "allow"
        <3> DEFINE lost == Crashed(r, inner)
        <3>1. a = [inner EXCEPT !.marks = IF lost THEN @ ELSE @ \union {"gate"},
                                !.records = IF lost THEN @ ELSE {inner.status},
                                !.reached = @ \union {"sentinel", "engine"}]
            BY <2>2 DEF Decided
        <3> HIDE DEF a, lost
        <3>2. a \in Answers
            BY <3>1 DEF Answers
        <3>3. QED  BY <2>2, <3>2 DEF a
    <2>3. CASE r.decision \notin {"allow", "raises"}
        <3>1. a = [status |-> Status(r.decision), marks |-> {"gate"},
                   reached |-> {"sentinel", "engine"}, records |-> {Status(r.decision)}]
            BY <2>3 DEF Decided
        <3>2. QED  BY <1>2, <2>3, <3>1 DEF Answers
    <2>4. QED  BY <2>1, <2>2, <2>3
<1>4. r.decision \notin {"allow", "raises"} =>
         Decided(r, inner).marks = {"gate"} /\ Decided(r, inner).reached = {"sentinel", "engine"}
         /\ Decided(r, inner).records = {Decided(r, inner).status}
    BY <1>2 DEF Decided
<1>5. r.decision = "allow" =>
         /\ Decided(r, inner).reached = inner.reached \union {"sentinel", "engine"}
         /\ Decided(r, inner).status = inner.status
         /\ Crashed(r, inner) =>
               Decided(r, inner).marks = inner.marks /\ Decided(r, inner).records = inner.records
         /\ ~Crashed(r, inner) =>
               Decided(r, inner).marks = inner.marks \union {"gate"}
               /\ Decided(r, inner).records = {inner.status}
    BY DEF Decided, Answers
<1>6. r.crowded \/ IsLonger(r.length, most) =>
         Sentinel(most, r, inner) \in Answers /\ Sentinel(most, r, inner).marks = {}
         /\ Sentinel(most, r, inner).reached = {"sentinel"} /\ Sentinel(most, r, inner).records = {}
    BY <1>1 DEF Sentinel, Answer, Answers
<1>7. ~(r.crowded \/ IsLonger(r.length, most)) => Sentinel(most, r, inner) = Decided(r, inner)
    BY <1>1 DEF Sentinel
<1>8. QED  BY <1>1, <1>3, <1>4, <1>5, <1>6, <1>7

LEMMA GatewayAnswer ==
    ASSUME NEW r \in Request, NEW hosts, NEW most \in Int
    PROVE  LET a == HostGate(hosts, r, Sentinel(most, r, App(r)))
               known == ~HostsChecked(hosts) \/ \E i \in DOMAIN hosts : hosts[i] = r.host
               engine == known /\ ~r.crowded /\ ~IsLonger(r.length, most)
               decided == engine /\ r.decision # "raises"
           IN
             /\ a \in Answers
             /\ "engine" \in a.reached <=> engine
             /\ "app" \in a.reached <=> decided /\ r.decision = "allow"
             /\ a.records = IF decided /\ ~Crashed(r, a) THEN {a.status} ELSE {}
<1> DEFINE app == App(r)
           inner == Sentinel(most, r, app)
           a == HostGate(hosts, r, inner)
           known == ~HostsChecked(hosts) \/ \E i \in DOMAIN hosts : hosts[i] = r.host
           refused == r.crowded \/ IsLonger(r.length, most)
<1>1. app \in Answers /\ app.reached = {"app"} /\ app.marks = {} /\ app.records = {}
    BY AppAnswer
<1> HIDE DEF app
<1>2. /\ inner \in Answers
      /\ refused => inner.marks = {} /\ inner.reached = {"sentinel"} /\ inner.records = {}
      /\ ~refused /\ r.decision = "raises" =>
            inner.marks = {} /\ inner.reached = {"sentinel", "engine"} /\ inner.records = {}
      /\ ~refused /\ r.decision \notin {"allow", "raises"} =>
            /\ inner.marks = {"gate"} /\ inner.reached = {"sentinel", "engine"}
            /\ inner.records = {inner.status}
      /\ ~refused /\ r.decision = "allow" =>
            /\ inner.reached = {"app", "sentinel", "engine"}
            /\ r.outcome = "raises" => inner.records = {}
            /\ r.outcome # "raises" => inner.records = {inner.status}
    BY <1>1, SentinelAnswer DEF Crashed
<1> HIDE DEF inner
<1>3. /\ a \in Answers
      /\ ~known => a.marks = {} /\ a.reached = {"host"} /\ a.records = {}
      /\ known => /\ a.marks = inner.marks /\ a.records = inner.records
                  /\ a.status = inner.status /\ a.reached = inner.reached \union {"host"}
    BY <1>2, HostAnswer
<1> HIDE DEF a, known
<1>4. "engine" \in a.reached <=> known /\ ~refused
    BY <1>2, <1>3
<1>5. "app" \in a.reached <=> known /\ ~refused /\ r.decision = "allow"
    BY <1>2, <1>3
<1>6. a.records = IF known /\ ~refused /\ r.decision # "raises" /\ ~Crashed(r, a)
                  THEN {a.status} ELSE {}
    BY <1>2, <1>3, <1>5 DEF Crashed
<1>7. QED  BY <1>3, <1>4, <1>5, <1>6 DEF a, known, inner, app

\* In header mode an unauthorised device meets the device gate only, and the engine
\* sees no request of an unknown host.
THEOREM DevicesFirst ==
    ASSUME NEW lists
    PROVE  \A s \in GateSettings(Int, lists), r \in Request : DeviceFirst(s, r)
<1> SUFFICES ASSUME NEW s \in GateSettings(Int, lists), NEW r \in Request
             PROVE  DeviceFirst(s, r)
    OBVIOUS
<1> DEFINE checked == HostGate(s.trusted_hosts, r, Sentinel(s.max_body_bytes, r, App(r)))
           known == ~HostsChecked(s.trusted_hosts)
                    \/ \E i \in DOMAIN s.trusted_hosts : s.trusted_hosts[i] = r.host
           gated == s.mtls_enabled /\ s.mtls_mode = "header"
           authorised == r.probe \/ (r.peer \in Trusted /\ r.certified)
<1>1. s.max_body_bytes \in Int
    BY DEF GateSettings
<1>2. checked \in Answers /\ ("engine" \in checked.reached => known)
    BY <1>1, GatewayAnswer
<1> HIDE DEF checked, known
<1>3. Gateway(s, r) = IF gated THEN DeviceGate(r, checked) ELSE checked
    BY DEF Gateway, checked
<1>4. gated /\ ~authorised => Gateway(s, r) = Answer(403, {"device"})
    BY <1>3 DEF DeviceGate
<1>5. (~gated \/ authorised) /\ "engine" \in Gateway(s, r).reached => "engine" \in checked.reached
    BY <1>2, <1>3 DEF DeviceGate, Through, Answers
<1>6. /\ Answer(403, {"device"}).status = 403 /\ Answer(403, {"device"}).reached = {"device"}
      /\ Answer(403, {"device"}).records = {}
    BY DEF Answer
<1>7. "engine" \in Gateway(s, r).reached => known
    BY <1>2, <1>4, <1>5, <1>6
<1>8. QED  BY <1>4, <1>6, <1>7 DEF DeviceFirst, known

\* What the KMS makes of a request, with the gateway embedded or not.
LEMMA KmsAnswer ==
    ASSUME NEW lists, NEW s \in KmsSettings(Int, lists), NEW r \in Request
    PROVE  LET a == Kms(s, r)
               known == ~HostsChecked(s.allowed_hosts)
                        \/ \E i \in DOMAIN s.allowed_hosts : s.allowed_hosts[i] = r.host
               tooLong == IsLonger(r.length, 2 * s.max_plaintext_bytes) \/ r.length = NoNumber
               embedded == s.sentinel_embedded /\ s.starts
               engine == embedded /\ ~r.crowded /\ ~IsLonger(r.length, s.max_body_bytes)
               app == known /\ ~tooLong /\ (embedded => engine /\ r.decision = "allow")
               raised == r.decision = "raises" \/ (app /\ r.outcome = "raises")
           IN
             /\ "engine" \in a.reached <=> engine
             /\ "app" \in a.reached <=> app
             /\ "kms" \in a.marks <=> app /\ r.outcome # "raises"
             /\ "gate" \in a.marks <=> engine /\ ~raised
             /\ a.records = IF engine /\ ~raised THEN {a.status} ELSE {}
<1> DEFINE known == ~HostsChecked(s.allowed_hosts)
                    \/ \E i \in DOMAIN s.allowed_hosts : s.allowed_hosts[i] = r.host
           most == 2 * s.max_plaintext_bytes
           tooLong == IsLonger(r.length, most) \/ r.length = NoNumber
           embedded == s.sentinel_embedded /\ s.starts
           refused == r.crowded \/ IsLonger(r.length, s.max_body_bytes)
           handled == SecurityHeaders(r, App(r))
           sized == BodySizeLimit(most, r, handled)
           own == HostGate(s.allowed_hosts, r, sized)
           outer == Sentinel(s.max_body_bytes, r, own)
<1>1. most \in Int /\ s.max_body_bytes \in Int
    BY DEF KmsSettings
<1>2. /\ handled \in Answers /\ handled.reached = {"app"} /\ handled.records = {}
      /\ handled.marks = IF r.outcome = "raises" THEN {} ELSE {"kms"}
    BY SecurityHeadersAnswer
<1> HIDE DEF handled, most
<1>3. /\ sized \in Answers
      /\ tooLong => sized.marks = {} /\ sized.reached = {"size"} /\ sized.records = {}
      /\ ~tooLong => /\ sized.marks = handled.marks /\ sized.records = {}
                     /\ sized.reached = {"app", "size"}
    BY <1>1, <1>2, SizeAnswer
<1> HIDE DEF sized, tooLong
<1>4. /\ own \in Answers
      /\ ~known => own.marks = {} /\ own.reached = {"host"} /\ own.records = {}
      /\ known => /\ own.marks = sized.marks /\ own.records = {}
                  /\ own.reached = sized.reached \union {"host"}
    BY <1>3, HostAnswer
<1> HIDE DEF own, known
<1>5. /\ own.records = {} /\ "engine" \notin own.reached /\ "gate" \notin own.marks
      /\ "app" \in own.reached <=> known /\ ~tooLong
      /\ "kms" \in own.marks <=> known /\ ~tooLong /\ r.outcome # "raises"
    BY <1>2, <1>3, <1>4
<1>6. /\ refused => outer.marks = {} /\ outer.reached = {"sentinel"} /\ outer.records = {}
      /\ ~refused /\ r.decision = "raises" =>
            outer.marks = {} /\ outer.reached = {"sentinel", "engine"} /\ outer.records = {}
      /\ ~refused /\ r.decision \notin {"allow", "raises"} =>
            /\ outer.marks = {"gate"} /\ outer.reached = {"sentinel", "engine"}
            /\ outer.records = {outer.status}
      /\ ~refused /\ r.decision = "allow" =>
            /\ outer.reached = own.reached \union {"sentinel", "engine"}
            /\ outer.status = own.status
            /\ Crashed(r, own) => outer.marks = own.marks /\ outer.records = own.records
            /\ ~Crashed(r, own) =>
                  outer.marks = own.marks \union {"gate"} /\ outer.records = {own.status}
    BY <1>1, <1>4, SentinelAnswer
<1> HIDE DEF outer, refused
<1>7. Kms(s, r) = IF embedded THEN outer ELSE own
    BY DEF Kms, outer, own, sized, handled, most
<1> HIDE DEF embedded
<1> DEFINE a == Kms(s, r)
           engine == embedded /\ ~refused
           app == known /\ ~tooLong /\ (embedded => engine /\ r.decision = "allow")
           raised == r.decision = "raises" \/ (app /\ r.outcome = "raises")
<1>8. CASE ~embedded
    <2>1. a = own
        BY <1>7, <1>8
    <2>2. QED  BY <1>5, <1>8, <2>1 DEF known, tooLong, embedded, refused, most
<1>9. CASE embedded
    <2>1. a = outer
        BY <1>7, <1>9
    <2>2. /\ "engine" \in a.reached <=> engine
          /\ "app" \in a.reached <=> app
        BY <1>5, <1>6, <1>9, <2>1
    <2>3. /\ "kms" \in a.marks <=> app /\ r.outcome # "raises"
          /\ "gate" \in a.marks <=> engine /\ ~raised
        BY <1>5, <1>6, <1>9, <2>1 DEF Crashed
    <2>4. a.records = IF engine /\ ~raised THEN {a.status} ELSE {}
        BY <1>5, <1>6, <1>9, <2>1 DEF Crashed
    <2>5. QED  BY <2>2, <2>3, <2>4 DEF known, tooLong, embedded, refused, most
<1>10. QED  BY <1>8, <1>9

\* No declared length above the limit meets a handler of the KMS, and no other request
\* of a known host is kept from one but by the embedded gateway.
THEOREM SizesAreHeld ==
    ASSUME NEW lists
    PROVE  \A s \in KmsSettings(Int, lists), r \in Request : SizesHold(s, r)
<1> SUFFICES ASSUME NEW s \in KmsSettings(Int, lists), NEW r \in Request
             PROVE  SizesHold(s, r)
    OBVIOUS
<1> DEFINE known == ~HostsChecked(s.allowed_hosts)
                    \/ \E i \in DOMAIN s.allowed_hosts : s.allowed_hosts[i] = r.host
           tooLong == IsLonger(r.length, 2 * s.max_plaintext_bytes) \/ r.length = NoNumber
           embedded == s.sentinel_embedded /\ s.starts
           engine == embedded /\ ~r.crowded /\ ~IsLonger(r.length, s.max_body_bytes)
           app == known /\ ~tooLong /\ (embedded => engine /\ r.decision = "allow")
           refused == /\ s.sentinel_embedded /\ s.starts
                      /\ r.crowded \/ IsLonger(r.length, s.max_body_bytes) \/ r.decision # "allow"
<1>1. "app" \in Kms(s, r).reached <=> app
    BY KmsAnswer
<1>2. app <=> known /\ ~tooLong /\ ~refused
    <2> HIDE DEF known, tooLong
    <2>1. QED  OBVIOUS
<1>3. "app" \in Kms(s, r).reached <=> known /\ ~tooLong /\ ~refused
    <2> HIDE DEF app, refused, known, tooLong
    <2>1. QED  BY <1>1, <1>2
<1>4. QED  BY <1>3 DEF SizesHold

\* Exactly these answers bear security headers.
THEOREM HeadersAreHeld ==
    ASSUME NEW lists
    PROVE  \A s \in KmsSettings(Int, lists), r \in Request : HeadersHold(s, r)
<1> SUFFICES ASSUME NEW s \in KmsSettings(Int, lists), NEW r \in Request
             PROVE  HeadersHold(s, r)
    OBVIOUS
<1>1. QED  BY KmsAnswer DEF HeadersHold, Crashed

\* What telemetry records of a request.
THEOREM RecordsAreHeld ==
    ASSUME NEW lists
    PROVE  \A s \in GateSettings(Int, lists) \X KmsSettings(Int, lists), r \in Request :
              RecordsHold(s, r)
<1> SUFFICES ASSUME NEW gate \in GateSettings(Int, lists), NEW kms \in KmsSettings(Int, lists),
                    NEW r \in Request
             PROVE  RecordsHold(<<gate, kms>>, r)
    OBVIOUS
<1>1. ASSUME NEW a \in {Gateway(gate, r)}
      PROVE  a.records = IF "engine" \in a.reached /\ r.decision # "raises" /\ ~Crashed(r, a)
                         THEN {a.status} ELSE {}
    <2> DEFINE checked == HostGate(gate.trusted_hosts, r, Sentinel(gate.max_body_bytes, r, App(r)))
    <2>1. gate.max_body_bytes \in Int
        BY DEF GateSettings
    <2>2. /\ checked \in Answers
          /\ checked.records = IF /\ "engine" \in checked.reached /\ r.decision # "raises"
                                  /\ ~Crashed(r, checked)
                               THEN {checked.status} ELSE {}
        BY <2>1, GatewayAnswer
    <2> HIDE DEF checked
    <2>3. a \in {checked, Through("device", checked), Answer(403, {"device"})}
        BY DEF Gateway, DeviceGate, checked
    <2>4. QED  BY <2>2, <2>3 DEF Through, Answer, Answers, Crashed
<1>2. LET a == Kms(kms, r)
      IN  a.records = IF "engine" \in a.reached /\ r.decision # "raises" /\ ~Crashed(r, a)
                      THEN {a.status} ELSE {}
    BY KmsAnswer DEF Crashed
<1>3. QED  BY <1>1, <1>2 DEF RecordsHold

===============================================================================
