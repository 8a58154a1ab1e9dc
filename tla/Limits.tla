------------------------------- MODULE Limits -------------------------------
(***************************************************************************)
(* The rate limits of Sentinel Gate (limiter.py) as one identity meets     *)
(* them: its token bucket in Redis, which the workers share, and its       *)
(* bucket in the table of one worker, which takes over while the circuit   *)
(* around Redis is open (middleware.py, _decide_failopen).                 *)
(*                                                                         *)
(* The script runs atomically, but on the clock of the worker that sent    *)
(* it: "at" is read before the command is on its way, and the clocks of    *)
(* the workers differ.  "clock" is the fastest of them.  Tokens and costs  *)
(* are counted in units that make the settings whole numbers.              *)
(***************************************************************************)
EXTENDS Integers

CONSTANTS
    Requests,        \* requests of this identity in flight at one time
    Costs,           \* what routes cost (settings.route_costs)
    Capacity,        \* the burst of this identity with no limit tightened
    Refill,          \* tokens it gets back in one tick
    Modes,           \* the limits in force: untightened, under attack, anomalous
    Slack,           \* the 60 seconds a key outlives the refill of its bucket
    MaxLag,          \* how old "at" may be when the script runs
    FallbackBurst,   \* settings.fallback_burst
    FallbackRefill,  \* settings.fallback_refill_per_sec
    MaxIdentities,   \* LocalTokenBucket's max_identities
    MaxClock,        \* bound of the model
    None             \* no bucket, no request, no promise

\* fill is math.ceil(capacity / refill), which no tightening changes.
Mode == [burst : Nat, refill : Nat, fill : Nat]

ASSUME ConstantsAssumption ==
    /\ Costs \subseteq Nat \ {0}
    /\ Capacity \in Nat
    /\ Refill \in Nat \ {0}
    /\ Modes \subseteq Mode
    /\ \A m \in Modes : /\ m.burst =< Capacity
                        /\ m.refill =< Refill
                        /\ Capacity =< Refill * m.fill
    /\ Slack \in Nat
    /\ MaxLag \in 0 .. Slack
    /\ FallbackBurst \in Nat
    /\ FallbackRefill \in Nat \ {0}
    /\ MaxIdentities \in Nat \ {0}
    /\ MaxClock \in Nat

Bucket == [tokens : Nat, ts : Nat]
Stored == [tokens : Nat, ts : Nat, dies : Nat]
Request == [mode : Modes, cost : Costs, at : Nat]
Promise == [cost : Costs, due : Nat]

ASSUME NoneAssumption == None \notin Bucket \union Stored \union Request \union Promise

VARIABLES
    clock,
    bucket,      \* the hash in Redis, with the time its TTL ends
    req,         \* EVALs on their way
    local,       \* this identity's entry of LocalTokenBucket._buckets
    older,       \* entries of other identities that were inserted before it
    younger,     \* entries that were inserted after it
    credit,      \* (history) an ideal bucket that pays for what Redis admits
    creditLocal, \* (history) one that pays for what the table admits
    promise      \* (history) a cost refused since the last one admitted by the
                 \* table, and when the client was told to retry

Least(a, b) == IF a =< b THEN a ELSE b
Most(a, b) == IF a >= b THEN a ELSE b

redisVars == <<bucket, credit>>
localVars == <<local, older, younger, creditLocal, promise>>
vars == <<clock, req, redisVars, localVars>>

\* A script that comes late fills the bucket as of MaxLag ago.
CreditLimit == Capacity + Refill * MaxLag

TypeOK ==
    /\ clock \in Nat
    /\ bucket \in Stored \union {None}
    /\ req \in [Requests -> Request \union {None}]
    /\ local \in Bucket \union {None}
    /\ older \in Nat /\ younger \in Nat
    /\ older + younger + (IF local = None THEN 0 ELSE 1) =< MaxIdentities
    /\ credit \in Int /\ credit =< CreditLimit
    /\ creditLocal \in Int /\ creditLocal =< FallbackBurst
    /\ promise \in Promise \union {None}

Init ==
    /\ clock = 0
    /\ bucket = None
    /\ req = [r \in Requests |-> None]
    /\ local = None
    /\ older = 0 /\ younger = 0
    /\ credit = CreditLimit
    /\ creditLocal = FallbackBurst
    /\ promise = None

-----------------------------------------------------------------------------
(* The token bucket, which the Lua script and the fallback both compute *)

\* The tokens at the time now of a bucket last written at b.ts.
Refilled(b, now, burst, refill) ==
    Least(burst, b.tokens + Most(0, now - b.ts) * refill)

\* A bucket that has gone is full.
Tokens(b, now, burst, refill) ==
    IF b = None THEN burst ELSE Refilled(b, now, burst, refill)

-----------------------------------------------------------------------------
(* Redis *)

\* (mutant) only the slack
TTLShort(m) == Slack

\* TokenBucketLimiter.consume
TTL(m) == m.fill + Slack

\* The limiter reads its worker's clock and sends the script.
Send(r, m, c) ==
    /\ req[r] = None
    /\ \E at \in (clock - MaxLag) .. clock :
         /\ at >= 0
         /\ req' = [req EXCEPT ![r] = [mode |-> m, cost |-> c, at |-> at]]
    /\ UNCHANGED <<clock, redisVars, localVars>>

\* What HMGET finds.
Live ==
    IF bucket = None THEN None
    ELSE IF bucket.dies =< clock THEN None ELSE bucket

\* What it is worth that the script stores a clock behind the stored one.
SetBack(at) == IF Live = None THEN 0 ELSE Refill * Most(0, Live.ts - at)

Credited(n) == Least(CreditLimit, credit + n)

\* TOKEN_BUCKET_LUA.  Whether its answer arrives makes no difference here.
Script(r) ==
    LET q == req[r]
        t == Tokens(Live, q.at, q.mode.burst, q.mode.refill)
        allowed == t >= q.cost IN
      /\ q # None
      /\ bucket' = [tokens |-> IF allowed THEN t - q.cost ELSE t,
                    ts     |-> q.at,
                    dies   |-> clock + TTL(q.mode)]
      /\ credit' = Credited(SetBack(q.at)) - (IF allowed THEN q.cost ELSE 0)
      /\ req' = [req EXCEPT ![r] = None]
      /\ UNCHANGED <<clock, localVars>>

\* The command does not reach Redis.
SendFails(r) ==
    /\ req[r] # None
    /\ req' = [req EXCEPT ![r] = None]
    /\ UNCHANGED <<clock, redisVars, localVars>>

\* Redis restarts (it persists nothing) or evicts the key (allkeys-lru).  The
\* next bucket is full, and a late clock may start it.
Wipe ==
    /\ bucket # None
    /\ bucket' = None
    /\ credit' = CreditLimit
    /\ UNCHANGED <<clock, req, localVars>>

-----------------------------------------------------------------------------
(* The fallback.  While this identity has no entry, all others are older.  *)

Full == older + younger + (IF local = None THEN 0 ELSE 1) >= MaxIdentities

\* The entry after a request that leaves t tokens.
Written(t) == [tokens |-> t, ts |-> clock]

\* (mutant) rounded down
RetryAfterFloor(t, c) == (c - t) \div FallbackRefill

\* _decide_failopen: int(retry_after) + 1
RetryAfter(t, c) == (c - t) \div FallbackRefill + 1

\* The identities before this one once it is in the table.
RoomBy == IF local = None /\ Full THEN older - 1 ELSE older

\* LocalTokenBucket.consume for this identity.
LocalConsume(c) ==
    LET t == Tokens(local, clock, FallbackBurst, FallbackRefill)
        allowed == t >= c
        told == [cost |-> c, due |-> clock + RetryAfter(t, c)] IN
      /\ local' = Written(IF allowed THEN t - c ELSE t)
      /\ creditLocal' = IF allowed THEN creditLocal - c ELSE creditLocal
      /\ \/ allowed /\ promise' = None
         \/ ~allowed /\ promise' = told
         \/ ~allowed /\ promise # None /\ promise' = promise
      /\ older' = RoomBy
      /\ UNCHANGED <<clock, req, redisVars, younger>>

\* The entry is dropped, and a full one will take its place.
Forget(before) ==
    /\ local' = None
    /\ creditLocal' = FallbackBurst
    /\ older' = before
    /\ younger' = 0

\* LocalTokenBucket.consume for an identity that is new to the table: when it
\* is full, the entry that was inserted first is pushed out.
OtherConsume ==
    /\ \/ /\ local = None
          /\ older' = IF Full THEN older ELSE older + 1
          /\ UNCHANGED <<local, younger, creditLocal>>
       \/ /\ local # None /\ (older > 0 \/ ~Full)
          /\ older' = IF Full THEN older - 1 ELSE older
          /\ younger' = younger + 1
          /\ UNCHANGED <<local, creditLocal>>
       \/ /\ local # None /\ older = 0 /\ Full
          /\ Forget(younger + 1)
    /\ UNCHANGED <<clock, req, redisVars, promise>>

\* The worker restarts, and its requests end.
Restart ==
    /\ local # None
    /\ Forget(0)
    /\ UNCHANGED <<clock, req, redisVars, promise>>

-----------------------------------------------------------------------------
\* Time passes, but no command takes longer than MaxLag: the clocks of the
\* workers are synchronised, and the client's sockets time out.
Tick ==
    /\ clock < MaxClock
    /\ \A r \in Requests : req[r] # None => clock < req[r].at + MaxLag
    /\ clock' = clock + 1
    /\ credit' = Credited(Refill)
    /\ creditLocal' = Least(FallbackBurst, creditLocal + FallbackRefill)
    /\ UNCHANGED <<req, bucket, local, older, younger, promise>>

Next ==
    \/ \E r \in Requests :
          \/ \E m \in Modes, c \in Costs : Send(r, m, c)
          \/ Script(r)
          \/ SendFails(r)
    \/ Wipe
    \/ \E c \in Costs : LocalConsume(c)
    \/ OtherConsume
    \/ Restart
    \/ Tick

Spec == Init /\ [][Next]_vars

-----------------------------------------------------------------------------
(* Safety *)

\* Over any time Redis admits no more than one burst and what the refill pays
\* for, whatever the workers' clocks say, in whatever order their scripts run,
\* however the limits are tightened and released, and when the key expires in
\* between (limiter.py:8-17): an ideal bucket, on one clock, never runs dry.
\* Only clocks that are set back and keys that Redis loses add to it.  So with
\* the fallback, where a restart and an entry pushed out of a full table do.
PaidFor == credit >= 0 /\ creditLocal >= 0

\* A client that the fallback has told to retry is admitted from that time on,
\* if the burst can pay for the request at all: refusals in between cost it
\* nothing, and neither does an entry that was pushed out.
RetryKept ==
    promise # None /\ promise.due =< clock /\ promise.cost =< FallbackBurst =>
        Tokens(local, clock, FallbackBurst, FallbackRefill) >= promise.cost

=============================================================================
