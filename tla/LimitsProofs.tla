----------------------------- MODULE LimitsProofs -----------------------------
(***************************************************************************)
(* Proofs about Limits, for any settings, any number of requests in flight *)
(* and any lag of the clocks: its types, that Redis and the fallback admit *)
(* no more than an ideal bucket pays for, and that a client that has been  *)
(* told to retry is admitted then.                                         *)
(***************************************************************************)
EXTENDS Limits, TLAPS

-----------------------------------------------------------------------------
(* The inductive invariant *)

\* A script that is on its way was sent at most MaxLag ago.
FlightInv == \A r \in Requests : req[r] # None =>
                req[r].at =< clock /\ clock =< req[r].at + MaxLag

\* The ideal bucket holds what the bucket in Redis is worth now, and the key
\* lives until it would be full even on the latest clock.
BucketInv ==
    /\ bucket = None => credit = CreditLimit
    /\ bucket # None =>
          /\ bucket.ts =< clock
          /\ Capacity + Refill * Slack =< Refill * (bucket.dies - bucket.ts)
          /\ Least(CreditLimit, bucket.tokens + Refill * (clock - bucket.ts)) =< credit

\* So with the entry of the fallback ...
LocalInv ==
    /\ local = None => creditLocal = FallbackBurst
    /\ local # None =>
          /\ local.ts =< clock
          /\ Least(FallbackBurst, local.tokens + FallbackRefill * (clock - local.ts)) =< creditLocal

\* ... which will hold what was refused when the client was told to retry.
PromiseInv ==
    promise # None /\ local # None /\ promise.cost =< FallbackBurst =>
        promise.cost =< Least(FallbackBurst,
                              local.tokens + FallbackRefill * Most(0, promise.due - local.ts))

\* Nothing is inserted after an entry that is not there.
TableInv == local = None => younger = 0

IInv == TypeOK /\ FlightInv /\ BucketInv /\ LocalInv /\ PromiseInv /\ TableInv

-----------------------------------------------------------------------------
(* Arithmetic *)

\* Multiplication is monotonic ...
LEMMA Monotonic ==
    ASSUME NEW k \in Nat, NEW x \in Int, NEW y \in Int, x =< y
    PROVE  k * x =< k * y
<1>1. k * (y - x) >= 0
    OBVIOUS
<1>2. k * (y - x) = k * y - k * x
    OBVIOUS
<1>3. k * x \in Int /\ k * y \in Int
    OBVIOUS
<1>. QED
    BY <1>1, <1>2, <1>3

\* ... and distributes over a difference of times.
LEMMA Times ==
    ASSUME NEW k \in Nat, NEW x \in Int, NEW y \in Int, NEW z \in Int
    PROVE  /\ k * (x - y) \in Int
           /\ k * (x - z) = k * (x - y) + k * (y - z)
OBVIOUS

\* A time passes by one.
LEMMA TimesNext ==
    ASSUME NEW k \in Nat, NEW x \in Int, NEW y \in Int
    PROVE  k * (x + 1 - y) = k * (x - y) + k
OBVIOUS

\* The smaller and the greater of two numbers.
LEMMA LeastMost ==
    ASSUME NEW a \in Int, NEW b \in Int
    PROVE  /\ Least(a, b) \in {a, b} /\ Least(a, b) =< a /\ Least(a, b) =< b
           /\ Most(a, b) \in {a, b} /\ Most(a, b) >= a /\ Most(a, b) >= b
BY DEF Least, Most

-----------------------------------------------------------------------------
(* What a bucket is worth *)

\* A product of natural numbers is one.
LEMMA Product ==
    ASSUME NEW k \in Nat, NEW n \in Nat
    PROVE  k * n \in Nat
OBVIOUS

\* The tokens of a bucket are a natural number, at most the burst.
LEMMA TokensType ==
    ASSUME NEW b \in Bucket \union Stored \union {None}, NEW now \in Int,
           NEW burst \in Nat, NEW refill \in Nat
    PROVE  Tokens(b, now, burst, refill) \in Nat /\ Tokens(b, now, burst, refill) =< burst
<1>1. CASE b = None
    BY <1>1 DEF Tokens
<1>2. CASE b # None
  <2>1. b.tokens \in Nat /\ b.ts \in Nat
    BY <1>2 DEF Bucket, Stored
  <2>2. Most(0, now - b.ts) \in Nat
    BY <2>1 DEF Most
  <2>3. Most(0, now - b.ts) * refill \in Nat
    BY <2>2, Product
  <2>4. b.tokens + Most(0, now - b.ts) * refill \in Nat
    BY <2>1, <2>3
  <2>. QED
    BY <1>2, <2>4 DEF Tokens, Refilled, Least
<1>. QED
    BY <1>1, <1>2

\* On a clock that is not ahead, a bucket that is tightened is worth no more
\* than the untightened one is now, but for what the clock is set back.
LEMMA RefilledBound ==
    ASSUME NEW b \in Stored, NEW at \in Nat, NEW now \in Nat, at =< now, b.ts =< now,
           NEW burst \in Nat, NEW refill \in Nat, refill =< Refill
    PROVE  Refilled(b, at, burst, refill) + Refill * (now - at)
             =< b.tokens + Refill * (now - b.ts) + Refill * Most(0, b.ts - at)
<1>. DEFINE t == Refilled(b, at, burst, refill)
<1>0. b.tokens \in Nat /\ b.ts \in Nat /\ Refill \in Nat
    BY ConstantsAssumption DEF Stored
<1>1. CASE b.ts =< at
  <2>1. Most(0, at - b.ts) = at - b.ts /\ Most(0, b.ts - at) = 0
    BY <1>0, <1>1 DEF Most
  <2>2. (at - b.ts) * refill =< (at - b.ts) * Refill
    <3>1. at - b.ts \in Nat
      BY <1>0, <1>1
    <3>. QED
      BY <3>1, <1>0, Monotonic
  <2>3. (at - b.ts) * refill \in Int /\ Refill * (at - b.ts) \in Int
        /\ (at - b.ts) * Refill = Refill * (at - b.ts)
    BY <1>0
  <2>4. t =< b.tokens + (at - b.ts) * refill
    BY <1>0, <2>1, <2>3 DEF Refilled, Least
  <2>5. Refill * (now - b.ts) = Refill * (now - at) + Refill * (at - b.ts)
        /\ Refill * (now - at) \in Int
    BY <1>0, Times
  <2>6. Refill * Most(0, b.ts - at) = 0
    BY <1>0, <2>1
  <2>7. t \in Int
    BY <1>0, <2>1, <2>3 DEF Refilled, Least
  <2>. QED
    BY <1>0, <2>2, <2>3, <2>4, <2>5, <2>6, <2>7
<1>2. CASE b.ts > at
  <2>1. Most(0, at - b.ts) = 0 /\ Most(0, b.ts - at) = b.ts - at
    BY <1>0, <1>2 DEF Most
  <2>2. t \in Int /\ t =< b.tokens
    BY <1>0, <2>1 DEF Refilled, Least
  <2>3. Refill * (now - at) = Refill * (now - b.ts) + Refill * (b.ts - at)
    BY <1>0, Times
  <2>4. Refill * (now - b.ts) \in Int /\ Refill * (b.ts - at) \in Int
    BY <1>0
  <2>. QED
    BY <1>0, <2>1, <2>2, <2>3, <2>4
<1>. QED
    BY <1>0, <1>1, <1>2

-----------------------------------------------------------------------------
(* The script *)

\* CreditLimit is a number, and what a key outlives pays for the lag.
LEMMA Limit ==
    /\ CreditLimit \in Nat
    /\ CreditLimit =< Capacity + Refill * Slack
    /\ Capacity \in Nat /\ Refill \in Nat /\ Slack \in Nat /\ MaxLag \in Nat
    /\ Refill * Slack \in Nat /\ Refill * MaxLag \in Nat
<1>1. Capacity \in Nat /\ Refill \in Nat /\ Slack \in Nat /\ MaxLag \in Nat /\ MaxLag =< Slack
    BY ConstantsAssumption
<1>2. Refill * MaxLag =< Refill * Slack
    BY <1>1, Monotonic
<1>3. Refill * Slack \in Nat /\ Refill * MaxLag \in Nat
    BY <1>1, Product
<1>. QED
    BY <1>1, <1>2, <1>3 DEF CreditLimit

\* When the key has gone, the ideal bucket is full.
LEMMA GoneIsFull ==
    ASSUME TypeOK, BucketInv, Live = None
    PROVE  credit = CreditLimit
<1>1. CASE bucket = None
    BY <1>1 DEF BucketInv
<1>2. CASE bucket # None
  <2>1. bucket \in Stored /\ clock \in Nat /\ credit \in Int /\ credit =< CreditLimit
    BY <1>2 DEF TypeOK
  <2>2. bucket.tokens \in Nat /\ bucket.ts \in Nat /\ bucket.dies \in Nat
    BY <2>1 DEF Stored
  <2>3. bucket.dies =< clock
    BY <1>2 DEF Live
  <2>4. Refill * (bucket.dies - bucket.ts) =< Refill * (clock - bucket.ts)
    BY <2>1, <2>2, <2>3, Limit, Monotonic
  <2>5. Refill * (bucket.dies - bucket.ts) \in Int /\ Refill * (clock - bucket.ts) \in Int
    BY <2>1, <2>2, Limit
  <2>6. CreditLimit =< bucket.tokens + Refill * (clock - bucket.ts)
    BY <1>2, <2>1, <2>2, <2>4, <2>5, Limit DEF BucketInv
  <2>7. Least(CreditLimit, bucket.tokens + Refill * (clock - bucket.ts)) = CreditLimit
    BY <2>2, <2>5, <2>6, Limit DEF Least
  <2>. QED
    BY <1>2, <2>1, <2>7, Limit DEF BucketInv
<1>. QED
    BY <1>1, <1>2

\* A request in flight, and the mode it runs in.
LEMMA Flight ==
    ASSUME TypeOK, FlightInv, NEW r \in Requests, req[r] # None
    PROVE  /\ req[r].at \in Nat /\ req[r].at =< clock /\ clock =< req[r].at + MaxLag
           /\ req[r].cost \in Nat /\ req[r].mode \in Modes
           /\ req[r].mode.burst \in Nat /\ req[r].mode.burst =< Capacity
           /\ req[r].mode.refill \in Nat /\ req[r].mode.refill =< Refill
           /\ req[r].mode.fill \in Nat /\ Capacity =< Refill * req[r].mode.fill
<1>1. req[r] \in Request
    BY DEF TypeOK
<1>2. req[r].mode \in Mode
    BY <1>1, ConstantsAssumption DEF Request
<1>. QED
    BY <1>1, <1>2, ConstantsAssumption DEF FlightInv, Request, Mode

\* What the script finds in the bucket is paid for.
LEMMA ScriptFinds ==
    ASSUME TypeOK, FlightInv, BucketInv, NEW r \in Requests, req[r] # None
    PROVE  LET t == Tokens(Live, req[r].at, req[r].mode.burst, req[r].mode.refill) IN
             /\ t \in Nat
             /\ t + Refill * (clock - req[r].at) =< Credited(SetBack(req[r].at))
             /\ Credited(SetBack(req[r].at)) \in Int
             /\ Credited(SetBack(req[r].at)) =< CreditLimit
<1>. DEFINE at == req[r].at
            m == req[r].mode
            t == Tokens(Live, at, m.burst, m.refill)
            S == SetBack(at)
<1>1. Live \in Stored \union {None} /\ clock \in Nat /\ credit \in Int /\ credit =< CreditLimit
    BY DEF TypeOK, Live
<1>2. t \in Nat /\ t =< Capacity
  <2>0. at \in Int /\ m.burst \in Nat /\ m.refill \in Nat /\ m.burst =< Capacity
    BY Flight
  <2>1. t \in Nat /\ t =< m.burst
    BY <1>1, <2>0, TokensType
  <2>. QED
    BY <2>0, <2>1, Limit
<1>3. Refill * (clock - at) \in Int /\ t + Refill * (clock - at) =< CreditLimit
  <2>1. Refill * (clock - at) =< Refill * MaxLag
    BY <1>1, Flight, Limit, Monotonic
  <2>2. Refill * (clock - at) \in Int
    BY <1>1, Flight, Limit
  <2>. QED
    BY <1>2, <2>1, <2>2, Limit DEF CreditLimit
<1>4. CASE Live = None
  <2>1. credit = CreditLimit /\ S = 0
    BY <1>4, GoneIsFull DEF SetBack
  <2>2. Credited(S) = CreditLimit
    BY <2>1, Limit DEF Credited, Least
  <2>. QED
    BY <1>2, <1>3, <2>2, Limit
<1>5. CASE Live # None
  <2>1. Live = bucket /\ bucket \in Stored /\ bucket # None
    BY <1>1, <1>5 DEF Live
  <2>2. bucket.tokens \in Nat /\ bucket.ts \in Nat /\ bucket.ts =< clock
    BY <2>1 DEF Stored, BucketInv
  <2>3. S = Refill * Most(0, bucket.ts - at) /\ S \in Nat
    <3>1. Most(0, bucket.ts - at) \in Nat
      BY <2>2, Flight DEF Most
    <3>. QED
      BY <2>1, <3>1, Limit, Product DEF SetBack
  <2>4. t + Refill * (clock - at) =< bucket.tokens + Refill * (clock - bucket.ts) + S
    <3>1. t = Refilled(bucket, at, m.burst, m.refill)
      BY <2>1 DEF Tokens
    <3>. QED
      BY <1>1, <2>1, <2>2, <2>3, <3>1, Flight, RefilledBound
  <2>5. Refill * (clock - bucket.ts) \in Int
    BY <1>1, <2>2, Limit
  <2>6. Least(CreditLimit, bucket.tokens + Refill * (clock - bucket.ts)) =< credit
    BY <2>1 DEF BucketInv
  <2>7. Credited(S) \in Int /\ Credited(S) =< CreditLimit
    BY <1>1, <2>3, Limit DEF Credited, Least
  <2>. QED
    BY <1>1, <1>2, <1>3, <2>2, <2>3, <2>4, <2>5, <2>6, <2>7, Limit DEF Credited, Least
<1>. QED
    BY <1>2, <1>4, <1>5

\* The script keeps the books, and the types.
LEMMA ScriptPays ==
    ASSUME TypeOK, FlightInv, BucketInv, NEW r \in Requests, Script(r)
    PROVE  /\ BucketInv'
           /\ bucket' \in Stored
           /\ credit' \in Int /\ credit' =< CreditLimit
<1>. DEFINE at == req[r].at
            m == req[r].mode
            t == Tokens(Live, at, m.burst, m.refill)
            C == Credited(SetBack(at))
            paid == IF t >= req[r].cost THEN req[r].cost ELSE 0
<1>0. req[r] # None
    BY DEF Script
<1>1. /\ at \in Nat /\ at =< clock /\ clock \in Nat
      /\ m.fill \in Nat /\ Capacity =< Refill * m.fill /\ req[r].cost \in Nat
    BY <1>0, Flight DEF TypeOK
<1>2. /\ t \in Nat /\ C \in Int /\ C =< CreditLimit
      /\ t + Refill * (clock - at) =< C
    BY <1>0, ScriptFinds
<1>3. paid \in Nat /\ paid =< t
    BY <1>1, <1>2
<1>4. /\ bucket' = [tokens |-> t - paid, ts |-> at, dies |-> clock + m.fill + Slack]
      /\ credit' = C - paid /\ clock' = clock
    BY <1>0, <1>1, <1>2, Limit DEF Script, localVars, TTL
<1>5. bucket' \in Stored /\ bucket' # None
    BY <1>1, <1>2, <1>3, <1>4, Limit, NoneAssumption DEF Stored
<1>6. credit' \in Int /\ credit' =< CreditLimit
    BY <1>2, <1>3, <1>4, Limit
<1>7. Capacity + Refill * Slack =< Refill * ((clock + m.fill + Slack) - at)
  <2>1. Refill * (m.fill + Slack) =< Refill * ((clock + m.fill + Slack) - at)
    BY <1>1, Limit, Monotonic
  <2>2. Refill * (m.fill + Slack) = Refill * m.fill + Refill * Slack
    BY <1>1, Limit
  <2>3. Refill * m.fill \in Nat /\ Refill * ((clock + m.fill + Slack) - at) \in Int
    BY <1>1, Limit, Product
  <2>. QED
    BY <1>1, <2>1, <2>2, <2>3, Limit
<1>8. Least(CreditLimit, t - paid + Refill * (clock - at)) =< credit'
  <2>1. Refill * (clock - at) \in Int
    BY <1>1, Limit
  <2>. QED
    BY <1>2, <1>3, <1>4, <2>1, Limit DEF Least
<1>9. /\ bucket'.tokens = t - paid /\ bucket'.ts = at
      /\ bucket'.dies = clock + m.fill + Slack
    BY <1>4
<1>10. BucketInv'
  <2>1. bucket'.ts =< clock'
    BY <1>1, <1>4, <1>9
  <2>2. Capacity + Refill * Slack =< Refill * (bucket'.dies - bucket'.ts)
    <3>1. bucket'.dies - bucket'.ts = (clock + m.fill + Slack) - at
      BY <1>9
    <3>. QED
      BY <1>7, <3>1
  <2>3. Least(CreditLimit, bucket'.tokens + Refill * (clock' - bucket'.ts)) =< credit'
    BY <1>4, <1>8, <1>9
  <2>. QED
    BY <1>5, <2>1, <2>2, <2>3 DEF BucketInv
<1>. QED
    BY <1>5, <1>6, <1>10

-----------------------------------------------------------------------------
(* The fallback *)

\* What a request finds in the table is paid for.
LEMMA LocalFinds ==
    ASSUME TypeOK, LocalInv
    PROVE  LET t == Tokens(local, clock, FallbackBurst, FallbackRefill) IN
             t \in Nat /\ t =< FallbackBurst /\ t =< creditLocal
<1>. DEFINE t == Tokens(local, clock, FallbackBurst, FallbackRefill)
<1>0. /\ FallbackBurst \in Nat /\ FallbackRefill \in Nat
      /\ local \in Bucket \union {None} /\ clock \in Nat /\ creditLocal \in Int
    BY ConstantsAssumption DEF TypeOK
<1>1. t \in Nat /\ t =< FallbackBurst
    BY <1>0, TokensType
<1>2. CASE local = None
    BY <1>0, <1>1, <1>2 DEF LocalInv
<1>3. CASE local # None
  <2>1. local.tokens \in Nat /\ local.ts \in Nat /\ local.ts =< clock
    BY <1>0, <1>3 DEF Bucket, LocalInv
  <2>2. Most(0, clock - local.ts) = clock - local.ts
    BY <1>0, <2>1 DEF Most
  <2>3. (clock - local.ts) * FallbackRefill = FallbackRefill * (clock - local.ts)
    BY <1>0, <2>1
  <2>4. t = Least(FallbackBurst, local.tokens + FallbackRefill * (clock - local.ts))
    BY <1>3, <2>2, <2>3 DEF Tokens, Refilled
  <2>. QED
    BY <1>0, <1>1, <1>3, <2>4 DEF LocalInv
<1>. QED
    BY <1>2, <1>3

\* An entry holds at the time now what it will have held at an earlier one.
LEMMA LocalGrows ==
    ASSUME TypeOK, NEW due \in Nat, NEW now \in Nat, due =< now, local # None
    PROVE  Least(FallbackBurst, local.tokens + FallbackRefill * Most(0, due - local.ts))
             =< Tokens(local, now, FallbackBurst, FallbackRefill)
<1>1. /\ FallbackBurst \in Nat /\ FallbackRefill \in Nat
      /\ local.tokens \in Nat /\ local.ts \in Nat
    BY ConstantsAssumption DEF TypeOK, Bucket
<1>. DEFINE x == Most(0, due - local.ts)
            y == Most(0, now - local.ts)
<1>2. x \in Nat /\ y \in Nat /\ x =< y
    BY <1>1 DEF Most
<1>3. FallbackRefill * x =< FallbackRefill * y
    BY <1>1, <1>2, Monotonic
<1>4. FallbackRefill * x \in Nat /\ FallbackRefill * y \in Nat /\ y * FallbackRefill = FallbackRefill * y
    BY <1>1, <1>2, Product
<1>5. Tokens(local, now, FallbackBurst, FallbackRefill) = Least(FallbackBurst, local.tokens + FallbackRefill * y)
    BY <1>4 DEF Tokens, Refilled
<1>. QED
    BY <1>1, <1>3, <1>4, <1>5 DEF Least

\* The time a client is told is long enough for what it lacks.
LEMMA RetryLongEnough ==
    ASSUME NEW t \in Nat, NEW c \in Nat, t < c
    PROVE  /\ RetryAfter(t, c) \in Nat
           /\ c =< t + FallbackRefill * RetryAfter(t, c)
<1>. DEFINE d == (c - t) \div FallbackRefill
<1>1. FallbackRefill \in Nat /\ FallbackRefill > 0
    BY ConstantsAssumption
<1>2. d \in Nat /\ c - t < FallbackRefill * d + FallbackRefill
    BY <1>1
<1>3. FallbackRefill * (d + 1) = FallbackRefill * d + FallbackRefill
    BY <1>1, <1>2
<1>4. FallbackRefill * d \in Nat
    BY <1>1, <1>2, Product
<1>. QED
    BY <1>1, <1>2, <1>3, <1>4 DEF RetryAfter

\* A request that the fallback judges keeps its books, and its promises.
LEMMA LocalConsumeStep ==
    ASSUME TypeOK, LocalInv, PromiseInv, NEW c \in Costs, LocalConsume(c)
    PROVE  LocalInv' /\ PromiseInv' /\ local' \in Bucket /\ promise' \in Promise \union {None}
           /\ creditLocal' \in Int /\ creditLocal' =< FallbackBurst
<1>. DEFINE t == Tokens(local, clock, FallbackBurst, FallbackRefill)
            paid == IF t >= c THEN c ELSE 0
<1>0. /\ FallbackBurst \in Nat /\ FallbackRefill \in Nat /\ c \in Nat
      /\ clock \in Nat /\ creditLocal \in Int /\ creditLocal =< FallbackBurst
      /\ promise \in Promise \union {None}
    BY ConstantsAssumption DEF TypeOK
<1>1. t \in Nat /\ t =< FallbackBurst /\ t =< creditLocal
    BY LocalFinds
<1>2. paid \in Nat /\ paid =< t
    BY <1>0, <1>1
<1>3. local' = [tokens |-> t - paid, ts |-> clock] /\ creditLocal' = creditLocal - paid /\ clock' = clock
    BY <1>0, <1>1 DEF LocalConsume, Written
<1>4. local' \in Bucket /\ local' # None /\ local'.tokens = t - paid /\ local'.ts = clock
    BY <1>0, <1>1, <1>2, <1>3, NoneAssumption DEF Bucket
<1>5. LocalInv'
  <2>1. FallbackRefill * (clock' - local'.ts) = 0
    BY <1>0, <1>3, <1>4
  <2>2. Least(FallbackBurst, local'.tokens + FallbackRefill * (clock' - local'.ts)) =< creditLocal'
    BY <1>0, <1>1, <1>2, <1>3, <1>4, <2>1 DEF Least
  <2>. QED
    BY <1>0, <1>3, <1>4, <2>2 DEF LocalInv
<1>6. PromiseInv' /\ promise' \in Promise \union {None}
  <2>1. CASE promise' = None
    BY <2>1 DEF PromiseInv
  <2>2. CASE ~(t >= c) /\ promise' = [cost |-> c, due |-> clock + RetryAfter(t, c)]
    <3>1. RetryAfter(t, c) \in Nat /\ c =< t + FallbackRefill * RetryAfter(t, c)
      BY <1>0, <1>1, <2>2, RetryLongEnough
    <3>2. promise' \in Promise /\ promise'.cost = c /\ promise'.due = clock + RetryAfter(t, c)
      BY <1>0, <2>2, <3>1 DEF Promise
    <3>3. Most(0, promise'.due - local'.ts) = RetryAfter(t, c)
      BY <1>0, <1>4, <3>1, <3>2 DEF Most
    <3>4. local'.tokens = t
      BY <1>1, <1>4, <2>2
    <3>5. FallbackRefill * RetryAfter(t, c) \in Nat
      BY <1>0, <3>1, Product
    <3>6. c =< FallbackBurst => c =< Least(FallbackBurst, t + FallbackRefill * RetryAfter(t, c))
      BY <1>0, <1>1, <3>1, <3>5 DEF Least
    <3>. QED
      BY <3>2, <3>3, <3>4, <3>6 DEF PromiseInv
  <2>3. CASE ~(t >= c) /\ promise # None /\ promise' = promise
    <3>1. promise.cost \in Nat /\ promise.due \in Nat /\ local'.tokens = t
      <4>1. promise \in Promise
        BY <1>0, <2>3
      <4>2. promise.cost \in Nat /\ promise.due \in Nat
        BY <4>1, ConstantsAssumption DEF Promise
      <4>3. paid = 0
        BY <2>3
      <4>4. local'.tokens = t
        BY <1>1, <1>4, <4>3
      <4>. QED
        BY <4>2, <4>4
    <3>2. SUFFICES ASSUME promise.cost =< FallbackBurst
                   PROVE  promise.cost =< Least(FallbackBurst, t + FallbackRefill * Most(0, promise.due - clock))
      BY <1>0, <1>4, <2>3, <3>1 DEF PromiseInv
    <3>3. Most(0, promise.due - clock) \in Nat
      BY <1>0, <3>1 DEF Most
    <3>4. FallbackRefill * Most(0, promise.due - clock) \in Nat
      BY <1>0, <3>3, Product
    <3>5. CASE local = None
      BY <1>0, <1>1, <3>1, <3>2, <3>4, <3>5 DEF Tokens, Least
    <3>6. CASE local # None /\ promise.due =< clock
      <4>1. promise.cost =< t
        <5>1. promise.cost =< Least(FallbackBurst, local.tokens + FallbackRefill * Most(0, promise.due - local.ts))
          BY <2>3, <3>2, <3>6 DEF PromiseInv
        <5>2. Least(FallbackBurst, local.tokens + FallbackRefill * Most(0, promise.due - local.ts)) =< t
          BY <1>0, <3>1, <3>6, LocalGrows
        <5>3. Least(FallbackBurst, local.tokens + FallbackRefill * Most(0, promise.due - local.ts)) \in Int
          <6>1. local.tokens \in Nat /\ local.ts \in Nat
            BY <3>6 DEF TypeOK, Bucket
          <6>2. Most(0, promise.due - local.ts) \in Nat
            BY <3>1, <6>1 DEF Most
          <6>3. FallbackRefill * Most(0, promise.due - local.ts) \in Nat
            BY <1>0, <6>2, Product
          <6>. QED
            BY <1>0, <6>1, <6>3 DEF Least
        <5>. QED
          BY <1>1, <3>1, <5>1, <5>2, <5>3
      <4>. QED
        BY <1>0, <1>1, <3>1, <3>2, <3>4, <4>1 DEF Least
    <3>7. CASE local # None /\ promise.due > clock
      <4>1. local.tokens \in Nat /\ local.ts \in Nat /\ local.ts =< clock
        BY <3>7 DEF TypeOK, Bucket, LocalInv
      <4>2. /\ Most(0, promise.due - local.ts) = promise.due - local.ts
            /\ Most(0, promise.due - clock) = promise.due - clock
            /\ Most(0, clock - local.ts) = clock - local.ts
        BY <1>0, <3>1, <3>7, <4>1 DEF Most
      <4>3. promise.cost =< Least(FallbackBurst, local.tokens + FallbackRefill * (promise.due - local.ts))
        BY <2>3, <3>2, <3>7, <4>2 DEF PromiseInv
      <4>4. t = Least(FallbackBurst, local.tokens + (clock - local.ts) * FallbackRefill)
        BY <3>7, <4>2 DEF Tokens, Refilled
      <4>5. /\ FallbackRefill * (promise.due - local.ts) =
                 FallbackRefill * (promise.due - clock) + FallbackRefill * (clock - local.ts)
            /\ (clock - local.ts) * FallbackRefill = FallbackRefill * (clock - local.ts)
        BY <1>0, <3>1, <4>1, Times
      <4>6. FallbackRefill * (promise.due - clock) \in Nat /\ FallbackRefill * (clock - local.ts) \in Nat
        <5>1. promise.due - clock \in Nat /\ clock - local.ts \in Nat
          BY <1>0, <3>1, <3>7, <4>1
        <5>. QED
          BY <1>0, <5>1, Product
      <4>. QED
        BY <1>0, <1>1, <3>1, <3>2, <4>1, <4>2, <4>3, <4>4, <4>5, <4>6 DEF Least
    <3>. QED
      BY <1>0, <3>1, <3>5, <3>6, <3>7, <2>3
  <2>. QED
    BY <1>0, <2>1, <2>2, <2>3 DEF LocalConsume
<1>7. creditLocal' \in Int /\ creditLocal' =< FallbackBurst
    BY <1>0, <1>1, <1>2, <1>3
<1>. QED
    BY <1>4, <1>5, <1>6, <1>7

-----------------------------------------------------------------------------
(* The invariant is inductive *)

LEMMA Initially ==
    ASSUME Init PROVE IInv
<1>1. CreditLimit \in Nat /\ FallbackBurst \in Nat /\ MaxIdentities \in Nat
    BY Limit, ConstantsAssumption
<1>2. TypeOK
    BY <1>1 DEF Init, TypeOK
<1>. QED
    BY <1>2 DEF Init, IInv, FlightInv, BucketInv, LocalInv, PromiseInv, TableInv

\* What depends on the clock and on Redis alone.
LEMMA RedisSame ==
    ASSUME BucketInv, UNCHANGED <<clock, redisVars>> PROVE BucketInv'
BY DEF BucketInv, redisVars

\* What depends on the clock and on the table alone.
LEMMA LocalSame ==
    ASSUME LocalInv, PromiseInv, TableInv, UNCHANGED <<clock, localVars>>
    PROVE  LocalInv' /\ PromiseInv' /\ TableInv'
BY DEF LocalInv, PromiseInv, TableInv, localVars

LEMMA SendKeeps ==
    ASSUME IInv, NEW r \in Requests, NEW m \in Modes, NEW c \in Costs, Send(r, m, c)
    PROVE  IInv'
<1>. USE DEF IInv
<1>1. PICK at \in (clock - MaxLag) .. clock :
         at >= 0 /\ req' = [req EXCEPT ![r] = [mode |-> m, cost |-> c, at |-> at]]
    BY DEF Send
<1>2. /\ at \in Nat /\ at =< clock /\ clock =< at + MaxLag
      /\ UNCHANGED <<clock, redisVars, localVars>>
    BY <1>1, Limit DEF Send, TypeOK
<1>3. [mode |-> m, cost |-> c, at |-> at] \in Request
    BY <1>2 DEF Request
<1>4. req' \in [Requests -> Request \union {None}]
    BY <1>1, <1>3 DEF TypeOK
<1>5. TypeOK'
    BY <1>2, <1>4 DEF TypeOK, redisVars, localVars
<1>6. FlightInv'
    BY <1>1, <1>2 DEF FlightInv, TypeOK
<1>. QED
    BY <1>2, <1>5, <1>6, RedisSame, LocalSame

LEMMA AnswerKeeps ==
    ASSUME IInv, NEW r \in Requests, Script(r) \/ SendFails(r)
    PROVE  IInv'
<1>. USE DEF IInv
<1>1. req' = [req EXCEPT ![r] = None] /\ UNCHANGED <<clock, localVars>>
    BY DEF Script, SendFails
<1>2. req' \in [Requests -> Request \union {None}]
    BY <1>1 DEF TypeOK
<1>3. FlightInv'
    BY <1>1 DEF FlightInv, TypeOK
<1>4. CASE Script(r)
  <2>1. BucketInv' /\ bucket' \in Stored /\ credit' \in Int /\ credit' =< CreditLimit
    BY <1>4, ScriptPays
  <2>2. TypeOK'
    BY <1>1, <1>2, <2>1 DEF TypeOK, localVars
  <2>. QED
    BY <1>1, <1>3, <2>1, <2>2, LocalSame
<1>5. CASE SendFails(r)
  <2>1. UNCHANGED redisVars
    BY <1>5 DEF SendFails
  <2>2. TypeOK'
    BY <1>1, <1>2, <2>1 DEF TypeOK, redisVars, localVars
  <2>. QED
    BY <1>1, <1>3, <2>1, <2>2, RedisSame, LocalSame
<1>. QED
    BY <1>4, <1>5

LEMMA WipeKeeps ==
    ASSUME IInv, Wipe PROVE IInv'
<1>. USE DEF IInv
<1>1. bucket' = None /\ credit' = CreditLimit /\ UNCHANGED <<clock, req, localVars>>
    BY DEF Wipe
<1>2. TypeOK'
    BY <1>1, Limit DEF TypeOK, localVars
<1>3. BucketInv' /\ FlightInv'
    BY <1>1 DEF BucketInv, FlightInv
<1>. QED
    BY <1>1, <1>2, <1>3, LocalSame

LEMMA LocalConsumeKeeps ==
    ASSUME IInv, NEW c \in Costs, LocalConsume(c) PROVE IInv'
<1>. USE DEF IInv
<1>1. /\ LocalInv' /\ PromiseInv' /\ local' \in Bucket /\ promise' \in Promise \union {None}
      /\ creditLocal' \in Int /\ creditLocal' =< FallbackBurst
    BY LocalConsumeStep
<1>2. UNCHANGED <<clock, req, redisVars, younger>> /\ older' = RoomBy /\ local' # None
    BY <1>1, NoneAssumption DEF LocalConsume
<1>3. /\ older' \in Nat /\ younger' \in Nat
      /\ older' + younger' + (IF local' = None THEN 0 ELSE 1) =< MaxIdentities
    BY <1>2, ConstantsAssumption DEF RoomBy, Full, TypeOK, TableInv
<1>4. TypeOK'
    BY <1>1, <1>2, <1>3 DEF TypeOK, redisVars
<1>5. FlightInv' /\ TableInv'
    BY <1>2 DEF FlightInv, TableInv
<1>. QED
    BY <1>1, <1>2, <1>4, <1>5, RedisSame

LEMMA OtherConsumeKeeps ==
    ASSUME IInv, OtherConsume PROVE IInv'
<1>. USE DEF IInv
<1>1. UNCHANGED <<clock, req, redisVars, promise>>
    BY DEF OtherConsume
<1>2. /\ older' \in Nat /\ younger' \in Nat
      /\ older' + younger' + (IF local' = None THEN 0 ELSE 1) =< MaxIdentities
    BY ConstantsAssumption DEF OtherConsume, Forget, Full, TypeOK, TableInv
<1>3. \/ UNCHANGED <<local, creditLocal>> /\ (local = None => younger' = younger)
      \/ local' = None /\ creditLocal' = FallbackBurst /\ younger' = 0
    BY DEF OtherConsume, Forget
<1>4. LocalInv' /\ PromiseInv' /\ TableInv'
    BY <1>1, <1>3 DEF LocalInv, PromiseInv, TableInv
<1>5. TypeOK'
  <2>1. /\ local' \in Bucket \union {None}
        /\ creditLocal' \in Int /\ creditLocal' =< FallbackBurst
    BY <1>3, ConstantsAssumption DEF TypeOK
  <2>. QED
    BY <1>1, <1>2, <2>1 DEF TypeOK, redisVars
<1>6. FlightInv'
    BY <1>1 DEF FlightInv
<1>. QED
    BY <1>1, <1>4, <1>5, <1>6, RedisSame

LEMMA RestartKeeps ==
    ASSUME IInv, Restart PROVE IInv'
<1>. USE DEF IInv
<1>1. /\ local' = None /\ creditLocal' = FallbackBurst /\ older' = 0 /\ younger' = 0
      /\ UNCHANGED <<clock, req, redisVars, promise>>
    BY DEF Restart, Forget
<1>2. TypeOK'
    BY <1>1, ConstantsAssumption DEF TypeOK, redisVars
<1>3. LocalInv' /\ PromiseInv' /\ TableInv' /\ FlightInv'
    BY <1>1 DEF LocalInv, PromiseInv, TableInv, FlightInv
<1>. QED
    BY <1>1, <1>2, <1>3, RedisSame

\* What a bucket is worth grows in a tick by no more than the refill.
LEMMA TickWorth ==
    ASSUME NEW limit \in Nat, NEW refill \in Nat, NEW tokens \in Nat, NEW ts \in Nat,
           NEW now \in Nat, NEW c \in Int, c =< limit,
           Least(limit, tokens + refill * (now - ts)) =< c
    PROVE  /\ Least(limit, c + refill) \in Int
           /\ Least(limit, c + refill) =< limit
           /\ Least(limit, tokens + refill * (now + 1 - ts)) =< Least(limit, c + refill)
<1>1. refill * (now + 1 - ts) = refill * (now - ts) + refill
    BY TimesNext
<1>2. refill * (now - ts) \in Int
    OBVIOUS
<1>. QED
    BY <1>1, <1>2 DEF Least

LEMMA TickKeeps ==
    ASSUME IInv, Tick PROVE IInv'
<1>. USE DEF IInv
<1>0. /\ clock \in Nat /\ credit \in Int /\ credit =< CreditLimit
      /\ creditLocal \in Int /\ creditLocal =< FallbackBurst
      /\ FallbackBurst \in Nat /\ FallbackRefill \in Nat
    BY ConstantsAssumption DEF TypeOK
<1>1. /\ clock' = clock + 1
      /\ credit' = Least(CreditLimit, credit + Refill)
      /\ creditLocal' = Least(FallbackBurst, creditLocal + FallbackRefill)
      /\ UNCHANGED <<req, bucket, local, older, younger, promise>>
    BY DEF Tick, Credited
<1>2. /\ clock' \in Nat
      /\ credit' \in Int /\ credit' =< CreditLimit
      /\ creditLocal' \in Int /\ creditLocal' =< FallbackBurst
    BY <1>0, <1>1, Limit DEF Least
<1>3. TypeOK'
    BY <1>1, <1>2 DEF TypeOK
<1>4. FlightInv'
  <2>1. SUFFICES ASSUME NEW r \in Requests, req[r] # None
                 PROVE  req[r].at =< clock + 1 /\ clock + 1 =< req[r].at + MaxLag
    BY <1>1 DEF FlightInv
  <2>2. clock < req[r].at + MaxLag
    BY <2>1 DEF Tick
  <2>. QED
    BY <1>0, <2>1, <2>2, Flight, Limit
<1>5. BucketInv'
  <2>1. CASE bucket = None
    BY <1>0, <1>1, <2>1, Limit DEF BucketInv, Least
  <2>2. CASE bucket # None
    <3>1. bucket.tokens \in Nat /\ bucket.ts \in Nat
      BY <2>2 DEF TypeOK, Stored
    <3>2. Least(CreditLimit, bucket.tokens + Refill * (clock + 1 - bucket.ts))
             =< Least(CreditLimit, credit + Refill)
      BY <1>0, <2>2, <3>1, Limit, TickWorth DEF BucketInv
    <3>3. bucket.ts =< clock + 1
      BY <1>0, <2>2, <3>1 DEF BucketInv
    <3>4. /\ bucket'.ts =< clock'
          /\ Capacity + Refill * Slack =< Refill * (bucket'.dies - bucket'.ts)
          /\ Least(CreditLimit, bucket'.tokens + Refill * (clock' - bucket'.ts)) =< credit'
      <4>1. Capacity + Refill * Slack =< Refill * (bucket.dies - bucket.ts)
        BY <2>2 DEF BucketInv
      <4>2. bucket' = bucket /\ clock' = clock + 1 /\ credit' = Least(CreditLimit, credit + Refill)
        BY <1>1
      <4>3. bucket'.ts =< clock'
        BY <3>3, <4>2
      <4>4. Least(CreditLimit, bucket'.tokens + Refill * (clock' - bucket'.ts)) =< credit'
        <5>1. clock' - bucket'.ts = clock + 1 - bucket.ts /\ bucket'.tokens = bucket.tokens
          BY <1>0, <3>1, <4>2
        <5>. QED
          BY <3>2, <4>2, <5>1, Zenon
      <4>. QED
        BY <4>1, <4>2, <4>3, <4>4
    <3>. QED
      BY <1>1, <2>2, <3>4 DEF BucketInv
  <2>. QED
    BY <2>1, <2>2
<1>6. LocalInv'
  <2>1. CASE local = None
    BY <1>0, <1>1, <2>1, ConstantsAssumption DEF LocalInv, Least
  <2>2. CASE local # None
    <3>1. local.tokens \in Nat /\ local.ts \in Nat
      BY <2>2 DEF TypeOK, Bucket
    <3>2. Least(FallbackBurst, local.tokens + FallbackRefill * (clock + 1 - local.ts))
             =< Least(FallbackBurst, creditLocal + FallbackRefill)
      BY <1>0, <2>2, <3>1, TickWorth DEF LocalInv
    <3>3. local.ts =< clock + 1
      BY <1>0, <2>2, <3>1 DEF LocalInv
    <3>4. /\ local'.ts =< clock'
          /\ Least(FallbackBurst, local'.tokens + FallbackRefill * (clock' - local'.ts)) =< creditLocal'
      <4>1. /\ local' = local /\ clock' = clock + 1
            /\ creditLocal' = Least(FallbackBurst, creditLocal + FallbackRefill)
        BY <1>1
      <4>2. local'.ts =< clock'
        BY <3>3, <4>1
      <4>3. Least(FallbackBurst, local'.tokens + FallbackRefill * (clock' - local'.ts)) =< creditLocal'
        <5>1. clock' - local'.ts = clock + 1 - local.ts /\ local'.tokens = local.tokens
          BY <1>0, <3>1, <4>1
        <5>. QED
          BY <3>2, <4>1, <5>1, Zenon
      <4>. QED
        BY <4>2, <4>3
    <3>. QED
      BY <1>1, <2>2, <3>4 DEF LocalInv
  <2>. QED
    BY <2>1, <2>2
<1>7. PromiseInv' /\ TableInv'
    BY <1>1 DEF PromiseInv, TableInv
<1>. QED
    BY <1>3, <1>4, <1>5, <1>6, <1>7

LEMMA Inductive ==
    ASSUME IInv, [Next]_vars PROVE IInv'
<1>1. CASE UNCHANGED vars
    BY <1>1, RedisSame, LocalSame DEF IInv, vars, TypeOK, FlightInv, redisVars, localVars
<1>2. CASE Next
    BY <1>2, SendKeeps, AnswerKeeps, WipeKeeps, LocalConsumeKeeps, OtherConsumeKeeps,
       RestartKeeps, TickKeeps DEF Next
<1>. QED
    BY <1>1, <1>2

-----------------------------------------------------------------------------
(* Theorems *)

\* The inductive invariant holds in every reachable state.
THEOREM InvariantHolds == Spec => []IInv
<1>1. Init => IInv
    BY Initially
<1>2. IInv /\ [Next]_vars => IInv'
    BY Inductive
<1>. QED
    BY <1>1, <1>2, PTL DEF Spec

\* The table never holds more than max_identities entries, and every bucket a
\* whole number of tokens (limiter.py:128-140).
THEOREM TypeCorrect == Spec => []TypeOK
<1>1. IInv => TypeOK
    BY DEF IInv
<1>. QED
    BY <1>1, InvariantHolds, PTL

\* Redis and the fallback admit no more than a burst and what the refill pays
\* for, whatever the clocks and the order of the scripts (limiter.py:51-66).
THEOREM NothingFree == Spec => []PaidFor
<1>1. ASSUME IInv PROVE credit >= 0
  <2>1. clock \in Nat /\ credit \in Int /\ CreditLimit \in Nat
    BY <1>1, Limit DEF IInv, TypeOK
  <2>2. CASE bucket = None
    BY <1>1, <2>1, <2>2 DEF IInv, BucketInv
  <2>3. CASE bucket # None
    <3>1. bucket.tokens \in Nat /\ bucket.ts \in Nat /\ bucket.ts =< clock
      BY <1>1, <2>3 DEF IInv, TypeOK, Stored, BucketInv
    <3>2. clock - bucket.ts \in Nat
      BY <2>1, <3>1
    <3>3. Refill * (clock - bucket.ts) \in Nat
      BY <3>2, Limit, Product
    <3>4. Least(CreditLimit, bucket.tokens + Refill * (clock - bucket.ts)) =< credit
      BY <1>1, <2>3 DEF IInv, BucketInv
    <3>. QED
      BY <2>1, <3>1, <3>3, <3>4 DEF Least
  <2>. QED
    BY <2>2, <2>3
<1>2. ASSUME IInv PROVE creditLocal >= 0
  <2>1. creditLocal \in Int
    BY <1>2 DEF IInv, TypeOK
  <2>. QED
    BY <1>2, <2>1, LocalFinds DEF IInv
<1>3. IInv => PaidFor
    BY <1>1, <1>2 DEF PaidFor
<1>. QED
    BY <1>3, InvariantHolds, PTL

\* A client that was told when to retry is admitted then (middleware.py:207).
THEOREM RetriesKept == Spec => []RetryKept
<1>1. ASSUME IInv, promise # None, promise.due =< clock, promise.cost =< FallbackBurst
      PROVE  Tokens(local, clock, FallbackBurst, FallbackRefill) >= promise.cost
  <2>1. /\ promise.cost \in Nat /\ promise.due \in Nat /\ clock \in Nat /\ FallbackBurst \in Nat
    BY <1>1, ConstantsAssumption DEF IInv, TypeOK, Promise
  <2>2. CASE local = None
    BY <1>1, <2>1, <2>2 DEF Tokens
  <2>3. CASE local # None
    <3>. DEFINE w == Least(FallbackBurst, local.tokens + FallbackRefill * Most(0, promise.due - local.ts))
                t == Tokens(local, clock, FallbackBurst, FallbackRefill)
    <3>1. promise.cost =< w
      BY <1>1, <2>3 DEF IInv, PromiseInv
    <3>2. w =< t
      BY <1>1, <2>1, <2>3, LocalGrows DEF IInv
    <3>3. t \in Nat
      BY <1>1, LocalFinds DEF IInv
    <3>4. w \in Int
      <4>1. local.tokens \in Nat /\ local.ts \in Nat
        BY <1>1, <2>3 DEF IInv, TypeOK, Bucket
      <4>2. Most(0, promise.due - local.ts) \in Nat
        BY <2>1, <4>1 DEF Most
      <4>3. FallbackRefill * Most(0, promise.due - local.ts) \in Nat
        BY <4>2, Product, ConstantsAssumption
      <4>. QED
        BY <2>1, <4>1, <4>3 DEF Least
    <3>. QED
      BY <2>1, <3>1, <3>2, <3>3, <3>4
  <2>. QED
    BY <2>2, <2>3
<1>2. IInv => RetryKept
    BY <1>1 DEF RetryKept
<1>. QED
    BY <1>2, InvariantHolds, PTL

===============================================================================
