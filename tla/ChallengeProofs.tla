---------------------------- MODULE ChallengeProofs ----------------------------
(***************************************************************************)
(* Proofs about Challenge, for any clients, any number of requests under   *)
(* way, any times to live and any lag of the clocks that is shorter than a *)
(* challenge: its types, that a challenge is used once, and that a pass    *)
(* has been earned.                                                        *)
(***************************************************************************)
EXTENDS Challenge, TLAPS

-----------------------------------------------------------------------------
(* The inductive invariant *)

\* No command outlives its time-out.
FlightInv == \A r \in Requests : req[r] # Idle => clock =< req[r].due

\* A mark that is being set belongs to a challenge that was still good when the
\* clock was read.
BurnInv == \A r \in Requests : req[r].stage = "burn" =>
              LET c == req[r].c IN
                chal[c] # None /\ req[r].due =< chal[c].ts + TTL + MaxLag

\* While Redis has not lost the mark of a challenge, it outlives each use of it
\* by TTL, and every use but the first came when the mark had expired.
MarkInv == \A c \in Challenges :
              /\ uses[c] > 0 => /\ chal[c] # None /\ key[c] # None
                                /\ chal[c].ts =< first[c]
                                /\ first[c] + TTL =< key[c]
              /\ uses[c] = 2 => first[c] + TTL + TTL =< key[c]

\* Who sent the token and the solution that the request brings to set_pass.
Sender(r) == req[r].stage = "vip" \/ (req[r].stage = "consume" /\ req[r].c # None)

\* A solver whose request is asking for a token had its solution accepted then,
\* and a VIP was let on then.
SolverInv ==
    /\ \A i \in Clients : solved[i] # None => solved[i] =< clock
    /\ \A r \in Requests : Sender(r) =>
          /\ solved[req[r].ip] # None
          /\ req[r].due =< solved[req[r].ip] + 2 * MaxLag

IInv == TypeOK /\ FlightInv /\ BurnInv /\ MarkInv /\ UsedOnce /\ SolverInv /\ PassEarned

-----------------------------------------------------------------------------
(* Times and requests *)

LEMMA Times ==
    /\ TTL \in Nat /\ TTL > 0 /\ PassTTL \in Nat /\ MaxLag \in Nat /\ MaxLag < TTL
    /\ Second \in Nat /\ Second > 0
BY ConstantsAssumption

\* What a clock shows, and what a token keeps of it, are not ahead.
LEMMA Rounding ==
    ASSUME NEW t \in Int
    PROVE  Whole(t) \in Int /\ Whole(t) =< t
<1>. DEFINE q == t \div Second
<1>1. Second \in Nat /\ Second > 0
    BY Times
<1>2. q \in Int /\ Second * q =< t
    BY <1>1
<1>3. q * Second = Second * q /\ q * Second \in Int
    BY <1>1, <1>2
<1>. QED
    BY <1>2, <1>3 DEF Whole

LEMMA Reading ==
    ASSUME TypeOK, NEW at \in Readings
    PROVE  at \in Int /\ at =< clock /\ clock =< at + MaxLag
BY Times DEF TypeOK, Readings

LEMMA RequestTypes ==
    ASSUME TypeOK, NEW r \in Requests
    PROVE  /\ req[r].stage \in {"idle", "burn", "consume", "vip"}
           /\ req[r].stage = "idle" => req[r] = Idle
           /\ req[r].stage # "idle" => req[r] # Idle /\ req[r].ip \in Clients /\ req[r].due \in Int
           /\ req[r].stage = "burn" => req[r].c \in Challenges
           /\ req[r].stage = "consume" => req[r].c \in Challenges \union {None}
<1>1. req[r] \in Request
    BY DEF TypeOK
<1>. QED
    BY <1>1 DEF Request, Idle

LEMMA ChalTypes ==
    ASSUME TypeOK, NEW c \in Challenges, chal[c] # None
    PROVE  chal[c].ts \in Int /\ chal[c].ip \in Clients /\ chal[c].ts =< clock
BY DEF TypeOK, Chal

-----------------------------------------------------------------------------
(* Steps that several actions take *)

\* A challenge is issued, or not: none that was issued changes.
LEMMA IssueKeeps ==
    ASSUME TypeOK, NEW i \in Clients, Issue(i)
    PROVE  /\ chal' \in [Challenges -> Chal \union {None}]
           /\ \A c \in Challenges : chal'[c] # None => chal'[c].ts =< clock
           /\ \A c \in Challenges : chal[c] # None => chal'[c] = chal[c]
<1>1. CASE UNCHANGED chal
    BY <1>1 DEF TypeOK
<1>2. ASSUME NEW d \in Challenges, NEW at \in Readings, chal[d] = None,
             chal' = [chal EXCEPT ![d] = [ip |-> i, ts |-> Whole(at)]]
      PROVE  /\ chal' \in [Challenges -> Chal \union {None}]
             /\ \A c \in Challenges : chal'[c] # None => chal'[c].ts =< clock
             /\ \A c \in Challenges : chal[c] # None => chal'[c] = chal[c]
  <2>1. Whole(at) \in Int /\ Whole(at) =< clock
    BY <1>2, Reading, Rounding DEF TypeOK
  <2>2. [ip |-> i, ts |-> Whole(at)] \in Chal
    BY <2>1 DEF Chal
  <2>. QED
    BY <1>2, <2>1, <2>2 DEF TypeOK
<1>. QED
    BY <1>1, <1>2 DEF Issue

\* The invariants of the challenges and their marks, when both stay and a
\* challenge may be added.
LEMMA MarksStay ==
    ASSUME MarkInv, UsedOnce, UNCHANGED <<key, uses, first>>,
           \A c \in Challenges : chal[c] # None => chal'[c] = chal[c]
    PROVE  MarkInv' /\ UsedOnce'
<1>1. ASSUME NEW c \in Challenges, uses[c] = 2
      PROVE  chal[c] # None
    BY <1>1 DEF MarkInv
<1>. QED
    BY <1>1 DEF MarkInv, UsedOnce

\* The invariants of the requests, when those that are under way stay and the
\* others say nothing.
LEMMA RequestEnds ==
    ASSUME TypeOK, FlightInv, BurnInv, SolverInv, NEW r \in Requests, Goto(r, Idle),
           UNCHANGED <<clock, solved>>,
           \A c \in Challenges : chal[c] # None => chal'[c] = chal[c]
    PROVE  /\ req' \in [Requests -> Request]
           /\ FlightInv' /\ BurnInv' /\ SolverInv'
<1>1. req' = [req EXCEPT ![r] = Idle]
    BY DEF Goto
<1>2. Idle \in Request /\ Idle.stage = "idle"
    BY DEF Request, Idle
<1>3. req' \in [Requests -> Request]
    BY <1>1, <1>2 DEF TypeOK
<1>4. \A q \in Requests : req'[q] = req[q] \/ req'[q] = Idle
    BY <1>1 DEF TypeOK
<1>5. FlightInv'
    BY <1>4 DEF FlightInv
<1>6. BurnInv'
  <2>1. SUFFICES ASSUME NEW q \in Requests, req'[q].stage = "burn"
                 PROVE  chal'[req'[q].c] # None /\ req'[q].due =< chal'[req'[q].c].ts + TTL + MaxLag
    BY DEF BurnInv
  <2>2. req'[q] = req[q]
    BY <1>2, <1>4, <2>1
  <2>3. req[q].c \in Challenges
    BY <2>1, <2>2, RequestTypes
  <2>. QED
    BY <2>1, <2>2, <2>3 DEF BurnInv
<1>7. SolverInv'
  <2>1. ASSUME NEW q \in Requests, Sender(q)'
        PROVE  solved'[req'[q].ip] # None /\ req'[q].due =< solved'[req'[q].ip] + 2 * MaxLag
    BY <1>2, <1>4, <2>1 DEF SolverInv, Sender
  <2>. QED
    BY <2>1 DEF SolverInv
<1>. QED
    BY <1>3, <1>5, <1>6, <1>7

\* A client is let on, for a solution or as a VIP, and goes on to ask for a token.
LEMMA LetOnKeeps ==
    ASSUME TypeOK, FlightInv, BurnInv, SolverInv, PassEarned, NEW r \in Requests,
           NEW i \in Clients, NEW q \in Request, q.stage \in {"consume", "vip"}, q.ip = i,
           q.due \in Int, clock =< q.due, q.due =< clock + 2 * MaxLag,
           Goto(r, q), solved' = [solved EXCEPT ![i] = clock], UNCHANGED <<clock, chal, passes>>
    PROVE  /\ req' \in [Requests -> Request]
           /\ solved' \in [Clients -> Int \union {None}]
           /\ FlightInv' /\ BurnInv' /\ SolverInv' /\ PassEarned'
<1>1. req' = [req EXCEPT ![r] = q] /\ solved' = [solved EXCEPT ![i] = clock]
    BY DEF Goto
<1>2. clock \in Nat /\ MaxLag \in Nat /\ clock # None /\ clock \in Int
    BY Times, NoneAssumption DEF TypeOK
<1>3. q \in Request /\ q.stage \in {"consume", "vip"} /\ q.due =< clock + 2 * MaxLag /\ q.ip = i
    OBVIOUS
<1>4. req' \in [Requests -> Request] /\ solved' \in [Clients -> Int \union {None}]
    BY <1>1, <1>2, <1>3 DEF TypeOK
<1>5. \A s \in Requests : req'[s] = IF s = r THEN q ELSE req[s]
    BY <1>1 DEF TypeOK
<1>6. \A j \in Clients : solved'[j] = IF j = i THEN clock ELSE solved[j]
    BY <1>1 DEF TypeOK
<1>7. \A j \in Clients : solved[j] # None => /\ solved[j] \in Int /\ solved[j] =< solved'[j]
                                             /\ solved'[j] # None /\ solved'[j] \in Int
    BY <1>2, <1>6 DEF TypeOK, SolverInv
<1>8. FlightInv'
    BY <1>2, <1>5 DEF FlightInv
<1>9. BurnInv'
    BY <1>3, <1>5 DEF BurnInv
<1>10. SolverInv'
  <2>1. ASSUME NEW s \in Requests, Sender(s)'
        PROVE  solved'[req'[s].ip] # None /\ req'[s].due =< solved'[req'[s].ip] + 2 * MaxLag
    <3>1. CASE s = r
      BY <1>2, <1>3, <1>5, <1>6, <3>1
    <3>2. CASE s # r
      <4>1. req'[s] = req[s] /\ req[s].ip \in Clients /\ req[s].due \in Int
        BY <1>5, <2>1, <3>2, RequestTypes DEF Sender
      <4>2. solved[req[s].ip] # None /\ req[s].due =< solved[req[s].ip] + 2 * MaxLag
        BY <2>1, <4>1 DEF SolverInv, Sender
      <4>. QED
        BY <1>2, <1>7, <4>1, <4>2
    <3>. QED
      BY <3>1, <3>2
  <2>2. \A j \in Clients : solved'[j] # None => solved'[j] =< clock
    BY <1>2, <1>6 DEF SolverInv
  <2>. QED
    BY <2>1, <2>2 DEF SolverInv
<1>11. PassEarned'
  <2>1. SUFFICES ASSUME NEW p \in passes
                 PROVE  solved'[p.ip] # None /\ p.exp =< solved'[p.ip] + 2 * MaxLag + PassTTL
    BY DEF PassEarned
  <2>2. p.ip \in Clients /\ p.exp \in Int
    BY DEF TypeOK, Pass
  <2>3. solved[p.ip] # None /\ p.exp =< solved[p.ip] + 2 * MaxLag + PassTTL
    BY DEF PassEarned
  <2>. QED
    BY <1>2, <1>7, <2>2, <2>3, Times
<1>. QED
    BY <1>4, <1>8, <1>9, <1>10, <1>11

\* The solver of a challenge.
LEMMA PromoteKeeps ==
    ASSUME TypeOK, FlightInv, BurnInv, SolverInv, PassEarned, NEW r \in Requests,
           req[r].stage = "burn", Promote(r), UNCHANGED <<clock, chal, passes>>
    PROVE  /\ req' \in [Requests -> Request]
           /\ solved' \in [Clients -> Int \union {None}]
           /\ FlightInv' /\ BurnInv' /\ SolverInv' /\ PassEarned'
<1>. DEFINE i == req[r].ip
            q == [stage |-> "consume", ip |-> i, c |-> req[r].c, due |-> clock + 2 * MaxLag]
<1>1. i \in Clients /\ req[r].c \in Challenges /\ clock \in Nat /\ MaxLag \in Nat
    BY RequestTypes, Times DEF TypeOK
<1>2. /\ q \in Request /\ q.stage = "consume" /\ q.ip = i /\ q.due =< clock + 2 * MaxLag
      /\ q.due \in Int /\ clock =< q.due
    BY <1>1 DEF Request
<1>3. Goto(r, q) /\ solved' = [solved EXCEPT ![i] = clock]
    BY DEF Promote
<1>. HIDE DEF i, q
<1>. QED
    BY <1>1, <1>2, <1>3, LetOnKeeps

\* A mark that is set where none was valid outlives the one before it.
LEMMA MarkLater ==
    ASSUME TypeOK, NEW c \in Challenges, ~Marked(c), Mark(c)
    PROVE  /\ key' \in [Challenges -> Int \union {None}]
           /\ key'[c] = clock + TTL /\ key'[c] # None
           /\ key[c] # None => key[c] \in Int /\ key[c] =< clock
           /\ \A d \in Challenges \ {c} : key'[d] = key[d]
<1>1. clock + TTL \in Int /\ key' = [key EXCEPT ![c] = clock + TTL]
    BY Times DEF TypeOK, Mark, MarkUntil
<1>. QED
    BY <1>1, NoneAssumption DEF TypeOK, Marked

-----------------------------------------------------------------------------
(* The invariant is inductive *)

LEMMA Initially ==
    ASSUME Init PROVE IInv
<1>1. 0 \in Int /\ Idle \in Request /\ Idle.stage = "idle"
    BY DEF Request, Idle
<1>2. TypeOK
    BY <1>1 DEF Init, TypeOK
<1>. QED
    BY <1>1, <1>2 DEF Init, IInv, FlightInv, BurnInv, MarkInv, UsedOnce, SolverInv, Sender, PassEarned

LEMMA RefuseKeeps ==
    ASSUME IInv, NEW i \in Clients, Refuse(i) PROVE IInv'
<1>. USE DEF IInv
<1>1. /\ Issue(i)
      /\ UNCHANGED <<clock, key, req, passes, uses, first, solved>>
    BY DEF Refuse
<1>2. /\ chal' \in [Challenges -> Chal \union {None}]
      /\ \A c \in Challenges : chal'[c] # None => chal'[c].ts =< clock
      /\ \A c \in Challenges : chal[c] # None => chal'[c] = chal[c]
    BY <1>1, IssueKeeps
<1>3. TypeOK'
    BY <1>1, <1>2 DEF TypeOK
<1>4. FlightInv' /\ SolverInv' /\ PassEarned'
    BY <1>1 DEF FlightInv, SolverInv, Sender, PassEarned
<1>5. BurnInv'
  <2>1. SUFFICES ASSUME NEW q \in Requests, req[q].stage = "burn"
                 PROVE  chal'[req[q].c] # None /\ req[q].due =< chal'[req[q].c].ts + TTL + MaxLag
    BY <1>1 DEF BurnInv
  <2>2. req[q].c \in Challenges
    BY <2>1, RequestTypes
  <2>. QED
    BY <1>2, <2>1, <2>2 DEF BurnInv
<1>. QED
    BY <1>1, <1>2, <1>3, <1>4, <1>5, MarksStay

LEMMA EnterKeeps ==
    ASSUME IInv, NEW r \in Requests, NEW i \in Clients, Enter(r, i) PROVE IInv'
<1>. USE DEF IInv
<1>. DEFINE q == [stage |-> "consume", ip |-> i, c |-> None, due |-> clock + MaxLag]
<1>1. /\ req' = [req EXCEPT ![r] = q]
      /\ UNCHANGED <<clock, chal, key, passes, uses, first, solved>>
    BY DEF Enter, Goto
<1>2. clock \in Nat /\ clock + MaxLag \in Int /\ clock =< clock + MaxLag
    BY Times DEF TypeOK
<1>3. q \in Request /\ q.stage = "consume" /\ q.c = None /\ q.due = clock + MaxLag
    BY <1>2 DEF Request
<1>4. \A s \in Requests : req'[s] = IF s = r THEN q ELSE req[s]
    BY <1>1 DEF TypeOK
<1>5. TypeOK'
    BY <1>1, <1>3 DEF TypeOK
<1>6. FlightInv' /\ BurnInv' /\ SolverInv'
    BY <1>1, <1>2, <1>3, <1>4 DEF FlightInv, BurnInv, SolverInv, Sender
<1>. QED
    BY <1>1, <1>5, <1>6, MarksStay DEF PassEarned

LEMMA VouchKeeps ==
    ASSUME IInv, NEW r \in Requests, NEW i \in Clients, Vouch(r, i) PROVE IInv'
<1>. USE DEF IInv
<1>. DEFINE q == [stage |-> "vip", ip |-> i, due |-> clock + MaxLag]
<1>1. /\ Goto(r, q) /\ solved' = [solved EXCEPT ![i] = clock]
      /\ UNCHANGED <<clock, chal, key, passes, uses, first>>
    BY DEF Vouch
<1>2. clock \in Nat /\ MaxLag \in Nat
    BY Times DEF TypeOK
<1>3. /\ q \in Request /\ q.stage = "vip" /\ q.ip = i
      /\ q.due \in Int /\ clock =< q.due /\ q.due =< clock + 2 * MaxLag
    BY <1>2 DEF Request
<1>. HIDE DEF q
<1>4. /\ req' \in [Requests -> Request] /\ solved' \in [Clients -> Int \union {None}]
      /\ FlightInv' /\ BurnInv' /\ SolverInv' /\ PassEarned'
    BY <1>1, <1>3, LetOnKeeps
<1>5. TypeOK'
    BY <1>1, <1>4 DEF TypeOK
<1>. QED
    BY <1>1, <1>4, <1>5, MarksStay

LEMMA PresentKeeps ==
    ASSUME IInv, NEW r \in Requests, NEW i \in Clients, NEW c \in Challenges, Present(r, i, c)
    PROVE  IInv'
<1>. USE DEF IInv
<1>1. PICK at \in Readings :
         /\ Verify(i, c, at)
         /\ Goto(r, [stage |-> "burn", ip |-> i, c |-> c, due |-> at + MaxLag])
    BY DEF Present
<1>2. UNCHANGED <<clock, chal, key, passes, uses, first, solved>>
    BY DEF Present
<1>. DEFINE q == [stage |-> "burn", ip |-> i, c |-> c, due |-> at + MaxLag]
<1>3. /\ at \in Int /\ clock =< at + MaxLag /\ at + MaxLag \in Int
      /\ chal[c] # None /\ chal[c].ts \in Int /\ at - chal[c].ts =< TTL
    BY <1>1, Reading, ChalTypes, Times DEF Verify
<1>4. /\ q \in Request /\ q.stage = "burn" /\ q.c = c /\ q.due = at + MaxLag
      /\ q.due =< chal[c].ts + TTL + MaxLag
    BY <1>3, Times DEF Request
<1>5. \A s \in Requests : req'[s] = IF s = r THEN q ELSE req[s]
    BY <1>1 DEF TypeOK, Goto
<1>6. TypeOK'
    BY <1>1, <1>2, <1>4 DEF TypeOK, Goto
<1>7. FlightInv' /\ BurnInv' /\ SolverInv'
    BY <1>2, <1>3, <1>4, <1>5 DEF FlightInv, BurnInv, SolverInv, Sender
<1>. QED
    BY <1>2, <1>6, <1>7, MarksStay DEF PassEarned

\* A challenge is used: for the first time, or for the second when the first
\* was early.
LEMMA BurnCreatedKeeps ==
    ASSUME IInv, NEW r \in Requests, BurnCreated(r) PROVE IInv'
<1>. USE DEF IInv
<1>. DEFINE c == req[r].c
<1>1. /\ req[r].stage = "burn" /\ ~Marked(c) /\ Mark(c) /\ Promote(r)
      /\ uses' = [uses EXCEPT ![c] = @ + 1]
      /\ first' = [first EXCEPT ![c] = IF uses[c] = 0 THEN clock ELSE @]
      /\ UNCHANGED <<clock, chal, passes>>
    BY DEF BurnCreated
<1>2. /\ c \in Challenges /\ req[r].due \in Int /\ clock =< req[r].due
      /\ chal[c] # None /\ chal[c].ts \in Int /\ chal[c].ts =< clock
      /\ req[r].due =< chal[c].ts + TTL + MaxLag
      /\ clock \in Nat /\ uses[c] \in Nat /\ first[c] \in Int
    BY <1>1, RequestTypes, ChalTypes DEF FlightInv, BurnInv, TypeOK
<1>3. /\ req' \in [Requests -> Request]
      /\ solved' \in [Clients -> Int \union {None}]
      /\ FlightInv' /\ BurnInv' /\ SolverInv' /\ PassEarned'
    BY <1>1, PromoteKeeps
<1>4. /\ key' \in [Challenges -> Int \union {None}]
      /\ key'[c] = clock + TTL /\ key'[c] # None
      /\ key[c] # None => key[c] \in Int /\ key[c] =< clock
      /\ \A d \in Challenges \ {c} : key'[d] = key[d]
    BY <1>1, <1>2, MarkLater
<1>5. uses' \in [Challenges -> Nat] /\ first' \in [Challenges -> Int]
    BY <1>1, <1>2 DEF TypeOK
<1>6. TypeOK'
    BY <1>1, <1>3, <1>4, <1>5 DEF TypeOK
<1>7. \A d \in Challenges \ {c} : uses'[d] = uses[d] /\ first'[d] = first[d]
    BY <1>1, <1>2 DEF TypeOK
<1>8. uses'[c] = uses[c] + 1 /\ first'[c] = IF uses[c] = 0 THEN clock ELSE first[c]
    BY <1>1, <1>2 DEF TypeOK
<1>9. /\ uses[c] \in {0, 1}
      /\ uses[c] = 1 => /\ first[c] - chal[c].ts =< MaxLag /\ chal[c].ts =< first[c]
                        /\ first[c] + TTL =< clock
  <2>1. uses[c] > 0 => key[c] \in Int /\ key[c] =< clock /\ first[c] + TTL =< key[c] /\ chal[c].ts =< first[c]
    BY <1>2, <1>4 DEF MarkInv
  <2>2. uses[c] = 2 => first[c] + TTL + TTL =< key[c]
    BY <1>2 DEF MarkInv
  <2>3. uses[c] =< 2
    BY <1>2 DEF UsedOnce
  <2>4. uses[c] # 2
    BY <1>2, <2>1, <2>2, Times
  <2>. QED
    BY <1>2, <2>1, <2>3, <2>4, Times
<1>10. MarkInv'
  <2>1. SUFFICES ASSUME NEW d \in Challenges
                 PROVE  /\ uses'[d] > 0 => /\ chal[d] # None /\ key'[d] # None
                                           /\ chal[d].ts =< first'[d]
                                           /\ first'[d] + TTL =< key'[d]
                        /\ uses'[d] = 2 => first'[d] + TTL + TTL =< key'[d]
    BY <1>1 DEF MarkInv
  <2>2. CASE d = c
    BY <1>2, <1>4, <1>8, <1>9, <2>2, Times
  <2>3. CASE d # c
    BY <1>4, <1>7, <2>3 DEF MarkInv
  <2>. QED
    BY <2>2, <2>3
<1>11. UsedOnce'
  <2>1. SUFFICES ASSUME NEW d \in Challenges
                 PROVE  uses'[d] =< 2 /\ (uses'[d] = 2 => first'[d] - chal[d].ts =< MaxLag)
    BY <1>1 DEF UsedOnce
  <2>2. CASE d = c
    BY <1>2, <1>8, <1>9, <2>2
  <2>3. CASE d # c
    BY <1>7, <2>3 DEF UsedOnce
  <2>. QED
    BY <2>2, <2>3
<1>. QED
    BY <1>3, <1>6, <1>10, <1>11

LEMMA BurnExistsKeeps ==
    ASSUME IInv, NEW r \in Requests, BurnExists(r) PROVE IInv'
<1>. USE DEF IInv
<1>1. /\ req[r].stage = "burn" /\ Issue(req[r].ip) /\ Goto(r, Idle)
      /\ UNCHANGED <<clock, key, passes, uses, first, solved>>
    BY DEF BurnExists
<1>2. req[r].ip \in Clients
    BY <1>1, RequestTypes
<1>3. /\ chal' \in [Challenges -> Chal \union {None}]
      /\ \A c \in Challenges : chal'[c] # None => chal'[c].ts =< clock
      /\ \A c \in Challenges : chal[c] # None => chal'[c] = chal[c]
    BY <1>1, <1>2, IssueKeeps
<1>4. req' \in [Requests -> Request] /\ FlightInv' /\ BurnInv' /\ SolverInv'
    BY <1>1, <1>3, RequestEnds
<1>5. TypeOK'
    BY <1>1, <1>3, <1>4 DEF TypeOK
<1>. QED
    BY <1>1, <1>3, <1>4, <1>5, MarksStay DEF PassEarned

LEMMA BurnOpenKeeps ==
    ASSUME IInv, NEW r \in Requests, BurnOpen(r) PROVE IInv'
<1>. USE DEF IInv
<1>1. /\ req[r].stage = "burn" /\ Promote(r)
      /\ UNCHANGED <<clock, chal, key, passes, uses, first>>
    BY DEF BurnOpen
<1>2. /\ req' \in [Requests -> Request] /\ solved' \in [Clients -> Int \union {None}]
      /\ FlightInv' /\ BurnInv' /\ SolverInv' /\ PassEarned'
    BY <1>1, PromoteKeeps
<1>3. TypeOK'
    BY <1>1, <1>2 DEF TypeOK
<1>. QED
    BY <1>1, <1>2, <1>3, MarksStay

LEMMA BurnFailsKeeps ==
    ASSUME IInv, NEW r \in Requests, BurnFails(r) PROVE IInv'
<1>. USE DEF IInv
<1>. DEFINE c == req[r].c
<1>1. /\ req[r].stage = "burn" /\ Goto(r, Idle)
      /\ UNCHANGED key \/ (~Marked(c) /\ Mark(c))
      /\ UNCHANGED <<clock, chal, passes, uses, first, solved>>
    BY DEF BurnFails
<1>2. c \in Challenges
    BY <1>1, RequestTypes
<1>3. req' \in [Requests -> Request] /\ FlightInv' /\ BurnInv' /\ SolverInv'
    BY <1>1, RequestEnds
<1>4. CASE UNCHANGED key
  <2>1. TypeOK'
    BY <1>1, <1>3, <1>4 DEF TypeOK
  <2>. QED
    BY <1>1, <1>3, <1>4, <2>1, MarksStay DEF PassEarned
<1>5. CASE ~Marked(c) /\ Mark(c)
  <2>1. /\ key' \in [Challenges -> Int \union {None}]
        /\ key'[c] = clock + TTL /\ key'[c] # None
        /\ key[c] # None => key[c] \in Int /\ key[c] =< clock
        /\ \A d \in Challenges \ {c} : key'[d] = key[d]
    BY <1>2, <1>5, MarkLater
  <2>2. TypeOK'
    BY <1>1, <1>3, <2>1 DEF TypeOK
  <2>3. UsedOnce' /\ PassEarned'
    BY <1>1 DEF UsedOnce, PassEarned
  <2>4. MarkInv'
    <3>1. SUFFICES ASSUME NEW d \in Challenges
                   PROVE  /\ uses[d] > 0 => /\ chal[d] # None /\ key'[d] # None
                                            /\ chal[d].ts =< first[d]
                                            /\ first[d] + TTL =< key'[d]
                          /\ uses[d] = 2 => first[d] + TTL + TTL =< key'[d]
      BY <1>1 DEF MarkInv
    <3>2. CASE d # c
      BY <2>1, <3>2 DEF MarkInv
    <3>3. CASE d = c
      <4>1. clock \in Nat /\ first[c] \in Int /\ uses[c] \in Nat /\ TTL \in Nat
        BY <1>2, Times DEF TypeOK
      <4>2. /\ uses[c] > 0 => /\ chal[c] # None /\ key[c] # None
                              /\ chal[c].ts =< first[c] /\ first[c] + TTL =< key[c]
            /\ uses[c] = 2 => first[c] + TTL + TTL =< key[c]
        BY <1>2 DEF MarkInv
      <4>. QED
        BY <2>1, <3>3, <4>1, <4>2
    <3>. QED
      BY <3>2, <3>3
  <2>. QED
    BY <1>3, <2>2, <2>3, <2>4
<1>. QED
    BY <1>1, <1>4, <1>5

\* A pass is issued to the solver of a challenge or to a VIP, if at all.
LEMMA AdmitKeeps ==
    ASSUME IInv, NEW r \in Requests, Admit(r) PROVE IInv'
<1>. USE DEF IInv
<1>1. /\ req[r].stage \in {"consume", "vip"} /\ Goto(r, Idle)
      /\ UNCHANGED <<clock, chal, key, uses, first, solved>>
    BY DEF Admit
<1>2. req' \in [Requests -> Request] /\ FlightInv' /\ BurnInv' /\ SolverInv'
    BY <1>1, RequestEnds
<1>3. MarkInv' /\ UsedOnce'
    BY <1>1, MarksStay
<1>4. CASE UNCHANGED passes
  <2>1. TypeOK' /\ PassEarned'
    BY <1>1, <1>2, <1>4 DEF TypeOK, PassEarned
  <2>. QED
    BY <1>2, <1>3, <2>1
<1>5. CASE Earns(r) /\ \E at \in Readings : passes' = passes \union {PassAt(req[r].ip, at)}
  <2>1. PICK at \in Readings : passes' = passes \union {PassAt(req[r].ip, at)}
    BY <1>5
  <2>. DEFINE p == PassAt(req[r].ip, at)
              i == req[r].ip
  <2>2. Whole(at) \in Int /\ Whole(at) =< clock /\ clock \in Nat
    BY Reading, Rounding DEF TypeOK
  <2>3. p.ip = i /\ p.exp = Whole(at) + PassTTL /\ p \in Pass /\ p.exp =< clock + PassTTL
    BY <1>1, <2>2, RequestTypes, Times DEF PassAt, Pass
  <2>4. TypeOK'
    BY <1>1, <1>2, <2>1, <2>3 DEF TypeOK
  <2>5. /\ solved[i] # None /\ solved[i] \in Int /\ i \in Clients /\ req[r].due \in Int
        /\ req[r].due =< solved[i] + 2 * MaxLag /\ clock =< req[r].due
    BY <1>1, <1>5, RequestTypes DEF SolverInv, Sender, Earns, TypeOK, FlightInv
  <2>6. p.exp =< solved[i] + 2 * MaxLag + PassTTL
    BY <2>2, <2>3, <2>5, Times
  <2>7. PassEarned'
    BY <1>1, <2>1, <2>3, <2>5, <2>6 DEF PassEarned
  <2>. QED
    BY <1>2, <1>3, <2>4, <2>7
<1>. QED
    BY <1>4, <1>5 DEF Admit

LEMMA LoseKeeps ==
    ASSUME IInv, NEW c \in Challenges, Lose(c) PROVE IInv'
<1>. USE DEF IInv
<1>1. /\ key' = [key EXCEPT ![c] = None] /\ uses' = [uses EXCEPT ![c] = 0]
      /\ UNCHANGED <<clock, chal, req, passes, first, solved>>
    BY DEF Lose
<1>2. TypeOK'
    BY <1>1 DEF TypeOK
<1>3. \A d \in Challenges : \/ d # c /\ key'[d] = key[d] /\ uses'[d] = uses[d]
                            \/ d = c /\ uses'[d] = 0
    BY <1>1 DEF TypeOK
<1>4. MarkInv' /\ UsedOnce'
    BY <1>1, <1>3 DEF MarkInv, UsedOnce
<1>5. FlightInv' /\ BurnInv' /\ SolverInv' /\ PassEarned'
    BY <1>1 DEF FlightInv, BurnInv, SolverInv, Sender, PassEarned
<1>. QED
    BY <1>2, <1>4, <1>5

LEMMA TickKeeps ==
    ASSUME IInv, Tick PROVE IInv'
<1>. USE DEF IInv
<1>1. /\ clock' = clock + 1 /\ clock \in Nat
      /\ \A r \in Requests : req[r] # Idle => clock < req[r].due
      /\ passes' \subseteq passes
      /\ UNCHANGED <<chal, key, req, uses, first, solved>>
    BY DEF Tick, TypeOK
<1>2. TypeOK'
  <2>1. \A c \in Challenges : chal[c] # None => chal[c].ts =< clock + 1
    BY <1>1, ChalTypes
  <2>2. \A p \in passes : p.exp =< clock + 1 + PassTTL
    BY <1>1, Times DEF TypeOK, Pass
  <2>. QED
    BY <1>1, <2>1, <2>2 DEF TypeOK
<1>3. FlightInv'
  <2>1. ASSUME NEW r \in Requests, req[r] # Idle
        PROVE  clock + 1 =< req[r].due
    BY <1>1, <2>1, RequestTypes
  <2>. QED
    BY <1>1, <2>1 DEF FlightInv
<1>4. SolverInv'
  <2>1. \A i \in Clients : solved[i] # None => solved[i] =< clock + 1
    BY <1>1 DEF SolverInv, TypeOK
  <2>. QED
    BY <1>1, <2>1 DEF SolverInv, Sender
<1>5. BurnInv' /\ PassEarned'
    BY <1>1 DEF BurnInv, PassEarned
<1>. QED
    BY <1>1, <1>2, <1>3, <1>4, <1>5, MarksStay

LEMMA Inductive ==
    ASSUME IInv, [Next]_vars PROVE IInv'
<1>1. CASE UNCHANGED vars
    BY <1>1 DEF IInv, vars, TypeOK, FlightInv, BurnInv, MarkInv, UsedOnce, SolverInv, Sender, PassEarned
<1>2. CASE Next
    BY <1>2, RefuseKeeps, EnterKeeps, PresentKeeps, BurnCreatedKeeps, BurnExistsKeeps,
       BurnOpenKeeps, BurnFailsKeeps, AdmitKeeps, VouchKeeps, LoseKeeps, TickKeeps DEF Next
<1>. QED
    BY <1>1, <1>2

-----------------------------------------------------------------------------
(* Theorems *)

\* The inductive invariant holds in every reachable state.
THEOREM InvariantHolds == Spec => []IInv
<1>1. Init => IInv
    BY Initially
<1>2. IInv /\ [Next]_vars => IInv'
    BY Inductive
<1>. QED
    BY <1>1, <1>2, PTL DEF Spec

\* No token bears a time ahead of the clocks (challenge.py:68, 103).
THEOREM TypeCorrect == Spec => []TypeOK
<1>1. IInv => TypeOK
    BY DEF IInv
<1>. QED
    BY <1>1, InvariantHolds, PTL

\* "Burning the nonce makes each solution usable exactly once"
\* (middleware.py:110-112), but for a first use within MaxLag of the issue.
THEOREM ChallengeUsedOnce == Spec => []UsedOnce
<1>1. IInv => UsedOnce
    BY DEF IInv
<1>. QED
    BY <1>1, InvariantHolds, PTL

\* Every pass comes from a solution of its own client or a VIP at its address,
\* let on not long before it was issued (middleware.py:198-209, 233-235).
THEOREM PassesEarned == Spec => []PassEarned
<1>1. IInv => PassEarned
    BY DEF IInv
<1>. QED
    BY <1>1, InvariantHolds, PTL

===============================================================================
