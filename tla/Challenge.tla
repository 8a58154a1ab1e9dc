------------------------------ MODULE Challenge ------------------------------
(***************************************************************************)
(* The proof-of-work handshake of Sentinel Gate (challenge.py, and the     *)
(* gating in middleware.py): challenges and passes are signed and kept by  *)
(* the clients; the gateway remembers only, in Redis and for a while,      *)
(* which challenges have been used.                                        *)
(*                                                                         *)
(* Only requests that need a challenge are modelled.  Signatures hold: a   *)
(* token that was not issued, or was issued to another address, is refused *)
(* like a wrong solution.  A worker reads its clock before its command is  *)
(* on its way, and the clocks differ; "clock" is the fastest and Redis'.   *)
(***************************************************************************)
EXTENDS Integers

CONSTANTS
    Clients,      \* addresses
    VIPs,         \* those from which a request with the VIP key may come
    Challenges,   \* challenges that are ever issued: a bound
    Requests,     \* requests under way at one time
    Second,       \* ticks of the clock in a second, to which tokens round down
    TTL,          \* settings.challenge_ttl_seconds, in ticks
    PassTTL,      \* settings.challenge_pass_ttl_seconds, in ticks
    MaxLag,       \* how old a worker's reading is when its command is carried out
    MaxClock,     \* bound of the model
    None

ASSUME ConstantsAssumption ==
    /\ VIPs \subseteq Clients
    /\ Second \in Nat \ {0}
    /\ TTL \in Nat \ {0}
    /\ PassTTL \in Nat /\ PassTTL >= Second
    /\ MaxLag \in Nat /\ MaxLag < TTL
    /\ MaxClock \in Nat

VARIABLES
    clock,
    chal,     \* the challenges issued
    key,      \* chal_used:<nonce> in Redis: when it expires, or None
    req,      \* what each request is doing
    passes,   \* the passes that clients have and some clock still accepts
    uses,     \* (history) requests let on for a challenge since its key was lost
    first,    \* (history) when the first of them was
    solved    \* (history) when a solution of this client was last accepted, or
              \* a VIP at its address let on

vars == <<clock, chal, key, req, passes, uses, first, solved>>

Chal == [ip : Clients, ts : Int]
Pass == [ip : Clients, exp : Int]

\* "burn": SET NX is on its way.  "consume": the token bucket is asked, for a
\* solver (c is the challenge) or the holder of a pass (c is None); "vip": for a
\* VIP that sends a token and a solution.  The sockets' time-outs end the command
\* when it is due.
Idle == [stage |-> "idle"]
Request ==
    {Idle}
    \union [stage : {"burn"}, ip : Clients, c : Challenges, due : Int]
    \union [stage : {"vip"}, ip : Clients, due : Int]
    \union [stage : {"consume"}, ip : Clients, c : Challenges \union {None}, due : Int]

ASSUME NoneAssumption ==
    None \notin Chal /\ None \notin Int /\ None \notin Challenges

TypeOK ==
    /\ clock \in Nat
    /\ chal \in [Challenges -> Chal \union {None}]
    /\ \A c \in Challenges : chal[c] # None => chal[c].ts =< clock
    /\ key \in [Challenges -> Int \union {None}]
    /\ req \in [Requests -> Request]
    /\ passes \subseteq Pass
    /\ \A p \in passes : p.exp =< clock + PassTTL
    /\ uses \in [Challenges -> Nat]
    /\ first \in [Challenges -> Int]
    /\ solved \in [Clients -> Int \union {None}]

Init ==
    /\ clock = 0
    /\ chal = [c \in Challenges |-> None]
    /\ key = [c \in Challenges |-> None]
    /\ req = [r \in Requests |-> Idle]
    /\ passes = {}
    /\ uses = [c \in Challenges |-> 0]
    /\ first = [c \in Challenges |-> 0]
    /\ solved = [i \in Clients |-> None]

-----------------------------------------------------------------------------
\* time.time() on some worker.
Readings == (clock - MaxLag) .. clock

\* int(time.time())
Whole(t) == (t \div Second) * Second

Goto(r, where) == req' = [req EXCEPT ![r] = where]

-----------------------------------------------------------------------------
(* The tokens: ChallengeService *)

\* issue; a bound stands for no more challenges being asked for.
Issue(i) ==
    \/ \E c \in Challenges, at \in Readings :
         /\ chal[c] = None
         /\ chal' = [chal EXCEPT ![c] = [ip |-> i, ts |-> Whole(at)]]
    \/ UNCHANGED chal

\* verify, for a right solution
Verify(i, c, at) ==
    /\ chal[c] # None
    /\ chal[c].ip = i
    /\ at - chal[c].ts =< TTL

\* issue_pass
PassAt(i, at) == [ip |-> i, exp |-> Whole(at) + PassTTL]

\* verify_pass
VerifyPass(i, p, at) == p.ip = i /\ at < p.exp

-----------------------------------------------------------------------------
(* The gating: SentinelEngine._decide_with_redis *)

\* No solution, or one that does not verify, and no valid pass: another
\* challenge.
Refuse(i) ==
    /\ Issue(i)
    /\ UNCHANGED <<clock, key, req, passes, uses, first, solved>>

\* A solution verifies, and its challenge is to be marked as used.
Present(r, i, c) ==
    /\ req[r] = Idle
    /\ \E at \in Readings :
         /\ Verify(i, c, at)
         /\ Goto(r, [stage |-> "burn", ip |-> i, c |-> c, due |-> at + MaxLag])
    /\ UNCHANGED <<clock, chal, key, passes, uses, first, solved>>

\* A pass is accepted instead.
Enter(r, i) ==
    /\ req[r] = Idle
    /\ \E p \in passes, at \in Readings :
         /\ VerifyPass(i, p, at)
         /\ Goto(r, [stage |-> "consume", ip |-> i, c |-> None, due |-> clock + MaxLag])
    /\ UNCHANGED <<clock, chal, key, passes, uses, first, solved>>

\* A VIP is let on: the token and the solution it sends are not looked at.
Vouch(r, i) ==
    /\ req[r] = Idle
    /\ i \in VIPs
    /\ Goto(r, [stage |-> "vip", ip |-> i, due |-> clock + MaxLag])
    /\ solved' = [solved EXCEPT ![i] = clock]
    /\ UNCHANGED <<clock, chal, key, passes, uses, first>>

\* What is left of the command, and the next one.
Promote(r) ==
    /\ Goto(r, [stage |-> "consume", ip |-> req[r].ip, c |-> req[r].c,
                due |-> clock + 2 * MaxLag])
    /\ solved' = [solved EXCEPT ![req[r].ip] = clock]

\* SET NX finds the key.
Marked(c) == key[c] # None /\ clock < key[c]

\* (mutant) the mark expires when the challenge does
MarkUntilIssued(c) == chal[c].ts + TTL

\* SET EX
MarkUntil(c) == clock + TTL

Mark(c) == key' = [key EXCEPT ![c] = MarkUntil(c)]

\* _burn_challenge: the challenge had not been used.
BurnCreated(r) ==
    LET c == req[r].c IN
      /\ req[r].stage = "burn"
      /\ ~Marked(c)
      /\ Mark(c)
      /\ Promote(r)
      /\ uses' = [uses EXCEPT ![c] = @ + 1]
      /\ first' = [first EXCEPT ![c] = IF uses[c] = 0 THEN clock ELSE @]
      /\ UNCHANGED <<clock, chal, passes>>

\* It had: another challenge.
BurnExists(r) ==
    /\ req[r].stage = "burn"
    /\ Marked(req[r].c)
    /\ Issue(req[r].ip)
    /\ Goto(r, Idle)
    /\ UNCHANGED <<clock, key, passes, uses, first, solved>>

\* The circuit is open: a real solver is not punished.
BurnOpen(r) ==
    /\ req[r].stage = "burn"
    /\ Promote(r)
    /\ UNCHANGED <<clock, chal, key, passes, uses, first>>

\* The command fails, and may have been applied: 500.
BurnFails(r) ==
    /\ req[r].stage = "burn"
    /\ IF Marked(req[r].c) THEN UNCHANGED key
       ELSE Mark(req[r].c) \/ UNCHANGED key
    /\ Goto(r, Idle)
    /\ UNCHANGED <<clock, chal, passes, uses, first, solved>>

\* (mutant) everyone who is admitted gets a pass
EarnsAlways(r) == TRUE

\* set_pass: a token and a solution were sent, whether verified or a VIP's.
Earns(r) == req[r].stage = "consume" => req[r].c # None

\* The token bucket admits the request, and its response brings a pass; or it
\* does not, the circuit has opened, or the response is lost.
Admit(r) ==
    /\ req[r].stage \in {"consume", "vip"}
    /\ \/ /\ Earns(r)
          /\ \E at \in Readings : passes' = passes \union {PassAt(req[r].ip, at)}
       \/ UNCHANGED passes
    /\ Goto(r, Idle)
    /\ UNCHANGED <<clock, chal, key, uses, first, solved>>

-----------------------------------------------------------------------------
\* Redis restarts, or evicts the key.
Lose(c) ==
    /\ key[c] # None
    /\ key' = [key EXCEPT ![c] = None]
    /\ uses' = [uses EXCEPT ![c] = 0]
    /\ UNCHANGED <<clock, chal, req, passes, first, solved>>

Tick ==
    /\ clock < MaxClock
    /\ \A r \in Requests : req[r] # Idle => clock < req[r].due
    /\ clock' = clock + 1
    /\ passes' = {p \in passes : clock' - MaxLag < p.exp}
    /\ UNCHANGED <<chal, key, req, uses, first, solved>>

Next ==
    \/ \E i \in Clients : Refuse(i)
    \/ \E r \in Requests :
          \/ \E i \in Clients : Enter(r, i) \/ Vouch(r, i) \/ \E c \in Challenges : Present(r, i, c)
          \/ BurnCreated(r) \/ BurnExists(r) \/ BurnOpen(r) \/ BurnFails(r)
          \/ Admit(r)
    \/ \E c \in Challenges : Lose(c)
    \/ Tick

Spec == Init /\ [][Next]_vars

-----------------------------------------------------------------------------
(* Safety *)

\* "Burning the nonce makes each solution usable exactly once"
\* (middleware.py:110-112): while Redis keeps the mark, a challenge lets at most
\* one request on, or two if the first came within MaxLag of the time that the
\* challenge bears; the second is then on its way when the challenge and the
\* mark expire together.  This holds although the solution is verified before
\* the mark is set, by workers whose clocks differ.
UsedOnce ==
    \A c \in Challenges :
        /\ uses[c] =< 2
        /\ uses[c] = 2 => first[c] - chal[c].ts =< MaxLag

\* A pass comes from a solution that its own client had accepted, or from a
\* request of a VIP at its own address (middleware.py:198, 233-235), at most
\* PassTTL and the lag of two commands before it expires: whatever a request
\* sends beside it, using a pass does not renew it, what is left of a pass does
\* not become a new one, and where no VIP calls from, only solutions earn one.
PassEarned ==
    \A p \in passes :
        /\ solved[p.ip] # None
        /\ p.exp =< solved[p.ip] + 2 * MaxLag + PassTTL

=============================================================================
