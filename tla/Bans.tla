-------------------------------- MODULE Bans --------------------------------
(***************************************************************************)
(* The reputation of one identity (reputation.py): its strikes and its ban *)
(* in Redis, the requests and operators that change them, and the sidecar  *)
(* that copies the ban into the packet filter (kernel_sync.py).            *)
(*                                                                         *)
(* One step is one command of Redis, or one of nft.  A command that fails  *)
(* ends its request; it may have been applied all the same.  Times to live *)
(* are counted down, as Redis does; a key is gone when its own has passed. *)
(***************************************************************************)
EXTENDS Integers

CONSTANTS
    Requests,    \* requests and operators' calls under way at one time
    Base,        \* settings.base_ban_seconds
    Factor, Unit,\* settings.ban_escalation_factor, a fraction of at least 1
    MaxBan,      \* settings.max_ban_seconds
    Window,      \* settings.strike_window_seconds
    MaxStrikes   \* the count saturates here, where a ban has its longest time;
                 \* this value stands for every count that is higher

ASSUME ConstantsAssumption ==
    /\ Base \in Nat \ {0}
    /\ Unit \in Nat \ {0}
    /\ Factor \in Nat /\ Factor >= Unit
    /\ MaxBan \in Nat /\ MaxBan >= Base
    /\ Window \in Nat \ {0}
    /\ MaxStrikes \in Nat \ {0, 1}

\* Stated because the provers know nothing of exponentiation.
ASSUME PowersAssumption ==
    \A n \in 1 .. MaxStrikes :
        Factor ^ (n - 1) \in Nat /\ Unit ^ (n - 1) \in Nat \ {0}

VARIABLES
    strikes,   \* the counter of strikes, with its time to live if it has one
    ban,       \* seconds the ban has left; 0 if there is none
    req,       \* what each request or call is doing
    sync,      \* what the sidecar is doing, and whether it saw the ban
    kernel,    \* whether the packet filter drops the address
    broken     \* (history) an EXPIRE of the present counter was not sent or lost

redisVars == <<strikes, ban>>
syncVars == <<sync, kernel>>
vars == <<redisVars, req, syncVars, broken>>

Strikes == [n : 0 .. MaxStrikes, timed : BOOLEAN, ttl : 0 .. Window]
NoStrikes == [n |-> 0, timed |-> FALSE, ttl |-> 0]

\* "passed" has found no ban; "expire" and "set" send this command next, for
\* the nth strike; "forgive" deletes the strikes after the ban.
At(stage, n) == [stage |-> stage, n |-> n]
Idle == At("idle", 0)
Stages == {"idle", "passed", "expire", "set", "forgive"}
Sync == [stage : {"sleep", "listed", "flushed"}, found : BOOLEAN]
Asleep == [stage |-> "sleep", found |-> FALSE]

TypeOK ==
    /\ strikes \in Strikes
    /\ (strikes.timed <=> strikes.ttl > 0)
    /\ strikes.timed => strikes.n > 0
    /\ ban \in Nat
    /\ req \in [Requests -> [stage : Stages, n : 0 .. MaxStrikes]]
    /\ sync \in Sync
    /\ kernel \in BOOLEAN
    /\ broken \in BOOLEAN

Init ==
    /\ strikes = NoStrikes
    /\ ban = 0
    /\ req = [r \in Requests |-> Idle]
    /\ sync = Asleep
    /\ kernel = FALSE
    /\ broken = FALSE

Least(a, b) == IF a =< b THEN a ELSE b

Goto(r, where) == req' = [req EXCEPT ![r] = where]

-----------------------------------------------------------------------------
(* ReputationService.check and ban *)

\* (mutant) a banned identity is let through
MayPassAlways == TRUE

MayPass == ban = 0

\* A request that is banned ends here, and changes nothing.
Check(r) ==
    /\ req[r] = Idle
    /\ MayPass
    /\ Goto(r, At("passed", 0))
    /\ UNCHANGED <<redisVars, syncVars, broken>>

\* The request is admitted, challenged, or fails in another command.
Leave(r) ==
    /\ req[r].stage = "passed"
    /\ Goto(r, Idle)
    /\ UNCHANGED <<redisVars, syncVars, broken>>

\* (mutant) the counter gets no time to live
AfterCountUntimed(n) == At("set", n)

\* Only the strike that created the counter gives it a time to live.
AfterCount(n) == At(IF n = 1 THEN "expire" ELSE "set", n)

\* INCR: the limiter has refused a request, or an operator bans the identity.
Count(r) ==
    LET n == Least(strikes.n + 1, MaxStrikes) IN
      /\ req[r].stage \in {"idle", "passed"}
      /\ strikes' = [strikes EXCEPT !.n = n]
      /\ \/ Goto(r, AfterCount(n)) /\ UNCHANGED broken
         \/ Goto(r, Idle) /\ broken' = (broken \/ n = 1)
      /\ UNCHANGED <<ban, syncVars>>

\* EXPIRE does nothing to a key that is gone.
Timed == IF strikes.n = 0 THEN strikes
         ELSE [strikes EXCEPT !.timed = TRUE, !.ttl = Window]

Expire(r) ==
    /\ req[r].stage = "expire"
    /\ strikes' = Timed
    /\ Goto(r, At("set", req[r].n)) \/ Goto(r, Idle)
    /\ broken' = FALSE
    /\ UNCHANGED <<ban, syncVars>>

\* int() drops the fraction of a second.
Duration(n) == Least((Base * Factor ^ (n - 1)) \div Unit ^ (n - 1), MaxBan)

SetBan(r) ==
    /\ req[r].stage = "set"
    /\ ban' = Duration(req[r].n)
    /\ Goto(r, Idle)
    /\ UNCHANGED <<strikes, syncVars, broken>>

\* The power of a float overflows for a count high enough, unless the factor is
\* one: ban raises after INCR, and sets no ban.
Overflow(r) ==
    /\ req[r].stage = "set" /\ req[r].n = MaxStrikes
    /\ Factor > Unit
    /\ Goto(r, Idle)
    /\ UNCHANGED <<redisVars, syncVars, broken>>

\* A command is not sent, or not applied: Redis is down or the circuit open.
CommandFails(r) ==
    /\ req[r].stage \in {"expire", "set", "forgive"}
    /\ Goto(r, Idle)
    /\ broken' = (broken \/ (req[r].stage = "expire" /\ strikes.n > 0))
    /\ UNCHANGED <<redisVars, syncVars>>

-----------------------------------------------------------------------------
(* ReputationService.unban, and the memory policy of Redis *)

UnbanBan(r) ==
    /\ req[r] = Idle
    /\ ban' = 0
    /\ Goto(r, At("forgive", 0))
    /\ UNCHANGED <<strikes, syncVars, broken>>

UnbanStrikes(r) ==
    /\ req[r].stage = "forgive"
    /\ strikes' = NoStrikes
    /\ broken' = FALSE
    /\ Goto(r, Idle)
    /\ UNCHANGED <<ban, syncVars>>

\* Redis restarts without its data.
Wipe ==
    /\ strikes # NoStrikes \/ ban > 0
    /\ strikes' = NoStrikes
    /\ ban' = 0
    /\ broken' = FALSE
    /\ UNCHANGED <<req, syncVars>>

Tick ==
    /\ ban > 0 \/ strikes.timed
    /\ ban' = IF ban > 0 THEN ban - 1 ELSE 0
    /\ strikes' = IF ~strikes.timed THEN strikes
                  ELSE IF strikes.ttl = 1 THEN NoStrikes
                  ELSE [strikes EXCEPT !.ttl = @ - 1]
    /\ broken' = (broken /\ strikes'.n > 0)
    /\ UNCHANGED <<req, syncVars>>

-----------------------------------------------------------------------------
(* kernel_sync.sync_once *)

\* list_banned: SCAN finds the key or not; what GET and TTL say of it later
\* makes no difference.
SyncList ==
    /\ sync.stage = "sleep"
    /\ sync' = [stage |-> "listed", found |-> ban > 0]
    /\ UNCHANGED <<redisVars, req, kernel, broken>>

\* (mutant) the set is not flushed
FlushedNot == kernel

Flushed == FALSE

\* nft flush set
SyncFlush ==
    /\ sync.stage = "listed"
    /\ kernel' = Flushed
    /\ sync' = [sync EXCEPT !.stage = "flushed"]
    /\ UNCHANGED <<redisVars, req, broken>>

\* nft add element, unless there is nothing to add
SyncAdd ==
    /\ sync.stage = "flushed"
    /\ kernel' = (kernel \/ sync.found)
    /\ sync' = Asleep
    /\ UNCHANGED <<redisVars, req, broken>>

\* Redis or nft fails; run() goes on after its interval.
SyncFails ==
    /\ sync # Asleep
    /\ sync' = Asleep
    /\ UNCHANGED <<redisVars, req, kernel, broken>>

-----------------------------------------------------------------------------
Proceed(r) == Leave(r) \/ Expire(r) \/ SetBan(r) \/ UnbanStrikes(r)

Next ==
    \/ \E r \in Requests :
          \/ Check(r) \/ Count(r) \/ Proceed(r) \/ Overflow(r) \/ CommandFails(r)
          \/ UnbanBan(r)
    \/ Wipe
    \/ Tick
    \/ SyncList \/ SyncFlush \/ SyncAdd \/ SyncFails

\* Time passes, and every request comes to its end.
Fairness == WF_vars(Tick) /\ \A r \in Requests : WF_vars(Proceed(r))

Spec == Init /\ [][Next]_vars /\ Fairness

-----------------------------------------------------------------------------
(* Safety *)

\* A counter of strikes without a time to live is about to be given one,
\* whatever bans, unbans and expiries come between INCR and EXPIRE, or one of
\* the commands of a ban has failed.
StrikesTimed ==
    strikes.n > 0 /\ ~strikes.timed =>
        broken \/ \E r \in Requests : req[r].stage = "expire"

(* Liveness *)

\* Once the identity stops offending, its strikes are forgotten for good, unless
\* an EXPIRE was lost (reputation.py:62-66): no burst of strikes, no ban and no
\* unban in flight leaves a counter behind that lives on.
StrikesForgotten ==
    <>[][\A r \in Requests : ~Count(r)]_vars => <>[](strikes.n = 0 \/ broken)

\* Under its ban no request of the identity prolongs it, so once operators stop
\* banning, the identity is let in again and again.
LetInAgain ==
    <>[][\A r \in Requests : req[r] = Idle => req'[r].stage \notin {"expire", "set"}]_vars
        => []<>(ban = 0)

\* While the sidecar finishes a round now and then, the packet filter follows the
\* ban: when the address is not banned any more, it is dropped no more, also by a
\* round that had listed it before; while it stays banned, by renewed bans, it is
\* dropped again and again, whatever rounds fail (kernel_sync.py:63-103).
KernelFollows ==
    []<><<SyncAdd>>_vars =>
        /\ <>[](ban = 0) => <>[]~kernel
        /\ <>[](ban > 0) => []<>kernel

=============================================================================
