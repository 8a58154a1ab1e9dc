------------------------------- MODULE Breaker -------------------------------
(***************************************************************************)
(* Sentinel Gate's circuit breaker around Redis (redis_client.py) and the  *)
(* decision pipeline that runs through it (middleware.py, reputation.py).  *)
(*                                                                         *)
(* Requests are coroutines of one event loop.  A coroutine gives way only  *)
(* while a Redis command is in flight, so one step takes the answer of a   *)
(* command, does what the code does with it, and sends the next command or *)
(* reaches a verdict.  The breaker's fields are the only state the         *)
(* coroutines share here; what the commands do in Redis is left out, and   *)
(* so the pipeline may take any of its branches.                           *)
(***************************************************************************)
EXTENDS Integers, FiniteSets

CONSTANTS
    Tasks,        \* coroutines; a bound on concurrent requests
    Threshold,    \* settings.circuit_breaker_threshold
    Reset,        \* settings.circuit_breaker_reset_seconds, in clock ticks
    FailOpen,     \* settings.redis_fail_mode is FailMode.OPEN
    MaxFailures   \* the count of failures saturates here

ASSUME ConstantsAssumption ==
    /\ IsFiniteSet(Tasks)
    /\ Threshold \in Nat \ {0}
    /\ Reset \in Nat \ {0}
    /\ FailOpen \in BOOLEAN
    /\ MaxFailures \in Nat
    /\ MaxFailures > Threshold

VARIABLES
    up,        \* whether Redis answers
    failures,  \* self._failures
    wait,      \* ticks until reset_seconds have passed since self._opened_at
    task,      \* what each coroutine is doing
    streak,    \* (history) failed commands since the last one that succeeded
    tripped,   \* (history) the circuit has opened since the last success
    errors     \* (history) commands that have failed since it last opened

breakerVars == <<failures, wait, streak, tripped, errors>>
vars == <<up, breakerVars, task>>

-----------------------------------------------------------------------------
(* The pipeline: the commands of a decision, and what may follow the answer *)
(* of each of them: another command or a verdict                            *)

Verdicts == {"ban", "challenge", "allow", "limit", "unavailable", "error"}

Then == [
    get     |-> {"ttl", "global"},
    ttl     |-> {"ban"},
    global  |-> {"score", "burn", "challenge", "consume"},
    score   |-> {"burn", "challenge", "consume"},
    burn    |-> {"consume", "challenge"},
    consume |-> {"allow", "incr"},
    incr    |-> {"expire", "set"},
    expire  |-> {"set"},
    set     |-> {"limit"}]

Commands == DOMAIN Then

Idle == [pc |-> "idle"]
InFlight(c)   == [pc |-> "command", cmd |-> c]
Other         == [pc |-> "other"]
Ping          == [pc |-> "ping"]
Decided(v, degraded, asked) ==
    [pc |-> "verdict", verdict |-> v, degraded |-> degraded, asked |-> asked]

\* "asked" is whether Redis has answered a command of this request.
Task ==
    {Idle, Other, Ping}
    \union [pc : {"command"}, cmd : Commands]
    \union [pc : {"verdict"}, verdict : Verdicts, degraded : BOOLEAN,
            asked : BOOLEAN]

TypeOK ==
    /\ up \in BOOLEAN
    /\ failures \in 0 .. MaxFailures
    /\ wait \in 0 .. Reset
    /\ task \in [Tasks -> Task]
    /\ streak \in 0 .. MaxFailures
    /\ tripped \in BOOLEAN
    /\ errors \in Nat

Init ==
    /\ up \in BOOLEAN
    /\ failures = 0
    /\ wait = 0
    /\ task = [t \in Tasks |-> Idle]
    /\ streak = 0
    /\ tripped = FALSE
    /\ errors = 0

-----------------------------------------------------------------------------
(* The breaker *)

\* (mutant) one failure more is let through
CircuitOpenAbove(f) == f > Threshold /\ wait > 0

\* (mutant) the circuit never half opens
CircuitOpenForGood(f) == f >= Threshold

\* circuit_open with a count of f failures ...
CircuitOpen(f) == f >= Threshold /\ wait > 0

\* (mutant) the circuit is closed again when it should be half open
ProbedAsClosed(f) == IF f >= Threshold THEN 0 ELSE f

\* ... and the count it leaves behind when it lets a caller through.
Probed(f) == IF f >= Threshold THEN Threshold - 1 ELSE f

\* (mutant) a success takes one failure off the count
AfterSuccessOneLess(f) == f - 1

\* (mutant) a success leaves the count as it is
AfterSuccessIgnored(f) == f

\* _record_success
AfterSuccess(f) == 0

AfterFailure(f) == IF f < MaxFailures THEN f + 1 ELSE f

RecordSuccess ==
    /\ failures' = AfterSuccess(failures)
    /\ streak' = 0
    /\ tripped' = FALSE
    /\ errors' = 0
    /\ UNCHANGED wait

\* _record_failure; n is 1 for a command, and 0 for a ping.
RecordFailure(n) ==
    LET opens == failures + 1 = Threshold IN
      /\ failures' = AfterFailure(failures)
      /\ wait' = IF opens THEN Reset ELSE wait
      /\ streak' = AfterFailure(streak)
      /\ tripped' = (tripped \/ opens)
      /\ errors' = IF opens THEN n ELSE IF tripped THEN errors + n ELSE 0

-----------------------------------------------------------------------------
(* Requests *)

\* _decide_failopen: the in-process limiter, or 503.
Fallback(t, asked) ==
    \E v \in IF FailOpen THEN {"allow", "limit"} ELSE {"unavailable"} :
        task' = [task EXCEPT ![t] = Decided(v, TRUE, asked)]

\* A request arrives, and its first command meets the breaker.
Arrive(t) ==
    /\ task[t] = Idle
    /\ \/ /\ CircuitOpen(failures)
          /\ Fallback(t, FALSE)
          /\ UNCHANGED failures
       \/ /\ ~CircuitOpen(failures)
          /\ task' = [task EXCEPT ![t] = InFlight("get")]
          /\ failures' = Probed(failures)
    /\ UNCHANGED <<up, wait, streak, tripped, errors>>

\* A command succeeds.  The next one meets the breaker as the success has left
\* it.  CircuitOpen is caught around "global" and "burn", but the command that
\* comes after them would meet the same open circuit.
Answer(t) ==
    /\ task[t].pc = "command"
    /\ up
    /\ RecordSuccess
    /\ \E next \in Then[task[t].cmd] :
         IF next \in Verdicts
         THEN task' = [task EXCEPT ![t] = Decided(next, FALSE, TRUE)]
         ELSE IF CircuitOpen(AfterSuccess(failures))
         THEN Fallback(t, TRUE)
         ELSE task' = [task EXCEPT ![t] = InFlight(next)]
    /\ UNCHANGED up

\* (mutant) a command that fails is sent again
FailRetries(t) ==
    /\ task[t].pc = "command"
    /\ ~up
    /\ RecordFailure(1)
    /\ UNCHANGED <<up, task>>

\* A command fails: RedisError is not caught, and the response is a 500.
Fail(t) ==
    /\ task[t].pc = "command"
    /\ ~up
    /\ RecordFailure(1)
    /\ task' = [task EXCEPT ![t] = Decided("error", FALSE, task[t].cmd # "get")]
    /\ UNCHANGED up

Respond(t) ==
    /\ task[t].pc = "verdict"
    /\ task' = [task EXCEPT ![t] = Idle]
    /\ UNCHANGED <<up, breakerVars>>

-----------------------------------------------------------------------------
(* The other users of the client: the telemetry consumer and the admin API  *)
(* go through the breaker; the readiness probe does not, but its outcome    *)
(* counts                                                                   *)

OtherSend(t) ==
    /\ task[t] = Idle
    /\ ~CircuitOpen(failures)
    /\ failures' = Probed(failures)
    /\ task' = [task EXCEPT ![t] = Other]
    /\ UNCHANGED <<up, wait, streak, tripped, errors>>

PingSend(t) ==
    /\ task[t] = Idle
    /\ task' = [task EXCEPT ![t] = Ping]
    /\ UNCHANGED <<up, breakerVars>>

Finish(t) ==
    /\ task[t] \in {Other, Ping}
    /\ \/ up /\ RecordSuccess
       \/ ~up /\ RecordFailure(IF task[t] = Other THEN 1 ELSE 0)
    /\ task' = [task EXCEPT ![t] = Idle]
    /\ UNCHANGED up

-----------------------------------------------------------------------------
(* Redis and the clock *)

RedisDown ==
    /\ up
    /\ up' = FALSE
    /\ UNCHANGED <<breakerVars, task>>

RedisUp ==
    /\ ~up
    /\ up' = TRUE
    /\ UNCHANGED <<breakerVars, task>>

Tick ==
    /\ wait > 0
    /\ wait' = wait - 1
    /\ UNCHANGED <<up, failures, streak, tripped, errors, task>>

-----------------------------------------------------------------------------
Complete(t) == Answer(t) \/ Fail(t) \/ Finish(t) \/ Respond(t)

Next ==
    \/ \E t \in Tasks : Arrive(t) \/ OtherSend(t) \/ PingSend(t) \/ Complete(t)
    \/ RedisDown
    \/ RedisUp
    \/ Tick

\* The client's socket timeout ends every command, the event loop comes back to
\* every coroutine, and time passes.  No request has to arrive.
Fairness == WF_vars(Tick) /\ \A t \in Tasks : WF_vars(Complete(t))

Spec == Init /\ [][Next]_vars /\ Fairness

-----------------------------------------------------------------------------
(* Safety *)

\* The circuit opens only on Threshold failures with no success between them,
\* although coroutines that were sent off before an outage, during it and by a
\* probe report in any order.
OpensOnStreak == failures =< streak

\* From one opening of the circuit to the next no more commands meet a Redis
\* error than there are coroutines, however long the outage lasts and whatever
\* is still in flight when the circuit opens or half opens.
OutageLoad == errors =< Cardinality(Tasks)

\* A request is decided by Redis or by the fallback, never by both: the
\* fallback takes over only before the first answer, so no request pays the
\* distributed bucket and is then judged by the local one.
FallbackOnlyFirst ==
    \A t \in Tasks :
        task[t].pc = "verdict" /\ task[t].degraded => ~task[t].asked

(* Action properties *)

\* The circuit does not open again within reset_seconds, unless a command has
\* succeeded in between.
OpensApart ==
    [][failures < Threshold /\ failures' >= Threshold /\ tripped => wait = 0]_vars

(* Liveness *)

\* Every request gets a verdict and a response, whatever Redis does.
Answered ==
    \A t \in Tasks : (task[t].pc = "command") ~> (task[t] = Idle)

\* When Redis is back for good and requests keep arriving, the breaker lets
\* them through again, for good.
Recovers ==
    <>[]up /\ []<><<\E t \in Tasks : Arrive(t)>>_vars => <>[](failures = 0)

=============================================================================
