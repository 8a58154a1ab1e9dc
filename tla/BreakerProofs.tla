---------------------------- MODULE BreakerProofs ----------------------------
(***************************************************************************)
(* Proofs about Breaker, for any number of coroutines, any threshold and   *)
(* any reset time: its types, when the circuit opens, how many commands    *)
(* meet an error between two openings, and that the fallback takes over    *)
(* only before the first answer of Redis.  Then about Configuration, for   *)
(* any settings: which of them a process starts with.  And about           *)
(* Telemetry, for any size of the queue and any number of events: that     *)
(* every event is accounted for, that the history is pruned, and that the  *)
(* rate is not inflated, by induction over the seconds of its sum.         *)
(***************************************************************************)
EXTENDS Breaker, Configuration, Telemetry, FiniteSetTheorems, TLAPS

-----------------------------------------------------------------------------
(* The inductive invariant *)

\* The coroutines whose failure would count as a command that met an error.
Busy == {t \in Tasks : task[t].pc \in {"command", "other"}}

\* While the circuit is open, the commands that have failed since it opened
\* and those that still may fail are not more than the coroutines.
OpenInv ==
    failures >= Threshold =>
        /\ tripped
        /\ errors + Cardinality(Busy) =< Cardinality(Tasks)

\* Once half open, the circuit is one failure short of the threshold, and the
\* reset time has passed.
HalfOpenInv == tripped /\ failures < Threshold => failures = Threshold - 1 /\ wait = 0

\* Errors are counted only from an opening of the circuit on.
CountInv == ~tripped => errors = 0

IInv ==
    /\ TypeOK
    /\ OpensOnStreak
    /\ OutageLoad
    /\ FallbackOnlyFirst
    /\ OpenInv
    /\ HalfOpenInv
    /\ CountInv

-----------------------------------------------------------------------------
(* The set Busy *)

\* Busy is a finite set, not larger than Tasks.
LEMMA BusyCount ==
    /\ IsFiniteSet(Busy)
    /\ Cardinality(Busy) \in Nat
    /\ Cardinality(Tasks) \in Nat
    /\ Cardinality(Busy) =< Cardinality(Tasks)
<1>1. Busy \in SUBSET Tasks
    BY DEF Busy
<1>2. IsFiniteSet(Tasks)
    BY ConstantsAssumption
<1>3. IsFiniteSet(Busy) /\ Cardinality(Busy) =< Cardinality(Tasks)
    BY <1>1, <1>2, FS_Subset
<1>. QED
    BY <1>2, <1>3, FS_CardinalityType

\* The same of the next state: Busy is a set of coroutines there too.
LEMMA BusyCountNext == Cardinality(Busy') \in Nat
<1>1. Busy' \in SUBSET Tasks
    BY DEF Busy
<1>2. IsFiniteSet(Busy')
    BY <1>1, ConstantsAssumption, FS_Subset
<1>. QED
    BY <1>2, FS_CardinalityType

\* A coroutine whose command ends leaves Busy one smaller.
LEMMA BusyShrinks ==
    ASSUME TypeOK, NEW t \in Busy, NEW s, task' = [task EXCEPT ![t] = s],
           s.pc \notin {"command", "other"}
    PROVE  Cardinality(Busy') = Cardinality(Busy) - 1
<1>1. Busy' = Busy \ {t}
    BY DEF TypeOK, Busy
<1>. QED
    BY <1>1, BusyCount, FS_RemoveElement

-----------------------------------------------------------------------------
(* Types *)

\* The records a coroutine is given are tasks.
LEMMA TaskRecords ==
    /\ Idle \in Task /\ Other \in Task /\ Ping \in Task
    /\ \A c \in Commands : InFlight(c) \in Task
    /\ \A v \in Verdicts, d \in BOOLEAN, a \in BOOLEAN : Decided(v, d, a) \in Task
BY DEF Task, Idle, Other, Ping, InFlight, Decided

\* Setting one coroutine to a task keeps the type of task.
LEMMA TaskSet ==
    ASSUME TypeOK, NEW t \in Tasks, NEW s \in Task, task' = [task EXCEPT ![t] = s]
    PROVE  task' \in [Tasks -> Task]
BY DEF TypeOK

\* The first command, and what follows a command, are known.
LEMMA Pipeline ==
    /\ "get" \in Commands
    /\ \A c \in Commands : Then[c] \subseteq Commands \union Verdicts
    /\ \A c \in Commands : c \notin Verdicts
BY DEF Then, Commands, Verdicts

\* The breaker's arithmetic stays in its range.
LEMMA Counting ==
    ASSUME NEW f \in 0 .. MaxFailures
    PROVE  /\ AfterSuccess(f) \in 0 .. MaxFailures
           /\ AfterFailure(f) \in 0 .. MaxFailures
           /\ Probed(f) \in 0 .. MaxFailures
           /\ Probed(f) =< f
           /\ Probed(f) < Threshold
BY ConstantsAssumption DEF AfterSuccess, AfterFailure, Probed

-----------------------------------------------------------------------------
(* What the steps of the breaker do to the invariant *)

\* The part of the invariant that does not speak of verdicts.
BreakerInv == OpensOnStreak /\ OutageLoad /\ OpenInv /\ HalfOpenInv /\ CountInv

BreakerTypes ==
    /\ failures \in 0 .. MaxFailures
    /\ wait \in 0 .. Reset
    /\ streak \in 0 .. MaxFailures
    /\ tripped \in BOOLEAN
    /\ errors \in Nat

\* A success closes the circuit.
LEMMA SuccessKeeps ==
    ASSUME TypeOK, RecordSuccess
    PROVE  BreakerTypes' /\ BreakerInv'
<1>1. /\ failures' = 0 /\ streak' = 0 /\ errors' = 0
      /\ ~tripped' /\ tripped' \in BOOLEAN
      /\ wait' = wait
    BY DEF RecordSuccess, AfterSuccess
<1>2. BreakerTypes'
    BY <1>1, ConstantsAssumption DEF TypeOK, BreakerTypes
<1>3. OpenInv' /\ HalfOpenInv' /\ CountInv'
    BY <1>1, ConstantsAssumption DEF OpenInv, HalfOpenInv, CountInv
<1>4. OpensOnStreak' /\ OutageLoad'
    BY <1>1, BusyCount DEF OpensOnStreak, OutageLoad
<1>. QED
    BY <1>2, <1>3, <1>4 DEF BreakerInv

\* A failure keeps the invariant: of a command (n = 1), which leaves Busy one
\* smaller, or of a ping (n = 0), which leaves it as it was.
LEMMA FailureKeeps ==
    ASSUME IInv, NEW n \in {0, 1}, RecordFailure(n),
           Cardinality(Busy') = Cardinality(Busy) - n
    PROVE  BreakerTypes' /\ BreakerInv'
<1>. USE ConstantsAssumption, BusyCount
<1>1. BreakerTypes'
    BY DEF IInv, TypeOK, RecordFailure, AfterFailure, BreakerTypes
<1>2. OpensOnStreak'
    BY DEF IInv, TypeOK, RecordFailure, AfterFailure, OpensOnStreak
<1>3. CASE failures + 1 = Threshold
    <2>1. failures' = Threshold /\ errors' = n
        BY <1>3 DEF IInv, TypeOK, RecordFailure, AfterFailure
    <2>3. tripped'
        BY <1>3 DEF RecordFailure
    <2>2. OpenInv' /\ OutageLoad'
        BY <2>1, <2>3, BusyCountNext DEF OpenInv, OutageLoad
    <2>. QED
        BY <1>1, <1>2, <2>1, <2>2, <2>3 DEF BreakerInv, HalfOpenInv, CountInv
<1>4. CASE failures >= Threshold
    <2>0. tripped /\ failures + 1 # Threshold
        BY <1>4 DEF IInv, TypeOK, OpenInv
    <2>5. failures' >= Threshold
        BY <1>4 DEF IInv, TypeOK, RecordFailure, AfterFailure
    <2>1. /\ failures' >= Threshold
          /\ tripped'
          /\ errors' = errors + n
        BY <2>0, <2>5 DEF RecordFailure
    <2>2. errors + n + (Cardinality(Busy) - n) =< Cardinality(Tasks)
        BY <1>4 DEF IInv, TypeOK, OpenInv
    <2>3. Cardinality(Busy) - n >= 0
        BY BusyCountNext
    <2>4. OpenInv' /\ OutageLoad'
        BY <2>1, <2>2, <2>3 DEF IInv, TypeOK, OpenInv, OutageLoad
    <2>. QED
        BY <1>1, <1>2, <2>1, <2>4 DEF BreakerInv, BreakerTypes, HalfOpenInv, CountInv
<1>5. CASE failures + 1 < Threshold
    <2>1. tripped = FALSE
        BY <1>5 DEF IInv, TypeOK, HalfOpenInv
    <2>2. failures' = failures + 1 /\ tripped' = FALSE /\ errors' = 0
        BY <1>5, <2>1 DEF IInv, TypeOK, RecordFailure, AfterFailure
    <2>. QED
        BY <1>1, <1>2, <1>5, <2>2
           DEF IInv, TypeOK, BreakerInv, OpenInv, OutageLoad, HalfOpenInv, CountInv
<1>. QED
    BY <1>3, <1>4, <1>5 DEF IInv, TypeOK

\* A caller that the breaker lets through keeps the invariant, whatever the
\* coroutines are doing: the circuit is not open afterwards.
LEMMA ProbeKeeps ==
    ASSUME IInv, ~CircuitOpen(failures), failures' = Probed(failures),
           UNCHANGED <<wait, streak, tripped, errors>>
    PROVE  BreakerTypes' /\ BreakerInv'
<1>. USE ConstantsAssumption, BusyCount
<1>1. BreakerTypes'
    BY Counting DEF IInv, TypeOK, BreakerTypes
<1>2. failures' < Threshold /\ failures' =< failures
    BY Counting DEF IInv, TypeOK
<1>3. HalfOpenInv'
    BY DEF IInv, TypeOK, CircuitOpen, Probed, HalfOpenInv, OpenInv
<1>. QED
    BY <1>1, <1>2, <1>3
       DEF IInv, TypeOK, BreakerInv, BreakerTypes, OpensOnStreak, OutageLoad, OpenInv,
           CountInv

\* A step that leaves the breaker and Busy alone keeps the invariant.
LEMMA QuietKeeps ==
    ASSUME IInv, UNCHANGED breakerVars, Cardinality(Busy') = Cardinality(Busy)
    PROVE  BreakerTypes' /\ BreakerInv'
BY DEF IInv, TypeOK, breakerVars, BreakerTypes, BreakerInv, OpensOnStreak, OutageLoad,
       OpenInv, HalfOpenInv, CountInv

\* Only a verdict can disturb FallbackOnlyFirst.
LEMMA VerdictKeeps ==
    ASSUME TypeOK, FallbackOnlyFirst, NEW t \in Tasks, NEW s \in Task,
           task' = [task EXCEPT ![t] = s],
           s.pc = "verdict" /\ s.degraded => ~s.asked
    PROVE  FallbackOnlyFirst'
BY DEF TypeOK, FallbackOnlyFirst

\* The parts that a step is shown to keep make up the invariant.
LEMMA Assemble ==
    ASSUME BreakerTypes', BreakerInv', FallbackOnlyFirst', up' \in BOOLEAN,
           task' \in [Tasks -> Task]
    PROVE  IInv'
BY DEF IInv, TypeOK, BreakerTypes, BreakerInv

-----------------------------------------------------------------------------
(* The steps *)

LEMMA InitIInv == Init => IInv
<1>. SUFFICES ASSUME Init PROVE IInv
    OBVIOUS
<1>. USE ConstantsAssumption
<1>1. TypeOK
    <2>1. failures \in 0 .. MaxFailures /\ wait \in 0 .. Reset /\ streak \in 0 .. MaxFailures
        BY DEF Init
    <2>2. task \in [Tasks -> Task]
        BY TaskRecords DEF Init
    <2>3. tripped \in BOOLEAN /\ up \in BOOLEAN /\ errors \in Nat
        BY DEF Init
    <2>. QED
        BY <2>1, <2>2, <2>3 DEF TypeOK
<1>2. FallbackOnlyFirst
    BY DEF Init, FallbackOnlyFirst, Idle
<1>3. OpensOnStreak /\ OpenInv
    BY DEF Init, OpensOnStreak, OpenInv
<1>4. OutageLoad
    BY BusyCount DEF Init, OutageLoad
<1>5. ~tripped /\ errors = 0
    BY DEF Init
<1>6. HalfOpenInv /\ CountInv
    BY <1>5 DEF HalfOpenInv, CountInv
<1>. QED
    BY <1>1, <1>2, <1>3, <1>4, <1>6 DEF IInv

\* A request arrives: the fallback decides it before it has asked Redis, or
\* its first command is sent.
LEMMA ArriveKeeps ==
    ASSUME IInv, NEW t \in Tasks, Arrive(t)
    PROVE  IInv'
<1>1. TypeOK /\ FallbackOnlyFirst /\ up' \in BOOLEAN
    BY DEF IInv, TypeOK, Arrive
<1>2. CASE CircuitOpen(failures)
    <2>1. PICK v \in Verdicts : task' = [task EXCEPT ![t] = Decided(v, TRUE, FALSE)]
        BY <1>2 DEF Arrive, Fallback, Verdicts
    <2>2. UNCHANGED breakerVars
        BY <1>2 DEF Arrive, breakerVars
    <2>3. Busy' = Busy
        BY <1>1, <2>1 DEF TypeOK, Busy, Arrive, Decided, Idle
    <2>4. task' \in [Tasks -> Task] /\ FallbackOnlyFirst'
        <3>. DEFINE s == Decided(v, TRUE, FALSE)
        <3>1. s \in Task /\ ~s.asked
            BY TaskRecords DEF Decided
        <3>. QED
            BY <1>1, <2>1, <3>1, TaskSet, VerdictKeeps
    <2>. QED
        BY <1>1, <2>2, <2>3, <2>4, QuietKeeps, Assemble
<1>3. CASE ~CircuitOpen(failures)
    <2>1. task' = [task EXCEPT ![t] = InFlight("get")]
        BY <1>3 DEF Arrive
    <2>2. BreakerTypes' /\ BreakerInv'
        BY <1>3, ProbeKeeps DEF Arrive
    <2>3. task' \in [Tasks -> Task] /\ FallbackOnlyFirst'
        <3>1. InFlight("get") \in Task /\ InFlight("get").pc # "verdict"
            BY TaskRecords, Pipeline DEF InFlight
        <3>. QED
            BY <1>1, <2>1, <3>1, TaskSet, VerdictKeeps
    <2>. QED
        BY <1>1, <2>2, <2>3, Assemble
<1>. QED
    BY <1>2, <1>3

\* After a success the circuit is closed, so the next command is never refused.
LEMMA AnswerKeeps ==
    ASSUME IInv, NEW t \in Tasks, Answer(t)
    PROVE  IInv'
<1>1. TypeOK /\ FallbackOnlyFirst /\ up' \in BOOLEAN
    BY DEF IInv, TypeOK, Answer
<1>2. task[t] \in Task /\ task[t].pc = "command"
    BY <1>1 DEF TypeOK, Answer
<1>3. task[t].cmd \in Commands
    BY <1>2 DEF Task, Idle, Other, Ping
<1>4. ~CircuitOpen(AfterSuccess(failures))
    BY ConstantsAssumption DEF CircuitOpen, AfterSuccess
<1>5. PICK next \in Then[task[t].cmd] :
        task' = [task EXCEPT ![t] = IF next \in Verdicts
                                    THEN Decided(next, FALSE, TRUE)
                                    ELSE InFlight(next)]
    BY <1>4 DEF Answer
<1>. DEFINE s == IF next \in Verdicts THEN Decided(next, FALSE, TRUE) ELSE InFlight(next)
<1>6. s \in Task
    BY <1>3, Pipeline, TaskRecords
<1>7. s.pc = "verdict" /\ s.degraded => ~s.asked
    BY DEF Decided, InFlight
<1>8. task' \in [Tasks -> Task] /\ FallbackOnlyFirst'
    BY <1>1, <1>5, <1>6, <1>7, TaskSet, VerdictKeeps
<1>. QED
    BY <1>1, <1>8, SuccessKeeps, Assemble DEF Answer

LEMMA FailKeeps ==
    ASSUME IInv, NEW t \in Tasks, Fail(t)
    PROVE  IInv'
<1>1. TypeOK /\ FallbackOnlyFirst /\ up' \in BOOLEAN
    BY DEF IInv, TypeOK, Fail
<1>. DEFINE s == Decided("error", FALSE, task[t].cmd # "get")
<1>2. s \in Task /\ s.pc = "verdict" /\ ~s.degraded
    BY TaskRecords DEF Verdicts, Decided
<1>3. task' = [task EXCEPT ![t] = s]
    BY DEF Fail
<1>4. task' \in [Tasks -> Task] /\ FallbackOnlyFirst'
    BY <1>1, <1>2, <1>3, TaskSet, VerdictKeeps
<1>5. t \in Busy
    BY DEF Fail, Busy
<1>6. Cardinality(Busy') = Cardinality(Busy) - 1
    BY <1>1, <1>2, <1>3, <1>5, BusyShrinks
<1>. QED
    BY <1>1, <1>4, <1>6, FailureKeeps, Assemble DEF Fail

\* A coroutine that is set to idle, or starts something that is no verdict.
LEMMA PlainTask ==
    ASSUME TypeOK, FallbackOnlyFirst, NEW t \in Tasks, NEW s \in {Idle, Other, Ping},
           task' = [task EXCEPT ![t] = s]
    PROVE  task' \in [Tasks -> Task] /\ FallbackOnlyFirst'
<1>1. s \in Task /\ s.pc # "verdict"
    BY TaskRecords DEF Idle, Other, Ping
<1>. QED
    BY <1>1, TaskSet, VerdictKeeps

LEMMA FinishKeeps ==
    ASSUME IInv, NEW t \in Tasks, Finish(t)
    PROVE  IInv'
<1>1. TypeOK /\ FallbackOnlyFirst /\ up' \in BOOLEAN
    BY DEF IInv, TypeOK, Finish
<1>2. task' = [task EXCEPT ![t] = Idle]
    BY DEF Finish
<1>3. task' \in [Tasks -> Task] /\ FallbackOnlyFirst'
    BY <1>1, <1>2, PlainTask
<1>4. CASE up
    BY <1>1, <1>3, <1>4, SuccessKeeps, Assemble DEF Finish
<1>5. CASE ~up /\ task[t] = Other
    <2>1. t \in Busy /\ Idle.pc \notin {"command", "other"}
        BY <1>5 DEF Busy, Other, Idle
    <2>2. Cardinality(Busy') = Cardinality(Busy) - 1
        BY <1>1, <1>2, <2>1, BusyShrinks
    <2>. QED
        BY <1>1, <1>3, <1>5, <2>2, FailureKeeps, Assemble DEF Finish
<1>6. CASE ~up /\ task[t] = Ping
    <2>1. Busy' = Busy
        BY <1>1, <1>2, <1>6 DEF TypeOK, Busy, Ping, Idle
    <2>2. Cardinality(Busy') = Cardinality(Busy) - 0
        BY <2>1, BusyCount
    <2>3. RecordFailure(0)
        BY <1>6 DEF Finish, Other, Ping
    <2>. QED
        BY <1>1, <1>3, <2>2, <2>3, FailureKeeps, Assemble
<1>. QED
    BY <1>4, <1>5, <1>6 DEF Finish

\* The other steps of a coroutine.
LEMMA OtherSteps ==
    ASSUME IInv, NEW t \in Tasks,
           Respond(t) \/ OtherSend(t) \/ PingSend(t)
    PROVE  IInv'
<1>0. TypeOK /\ FallbackOnlyFirst
    BY DEF IInv
<1>1. CASE Respond(t)
    <2>1. task' = [task EXCEPT ![t] = Idle] /\ UNCHANGED breakerVars /\ up' = up
        BY <1>1 DEF Respond
    <2>2. Busy' = Busy
        BY <1>0, <1>1, <2>1 DEF TypeOK, Busy, Respond, Idle
    <2>. QED
        BY <1>0, <2>1, <2>2, PlainTask, QuietKeeps, Assemble DEF TypeOK
<1>2. CASE OtherSend(t)
    <2>1. task' = [task EXCEPT ![t] = Other] /\ up' = up
        BY <1>2 DEF OtherSend
    <2>2. BreakerTypes' /\ BreakerInv'
        BY <1>2, ProbeKeeps DEF OtherSend
    <2>. QED
        BY <1>0, <2>1, <2>2, PlainTask, Assemble DEF TypeOK
<1>3. CASE PingSend(t)
    <2>1. task' = [task EXCEPT ![t] = Ping] /\ UNCHANGED breakerVars /\ up' = up
        BY <1>3 DEF PingSend
    <2>2. Busy' = Busy
        BY <1>0, <1>3, <2>1 DEF TypeOK, Busy, PingSend, Ping, Idle
    <2>. QED
        BY <1>0, <2>1, <2>2, PlainTask, QuietKeeps, Assemble DEF TypeOK
<1>. QED
    BY <1>1, <1>2, <1>3

\* Redis goes down or comes back, or time passes.
LEMMA ClockSteps ==
    ASSUME IInv, RedisDown \/ RedisUp \/ Tick
    PROVE  IInv'
<1>0. TypeOK /\ FallbackOnlyFirst
    BY DEF IInv
<1>1. CASE RedisDown \/ RedisUp
    <2>1. UNCHANGED breakerVars /\ task' = task /\ up' \in BOOLEAN
        BY <1>1 DEF RedisDown, RedisUp
    <2>2. Busy' = Busy /\ task' \in [Tasks -> Task] /\ FallbackOnlyFirst'
        BY <1>0, <2>1 DEF Busy, TypeOK, FallbackOnlyFirst
    <2>. QED
        BY <2>1, <2>2, QuietKeeps, Assemble
<1>2. CASE Tick
    <2>1. /\ UNCHANGED <<up, failures, streak, tripped, errors, task>>
          /\ wait > 0 /\ wait' = wait - 1
        BY <1>2 DEF Tick
    <2>2. Busy' = Busy /\ FallbackOnlyFirst'
        BY <1>0, <2>1 DEF Busy, FallbackOnlyFirst
    <2>3. TypeOK'
        BY <1>0, <2>1, ConstantsAssumption DEF TypeOK
    <2>. QED
        BY <2>1, <2>2, <2>3
           DEF IInv, TypeOK, OpensOnStreak, OutageLoad, OpenInv, HalfOpenInv, CountInv
<1>. QED
    BY <1>1, <1>2

LEMMA NextKeeps == IInv /\ [Next]_vars => IInv'
<1>. SUFFICES ASSUME IInv, [Next]_vars PROVE IInv'
    OBVIOUS
<1>1. ASSUME NEW t \in Tasks, Arrive(t) \/ OtherSend(t) \/ PingSend(t) \/ Complete(t)
      PROVE  IInv'
    BY <1>1, ArriveKeeps, AnswerKeeps, FailKeeps, FinishKeeps, OtherSteps DEF Complete
<1>2. CASE RedisDown \/ RedisUp \/ Tick
    BY <1>2, ClockSteps
<1>3. CASE UNCHANGED vars
    BY <1>3 DEF vars, breakerVars, IInv, TypeOK, OpensOnStreak, OutageLoad,
       FallbackOnlyFirst, OpenInv, HalfOpenInv, CountInv, Busy
<1>. QED
    BY <1>1, <1>2, <1>3 DEF Next

-----------------------------------------------------------------------------
(* The theorems *)

\* The invariant that the other theorems rest on.
THEOREM InvariantHolds == Spec => []IInv
BY InitIInv, NextKeeps, PTL DEF Spec

\* Every variable keeps its type: the pipeline knows every command it meets.
THEOREM TypeCorrect == Spec => []TypeOK
<1>1. IInv => TypeOK
    BY DEF IInv
<1>. QED
    BY <1>1, InvariantHolds, PTL

\* The circuit opens only on Threshold failures in a row.
THEOREM StreakNeeded == Spec => []OpensOnStreak
<1>1. IInv => OpensOnStreak
    BY DEF IInv
<1>. QED
    BY <1>1, InvariantHolds, PTL

\* From one opening to the next at most one command of each coroutine fails.
THEOREM LoadBounded == Spec => []OutageLoad
<1>1. IInv => OutageLoad
    BY DEF IInv
<1>. QED
    BY <1>1, InvariantHolds, PTL

\* No request is judged by Redis and by the fallback.
THEOREM FallbackPure == Spec => []FallbackOnlyFirst
<1>1. IInv => FallbackOnlyFirst
    BY DEF IInv
<1>. QED
    BY <1>1, InvariantHolds, PTL

\* Two openings without a success in between are reset_seconds apart.
THEOREM ReopensLate == Spec => OpensApart
<1>1. IInv => (failures < Threshold /\ failures' >= Threshold /\ tripped => wait = 0)
    BY DEF IInv, HalfOpenInv
<1>. QED
    BY <1>1, InvariantHolds, PTL DEF Spec, OpensApart

-----------------------------------------------------------------------------
(* Settings *)

\* All the settings that there may be.
AnyGate == GateSettings([DOMAIN GateNumbers -> Int])
AnyKms == KmsSettings([DOMAIN KmsNumbers -> Int])

LEMMA GateLoaded ==
    ASSUME NEW gate \in AnyGate, LoadGate(gate) # Refused
    PROVE  LET s == LoadGate(gate)[2] IN
             /\ GateFieldsValid(gate)
             /\ LoadGate(gate) = Accepted(s)
             /\ s = [gate EXCEPT !.vip_enabled = @ /\ gate.vip_api_key \notin Placeholders,
                                 !.hmac_secret = IF @ \in Empty THEN "generated" ELSE @]
             /\ gate.numbers.max_ban_seconds >= gate.numbers.base_ban_seconds
             /\ gate.environment \in Production =>
                   /\ gate.hmac_secret \notin Empty /\ gate.admin_token \notin Empty
                   /\ gate.vip_enabled => gate.vip_api_key \notin Placeholders \union {"short"}
<1> DEFINE s == [gate EXCEPT !.vip_enabled = @ /\ gate.vip_api_key \notin Placeholders,
                             !.hmac_secret = IF @ \in Empty THEN "generated" ELSE @]
           allowed == /\ gate.numbers.max_ban_seconds >= gate.numbers.base_ban_seconds
                      /\ gate.environment \in Production =>
                            /\ gate.hmac_secret \notin Empty /\ gate.admin_token \notin Empty
                            /\ gate.vip_enabled => gate.vip_api_key \notin Placeholders \union {"short"}
<1>1. gate.numbers.max_ban_seconds \in Int /\ gate.numbers.base_ban_seconds \in Int
    BY DEF AnyGate, GateSettings, GateNumbers
<1>2. GateFieldsValid(gate) /\ LoadGate(gate) = EnforceSafeConfig(gate)
    BY DEF LoadGate
<1>3. allowed /\ EnforceSafeConfig(gate) = Accepted(s)
    BY <1>1, <1>2 DEF EnforceSafeConfig
<1>4. Accepted(s)[2] = s
    BY DEF Accepted
<1> HIDE DEF s
<1>5. QED  BY <1>2, <1>3, <1>4 DEF s

LEMMA KmsLoaded ==
    ASSUME NEW kms \in AnyKms, LoadKms(kms) # Refused
    PROVE  LET s == LoadKms(kms)[2]
               docs == IF kms.environment \in Production THEN "off" ELSE "on"
           IN
             /\ KmsFieldsValid(kms)
             /\ LoadKms(kms) = Accepted(s)
             /\ s = [kms EXCEPT !.master_key = IF @ \in Placeholders THEN "generated" ELSE @,
                                !.enable_docs = IF @ # "unset" THEN @ ELSE docs]
             /\ kms.master_key \notin {"undecodable", "wrong length"}
             /\ kms.environment \in Production => kms.master_key \notin Placeholders
<1> DEFINE docs == IF kms.environment \in Production THEN "off" ELSE "on"
           s == [kms EXCEPT !.master_key = IF @ \in Placeholders THEN "generated" ELSE @,
                            !.enable_docs = IF @ # "unset" THEN @ ELSE docs]
<1>1. KmsFieldsValid(kms) /\ LoadKms(kms) = ResolveMasterKey(kms)
    BY DEF LoadKms
<1>2. /\ kms.master_key \notin {"undecodable", "wrong length"}
      /\ kms.environment \in Production => kms.master_key \notin Placeholders
      /\ ResolveMasterKey(kms) = Accepted(s)
    <2> DEFINE key == IF kms.master_key \in Placeholders THEN "generated" ELSE kms.master_key
    <2>1. /\ ~(kms.environment \in Production /\ kms.master_key \in Placeholders)
          /\ key \notin {"undecodable", "wrong length"}
          /\ ResolveMasterKey(kms) =
                Accepted([kms EXCEPT !.master_key = key,
                                     !.enable_docs = IF @ # "unset" THEN @ ELSE docs])
        BY <1>1 DEF ResolveMasterKey
    <2>2. s = [kms EXCEPT !.master_key = key, !.enable_docs = IF @ # "unset" THEN @ ELSE docs]
        BY DEF AnyKms, KmsSettings
    <2>3. QED  BY <2>1, <2>2 DEF Placeholders, Empty
<1>3. Accepted(s)[2] = s
    BY DEF Accepted
<1> HIDE DEF s
<1>4. QED  BY <1>1, <1>2, <1>3 DEF s

\* Whatever the other settings are, no default keeps a process from starting
\* outside production.
THEOREM StartsBare ==
    \A gate \in AnyGate, kms \in AnyKms : BareStart(gate, kms)
<1> SUFFICES ASSUME NEW gate \in AnyGate, NEW kms \in AnyKms
             PROVE  BareStart(gate, kms)
    OBVIOUS
<1>1. ASSUME gate.environment \notin Production, gate.numbers = Defaults(GateNumbers),
             gate.mtls_mode # "other", gate.log_format # "other", gate.trusted_proxies = {}
      PROVE  LoadGate(gate) # Refused
    <2>1. InBounds(GateNumbers, gate.numbers)
        BY <1>1, DefaultsAssumption
    <2>2. gate.numbers.max_ban_seconds = 3600 /\ gate.numbers.base_ban_seconds = 30
        <3>1. "max_ban_seconds" \in DOMAIN GateNumbers /\ "base_ban_seconds" \in DOMAIN GateNumbers
            BY DEF GateNumbers
        <3>2. GateNumbers.max_ban_seconds = Above0(3600) /\ GateNumbers.base_ban_seconds = Above0(30)
            BY DEF GateNumbers
        <3>3. QED  BY <1>1, <3>1, <3>2 DEF Defaults, Above0, AtLeast
    <2>3. QED  BY <1>1, <2>1, <2>2 DEF LoadGate, GateFieldsValid, EnforceSafeConfig, Accepted, Refused
<1>2. ASSUME kms.environment \notin Production, kms.numbers = Defaults(KmsNumbers),
             kms.kem_backend # "other", kms.sig_backend # "other",
             kms.master_key \notin {"undecodable", "wrong length"}
      PROVE  LoadKms(kms) # Refused
    <2>1. \A f \in DOMAIN KmsNumbers : Fits(KmsNumbers[f], KmsNumbers[f].default)
        BY SMTT(60) DEF Fits, KmsNumbers, AtLeast, Above0, Between
    <2>2. InBounds(KmsNumbers, kms.numbers)
        BY <1>2, <2>1 DEF InBounds, Defaults
    <2>3. QED  BY <1>2, <2>2 DEF LoadKms, KmsFieldsValid, ResolveMasterKey, Accepted, Refused
<1>3. QED  BY <1>1, <1>2 DEF BareStart

\* No gateway that has started has a placeholder for the key of its VIPs, or an empty
\* secret to sign with; in production it has what it was told, with a token for the
\* admin API and no short key.  No KMS that has started has a placeholder for its
\* master key, nor in production one it made up.  (SafeStart)
THEOREM StartsSafe ==
    \A gate \in AnyGate, kms \in AnyKms : SafeStart(gate, kms)
<1> SUFFICES ASSUME NEW gate \in AnyGate, NEW kms \in AnyKms
             PROVE  SafeStart(gate, kms)
    OBVIOUS
<1>1. ASSUME LoadGate(gate) # Refused
      PROVE  LET s == LoadGate(gate)[2] IN
               /\ s.vip_enabled => s.vip_api_key \notin Placeholders
               /\ s.hmac_secret \notin Empty
               /\ s.environment \in Production =>
                     /\ s = gate /\ s.admin_token \notin Empty
                     /\ s.vip_enabled => s.vip_api_key # "short"
    <2> DEFINE s == LoadGate(gate)[2]
    <2>1. /\ s = [gate EXCEPT !.vip_enabled = @ /\ gate.vip_api_key \notin Placeholders,
                              !.hmac_secret = IF @ \in Empty THEN "generated" ELSE @]
          /\ gate.environment \in Production =>
                /\ gate.hmac_secret \notin Empty /\ gate.admin_token \notin Empty
                /\ gate.vip_enabled => gate.vip_api_key \notin Placeholders \union {"short"}
        BY <1>1, GateLoaded
    <2> HIDE DEF s
    <2>2. /\ s.vip_enabled = (gate.vip_enabled /\ gate.vip_api_key \notin Placeholders)
          /\ s.vip_api_key = gate.vip_api_key /\ s.environment = gate.environment
          /\ s.admin_token = gate.admin_token
          /\ s.hmac_secret = IF gate.hmac_secret \in Empty THEN "generated" ELSE gate.hmac_secret
        BY <2>1 DEF AnyGate, GateSettings
    <2>3. s.hmac_secret \notin Empty
        BY <2>2 DEF Empty
    <2>4. ASSUME gate.environment \in Production  PROVE s = gate
        <3>1. /\ (gate.vip_enabled /\ gate.vip_api_key \notin Placeholders) = gate.vip_enabled
              /\ gate.hmac_secret \notin Empty
            BY <2>1, <2>4 DEF AnyGate, GateSettings
        <3>2. s = [gate EXCEPT !.vip_enabled = @, !.hmac_secret = @]
            BY <2>1, <3>1 DEF AnyGate, GateSettings
        <3>3. QED  BY <3>2 DEF AnyGate, GateSettings
    <2>5. QED  BY <2>1, <2>2, <2>3, <2>4 DEF s
<1>2. ASSUME LoadKms(kms) # Refused
      PROVE  LET s == LoadKms(kms)[2] IN
               /\ s.master_key \in {"good", "generated"} /\ s.enable_docs # "unset"
               /\ s.environment \in Production => s.master_key = kms.master_key
    BY <1>2, KmsLoaded DEF AnyKms, KmsSettings, MasterKeys
<1>3. QED  BY <1>1, <1>2 DEF SafeStart

\* Loading is idempotent.
THEOREM StartsAgain ==
    \A gate \in AnyGate, kms \in AnyKms : LoadedStands(gate, kms)
<1> SUFFICES ASSUME NEW gate \in AnyGate, NEW kms \in AnyKms
             PROVE  LoadedStands(gate, kms)
    OBVIOUS
<1>1. ASSUME LoadGate(gate) # Refused
      PROVE  LoadGate(LoadGate(gate)[2]) = LoadGate(gate)
    <2> DEFINE s == LoadGate(gate)[2]
    <2>1. /\ GateFieldsValid(gate) /\ LoadGate(gate) = Accepted(s)
          /\ s = [gate EXCEPT !.vip_enabled = @ /\ gate.vip_api_key \notin Placeholders,
                              !.hmac_secret = IF @ \in Empty THEN "generated" ELSE @]
          /\ gate.numbers.max_ban_seconds >= gate.numbers.base_ban_seconds
          /\ gate.environment \in Production =>
                /\ gate.hmac_secret \notin Empty /\ gate.admin_token \notin Empty
                /\ gate.vip_enabled => gate.vip_api_key \notin Placeholders \union {"short"}
        BY <1>1, GateLoaded
    <2> HIDE DEF s
    <2>2. /\ s.numbers = gate.numbers /\ s.mtls_mode = gate.mtls_mode
          /\ s.log_format = gate.log_format /\ s.trusted_proxies = gate.trusted_proxies
          /\ s.environment = gate.environment /\ s.vip_api_key = gate.vip_api_key
          /\ s.admin_token = gate.admin_token
          /\ s.vip_enabled = (gate.vip_enabled /\ gate.vip_api_key \notin Placeholders)
          /\ s.hmac_secret \notin Empty
          /\ gate.numbers.max_ban_seconds \in Int /\ gate.numbers.base_ban_seconds \in Int
        BY <2>1 DEF AnyGate, GateSettings, Empty, GateNumbers
    <2>3. GateFieldsValid(s)
        BY <2>1, <2>2 DEF GateFieldsValid
    <2>4. [s EXCEPT !.vip_enabled = @ /\ s.vip_api_key \notin Placeholders,
                    !.hmac_secret = IF @ \in Empty THEN "generated" ELSE @] = s
        BY <2>1, <2>2 DEF AnyGate, GateSettings
    <2>5. EnforceSafeConfig(s) = Accepted(s)
        <3>1. ~(s.numbers.max_ban_seconds < s.numbers.base_ban_seconds)
            BY <2>1, <2>2
        <3>2. s.vip_enabled => gate.vip_enabled /\ s.vip_api_key \notin Placeholders
            BY <2>2, Zenon
        <3>3. s.environment \in Production =>
                 /\ s.admin_token \notin Empty /\ s.hmac_secret \notin Empty
                 /\ s.vip_enabled => s.vip_api_key \notin Placeholders /\ s.vip_api_key # "short"
            BY <2>1, <2>2, <3>2
        <3>4. EnforceSafeConfig(s) =
                 Accepted([s EXCEPT !.vip_enabled = @ /\ s.vip_api_key \notin Placeholders,
                                    !.hmac_secret = IF @ \in Empty THEN "generated" ELSE @])
            BY <3>1, <3>3 DEF EnforceSafeConfig
        <3>5. QED  BY <2>4, <3>4
    <2>6. LoadGate(s) = Accepted(s)
        BY <2>3, <2>5 DEF LoadGate
    <2>7. QED  BY <2>1, <2>6 DEF s
<1>2. ASSUME LoadKms(kms) # Refused
      PROVE  LoadKms(LoadKms(kms)[2]) = LoadKms(kms)
    <2> DEFINE s == LoadKms(kms)[2]
               docs == IF kms.environment \in Production THEN "off" ELSE "on"
    <2>1. /\ KmsFieldsValid(kms) /\ LoadKms(kms) = Accepted(s)
          /\ s = [kms EXCEPT !.master_key = IF @ \in Placeholders THEN "generated" ELSE @,
                             !.enable_docs = IF @ # "unset" THEN @ ELSE docs]
          /\ kms.master_key \notin {"undecodable", "wrong length"}
          /\ kms.environment \in Production => kms.master_key \notin Placeholders
        BY <1>2, KmsLoaded
    <2> HIDE DEF s
    <2>2. /\ s.numbers = kms.numbers /\ s.kem_backend = kms.kem_backend
          /\ s.sig_backend = kms.sig_backend /\ s.environment = kms.environment
          /\ s.master_key \notin Placeholders \union {"undecodable", "wrong length"}
          /\ s.enable_docs # "unset"
        BY <2>1 DEF AnyKms, KmsSettings, Placeholders, Empty
    <2>3. KmsFieldsValid(s)
        BY <2>1, <2>2 DEF KmsFieldsValid
    <2>4. ResolveMasterKey(s) = Accepted(s)
        BY <2>1, <2>2 DEF ResolveMasterKey, AnyKms, KmsSettings
    <2>5. LoadKms(s) = Accepted(s)
        BY <2>3, <2>4 DEF LoadKms
    <2>6. QED  BY <2>1, <2>5 DEF s
<1>3. QED  BY <1>1, <1>2 DEF LoadedStands

\* A product with a positive number is no less, and one with a share no more.
LEMMA Products ==
    ASSUME NEW k \in Nat \ {0}, NEW n \in Nat \ {0}
    PROVE  k * n \in Nat /\ k * n >= k
<1>1. k * (n - 1) \in Nat /\ k * n = k * (n - 1) + k
    OBVIOUS
<1>2. QED  BY <1>1

LEMMA Shares ==
    ASSUME NEW k \in Nat, NEW share \in 0 .. 1000
    PROVE  k * share \in 0 .. k * 1000
<1>1. k * share \in Nat /\ k * (1000 - share) \in Nat
    OBVIOUS
<1>2. k * 1000 = k * share + k * (1000 - share)
    OBVIOUS
<1>3. QED  BY <1>1, <1>2

\* What the modules assume of those of their constants that are settings holds of the
\* settings of every process that has started.  (ModelsJustified)
THEOREM StartsJustify ==
    \A gate \in AnyGate, kms \in AnyKms, second \in Nat \ {0}, full \in Nat :
        ModelsJustified(gate, kms, second, full)
<1> SUFFICES ASSUME NEW gate \in AnyGate, NEW kms \in AnyKms,
                    NEW second \in Nat \ {0}, NEW full \in Nat
             PROVE  ModelsJustified(gate, kms, second, full)
    OBVIOUS
<1>1. ASSUME LoadGate(gate) # Refused
      PROVE  LoadGate(gate)[2].numbers = gate.numbers /\ InBounds(GateNumbers, gate.numbers)
             /\ gate.numbers.max_ban_seconds >= gate.numbers.base_ban_seconds
    BY <1>1, GateLoaded DEF GateFieldsValid, AnyGate, GateSettings
<1>2. ASSUME LoadKms(kms) # Refused
      PROVE  LoadKms(kms)[2].numbers = kms.numbers /\ InBounds(KmsNumbers, kms.numbers)
    BY <1>2, KmsLoaded DEF KmsFieldsValid, AnyKms, KmsSettings
<1>3. gate.numbers \in [DOMAIN GateNumbers -> Int] /\ kms.numbers \in [DOMAIN KmsNumbers -> Int]
    BY DEF AnyGate, AnyKms, GateSettings, KmsSettings
<1>4. ASSUME NEW values \in [DOMAIN GateNumbers -> Int], InBounds(GateNumbers, values),
             NEW f \in DOMAIN GateNumbers
      PROVE  values[f] \in Int /\ values[f] >= GateNumbers[f].least
             /\ \A m \in GateNumbers[f].most : values[f] =< m
    BY <1>4 DEF InBounds, Fits
<1> DEFINE Positive == {
        "base_ban_seconds", "max_ban_seconds", "strike_window_seconds",
        "circuit_breaker_threshold", "circuit_breaker_reset_seconds",
        "challenge_ttl_seconds", "challenge_pass_ttl_seconds",
        "anon_burst", "anon_refill_per_sec", "vip_burst", "vip_refill_per_sec",
        "fallback_burst", "fallback_refill_per_sec", "default_route_cost",
        "under_attack_limit_multiplier", "telemetry_queue_size",
        "dashboard_rate_window_seconds"}
<1>5. /\ Positive \subseteq DOMAIN GateNumbers
      /\ "trusted_proxy_hops" \in DOMAIN GateNumbers
      /\ "ban_escalation_factor" \in DOMAIN GateNumbers
    BY DEF GateNumbers
<1>6. /\ GateNumbers.base_ban_seconds.least = 1
      /\ GateNumbers.max_ban_seconds.least = 1
      /\ GateNumbers.strike_window_seconds.least = 1
      /\ GateNumbers.circuit_breaker_threshold.least = 1
      /\ GateNumbers.circuit_breaker_reset_seconds.least = 1
      /\ GateNumbers.challenge_ttl_seconds.least = 1
      /\ GateNumbers.challenge_pass_ttl_seconds.least = 1
    BY DEF GateNumbers, AtLeast, Above0
<1>7. /\ GateNumbers.anon_burst.least = 1
      /\ GateNumbers.anon_refill_per_sec.least = 1
      /\ GateNumbers.vip_burst.least = 1
      /\ GateNumbers.vip_refill_per_sec.least = 1
      /\ GateNumbers.fallback_burst.least = 1
      /\ GateNumbers.fallback_refill_per_sec.least = 1
      /\ GateNumbers.default_route_cost.least = 1
    BY DEF GateNumbers, AtLeast, Above0
<1>8. /\ GateNumbers.telemetry_queue_size.least = 1
      /\ GateNumbers.dashboard_rate_window_seconds.least = 1
      /\ GateNumbers.under_attack_limit_multiplier.least = 1
      /\ GateNumbers.under_attack_limit_multiplier.most = {1000}
      /\ GateNumbers.trusted_proxy_hops.least = 0
      /\ GateNumbers.ban_escalation_factor.least = 1000
    BY DEF GateNumbers, AtLeast, Above0, Between
<1>9. ASSUME NEW n \in [DOMAIN GateNumbers -> Int], InBounds(GateNumbers, n),
             n.max_ban_seconds >= n.base_ban_seconds
      PROVE  GateJustifies(n, second, full)
    <2>1. \A f \in Positive : GateNumbers[f].least = 1
        BY <1>6, <1>7, <1>8
    <2>2. \A f \in Positive : n[f] \in Nat \ {0}
        <3> SUFFICES ASSUME NEW f \in Positive PROVE n[f] \in Nat \ {0}
            OBVIOUS
        <3>1. n[f] \in Int /\ n[f] >= 1
            BY <1>4, <1>5, <1>9, <2>1
        <3>2. QED  BY <3>1
    <2>3. n.trusted_proxy_hops \in Nat
        <3>1. n.trusted_proxy_hops \in Int /\ n.trusted_proxy_hops >= 0
            BY <1>4, <1>5, <1>8, <1>9
        <3>2. QED  BY <3>1
    <2>4. n.ban_escalation_factor \in Nat /\ n.ban_escalation_factor >= 1000
        <3>1. n.ban_escalation_factor \in Int /\ n.ban_escalation_factor >= 1000
            BY <1>4, <1>5, <1>8, <1>9
        <3>2. QED  BY <3>1
    <2>5. /\ second * n.challenge_pass_ttl_seconds \in Nat
          /\ second * n.challenge_pass_ttl_seconds >= second
          /\ \A lag \in 0 .. second - 1 : lag < second * n.challenge_ttl_seconds
        <3>1. /\ n.challenge_pass_ttl_seconds \in Nat \ {0}
              /\ n.challenge_ttl_seconds \in Nat \ {0}
            BY <2>2
        <3>2. /\ second * n.challenge_pass_ttl_seconds \in Nat
              /\ second * n.challenge_pass_ttl_seconds >= second
            BY <3>1, Products
        <3>3. /\ second * n.challenge_ttl_seconds \in Nat
              /\ second * n.challenge_ttl_seconds >= second
            BY <3>1, Products
        <3>4. QED  BY <3>2, <3>3
    <2>6. n.under_attack_limit_multiplier \in 0 .. 1000
        <3>1. n.under_attack_limit_multiplier =< 1000
            BY <1>4, <1>5, <1>8, <1>9
        <3>2. n.under_attack_limit_multiplier \in Nat \ {0}
            BY <2>2
        <3>3. QED  BY <3>1, <3>2
    <2>7. full * n.under_attack_limit_multiplier \in 0 .. full * 1000
        <3> DEFINE share == n.under_attack_limit_multiplier
        <3>1. share \in 0 .. 1000
            BY <2>6
        <3> HIDE DEF share
        <3>2. full * share \in 0 .. full * 1000
            BY <3>1, Shares
        <3>3. QED  BY <3>2 DEF share
    <2>8. /\ n.base_ban_seconds \in Nat \ {0} /\ n.strike_window_seconds \in Nat \ {0}
          /\ n.max_ban_seconds \in Nat
          /\ n.circuit_breaker_threshold \in Nat \ {0}
          /\ n.circuit_breaker_reset_seconds \in Nat \ {0}
        BY <2>2
    <2>9. /\ n.anon_burst \in Nat /\ n.vip_burst \in Nat /\ n.fallback_burst \in Nat
          /\ n.anon_refill_per_sec \in Nat \ {0} /\ n.vip_refill_per_sec \in Nat \ {0}
          /\ n.fallback_refill_per_sec \in Nat \ {0} /\ n.default_route_cost \in Nat \ {0}
          /\ n.telemetry_queue_size \in Nat \ {0}
          /\ n.dashboard_rate_window_seconds \in Nat \ {0}
        BY <2>2
    <2> HIDE DEF Positive
    <2>10. QED  BY <1>9, <2>3, <2>4, <2>5, <2>7, <2>8, <2>9 DEF GateJustifies
<1>10. ASSUME LoadKms(kms) # Refused
       PROVE  KmsJustifies(LoadKms(kms)[2].numbers)
    BY <1>2, <1>3, <1>10
       DEF InBounds, Fits, KmsNumbers, AtLeast, Above0, Between, KmsJustifies
<1>11. QED  BY <1>1, <1>3, <1>9, <1>10 DEF ModelsJustified

-----------------------------------------------------------------------------
(* The inductive invariant of the telemetry *)

\* The numbers of the events in the pipeline have been given out.
NumberedInv ==
    /\ \A i \in DOMAIN queue : queue[i].n =< emitted
    /\ hand # Waiting => hand.e.n =< emitted

\* The last pruning left no row older than its cutoff, and the last row was
\* recorded before the next pruning was due.
PrunedInv ==
    /\ lastRecord =< clock
    /\ pruned => /\ lastRecord =< lastPrune + PruneEvery
                 /\ lastPrune =< clock
                 /\ \A row \in view : row.ts >= lastPrune - Retention

FlowInv == Accounted /\ NumberedInv /\ PrunedInv

-----------------------------------------------------------------------------
(* Lemmas about the telemetry *)

LEMMA FlowSettings ==
    /\ QueueSize \in Nat /\ QueueSize > 0 /\ Window \in Nat /\ Window > 0
    /\ Retention \in Nat /\ PruneEvery \in Nat /\ PruneEvery > 0
    /\ MaxEvents \in Nat /\ MaxClock \in Nat /\ Never \in Int /\ Never < 0
BY FlowAssumption DEF Never

\* What the consumer holds while it waits for a stage to end.
LEMMA Held ==
    ASSUME hand \in Hand, hand # Waiting
    PROVE  /\ hand.e \in Event /\ hand.e.n \in 1 .. MaxEvents /\ hand.e.probe \in BOOLEAN
           /\ hand.stage \in Stages
BY DEF Hand, Event

LEMMA Holding ==
    ASSUME NEW stage \in Stages, NEW e \in Event
    PROVE  LET h == [stage |-> stage, e |-> e]
           IN  h \in Hand /\ h # Waiting /\ h.stage = stage /\ h.e = e
<1>1. stage # "get"
    BY DEF Stages
<1>2. QED  BY <1>1 DEF Hand, Waiting

\* The rest of a queue in order is in order, and comes after what was first.
LEMMA Rest ==
    ASSUME NEW s \in Seq(Event), s # << >>, Increasing(s)
    PROVE  /\ Head(s) \in Event /\ Head(s) = s[1] /\ 1 \in DOMAIN s
           /\ Tail(s) \in Seq(Event) /\ Len(Tail(s)) = Len(s) - 1 /\ Len(s) \in Nat
           /\ \A i \in DOMAIN Tail(s) : i + 1 \in DOMAIN s /\ Tail(s)[i] = s[i + 1]
           /\ Increasing(Tail(s))
           /\ Tail(s) # << >> => s[1].n < Tail(s)[1].n
<1>1. /\ Head(s) \in Event /\ Head(s) = s[1] /\ 1 \in DOMAIN s
      /\ Tail(s) \in Seq(Event) /\ Len(Tail(s)) = Len(s) - 1 /\ Len(s) \in Nat
      /\ DOMAIN s = 1 .. Len(s) /\ DOMAIN Tail(s) = 1 .. Len(s) - 1
    OBVIOUS
<1>2. \A i \in DOMAIN Tail(s) : i + 1 \in DOMAIN s /\ Tail(s)[i] = s[i + 1]
    OBVIOUS
<1>3. Increasing(Tail(s))
    BY <1>1, <1>2 DEF Increasing
<1>4. Tail(s) # << >> => s[1].n < Tail(s)[1].n
    <2> HAVE Tail(s) # << >>
    <2>1. 1 \in DOMAIN Tail(s)
        BY <1>1
    <2>2. QED  BY <1>1, <1>2, <2>1 DEF Increasing
<1>5. QED  BY <1>1, <1>2, <1>3, <1>4

\* What is put behind a queue in order with a greater number leaves it in order.
LEMMA Appended ==
    ASSUME NEW s \in Seq(Event), NEW e \in Event, Increasing(s),
           \A i \in DOMAIN s : s[i].n < e.n
    PROVE  LET q == Append(s, e) IN
             /\ q \in Seq(Event) /\ Len(q) = Len(s) + 1 /\ Len(s) \in Nat
             /\ Increasing(q)
             /\ \A i \in DOMAIN q : q[i].n =< e.n
             /\ q[1] = IF s = << >> THEN e ELSE s[1]
<1> DEFINE q == Append(s, e)
<1>1. /\ q \in Seq(Event) /\ Len(q) = Len(s) + 1 /\ Len(s) \in Nat
      /\ DOMAIN q = 1 .. Len(s) + 1 /\ DOMAIN s = 1 .. Len(s)
      /\ \A i \in DOMAIN s : q[i] = s[i]
      /\ q[Len(s) + 1] = e
      /\ q[1] = IF s = << >> THEN e ELSE s[1]
    OBVIOUS
<1> HIDE DEF q
<1>2. \A i \in DOMAIN q : q[i].n \in Int
    <2>1. \A x \in Event : x.n \in Int
        BY FlowSettings DEF Event
    <2>2. \A i \in DOMAIN q : q[i] \in Event
        BY <1>1
    <2>3. QED  BY <2>1, <2>2
<1>3. Increasing(q)
    BY <1>1, <1>2 DEF Increasing
<1>4. \A i \in DOMAIN q : q[i].n =< e.n
    BY <1>1, <1>2
<1>5. QED  BY <1>1, <1>3, <1>4 DEF q

\* A set of numbers with 0 and the successor of each of its members has all.
LEMMA Successors ==
    ASSUME NEW T, T \subseteq Nat, 0 \in T, \A n \in T : n + 1 \in T
    PROVE  Nat \subseteq T
<1> SUFFICES ASSUME Nat \ T # {} PROVE FALSE
    OBVIOUS
<1>1. PICK x \in Nat \ T : \A y \in Nat \ T : ~(<<y, x>> \in OpToRel(<, Nat))
    <2>1. Nat \ T \subseteq Nat
        OBVIOUS
    <2>2. QED  BY <2>1, NatLessThanWellFounded, WFMin, Zenon
<1>2. \A y \in Nat \ T : ~(y < x)
    BY <1>1 DEF OpToRel
<1>3. x # 0 /\ x - 1 \in Nat
    OBVIOUS
<1>4. x - 1 \in T
    BY <1>2, <1>3
<1>5. QED  BY <1>3, <1>4

LEMMA SumsExist ==
    ASSUME NEW b \in [Seconds -> Nat]
    PROVE  RateSums(b) = [s \in Seconds |-> IF s = 0 THEN b[0] ELSE RateSums(b)[s - 1] + b[s]]
<1> DEFINE Step(f, n) == f = [s \in 0 .. n |-> IF s = 0 THEN b[0] ELSE f[s - 1] + b[s]]
           Good == {n \in Nat : n \in Seconds => \E f : Step(f, n)}
<1>1. 0 \in Good
    <2>1. Step([s \in 0 .. 0 |-> b[0]], 0)
        OBVIOUS
    <2>2. QED  BY <2>1
<1>2. ASSUME NEW n \in Good PROVE n + 1 \in Good
    <2> SUFFICES ASSUME n + 1 \in Seconds PROVE \E f : Step(f, n + 1)
        OBVIOUS
    <2>1. n \in Seconds /\ n \in Nat
        BY FlowSettings DEF Seconds
    <2>2. PICK f : Step(f, n)
        BY <2>1
    <2> DEFINE g == [s \in 0 .. n + 1 |-> IF s = n + 1 THEN f[n] + b[n + 1] ELSE f[s]]
    <2>3. ASSUME NEW s \in 0 .. n + 1
          PROVE  g[s] = IF s = 0 THEN b[0] ELSE g[s - 1] + b[s]
        <3>1. CASE s = n + 1
            <4>1. g[s] = f[n] + b[s] /\ s # 0 /\ s - 1 = n /\ n \in 0 .. n + 1 /\ n # n + 1
                BY <2>1, <3>1
            <4>2. QED  BY <4>1
        <3>2. CASE s # n + 1
            <4>1. s \in 0 .. n /\ g[s] = f[s]
                BY <2>1, <3>2
            <4>2. f[s] = IF s = 0 THEN b[0] ELSE f[s - 1] + b[s]
                BY <2>2, <4>1
            <4>3. s # 0 => s - 1 \in 0 .. n + 1 /\ s - 1 # n + 1
                BY <4>1, <2>1
            <4>4. s # 0 => g[s - 1] = f[s - 1]
                BY <4>3
            <4>5. QED  BY <4>1, <4>2, <4>4
        <3>3. QED  BY <3>1, <3>2
    <2> HIDE DEF g
    <2>4. g = [s \in 0 .. n + 1 |-> g[s]]
        BY DEF g
    <2>5. Step(g, n + 1)
        BY <2>3, <2>4
    <2>6. QED  BY <2>5
<1>3. MaxClock \in Good
    <2> HIDE DEF Good
    <2>1. Good \subseteq Nat
        BY DEF Good
    <2>2. QED  BY <1>1, <1>2, <2>1, Successors, FlowSettings
<1>4. PICK f : Step(f, MaxClock)
    BY <1>3, FlowSettings DEF Seconds
<1>5. f = [s \in Seconds |-> IF s = 0 THEN b[0] ELSE f[s - 1] + b[s]]
    BY <1>4 DEF Seconds
<1> HIDE DEF Step, Good
<1>6. QED  BY <1>5, Zenon DEF RateSums

\* With at most p events in each second from lo to hi, and none in another.
LEMMA SumsBound ==
    ASSUME NEW b \in [Seconds -> Nat], NEW p \in Nat, NEW lo \in Nat, NEW hi \in Nat,
           lo =< hi, \A s \in Seconds : b[s] =< p,
           \A s \in Seconds : b[s] > 0 => lo =< s /\ s =< hi
    PROVE  /\ RateSums(b)[MaxClock] \in Nat
           /\ RateSums(b)[MaxClock] =< p * (hi - lo + 1)
<1> DEFINE sum == RateSums(b)
           k(n) == IF n < lo THEN 0 ELSE IF n =< hi THEN n - lo + 1 ELSE hi - lo + 1
           Good == {n \in Nat : n \in Seconds => sum[n] \in Nat /\ sum[n] =< p * k(n)}
<1>1. \A s \in Seconds : sum[s] = IF s = 0 THEN b[0] ELSE sum[s - 1] + b[s]
    <2> HIDE DEF sum
    <2>1. sum = [s \in Seconds |-> IF s = 0 THEN b[0] ELSE sum[s - 1] + b[s]]
        BY SumsExist DEF sum
    <2>2. QED  BY <2>1
<1> HIDE DEF sum
<1>2. \A n \in Nat : k(n) \in Nat
    OBVIOUS
<1>3. 0 \in Seconds /\ \A s \in Seconds : s \in Nat /\ b[s] \in Nat
    BY FlowSettings DEF Seconds
<1>4. p * 0 = 0 /\ p * 1 = p /\ \A j \in Nat : p * j \in Nat /\ p * (j + 1) = p * j + p
    OBVIOUS
<1>5. ASSUME NEW n \in Seconds
      PROVE  b[n] = 0 \/ (lo =< n /\ n =< hi /\ b[n] =< p)
    BY <1>3
<1>6. 0 \in Good
    <2>1. sum[0] = b[0]
        BY <1>1, <1>3
    <2>2. CASE b[0] = 0
        <3>1. k(0) = 0 \/ k(0) = 1
            OBVIOUS
        <3>2. QED  BY <1>3, <1>4, <2>1, <2>2, <3>1
    <2>3. CASE lo =< 0 /\ b[0] =< p
        <3>1. k(0) = 1
            BY <2>3
        <3>2. QED  BY <1>3, <1>4, <2>1, <2>3, <3>1
    <2>4. QED  BY <1>3, <1>5, <2>2, <2>3
<1>7. ASSUME NEW n \in Good PROVE n + 1 \in Good
    <2> SUFFICES ASSUME n + 1 \in Seconds
                 PROVE  sum[n + 1] \in Nat /\ sum[n + 1] =< p * k(n + 1)
        OBVIOUS
    <2>1. n \in Seconds /\ n \in Nat /\ n + 1 # 0 /\ n + 1 - 1 = n
        BY FlowSettings DEF Seconds
    <2>2. sum[n] \in Nat /\ sum[n] =< p * k(n)
        BY <2>1
    <2>3. sum[n + 1] = sum[n] + b[n + 1] /\ b[n + 1] \in Nat
        BY <1>1, <1>3, <2>1
    <2>4. k(n) \in Nat /\ k(n + 1) \in Nat /\ (k(n + 1) = k(n) \/ k(n + 1) = k(n) + 1)
        BY <2>1
    <2>5. lo =< n + 1 /\ n + 1 =< hi => k(n + 1) = k(n) + 1
        BY <2>1
    <2> HIDE DEF k
    <2>6. CASE b[n + 1] = 0
        BY <1>4, <2>2, <2>3, <2>4, <2>6
    <2>7. CASE lo =< n + 1 /\ n + 1 =< hi /\ b[n + 1] =< p
        BY <1>4, <2>2, <2>3, <2>4, <2>5, <2>7
    <2>8. QED  BY <1>5, <2>6, <2>7
<1>8. MaxClock \in Good
    <2> HIDE DEF Good
    <2>1. Good \subseteq Nat
        BY DEF Good
    <2>2. QED  BY <1>6, <1>7, <2>1, Successors, FlowSettings
<1>9. sum[MaxClock] \in Nat /\ sum[MaxClock] =< p * k(MaxClock)
    BY <1>8, FlowSettings DEF Seconds
<1>10. k(MaxClock) \in Nat /\ hi - lo + 1 \in Nat /\ k(MaxClock) =< hi - lo + 1
    BY FlowSettings
<1> HIDE DEF k
<1>11. p * k(MaxClock) =< p * (hi - lo + 1)
    BY <1>10
<1>12. QED
    <2>1. p * k(MaxClock) \in Nat /\ p * (hi - lo + 1) \in Nat
        BY <1>10
    <2>2. QED  BY <1>9, <1>11, <2>1 DEF sum
\* The greater and the smaller of two numbers, and the least of several.
LEMMA TwoNumbers ==
    ASSUME NEW x \in Int, NEW y \in Int
    PROVE  /\ Max({x, y}) = IF x >= y THEN x ELSE y
           /\ Min({x, y}) = IF x =< y THEN x ELSE y
BY DEF Max, Min

LEMMA Least ==
    ASSUME NEW T, T \subseteq Nat, T # {}
    PROVE  Min(T) \in T /\ \A y \in T : Min(T) =< y
<1>1. PICK x \in T : \A y \in T : ~(<<y, x>> \in OpToRel(<, Nat))
    BY NatLessThanWellFounded, WFMin, Zenon
<1>2. \A y \in T : ~(y < x)
    BY <1>1 DEF OpToRel
<1>3. \A y \in T : x =< y
    BY <1>2
<1>4. QED  BY <1>3 DEF Min

-----------------------------------------------------------------------------
(* Steps *)

LEMMA FlowInitially == FlowInit => FlowInv
<1> SUFFICES ASSUME FlowInit PROVE FlowInv
    OBVIOUS
<1> USE FlowSettings
<1>1. FlowTypeOK
    <2>1. << >> \in Seq(Event) /\ Len(<< >>) = 0 /\ clock \in Seconds
        BY DEF FlowInit, Seconds
    <2>2. buckets \in [Seconds -> Nat] /\ hand \in Hand
        BY DEF FlowInit, Started, Hand
    <2>3. QED  BY <2>1, <2>2 DEF FlowInit, Started, FlowTypeOK
<1>2. Accounted /\ NumberedInv
    BY <1>1 DEF FlowInit, Started, Accounted, NumberedInv, Increasing, InHand
<1>3. PrunedInv
    BY DEF FlowInit, Started, PrunedInv
<1>4. QED  BY <1>2, <1>3 DEF FlowInv

\* The live figures count an event once.
LEMMA LiveCounts ==
    ASSUME FlowTypeOK, NEW e \in Event, RecordLive(e)
    PROVE  /\ total' \in Nat /\ ignored' \in Nat /\ peak' \in Nat
           /\ buckets' \in [Seconds -> Nat]
           /\ total' + ignored' = total + ignored + 1
<1> USE FlowSettings
<1>1. CASE e.probe
    BY <1>1 DEF RecordLive, FlowTypeOK
<1>2. CASE ~e.probe
    <2>1. Bumped \in [Seconds -> Nat] /\ clock \in Seconds
        BY DEF Bumped, FlowTypeOK
    <2>2. Trimmed(Bumped) \in [Seconds -> Nat]
        BY <2>1 DEF Trimmed
    <2>3. peak' \in Nat
        BY <1>2, <2>1, TwoNumbers DEF RecordLive, FlowTypeOK
    <2>4. QED  BY <1>2, <2>2, <2>3 DEF RecordLive, FlowTypeOK
<1>3. QED  BY <1>1, <1>2

\* The history keeps its types and its rows young, whatever fails.
LEMMA HistoryKept ==
    ASSUME FlowTypeOK, PrunedInv, NEW e \in Event, RecordRow(e), clock' = clock
    PROVE  /\ db' \subseteq Row /\ view' \subseteq Row
           /\ lastPrune' \in Nat \union {Never} /\ lastRecord' \in Nat \union {Never}
           /\ pruned' \in BOOLEAN
           /\ PrunedInv'
<1> USE FlowSettings
<1> DEFINE T == view \union {[n |-> e.n, ts |-> clock]}
<1>1. /\ T \subseteq Row /\ Kept(T) \subseteq T
      /\ clock \in Nat
      /\ db \subseteq Row /\ view \subseteq Row /\ pruned \in BOOLEAN
      /\ lastPrune \in Nat \union {Never} /\ lastRecord \in Nat \union {Never}
    BY DEF FlowTypeOK, Row, Event, Kept, Seconds
<1>2. \A row \in T : row.ts \in Nat /\ (row \in view \/ row.ts = clock)
    BY <1>1 DEF Row
<1>3. \A row \in Kept(T) : row.ts \in Nat /\ row.ts >= clock - Retention
    BY <1>2 DEF Kept, Cutoff
<1> HIDE DEF T
<1>4. CASE MaybePrune(T) /\ lastRecord' = clock
    <2>1. CASE ~Due /\ view' = T /\ db' = T /\ lastPrune' = lastPrune /\ pruned' = pruned
        BY <1>1, <1>2, <2>1, <1>4 DEF PrunedInv, Due
    <2>2. CASE view' = Kept(T) /\ db' = Kept(T) /\ lastPrune' = clock /\ pruned' = TRUE
        BY <1>1, <1>3, <2>2, <1>4 DEF PrunedInv
    <2>3. CASE view' \in {T, Kept(T)} /\ db' = T /\ lastPrune' = clock /\ pruned' = FALSE
        <3>1. view' \subseteq Row /\ db' \subseteq Row
            BY <1>1, <2>3
        <3>2. ~pruned' /\ pruned' \in BOOLEAN /\ lastPrune' = clock /\ lastRecord' = clock
            BY <1>4, <2>3
        <3>3. QED  BY <1>1, <3>1, <3>2 DEF PrunedInv
    <2>4. QED  BY <1>4, <2>1, <2>2, <2>3 DEF MaybePrune
<1>5. CASE view' \in {view, T} /\ UNCHANGED <<db, lastPrune, lastRecord, pruned>>
    BY <1>1, <1>2, <1>5 DEF PrunedInv
<1>6. CASE UNCHANGED storeVars
    BY <1>1, <1>6 DEF PrunedInv, storeVars
<1>7. QED  BY <1>4, <1>5, <1>6 DEF RecordRow, T

\* One step of the consumer ends in an event that has been counted.
LEMMA FoldKeeps ==
    ASSUME FlowTypeOK, PrunedInv, NEW e \in Event, Fold(e), clock' = clock
    PROVE  /\ total' \in Nat /\ ignored' \in Nat /\ peak' \in Nat
           /\ buckets' \in [Seconds -> Nat]
           /\ total' + ignored' = total + ignored + 1
           /\ db' \subseteq Row /\ view' \subseteq Row
           /\ lastPrune' \in Nat \union {Never} /\ lastRecord' \in Nat \union {Never}
           /\ pruned' \in BOOLEAN /\ PrunedInv'
           /\ hand' \in Hand /\ hand' # Waiting /\ hand'.stage = "outcome" /\ hand'.e = e
<1>1. RecordLive(e) /\ RecordRow(e) /\ hand' = [stage |-> "outcome", e |-> e]
    BY DEF Fold, Wait
<1>2. hand' \in Hand /\ hand' # Waiting /\ hand'.stage = "outcome" /\ hand'.e = e
    BY <1>1, Holding DEF Stages
<1>3. QED  BY <1>1, <1>2, LiveCounts, HistoryKept

LEMMA EmitKeeps ==
    ASSUME FlowInv, NEW probe \in BOOLEAN, Emit(probe)
    PROVE  FlowInv'
<1> USE FlowSettings
<1> DEFINE e == [n |-> emitted + 1, probe |-> probe]
<1>1. /\ FlowTypeOK /\ Increasing(queue) /\ emitted < MaxEvents /\ emitted \in Nat
      /\ queue \in Seq(Event) /\ Len(queue) =< QueueSize
    BY DEF FlowInv, Accounted, FlowTypeOK, Emit
<1>2. e \in Event /\ e.n = emitted + 1
    BY <1>1 DEF Event
<1>3. \A i \in DOMAIN queue : queue[i].n \in Nat /\ queue[i].n < emitted + 1
    <2>1. \A x \in Event : x.n \in Nat
        BY DEF Event
    <2>2. \A i \in DOMAIN queue : queue[i] \in Event
        BY <1>1
    <2>3. QED  BY <1>1, <2>1, <2>2 DEF FlowInv, NumberedInv
<1>4. /\ emitted' = emitted + 1 /\ queue' = Put(e)
      /\ dropped' = IF Len(queue) < QueueSize THEN dropped ELSE dropped + 1
      /\ UNCHANGED <<clock, hand, base, total, buckets, ignored, peak,
                     db, view, lastPrune, lastRecord, pruned>>
    BY DEF Emit, liveVars, storeVars
<1> HIDE DEF e
<1>5. /\ queue' \in Seq(Event) /\ Len(queue') =< QueueSize
      /\ dropped' + Len(queue') = dropped + Len(queue) + 1 /\ dropped' \in Nat
      /\ Len(queue) \in Nat /\ Len(queue') \in Nat
      /\ Increasing(queue')
      /\ \A i \in DOMAIN queue' : queue'[i].n =< emitted + 1
      /\ queue = << >> => queue'[1] = e
      /\ queue # << >> => queue'[1].n >= queue[1].n
    <2>1. CASE Len(queue) < QueueSize
        <3>1. queue' = Append(queue, e) /\ dropped' = dropped
            BY <1>4, <2>1 DEF Put
        <3>2. 1 \in DOMAIN queue \/ queue = << >>
            BY <1>1
        <3>3. QED  BY <1>1, <1>2, <1>3, <2>1, <3>1, <3>2, Appended DEF FlowTypeOK
    <2>2. CASE Len(queue) = QueueSize
        <3>1. queue' = Append(Tail(queue), e) /\ dropped' = dropped + 1
            BY <1>4, <2>2 DEF Put
        <3>2. queue # << >>
            BY <2>2
        <3>3. /\ Tail(queue) \in Seq(Event) /\ Len(Tail(queue)) = Len(queue) - 1
              /\ Increasing(Tail(queue))
              /\ \A i \in DOMAIN Tail(queue) : Tail(queue)[i].n < e.n
              /\ Tail(queue) # << >> => queue[1].n < Tail(queue)[1].n
              /\ queue[1].n \in Nat /\ queue[1].n < e.n
            BY <1>1, <1>2, <1>3, <3>2, Rest
        <3>4. Tail(queue) # << >> => Tail(queue)[1].n \in Nat
            <4>1. \A x \in Event : x.n \in Nat
                BY DEF Event
            <4>2. Tail(queue) # << >> => Tail(queue)[1] \in Event
                BY <3>3
            <4>3. QED  BY <4>1, <4>2
        <3>5. LET q == Append(Tail(queue), e) IN
                /\ q \in Seq(Event) /\ Len(q) = Len(queue)
                /\ Increasing(q)
                /\ \A i \in DOMAIN q : q[i].n =< e.n
                /\ q[1] = IF Tail(queue) = << >> THEN e ELSE Tail(queue)[1]
            <4> HIDE DEF e
            <4>1. \A s \in Seq(Event) :
                      Increasing(s) /\ (\A i \in DOMAIN s : s[i].n < e.n) =>
                          LET q == Append(s, e) IN
                            /\ q \in Seq(Event) /\ Len(q) = Len(s) + 1
                            /\ Increasing(q)
                            /\ \A i \in DOMAIN q : q[i].n =< e.n
                            /\ q[1] = IF s = << >> THEN e ELSE s[1]
                BY <1>2, Appended
            <4>2. Len(queue) \in Nat
                BY <1>1
            <4> DEFINE rest == Tail(queue)
            <4>3. /\ rest \in Seq(Event) /\ Increasing(rest) /\ Len(rest) + 1 = Len(queue)
                  /\ \A i \in DOMAIN rest : rest[i].n < e.n
                BY <3>3, <4>2
            <4> HIDE DEF rest
            <4>4. LET q == Append(rest, e) IN
                    /\ q \in Seq(Event) /\ Len(q) = Len(queue)
                    /\ Increasing(q)
                    /\ \A i \in DOMAIN q : q[i].n =< e.n
                    /\ q[1] = IF rest = << >> THEN e ELSE rest[1]
                BY <4>1, <4>3
            <4>5. QED  BY <4>4 DEF rest
        <3>6. queue'[1].n >= queue[1].n
            <4>1. CASE Tail(queue) = << >>
                BY <1>1, <1>2, <3>1, <3>3, <3>5, <4>1
            <4>2. CASE Tail(queue) # << >>
                BY <3>1, <3>3, <3>4, <3>5, <4>2
            <4>3. QED  BY <4>1, <4>2
        <3>7. dropped \in Nat /\ Len(queue) \in Nat
            BY <1>1 DEF FlowTypeOK
        <3>8. /\ queue' \in Seq(Event) /\ Len(queue') = Len(queue) /\ Increasing(queue')
              /\ \A i \in DOMAIN queue' : queue'[i].n =< emitted + 1
            BY <1>2, <3>1, <3>5
        <3>9. dropped' + Len(queue') = dropped + Len(queue) + 1 /\ dropped' \in Nat
            BY <3>1, <3>7, <3>8
        <3>10. Len(queue') =< QueueSize /\ Len(queue') \in Nat /\ Len(queue) \in Nat
            BY <2>2, <3>7, <3>8
        <3>11. QED  BY <3>2, <3>6, <3>8, <3>9, <3>10
    <2>3. QED  BY <1>1, <2>1, <2>2
<1>6. FlowTypeOK'
    <2>1. emitted' \in 0 .. MaxEvents /\ base' \in 0 .. emitted'
        BY <1>1, <1>4 DEF FlowTypeOK
    <2>2. queue' \in Seq(Event) /\ Len(queue') =< QueueSize /\ dropped' \in Nat
        BY <1>5
    <2>3. FlowTypeOK /\ UNCHANGED <<clock, hand, total, buckets, ignored, peak,
                                   db, view, lastPrune, lastRecord, pruned>>
        BY <1>1, <1>4
    <2>4. QED  BY <2>1, <2>2, <2>3 DEF FlowTypeOK
<1>7. emitted' - base' =
          dropped' + Len(queue') + (IF InHand THEN 1 ELSE 0)' + total' + ignored'
    <2> DEFINE one == IF InHand THEN 1 ELSE 0
    <2>1. one \in Nat /\ one' = one
        BY <1>4 DEF InHand
    <2> HIDE DEF one
    <2>2. emitted - base = dropped + Len(queue) + one + total + ignored
        BY DEF FlowInv, Accounted, one
    <2>3. base \in Nat /\ total \in Nat /\ ignored \in Nat /\ dropped \in Nat
        BY <1>1 DEF FlowTypeOK
    <2>4. /\ emitted' = emitted + 1 /\ emitted \in Nat
          /\ base' = base /\ total' = total /\ ignored' = ignored
        BY <1>1, <1>4
    <2>5. /\ dropped' + Len(queue') = dropped + Len(queue) + 1
          /\ dropped' \in Nat /\ Len(queue) \in Nat /\ Len(queue') \in Nat
        BY <1>5
    <2>6. emitted' - base' = dropped' + Len(queue') + one' + total' + ignored'
        BY <2>1, <2>2, <2>3, <2>4, <2>5
    <2>7. QED  BY <2>6 DEF one
<1>8. (hand # Waiting => hand.e.n =< emitted /\ (queue # << >> => hand.e.n < queue[1].n))'
    <2> SUFFICES ASSUME hand # Waiting
                 PROVE  hand.e.n =< emitted + 1 /\ hand.e.n < queue'[1].n
        BY <1>4
    <2>1. hand.e.n \in Nat /\ hand.e.n =< emitted
        BY <1>1, Held DEF FlowInv, NumberedInv, FlowTypeOK
    <2>2. CASE queue = << >>
        BY <1>1, <1>2, <1>5, <2>1, <2>2
    <2>3. CASE queue # << >>
        <3>1. hand.e.n < queue[1].n /\ queue[1].n \in Nat
            BY <1>1, <1>3, <2>3 DEF FlowInv, Accounted
        <3>2. 1 \in DOMAIN queue' /\ queue'[1] \in Event /\ queue'[1].n \in Nat
            <4>1. \A x \in Event : x.n \in Nat
                BY DEF Event
            <4>2. queue' # << >>
                <5>1. Put(e) # << >>
                    <6>1. Tail(queue) \in Seq(Event) /\ queue \in Seq(Event)
                        BY <1>1, <2>3
                    <6>2. \A s \in Seq(Event) : Append(s, e) # << >>
                        BY <1>2
                    <6>3. QED  BY <6>1, <6>2 DEF Put
                <5>2. QED  BY <1>4, <5>1
            <4>3. 1 \in DOMAIN queue' /\ queue'[1] \in Event
                BY <1>5, <4>2
            <4>4. QED  BY <4>1, <4>3
        <3>3. QED  BY <1>1, <1>5, <2>1, <2>3, <3>1, <3>2
    <2>4. QED  BY <2>2, <2>3
<1>9. NumberedInv' /\ PrunedInv'
    BY <1>4, <1>5, <1>8 DEF FlowInv, NumberedInv, PrunedInv
<1>10. QED  BY <1>5, <1>6, <1>7, <1>8, <1>9 DEF FlowInv, Accounted

LEMMA TakeKeeps ==
    ASSUME FlowInv, Take
    PROVE  FlowInv'
<1> USE FlowSettings
<1> DEFINE e == Head(queue)
<1>1. /\ FlowTypeOK /\ PrunedInv /\ Increasing(queue) /\ hand = Waiting /\ queue # << >>
      /\ queue \in Seq(Event) /\ Len(queue) =< QueueSize
      /\ queue' = Tail(queue)
      /\ UNCHANGED <<clock, emitted, dropped, base>>
      /\ emitted \in Nat
    BY DEF FlowInv, Accounted, FlowTypeOK, Take
<1>2. /\ e \in Event /\ e = queue[1] /\ 1 \in DOMAIN queue
      /\ queue' \in Seq(Event) /\ Len(queue') = Len(queue) - 1 /\ Len(queue) \in Nat
      /\ Increasing(queue')
      /\ \A i \in DOMAIN queue' : i + 1 \in DOMAIN queue /\ queue'[i] = queue[i + 1]
      /\ queue' # << >> => e.n < queue'[1].n
    BY <1>1, Rest
<1>3. (\A i \in DOMAIN queue' : queue'[i].n =< emitted) /\ e.n =< emitted
    BY <1>2 DEF FlowInv, NumberedInv
<1>4. Take => \/ \E stage \in {"dns", "cache"} :
                    Wait(stage, e) /\ UNCHANGED <<liveVars, storeVars>>
              \/ Fold(e)
    BY DEF Take
<1> HIDE DEF e
<1>5. ~InHand /\ emitted - base = dropped + Len(queue) + total + ignored
    BY <1>1 DEF FlowInv, Accounted, InHand, FlowTypeOK
<1>6. CASE \E stage \in {"dns", "cache"} : Wait(stage, e) /\ UNCHANGED <<liveVars, storeVars>>
    <2>1. PICK stage \in {"dns", "cache"} :
              hand' = [stage |-> stage, e |-> e] /\ UNCHANGED <<liveVars, storeVars>>
        BY <1>6 DEF Wait
    <2>2. hand' \in Hand /\ hand' # Waiting /\ hand'.stage = stage /\ hand'.e = e
        BY <1>2, <2>1, Holding DEF Stages
    <2>3. UNCHANGED <<total, buckets, ignored, peak, db, view, lastPrune, lastRecord, pruned>>
        BY <2>1 DEF liveVars, storeVars
    <2>4. FlowTypeOK'
        BY <1>1, <1>2, <2>2, <2>3 DEF FlowTypeOK
    <2>5. InHand'
        BY <2>2 DEF InHand
    <2>6. Accounted'
        BY <1>1, <1>2, <1>5, <2>2, <2>3, <2>4, <2>5 DEF Accounted, FlowTypeOK
    <2>7. NumberedInv' /\ PrunedInv'
        BY <1>1, <1>3, <2>2, <2>3 DEF NumberedInv, PrunedInv
    <2>8. QED  BY <2>6, <2>7 DEF FlowInv
<1>7. CASE Fold(e)
    <2>1. /\ total' \in Nat /\ ignored' \in Nat /\ peak' \in Nat
          /\ buckets' \in [Seconds -> Nat]
          /\ total' + ignored' = total + ignored + 1
          /\ db' \subseteq Row /\ view' \subseteq Row
          /\ lastPrune' \in Nat \union {Never} /\ lastRecord' \in Nat \union {Never}
          /\ pruned' \in BOOLEAN /\ PrunedInv'
          /\ hand' \in Hand /\ hand' # Waiting /\ hand'.stage = "outcome" /\ hand'.e = e
        BY <1>1, <1>2, <1>7, FoldKeeps
    <2>2. FlowTypeOK'
        BY <1>1, <1>2, <2>1 DEF FlowTypeOK
    <2>3. ~InHand'
        BY <2>1 DEF InHand
    <2>4. Accounted'
        <3>1. emitted' - base' =
                  dropped' + Len(queue') + (IF InHand' THEN 1 ELSE 0) + total' + ignored'
            <4> DEFINE one == IF InHand' THEN 1 ELSE 0
            <4>1. base \in Nat /\ dropped \in Nat /\ total \in Nat /\ ignored \in Nat
                BY <1>1 DEF FlowTypeOK
            <4>2. one = 0
                BY <2>3
            <4>3. emitted - base = dropped + Len(queue) + total + ignored
                BY <1>5
            <4>4. Len(queue) \in Nat /\ Len(queue') = Len(queue) - 1 /\ emitted \in Nat
                BY <1>1, <1>2
            <4>5. total' \in Nat /\ ignored' \in Nat /\ total' + ignored' = total + ignored + 1
                BY <2>1
            <4>6. emitted' = emitted /\ base' = base /\ dropped' = dropped
                BY <1>1
            <4> HIDE DEF one
            <4>7. emitted' - base' = dropped' + Len(queue') + one + total' + ignored'
                <5>1. PICK t \in Nat, i \in Nat, q \in Int :
                          t = total' /\ i = ignored' /\ q = Len(queue')
                    <6>1. Len(queue') \in Int
                        BY <4>4
                    <6>2. total' \in Nat /\ ignored' \in Nat
                        BY <4>5
                    <6>3. QED  BY <6>1, <6>2
                <5>2. t + i = total + ignored + 1 /\ q = Len(queue) - 1
                    BY <4>4, <4>5, <5>1
                <5>3. emitted - base = dropped + q + 0 + t + i
                    BY <4>1, <4>3, <4>4, <5>2
                <5>4. QED  BY <4>2, <4>6, <5>1, <5>3
            <4>8. QED  BY <4>7 DEF one
        <3>2. QED  BY <1>2, <2>1, <2>2, <3>1 DEF Accounted
    <2>5. NumberedInv'
        BY <1>1, <1>3, <2>1 DEF NumberedInv
    <2>6. QED  BY <2>1, <2>4, <2>5 DEF FlowInv
<1>8. QED  BY <1>4, <1>6, <1>7

\* A step of the lookup, which ends in another one.
LEMMA LookupKeeps ==
    ASSUME FlowInv, hand # Waiting, hand.stage # "outcome",
           NEW stage \in Stages \ {"outcome"}, Wait(stage, hand.e), LookupStep
    PROVE  FlowInv'
<1>1. hand.e \in Event
    BY Held DEF FlowInv, Accounted, FlowTypeOK
<1>2. hand' \in Hand /\ hand' # Waiting /\ hand'.stage = stage /\ hand'.e = hand.e
    BY <1>1, Holding DEF Wait
<1>3. UNCHANGED <<clock, emitted, queue, dropped, base, total, buckets, ignored, peak,
                  db, view, lastPrune, lastRecord, pruned>>
    BY DEF LookupStep, liveVars, storeVars
<1>4. InHand /\ InHand'
    BY <1>2 DEF InHand
<1>5. QED  BY <1>2, <1>3, <1>4 DEF FlowInv, Accounted, FlowTypeOK, NumberedInv, PrunedInv

LEMMA RecordKeeps ==
    ASSUME FlowInv, Record
    PROVE  FlowInv'
<1>1. /\ FlowTypeOK /\ PrunedInv /\ Fold(hand.e)
      /\ UNCHANGED <<clock, emitted, queue, dropped, base>>
    BY DEF FlowInv, Accounted, Record
<1>2. hand # Waiting /\ hand.stage # "outcome"
    BY DEF Record, Waiting
<1>3. hand.e \in Event
    BY <1>1, <1>2, Held DEF FlowTypeOK
<1>4. /\ total' \in Nat /\ ignored' \in Nat /\ peak' \in Nat
      /\ buckets' \in [Seconds -> Nat]
      /\ total' + ignored' = total + ignored + 1
      /\ db' \subseteq Row /\ view' \subseteq Row
      /\ lastPrune' \in Nat \union {Never} /\ lastRecord' \in Nat \union {Never}
      /\ pruned' \in BOOLEAN /\ PrunedInv'
      /\ hand' \in Hand /\ hand' # Waiting /\ hand'.stage = "outcome" /\ hand'.e = hand.e
    BY <1>1, <1>3, FoldKeeps
<1>5. FlowTypeOK'
    BY <1>1, <1>4 DEF FlowTypeOK
<1>6. InHand /\ ~InHand'
    BY <1>2, <1>4 DEF InHand
<1>7. Len(queue) \in Nat
    BY <1>1 DEF FlowTypeOK
<1>8. Accounted'
    <2>1. emitted' - base' =
              dropped' + Len(queue') + (IF InHand' THEN 1 ELSE 0) + total' + ignored'
        <3> DEFINE one == IF InHand' THEN 1 ELSE 0
        <3>1. emitted - base = dropped + Len(queue) + 1 + total + ignored
            BY <1>6 DEF FlowInv, Accounted
        <3>2. /\ emitted \in Nat /\ base \in Nat /\ dropped \in Nat
              /\ total \in Nat /\ ignored \in Nat
            BY <1>1 DEF FlowTypeOK
        <3>3. emitted' = emitted /\ base' = base /\ dropped' = dropped /\ queue' = queue
            BY <1>1
        <3>4. total' \in Nat /\ ignored' \in Nat /\ total' + ignored' = total + ignored + 1
            BY <1>4
        <3>5. one = 0
            BY <1>6
        <3> HIDE DEF one
        <3>6. emitted' - base' = dropped' + Len(queue') + one + total' + ignored'
            <4>1. PICK t \in Nat, i \in Nat : t = total' /\ i = ignored'
                BY <3>4
            <4>2. t + i = total + ignored + 1
                BY <3>4, <4>1
            <4>3. emitted - base = dropped + Len(queue) + 0 + t + i
                BY <1>7, <3>1, <3>2, <4>2
            <4>4. QED  BY <3>3, <3>5, <4>1, <4>3
        <3>7. QED  BY <3>6 DEF one
    <2>2. Increasing(queue)' /\ (hand # Waiting /\ queue # << >> => hand.e.n < queue[1].n)'
        BY <1>1, <1>2, <1>4 DEF FlowInv, Accounted, Increasing
    <2>3. QED  BY <1>5, <2>1, <2>2 DEF Accounted
<1>9. NumberedInv'
    BY <1>1, <1>2, <1>4 DEF FlowInv, NumberedInv
<1>10. QED  BY <1>4, <1>8, <1>9 DEF FlowInv

LEMMA OutcomeKeeps ==
    ASSUME FlowInv, Outcome
    PROVE  FlowInv'
<1>1. hand.stage = "outcome" /\ hand' = Waiting
    BY DEF Outcome
<1>2. UNCHANGED <<clock, emitted, queue, dropped, base, total, buckets, ignored, peak,
                  db, view, lastPrune, lastRecord, pruned>>
    BY DEF Outcome, liveVars, storeVars
<1>3. ~InHand /\ ~InHand' /\ hand' \in Hand
    BY <1>1 DEF InHand, Hand
<1>4. QED  BY <1>1, <1>2, <1>3 DEF FlowInv, Accounted, FlowTypeOK, NumberedInv, PrunedInv

LEMMA FlowRestartKeeps ==
    ASSUME FlowInv, Restart
    PROVE  FlowInv'
<1> USE FlowSettings
<1>1. FlowTypeOK'
    <2>1. << >> \in Seq(Event) /\ Len(<< >>) = 0
        OBVIOUS
    <2>2. buckets' \in [Seconds -> Nat] /\ hand' \in Hand
        BY DEF Restart, Hand
    <2>3. FlowTypeOK /\ Restart
        BY DEF FlowInv, Accounted
    <2>4. base' \in 0 .. emitted' /\ emitted' \in 0 .. MaxEvents
        BY <2>3 DEF Restart, FlowTypeOK
    <2>5. queue' = << >> /\ lastPrune' = Never /\ lastRecord' = Never /\ pruned' = FALSE
        BY DEF Restart
    <2>6. queue' \in Seq(Event) /\ Len(queue') =< QueueSize
        BY <2>1, <2>5
    <2>7. /\ clock' \in Seconds /\ db' \subseteq Row /\ view' \subseteq Row
          /\ dropped' \in Nat /\ total' \in Nat /\ ignored' \in Nat /\ peak' \in Nat
        BY <2>3 DEF Restart, FlowTypeOK
    <2>8. QED  BY <2>2, <2>4, <2>5, <2>6, <2>7 DEF FlowTypeOK
<1>2. Accounted' /\ NumberedInv'
    BY <1>1 DEF Restart, Accounted, NumberedInv, Increasing, InHand, FlowTypeOK
<1>3. PrunedInv'
    BY DEF FlowInv, Accounted, FlowTypeOK, Seconds, Restart, PrunedInv
<1>4. QED  BY <1>2, <1>3 DEF FlowInv

LEMMA FlowTickKeeps ==
    ASSUME FlowInv, FlowTick
    PROVE  FlowInv'
<1> USE FlowSettings
<1>1. /\ clock' = clock + 1 /\ clock' \in Seconds /\ clock \in Nat
      /\ UNCHANGED <<emitted, queue, hand, dropped, base, total, buckets, ignored, peak,
                     db, view, lastPrune, lastRecord, pruned>>
    BY DEF FlowInv, Accounted, FlowTypeOK, Seconds, FlowTick, liveVars, storeVars
<1>2. Accounted'
    BY <1>1 DEF FlowInv, Accounted, FlowTypeOK, InHand
<1>3. NumberedInv' /\ PrunedInv'
    BY <1>1 DEF FlowInv, Accounted, FlowTypeOK, NumberedInv, PrunedInv
<1>4. QED  BY <1>2, <1>3 DEF FlowInv

LEMMA FlowInductive == FlowInv /\ [FlowNext]_flowVars => FlowInv'
<1> SUFFICES ASSUME FlowInv, [FlowNext]_flowVars
             PROVE  FlowInv'
    OBVIOUS
<1>1. ASSUME NEW probe \in BOOLEAN, Emit(probe) PROVE FlowInv'
    BY <1>1, EmitKeeps
<1>2. CASE Take
    BY <1>2, TakeKeeps
<1>3. CASE Reverse \/ FindLocally \/ AskProvider \/ ProviderAnswers
    <2>1. hand # Waiting /\ hand.stage # "outcome" /\ LookupStep
        BY <1>3 DEF Reverse, FindLocally, AskProvider, ProviderAnswers, Waiting
    <2>2. \E stage \in {"cache", "write", "http"} : Wait(stage, hand.e)
        BY <1>3 DEF Reverse, FindLocally, AskProvider, ProviderAnswers
    <2>3. QED  BY <2>1, <2>2, LookupKeeps DEF Stages
<1>4. CASE Record
    BY <1>4, RecordKeeps
<1>5. CASE Outcome
    BY <1>5, OutcomeKeeps
<1>6. CASE Restart
    BY <1>6, FlowRestartKeeps
<1>7. CASE FlowTick
    BY <1>7, FlowTickKeeps
<1>8. CASE UNCHANGED flowVars
    <2>1. UNCHANGED <<clock, emitted, queue, hand, dropped, base, total, buckets, ignored,
                      peak, db, view, lastPrune, lastRecord, pruned>>
        BY <1>8 DEF flowVars, liveVars, storeVars
    <2>2. QED
        BY <2>1 DEF FlowInv, Accounted, FlowTypeOK, InHand, NumberedInv, PrunedInv
<1>9. QED
    BY <1>1, <1>2, <1>3, <1>4, <1>5, <1>6, <1>7, <1>8 DEF FlowNext, Consume

\* The inductive invariant of the telemetry: its events are counted, in order and
\* numbered, and the history is as young as its last pruning left it.
THEOREM FlowHolds == FlowSpec => []FlowInv
<1>1. QED  BY FlowInitially, FlowInductive, PTL DEF FlowSpec

\* Every event emitted since the start is counted once, whatever is dropped and
\* whatever fails, for any size of the queue and any number of events
\* (telemetry.py, emit and _consume).
THEOREM EventsAccounted == FlowSpec => []Accounted
<1>1. FlowInv => Accounted
    BY DEF FlowInv
<1>2. QED  BY <1>1, FlowHolds, PTL

\* No row outlives its retention by more than the time between two prunings, for
\* any retention, while prunings succeed (telemetry_store.py, _maybe_prune).
THEOREM RetentionHolds == FlowSpec => []RetentionBound
<1>1. FlowInv => RetentionBound
    <2> SUFFICES ASSUME FlowInv, pruned, NEW row \in view
                 PROVE  row.ts >= lastRecord - Retention - PruneEvery
        BY DEF RetentionBound
    <2>1. row.ts \in Nat /\ lastRecord \in Int /\ lastPrune \in Int
        BY FlowSettings DEF FlowInv, Accounted, FlowTypeOK, Row
    <2>2. row.ts >= lastPrune - Retention /\ lastRecord =< lastPrune + PruneEvery
        BY DEF FlowInv, PrunedInv
    <2>3. QED  BY <2>1, <2>2, FlowSettings
<1>2. QED  BY <1>1, FlowHolds, PTL

\* No second has seen more events than the busiest one.
PeakInv == \A s \in Seconds : buckets[s] =< peak

\* The figures only count an event in the second of the clock, and remember how
\* busy that made it.
LEMMA PeakKept ==
    ASSUME FlowInv, PeakInv, [FlowNext]_flowVars
    PROVE  PeakInv'
<1>1. /\ buckets \in [Seconds -> Nat] /\ peak \in Nat /\ clock \in Seconds
    BY DEF FlowInv, Accounted, FlowTypeOK
<1>2. ASSUME NEW e, Fold(e)
      PROVE  PeakInv'
    <2>1. CASE e.probe
        BY <1>2, <2>1 DEF Fold, RecordLive, PeakInv
    <2>2. CASE ~e.probe
        <3> DEFINE n == Bumped[clock]
        <3>1. /\ Bumped \in [Seconds -> Nat] /\ n = buckets[clock] + 1
              /\ \A s \in Seconds : Bumped[s] = n \/ Bumped[s] = buckets[s]
            BY <1>1 DEF Bumped
        <3>2. peak' = Max({peak, n}) /\ buckets' = Trimmed(Bumped)
            BY <1>2, <2>2 DEF Fold, RecordLive
        <3> HIDE DEF n
        <3>3. peak' \in Nat /\ peak' >= peak /\ peak' >= n
            BY <1>1, <3>1, <3>2, TwoNumbers
        <3>4. ASSUME NEW s \in Seconds PROVE buckets'[s] =< peak'
            <4>1. buckets'[s] = 0 \/ buckets'[s] = Bumped[s]
                BY <3>2 DEF Trimmed
            <4>2. Bumped[s] =< peak'
                BY <1>1, <3>1, <3>3 DEF PeakInv
            <4>3. QED  BY <3>3, <4>1, <4>2
        <3>5. QED  BY <3>4 DEF PeakInv
    <2>3. QED  BY <2>1, <2>2
<1>3. CASE UNCHANGED <<buckets, peak>>
    BY <1>3 DEF PeakInv
<1>4. CASE Restart
    BY <1>4 DEF Restart, PeakInv
<1>5. CASE Take
    BY <1>2, <1>3, <1>5 DEF Take, liveVars
<1>6. CASE Record
    BY <1>2, <1>6 DEF Record
<1>7. QED
    BY <1>3, <1>4, <1>5, <1>6 DEF FlowNext, Consume, Emit, Reverse, FindLocally,
       AskProvider, ProviderAnswers, LookupStep, Outcome, FlowTick, flowVars, liveVars

\* The dashboard never shows a higher rate than the busiest second saw, but for
\* the one second that its buckets exceed the window by, for any window and any
\* number of events (livestats.py, _trim_buckets and _current_rate).
THEOREM RateHolds == FlowSpec => []RateBound
<1>1. FlowInv /\ PeakInv => RateBound
    <2> SUFFICES ASSUME FlowInv, PeakInv, RateTotal > 0
                 PROVE  RateTotal * Window =< peak * (Window + 1) * RateSpan
        BY DEF RateBound
    <2> DEFINE b == Trimmed(buckets)
               live == {s \in Seconds : b[s] > 0}
               oldest == Min(live)
               long == clock - oldest + 1
    <2>1. /\ buckets \in [Seconds -> Nat] /\ peak \in Nat /\ clock \in Seconds /\ clock \in Nat
          /\ \A s \in Seconds : s \in Nat
        BY FlowSettings DEF FlowInv, Accounted, FlowTypeOK, Seconds
    <2>2. /\ b \in [Seconds -> Nat]
          /\ \A s \in Seconds : b[s] = IF s \in (clock - Window) .. clock THEN buckets[s] ELSE 0
        BY <2>1 DEF Trimmed
    <2> HIDE DEF b
    <2>3. \A s \in Seconds : b[s] =< peak
        BY <2>1, <2>2 DEF PeakInv
    <2>4. \A s \in live : s \in Nat /\ clock - Window =< s /\ s =< clock
        BY <2>1, <2>2, FlowSettings
    <2>5. live # {}
        <3> SUFFICES ASSUME live = {} PROVE FALSE
            OBVIOUS
        <3>1. \A s \in Seconds : b[s] \in Nat /\ b[s] =< 0
            BY <2>2
        <3>2. \A s \in Seconds : b[s] > 0 => 0 =< s /\ s =< 0
            BY <3>1
        <3>3. RateSums(b)[MaxClock] =< 0 * (0 - 0 + 1)
            BY <2>2, <3>1, <3>2, SumsBound
        <3>4. RateTotal =< 0
            BY <3>3 DEF RateTotal, b
        <3>5. RateTotal \in Nat
            BY <2>2, <3>1, <3>2, SumsBound DEF RateTotal, b
        <3>6. QED  BY <3>4, <3>5
    <2>6. oldest \in live /\ \A s \in live : oldest =< s
        <3>1. live \subseteq Nat
            BY <2>4
        <3> HIDE DEF live
        <3>2. QED  BY <2>5, <3>1, Least
    <2> HIDE DEF oldest
    <2>7. oldest \in Nat /\ oldest =< clock /\ long \in Nat /\ long >= 1 /\ long =< Window + 1
        BY <2>1, <2>4, <2>6, FlowSettings
    <2>8. RateTotal \in Nat /\ RateTotal =< peak * long
        <3>1. \A s \in Seconds : b[s] > 0 => oldest =< s /\ s =< clock
            BY <2>4, <2>6
        <3>2. RateSums(b)[MaxClock] \in Nat /\ RateSums(b)[MaxClock] =< peak * long
            BY <2>1, <2>2, <2>3, <2>7, <3>1, SumsBound
        <3>3. QED  BY <3>2 DEF RateTotal, b
    <2>9. RateSpan = IF long =< Window THEN long ELSE Window
        <3>1. RateSpan = Max({1, Min({Window, long})})
            BY DEF RateSpan, long, oldest, live, b
        <3> HIDE DEF long
        <3>2. Min({Window, long}) = IF Window =< long THEN Window ELSE long
            BY <2>7, FlowSettings, TwoNumbers
        <3>3. QED  BY <2>7, <3>1, <3>2, FlowSettings, TwoNumbers
    <2> HIDE DEF live, long
    <2>10. RateTotal * Window =< (peak * long) * Window
        BY <2>1, <2>7, <2>8, FlowSettings
    <2>11. CASE long =< Window
        <3>1. RateSpan = long
            BY <2>9, <2>11
        <3>2. (peak * long) * Window =< (peak * (Window + 1)) * long
            BY <2>1, <2>7, FlowSettings
        <3>3. QED  BY <2>1, <2>7, <2>8, <2>10, <3>1, <3>2, FlowSettings
    <2>12. CASE long = Window + 1
        <3>1. RateSpan = Window
            BY <2>7, <2>9, <2>12, FlowSettings
        <3>2. QED  BY <2>10, <2>12, <3>1
    <2>13. QED  BY <2>7, <2>11, <2>12, FlowSettings
<1>2. FlowInit => PeakInv
    BY DEF FlowInit, Started, PeakInv
<1>3. PeakInv /\ FlowInv /\ [FlowNext]_flowVars => PeakInv'
    BY PeakKept
<1>4. FlowSpec => []PeakInv
    BY <1>2, <1>3, FlowHolds, PTL DEF FlowSpec
<1>5. QED  BY <1>1, <1>4, FlowHolds, PTL

===============================================================================
