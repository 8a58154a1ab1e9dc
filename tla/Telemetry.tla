------------------------------ MODULE Telemetry ------------------------------
(***************************************************************************)
(* The telemetry of Sentinel Gate as the KMS embeds it: requests put their *)
(* event on a bounded queue (telemetry.py, emit), one coroutine takes the  *)
(* events off it, looks their addresses up, folds them into the live       *)
(* figures (livestats.py) and hands them to the history in SQLite          *)
(* (telemetry_store.py), which prunes itself.                              *)
(*                                                                         *)
(* All of it runs on one event loop, so a step is what happens between two *)
(* awaits.  "view" is the table of the history as its connection sees it,  *)
(* "db" what is committed: a statement that was executed before a COMMIT   *)
(* failed is committed with the next one.  Only the awaits of a lookup are *)
(* modelled, not what it finds.  The clock counts whole seconds.           *)
(***************************************************************************)
EXTENDS Integers, Sequences, FiniteSetsExt

CONSTANTS
    QueueSize,    \* settings.telemetry_queue_size
    Window,       \* settings.dashboard_rate_window_seconds
    Retention,    \* settings.telemetry_history_retention_days
    PruneEvery,   \* 3600 seconds
    MaxEvents,    \* bound of the events
    MaxClock      \* bound of the clock

ASSUME FlowAssumption ==
    /\ QueueSize \in Nat \ {0}
    /\ Window \in Nat \ {0}
    /\ Retention \in Nat
    /\ PruneEvery \in Nat \ {0}
    /\ MaxEvents \in Nat
    /\ MaxClock \in Nat

VARIABLES
    clock,
    emitted,     \* events emitted so far; each is known by its number
    queue,       \* TelemetryPipeline._queue
    hand,        \* what the consumer is waiting for, and with which event
    dropped,     \* TelemetryPipeline._dropped
    total,       \* LiveStats._total
    buckets,     \* LiveStats._buckets; 0 where there is none
    db, view,    \* the table connections
    lastPrune,   \* TelemetryStore._last_prune
    base,        \* (history) events emitted before this start of the process
    ignored,     \* (history) probes the consumer has let go since the start
    peak,        \* (history) the most events recorded in one second since then
    lastRecord,  \* (history) the time of the last row that was committed
    pruned       \* (history) whether the last pruning succeeded

liveVars == <<total, buckets, ignored, peak>>
storeVars == <<db, view, lastPrune, lastRecord, pruned>>
flowVars == <<clock, emitted, queue, hand, dropped, base, liveVars, storeVars>>

\* A probe asks a health or monitoring endpoint, which nothing records.
Event == [n : 1 .. MaxEvents, probe : BOOLEAN]
Row == [n : 1 .. MaxEvents, ts : Nat]
Seconds == 0 .. MaxClock

\* "get" waits for an event; "dns", "cache", "http" and "write" for a part of
\* the lookup; "outcome" for the anomaly detector to be told.
Waiting == [stage |-> "get"]
Stages == {"dns", "cache", "http", "write", "outcome"}
Hand == {Waiting} \union [stage : Stages, e : Event]

\* time.time() is far from 0.0, where _last_prune starts.
Never == -PruneEvery

Increasing(s) == \A i, j \in DOMAIN s : i < j => s[i].n < s[j].n

FlowTypeOK ==
    /\ clock \in Seconds
    /\ emitted \in 0 .. MaxEvents
    /\ queue \in Seq(Event) /\ Len(queue) =< QueueSize
    /\ hand \in Hand
    /\ dropped \in Nat /\ total \in Nat /\ ignored \in Nat /\ peak \in Nat
    /\ base \in 0 .. emitted
    /\ buckets \in [Seconds -> Nat]
    /\ db \subseteq Row /\ view \subseteq Row
    /\ lastPrune \in Nat \union {Never}
    /\ lastRecord \in Nat \union {Never}
    /\ pruned \in BOOLEAN

\* The state of a process that has just started.
Started ==
    /\ queue = << >>
    /\ hand = Waiting
    /\ dropped = 0
    /\ total = 0 /\ ignored = 0 /\ peak = 0
    /\ buckets = [s \in Seconds |-> 0]
    /\ lastPrune = Never /\ lastRecord = Never
    /\ pruned = FALSE

FlowInit ==
    /\ clock = 0
    /\ emitted = 0 /\ base = 0
    /\ db = {} /\ view = {}
    /\ Started

-----------------------------------------------------------------------------
(* TelemetryPipeline.emit, called by the middleware for every response *)

\* A full queue drops its oldest event.
Put(e) == IF Len(queue) < QueueSize THEN Append(queue, e) ELSE Append(Tail(queue), e)

Emit(probe) ==
    /\ emitted < MaxEvents
    /\ emitted' = emitted + 1
    /\ queue' = Put([n |-> emitted + 1, probe |-> probe])
    /\ dropped' = IF Len(queue) < QueueSize THEN dropped ELSE dropped + 1
    /\ UNCHANGED <<clock, hand, base, liveVars, storeVars>>

-----------------------------------------------------------------------------
(* LiveStats *)

\* (mutant) one second more is kept
TrimmedLate(b) == [s \in Seconds |-> IF s \in (clock - Window - 1) .. clock THEN b[s] ELSE 0]

\* _trim_buckets
Trimmed(b) == [s \in Seconds |-> IF s \in (clock - Window) .. clock THEN b[s] ELSE 0]

Bumped == [buckets EXCEPT ![clock] = @ + 1]

\* LiveStats.record
RecordLive(e) ==
    IF e.probe
    THEN /\ ignored' = ignored + 1
         /\ UNCHANGED <<total, buckets, peak>>
    ELSE /\ total' = total + 1
         /\ buckets' = Trimmed(Bumped)
         /\ peak' = Max({peak, Bumped[clock]})
         /\ UNCHANGED ignored

\* For each second, the events in the buckets up to it.
RateSums(b) ==
    LET upTo[s \in Seconds] == IF s = 0 THEN b[0] ELSE upTo[s - 1] + b[s]
    IN  upTo

\* _current_rate is the quotient of these two.
RateTotal == RateSums(Trimmed(buckets))[MaxClock]

RateSpan ==
    LET oldest == Min({s \in Seconds : Trimmed(buckets)[s] > 0})
    IN  Max({1, Min({Window, clock - oldest + 1})})

-----------------------------------------------------------------------------
(* TelemetryStore *)

\* (mutant) counted from the pruning before
CutoffEarlier == lastPrune - Retention

Cutoff == clock - Retention

Kept(T) == {row \in T : row.ts >= Cutoff}

Due == clock - lastPrune >= PruneEvery

\* _maybe_prune, when the table holds T: the DELETE and the COMMIT succeed, or
\* one of them does not; _last_prune is set before them.
MaybePrune(T) ==
    \/ /\ ~Due
       /\ view' = T /\ db' = T
       /\ UNCHANGED <<lastPrune, pruned>>
    \/ /\ Due
       /\ view' = Kept(T) /\ db' = Kept(T)
       /\ lastPrune' = clock /\ pruned' = TRUE
    \/ /\ Due
       /\ view' \in {T, Kept(T)} /\ db' = T
       /\ lastPrune' = clock /\ pruned' = FALSE

\* record: the INSERT and its COMMIT succeed, or one of them raises.
RecordRow(e) ==
    LET T == view \union {[n |-> e.n, ts |-> clock]} IN
      \/ /\ ~e.probe
         /\ MaybePrune(T)
         /\ lastRecord' = clock
      \/ /\ ~e.probe
         /\ view' \in {view, T}
         /\ UNCHANGED <<db, lastPrune, lastRecord, pruned>>
      \/ e.probe /\ UNCHANGED storeVars

-----------------------------------------------------------------------------
(* TelemetryPipeline._consume and _enrich *)

Wait(stage, e) == hand' = [stage |-> stage, e |-> e]

\* The part of the loop after the lookup, up to record_outcome.
Fold(e) ==
    /\ RecordLive(e)
    /\ RecordRow(e)
    /\ Wait("outcome", e)

\* An event comes off the queue; its lookup begins, or is switched off.
Take ==
    /\ hand = Waiting
    /\ queue # << >>
    /\ queue' = Tail(queue)
    /\ \/ /\ \E stage \in {"dns", "cache"} : Wait(stage, Head(queue))
          /\ UNCHANGED <<liveVars, storeVars>>
       \/ Fold(Head(queue))
    /\ UNCHANGED <<clock, emitted, dropped, base>>

LookupStep == UNCHANGED <<clock, emitted, queue, dropped, base, liveVars, storeVars>>

\* _reverse_dns has an answer, an error or a time-out; the cache is asked next.
Reverse ==
    /\ hand.stage = "dns"
    /\ Wait("cache", hand.e)
    /\ LookupStep

\* The address is not in the cache, but in the local database, and is cached.
FindLocally ==
    /\ hand.stage = "cache"
    /\ Wait("write", hand.e)
    /\ LookupStep

\* It is in neither, and the provider has not been asked for a while.
AskProvider ==
    /\ hand.stage = "cache"
    /\ Wait("http", hand.e)
    /\ LookupStep

\* (mutant) an answer that is not understood is asked for again
ProviderRetries ==
    /\ hand.stage = "http"
    /\ \E stage \in {"cache", "write"} : Wait(stage, hand.e)
    /\ LookupStep

\* The provider's answer is cached.
ProviderAnswers ==
    /\ hand.stage = "http"
    /\ Wait("write", hand.e)
    /\ LookupStep

\* (mutant) a lookup that fails ends the turn of the loop
RecordSkipped ==
    /\ hand.stage \in {"cache", "http", "write"}
    /\ \/ Fold(hand.e)
       \/ hand.stage # "cache" /\ hand' = Waiting /\ UNCHANGED <<liveVars, storeVars>>
    /\ UNCHANGED <<clock, emitted, queue, dropped, base>>

\* The lookup has ended: the address was in the cache; or was nowhere, and the
\* provider had just been asked; or the last command has succeeded or failed.
Record ==
    /\ hand.stage \in {"cache", "http", "write"}
    /\ Fold(hand.e)
    /\ UNCHANGED <<clock, emitted, queue, dropped, base>>

\* record_outcome returns, or raises and is logged.
Outcome ==
    /\ hand.stage = "outcome"
    /\ hand' = Waiting
    /\ UNCHANGED <<clock, emitted, queue, dropped, base, liveVars, storeVars>>

-----------------------------------------------------------------------------
\* The process stops or dies, and is started again.  stop() cancels the
\* consumer, whose event is lost, and does not empty the queue; close() rolls
\* back what was not committed.
Restart ==
    /\ queue' = << >>
    /\ hand' = Waiting
    /\ dropped' = 0
    /\ total' = 0 /\ ignored' = 0 /\ peak' = 0
    /\ buckets' = [s \in Seconds |-> 0]
    /\ lastPrune' = Never /\ lastRecord' = Never
    /\ pruned' = FALSE
    /\ view' = db
    /\ base' = emitted
    /\ UNCHANGED <<clock, emitted, db>>

FlowTick ==
    /\ clock < MaxClock
    /\ clock' = clock + 1
    /\ UNCHANGED <<emitted, queue, hand, dropped, base, liveVars, storeVars>>

Consume ==
    \/ Take \/ Reverse \/ FindLocally \/ AskProvider \/ ProviderAnswers \/ Record \/ Outcome

FlowNext ==
    \/ \E probe \in BOOLEAN : Emit(probe)
    \/ Consume
    \/ Restart
    \/ FlowTick

\* Every wait of the consumer ends: in a result, an error or a time-out.
FlowFairness == WF_flowVars(Consume)

FlowSpec == FlowInit /\ [][FlowNext]_flowVars /\ FlowFairness

-----------------------------------------------------------------------------
(* Safety *)

InHand == hand # Waiting /\ hand.stage # "outcome"

\* The figures of the dashboard add up, whatever is dropped and whichever
\* lookups, inserts and prunings fail: every event emitted since the process
\* started is counted once, as dropped, recorded or ignored, or is still in the
\* pipeline, whose queue keeps its bound (a part of FlowTypeOK) and where the events
\* stand in the order of their requests.
Accounted ==
    /\ FlowTypeOK
    /\ emitted - base =
          dropped + Len(queue) + (IF InHand THEN 1 ELSE 0) + total + ignored
    /\ Increasing(queue)
    /\ hand # Waiting /\ queue # << >> => hand.e.n < queue[1].n

\* "Old rows are pruned automatically so the file cannot grow without bound"
\* (telemetry_store.py:21): once a row has been written, no older one has
\* outlived its retention by more than the time between two prunings, unless
\* the last pruning failed.
RetentionBound ==
    pruned => \A row \in view : row.ts >= lastRecord - Retention - PruneEvery

\* The published rate is never more than what the busiest second saw, but for
\* the one second by which the buckets exceed the window: it is too high by
\* 1/Window at most, and never because it divides by too little.
RateBound ==
    total > 0 /\ RateTotal > 0 =>
        RateTotal * Window =< peak * (Window + 1) * RateSpan

(* Liveness *)

\* Every event leaves the pipeline, recorded or dropped: no failure of a
\* lookup, of the history or of the detector stops the consumer.
Drained ==
    \A n \in 1 .. MaxEvents :
        LET Inside == \/ \E i \in DOMAIN queue : queue[i].n = n
                      \/ hand # Waiting /\ hand.e.n = n
        IN  Inside ~> ~Inside

=============================================================================
