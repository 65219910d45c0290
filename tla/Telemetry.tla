------------------------------- MODULE Telemetry -------------------------------
(***************************************************************************)
(* The telemetry service of one process (telemetry/telemetry.ts) and its   *)
(* MongoDB sink. Events enter a bounded queue and a bounded ring; flushes  *)
(* run one after the other on a promise chain, ship the whole queue and    *)
(* put it back when the insert fails; readers (usage summaries, analytics  *)
(* reports, stop) wait for the chain before they trust the database. An    *)
(* event is its number, 1 for the first one recorded.                      *)
(***************************************************************************)
EXTENDS Integers, Sequences, FiniteSets, SequencesExt

CONSTANTS
    Readers,            \* calls of summaryFromSink, analytics and stop
    maxPending, maxAnalyticsEvents,
    MaxEvents, MaxChain, MaxFailures, MaxTime     \* bounds of the exploration

ASSUME TelemetryAssumption ==
    /\ maxPending \in Nat \ {0} /\ maxAnalyticsEvents \in Nat \ {0}
    /\ {MaxEvents, MaxChain, MaxFailures, MaxTime} \subseteq Nat

VARIABLES
    now,
    count,          \* events recorded so far
    stamp,          \* when each was recorded
    pending, durableIncomplete,
    dropped,        \* events that left the queue unsent (history)
    chain,          \* flushes scheduled and not finished; the first one may run
    flushing, batch,    \* the running flush: "no", "schema" or "insert"
    lastOk,         \* what the last finished flush answered
    schemaReady, timer,
    perEvent,       \* flushIntervalMs = 0: every event schedules a flush
    stored,         \* the collection
    ring, cursor, coverageFrom,     \* analyticsEvents, its cursor
    kind,           \* which call each reader is: "summary", "report" or "stop"
    phase, waitFor,    \* per reader: where it is, flushes it still waits for
    asked,          \* per reader: the events recorded when it asked
    failures

queue == <<pending, durableIncomplete, dropped>>
flush == <<chain, flushing, batch, lastOk, schemaReady>>
interval == <<perEvent, timer>>
memory == <<ring, cursor, coverageFrom>>
readers == <<kind, phase, waitFor, asked>>

\* The readers by what they call.
Summaries == {r \in Readers : kind[r] = "summary"}
Reports == {r \in Readers : kind[r] = "report"}
Stops == {r \in Readers : kind[r] = "stop"}

telemetryVars == <<now, count, stamp, queue, flush, interval, stored, memory, readers, failures>>

TelemetryInit ==
    /\ now = 0 /\ count = 0 /\ stamp = [e \in 1 .. MaxEvents |-> 0]
    /\ pending = <<>> /\ durableIncomplete = FALSE /\ dropped = {}
    /\ chain = 0 /\ flushing = "no" /\ batch = <<>>
    /\ lastOk = TRUE /\ schemaReady = FALSE
    /\ perEvent \in BOOLEAN /\ timer = ~perEvent
    /\ stored = {}
    /\ ring = <<>> /\ cursor = 1 /\ coverageFrom = 0
    /\ kind \in [Readers -> {"summary", "report", "stop"}]
    /\ phase = [r \in Readers |-> "start"]
    /\ waitFor = [r \in Readers |-> 0] /\ asked = [r \in Readers |-> 0]
    /\ failures = 0

Fails == failures < MaxFailures /\ failures' = failures + 1

-----------------------------------------------------------------------------
(* record: the ring and the queue, both bounded. *)

\* Eviction moves the coverage past the evicted event.
CoverageAfterEviction ==
    IF stamp[ring[cursor]] + 1 > coverageFrom THEN stamp[ring[cursor]] + 1 ELSE coverageFrom

Remember(e) ==
    IF Len(ring) < maxAnalyticsEvents
    THEN ring' = Append(ring, e) /\ UNCHANGED <<cursor, coverageFrom>>
    ELSE /\ ring' = [ring EXCEPT ![cursor] = e]
         /\ cursor' = (cursor % maxAnalyticsEvents) + 1
         /\ coverageFrom' = CoverageAfterEviction

\* The newest maxPending of the events stay.
KeepNewest(events) ==
    SubSeq(events, IF Len(events) > maxPending THEN Len(events) - maxPending + 1 ELSE 1,
           Len(events))

\* Variant: nobody is told that events were dropped.
NotTold(events) == durableIncomplete

IncompleteAfter(events) == durableIncomplete \/ Len(events) > maxPending

\* The queue holds these events, as many as fit.
Keep(events) ==
    /\ pending' = KeepNewest(events)
    /\ durableIncomplete' = IncompleteAfter(events)
    /\ dropped' = dropped \cup (Range(events) \ Range(KeepNewest(events)))

Record ==
    /\ count < MaxEvents
    /\ count' = count + 1
    /\ stamp' = [stamp EXCEPT ![count + 1] = now]
    /\ Remember(count + 1)
    /\ Keep(Append(pending, count + 1))
    /\ IF perEvent THEN chain < MaxChain /\ chain' = chain + 1 ELSE UNCHANGED chain
    /\ UNCHANGED <<now, flushing, batch, lastOk, schemaReady, interval, stored, readers, failures>>

\* The interval's tick, whether or not the last flush is through.
TimerTick ==
    /\ timer /\ chain < MaxChain
    /\ chain' = chain + 1
    /\ UNCHANGED <<now, count, stamp, queue, flushing, batch, lastOk, schemaReady,
                   interval, stored, memory, readers, failures>>

-----------------------------------------------------------------------------
(* flush, on the chain. *)

Waiting(r) == phase[r] \in {"first", "second"}
Due(r) == Waiting(r) /\ waitFor[r] = 0

\* Variant: a flush that failed breaks the chain.
MayStartAfterSuccess == chain > 0 /\ flushing = "no" /\ lastOk

\* The next flush runs after the readers that waited for the last one.
MayStart == chain > 0 /\ flushing = "no"

FlushStart ==
    /\ MayStart /\ \A r \in Readers : ~Due(r)
    /\ flushing' = "schema"
    /\ UNCHANGED <<now, count, stamp, queue, chain, batch, lastOk, schemaReady,
                   interval, stored, memory, readers, failures>>

\* A flush is through: the readers behind it come one flush closer.
FlushEnds(ok) ==
    /\ flushing' = "no" /\ batch' = <<>> /\ lastOk' = ok /\ chain' = chain - 1
    /\ waitFor' = [r \in Readers |-> IF Waiting(r) /\ waitFor[r] > 0
                                     THEN waitFor[r] - 1 ELSE waitFor[r]]
    /\ UNCHANGED <<kind, phase, asked>>

SchemaFails ==
    /\ flushing = "schema" /\ ~schemaReady /\ Fails
    /\ FlushEnds(FALSE)
    /\ UNCHANGED <<now, count, stamp, queue, schemaReady, interval, stored, memory>>

NothingToSend ==
    /\ flushing = "schema" /\ pending = <<>>
    /\ schemaReady' = TRUE
    /\ FlushEnds(TRUE)
    /\ UNCHANGED <<now, count, stamp, queue, interval, stored, memory, failures>>

TakeBatch ==
    /\ flushing = "schema" /\ pending # <<>>
    /\ schemaReady' = TRUE
    /\ batch' = pending /\ pending' = <<>>
    /\ flushing' = "insert"
    /\ UNCHANGED <<now, count, stamp, durableIncomplete, dropped, chain, lastOk,
                   interval, stored, memory, readers, failures>>

\* insertMany; events stored by an earlier attempt are duplicates and count
\* as stored.
InsertLands ==
    /\ flushing = "insert"
    /\ stored' = stored \cup Range(batch)
    /\ FlushEnds(TRUE)
    /\ UNCHANGED <<now, count, stamp, queue, schemaReady, interval, memory, failures>>

\* Variant: a failed batch is not kept.
RequeuedNothing == pending

Requeued == batch \o pending

\* It fails, with any part of the batch written or only its answer lost.
InsertFails ==
    /\ flushing = "insert" /\ Fails
    /\ \E done \in SUBSET Range(batch) : stored' = stored \cup done
    /\ Keep(Requeued)
    /\ FlushEnds(FALSE)
    /\ UNCHANGED <<now, count, stamp, schemaReady, interval, memory>>

-----------------------------------------------------------------------------
(* drain, and who calls it. *)

Ahead == chain

Ask(r) ==
    /\ phase[r] = "start"
    /\ asked' = [asked EXCEPT ![r] = count]
    /\ timer' = (timer /\ r \notin Stops)
    /\ waitFor' = [waitFor EXCEPT ![r] = Ahead]
    /\ phase' = [phase EXCEPT ![r] = "first"]
    /\ UNCHANGED <<now, count, stamp, queue, flush, perEvent, stored, memory, kind, failures>>

\* drain answered: true sends a summary or a report to the database.
Drained(r, ok) ==
    phase' = [phase EXCEPT ![r] = IF r \in Stops THEN IF ok THEN "stopped" ELSE "left"
                            ELSE IF ok THEN "drained" ELSE "memory"]

\* Events are waiting: one more flush, and wait for it.
DrainFlush(r) ==
    /\ phase[r] = "first" /\ waitFor[r] = 0 /\ pending # <<>>
    /\ chain' = chain + 1
    /\ waitFor' = [waitFor EXCEPT ![r] = chain + 1]
    /\ phase' = [phase EXCEPT ![r] = "second"]
    /\ UNCHANGED <<now, count, stamp, queue, flushing, batch, lastOk, schemaReady,
                   interval, stored, memory, kind, asked, failures>>

DrainEnds(r) ==
    /\ Due(r) /\ (phase[r] = "second" \/ pending = <<>>)
    /\ Drained(r, lastOk /\ pending = <<>>)
    /\ UNCHANGED <<now, count, stamp, queue, flush, interval, stored, memory,
                   kind, waitFor, asked, failures>>

\* Variant: a report does not look at what was dropped.
TrustedAnyway(r) == TRUE

\* A report also asks whether events were dropped; a summary does not.
Trusted(r) == r \in Reports => ~durableIncomplete

QuerySink(r) ==
    /\ phase[r] = "drained" /\ Trusted(r)
    /\ phase' = [phase EXCEPT ![r] = "mongodb"]
    /\ UNCHANGED <<now, count, stamp, queue, flush, interval, stored, memory,
                   kind, waitFor, asked, failures>>

Untrusted(r) ==
    /\ phase[r] = "drained" /\ ~Trusted(r)
    /\ phase' = [phase EXCEPT ![r] = "memory"]
    /\ UNCHANGED <<now, count, stamp, queue, flush, interval, stored, memory,
                   kind, waitFor, asked, failures>>

QueryFails(r) ==
    /\ phase[r] = "drained" /\ Trusted(r) /\ Fails
    /\ phase' = [phase EXCEPT ![r] = "memory"]
    /\ UNCHANGED <<now, count, stamp, queue, flush, interval, stored, memory, kind, waitFor, asked>>

Tick ==
    /\ now < MaxTime /\ now' = now + 1
    /\ UNCHANGED <<count, stamp, queue, flush, interval, stored, memory, readers, failures>>

Flush ==
    \/ FlushStart \/ SchemaFails \/ NothingToSend \/ TakeBatch
    \/ InsertLands \/ InsertFails

Read(r) == DrainFlush(r) \/ DrainEnds(r) \/ QuerySink(r) \/ Untrusted(r)

TelemetryNext ==
    \/ Record \/ TimerTick \/ Flush \/ Tick
    \/ \E r \in Readers : Ask(r) \/ Read(r) \/ QueryFails(r)

TelemetrySpec == TelemetryInit /\ [][TelemetryNext]_telemetryVars

\* The process goes on, its timer fires, and the database answers in the end.
TelemetryFairSpec ==
    /\ TelemetrySpec /\ WF_telemetryVars(Flush) /\ WF_telemetryVars(TimerTick)
    /\ \A r \in Readers : WF_telemetryVars(Read(r))

-----------------------------------------------------------------------------
(* Properties. *)

\* An event is stored, on its way, or dropped for want of room; and whoever
\* reads the database is told when any was dropped.
NothingLostSilently ==
    /\ 1 .. count = stored \cup Range(pending) \cup Range(batch) \cup dropped
    /\ ~(dropped \subseteq stored) => durableIncomplete

\* A report counts every event it says it covers. From the database: every one
\* recorded before it was asked for, queued, in flight and dropped ones
\* included. From memory: every one since coverageFrom.
ReportComplete ==
    /\ \A r \in Reports : phase[r] = "mongodb" => 1 .. asked[r] \subseteq stored
    /\ \A e \in 1 .. count : stamp[e] >= coverageFrom => e \in Range(ring)

\* While the interval runs (no stop, and not the Worker's mode), every event is
\* stored once the database answers again, unless it was dropped for want of room.
EventsArrive ==
    \A e \in 1 .. MaxEvents : timer /\ count >= e ~> e \in stored \cup dropped \/ ~timer

\* Nobody who asks for usage waits forever.
ReadersAnswered ==
    \A r \in Readers : phase[r] = "first" ~> phase[r] \in {"mongodb", "memory", "stopped", "left"}

\* summaryFromSink: while the durable store misses events held in memory,
\* "serving its summary would silently under-report".
SummaryComplete ==
    \A r \in Summaries : phase[r] = "mongodb" => 1 .. asked[r] \subseteq stored
===============================================================================
