------------------------------ MODULE Reports ------------------------------
(* Usage reports (telemetry/analytics.ts, telemetry/mongo.ts and the         *)
(* aggregates of telemetry/telemetry.ts): the same events are summed twice,  *)
(* in the process and by MongoDB's pipelines. A model is a record of its     *)
(* connection and its name. What is in the window of memory, and when the    *)
(* database can be asked at all, is module Telemetry.                        *)
EXTENDS Integers, Sequences, SequencesExt

CONSTANTS
    HOUR, DAY,        \* HOUR_MS, DAY_MS
    None,             \* an absent field, an unknown price, no filter
    Shapes,           \* what a call can be: [model, agent, caller, operation,
                      \*   tokens, latency, error, rate]
    Queries,          \* what is asked: [from, to, model, provider, caller]
    MAX_MODELS,       \* maxModels of the process' aggregates
    LastTime, MaxEvents   \* bounds of the run

ASSUME ReportsAssumption ==
    /\ HOUR \in Nat \ {0} /\ DAY \in Nat \ {0} /\ MAX_MODELS \in Nat \ {0}
    /\ \A s \in Shapes : /\ s.tokens \in Nat /\ s.latency \in Nat /\ s.error \in BOOLEAN
                         /\ s.rate \in Nat \cup {None} /\ s.operation # "error"
    /\ \A q \in Queries : q.from \in Nat /\ q.to \in Nat

VARIABLES
    events,    \* analyticsEvents, complete here
    docs,      \* the collection telemetry_events
    byModel,   \* the aggregates of the process: key -> row
    totals

reportVars == <<events, docs, byModel, totals>>

Sum(S, val(_)) == SumFunctionOnSet([x \in S |-> val(x)], S)
Floor(t, n) == (t \div n) * n
Rounded(total, n) == IF n > 0 THEN (2 * total + n) \div (2 * n) ELSE 0

-----------------------------------------------------------------------------
(* One event: recordChat *)

Event(shape, t) ==
    [time |-> t, model |-> shape.model, agent |-> shape.agent,
     caller |-> shape.caller, tokens |-> shape.tokens,
     latency |-> shape.latency, operation |-> shape.operation,
     error |-> shape.error,
     type |-> IF shape.error THEN "error" ELSE shape.operation,
     cost |-> IF shape.error \/ shape.rate = None THEN None
              ELSE shape.tokens * shape.rate]

Unattributed == <<"unattributed">>

CallerOf(e) ==
    IF e.caller # None THEN e.caller
    ELSE IF e.agent # None THEN [id |-> <<"agent", e.agent>>, name |-> e.agent]
    ELSE [id |-> Unattributed, name |-> "Unattributed"]

Fact(e, interval) ==
    [bucket |-> Floor(e.time, interval), model |-> e.model,
     caller |-> CallerOf(e), operation |-> e.operation,
     requests |-> 1, errors |-> IF e.error THEN 1 ELSE 0,
     tokens |-> e.tokens,
     cost |-> IF e.cost = None THEN 0 ELSE e.cost,
     priced |-> IF e.cost = None THEN 0 ELSE 1,
     latency |-> IF e.error THEN 0 ELSE e.latency, lastSeen |-> e.time]

(* MongoDB: documents, and the pipeline of queryAnalytics *)

Document(e) ==
    [time |-> e.time, model |-> e.model, agent |-> e.agent, type |-> e.type,
     caller |-> e.caller, tokens |-> e.tokens, latency |-> e.latency,
     operation |-> e.operation, error |-> e.error, cost |-> e.cost]

\* Variant: a missing price is stored as a price of zero.
PricedAlways(d) == TRUE

Priced(d) == d.cost # None

Stamp(d, interval) ==
    [bucket |-> Floor(d.time, interval), model |-> d.model,
     caller |-> CallerOf(d), operation |-> d.operation]

Grouped(g, interval, found) ==
    LET ds == {d \in found : Stamp(d, interval) = g}
        failed(d) == d.type = "error" \/ d.error
    IN [bucket |-> g.bucket, model |-> g.model, caller |-> g.caller,
        operation |-> g.operation, requests |-> Cardinality(ds),
        errors |-> Cardinality({d \in ds : failed(d)}),
        tokens |-> Sum(ds, LAMBDA d : d.tokens),
        cost |-> Sum({d \in ds : Priced(d) /\ d.cost # None}, LAMBDA d : d.cost),
        priced |-> Cardinality({d \in ds : Priced(d)}),
        latency |-> Sum({d \in ds : ~failed(d)}, LAMBDA d : d.latency),
        lastSeen |-> Max({d.time : d \in ds})]

-----------------------------------------------------------------------------
(* Facts of a query, from both sources: functions whose indices give their   *)
(* order.                                                                    *)

BucketOf(q) == IF q.to - q.from <= 2 * DAY THEN HOUR ELSE DAY

InWindow(t, q) == q.from <= t /\ t < q.to

MemoryFacts(q) ==
    [i \in {i \in DOMAIN events : InWindow(events[i].time, q)} |->
        Fact(events[i], BucketOf(q))]

Earlier(f, g) ==
    f.bucket < g.bucket \/ (f.bucket = g.bucket /\ f.lastSeen < g.lastSeen)

SinkRows(q) ==
    LET found == {d \in docs : InWindow(d.time, q)}
    IN {Grouped(g, BucketOf(q), found) : g \in {Stamp(d, BucketOf(q)) : d \in found}}

\* $sort: a row's index is the number of rows before it.
Ranks(rows) == [r \in rows |-> Cardinality({s \in rows : Earlier(s, r)})]

SinkFacts(q) ==
    LET rows  == SinkRows(q)
        ranks == Ranks(rows)
    IN [i \in {ranks[r] : r \in rows} |-> CHOOSE r \in rows : ranks[r] = i]

-----------------------------------------------------------------------------
(* buildAnalytics: S are the indices of the facts that are added up *)

Matches(f, q) == /\ q.model \in {None, f.model}
                 /\ q.provider \in {None, f.model.provider}
                 /\ q.caller \in {None, f.caller.id}

Metrics(facts, S) ==
    LET requests == Sum(S, LAMBDA i : facts[i].requests)
        errors   == Sum(S, LAMBDA i : facts[i].errors)
    IN [requests |-> requests, errors |-> errors,
        tokens  |-> Sum(S, LAMBDA i : facts[i].tokens),
        cost    |-> Sum(S, LAMBDA i : facts[i].cost),
        priced  |-> Sum(S, LAMBDA i : facts[i].priced),
        latency |-> Rounded(Sum(S, LAMBDA i : facts[i].latency), requests - errors)]

\* A breakdown: one row for each key; lastSeen is part of the row.
By(facts, S, key(_)) ==
    [k \in {key(facts[i]) : i \in S} |->
        LET rows == {i \in S : key(facts[i]) = k}
        IN [metrics |-> Metrics(facts, rows),
            lastSeen |-> Max({facts[i].lastSeen : i \in rows})]]

\* A renamed caller shows the name it was last seen with (>= : the last of equals).
NameOf(facts, S, id) ==
    LET rows == {i \in S : facts[i].caller.id = id}
        last == Max({facts[i].lastSeen : i \in rows})
    IN facts[Max({i \in rows : facts[i].lastSeen = last})].caller.name

Buckets(q) == {b \in Floor(q.from, BucketOf(q)) .. q.to - 1 : b % BucketOf(q) = 0}

Build(facts, q) ==
    LET S   == {i \in DOMAIN facts : Matches(facts[i], q)}
        ids == {facts[i].caller.id : i \in S}
    IN [totals      |-> Metrics(facts, S),
        models      |-> By(facts, S, LAMBDA f : f.model),
        providers   |-> By(facts, S, LAMBDA f : f.model.provider),
        callers     |-> By(facts, S, LAMBDA f : f.caller.id),
        operations  |-> By(facts, S, LAMBDA f : f.operation),
        names       |-> [id \in ids |-> NameOf(facts, S, id)],
        active      |-> Cardinality(ids \ {Unattributed}),
        series      |-> [b \in Buckets(q) |->
                            Metrics(facts, {i \in S : facts[i].bucket = b})],
        options     |-> [models  |-> {facts[i].model : i \in DOMAIN facts},
                         callers |-> {facts[i].caller.id : i \in DOMAIN facts}]]

-----------------------------------------------------------------------------
(* The totals of the process and the summary, from both sources *)

NoUsage == [requests |-> 0, errors |-> 0, tokens |-> 0, latency |-> 0]

With(row, e) ==
    [requests |-> row.requests + 1, errors |-> row.errors + (IF e.error THEN 1 ELSE 0),
     tokens |-> row.tokens + e.tokens,
     latency |-> row.latency + (IF e.error THEN 0 ELSE e.latency)]

Overflow == [provider |-> "other", name |-> "(other)"]

KeyFor(m) == IF m \in DOMAIN byModel \/ Cardinality(DOMAIN byModel) < MAX_MODELS
             THEN m ELSE Overflow

Aggregate(e) ==
    LET key == KeyFor(e.model)
        old == IF key \in DOMAIN byModel THEN byModel[key] ELSE NoUsage
    IN /\ totals' = With(totals, e)
       /\ byModel' = [m \in DOMAIN byModel \cup {key} |->
                         IF m = key THEN With(old, e) ELSE byModel[m]]

Average(row) == Rounded(row.latency, row.requests - row.errors)

Summary ==
    [requests |-> totals.requests, errors |-> totals.errors,
     tokens |-> totals.tokens, average |-> Average(totals)]

SinkRow(m) ==
    LET ds == {d \in docs : d.model = m}
    IN [requests |-> Cardinality(ds), errors |-> Cardinality({d \in ds : d.error}),
        tokens |-> Sum(ds, LAMBDA d : d.tokens),
        latency |-> Sum({d \in ds : ~d.error}, LAMBDA d : d.latency)]

\* The totals are summed over the rows, whose averages are already rounded.
SinkSummary ==
    LET rows     == {d.model : d \in docs}
        requests == Sum(rows, LAMBDA m : SinkRow(m).requests)
        errors   == Sum(rows, LAMBDA m : SinkRow(m).errors)
        weighted == Sum(rows, LAMBDA m : Average(SinkRow(m))
                                 * (SinkRow(m).requests - SinkRow(m).errors))
    IN [requests |-> requests, errors |-> errors,
        tokens   |-> Sum(rows, LAMBDA m : SinkRow(m).tokens),
        average  |-> Rounded(weighted, requests - errors)]

-----------------------------------------------------------------------------
ReportsInit ==
    /\ events = <<>>
    /\ docs = {}
    /\ byModel = [m \in {} |-> NoUsage]
    /\ totals = NoUsage

\* recordChat, and the batch with this event reaches the collection.
RecordCall(shape, t) ==
    LET e == Event(shape, t)
    IN /\ Len(events) < MaxEvents
       /\ \A i \in DOMAIN events : events[i].time < t
       /\ Aggregate(e)
       /\ events' = Append(events, e)
       /\ docs' = docs \cup {Document(e)}

ReportsNext == \E shape \in Shapes, t \in 0 .. LastTime : RecordCall(shape, t)

ReportsSpec == ReportsInit /\ [][ReportsNext]_reportVars

-----------------------------------------------------------------------------
(* The dashboard shows one report whichever source answered: analytics()     *)
(* falls back to memory when the database cannot be trusted, and the numbers *)
(* must not jump. Totals, every breakdown, the callers' names, the series    *)
(* and the filter options agree between the grouped facts of MongoDB and the *)
(* facts of memory, for every query.                                         *)
SourcesAgree == \A q \in Queries : Build(SinkFacts(q), q) = Build(MemoryFacts(q), q)

(* buildAnalytics drops a fact whose bucket is not in the series without a   *)
(* word (`if (point)`). The chart nevertheless adds up to the totals, and so *)
(* does every breakdown, for windows that start or end inside a bucket too.  *)
ChartAddsUp ==
    \A q \in Queries :
        LET r == Build(MemoryFacts(q), q)
            adds(rows, row(_)) ==
                /\ Sum(rows, LAMBDA x : row(x).requests) = r.totals.requests
                /\ Sum(rows, LAMBDA x : row(x).errors) = r.totals.errors
                /\ Sum(rows, LAMBDA x : row(x).cost) = r.totals.cost
        IN /\ adds(DOMAIN r.series, LAMBDA b : r.series[b])
           /\ adds(DOMAIN r.models, LAMBDA m : r.models[m].metrics)
           /\ adds(DOMAIN r.callers, LAMBDA c : r.callers[c].metrics)

(* The summary of the process and the one of MongoDB count the same requests,*)
(* errors and tokens, also when models beyond the limit were folded into     *)
(* "(other)", and the process' rows add up to its totals. MongoDB's average  *)
(* is made of rounded averages, which moves it by one at most.               *)
SummariesAgree ==
    LET mine == Summary
        sink == SinkSummary
    IN /\ mine.requests = sink.requests
       /\ mine.errors = sink.errors
       /\ mine.tokens = sink.tokens
       /\ mine.average - sink.average \in -1 .. 1
       /\ totals.requests = Sum(DOMAIN byModel, LAMBDA m : byModel[m].requests)
       /\ \A m \in DOMAIN byModel \ {Overflow} : byModel[m] = SinkRow(m)

(* One usage, however it is asked for.                                       *)
ReportsAgree == SourcesAgree /\ ChartAddsUp /\ SummariesAgree
=============================================================================
