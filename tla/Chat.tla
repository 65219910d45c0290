--------------------------------- MODULE Chat ---------------------------------
(***************************************************************************)
(* POST /v1/chat (routes/chat.ts) with the router's reservations           *)
(* (routing/router.ts): planned requests try their candidates in order,    *)
(* streamed or not, against providers that answer, fail or hang, clients   *)
(* that hang up at any moment and a timer per attempt. A client that hangs *)
(* up first has its response destroyed; the close event then aborts the    *)
(* request's signal. Handler code between two awaits is one step.          *)
(***************************************************************************)
EXTENDS Integers, Sequences, FiniteSets, SequencesExt

CONSTANTS
    Streams, Plains,    \* requests with and without "stream": true
    Autos,              \* the ones for model "auto": a selector call comes first
    Orders,             \* candidate lists plan may return (distinct models)
    Selector,           \* the decision model
    NoModel,
    Timed               \* the applicable policy has an attempt timeout

Requests == Streams \cup Plains
Models == UNION {Range(o) : o \in Orders}

ASSUME ChatAssumption ==
    /\ Streams \cap Plains = {} /\ Autos \subseteq Requests
    /\ IsFiniteSet(Requests)
    /\ \A o \in Orders : o \in Seq(Range(o)) /\ o # <<>> /\ IsInjective(o)
    /\ Selector \notin Models /\ NoModel \notin Models \cup {Selector}
    /\ Timed \in BOOLEAN

VARIABLES
    active,         \* the router's active-request counts
    pc, candidates, index,
    planReleased,   \* the plan's reservation was given back
    client,         \* "here", "destroyed" (response only) or "gone" (aborted)
    timer,          \* of the running attempt: "off", "armed" or "fired"
    sentOutput,
    wire,           \* what was written to the response
    ended,          \* the response is complete
    calls, records  \* provider calls started (history); telemetry events

plan == <<candidates, planReleased>>
output == <<sentOutput, wire, ended>>
vars == <<active, pc, plan, index, client, timer, output, calls, records>>

Init ==
    /\ active = [m \in Models |-> 0]
    /\ pc = [r \in Requests |-> "start"]
    /\ candidates = [r \in Requests |-> <<>>]
    /\ index = [r \in Requests |-> 0]
    /\ planReleased = [r \in Requests |-> FALSE]
    /\ client = [r \in Requests |-> "here"]
    /\ timer = [r \in Requests |-> "off"]
    /\ sentOutput = [r \in Requests |-> FALSE]
    /\ wire = [r \in Requests |-> <<>>]
    /\ ended = [r \in Requests |-> FALSE]
    /\ calls = [r \in Requests |-> <<>>]
    /\ records = [r \in Requests |-> <<>>]

Goto(r, stage) == pc' = [pc EXCEPT ![r] = stage]
Running(r) == candidates[r][index[r]]
Event(kind, m) == [kind |-> kind, model |-> m]

Called(r, m) == calls' = [calls EXCEPT ![r] = Append(@, m)]

\* Variant: only answers are recorded.
AnswersRecorded(r, m, how) ==
    records' = [records EXCEPT ![r] = IF how = "ok" THEN Append(@, <<m, how>>) ELSE @]

Recorded(r, m, how) == records' = [records EXCEPT ![r] = Append(@, <<m, how>>)]

\* writes are dropped once the response is destroyed or complete.
Writable(r) == client[r] = "here" /\ ~ended[r]
Written(r, events) == IF Writable(r) THEN wire[r] \o events ELSE wire[r]

\* acquire; the function it returns works once.
Acquired(m) == [active EXCEPT ![m] = @ + 1]
Released(m) == [active EXCEPT ![m] = @ - 1]

-----------------------------------------------------------------------------
(* plan: the selector for "auto", then the candidates and one reservation. *)

Select(r) ==
    /\ r \in Autos /\ pc[r] = "start" /\ client[r] # "gone"
    /\ Called(r, Selector)
    /\ Goto(r, "select")
    /\ UNCHANGED <<active, plan, index, client, timer, output, records>>

\* It chose, or failed, gave no valid target or timed out: then the fallback.
Selected(r) ==
    /\ pc[r] = "select" /\ client[r] # "gone"
    /\ \E how \in {"ok", "error"} : Recorded(r, Selector, how)
    /\ Goto(r, "plan")
    /\ UNCHANGED <<active, plan, index, client, timer, output, calls>>

\* The client's hanging up cancels it (or it had just chosen).
SelectCanceled(r) ==
    /\ pc[r] = "select" /\ client[r] = "gone"
    /\ \E how \in {"ok", "error"} : Recorded(r, Selector, how)
    /\ Goto(r, "closing")
    /\ UNCHANGED <<active, plan, index, client, timer, output, calls>>

Plan(r) ==
    /\ pc[r] = IF r \in Autos THEN "plan" ELSE "start"
    /\ client[r] # "gone"
    /\ \E order \in Orders :
        /\ candidates' = [candidates EXCEPT ![r] = order]
        /\ active' = Acquired(order[1])
    /\ Goto(r, "planned")
    /\ UNCHANGED <<planReleased, index, client, timer, output, calls, records>>

\* Unknown model, routing disabled, no pool member left, settings out of reach.
PlanFails(r) ==
    /\ pc[r] \in {"start", "plan"} /\ client[r] # "gone"
    /\ wire' = [wire EXCEPT ![r] = Written(r, <<Event("refused", NoModel)>>)]
    /\ ended' = [ended EXCEPT ![r] = Writable(r)]
    /\ Goto(r, "closing")
    /\ UNCHANGED <<active, plan, index, client, timer, sentOutput, calls, records>>

PlanCanceled(r) ==
    /\ pc[r] \in {"start", "plan"} /\ client[r] = "gone"
    /\ Goto(r, "closing")
    /\ UNCHANGED <<active, plan, index, client, timer, output, calls, records>>

-----------------------------------------------------------------------------
(* Attempts. *)

\* Variant: only the first attempt has a timer.
ArmedOnce(r) == IF Timed /\ index[r] = 0 THEN "armed" ELSE "off"

\* A timeout without anywhere to go would only abort slow answers.
TimerOf(r) == IF Timed /\ Len(candidates[r]) > 1 THEN "armed" ELSE "off"

\* The i-th attempt begins.
Start(r, i) ==
    /\ index' = [index EXCEPT ![r] = i]
    /\ timer' = [timer EXCEPT ![r] = TimerOf(r)]
    /\ sentOutput' = [sentOutput EXCEPT ![r] = FALSE]
    /\ Called(r, candidates[r][i])
    /\ Goto(r, "attempt")

\* Nobody is there to answer. A stream also looks at the response itself.
ClientGone(r) == IF r \in Streams THEN client[r] # "here" ELSE client[r] = "gone"

\* A stream for "auto" begins with the decision.
FirstAttempt(r) ==
    /\ pc[r] = "planned" /\ ~ClientGone(r)
    /\ Start(r, 1)
    /\ wire' = [wire EXCEPT ![r] =
                  IF r \in Streams \cap Autos
                  THEN Written(r, <<Event("routing", candidates[r][1])>>) ELSE @]
    /\ UNCHANGED <<active, plan, client, ended, records>>

HungUpBefore(r) ==
    /\ pc[r] = "planned" /\ ClientGone(r)
    /\ Goto(r, "closing")
    /\ UNCHANGED <<active, plan, index, client, timer, output, calls, records>>

TimerFires(r) ==
    /\ pc[r] = "attempt" /\ timer[r] = "armed"
    /\ timer' = [timer EXCEPT ![r] = "fired"]
    /\ UNCHANGED <<active, pc, plan, index, client, output, calls, records>>

\* Text from the provider; what was under way still arrives after an abort.
\* A slow generation is no timeout, only a slow start is.
TextDelta(r) ==
    /\ pc[r] = "attempt" /\ r \in Streams
    /\ \A i \in DOMAIN wire[r] :    \* one piece of text stands for all
        wire[r][i] # Event("text-delta", Running(r))
    /\ sentOutput' = [sentOutput EXCEPT ![r] = TRUE]
    /\ wire' = [wire EXCEPT ![r] = Written(r, <<Event("text-delta", Running(r))>>)]
    /\ timer' = [timer EXCEPT ![r] = IF @ = "armed" THEN "off" ELSE @]
    /\ UNCHANGED <<active, pc, plan, index, client, ended, calls, records>>

\* finally: the attempt's reservation, the plan's for the first attempt.
AfterAttempt(r) == Released(Running(r))
PlanReleasedAfter(r) == [planReleased EXCEPT ![r] = @ \/ index[r] = 1]

\* The provider answered.
Answer(r) ==
    IF r \in Streams
    THEN Written(r, <<Event("finish", Running(r)), Event("done", NoModel)>>)
    ELSE Written(r, <<Event("response", Running(r))>>)

AttemptOk(r) ==
    /\ pc[r] = "attempt"
    /\ active' = AfterAttempt(r) /\ planReleased' = PlanReleasedAfter(r)
    /\ timer' = [timer EXCEPT ![r] = "off"]
    /\ Recorded(r, Running(r), "ok")
    /\ wire' = [wire EXCEPT ![r] = Answer(r)]
    /\ ended' = [ended EXCEPT ![r] = Writable(r)]
    /\ Goto(r, "closing")
    /\ UNCHANGED <<candidates, index, client, sentOutput, calls>>

\* Variant: text already sent does not stop failover.
FailsOverAfterText(r) == index[r] < Len(candidates[r]) /\ ~ClientGone(r)

\* Another candidate is tried only while nothing was streamed to a client
\* that is still there.
FailsOver(r) == index[r] < Len(candidates[r]) /\ ~sentOutput[r] /\ ~ClientGone(r)

\* Variant: the attempt that follows reserves nothing.
NotAcquired(r) == AfterAttempt(r)

\* The attempt's reservation goes back and the next candidate's is made.
ActiveAfterFailover(r) ==
    [AfterAttempt(r) EXCEPT ![candidates[r][index[r] + 1]] = @ + 1]

\* The provider failed, the timer fired or the client hung up; the loop goes on.
Failover(r) ==
    /\ pc[r] = "attempt" /\ FailsOver(r)
    /\ active' = ActiveAfterFailover(r) /\ planReleased' = PlanReleasedAfter(r)
    /\ Recorded(r, Running(r), "error")
    /\ wire' = [wire EXCEPT ![r] =
                  IF r \in Streams THEN Written(r, <<Event("failover", Running(r))>>) ELSE @]
    /\ Start(r, index[r] + 1)
    /\ UNCHANGED <<candidates, client, ended>>

ErrorEvents(r) ==
    IF r \in Streams THEN <<Event("error", Running(r)), Event("done", NoModel)>>
    ELSE <<Event("502", Running(r))>>

\* No candidate is left, or none may follow: the error is the answer.
AttemptFails(r) ==
    /\ pc[r] = "attempt" /\ ~FailsOver(r)
    /\ active' = AfterAttempt(r) /\ planReleased' = PlanReleasedAfter(r)
    /\ timer' = [timer EXCEPT ![r] = "off"]
    /\ Recorded(r, Running(r), "error")
    /\ wire' = [wire EXCEPT ![r] = Written(r, ErrorEvents(r))]
    /\ ended' = [ended EXCEPT ![r] = Writable(r)]
    /\ Goto(r, "closing")
    /\ UNCHANGED <<candidates, index, client, sentOutput, calls>>

\* The handler's finally: the plan's reservation, if no attempt gave it back.
AfterHandler(r) ==
    IF candidates[r] = <<>> \/ planReleased[r] THEN active ELSE Released(candidates[r][1])

Close(r) ==
    /\ pc[r] = "closing"
    /\ active' = AfterHandler(r)
    /\ planReleased' = [planReleased EXCEPT ![r] = candidates[r] # <<>>]
    /\ Goto(r, "done")
    /\ UNCHANGED <<candidates, index, client, timer, output, calls, records>>

-----------------------------------------------------------------------------
(* The client. *)

HangUp(r) ==
    /\ client[r] = "here" /\ ~ended[r] /\ pc[r] \notin {"closing", "done"}
    /\ client' = [client EXCEPT ![r] = "destroyed"]
    /\ UNCHANGED <<active, pc, plan, index, timer, output, calls, records>>

CloseEvent(r) ==
    /\ client[r] = "destroyed" /\ pc[r] # "done"
    /\ client' = [client EXCEPT ![r] = "gone"]
    /\ UNCHANGED <<active, pc, plan, index, timer, output, calls, records>>

\* The steps the gateway and an aborted provider call owe.
Handler(r) ==
    \/ Select(r) \/ Plan(r) \/ PlanCanceled(r) \/ FirstAttempt(r) \/ HungUpBefore(r)
    \/ Close(r) \/ TimerFires(r)
Aborted(r) == timer[r] = "fired" \/ client[r] = "gone"
Stopped(r) == Aborted(r) /\ (SelectCanceled(r) \/ Failover(r) \/ AttemptFails(r))

Next ==
    \E r \in Requests :
        \/ Handler(r) \/ PlanFails(r) \/ Selected(r) \/ SelectCanceled(r)
        \/ TextDelta(r) \/ AttemptOk(r) \/ Failover(r) \/ AttemptFails(r)
        \/ HangUp(r) \/ CloseEvent(r)

Spec == Init /\ [][Next]_vars

\* The selector call has a timeout of its own; a provider call only ends when
\* the gateway aborts it.
FairSpec ==
    Spec /\ \A r \in Requests :
        WF_vars(Handler(r)) /\ WF_vars(Selected(r)) /\ WF_vars(Stopped(r))

-----------------------------------------------------------------------------
(* Properties. *)

Kinds(r) == [i \in DOMAIN wire[r] |-> wire[r][i].kind]
At(r, kind) == {i \in DOMAIN wire[r] : wire[r][i].kind = kind}

\* README: least requests counts "streams until they finish". A model's count
\* is the number of requests planned for it or running on it now: nothing a
\* provider, a timer or a client does leaks a reservation or returns it twice.
ReservationsMatch ==
    \A m \in Models : active[m] =
        Cardinality({r \in Requests : pc[r] = "attempt" /\ Running(r) = m})
        + Cardinality({r \in Requests :
            /\ pc[r] \in {"planned", "closing"} /\ candidates[r] # <<>>
            /\ ~planReleased[r] /\ candidates[r][1] = m})

\* README: "Once text has reached the client, no policy switches the stream to
\* another model." A stream ends once, with its verdict and [DONE], and whoever
\* stayed has been answered.
OneModelSpeaks ==
    /\ \A r \in Streams :
          \A i \in At(r, "text-delta") :
              /\ \A j \in At(r, "text-delta") \cup At(r, "finish") :
                    wire[r][j].model = wire[r][i].model
              /\ \A j \in At(r, "failover") : j < i
    /\ \A r \in Requests :
          /\ \A i \in At(r, "done") :
                i = Len(wire[r]) /\ i > 1 /\ wire[r][i - 1].kind \in {"finish", "error"}
          /\ pc[r] = "done" /\ client[r] = "here" =>
                \/ Kinds(r) = <<"refused">>
                \/ IF r \in Streams THEN At(r, "done") # {}
                   ELSE Kinds(r) \in {<<"response">>, <<"502">>}

\* README: "each attempt is recorded in telemetry" - every provider call, the
\* selector's included, has exactly its record, in order, none is made twice.
CallsRecorded ==
    \A r \in Requests :
        /\ IsInjective(calls[r])
        /\ [i \in DOMAIN records[r] |-> records[r][i][1]] =
              SubSeq(calls[r], 1, Len(calls[r])
                        - IF pc[r] \in {"attempt", "select"} THEN 1 ELSE 0)

\* With a timeout and somewhere to fail over to, a provider that hangs does
\* not hold the request: it ends, or has text to show.
AttemptsSettle ==
    \A r \in Requests :
        pc[r] = "attempt" ~> pc[r] = "done" \/ sentOutput[r]
===============================================================================
