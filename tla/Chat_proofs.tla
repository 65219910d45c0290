----------------------------- MODULE Chat_proofs -----------------------------
(* What a chat request promises about reservations, the stream and the       *)
(* telemetry, for every number of requests, models and candidates.           *)
EXTENDS Chat, FiniteSetTheorems, SequenceTheorems, TLAPS

Stages == {"start", "select", "plan", "planned", "attempt", "closing", "done"}
Speakers == Models \cup {Selector, NoModel}
Events ==
    [kind : {"routing", "text-delta", "failover", "finish", "error", "done", "response",
             "502", "refused"},
     model : Speakers]
Callees == Models \cup {Selector}

ChatTypeOK ==
    /\ active \in [Models -> Int]
    /\ pc \in [Requests -> Stages]
    /\ candidates \in [Requests -> Orders \cup {<<>>}]
    /\ index \in [Requests -> Nat]
    /\ planReleased \in [Requests -> BOOLEAN]
    /\ client \in [Requests -> {"here", "destroyed", "gone"}]
    /\ timer \in [Requests -> {"off", "armed", "fired"}]
    /\ sentOutput \in [Requests -> BOOLEAN]
    /\ wire \in [Requests -> Seq(Events)]
    /\ ended \in [Requests -> BOOLEAN]
    /\ calls \in [Requests -> Seq(Callees)]
    /\ records \in [Requests -> Seq(Callees \X {"ok", "error"})]

\* Where a request is in its plan. Its first attempt gives the plan's
\* reservation back.
PlanInv(r) ==
    /\ pc[r] \in {"start", "select", "plan"} => candidates[r] = <<>> /\ ~planReleased[r]
    /\ pc[r] = "planned" => candidates[r] \in Orders /\ ~planReleased[r]
    /\ pc[r] = "attempt" =>
          /\ candidates[r] \in Orders
          /\ index[r] \in 1 .. Len(candidates[r])
          /\ planReleased[r] <=> index[r] > 1

\* The model whose count includes request r.
Reserved(r) ==
    IF pc[r] = "attempt" THEN Running(r)
    ELSE IF pc[r] \in {"planned", "closing"} /\ candidates[r] # <<>> /\ ~planReleased[r]
         THEN candidates[r][1] ELSE NoModel
reserved == [r \in Requests |-> Reserved(r)]
Count(holding, m) == Cardinality({r \in Requests : holding[r] = m})
CountsExact == \A m \in Models : active[m] = Count(reserved, m)

\* What is on the wire. Text is that of the running model, and whatever was
\* written of it keeps the request from failing over.
Lines(r) == Len(wire[r])
WireInv(r) ==
    /\ pc[r] \in {"start", "select", "plan", "planned"} => wire[r] = <<>>
    /\ pc[r] \notin {"closing", "done"} => ~ended[r]
    /\ pc[r] = "attempt" /\ r \notin Streams => wire[r] = <<>>
    /\ pc[r] = "attempt" =>
          \A i \in 1 .. Lines(r) :
            /\ wire[r][i].kind \in {"routing", "text-delta", "failover"}
            /\ wire[r][i].kind = "text-delta" => wire[r][i].model = Running(r) /\ sentOutput[r]
    /\ \A i, j \in 1 .. Lines(r) : wire[r][i].kind = "text-delta" =>
          /\ wire[r][j].kind \in {"text-delta", "finish"} => wire[r][j].model = wire[r][i].model
          /\ wire[r][j].kind = "failover" => j < i
    /\ \A i \in 1 .. Lines(r) : wire[r][i].kind = "done" =>
          i = Lines(r) /\ i > 1 /\ wire[r][i - 1].kind \in {"finish", "error"}
    /\ pc[r] \in {"closing", "done"} /\ client[r] = "here" =>
          \/ Lines(r) = 1 /\ wire[r][1].kind = "refused"
          \/ r \in Streams /\ Lines(r) > 0 /\ wire[r][Lines(r)].kind = "done"
          \/ r \notin Streams /\ Lines(r) = 1 /\ wire[r][1].kind \in {"response", "502"}

\* The calls of a request: the selector's for "auto", then the candidates in
\* their order. The last one has no record while it runs.
Before(r) == IF r \in Autos THEN 1 ELSE 0
Open(r) == IF pc[r] \in {"attempt", "select"} THEN 1 ELSE 0
CallsInv(r) ==
    /\ pc[r] = "start" => calls[r] = <<>>
    /\ pc[r] \in {"select", "plan"} => r \in Autos
    /\ pc[r] \in {"select", "plan", "planned", "attempt"} =>
          /\ Len(calls[r]) = Before(r) + IF pc[r] = "attempt" THEN index[r] ELSE 0
          /\ r \in Autos => calls[r][1] = Selector
    /\ pc[r] = "attempt" => \A i \in 1 .. index[r] : calls[r][Before(r) + i] = candidates[r][i]
    /\ \A i, j \in 1 .. Len(calls[r]) : calls[r][i] = calls[r][j] => i = j
    /\ Len(records[r]) = Len(calls[r]) - Open(r)
    /\ \A i \in 1 .. Len(records[r]) : records[r][i][1] = calls[r][i]

ChatInv ==
    /\ ChatTypeOK /\ CountsExact
    /\ \A r \in Requests : PlanInv(r) /\ WireInv(r) /\ CallsInv(r)

-----------------------------------------------------------------------------
(* Facts about candidates, events and sequences. *)

LEMMA CandidateFacts ==
    ASSUME NEW o \in Orders
    PROVE  /\ o \in Seq(Models) /\ o # <<>>
           /\ Len(o) \in Nat \ {0} /\ DOMAIN o = 1 .. Len(o)
           /\ \A i \in 1 .. Len(o) : o[i] \in Models
           /\ \A i, j \in 1 .. Len(o) : o[i] = o[j] => i = j
<1>1. o \in Seq(Range(o)) /\ o # <<>> /\ IsInjective(o)
  BY ChatAssumption
<1>2. Range(o) \subseteq Models
  BY DEF Models
<1>3. o \in Seq(Models)
  BY <1>1, <1>2, SeqMonotonic
<1>4. /\ Len(o) \in Nat \ {0} /\ DOMAIN o = 1 .. Len(o)
      /\ \A i \in 1 .. Len(o) : o[i] \in Models
  BY <1>1, <1>3, EmptySeq, LenProperties, ElementOfSeq
<1> QED
  BY <1>1, <1>3, <1>4 DEF IsInjective

LEMMA EventFacts ==
    ASSUME NEW kind \in {"routing", "text-delta", "failover", "finish", "error", "done",
                         "response", "502", "refused"},
           NEW m \in Speakers
    PROVE  /\ Event(kind, m) \in Events
           /\ Event(kind, m).kind = kind /\ Event(kind, m).model = m
BY DEF Event, Events

LEMMA TupleSeqs ==
    ASSUME NEW S, NEW e \in S, NEW f \in S
    PROVE  <<e>> \in Seq(S) /\ <<e, f>> \in Seq(S)
OBVIOUS

LEMMA OneMore ==
    ASSUME NEW S, NEW w \in Seq(S), NEW e \in S
    PROVE  /\ w \o <<e>> \in Seq(S) /\ Len(w) \in Nat
           /\ Len(w \o <<e>>) = Len(w) + 1
           /\ \A i \in 1 .. Len(w) : (w \o <<e>>)[i] = w[i]
           /\ (w \o <<e>>)[Len(w) + 1] = e
<1>1. <<e>> \in Seq(S) /\ Len(<<e>>) = 1 /\ <<e>>[1] = e /\ Len(w) \in Nat
  BY TupleSeqs, LenProperties
<1> QED
  BY <1>1, ConcatProperties

LEMMA TwoMore ==
    ASSUME NEW S, NEW w \in Seq(S), NEW e \in S, NEW f \in S
    PROVE  /\ w \o <<e, f>> \in Seq(S) /\ Len(w) \in Nat
           /\ Len(w \o <<e, f>>) = Len(w) + 2
           /\ \A i \in 1 .. Len(w) : (w \o <<e, f>>)[i] = w[i]
           /\ (w \o <<e, f>>)[Len(w) + 1] = e
           /\ (w \o <<e, f>>)[Len(w) + 2] = f
<1>1. <<e, f>> \in Seq(S) /\ Len(<<e, f>>) = 2 /\ <<e, f>>[1] = e /\ <<e, f>>[2] = f
      /\ Len(w) \in Nat
  BY TupleSeqs, LenProperties
<1> QED
  BY <1>1, ConcatProperties

-----------------------------------------------------------------------------
(* Counting reservations. *)

\* Moving the reservation of one request from one model to another (NoModel
\* when it has none) changes the counts of these models by one.
LEMMA CountMoves ==
    ASSUME NEW before, NEW after, NEW r \in Requests, NEW m, IsFiniteSet(Requests),
           \A q \in Requests \ {r} : after[q] = before[q]
    PROVE  /\ Count(before, m) \in Nat
           /\ Count(after, m) = Count(before, m)
                  + (IF after[r] = m THEN 1 ELSE 0) - (IF before[r] = m THEN 1 ELSE 0)
<1> DEFINE H == {q \in Requests : before[q] = m}
           K == {q \in Requests : after[q] = m}
<1>0. Count(before, m) = Cardinality(H) /\ Count(after, m) = Cardinality(K)
  BY DEF Count
<1>1. IsFiniteSet(H) /\ Cardinality(H) \in Nat
  BY FS_Subset, FS_CardinalityType
<1>2. CASE after[r] = m <=> before[r] = m
  <2>1. K = H
    BY <1>2
  <2> QED
    <3> HIDE DEF H, K
    <3> QED
      BY <1>0, <1>1, <1>2, <2>1
<1>3. CASE after[r] = m /\ before[r] # m
  <2>1. K = H \cup {r} /\ r \notin H
    BY <1>3
  <2>2. Cardinality(K) = Cardinality(H) + 1
    <3> HIDE DEF H, K
    <3> QED
      BY <1>1, <2>1, FS_AddElement
  <2> QED
    BY <1>0, <1>1, <1>3, <2>2
<1>4. CASE after[r] # m /\ before[r] = m
  <2>1. K = H \ {r} /\ r \in H
    BY <1>4
  <2>2. Cardinality(K) = Cardinality(H) - 1
    <3> HIDE DEF H, K
    <3> QED
      BY <1>1, <2>1, FS_RemoveElement
  <2> QED
    BY <1>0, <1>1, <1>4, <2>2
<1> QED
  BY <1>2, <1>3, <1>4

LEMMA CountsMove ==
    ASSUME CountsExact, NEW r \in Requests, 
           \A q \in Requests \ {r} : Reserved(q)' = Reserved(q),
           \A m \in Models : active[m] \in Int /\
               active'[m] = active[m] + (IF Reserved(r)' = m THEN 1 ELSE 0)
                                      - (IF Reserved(r) = m THEN 1 ELSE 0)
    PROVE  CountsExact'
<1> SUFFICES ASSUME NEW m \in Models PROVE active'[m] = Count(reserved', m)
  BY DEF CountsExact, Count
<1>1. \A q \in Requests : reserved[q] = Reserved(q) /\ reserved'[q] = Reserved(q)'
  BY DEF reserved
<1>2. /\ Count(reserved, m) \in Nat
      /\ Count(reserved', m) = Count(reserved, m)
           + (IF reserved'[r] = m THEN 1 ELSE 0) - (IF reserved[r] = m THEN 1 ELSE 0)
  <2>1. \A q \in Requests \ {r} : reserved'[q] = reserved[q]
    BY <1>1
  <2>2. IsFiniteSet(Requests)
    BY ChatAssumption
  <2> QED
    BY <2>1, <2>2, CountMoves
<1> QED
  BY <1>1, <1>2 DEF CountsExact

-----------------------------------------------------------------------------
(* Types, and what a step leaves alone. *)

LEMMA TypeInit == Init => ChatTypeOK
<1>1. \A S : <<>> \in Seq(S)
  BY EmptySeq
<1> QED
  BY <1>1 DEF Init, ChatTypeOK, Stages

\* The model that runs, and the one that would follow it.
LEMMA RunningFacts ==
    ASSUME ChatTypeOK, NEW r \in Requests, PlanInv(r), pc[r] = "attempt"
    PROVE  /\ Running(r) \in Models /\ candidates[r] # <<>>
           /\ Len(candidates[r]) \in Nat
           /\ index[r] < Len(candidates[r]) =>
                 /\ index[r] + 1 \in 1 .. Len(candidates[r])
                 /\ candidates[r][index[r] + 1] \in Models
                 /\ candidates[r][index[r] + 1] # Running(r)
<1>1. candidates[r] \in Orders /\ index[r] \in 1 .. Len(candidates[r])
  BY DEF PlanInv
<1> QED
  BY <1>1, CandidateFacts DEF Running

\* Writing one or two events.
LEMMA WrittenTyped ==
    ASSUME ChatTypeOK, NEW r \in Requests, NEW events \in Seq(Events)
    PROVE  Written(r, events) \in Seq(Events)
BY ConcatProperties DEF Written, ChatTypeOK

LEMMA CalledTyped ==
    ASSUME ChatTypeOK, NEW r \in Requests, NEW m \in Callees, Called(r, m)
    PROVE  calls' \in [Requests -> Seq(Callees)]
BY AppendProperties DEF Called, ChatTypeOK

LEMMA RecordedTyped ==
    ASSUME ChatTypeOK, NEW r \in Requests, NEW m \in Callees, NEW how \in {"ok", "error"},
           Recorded(r, m, how)
    PROVE  records' \in [Requests -> Seq(Callees \X {"ok", "error"})]
BY AppendProperties DEF Recorded, ChatTypeOK

LEMMA SpeakerFacts ==
    ASSUME ChatTypeOK, NEW r \in Requests, PlanInv(r), pc[r] = "attempt"
    PROVE  /\ Answer(r) \in Seq(Events)
           /\ ErrorEvents(r) \in Seq(Events)
           /\ <<Event("failover", Running(r))>> \in Seq(Events)
           /\ <<Event("text-delta", Running(r))>> \in Seq(Events)
<1>1. Running(r) \in Speakers /\ NoModel \in Speakers
  BY RunningFacts DEF Speakers
<1>2. /\ Event("finish", Running(r)) \in Events /\ Event("done", NoModel) \in Events
      /\ Event("response", Running(r)) \in Events /\ Event("error", Running(r)) \in Events
      /\ Event("502", Running(r)) \in Events /\ Event("failover", Running(r)) \in Events
      /\ Event("text-delta", Running(r)) \in Events
  BY <1>1, EventFacts
<1>3. /\ <<Event("finish", Running(r)), Event("done", NoModel)>> \in Seq(Events)
      /\ <<Event("error", Running(r)), Event("done", NoModel)>> \in Seq(Events)
      /\ <<Event("response", Running(r))>> \in Seq(Events)
      /\ <<Event("502", Running(r))>> \in Seq(Events)
      /\ <<Event("failover", Running(r))>> \in Seq(Events)
      /\ <<Event("text-delta", Running(r))>> \in Seq(Events)
  BY <1>2, TupleSeqs
<1> QED
  BY <1>3, WrittenTyped DEF Answer, ErrorEvents

Step(r) ==
    \/ Handler(r) \/ PlanFails(r) \/ Selected(r) \/ SelectCanceled(r)
    \/ TextDelta(r) \/ AttemptOk(r) \/ Failover(r) \/ AttemptFails(r)
    \/ HangUp(r) \/ CloseEvent(r)

LEMMA TypeStep ==
    ASSUME ChatInv, NEW r \in Requests, Step(r) PROVE ChatTypeOK'
<1>0. ChatTypeOK /\ PlanInv(r)
  BY DEF ChatInv
<1> USE <1>0 DEF plan, output, Goto, Stages
<1>1. CASE Select(r)
  <2>1. calls' \in [Requests -> Seq(Callees)]
    BY <1>1, CalledTyped DEF Select, Callees
  <2> QED
    BY <1>1, <2>1 DEF Select, ChatTypeOK
<1>2. CASE Selected(r) \/ SelectCanceled(r)
  <2>1. records' \in [Requests -> Seq(Callees \X {"ok", "error"})]
    BY <1>2, RecordedTyped DEF Selected, SelectCanceled, Callees
  <2> QED
    BY <1>2, <2>1 DEF Selected, SelectCanceled, ChatTypeOK
<1>3. CASE Plan(r)
  <2>1. PICK order \in Orders : /\ candidates' = [candidates EXCEPT ![r] = order]
                                /\ active' = Acquired(order[1])
    BY <1>3 DEF Plan
  <2>2. order[1] \in Models
    BY CandidateFacts
  <2> QED
    BY <1>3, <2>1, <2>2 DEF Plan, ChatTypeOK, Acquired
<1>4. CASE PlanFails(r)
  <2>1. Written(r, <<Event("refused", NoModel)>>) \in Seq(Events)
    <3>1. Event("refused", NoModel) \in Events
      BY EventFacts DEF Speakers
    <3> QED
      BY <3>1, TupleSeqs, WrittenTyped
  <2> QED
    BY <1>4, <2>1 DEF PlanFails, ChatTypeOK, Writable
<1>5. CASE PlanCanceled(r) \/ HungUpBefore(r) \/ TimerFires(r) \/ HangUp(r) \/ CloseEvent(r)
  BY <1>5 DEF PlanCanceled, HungUpBefore, TimerFires, HangUp, CloseEvent, ChatTypeOK
<1>6. CASE FirstAttempt(r)
  <2>1. candidates[r][1] \in Models /\ 1 \in Nat
    BY <1>6, CandidateFacts DEF FirstAttempt, PlanInv
  <2>2. Written(r, <<Event("routing", candidates[r][1])>>) \in Seq(Events)
    <3>1. Event("routing", candidates[r][1]) \in Events
      BY <2>1, EventFacts DEF Speakers
    <3> QED
      BY <3>1, TupleSeqs, WrittenTyped
  <2>3. calls' \in [Requests -> Seq(Callees)]
    BY <1>6, <2>1, CalledTyped DEF FirstAttempt, Start, Callees
  <2>4. wire' \in [Requests -> Seq(Events)]
    BY <1>6, <2>2 DEF FirstAttempt, ChatTypeOK
  <2> QED
    BY <1>6, <2>1, <2>3, <2>4 DEF FirstAttempt, Start, TimerOf, ChatTypeOK
<1>7. CASE TextDelta(r)
  <2>1. Written(r, <<Event("text-delta", Running(r))>>) \in Seq(Events)
    BY <1>7, SpeakerFacts, WrittenTyped DEF TextDelta
  <2> QED
    BY <1>7, <2>1 DEF TextDelta, ChatTypeOK
<1>8. CASE AttemptOk(r) \/ AttemptFails(r)
  <2>0. pc[r] = "attempt"
    BY <1>8 DEF AttemptOk, AttemptFails
  <2>1. Running(r) \in Models
    BY <2>0, RunningFacts
  <2>2. Answer(r) \in Seq(Events) /\ Written(r, ErrorEvents(r)) \in Seq(Events)
    BY <2>0, SpeakerFacts, WrittenTyped
  <2>3. records' \in [Requests -> Seq(Callees \X {"ok", "error"})]
    BY <1>8, <2>1, RecordedTyped DEF AttemptOk, AttemptFails, Callees
  <2>4. wire' \in [Requests -> Seq(Events)]
    <3>1. PICK said \in Seq(Events) : wire' = [wire EXCEPT ![r] = said]
      BY <1>8, <2>2 DEF AttemptOk, AttemptFails
    <3> QED
      BY <3>1 DEF ChatTypeOK
  <2>5. active' \in [Models -> Int]
    BY <1>8, <2>1 DEF AttemptOk, AttemptFails, AfterAttempt, Released, ChatTypeOK
  <2> QED
    BY <1>8, <2>3, <2>4, <2>5
       DEF AttemptOk, AttemptFails, PlanReleasedAfter, Writable, ChatTypeOK
<1>9. CASE Failover(r)
  <2>0. pc[r] = "attempt" /\ index[r] < Len(candidates[r])
    BY <1>9 DEF Failover, FailsOver
  <2>1. /\ Running(r) \in Models /\ candidates[r][index[r] + 1] \in Models
        /\ index[r] + 1 \in Nat
    BY <2>0, RunningFacts
  <2>2. Written(r, <<Event("failover", Running(r))>>) \in Seq(Events)
    BY <2>0, SpeakerFacts, WrittenTyped
  <2>3. records' \in [Requests -> Seq(Callees \X {"ok", "error"})]
    BY <1>9, <2>1, RecordedTyped DEF Failover, Callees
  <2>4. calls' \in [Requests -> Seq(Callees)]
    BY <1>9, <2>1, CalledTyped DEF Failover, Start, Callees
  <2>5. wire' \in [Requests -> Seq(Events)]
    BY <1>9, <2>2 DEF Failover, ChatTypeOK
  <2>6. active' \in [Models -> Int]
    BY <1>9, <2>1 DEF Failover, ActiveAfterFailover, AfterAttempt, Released, ChatTypeOK
  <2> QED
    BY <1>9, <2>1, <2>3, <2>4, <2>5, <2>6
       DEF Failover, Start, TimerOf, PlanReleasedAfter, ChatTypeOK
<1>10. CASE Close(r)
  <2>1. AfterHandler(r) \in [Models -> Int]
    BY CandidateFacts DEF AfterHandler, Released, ChatTypeOK
  <2> QED
    BY <1>10, <2>1 DEF Close, ChatTypeOK
<1> QED
  BY <1>1, <1>2, <1>3, <1>4, <1>5, <1>6, <1>7, <1>8, <1>9, <1>10 DEF Step, Handler

Untouched(q) ==
    /\ pc'[q] = pc[q] /\ candidates'[q] = candidates[q] /\ index'[q] = index[q]
    /\ planReleased'[q] = planReleased[q] /\ client'[q] = client[q]
    /\ sentOutput'[q] = sentOutput[q] /\ wire'[q] = wire[q] /\ ended'[q] = ended[q]
    /\ calls'[q] = calls[q] /\ records'[q] = records[q]

\* A step of one request leaves the others as they are.
LEMMA OthersUntouched ==
    ASSUME ChatTypeOK, NEW r \in Requests, Step(r), NEW q \in Requests \ {r}
    PROVE  Untouched(q)
<1> USE DEF Untouched, plan, output, Goto, ChatTypeOK
<1>1. CASE Select(r) \/ Plan(r) \/ PlanCanceled(r) \/ HungUpBefore(r) \/ Close(r) \/ TimerFires(r)
  BY <1>1 DEF Select, Plan, PlanCanceled, HungUpBefore, Close, TimerFires, Called
<1>2. CASE FirstAttempt(r)
  BY <1>2 DEF FirstAttempt, Start, Called
<1>3. CASE PlanFails(r) \/ Selected(r) \/ SelectCanceled(r)
  BY <1>3 DEF PlanFails, Selected, SelectCanceled, Recorded
<1>4. CASE TextDelta(r) \/ HangUp(r) \/ CloseEvent(r)
  BY <1>4 DEF TextDelta, HangUp, CloseEvent
<1>5. CASE AttemptOk(r) \/ AttemptFails(r)
  BY <1>5 DEF AttemptOk, AttemptFails, Recorded, PlanReleasedAfter
<1>6. CASE Failover(r)
  BY <1>6 DEF Failover, Start, Called, Recorded, PlanReleasedAfter
<1> QED
  BY <1>1, <1>2, <1>3, <1>4, <1>5, <1>6 DEF Step, Handler

LEMMA UntouchedKeeps ==
    ASSUME NEW q, Untouched(q)
    PROVE  /\ PlanInv(q) => PlanInv(q)'
           /\ WireInv(q) => WireInv(q)'
           /\ CallsInv(q) => CallsInv(q)'
           /\ Reserved(q)' = Reserved(q)
<1>1. PlanInv(q) => PlanInv(q)'
  BY DEF Untouched, PlanInv
<1>2. WireInv(q) => WireInv(q)'
  BY DEF Untouched, WireInv, Lines, Running
<1>3. CallsInv(q) => CallsInv(q)'
  BY DEF Untouched, CallsInv, Before, Open
<1>4. Reserved(q)' = Reserved(q)
  BY DEF Untouched, Reserved, Running
<1> QED
  BY <1>1, <1>2, <1>3, <1>4

-----------------------------------------------------------------------------
(* The plan and its reservations. *)

LEMMA PlanStep ==
    ASSUME ChatInv, NEW r \in Requests, Step(r) PROVE PlanInv(r)'
<1>0. ChatTypeOK /\ PlanInv(r)
  BY DEF ChatInv
<1> USE <1>0 DEF plan, output, Goto, ChatTypeOK, PlanInv
<1>1. CASE Select(r) \/ PlanCanceled(r) \/ HungUpBefore(r) \/ Close(r) \/ TimerFires(r)
  BY <1>1 DEF Select, PlanCanceled, HungUpBefore, Close, TimerFires
<1>2. CASE Plan(r)
  BY <1>2, CandidateFacts DEF Plan
<1>3. CASE FirstAttempt(r)
  BY <1>3, CandidateFacts DEF FirstAttempt, Start
<1>4. CASE PlanFails(r) \/ Selected(r) \/ SelectCanceled(r) \/ TextDelta(r) \/ HangUp(r)
           \/ CloseEvent(r) \/ AttemptOk(r) \/ AttemptFails(r)
  BY <1>4 DEF PlanFails, Selected, SelectCanceled, TextDelta, HangUp, CloseEvent,
              AttemptOk, AttemptFails
<1>5. CASE Failover(r)
  <2>1. /\ index'[r] = index[r] + 1 /\ candidates' = candidates
        /\ index[r] + 1 \in 1 .. Len(candidates[r])
    BY <1>5, RunningFacts DEF Failover, FailsOver, Start
  <2>2. planReleased'[r] = (planReleased[r] \/ index[r] = 1) /\ pc'[r] = "attempt"
    BY <1>5 DEF Failover, Start, PlanReleasedAfter
  <2>3. pc[r] = "attempt" /\ index[r] \in Nat \ {0}
    BY <1>5 DEF Failover
  <2>4. index'[r] > 1 /\ (index[r] = 1 \/ index[r] > 1)
    BY <2>1, <2>3
  <2>5. planReleased'[r]
    BY <2>2, <2>3, <2>4
  <2> QED
    BY <1>0, <2>1, <2>2, <2>3, <2>4, <2>5
<1> QED
  BY <1>1, <1>2, <1>3, <1>4, <1>5 DEF Step, Handler

LEMMA CountsStep ==
    ASSUME ChatInv, NEW r \in Requests, Step(r) PROVE CountsExact'
<1>0. /\ ChatTypeOK /\ PlanInv(r) /\ CountsExact
      /\ \A m \in Models : active[m] \in Int /\ m # NoModel
      /\ \A q \in Requests \ {r} : Reserved(q)' = Reserved(q)
  BY OthersUntouched, UntouchedKeeps, ChatAssumption DEF ChatInv, ChatTypeOK
<1> DEFINE Moves == \A m \in Models :
               active'[m] = active[m] + (IF Reserved(r)' = m THEN 1 ELSE 0)
                                      - (IF Reserved(r) = m THEN 1 ELSE 0)
<1> SUFFICES Moves
  BY <1>0, CountsMove
<1> USE <1>0
<1>1. CASE UNCHANGED active /\ Reserved(r)' = Reserved(r)
  BY <1>1
<1>2. ASSUME Select(r) \/ PlanCanceled(r) \/ HungUpBefore(r) \/ TimerFires(r) \/ PlanFails(r)
             \/ Selected(r) \/ SelectCanceled(r) \/ TextDelta(r) \/ HangUp(r) \/ CloseEvent(r)
      PROVE  UNCHANGED active /\ Reserved(r)' = Reserved(r)
  BY <1>2 DEF Select, PlanCanceled, HungUpBefore, TimerFires, PlanFails, Selected,
              SelectCanceled, TextDelta, HangUp, CloseEvent, plan, output, Goto, ChatTypeOK,
              PlanInv, Reserved, Running
<1>3. CASE Plan(r)
  <2>1. PICK order \in Orders : /\ candidates' = [candidates EXCEPT ![r] = order]
                                /\ active' = Acquired(order[1])
    BY <1>3 DEF Plan
  <2>2. order # <<>> /\ order[1] \in Models
    BY CandidateFacts
  <2>3. Reserved(r) = NoModel
    BY <1>3 DEF Plan, Reserved
  <2>4. Reserved(r)' = order[1]
    BY <1>3, <2>1, <2>2 DEF Plan, Goto, Reserved, ChatTypeOK, PlanInv
  <2>5. \A m \in Models : active'[m] = IF m = order[1] THEN active[m] + 1 ELSE active[m]
    BY <2>1, <2>2 DEF Acquired, ChatTypeOK
  <2> QED
    BY <2>2, <2>3, <2>4, <2>5
<1>4. CASE FirstAttempt(r)
  <2>1. /\ pc[r] = "planned" /\ pc'[r] = "attempt" /\ index'[r] = 1
        /\ candidates[r] # <<>> /\ ~planReleased[r] /\ UNCHANGED <<active, candidates>>
    BY <1>4, CandidateFacts DEF FirstAttempt, Start, Goto, plan, ChatTypeOK, PlanInv
  <2>2. Reserved(r)' = Reserved(r)
    BY <2>1 DEF Reserved, Running
  <2> QED
    BY <1>1, <2>1, <2>2
<1>5. CASE AttemptOk(r) \/ AttemptFails(r)
  <2>1. pc[r] = "attempt" /\ Running(r) \in Models
    BY <1>5, RunningFacts DEF AttemptOk, AttemptFails
  <2>2. /\ active' = Released(Running(r)) /\ pc'[r] = "closing"
        /\ planReleased'[r] = (planReleased[r] \/ index[r] = 1)
    BY <1>5, <2>1
       DEF AttemptOk, AttemptFails, AfterAttempt, PlanReleasedAfter, Goto, ChatTypeOK
  <2>a. index[r] = 1 \/ index[r] > 1
    BY <2>1 DEF PlanInv, ChatTypeOK
  <2>b. planReleased'[r]
    BY <2>1, <2>2, <2>a DEF PlanInv
  <2>3. Reserved(r) = Running(r) /\ Reserved(r)' = NoModel
    BY <2>1, <2>2, <2>b DEF Reserved
  <2>4. \A m \in Models : active'[m] = IF m = Running(r) THEN active[m] - 1 ELSE active[m]
    BY <2>1, <2>2 DEF Released, ChatTypeOK
  <2> QED
    BY <2>1, <2>3, <2>4
<1>6. CASE Failover(r)
  <2> DEFINE next == candidates[r][index[r] + 1]
  <2>1. /\ pc[r] = "attempt" /\ Running(r) \in Models /\ next \in Models
        /\ next # Running(r)
    BY <1>6, RunningFacts DEF Failover, FailsOver
  <2>2. /\ active' = [Released(Running(r)) EXCEPT ![next] = @ + 1]
        /\ pc'[r] = "attempt" /\ index'[r] = index[r] + 1 /\ candidates'[r] = candidates[r]
    BY <1>6 DEF Failover, ActiveAfterFailover, AfterAttempt, Start, Goto, ChatTypeOK
  <2>3. Reserved(r) = Running(r) /\ Reserved(r)' = next
    BY <2>1, <2>2 DEF Reserved, Running
  <2> HIDE DEF next
  <2>4. \A m \in Models : active'[m] = IF m = Running(r) THEN active[m] - 1
                                       ELSE IF m = next THEN active[m] + 1 ELSE active[m]
    BY <2>1, <2>2 DEF Released, ChatTypeOK
  <2> QED
    BY <2>1, <2>3, <2>4
<1>7. CASE Close(r)
  <2>1. pc[r] = "closing" /\ pc'[r] = "done" /\ active' = AfterHandler(r)
    BY <1>7 DEF Close, Goto, ChatTypeOK
  <2>2. Reserved(r)' = NoModel
    BY <2>1 DEF Reserved
  <2>3. CASE candidates[r] = <<>> \/ planReleased[r]
    <3>1. Reserved(r) = NoModel /\ UNCHANGED active
      BY <2>1, <2>3 DEF Reserved, AfterHandler
    <3> QED
      BY <1>1, <2>2, <3>1
  <2>4. CASE candidates[r] # <<>> /\ ~planReleased[r]
    <3>1. candidates[r][1] \in Models
      BY <2>4, CandidateFacts DEF ChatTypeOK
    <3>2. Reserved(r) = candidates[r][1] /\ active' = Released(candidates[r][1])
      BY <2>1, <2>4 DEF Reserved, AfterHandler
    <3>3. \A m \in Models :
             active'[m] = IF m = candidates[r][1] THEN active[m] - 1 ELSE active[m]
      BY <3>1, <3>2 DEF Released, ChatTypeOK
    <3> QED
      BY <2>2, <3>1, <3>2, <3>3
  <2> QED
    BY <2>3, <2>4
<1> QED
  BY <1>1, <1>2, <1>3, <1>4, <1>5, <1>6, <1>7 DEF Step, Handler

-----------------------------------------------------------------------------
(* What the client reads. *)

\* Events that are written follow what is on the wire; to a client that is
\* gone nothing is written.
LEMMA WrittenOne ==
    ASSUME ChatTypeOK, NEW r \in Requests, NEW e \in Events, wire'[r] = Written(r, <<e>>)
    PROVE  /\ Lines(r) \in Nat
           /\ Writable(r) =>
                 /\ Lines(r)' = Lines(r) + 1
                 /\ \A i \in 1 .. Lines(r) : wire'[r][i] = wire[r][i]
                 /\ wire'[r][Lines(r) + 1] = e
           /\ ~Writable(r) => wire'[r] = wire[r] /\ Lines(r)' = Lines(r)
<1>1. wire[r] \in Seq(Events)
  BY DEF ChatTypeOK
<1> QED
  BY <1>1, OneMore, LenProperties DEF Written, Lines

LEMMA WrittenTwo ==
    ASSUME ChatTypeOK, NEW r \in Requests, NEW e \in Events, NEW f \in Events,
           wire'[r] = Written(r, <<e, f>>)
    PROVE  /\ Lines(r) \in Nat
           /\ Writable(r) =>
                 /\ Lines(r)' = Lines(r) + 2
                 /\ \A i \in 1 .. Lines(r) : wire'[r][i] = wire[r][i]
                 /\ wire'[r][Lines(r) + 1] = e /\ wire'[r][Lines(r) + 2] = f
           /\ ~Writable(r) => wire'[r] = wire[r] /\ Lines(r)' = Lines(r)
<1>1. wire[r] \in Seq(Events)
  BY DEF ChatTypeOK
<1> QED
  BY <1>1, TwoMore, LenProperties DEF Written, Lines

LEMMA SilentStep ==
    ASSUME ChatTypeOK, NEW r \in Requests, WireInv(r),
           \/ Select(r) \/ Selected(r) \/ SelectCanceled(r) \/ Plan(r) \/ PlanCanceled(r)
           \/ HungUpBefore(r) \/ TimerFires(r) \/ HangUp(r) \/ CloseEvent(r) \/ Close(r)
    PROVE  WireInv(r)'
<1>1. wire'[r] = wire[r] /\ ended'[r] = ended[r] /\ sentOutput'[r] = sentOutput[r]
  BY DEF Select, Selected, SelectCanceled, Plan, PlanCanceled, HungUpBefore, TimerFires,
         HangUp, CloseEvent, Close, output
<1>2. /\ pc'[r] \in {"start", "select", "plan", "planned"} =>
            pc[r] \in {"start", "select", "plan", "planned"}
      /\ pc'[r] \notin {"closing", "done"} => pc[r] \notin {"closing", "done"}
      /\ pc'[r] = "attempt" => pc[r] = "attempt" /\ Running(r)' = Running(r)
      /\ pc'[r] \in {"closing", "done"} /\ client'[r] = "here" =>
            pc[r] \in {"closing", "done"} /\ client[r] = "here"
  BY DEF Select, Selected, SelectCanceled, Plan, PlanCanceled, HungUpBefore, TimerFires,
         HangUp, CloseEvent, Close, plan, Goto, ChatTypeOK, Running, ClientGone
<1> QED
  BY <1>1, <1>2 DEF WireInv, Lines

LEMMA WireStep ==
    ASSUME ChatInv, NEW r \in Requests, Step(r) PROVE WireInv(r)'
<1>0. ChatTypeOK /\ PlanInv(r) /\ WireInv(r) /\ ChatTypeOK'
  BY TypeStep DEF ChatInv
<1>l. Len(<<>>) = 0 /\ wire[r] = <<>> => Lines(r) = 0
  BY DEF Lines
<1>1. CASE \/ Select(r) \/ Selected(r) \/ SelectCanceled(r) \/ Plan(r) \/ PlanCanceled(r)
           \/ HungUpBefore(r) \/ TimerFires(r) \/ HangUp(r) \/ CloseEvent(r) \/ Close(r)
  BY <1>0, <1>1, SilentStep
<1>2. CASE PlanFails(r)
  <2>1. /\ wire'[r] = Written(r, <<Event("refused", NoModel)>>)
        /\ wire[r] = <<>> /\ ~ended[r] /\ pc'[r] = "closing" /\ client'[r] = client[r]
    BY <1>0, <1>2 DEF PlanFails, ChatTypeOK, WireInv, Goto
  <2>2. Event("refused", NoModel) \in Events /\ Event("refused", NoModel).kind = "refused"
    BY EventFacts DEF Speakers
  <2>3. CASE Writable(r)
    <3>1. Lines(r)' = 1 /\ wire'[r][1].kind = "refused"
      BY <1>0, <1>l, <2>1, <2>2, <2>3, WrittenOne
    <3> QED
      BY <2>1, <3>1 DEF WireInv
  <2>4. CASE ~Writable(r)
    <3>1. Lines(r)' = 0 /\ client'[r] # "here"
      BY <1>0, <1>l, <2>1, <2>2, <2>4, WrittenOne DEF Writable
    <3> QED
      BY <2>1, <3>1 DEF WireInv
  <2> QED
    BY <2>3, <2>4
<1>3. CASE FirstAttempt(r)
  <2>1. /\ wire[r] = <<>> /\ ~ended'[r] /\ pc'[r] = "attempt"
        /\ \/ r \in Streams /\ wire'[r] = Written(r, <<Event("routing", candidates[r][1])>>)
           \/ wire'[r] = wire[r]
    BY <1>0, <1>3 DEF FirstAttempt, Start, Goto, ChatTypeOK, WireInv
  <2>2. CASE wire'[r] = wire[r]
    <3>1. wire'[r] = <<>> /\ Lines(r)' = 0
      BY <1>l, <2>1, <2>2 DEF Lines
    <3> QED
      BY <2>1, <3>1 DEF WireInv
  <2>3. CASE r \in Streams /\ wire'[r] = Written(r, <<Event("routing", candidates[r][1])>>)
    <3>1. candidates[r][1] \in Speakers
      BY <1>0, <1>3, CandidateFacts DEF FirstAttempt, PlanInv, Speakers
    <3>2. /\ Event("routing", candidates[r][1]) \in Events
          /\ Event("routing", candidates[r][1]).kind = "routing"
      BY <3>1, EventFacts
    <3>3. \/ Lines(r)' = 0
          \/ Lines(r)' = 1 /\ wire'[r][1].kind = "routing"
      <4>1. Lines(r) = 0
        BY <1>l, <2>1
      <4>2. CASE Writable(r)
        BY <1>0, <2>3, <3>2, <4>1, <4>2, WrittenOne
      <4>3. CASE ~Writable(r)
        <5>1. Lines(r)' = Lines(r)
          BY <1>0, <2>3, <3>2, <4>3, WrittenOne
        <5> QED
          BY <4>1, <5>1
      <4> QED
        BY <4>2, <4>3
    <3> QED
      BY <2>1, <2>3, <3>3 DEF WireInv
  <2> QED
    BY <2>1, <2>2, <2>3
<1>4. ASSUME pc[r] = "attempt" PROVE /\ Running(r) \in Speakers /\ NoModel \in Speakers
                                     /\ Running(r) # NoModel
  BY <1>0, <1>4, RunningFacts, ChatAssumption DEF Speakers
<1>5. CASE TextDelta(r)
  <2> DEFINE text == Event("text-delta", Running(r))
  <2>1. /\ pc[r] = "attempt" /\ r \in Streams /\ wire'[r] = Written(r, <<text>>)
        /\ pc'[r] = "attempt" /\ sentOutput'[r] /\ ended'[r] = ended[r]
        /\ Running(r)' = Running(r)
    BY <1>0, <1>5 DEF TextDelta, plan, ChatTypeOK, Running
  <2>2. text \in Events /\ text.kind = "text-delta" /\ text.model = Running(r)
    BY <1>4, <2>1, EventFacts
  <2> HIDE DEF text
  <2>3. CASE Writable(r)
    <3>1. /\ Lines(r) \in Nat /\ Lines(r)' = Lines(r) + 1
          /\ \A i \in 1 .. Lines(r) : wire'[r][i] = wire[r][i]
          /\ wire'[r][Lines(r) + 1] = text
      BY <1>0, <2>1, <2>2, <2>3, WrittenOne
    <3> QED
      BY <1>0, <2>1, <2>2, <3>1 DEF WireInv
  <2>4. CASE ~Writable(r)
    <3>1. wire'[r] = wire[r] /\ Lines(r)' = Lines(r)
      BY <1>0, <2>1, <2>2, <2>4, WrittenOne
    <3> QED
      BY <1>0, <2>1, <3>1 DEF WireInv
  <2> QED
    BY <2>3, <2>4
<1>6. CASE Failover(r)
  <2> DEFINE note == Event("failover", Running(r))
  <2>1. /\ pc[r] = "attempt" /\ ~sentOutput[r] /\ pc'[r] = "attempt" /\ ended'[r] = ended[r]
        /\ IF r \in Streams THEN wire'[r] = Written(r, <<note>>) ELSE wire'[r] = wire[r]
    BY <1>0, <1>6 DEF Failover, FailsOver, Start, Goto, ChatTypeOK
  <2>2. note \in Events /\ note.kind = "failover"
    BY <1>4, <2>1, EventFacts
  <2> HIDE DEF note
  <2>3. CASE r \in Streams /\ Writable(r)
    <3>1. /\ Lines(r) \in Nat /\ Lines(r)' = Lines(r) + 1
          /\ \A i \in 1 .. Lines(r) : wire'[r][i] = wire[r][i]
          /\ wire'[r][Lines(r) + 1] = note
      BY <1>0, <2>1, <2>2, <2>3, WrittenOne
    <3>2. \A i \in 1 .. Lines(r)' : wire'[r][i].kind \in {"routing", "failover"}
      BY <1>0, <2>1, <2>2, <3>1 DEF WireInv
    <3> QED
      BY <1>0, <2>1, <2>3, <3>2 DEF WireInv
  <2>4. CASE ~(r \in Streams /\ Writable(r))
    <3>1. wire'[r] = wire[r] /\ Lines(r)' = Lines(r)
      BY <1>0, <2>1, <2>2, <2>4, WrittenOne DEF Lines
    <3>2. \A i \in 1 .. Lines(r)' : wire'[r][i].kind \in {"routing", "failover"}
      BY <1>0, <2>1, <3>1 DEF WireInv
    <3> QED
      BY <1>0, <2>1, <3>1, <3>2 DEF WireInv
  <2> QED
    BY <2>3, <2>4
<1>7. CASE AttemptOk(r) \/ AttemptFails(r)
  <2>1. /\ pc[r] = "attempt" /\ pc'[r] = "closing" /\ ~ended[r] /\ client'[r] = client[r]
        /\ wire'[r] = Answer(r) \/ wire'[r] = Written(r, ErrorEvents(r))
    BY <1>0, <1>7 DEF AttemptOk, AttemptFails, Goto, ChatTypeOK, WireInv
  <2>2. CASE r \in Streams
    <3>1. PICK kind \in {"finish", "error"} :
              wire'[r] = Written(r, <<Event(kind, Running(r)), Event("done", NoModel)>>)
      BY <2>1, <2>2 DEF Answer, ErrorEvents
    <3> DEFINE verdict == Event(kind, Running(r))
               done == Event("done", NoModel)
    <3>2. /\ verdict \in Events /\ verdict.kind = kind /\ verdict.model = Running(r)
          /\ done \in Events /\ done.kind = "done"
      BY <1>4, <2>1, EventFacts
    <3>3. wire'[r] = Written(r, <<verdict, done>>)
      BY <3>1
    <3> HIDE DEF verdict, done
    <3>4. CASE Writable(r)
      <4>1. /\ Lines(r) \in Nat /\ Lines(r)' = Lines(r) + 2
            /\ \A i \in 1 .. Lines(r) : wire'[r][i] = wire[r][i]
            /\ wire'[r][Lines(r) + 1] = verdict /\ wire'[r][Lines(r) + 2] = done
        BY <1>0, <3>2, <3>3, <3>4, WrittenTwo
      <4>2. \A i \in 1 .. Lines(r)' : \/ i \in 1 .. Lines(r)
                                      \/ i = Lines(r) + 1 \/ i = Lines(r) + 2
        BY <4>1
      <4>3. \A i \in 1 .. Lines(r) :
               /\ wire'[r][i].kind \in {"routing", "text-delta", "failover"}
               /\ wire'[r][i].kind = "text-delta" => wire'[r][i].model = Running(r)
        BY <1>0, <2>1, <4>1 DEF WireInv
      <4>4. ASSUME NEW i \in 1 .. Lines(r)', NEW j \in 1 .. Lines(r)',
                   wire'[r][i].kind = "text-delta"
            PROVE  /\ wire'[r][j].kind \in {"text-delta", "finish"} =>
                          wire'[r][j].model = wire'[r][i].model
                   /\ wire'[r][j].kind = "failover" => j < i
        <5>1. i \in 1 .. Lines(r) /\ wire'[r][i].model = Running(r)
          BY <3>2, <4>1, <4>2, <4>3, <4>4
        <5>2. CASE j \in 1 .. Lines(r)
          BY <1>0, <4>1, <4>3, <4>4, <5>1, <5>2 DEF WireInv
        <5>3. CASE j \notin 1 .. Lines(r)
          BY <3>2, <4>1, <4>2, <5>1, <5>3
        <5> QED
          BY <5>2, <5>3
      <4>5. ASSUME NEW i \in 1 .. Lines(r)', wire'[r][i].kind = "done"
            PROVE  /\ i = Lines(r)' /\ i > 1
                   /\ wire'[r][i - 1].kind \in {"finish", "error"}
        <5>1. i = Lines(r) + 2
          BY <3>2, <4>1, <4>2, <4>3, <4>5
        <5>2. i - 1 = Lines(r) + 1 /\ i > 1
          BY <4>1, <5>1
        <5> QED
          BY <3>2, <4>1, <5>1, <5>2
      <4>6. Lines(r)' > 0 /\ wire'[r][Lines(r)'].kind = "done"
        BY <3>2, <4>1
      <4> QED
        BY <2>1, <2>2, <4>4, <4>5, <4>6 DEF WireInv
    <3>5. CASE ~Writable(r)
      <4>1. wire'[r] = wire[r] /\ Lines(r)' = Lines(r) /\ client'[r] # "here"
        BY <1>0, <2>1, <3>2, <3>3, <3>5, WrittenTwo DEF Writable
      <4> QED
        BY <1>0, <2>1, <4>1 DEF WireInv
    <3> QED
      BY <3>4, <3>5
  <2>3. CASE r \notin Streams
    <3>1. PICK kind \in {"response", "502"} :
              wire'[r] = Written(r, <<Event(kind, Running(r))>>)
      BY <2>1, <2>3 DEF Answer, ErrorEvents
    <3>2. Event(kind, Running(r)) \in Events /\ Event(kind, Running(r)).kind = kind
      BY <1>4, <2>1, EventFacts
    <3>3. wire[r] = <<>> /\ Lines(r) = 0
      BY <1>0, <1>l, <2>1, <2>3 DEF WireInv
    <3>4. \/ Lines(r)' = 1 /\ wire'[r][1].kind = kind
          \/ Lines(r)' = 0 /\ client'[r] # "here"
      BY <1>0, <2>1, <3>1, <3>2, <3>3, WrittenOne DEF Writable
    <3> QED
      BY <2>1, <2>3, <3>4 DEF WireInv
  <2> QED
    BY <2>2, <2>3
<1> QED
  BY <1>1, <1>2, <1>3, <1>5, <1>6, <1>7 DEF Step, Handler

-----------------------------------------------------------------------------
(* Calls and their records. *)

LEMMA CalledFacts ==
    ASSUME ChatTypeOK, NEW r \in Requests, NEW m \in Callees, Called(r, m)
    PROVE  /\ Len(calls[r]) \in Nat /\ Len(calls'[r]) = Len(calls[r]) + 1
           /\ \A i \in 1 .. Len(calls[r]) : calls'[r][i] = calls[r][i]
           /\ calls'[r][Len(calls[r]) + 1] = m
<1>1. calls[r] \in Seq(Callees) /\ calls'[r] = Append(calls[r], m)
  BY DEF Called, ChatTypeOK
<1> QED
  BY <1>1, AppendProperties, LenProperties

LEMMA RecordedFacts ==
    ASSUME ChatTypeOK, NEW r \in Requests, NEW m \in Callees, NEW how \in {"ok", "error"},
           Recorded(r, m, how)
    PROVE  /\ Len(records[r]) \in Nat /\ Len(records'[r]) = Len(records[r]) + 1
           /\ \A i \in 1 .. Len(records[r]) : records'[r][i] = records[r][i]
           /\ records'[r][Len(records[r]) + 1][1] = m
<1>1. /\ records[r] \in Seq(Callees \X {"ok", "error"})
      /\ records'[r] = Append(records[r], <<m, how>>) /\ <<m, how>>[1] = m
      /\ <<m, how>> \in Callees \X {"ok", "error"}
  BY DEF Recorded, ChatTypeOK
<1> QED
  BY <1>1, AppendProperties, LenProperties

LEMMA CallsQuiet ==
    ASSUME ChatTypeOK, NEW r \in Requests, PlanInv(r), CallsInv(r),
           \/ Plan(r) \/ PlanFails(r) \/ PlanCanceled(r) \/ HungUpBefore(r) \/ TimerFires(r)
           \/ TextDelta(r) \/ HangUp(r) \/ CloseEvent(r) \/ Close(r)
    PROVE  CallsInv(r)'
<1>1. UNCHANGED <<calls, records, index>>
  BY DEF Plan, PlanFails, PlanCanceled, HungUpBefore, TimerFires, TextDelta, HangUp,
         CloseEvent, Close
<1>2. \/ pc'[r] = pc[r] /\ candidates'[r] = candidates[r]
      \/ pc'[r] = "planned" /\ pc[r] = IF r \in Autos THEN "plan" ELSE "start"
      \/ pc'[r] \in {"closing", "done"} /\ pc[r] \notin {"attempt", "select"}
  BY DEF Plan, PlanFails, PlanCanceled, HungUpBefore, TimerFires, TextDelta, HangUp,
         CloseEvent, Close, plan, Goto, ChatTypeOK
<1>3. Len(<<>>) = 0
  OBVIOUS
<1>4. CASE pc'[r] = pc[r] /\ candidates'[r] = candidates[r]
  BY <1>1, <1>4 DEF CallsInv, Before, Open
<1>5. CASE pc'[r] = "planned" /\ pc[r] = IF r \in Autos THEN "plan" ELSE "start"
  <2>1. /\ Len(calls[r]) = Before(r) /\ Open(r) = 0 /\ Open(r)' = 0
        /\ r \in Autos => calls[r][1] = Selector
    BY <1>3, <1>5 DEF CallsInv, Before, Open
  <2> QED
    BY <1>1, <1>5, <2>1 DEF CallsInv, Before
<1>6. CASE pc'[r] \in {"closing", "done"} /\ pc[r] \notin {"attempt", "select"}
  BY <1>1, <1>6 DEF CallsInv, Open
<1> QED
  BY <1>2, <1>4, <1>5, <1>6

LEMMA CallsStep ==
    ASSUME ChatInv, NEW r \in Requests, Step(r) PROVE CallsInv(r)'
<1>0. ChatTypeOK /\ PlanInv(r) /\ CallsInv(r) /\ Len(<<>>) = 0 /\ Selector \in Callees
  BY DEF ChatInv, Callees
<1> DEFINE n == Len(calls[r])
           k == Len(records[r])
<1>1. CASE \/ Plan(r) \/ PlanFails(r) \/ PlanCanceled(r) \/ HungUpBefore(r) \/ TimerFires(r)
           \/ TextDelta(r) \/ HangUp(r) \/ CloseEvent(r) \/ Close(r)
  BY <1>0, <1>1, CallsQuiet
<1>2. CASE Select(r)
  <2>1. /\ r \in Autos /\ n = 0 /\ k = 0 /\ pc'[r] = "select" /\ UNCHANGED records
        /\ Called(r, Selector)
    BY <1>0, <1>2 DEF Select, CallsInv, Goto, ChatTypeOK, Open
  <2>2. Len(calls'[r]) = 1 /\ calls'[r][1] = Selector
    <3>1. Len(calls'[r]) = n + 1 /\ calls'[r][n + 1] = Selector
      BY <1>0, <2>1, CalledFacts
    <3> QED
      BY <2>1, <3>1
  <2> QED
    BY <2>1, <2>2 DEF CallsInv, Before, Open
<1>3. CASE Selected(r) \/ SelectCanceled(r)
  <2>0. PICK how \in {"ok", "error"} : Recorded(r, Selector, how)
    BY <1>3 DEF Selected, SelectCanceled
  <2>1. pc[r] = "select" /\ pc'[r] \in {"plan", "closing"} /\ UNCHANGED calls
    BY <1>0, <1>3 DEF Selected, SelectCanceled, Goto, ChatTypeOK
  <2>2. r \in Autos /\ n = 1 /\ k = 0 /\ calls[r][1] = Selector
    BY <1>0, <2>1 DEF CallsInv, Open, Before
  <2>3. Len(records'[r]) = 1 /\ records'[r][1][1] = Selector
    <3>1. Len(records'[r]) = k + 1 /\ records'[r][k + 1][1] = Selector
      BY <1>0, <2>0, RecordedFacts
    <3> QED
      BY <2>2, <3>1
  <2>4. Before(r)' = 1 /\ Open(r)' = 0
    BY <2>1, <2>2 DEF Before, Open
  <2> QED
    BY <2>1, <2>2, <2>3, <2>4 DEF CallsInv
<1>4. CASE FirstAttempt(r)
  <2> DEFINE first == candidates[r][1]
  <2>1. first \in Models /\ first \in Callees /\ first # Selector
    BY <1>0, <1>4, CandidateFacts, ChatAssumption DEF FirstAttempt, PlanInv, Callees
  <2>2. /\ n = Before(r) /\ k = n /\ pc'[r] = "attempt" /\ index'[r] = 1
        /\ r \in Autos => calls[r][1] = Selector
        /\ \A i \in 1 .. k : records[r][i][1] = calls[r][i]
        /\ UNCHANGED <<records, candidates>> /\ Called(r, first)
    BY <1>0, <1>4 DEF FirstAttempt, Start, CallsInv, Goto, ChatTypeOK, Open, Before, plan
  <2>3. /\ Len(calls'[r]) = n + 1 /\ calls'[r][n + 1] = first
        /\ \A i \in 1 .. n : calls'[r][i] = calls[r][i]
    BY <1>0, <2>1, <2>2, CalledFacts
  <2> HIDE DEF first
  <2>4. first = candidates'[r][1]
    BY <2>2 DEF first
  <2>5. CASE r \in Autos
    <3>1. n = 1 /\ Before(r) = 1 /\ Before(r)' = 1 /\ Open(r)' = 1
      BY <2>2, <2>5 DEF Before, Open
    <3>2. Len(calls'[r]) = 2 /\ calls'[r][1] = Selector /\ calls'[r][2] = first
      BY <2>2, <2>3, <2>5, <3>1
    <3>3. Len(records'[r]) = 1 /\ records'[r][1][1] = calls'[r][1]
      BY <2>2, <2>3, <3>1
    <3> QED
      BY <2>1, <2>2, <2>4, <3>1, <3>2, <3>3 DEF CallsInv
  <2>6. CASE r \notin Autos
    BY <2>1, <2>2, <2>3, <2>4, <2>6 DEF CallsInv, Before, Open
  <2> QED
    BY <2>5, <2>6
<1>5. CASE AttemptOk(r) \/ AttemptFails(r)
  <2>1. /\ pc[r] = "attempt" /\ pc'[r] = "closing" /\ UNCHANGED calls
        /\ \E how \in {"ok", "error"} : Recorded(r, Running(r), how)
    BY <1>0, <1>5 DEF AttemptOk, AttemptFails, Goto, ChatTypeOK
  <2>2. Running(r) \in Callees /\ index[r] \in Nat \ {0}
    BY <1>0, <2>1, RunningFacts DEF Callees, PlanInv
  <2>3. /\ Len(records'[r]) = k + 1 /\ records'[r][k + 1][1] = Running(r) /\ k \in Nat
        /\ \A i \in 1 .. k : records'[r][i] = records[r][i]
    BY <1>0, <2>1, <2>2, RecordedFacts
  <2>4. k + 1 = n /\ n = Before(r) + index[r] /\ calls[r][n] = Running(r)
    <3>1. Open(r) = 1 /\ Before(r) \in {0, 1}
      BY <2>1 DEF Open, Before
    <3>2. n = Before(r) + index[r] /\ k = n - 1
      BY <1>0, <2>1, <2>2, <2>3, <3>1 DEF CallsInv
    <3>3. calls[r][Before(r) + index[r]] = candidates[r][index[r]]
      <4>1. \A i \in 1 .. index[r] : calls[r][Before(r) + i] = candidates[r][i]
        BY <1>0, <2>1 DEF CallsInv
      <4>2. index[r] \in 1 .. index[r]
        BY <2>2
      <4> QED
        BY <4>1, <4>2
    <3> QED
      BY <2>1, <2>3, <3>2, <3>3 DEF Running
  <2>5. \A i \in 1 .. k + 1 : records'[r][i][1] = calls'[r][i]
    <3>1. \A i \in 1 .. k + 1 : i \in 1 .. k \/ i = k + 1
      BY <2>3
    <3>2. \A i \in 1 .. k : records[r][i][1] = calls[r][i]
      BY <1>0 DEF CallsInv
    <3>3. records'[r][k + 1][1] = calls'[r][k + 1]
      BY <2>1, <2>3, <2>4
    <3> QED
      BY <2>1, <2>3, <3>1, <3>2, <3>3
  <2>6. Open(r)' = 0 /\ n - 0 = n /\ n = k + 1
    BY <2>1, <2>3, <2>4 DEF Open
  <2>7. \A i, j \in 1 .. Len(calls'[r]) : calls'[r][i] = calls'[r][j] => i = j
    BY <1>0, <2>1 DEF CallsInv
  <2>8. Len(records'[r]) = Len(calls'[r]) - Open(r)'
    BY <2>1, <2>3, <2>6
  <2> QED
    BY <2>1, <2>3, <2>5, <2>7, <2>8 DEF CallsInv
<1>6. CASE Failover(r)
  <2> DEFINE next == candidates[r][index[r] + 1]
  <2>1. /\ pc[r] = "attempt" /\ pc'[r] = "attempt" /\ index'[r] = index[r] + 1
        /\ candidates' = candidates /\ Called(r, next) /\ Recorded(r, Running(r), "error")
        /\ index[r] < Len(candidates[r])
    BY <1>0, <1>6 DEF Failover, FailsOver, Start, Goto, ChatTypeOK
  <2>2. /\ Running(r) \in Callees /\ next \in Callees /\ next # Selector
        /\ index[r] \in Nat \ {0}
    BY <1>0, <2>1, RunningFacts, ChatAssumption DEF Callees, PlanInv
  <2>3. \A i \in 1 .. index[r] : candidates[r][i] # next
    <3>1. candidates[r] \in Orders /\ index[r] \in 1 .. Len(candidates[r])
      BY <1>0, <2>1 DEF PlanInv
    <3>2. /\ Len(candidates[r]) \in Nat /\ index[r] + 1 \in 1 .. Len(candidates[r])
          /\ \A i \in 1 .. index[r] : i \in 1 .. Len(candidates[r]) /\ i # index[r] + 1
      BY <2>1, <3>1, CandidateFacts
    <3> QED
      BY <3>1, <3>2, CandidateFacts
  <2>4. next = candidates'[r][index'[r]]
    BY <2>1
  <2> HIDE DEF next
  <2>5. /\ Len(records'[r]) = k + 1 /\ records'[r][k + 1][1] = Running(r) /\ k \in Nat
        /\ \A i \in 1 .. k : records'[r][i] = records[r][i]
    BY <1>0, <2>1, <2>2, RecordedFacts
  <2>6. /\ n \in Nat /\ Len(calls'[r]) = n + 1 /\ calls'[r][n + 1] = next
        /\ \A i \in 1 .. n : calls'[r][i] = calls[r][i]
    BY <1>0, <2>1, <2>2, CalledFacts
  <2>7. k + 1 = n /\ n = Before(r) + index[r] /\ calls[r][n] = Running(r)
    <3>1. Open(r) = 1 /\ Before(r) \in {0, 1}
      BY <2>1 DEF Open, Before
    <3>2. n = Before(r) + index[r] /\ k = n - 1
      BY <1>0, <2>1, <2>2, <2>5, <2>6, <3>1 DEF CallsInv
    <3>3. calls[r][Before(r) + index[r]] = candidates[r][index[r]]
      <4>1. \A i \in 1 .. index[r] : calls[r][Before(r) + i] = candidates[r][i]
        BY <1>0, <2>1 DEF CallsInv
      <4>2. index[r] \in 1 .. index[r]
        BY <2>2
      <4> QED
        BY <4>1, <4>2
    <3> QED
      BY <2>1, <2>5, <2>6, <3>2, <3>3 DEF Running
  <2>8. \A i \in 1 .. n : calls[r][i] # next
    <3>1. SUFFICES ASSUME NEW i \in 1 .. n PROVE calls[r][i] # next
      OBVIOUS
    <3>2. CASE r \in Autos /\ i = 1
      BY <1>0, <2>1, <2>2, <3>2 DEF CallsInv
    <3>3. CASE ~(r \in Autos /\ i = 1)
      <4>1. i - Before(r) \in 1 .. index[r] /\ i = Before(r) + (i - Before(r))
        BY <2>2, <2>6, <2>7, <3>3 DEF Before
      <4>2. calls[r][i] = candidates[r][i - Before(r)]
        BY <1>0, <2>1, <4>1 DEF CallsInv
      <4> QED
        BY <2>3, <4>1, <4>2
    <3> QED
      BY <3>2, <3>3
  <2>9. \A i, j \in 1 .. n + 1 : calls'[r][i] = calls'[r][j] => i = j
    <3>1. \A i \in 1 .. n + 1 : i \in 1 .. n \/ i = n + 1
      BY <2>6
    <3> QED
      BY <1>0, <2>6, <2>8, <3>1 DEF CallsInv
  <2>10. \A i \in 1 .. k + 1 : records'[r][i][1] = calls'[r][i]
    <3>1. \A i \in 1 .. k + 1 : i \in 1 .. k \/ i = k + 1
      BY <2>5
    <3>2. \A i \in 1 .. k : records[r][i][1] = calls[r][i]
      BY <1>0 DEF CallsInv
    <3>4. \A i \in 1 .. k : i \in 1 .. n
      BY <2>5, <2>6, <2>7
    <3>3. calls'[r][k + 1] = Running(r)
      <4>1. n \in 1 .. n /\ k + 1 = n
        BY <2>5, <2>6, <2>7
      <4>2. calls'[r][n] = calls[r][n]
        BY <2>6, <4>1
      <4> QED
        BY <2>7, <4>1, <4>2
    <3> QED
      BY <2>5, <2>6, <3>1, <3>2, <3>3, <3>4
  <2>11. \A i \in 1 .. index'[r] : calls'[r][Before(r) + i] = candidates'[r][i]
    <3>1. SUFFICES ASSUME NEW i \in 1 .. index'[r]
                   PROVE  calls'[r][Before(r) + i] = candidates'[r][i]
      OBVIOUS
    <3>2. CASE i = index'[r]
      BY <2>1, <2>2, <2>4, <2>6, <2>7, <3>2 DEF Before
    <3>3. CASE i # index'[r]
      <4>1. i \in 1 .. index[r] /\ Before(r) + i \in 1 .. n
        BY <2>1, <2>2, <2>7, <3>3 DEF Before
      <4> QED
        BY <1>0, <2>1, <2>6, <4>1 DEF CallsInv
    <3> QED
      BY <3>2, <3>3
  <2>12. r \in Autos => calls'[r][1] = Selector
    <3>1. 1 \in 1 .. n
      BY <2>2, <2>6, <2>7 DEF Before
    <3> QED
      BY <1>0, <2>1, <2>6, <3>1 DEF CallsInv
  <2>13. /\ Len(records'[r]) = Len(calls'[r]) - Open(r)'
         /\ Len(calls'[r]) = Before(r)' + index'[r]
    BY <2>1, <2>2, <2>5, <2>6, <2>7 DEF Open, Before
  <2> QED
    BY <2>1, <2>5, <2>6, <2>9, <2>10, <2>11, <2>12, <2>13 DEF CallsInv, Before
<1> QED
  BY <1>1, <1>2, <1>3, <1>4, <1>5, <1>6 DEF Step, Handler

-----------------------------------------------------------------------------
(* The results. *)

LEMMA ChatInvInit == Init => ChatInv
<1> SUFFICES ASSUME Init PROVE ChatInv
  OBVIOUS
<1>1. \A r \in Requests : PlanInv(r) /\ WireInv(r) /\ CallsInv(r)
  <2>1. Len(<<>>) = 0
    OBVIOUS
  <2> SUFFICES ASSUME NEW r \in Requests PROVE PlanInv(r) /\ WireInv(r) /\ CallsInv(r)
    OBVIOUS
  <2>2. /\ pc[r] = "start" /\ candidates[r] = <<>> /\ wire[r] = <<>> /\ calls[r] = <<>>
        /\ records[r] = <<>> /\ ~planReleased[r] /\ ~ended[r]
    BY DEF Init
  <2>3. PlanInv(r)
    BY <2>2 DEF PlanInv
  <2>4. WireInv(r)
    BY <2>1, <2>2 DEF WireInv, Lines
  <2>5. CallsInv(r)
    BY <2>1, <2>2 DEF CallsInv, Open
  <2> QED
    BY <2>3, <2>4, <2>5
<1>2. CountsExact
  <2> SUFFICES ASSUME NEW m \in Models PROVE active[m] = Count(reserved, m)
    BY DEF CountsExact
  <2>1. \A r \in Requests : reserved[r] = NoModel
    BY DEF Init, reserved, Reserved
  <2>2. {r \in Requests : reserved[r] = m} = {}
    BY <2>1, ChatAssumption
  <2>3. Cardinality({}) = 0
    BY FS_EmptySet
  <2> QED
    BY <2>2, <2>3 DEF Count, Init
<1> QED
  BY <1>1, <1>2, TypeInit DEF ChatInv

LEMMA ChatInvStep == ChatInv /\ [Next]_vars => ChatInv'
<1> SUFFICES ASSUME ChatInv, [Next]_vars PROVE ChatInv'
  OBVIOUS
<1>1. ASSUME NEW r \in Requests, Step(r) PROVE ChatInv'
  <2>1. PlanInv(r)' /\ WireInv(r)' /\ CallsInv(r)' /\ ChatTypeOK' /\ CountsExact'
    BY <1>1, TypeStep, PlanStep, WireStep, CallsStep, CountsStep
  <2>2. ASSUME NEW q \in Requests \ {r} PROVE PlanInv(q)' /\ WireInv(q)' /\ CallsInv(q)'
    BY <1>1, <2>2, OthersUntouched, UntouchedKeeps DEF ChatInv
  <2> QED
    BY <2>1, <2>2 DEF ChatInv
<1>2. CASE UNCHANGED vars
  <2>1. \A q \in Requests : Untouched(q)
    BY <1>2 DEF vars, plan, output, Untouched
  <2>2. \A q \in Requests : PlanInv(q)' /\ WireInv(q)' /\ CallsInv(q)' /\ Reserved(q)' = Reserved(q)
    BY <2>1, UntouchedKeeps DEF ChatInv
  <2>3. ChatTypeOK'
    BY <1>2 DEF vars, plan, output, ChatInv, ChatTypeOK
  <2>4. CountsExact'
    BY <1>2, <2>2 DEF vars, ChatInv, CountsExact, Count, reserved
  <2> QED
    BY <2>2, <2>3, <2>4 DEF ChatInv
<1> QED
  BY <1>1, <1>2 DEF Next, Step

\* Types, exact counts, and where every request is in its plan, its stream
\* and its calls, for any number of requests and models.
THEOREM ChatInvariant == Spec => []ChatInv
BY ChatInvInit, ChatInvStep, PTL DEF Spec

\* router.ts: the count of a model is the number of requests planned for it or
\* running on it, whatever fails, hangs or hangs up.
THEOREM CountsMatch == Spec => []ReservationsMatch
<1>1. ChatInv => ReservationsMatch
  <2> SUFFICES ASSUME ChatInv, NEW m \in Models
               PROVE  active[m] =
                        Cardinality({r \in Requests : pc[r] = "attempt" /\ Running(r) = m})
                        + Cardinality({r \in Requests :
                            /\ pc[r] \in {"planned", "closing"} /\ candidates[r] # <<>>
                            /\ ~planReleased[r] /\ candidates[r][1] = m})
    BY DEF ReservationsMatch
  <2> DEFINE A == {r \in Requests : pc[r] = "attempt" /\ Running(r) = m}
             B == {r \in Requests :
                     /\ pc[r] \in {"planned", "closing"} /\ candidates[r] # <<>>
                     /\ ~planReleased[r] /\ candidates[r][1] = m}
  <2>1. {r \in Requests : reserved[r] = m} = A \cup B
    BY ChatAssumption DEF reserved, Reserved
  <2>2. A \cap B = {}
    OBVIOUS
  <2>3. IsFiniteSet(A) /\ IsFiniteSet(B)
    BY FS_Subset, ChatAssumption
  <2>4. active[m] = Cardinality(A \cup B)
    BY <2>1 DEF ChatInv, CountsExact, Count
  <2> HIDE DEF A, B
  <2>5. Cardinality(A) \in Nat /\ Cardinality(B) \in Nat /\ Cardinality({}) = 0
    BY <2>3, FS_CardinalityType, FS_EmptySet
  <2>6. Cardinality(A \cup B) = Cardinality(A) + Cardinality(B)
    <3>1. Cardinality(A \cup B) = Cardinality(A) + Cardinality(B) - Cardinality(A \cap B)
      BY <2>3, FS_Union
    <3>2. Cardinality(A \cap B) = 0
      BY <2>2, <2>5, Zenon
    <3> QED
      BY <2>5, <3>1, <3>2
  <2> QED
    BY <2>4, <2>6 DEF A, B
<1> QED
  BY <1>1, ChatInvariant, PTL

\* chat.ts: the text a client reads is of one model and ends with a verdict
\* and [DONE], and whoever stays is answered.
THEOREM OneVoice == Spec => []OneModelSpeaks
<1>1. ChatInv => OneModelSpeaks
  <2> SUFFICES ASSUME ChatInv PROVE OneModelSpeaks
    OBVIOUS
  <2>1. \A r \in Requests : WireInv(r) /\ DOMAIN wire[r] = 1 .. Lines(r) /\ Lines(r) \in Nat
    BY LenProperties DEF ChatInv, ChatTypeOK, Lines
  <2>2. ASSUME NEW r \in Streams, NEW i \in At(r, "text-delta")
        PROVE  /\ \A j \in At(r, "text-delta") \cup At(r, "finish") :
                     wire[r][j].model = wire[r][i].model
               /\ \A j \in At(r, "failover") : j < i
    BY <2>1 DEF At, WireInv, Requests
  <2>3. ASSUME NEW r \in Requests, NEW i \in At(r, "done")
        PROVE  i = Len(wire[r]) /\ i > 1 /\ wire[r][i - 1].kind \in {"finish", "error"}
    BY <2>1 DEF At, WireInv, Lines
  <2>4. ASSUME NEW r \in Requests, pc[r] = "done", client[r] = "here"
        PROVE  \/ Kinds(r) = <<"refused">>
               \/ IF r \in Streams THEN At(r, "done") # {}
                  ELSE Kinds(r) \in {<<"response">>, <<"502">>}
    <3>1. WireInv(r) /\ DOMAIN wire[r] = 1 .. Lines(r) /\ Lines(r) \in Nat
      BY <2>1
    <3>2. ASSUME NEW kind, Lines(r) = 1, wire[r][1].kind = kind PROVE Kinds(r) = <<kind>>
      <4>1. Kinds(r) = [i \in 1 .. 1 |-> kind]
        BY <3>1, <3>2 DEF Kinds
      <4> QED
        BY <4>1
    <3>3. CASE Lines(r) = 1 /\ wire[r][1].kind = "refused"
      BY <3>2, <3>3
    <3>4. CASE r \in Streams /\ Lines(r) > 0 /\ wire[r][Lines(r)].kind = "done"
      BY <3>1, <3>4 DEF At
    <3>5. CASE r \notin Streams /\ Lines(r) = 1 /\ wire[r][1].kind \in {"response", "502"}
      BY <3>2, <3>5
    <3> QED
      BY <2>4, <3>1, <3>3, <3>4, <3>5 DEF WireInv
  <2> QED
    BY <2>2, <2>3, <2>4 DEF OneModelSpeaks
<1> QED
  BY <1>1, ChatInvariant, PTL

\* chat.ts: every provider call is made once and has its record, in order.
THEOREM EveryCallRecorded == Spec => []CallsRecorded
<1>1. ChatInv => CallsRecorded
  <2> SUFFICES ASSUME ChatInv, NEW r \in Requests
               PROVE  /\ IsInjective(calls[r])
                      /\ [i \in DOMAIN records[r] |-> records[r][i][1]] =
                           SubSeq(calls[r], 1, Len(calls[r]) - Open(r))
    BY DEF CallsRecorded, Open
  <2>1. /\ CallsInv(r) /\ calls[r] \in Seq(Callees) /\ Len(calls[r]) \in Nat
        /\ DOMAIN calls[r] = 1 .. Len(calls[r])
        /\ DOMAIN records[r] = 1 .. Len(records[r]) /\ Len(records[r]) \in Nat
    BY LenProperties DEF ChatInv, ChatTypeOK
  <2>2. IsInjective(calls[r])
    BY <2>1 DEF CallsInv, IsInjective
  <2> DEFINE k == Len(records[r])
             told == [i \in 1 .. k |-> records[r][i][1]]
             made == SubSeq(calls[r], 1, k)
  <2>3. k = Len(calls[r]) - Open(r) /\ k <= Len(calls[r])
    <3>1. k = Len(calls[r]) - Open(r)
      BY <2>1 DEF CallsInv
    <3>2. Open(r) \in {0, 1}
      BY DEF Open
    <3> QED
      BY <2>1, <3>1, <3>2
  <2>4. \A i \in 1 .. k : calls[r][i] \in Callees /\ records[r][i][1] = calls[r][i]
    BY <2>1, <2>3, ElementOfSeq DEF CallsInv
  <2>5. /\ made \in Seq(Callees) /\ Len(made) = k
        /\ \A i \in 1 .. k : made[i] = calls[r][i]
    BY <2>1, <2>4, SubSeqProperties
  <2>6. DOMAIN made = 1 .. k /\ made = [i \in 1 .. k |-> made[i]]
    BY <2>5, LenProperties
  <2>7. told = made
    BY <2>4, <2>5, <2>6
  <2> QED
    BY <2>1, <2>2, <2>3, <2>7
<1> QED
  BY <1>1, ChatInvariant, PTL
=============================================================================
