---------------------------- MODULE Console_proofs ----------------------------
(* What the dashboard promises to the one who uses it, for every number of   *)
(* sessions, changes, selections and configurations, and of answers in       *)
(* flight: the gate, the tokens, team and models pages, the usage page and   *)
(* the routing editor, each by itself, as they share no state.               *)
EXTENDS Gate, Pages, UsagePage, RoutingEditor,
        SequenceTheorems, WellFoundedInduction, TLAPS

-----------------------------------------------------------------------------
(* The gate and the credential: HonouredSessionsKept. *)

Credentials == SessionTokens \cup {Nobody, "setup"}
Messages ==
    [at : {"idle", "status", "session", "view"}, active : Credentials,
     answer : {"none", "no", "ok", "forbidden", "complete", "pending"}]

ServerOK ==
    /\ live \subseteq SessionTokens /\ unissued \subseteq SessionTokens
    /\ live \cap unissued = {}

\* localStorage holds a session whenever this tab uses one.
MemoryOK ==
    /\ credential \in Credentials \ unissued
    /\ stored \in (SessionTokens \cup {Nobody}) \ unissued
    /\ credential \in SessionTokens => stored \in SessionTokens

FormOK == form.answer \in (SessionTokens \cup {"no", "none"}) \ unissued

\* A 401 in flight is about a credential that is no longer honoured, and no
\* request carries a session before it was given out.
Truthful(message) ==
    /\ message \in Messages
    /\ message.active \notin unissued
    /\ message.answer = "no" => message.active \notin live

LoadsOK ==
    /\ loads = [l \in Loads |-> loads[l]]
    /\ \A l \in Loads : Truthful(loads[l])
RequestsOK ==
    /\ requests = [r \in ViewRequests |-> requests[r]]
    /\ \A r \in ViewRequests : Truthful(requests[r])

GateInv == ServerOK /\ MemoryOK /\ FormOK /\ LoadsOK /\ RequestsOK

LEMMA GateInvInit == GateInit => GateInv
BY GateAssumption
   DEF GateInit, GateInv, ServerOK, MemoryOK, FormOK, LoadsOK, RequestsOK, Truthful,
       Messages, Credentials, Asking, Idle, Message, NoForm

-----------------------------------------------------------------------------
\* What an action leaves alone stays as it was.
LEMMA ServerStays ==
    ASSUME ServerOK, UNCHANGED <<live, unissued>> PROVE ServerOK'
BY DEF ServerOK

LEMMA MemoryStays ==
    ASSUME MemoryOK, UNCHANGED <<unissued, credential, stored>> PROVE MemoryOK'
BY DEF MemoryOK

LEMMA FormStays ==
    ASSUME FormOK, UNCHANGED <<unissued, form>> PROVE FormOK'
BY DEF FormOK

\* Sessions that end make no 401 untrue.
LEMMA LoadsStay ==
    ASSUME LoadsOK, live' \subseteq live, UNCHANGED <<unissued, loads>> PROVE LoadsOK'
BY DEF LoadsOK, Truthful

LEMMA RequestsStay ==
    ASSUME RequestsOK, live' \subseteq live, UNCHANGED <<unissued, requests>> PROVE RequestsOK'
BY DEF RequestsOK, Truthful

LEMMA ClearSafe ==
    ASSUME ServerOK, Clear, UNCHANGED unissued PROVE MemoryOK'
BY GateAssumption DEF ServerOK, Clear, MemoryOK, Credentials

LEMMA LaunchSafe ==
    ASSUME ServerOK, LoadsOK, NEW l, Launch(l), UNCHANGED <<live, unissued>>
    PROVE  LoadsOK'
BY GateAssumption
   DEF ServerOK, LoadsOK, Launch, Truthful, Asking, Message, Messages, Credentials

LEMMA LoadSafe ==
    ASSUME ServerOK, LoadsOK, Load, UNCHANGED <<live, unissued>>
    PROVE  LoadsOK'
BY LaunchSafe DEF Load

LEMMA EndSafe ==
    ASSUME ServerOK, LoadsOK, NEW l \in Loads, NEW state, NEW user, End(l, state, user),
           UNCHANGED <<live, unissued>>
    PROVE  LoadsOK' /\ loads'[l] = Idle
BY GateAssumption
   DEF ServerOK, LoadsOK, End, Truthful, Idle, Message, Messages, Credentials

\* A session that was not given out yet is nobody's.
LEMMA IssueSafe ==
    ASSUME GateInv, Issue(NextToken)
    PROVE  /\ ServerOK'
           /\ NextToken \in SessionTokens \ unissued'
           /\ UNCHANGED memory => MemoryOK'
           /\ UNCHANGED form => FormOK'
           /\ UNCHANGED loads => LoadsOK'
           /\ UNCHANGED requests => RequestsOK'
<1>1. NextToken \in unissued
  BY DEF Issue, NextToken
<1> QED
  BY <1>1 DEF Issue, GateInv, ServerOK, MemoryOK, FormOK, LoadsOK, RequestsOK, Truthful, memory

-----------------------------------------------------------------------------
LEMMA AnswersKeep ==
    ASSUME GateInv, GateAnswers PROVE GateInv'
<1> USE DEF GateInv
<1>1. ASSUME NEW l \in Loads, AnswerLoad(l) PROVE GateInv'
  <2>1. LoadsOK'
    <3> DEFINE answer == IF loads[l].at = "session" THEN Verdict(loads[l].active)
                         ELSE IF complete THEN "complete" ELSE "pending"
    <3>1. /\ answer \in {"no", "ok", "forbidden", "complete", "pending"}
          /\ answer = "no" => loads[l].active \notin live
      BY DEF Verdict
    <3>2. loads' = [loads EXCEPT ![l].answer = answer] /\ UNCHANGED <<live, unissued>>
      BY <1>1 DEF AnswerLoad, server
    <3> HIDE DEF answer
    <3> QED
      BY <3>1, <3>2 DEF LoadsOK, Truthful, Messages
  <2> QED
    BY <1>1, <2>1, ServerStays, MemoryStays, FormStays, RequestsStay
       DEF AnswerLoad, server, memory, asked
<1>2. ASSUME NEW l \in Loads, StatusArrives(l) PROVE GateInv'
  <2>1. MemoryOK'
    BY <1>2, ClearSafe, MemoryStays DEF StatusArrives, server, memory
  <2>2. LoadsOK'
    <3>1. CASE loads' = [loads EXCEPT ![l] = Message("session", credential, "none")]
      BY <1>2, <3>1 DEF StatusArrives, server, LoadsOK, MemoryOK, Truthful, Message, Messages
    <3>2. CASE \E state : End(l, state, Nobody)
      BY <1>2, <3>2, EndSafe DEF StatusArrives, server
    <3> QED
      BY <1>2, <3>1, <3>2 DEF StatusArrives
  <2> QED
    BY <1>2, <2>1, <2>2, ServerStays, FormStays, RequestsStay
       DEF StatusArrives, server, asked
<1>3. ASSUME NEW l \in Loads, SessionArrives(l) PROVE GateInv'
  <2>1. MemoryOK'
    BY <1>3, ClearSafe, MemoryStays DEF SessionArrives, server, memory
  <2>2. LoadsOK'
    BY <1>3, LaunchSafe, EndSafe DEF SessionArrives, server
  <2> QED
    BY <1>3, <2>1, <2>2, ServerStays, FormStays, RequestsStay
       DEF SessionArrives, server, asked
<1>4. CASE AnswerForm
  <2>1. CASE Issue(NextToken) /\ form' = [form EXCEPT !.answer = NextToken]
    <3>1. FormOK'
      BY <2>1, IssueSafe DEF FormOK, ServerOK
    <3> QED
      BY <1>4, <2>1, <3>1, IssueSafe DEF AnswerForm, loading
  <2>2. CASE form' = [form EXCEPT !.answer = "no"] /\ UNCHANGED server
    <3>1. FormOK'
      BY <2>2, GateAssumption DEF FormOK, ServerOK, server
    <3> QED
      BY <1>4, <2>2, <3>1, ServerStays, MemoryStays, LoadsStay, RequestsStay
         DEF AnswerForm, server, memory, loading
  <2> QED
    BY <1>4, <2>1, <2>2 DEF AnswerForm
<1>5. CASE FormArrives
  <2>1. MemoryOK'
    BY <1>5, MemoryStays
       DEF FormArrives, SetSession, server, memory, MemoryOK, FormOK, Credentials
  <2>2. LoadsOK'
    BY <1>5, LoadSafe, LoadsStay DEF FormArrives, server, loading
  <2>3. FormOK'
    BY <1>5, GateAssumption DEF FormArrives, NoForm, FormOK, ServerOK, server
  <2> QED
    BY <1>5, <2>1, <2>2, <2>3, ServerStays, RequestsStay DEF FormArrives, server
<1>6. CASE AnswerSignOut
  <2>1. ServerOK' /\ live' \subseteq live
    BY <1>6 DEF AnswerSignOut, ServerOK
  <2> QED
    BY <1>6, <2>1, MemoryStays, FormStays, LoadsStay, RequestsStay
       DEF AnswerSignOut, memory, loading
<1>7. CASE SignOutArrives
  BY <1>7, ServerStays, ClearSafe, FormStays, LoadSafe, RequestsStay
     DEF SignOutArrives, server
<1>8. ASSUME NEW r \in ViewRequests, AnswerView(r) PROVE GateInv'
  <2>1. RequestsOK'
    <3>1. /\ Verdict(requests[r].active) \in {"no", "ok", "forbidden"}
          /\ Verdict(requests[r].active) = "no" => requests[r].active \notin live
      BY DEF Verdict
    <3> QED
      BY <1>8, <3>1 DEF AnswerView, server, RequestsOK, Truthful, Messages
  <2> QED
    BY <1>8, <2>1, ServerStays, MemoryStays, FormStays, LoadsStay
       DEF AnswerView, server, memory, loading
<1>9. ASSUME NEW r \in ViewRequests, ViewArrives(r) PROVE GateInv'
  <2>1. RequestsOK'
    BY <1>9, GateAssumption
       DEF ViewArrives, server, RequestsOK, Truthful, Idle, Message, Messages, Credentials, ServerOK
  <2>2. MemoryOK' /\ LoadsOK'
    BY <1>9, ClearSafe, LoadSafe, MemoryStays, LoadsStay DEF ViewArrives, server, memory, loading
  <2> QED
    BY <1>9, <2>1, <2>2, ServerStays, FormStays DEF ViewArrives, server
<1> QED
  BY <1>1, <1>2, <1>3, <1>4, <1>5, <1>6, <1>7, <1>8, <1>9 DEF GateAnswers

LEMMA UserKeeps ==
    ASSUME GateInv, GateUser PROVE GateInv'
<1> USE DEF GateInv
<1>1. CASE Retry
  BY <1>1, ServerStays, MemoryStays, FormStays, LoadSafe, RequestsStay
     DEF Retry, server, memory, asked
<1>2. CASE VerifySetupToken
  <2>1. MemoryOK'
    BY <1>2, GateAssumption DEF VerifySetupToken, MemoryOK, ServerOK, Credentials, server
  <2> QED
    BY <1>2, <2>1, ServerStays, FormStays, LoadsStay, RequestsStay
       DEF VerifySetupToken, server, loading, asked
<1>3. CASE CancelInvite
  BY <1>3, ServerStays, MemoryStays, FormStays, LoadSafe, RequestsStay
     DEF CancelInvite, server, memory, asked
<1>4. CASE Navigate
  BY <1>4, ServerStays, MemoryStays, FormStays, LoadsStay, RequestsStay
     DEF Navigate, server, memory, loading, asked
<1>5. CASE SignOut
  <2>1. MemoryOK' /\ LoadsOK'
    BY <1>5, ClearSafe, LoadSafe, MemoryStays, LoadsStay DEF SignOut, server, memory, loading
  <2> QED
    BY <1>5, <2>1, ServerStays, FormStays, RequestsStay DEF SignOut, server
<1>6. ASSUME NEW kind \in {"setup", "sign-in", "join"}, Submit(kind) PROVE GateInv'
  <2>1. FormOK'
    BY <1>6, GateAssumption DEF Submit, server, FormOK, ServerOK
  <2> QED
    BY <1>6, <2>1, ServerStays, MemoryStays, LoadsStay, RequestsStay
       DEF Submit, server, memory, loading
<1>7. ASSUME NEW r \in ViewRequests, AskView(r) PROVE GateInv'
  <2>1. RequestsOK'
    BY <1>7 DEF AskView, server, RequestsOK, MemoryOK, Truthful, Message, Messages
  <2> QED
    BY <1>7, <2>1, ServerStays, MemoryStays, FormStays, LoadsStay
       DEF AskView, server, memory, loading
<1> QED
  BY <1>1, <1>2, <1>3, <1>4, <1>5, <1>6, <1>7 DEF GateUser

LEMMA GateInvStep == GateInv /\ [GateNext]_gateVars => GateInv'
<1> SUFFICES ASSUME GateInv, [GateNext]_gateVars PROVE GateInv'
  OBVIOUS
<1>1. ASSUME NEW l \in Loads, LoadFails(l) PROVE GateInv'
  BY <1>1, EndSafe, ServerStays, MemoryStays, FormStays, RequestsStay
     DEF GateInv, LoadFails, server, memory, asked
<1>2. CASE SessionEnds
  <2>1. ServerOK' /\ live' \subseteq live
    BY <1>2 DEF SessionEnds, GateInv, ServerOK
  <2> QED
    BY <1>2, <2>1, MemoryStays, FormStays, LoadsStay, RequestsStay
       DEF GateInv, SessionEnds, memory, loading, asked
<1>3. CASE ServerForgets
  <2>1. ServerOK' /\ live' \subseteq live
    BY <1>3 DEF ServerForgets, GateInv, ServerOK
  <2> QED
    BY <1>3, <2>1, MemoryStays, FormStays, LoadsStay, RequestsStay
       DEF GateInv, ServerForgets, memory, loading, asked
<1>4. CASE OtherTabSignsIn
  <2>1. MemoryOK'
    BY <1>4, IssueSafe DEF OtherTabSignsIn, GateInv, MemoryOK, Issue
  <2> QED
    BY <1>4, <2>1, IssueSafe DEF OtherTabSignsIn, GateInv, loading, asked
<1>5. CASE Reload
  <2>1. MemoryOK'
    BY <1>5 DEF Reload, GateInv, MemoryOK, Credentials, server
  <2>2. FormOK'
    BY <1>5, GateAssumption DEF Reload, GateInv, FormOK, NoForm, ServerOK, server
  <2>3. LoadsOK' /\ RequestsOK'
    BY <1>5, GateAssumption
       DEF Reload, GateInv, ServerOK, LoadsOK, RequestsOK, Truthful, Messages, Credentials,
           Asking, Idle, Message, server
  <2> QED
    BY <1>5, <2>1, <2>2, <2>3, ServerStays DEF Reload, GateInv, server
<1>6. CASE UNCHANGED gateVars
  BY <1>6, ServerStays, MemoryStays, FormStays, LoadsStay, RequestsStay
     DEF GateInv, gateVars, server, memory, loading, asked
<1> QED
  BY <1>1, <1>2, <1>3, <1>4, <1>5, <1>6, AnswersKeep, UserKeeps DEF GateNext

-----------------------------------------------------------------------------
\* The step itself: whoever drops a session the server honours replaces it,
\* signs out, or was told that setup is pending.
LEMMA ReplacesHonoured ==
    ASSUME GateInv, GateNext, credential' # credential, credential \in live
    PROVE  SessionReplaced
<1>1. credential \in SessionTokens /\ credential # "setup"
  BY GateAssumption DEF GateInv, ServerOK
<1>2. ASSUME NEW l \in Loads, StatusArrives(l) PROVE SessionReplaced
  <2>1. loads[l].answer = "pending" /\ \E state : End(l, state, Nobody)
    BY <1>1, <1>2 DEF StatusArrives, memory
  <2>2. loads'[l] = Idle
    BY <1>2, <2>1, EndSafe DEF StatusArrives, server, GateInv
  <2> QED
    BY <2>1, <2>2 DEF SessionReplaced
<1>3. ASSUME NEW l \in Loads, SessionArrives(l) PROVE FALSE
  BY <1>3 DEF SessionArrives, Rejected, memory, GateInv, LoadsOK, Truthful
<1>4. CASE FormArrives
  BY <1>4 DEF FormArrives, SetSession, memory, SessionReplaced, GateInv, FormOK, NoForm
<1>5. CASE SignOutArrives
  BY <1>5 DEF SignOutArrives, SessionReplaced
<1>6. ASSUME NEW r \in ViewRequests, ViewArrives(r) PROVE FALSE
  BY <1>6 DEF ViewArrives, Rejected, memory, GateInv, RequestsOK, Truthful
<1>7. CASE VerifySetupToken
  BY <1>7 DEF VerifySetupToken, SessionReplaced
<1>8. CASE SignOut
  BY <1>1, <1>8 DEF SignOut, memory
<1>9. CASE Reload
  BY <1>1, <1>9 DEF Reload, SessionReplaced, GateInv, MemoryOK
<1>10. UNCHANGED credential \/ FormArrives \/ SignOutArrives \/ VerifySetupToken
       \/ SignOut \/ Reload \/ (\E l \in Loads : StatusArrives(l) \/ SessionArrives(l))
       \/ (\E r \in ViewRequests : ViewArrives(r))
  BY DEF GateNext, GateAnswers, GateUser, AnswerLoad, AnswerForm, AnswerSignOut, AnswerView,
         Retry, CancelInvite, Navigate, Submit, AskView, LoadFails, SessionEnds,
         ServerForgets, OtherTabSignsIn, memory
<1> QED
  BY <1>2, <1>3, <1>4, <1>5, <1>6, <1>7, <1>8, <1>9, <1>10

\* A session the server honours is never forgotten because of a late answer
\* about another one: apiFetch (api.ts) compares the credentials first.
THEOREM SessionsKept == GateSpec => HonouredSessionsKept
<1> DEFINE Kept == credential' # credential /\ credential \in live => SessionReplaced
<1>1. GateInv /\ [GateNext]_gateVars => [Kept]_gateVars
  BY ReplacesHonoured DEF gateVars, memory
<1> QED
  BY <1>1, GateInvInit, GateInvStep, PTL DEF GateSpec, HonouredSessionsKept

-----------------------------------------------------------------------------
(* The gate: NeverSomeoneElse. On a page that saw setup stay complete the    *)
(* form that completes it is answered while the tab has no session, so no    *)
(* load() can be asking for another one.                                     *)

GateShape ==
    /\ loads = [l \in Loads |-> loads[l]]
    /\ newest \in Loads \cup {Nobody}
    /\ form = [kind |-> form.kind, answer |-> form.answer]

NoSession ==
    /\ credential \notin SessionTokens
    /\ \A l \in Loads : loads[l].at # "session"

\* Before setup is complete no load() has heard otherwise, and the form that
\* completes it is on screen and sent only where the tab has no session.
FirstSession ==
    /\ ~complete =>
          /\ \A l \in Loads : loads[l].at # "session" /\ loads[l].answer # "complete"
          /\ form.answer \notin SessionTokens
          /\ gate.state \in {"verify", "setup"} \/ form.kind = "setup"
                => credential \notin SessionTokens
    /\ form.kind = "setup" /\ form.answer \in SessionTokens => NoSession

\* What the newest load() asks about is the session requests carry.
NewestAsks ==
    newest # Nobody /\ loads[newest].at = "session" /\ credential \in SessionTokens
        => loads[newest].active = credential

OneAccount ==
    /\ GateShape
    /\ setupKept => FirstSession /\ NewestAsks
    /\ NeverSomeoneElse

LEMMA OneAccountInit == GateInit => OneAccount
BY GateAssumption
   DEF GateInit, OneAccount, GateShape, FirstSession, NoSession, NewestAsks,
       NeverSomeoneElse, Asking, Idle, Message, NoForm, At

\* What a load() that starts does to those in flight.
Restarted ==
    /\ GateShape' /\ newest' # Nobody /\ loads'[newest'].at = "status"
    /\ \A k \in Loads : /\ loads'[k].at = "session" => loads[k].at = "session"
                        /\ loads'[k].answer = "complete" => loads[k].answer = "complete"

\* A load() that starts is one of them, and asks for the status first.
LEMMA LoadStarts ==
    ASSUME GateShape, NEW l \in Loads, Launch(l),
           form' = [kind |-> form'.kind, answer |-> form'.answer]
    PROVE  Restarted
<1>1. loads' = [loads EXCEPT ![l] = Asking] /\ newest' = l
      /\ Asking.at = "status" /\ Asking.answer = "none"
  BY DEF Launch, Asking, Message
<1> HIDE DEF Asking
<1> QED
  BY <1>1, GateAssumption DEF GateShape, Restarted

LEMMA LoadStartsOne ==
    ASSUME GateShape, Load, form' = [kind |-> form'.kind, answer |-> form'.answer]
    PROVE  Restarted
<1> DEFINE l == CHOOSE l \in IdleLoads : \A k \in IdleLoads : l <= k
<1>1. IdleLoads \subseteq Nat /\ IdleLoads \subseteq Loads /\ IdleLoads # {}
  BY GateAssumption DEF IdleLoads, Load
<1>2. \E i \in IdleLoads : \A k \in IdleLoads : i <= k
  <2>1. \A a, b \in Nat : a < b => <<a, b>> \in OpToRel(<, Nat)
    BY DEF OpToRel
  <2>2. PICK i \in IdleLoads : \A k \in IdleLoads : ~(<<k, i>> \in OpToRel(<, Nat))
    BY <1>1, NatLessThanWellFounded, WFMin
  <2>3. ASSUME NEW k \in IdleLoads PROVE i <= k
    <3>1. i \in Nat /\ k \in Nat
      BY <1>1
    <3>2. ~(k < i)
      BY <2>1, <2>2, <3>1
    <3> QED
      BY <3>1, <3>2
  <2> QED
    BY <2>3
<1>3. l \in Loads
  BY <1>1, <1>2
<1>4. Launch(l)
  BY DEF Load
<1> HIDE DEF l
<1> QED
  BY <1>3, <1>4, LoadStarts

\* After a load() has started everything is asked again.
LEMMA LoadAnswersAll ==
    ASSUME OneAccount, Restarted, setupKept' => FirstSession'
    PROVE  OneAccount'
BY DEF OneAccount, NewestAsks, NeverSomeoneElse, Restarted

LEMMA EndsOne ==
    ASSUME GateShape, NEW l \in Loads, NEW state, NEW user, End(l, state, user),
           UNCHANGED form
    PROVE  /\ GateShape' /\ (newest' = newest \/ newest' = Nobody)
           /\ newest = l => newest' = Nobody /\ gate' = At(state, user)
           /\ newest # l => newest' = newest /\ gate' = gate
           /\ \A k \in Loads : k # l => loads'[k] = loads[k]
           /\ loads'[l].at = "idle" /\ loads'[l].answer = "none"
<1>1. loads' = [loads EXCEPT ![l] = Idle] /\ Idle.at = "idle" /\ Idle.answer = "none"
  BY DEF End, Idle, Message
<1> HIDE DEF Idle
<1> QED
  BY <1>1 DEF End, Settles, GateShape

\* A load() that ends leaves the others as they were.
LEMMA EndKeeps ==
    ASSUME OneAccount, NEW l \in Loads, NEW state, NEW user, End(l, state, user),
           UNCHANGED <<complete, form, setupKept>>,
           UNCHANGED memory \/ Clear,
           state \in {"verify", "setup"} => credential' \notin SessionTokens,
           \/ state # "ready"
           \/ setupKept /\ newest = l => (credential \in SessionTokens => credential = user)
    PROVE  OneAccount'
<1>1. /\ GateShape' /\ (newest' = newest \/ newest' = Nobody)
      /\ newest = l => newest' = Nobody /\ gate' = At(state, user)
      /\ newest # l => newest' = newest /\ gate' = gate
      /\ \A k \in Loads : k # l => loads'[k] = loads[k]
      /\ loads'[l].at = "idle" /\ loads'[l].answer = "none"
  BY EndsOne DEF OneAccount
<1>2. credential' = credential \/ credential' \notin SessionTokens
  BY GateAssumption DEF Clear, memory
<1>3. gate'.state \in {"verify", "setup"} =>
          credential' \notin SessionTokens \/ gate'.state = gate.state
  BY <1>1 DEF At
<1>4. setupKept' => FirstSession'
  <2>1. NoSession => NoSession'
    BY <1>1, <1>2 DEF NoSession
  <2> QED
    BY <1>1, <1>2, <1>3, <2>1 DEF OneAccount, FirstSession
<1>5. setupKept' => NewestAsks'
  BY <1>1, <1>2 DEF OneAccount, NewestAsks, GateShape
<1>6. NeverSomeoneElse'
  BY <1>1, <1>2 DEF OneAccount, NeverSomeoneElse, At
<1> QED
  BY <1>1, <1>4, <1>5, <1>6 DEF OneAccount

\* A load() that starts, with the credential kept or forgotten.
LEMMA LoadKeeps ==
    ASSUME OneAccount, Load \/ \E l \in Loads : Launch(l),
           UNCHANGED <<complete, form, gate, setupKept>>,
           UNCHANGED memory \/ Clear
    PROVE  OneAccount'
<1>1. Restarted
  <2>1. form' = [kind |-> form'.kind, answer |-> form'.answer]
    BY DEF OneAccount, GateShape
  <2> QED
    BY <2>1, LoadStartsOne, LoadStarts DEF OneAccount
<1>2. credential' = credential \/ credential' \notin SessionTokens
  BY GateAssumption DEF Clear, memory
<1>3. setupKept' => FirstSession'
  <2>1. NoSession => NoSession'
    BY <1>1, <1>2 DEF NoSession, Restarted
  <2> QED
    BY <1>1, <1>2, <2>1 DEF OneAccount, FirstSession, Restarted
<1> QED
  BY <1>1, <1>3, LoadAnswersAll

\* A step that neither loads nor changes what is on screen or sent.
LEMMA RestKeeps ==
    ASSUME OneAccount, UNCHANGED <<complete, gate, loading, credential, setupKept>>,
           \/ UNCHANGED form
           \/ /\ form'.answer \notin SessionTokens
              /\ form' = [kind |-> form'.kind, answer |-> form'.answer]
              /\ setupKept /\ ~complete /\ form'.kind = "setup" => credential \notin SessionTokens
    PROVE  OneAccount'
<1>1. NoSession => NoSession'
  BY DEF NoSession, loading
<1>2. setupKept' => FirstSession'
  BY <1>1 DEF OneAccount, FirstSession, loading
<1> QED
  BY <1>2 DEF OneAccount, GateShape, NewestAsks, NeverSomeoneElse, loading

LEMMA OneAccountStep ==
    ASSUME GateInv, OneAccount, [GateNext]_gateVars
    PROVE  OneAccount'
<1>1. ASSUME NEW l \in Loads, AnswerLoad(l) PROVE OneAccount'
  <2> DEFINE answer == IF loads[l].at = "session" THEN Verdict(loads[l].active)
                       ELSE IF complete THEN "complete" ELSE "pending"
  <2>1. loads[l] \in Messages /\ loads' = [loads EXCEPT ![l].answer = answer]
    BY <1>1 DEF AnswerLoad, GateInv, LoadsOK, Truthful
  <2>2. answer = "complete" => complete \/ loads[l].at = "session"
    BY DEF Verdict
  <2> HIDE DEF answer
  <2>3. /\ GateShape'
        /\ \A k \in Loads : /\ loads'[k].at = loads[k].at
                            /\ loads'[k].active = loads[k].active
                            /\ loads'[k].answer = IF k = l THEN answer ELSE loads[k].answer
    BY <1>1, <2>1 DEF AnswerLoad, OneAccount, GateShape, asked, Messages
  <2>4. UNCHANGED <<complete, memory, gate, newest, form, setupKept>>
    BY <1>1 DEF AnswerLoad, server, screen, asked
  <2>5. setupKept' => FirstSession'
    <3>1. NoSession => NoSession'
      BY <2>3, <2>4 DEF NoSession, memory
    <3> QED
      BY <2>2, <2>3, <2>4, <3>1 DEF OneAccount, FirstSession, memory
  <2>6. setupKept' => NewestAsks'
    BY <2>3, <2>4 DEF OneAccount, NewestAsks, GateShape, memory
  <2> QED
    BY <2>3, <2>4, <2>5, <2>6 DEF OneAccount, NeverSomeoneElse, memory
<1>2. ASSUME NEW l \in Loads, StatusArrives(l) PROVE OneAccount'
  <2>1. (UNCHANGED memory \/ Clear) /\ UNCHANGED <<complete, form, setupKept>>
    BY <1>2 DEF StatusArrives, server, asked, memory
  <2>2. CASE \E state \in {"verify", "setup"} :
                 End(l, state, Nobody) /\ credential' \notin SessionTokens
    BY <2>1, <2>2, EndKeeps
  <2>3. CASE End(l, "sign-in", Nobody)
    BY <2>1, <2>3, EndKeeps
  <2>4. CASE /\ loads[l].answer = "complete" /\ credential \in SessionTokens
             /\ loads' = [loads EXCEPT ![l] = Message("session", credential, "none")]
             /\ UNCHANGED <<memory, gate, newest>>
    <3>1. /\ Message("session", credential, "none").active = credential
          /\ Message("session", credential, "none").answer = "none"
      BY DEF Message
    <3>2. /\ GateShape' /\ loads'[l].active = credential
          /\ \A k \in Loads : k # l => loads'[k] = loads[k]
      BY <2>1, <2>4, <3>1 DEF OneAccount, GateShape
    <3>3. setupKept' => FirstSession'
      BY <2>1, <2>4 DEF memory, OneAccount, FirstSession, NoSession
    <3>4. setupKept' => NewestAsks'
      BY <2>1, <2>4, <3>2 DEF memory, OneAccount, NewestAsks, GateShape
    <3> QED
      BY <2>1, <2>4, <3>2, <3>3, <3>4 DEF memory, OneAccount, NeverSomeoneElse
  <2>5. Clear => credential' \notin SessionTokens
    BY GateAssumption DEF Clear
  <2> QED
    BY <1>2, <2>2, <2>3, <2>4, <2>5 DEF StatusArrives, SetupScreen, memory
<1>3. ASSUME NEW l \in Loads, SessionArrives(l) PROVE OneAccount'
  <2>1. UNCHANGED <<complete, form, setupKept>>
    BY <1>3 DEF SessionArrives, server, asked
  <2>2. CASE Clear /\ Launch(l) /\ UNCHANGED gate
    BY <2>1, <2>2, LoadKeeps
  <2>3. CASE UNCHANGED memory /\ End(l, "ready", loads[l].active)
    <3>1. setupKept /\ newest = l => (credential \in SessionTokens => credential = loads[l].active)
      BY <1>3, GateAssumption DEF SessionArrives, OneAccount, NewestAsks
    <3> QED
      BY <2>1, <2>3, <3>1, EndKeeps
  <2>4. CASE UNCHANGED memory /\ \E state \in {"error", "sign-in"} : End(l, state, Nobody)
    BY <2>1, <2>4, EndKeeps
  <2> QED
    BY <1>3, <2>2, <2>3, <2>4 DEF SessionArrives
<1>4. ASSUME NEW l \in Loads, LoadFails(l) PROVE OneAccount'
  <2>1. \E state \in {"error", "sign-in"} : End(l, state, Nobody)
    BY <1>4 DEF LoadFails
  <2>2. UNCHANGED memory /\ UNCHANGED <<complete, form, setupKept>>
    BY <1>4 DEF LoadFails, server, asked
  <2> QED
    BY <2>1, <2>2, EndKeeps
<1>5. CASE AnswerForm
  <2>1. UNCHANGED <<memory, gate, loads, newest, setupKept>>
    BY <1>5 DEF AnswerForm, screen, loading
  <2>2. PICK answer : form' = [form EXCEPT !.answer = answer]
    BY <1>5 DEF AnswerForm
  <2>3. /\ form' = [kind |-> form'.kind, answer |-> form'.answer]
        /\ form'.kind = form.kind /\ form'.answer = answer
    BY <2>2 DEF OneAccount, GateShape
  <2>4. CASE (form.kind = "setup") # complete /\ complete'
    <3>1. setupKept /\ form.kind = "setup" => NoSession'
      BY <2>1, <2>4 DEF OneAccount, FirstSession, NoSession, memory
    <3>2. setupKept' => FirstSession'
      BY <2>1, <2>3, <2>4, <3>1 DEF FirstSession
    <3> QED
      BY <2>1, <2>3, <3>2 DEF memory, OneAccount, GateShape, NewestAsks, NeverSomeoneElse
  <2>5. CASE form' = [form EXCEPT !.answer = "no"] /\ UNCHANGED server
    <3>1. form'.answer \notin SessionTokens
      BY <2>5, GateAssumption DEF OneAccount, GateShape
    <3>2. setupKept /\ ~complete /\ form'.kind = "setup" => credential \notin SessionTokens
      BY <2>3 DEF OneAccount, FirstSession
    <3> QED
      BY <2>1, <2>3, <2>5, <3>1, <3>2, RestKeeps DEF memory, loading, server
  <2> QED
    BY <1>5, <2>4, <2>5 DEF AnswerForm
<1>6. CASE FormArrives
  <2>1. /\ form' = NoForm /\ form'.answer \notin SessionTokens /\ form'.kind # "setup"
        /\ form' = [kind |-> form'.kind, answer |-> form'.answer]
        /\ UNCHANGED <<complete, setupKept>>
    BY <1>6, GateAssumption DEF FormArrives, NoForm, server
  <2>2. setupKept /\ form.answer \in SessionTokens => complete
    BY DEF OneAccount, FirstSession
  <2>3. CASE UNCHANGED <<memory, screen, loading>>
    BY <2>1, <2>3, RestKeeps DEF memory, screen
  <2>4. CASE /\ form.kind = "setup" /\ SetSession(form.answer)
             /\ gate' = At("ready", form.answer) /\ UNCHANGED loading
    <3>1. /\ GateShape' /\ credential' = form.answer
          /\ gate'.user = credential' /\ gate'.state = "ready"
      BY <2>1, <2>4 DEF SetSession, loading, OneAccount, GateShape, At
    <3>2. setupKept /\ form.answer \in SessionTokens => NoSession
      BY <2>4 DEF OneAccount, FirstSession
    <3>3. setupKept' => FirstSession'
      BY <2>1, <2>4, <3>1 DEF OneAccount, FirstSession, loading
    <3>4. setupKept' => NewestAsks'
      BY <2>1, <2>4, <3>1, <3>2 DEF NewestAsks, NoSession, loading, OneAccount, GateShape
    <3> QED
      BY <3>1, <3>3, <3>4 DEF OneAccount, NeverSomeoneElse
  <2>5. CASE SetSession(form.answer) /\ Load /\ UNCHANGED gate
    <3>1. Restarted
      BY <2>1, <2>5, LoadStartsOne DEF OneAccount
    <3>2. credential' = form.answer
      BY <2>5 DEF SetSession
    <3>3. setupKept' => FirstSession'
      BY <2>1, <2>2, <3>1, <3>2 DEF OneAccount, FirstSession, Restarted
    <3> QED
      BY <3>1, <3>3, LoadAnswersAll
  <2> QED
    BY <1>6, <2>3, <2>4, <2>5 DEF FormArrives
<1>7. CASE SignOutArrives
  BY <1>7, LoadKeeps DEF SignOutArrives, server, screen
<1>8. ASSUME NEW r \in ViewRequests, ViewArrives(r) PROVE OneAccount'
  BY <1>8, LoadKeeps, RestKeeps DEF ViewArrives, server, screen, memory
<1>9. CASE Retry
  BY <1>9, LoadKeeps DEF Retry, server, screen, asked
<1>10. CASE CancelInvite
  BY <1>10, LoadKeeps DEF CancelInvite, server, asked
<1>11. CASE SignOut
  BY <1>11, LoadKeeps, RestKeeps DEF SignOut, server, screen, memory
<1>12. CASE VerifySetupToken
  <2>1. credential' \notin SessionTokens /\ UNCHANGED <<complete, loading, form, setupKept>>
    BY <1>12, GateAssumption DEF VerifySetupToken, server, asked
  <2>2. setupKept' => FirstSession'
    BY <2>1 DEF OneAccount, FirstSession, NoSession, loading
  <2> QED
    BY <2>1, <2>2 DEF OneAccount, GateShape, NewestAsks, NeverSomeoneElse, loading
<1>13. ASSUME NEW kind \in {"setup", "sign-in", "join"}, Submit(kind) PROVE OneAccount'
  <2>1. /\ form'.answer \notin SessionTokens /\ form'.kind = kind
        /\ form' = [kind |-> form'.kind, answer |-> form'.answer]
        /\ kind = "setup" => gate.state = "setup"
    BY <1>13, GateAssumption DEF Submit
  <2>2. setupKept /\ ~complete /\ form'.kind = "setup" => credential \notin SessionTokens
    BY <2>1 DEF OneAccount, FirstSession
  <2> QED
    BY <1>13, <2>1, <2>2, RestKeeps DEF Submit, server, screen, memory
<1>14. CASE Reload
  <2>1. /\ Restarted
        /\ \A k \in Loads : loads'[k].at # "session" /\ loads'[k].answer = "none"
    BY <1>14, GateAssumption DEF Reload, GateShape, Restarted, NoForm, Asking, Idle, Message
  <2>2. FirstSession'
    BY <1>14, <2>1, GateAssumption DEF Reload, FirstSession, NoForm, At
  <2> QED
    BY <2>1, <2>2, LoadAnswersAll
<1>15. CASE ServerForgets
  BY <1>15 DEF ServerForgets, OneAccount, GateShape, NeverSomeoneElse, loading, asked
<1>16. \/ OtherTabSignsIn \/ AnswerSignOut \/ Navigate \/ SessionEnds
       \/ \E r \in ViewRequests : AnswerView(r) \/ AskView(r)
       \/ UNCHANGED gateVars
       => OneAccount'
  BY RestKeeps
     DEF OtherTabSignsIn, AnswerSignOut, Navigate, SessionEnds, AnswerView, AskView, gateVars,
         server, screen, asked, memory
<1> QED
  BY <1>1, <1>2, <1>3, <1>4, <1>5, <1>6, <1>7, <1>8, <1>9, <1>10, <1>11, <1>12, <1>13, <1>14,
     <1>15, <1>16
     DEF GateNext, GateAnswers, GateUser

(* While setup stays complete a ready gate never goes on showing one account *)
(* over another's session, for any number of sessions, of loads in flight,   *)
(* and of restarts before the page was opened.                               *)
THEOREM NobodyElse == GateSpec => []NeverSomeoneElse
<1>1. GateInit => GateInv /\ OneAccount
  BY GateInvInit, OneAccountInit
<1>2. GateInv /\ OneAccount /\ [GateNext]_gateVars => (GateInv /\ OneAccount)'
  BY GateInvStep, OneAccountStep
<1>3. OneAccount => NeverSomeoneElse
  BY DEF OneAccount
<1> QED
  BY <1>1, <1>2, <1>3, PTL DEF GateSpec

-----------------------------------------------------------------------------
(* The tokens, team and models pages: OwnChangesShown. *)

RefreshStates == [answer : {"idle", "asked", "ok"}, changes : SUBSET Changes]

PagesTypeOK ==
    /\ page \in {"tokens", "team", "models"}
    /\ applied \subseteq Changes
    /\ refreshes \in [Refreshes -> RefreshStates]
    /\ latest \in Refreshes \cup {0}
    /\ busyLoad \in BOOLEAN /\ failed \in BOOLEAN
    /\ panel \in {"none", "open", "saving"}
    /\ save = [change |-> save.change, answer |-> save.answer]
    /\ save.answer \in {"idle", "asked", "ok", "no"}
    /\ save.answer = "idle" => save = NoSave
    /\ save.answer # "idle" => save.change \in Changes

\* A secret is asked for with the form open, and the form opens over none.
SecretAlone ==
    /\ page = "models" => secret = Nothing /\ unread = {} /\ save.change \notin Issuing
    /\ unread \subseteq {secret} \ {Nothing}
    /\ panel # "none" => secret = Nothing
    /\ page # "models" /\ save.answer # "idle" => panel = "saving"

\* What was saved is in what the server has, and so in what the newest refresh
\* brings: it was asked after the save was answered.
SavedApplied ==
    /\ mine \subseteq applied
    /\ save.answer = "ok" => save.change \in applied
    /\ latest # 0 /\ refreshes[latest].answer = "ok" => mine \subseteq refreshes[latest].changes

\* Without a refresh under way the list is that of the newest one.
ListFollows ==
    page # "models" =>
        /\ busyLoad <=> latest # 0
        /\ latest = 0 /\ list # Nothing /\ ~failed => mine \subseteq list

PagesInv == PagesTypeOK /\ SecretAlone /\ SavedApplied /\ ListFollows

LEMMA PagesInvInit == PagesInit => PagesInv
<1> SUFFICES ASSUME PagesInit PROVE PagesInv
  OBVIOUS
<1>1. /\ refreshes \in [Refreshes -> RefreshStates]
      /\ latest = 1 /\ refreshes[1].answer = "asked"
  BY PagesAssumption DEF PagesInit, Mounting, Asked, Free, RefreshStates
<1>2. save = [change |-> Nothing, answer |-> "idle"]
  BY DEF PagesInit, NoSave
<1>3. PagesTypeOK
  <2>1. save.change = Nothing /\ save.answer = "idle" /\ save = NoSave
    BY <1>2 DEF NoSave
  <2>2. save = [change |-> save.change, answer |-> save.answer]
    BY <1>2, <2>1
  <2> QED
    BY <1>1, <2>1, <2>2, PagesAssumption DEF PagesInit, PagesTypeOK
<1>4. SecretAlone
  BY <1>2, PagesAssumption DEF PagesInit, SecretAlone
<1>5. SavedApplied /\ ListFollows
  BY <1>1, <1>2 DEF PagesInit, SavedApplied, ListFollows
<1> QED
  BY <1>3, <1>4, <1>5 DEF PagesInv

\* A refresh that starts is the newest and has no answer yet.
LEMMA RefreshStarts ==
    ASSUME PagesTypeOK, Refresh
    PROVE  /\ refreshes' \in [Refreshes -> RefreshStates]
           /\ latest' \in Refreshes /\ busyLoad'
           /\ refreshes'[latest'].answer = "asked"
BY PagesAssumption DEF PagesTypeOK, Refresh, Asked, Free, RefreshStates

LEMMA PagesTypeStep == PagesInv /\ [PagesNext]_pageVars => PagesTypeOK'
<1> SUFFICES ASSUME PagesInv, [PagesNext]_pageVars PROVE PagesTypeOK'
  OBVIOUS
<1> USE DEF PagesInv, PagesTypeOK
<1>1. CASE RefreshAgain
  BY <1>1, RefreshStarts DEF RefreshAgain
<1>2. ASSUME NEW r \in Refreshes, AnswerRefresh(r) PROVE PagesTypeOK'
  BY <1>2 DEF AnswerRefresh, RefreshStates
<1>3. ASSUME NEW r \in Refreshes, RefreshArrives(r) \/ RefreshFails(r) PROVE PagesTypeOK'
  <2>1. refreshes' \in [Refreshes -> RefreshStates] /\ latest' \in Refreshes \cup {0}
    BY <1>3 DEF RefreshArrives, RefreshFails, Over, Free, RefreshStates
  <2>2. busyLoad' \in BOOLEAN /\ failed' \in BOOLEAN
    BY <1>3 DEF RefreshArrives, RefreshFails, Over
  <2>3. panel' \in {"none", "open", "saving"} /\ UNCHANGED <<page, applied, save>>
    BY <1>3 DEF RefreshArrives, RefreshFails, ModelsPartly, Over
  <2> QED
    BY <2>1, <2>2, <2>3
<1>4. CASE OpenPanel \/ ClosePanel \/ Dismiss \/ UNCHANGED pageVars
  BY <1>4 DEF OpenPanel, ClosePanel, Dismiss, pageVars
<1>5. ASSUME NEW c \in Changes, SubmitPanel(c) \/ OthersChange(c) PROVE PagesTypeOK'
  BY <1>5 DEF SubmitPanel, OthersChange, NoSave
<1>6. CASE AnswerSave
  BY <1>6 DEF AnswerSave
<1>7. CASE SaveArrives
  BY <1>7, RefreshStarts DEF SaveArrives, NoSave
<1>8. CASE SaveFails
  BY <1>8 DEF SaveFails, NoSave
<1>9. CASE LeaveAndReturn
  BY <1>9, PagesAssumption DEF LeaveAndReturn, Mounting, Asked, Free, NoSave, RefreshStates
<1> QED
  BY <1>1, <1>2, <1>3, <1>4, <1>5, <1>6, <1>7, <1>8, <1>9 DEF PagesNext

LEMMA SecretStep == PagesInv /\ [PagesNext]_pageVars => SecretAlone'
<1> SUFFICES ASSUME PagesInv, [PagesNext]_pageVars PROVE SecretAlone'
  OBVIOUS
<1> USE PagesAssumption DEF PagesInv, SecretAlone
<1>1. CASE RefreshAgain
  BY <1>1 DEF RefreshAgain
<1>2. ASSUME NEW r \in Refreshes, AnswerRefresh(r) PROVE SecretAlone'
  BY <1>2 DEF AnswerRefresh
<1>3. ASSUME NEW r \in Refreshes, RefreshArrives(r) \/ RefreshFails(r) PROVE SecretAlone'
  BY <1>3 DEF RefreshArrives, RefreshFails, ModelsPartly, Over
<1>4. CASE OpenPanel \/ ClosePanel \/ UNCHANGED pageVars
  BY <1>4 DEF OpenPanel, ClosePanel, Busy, pageVars, PagesTypeOK
<1>5. ASSUME NEW c \in Changes, SubmitPanel(c) \/ OthersChange(c) PROVE SecretAlone'
  BY <1>5 DEF SubmitPanel, OthersChange
<1>6. CASE AnswerSave
  <2>1. save'.change = save.change
    BY <1>6 DEF AnswerSave, PagesTypeOK
  <2> QED
    BY <1>6, <2>1 DEF AnswerSave
<1>7. CASE SaveArrives
  BY <1>7 DEF SaveArrives, NoSave, PagesTypeOK
<1>8. CASE SaveFails
  BY <1>8 DEF SaveFails, NoSave, PagesTypeOK
<1>9. CASE LeaveAndReturn
  BY <1>9 DEF LeaveAndReturn, NoSave
<1>10. CASE Dismiss
  BY <1>10 DEF Dismiss
<1> QED
  BY <1>1, <1>2, <1>3, <1>4, <1>5, <1>6, <1>7, <1>8, <1>9, <1>10 DEF PagesNext

LEMMA ListStep == PagesInv /\ [PagesNext]_pageVars => SavedApplied' /\ ListFollows'
<1> SUFFICES ASSUME PagesInv, [PagesNext]_pageVars PROVE SavedApplied' /\ ListFollows'
  OBVIOUS
<1> USE PagesAssumption DEF PagesInv, SavedApplied, ListFollows
<1>1. CASE RefreshAgain
  BY <1>1, RefreshStarts DEF RefreshAgain
<1>2. ASSUME NEW r \in Refreshes, AnswerRefresh(r) PROVE SavedApplied' /\ ListFollows'
  BY <1>2 DEF AnswerRefresh, PagesTypeOK
<1>3. ASSUME NEW r \in Refreshes, RefreshArrives(r) PROVE SavedApplied' /\ ListFollows'
  BY <1>3 DEF RefreshArrives, Over, Current, Free, PagesTypeOK
<1>4. ASSUME NEW r \in Refreshes, RefreshFails(r) PROVE SavedApplied' /\ ListFollows'
  BY <1>4 DEF RefreshFails, ModelsPartly, Over, Current, Free, PagesTypeOK
<1>5. CASE OpenPanel \/ ClosePanel \/ Dismiss \/ UNCHANGED pageVars
  BY <1>5 DEF OpenPanel, ClosePanel, Dismiss, pageVars
<1>6. ASSUME NEW c \in Changes, SubmitPanel(c) \/ OthersChange(c)
      PROVE  SavedApplied' /\ ListFollows'
  BY <1>6 DEF SubmitPanel, OthersChange
<1>7. CASE AnswerSave
  <2>1. /\ save'.change = save.change
        /\ applied \subseteq applied'
        /\ save'.answer = "ok" => save.change \in applied'
    BY <1>7 DEF AnswerSave, PagesTypeOK
  <2>2. UNCHANGED <<page, list, busyLoad, failed, refreshes, latest, mine>>
    BY <1>7 DEF AnswerSave
  <2> QED
    BY <2>1, <2>2
<1>8. CASE SaveArrives
  BY <1>8, RefreshStarts DEF SaveArrives, NoSave
<1>9. CASE SaveFails
  BY <1>9 DEF SaveFails, NoSave
<1>10. CASE LeaveAndReturn
  BY <1>10 DEF LeaveAndReturn, Mounting, Asked, Free, NoSave
<1> QED
  BY <1>1, <1>2, <1>3, <1>4, <1>5, <1>6, <1>7, <1>8, <1>9, <1>10 DEF PagesNext

\* No refresh, save or panel takes away a change or a secret of the user.
THEOREM ChangesStay == PagesSpec => []OwnChangesShown
<1>1. PagesInv /\ [PagesNext]_pageVars => PagesInv'
  BY PagesTypeStep, SecretStep, ListStep DEF PagesInv
<1>2. PagesInv => OwnChangesShown
  BY DEF PagesInv, SecretAlone, ListFollows, OwnChangesShown
<1> QED
  BY <1>1, <1>2, PagesInvInit, PTL DEF PagesSpec

-----------------------------------------------------------------------------
(* The usage page: ExactlyOneLoop. *)

EffectStates ==
    [key : Selections \cup {NoReport}, fetch : {"none", "asked", "ok", "failed"},
     timer : BOOLEAN, stopped : BOOLEAN]

UsageTypeOK ==
    /\ selected \in Selections
    /\ effects \in [Effects -> EffectStates]
    /\ running \in Effects \cup {0}

\* What is left of an effect that was cleaned up: nothing, or an answer whose
\* continuation has not run yet.
LeftOver(e) ==
    e = NoEffect \/ (e.stopped /\ ~e.timer /\ e.fetch \in {"ok", "failed"})

\* The effect of the page fetches or waits, and never both.
AtWork(e) ==
    /\ ~e.stopped /\ e.key = selected
    /\ e.timer => e.fetch = "none"
    /\ ~e.timer => e.fetch # "none"

OthersOver == \A e \in Effects : e # running => LeftOver(effects[e])
RunningAtWork == running # 0 => AtWork(effects[running])
ReportNamed == report = loadedKey

UsageInv == UsageTypeOK /\ OthersOver /\ RunningAtWork /\ ReportNamed

LEMMA UsageInvInit == UsageInit => UsageInv
BY UsageAssumption DEF UsageInit, UsageInv, UsageTypeOK, EffectStates, OthersOver,
   RunningAtWork, AtWork, ReportNamed, LeftOver, Started, NoEffect

\* After the cleanup every effect is left over.
LEMMA CleanupStops ==
    ASSUME UsageInv
    PROVE  /\ AfterCleanup \in [Effects -> EffectStates]
           /\ \A e \in Effects : LeftOver(AfterCleanup[e])
<1>1. ASSUME NEW e \in Effects
      PROVE  AfterCleanup[e] \in EffectStates /\ LeftOver(AfterCleanup[e])
  <2>1. effects[e] \in EffectStates
    BY DEF UsageInv, UsageTypeOK
  <2>2. CASE e # running
    BY <2>1, <2>2 DEF AfterCleanup, UsageInv, OthersOver
  <2>3. CASE e = running
    <3>1. AfterCleanup[e] = Stopped(effects[e])
      BY <2>3 DEF AfterCleanup
    <3>2. Stopped(effects[e]) \in EffectStates /\ LeftOver(Stopped(effects[e]))
      BY <2>1 DEF Stopped, EffectStates, LeftOver, NoEffect
    <3> QED
      BY <3>1, <3>2
  <2> QED
    BY <2>2, <2>3
<1> QED
  BY <1>1 DEF AfterCleanup

LEMMA UsageInvStep == UsageInv /\ [UsageNext]_usageVars => UsageInv'
<1> SUFFICES ASSUME UsageInv, [UsageNext]_usageVars PROVE UsageInv'
  OBVIOUS
<1>1. ASSUME NEW k \in Selections, Select(k) PROVE UsageInv'
  <2>1. PICK e \in Effects : /\ effects' = [AfterCleanup EXCEPT ![e] = Started(k)]
                             /\ running' = e
    BY <1>1 DEF Select
  <2>2. UsageTypeOK'
    BY <1>1, <2>1, CleanupStops DEF Select, UsageTypeOK, EffectStates, Started
  <2>3. OthersOver' /\ RunningAtWork' /\ ReportNamed'
    BY <1>1, <2>1, CleanupStops
       DEF Select, UsageInv, OthersOver, RunningAtWork, AtWork, LeftOver, ReportNamed, Started
  <2> QED
    BY <2>2, <2>3 DEF UsageInv
<1>2. CASE Leave
  BY <1>2, CleanupStops
     DEF Leave, UsageInv, UsageTypeOK, OthersOver, RunningAtWork, LeftOver, ReportNamed
<1>3. CASE Return
  <2>1. PICK k \in Selections :
            selected' = k /\ effects' = [effects EXCEPT ![1] = Started(k)]
    BY <1>3 DEF Return
  <2> QED
    BY <1>3, <2>1, UsageAssumption
       DEF Return, UsageInv, UsageTypeOK, EffectStates, OthersOver, RunningAtWork, AtWork,
           LeftOver, ReportNamed, Started
<1>4. ASSUME NEW e \in Effects, AnswerReport(e) PROVE UsageInv'
  <2>1. PICK answer \in {"ok", "failed"} : effects' = [effects EXCEPT ![e].fetch = answer]
    BY <1>4 DEF AnswerReport
  <2>2. e = running
    BY <1>4 DEF AnswerReport, UsageInv, OthersOver, LeftOver, NoEffect
  <2> QED
    BY <1>4, <2>1, <2>2, UsageAssumption
       DEF AnswerReport, UsageInv, UsageTypeOK, EffectStates, OthersOver, RunningAtWork,
           AtWork, LeftOver, ReportNamed
<1>5. ASSUME NEW e \in Effects, ReportArrives(e) PROVE UsageInv'
  <2> DEFINE next == IF effects[e].stopped THEN NoEffect
                     ELSE [effects[e] EXCEPT !.fetch = "none", !.timer = TRUE]
  <2>a. effects[e] \in EffectStates
    BY DEF UsageInv, UsageTypeOK
  <2>b. /\ effects' = [effects EXCEPT ![e] = next]
        /\ UNCHANGED <<selected, running>>
    BY <1>5 DEF ReportArrives, Rearms
  <2>c. next \in EffectStates
    BY <2>a DEF EffectStates, NoEffect
  <2>d. e # running => next = NoEffect
    BY <1>5 DEF ReportArrives, UsageInv, OthersOver, LeftOver, NoEffect
  <2>e. e = running => AtWork(effects[e])
    BY UsageAssumption DEF UsageInv, RunningAtWork
  <2>f. e = running => ~next.stopped /\ next.key = selected /\ next.timer /\ next.fetch = "none"
    BY <2>a, <2>e DEF AtWork, EffectStates
  <2> HIDE DEF next
  <2>1. UsageTypeOK'
    BY <2>b, <2>c DEF UsageInv, UsageTypeOK
  <2>2. OthersOver' /\ RunningAtWork'
    BY <2>b, <2>d, <2>f, UsageAssumption
       DEF UsageInv, UsageTypeOK, OthersOver, RunningAtWork, AtWork, LeftOver
  <2>3. ReportNamed'
    BY <1>5 DEF ReportArrives, UsageInv, ReportNamed
  <2> QED
    BY <2>1, <2>2, <2>3 DEF UsageInv
<1>6. ASSUME NEW e \in Effects, Poll(e) PROVE UsageInv'
  <2>1. e = running
    BY <1>6 DEF Poll, UsageInv, OthersOver, LeftOver, NoEffect
  <2> QED
    BY <1>6, <2>1, UsageAssumption
       DEF Poll, UsageInv, UsageTypeOK, EffectStates, OthersOver, RunningAtWork, AtWork,
           LeftOver, ReportNamed
<1>7. CASE Hide
  BY <1>7 DEF Hide, UsageInv, UsageTypeOK, OthersOver, RunningAtWork, AtWork, LeftOver, ReportNamed
<1>8. CASE UNCHANGED usageVars
  BY <1>8 DEF usageVars, UsageInv, UsageTypeOK, OthersOver, RunningAtWork, AtWork, LeftOver, ReportNamed
<1> QED
  BY <1>1, <1>2, <1>3, <1>4, <1>5, <1>6, <1>7, <1>8 DEF UsageNext

\* While the page is open exactly one loop keeps it fresh, and no answer to an
\* older selection is shown.
THEOREM OneLoop == UsageSpec => []ExactlyOneLoop
<1>1. UsageInv => ExactlyOneLoop
  <2> SUFFICES ASSUME UsageInv PROVE ExactlyOneLoop
    OBVIOUS
  <2>1. \A e \in Effects : effects[e].timer => e = running
    BY DEF UsageInv, OthersOver, LeftOver, NoEffect
  <2>2. running # 0 =>
            /\ effects[running].key = selected
            /\ effects[running].timer # (effects[running].fetch # "none")
    BY DEF UsageInv, UsageTypeOK, EffectStates, RunningAtWork, AtWork
  <2>3. Shown \in {selected, NoReport}
    BY DEF UsageInv, ReportNamed, Shown
  <2> QED
    BY <2>1, <2>2, <2>3 DEF ExactlyOneLoop
<1> QED
  BY <1>1, UsageInvInit, UsageInvStep, PTL DEF UsageSpec

-----------------------------------------------------------------------------
(* The routing editor: EditsKept. *)

\* A load is out only while the page has no configuration, and so no save.
LoadingAlone ==
    /\ routingLoad.answer \in {"idle", "asked", "ok"}
    /\ routingLoad.answer = "idle" => routingLoad = FreeLoad
    /\ routingLoad.answer # "idle" => config = NoConfig /\ ~saving

\* What is being saved is what the fields show; they are disabled.
SavingShown ==
    /\ put = [config |-> put.config, answer |-> put.answer]
    /\ put.answer \in {"idle", "asked", "ok", "refused", "left"}
    /\ saving => put.config = config /\ config # NoConfig /\ dirty

\* What the server has, as long as nobody else saves.
ServedKnown ==
    /\ othersSaved \in BOOLEAN
    /\ put.answer = "left" => othersSaved
    /\ ~othersSaved =>
          /\ routingLoad.answer = "ok" => routingLoad.config = served
          /\ put.answer = "ok" => put.config = served

EditorInv == LoadingAlone /\ SavingShown /\ ServedKnown /\ EditsKept

LEMMA EditorInvInit == EditorInit => EditorInv
<1> SUFFICES ASSUME EditorInit PROVE EditorInv
  OBVIOUS
<1>1. put = [config |-> NoConfig, answer |-> "idle"]
  BY DEF EditorInit, NoPut
<1>2. routingLoad = [answer |-> "asked", config |-> NoConfig]
  BY DEF EditorInit, AskedLoad
<1>3. config = NoConfig /\ draft = NoConfig
  BY DEF EditorInit
<1>4. ~saving
  BY <1>1 DEF saving
<1>5. LoadingAlone
  BY <1>2, <1>3, <1>4 DEF LoadingAlone
<1>6. SavingShown /\ ServedKnown
  <2>1. put.config = NoConfig /\ put.answer = "idle" /\ routingLoad.answer = "asked"
    BY <1>1, <1>2
  <2>2. put = [config |-> put.config, answer |-> put.answer]
    BY <1>1, <2>1
  <2> QED
    BY <1>4, <2>1, <2>2 DEF EditorInit, SavingShown, ServedKnown
<1>7. EditsKept
  BY <1>3 DEF EditsKept
<1> QED
  BY <1>5, <1>6, <1>7 DEF EditorInv

\* Whatever an edit makes of the configuration.
LEMMA EditKeeps ==
    ASSUME EditorInv, NEW next, Edit(next)
    PROVE  EditorInv'
BY DEF Edit, Editable, editorRequests, EditorInv, LoadingAlone, SavingShown,
       ServedKnown, EditsKept, FreeLoad, saving

\* The steps of the browser that send nothing and receive nothing.
LEMMA IdleKeeps ==
    ASSUME EditorInv,
           UNCHANGED <<served, othersSaved, editorPage, editorRequests, draft>>
    PROVE  EditorInv'
BY DEF editorPage, editorRequests, EditorInv, LoadingAlone, SavingShown,
       ServedKnown, EditsKept, FreeLoad, saving

\* Adding or removing anything is an edit.
LEMMA ListEdits ==
    ASSUME EditorInv, EditAuto \/ EditPools \/ EditPolicies \/ EditDetails
    PROVE  EditorInv'
<1>1. CASE EditAuto
  BY <1>1, EditKeeps DEF EditAuto
<1>2. CASE EditPools
  BY <1>2, EditKeeps DEF EditPools
<1>3. CASE EditPolicies
  BY <1>3, EditKeeps DEF EditPolicies
<1>4. CASE EditDetails
  BY <1>4, EditKeeps DEF EditDetails
<1> QED
  BY <1>1, <1>2, <1>3, <1>4

LEMMA EditorInvStep == EditorInv /\ [EditorNext]_editorVars => EditorInv'
<1> SUFFICES ASSUME EditorInv, [EditorNext]_editorVars PROVE EditorInv'
  OBVIOUS
<1> USE DEF EditorInv, LoadingAlone, SavingShown, ServedKnown, EditsKept, editorPage,
            saving, NoPut, FreeLoad
<1>1. CASE RetryRouting
  BY <1>1 DEF RetryRouting, AskedLoad
<1>2. CASE AnswerRouting
  BY <1>2 DEF AnswerRouting
<1>3. CASE RoutingArrives
  BY <1>3 DEF RoutingArrives
<1>4. CASE EditAuto \/ EditPools \/ EditPolicies \/ EditDetails
  BY <1>4, ListEdits
<1>5. CASE Choose \/ TryRouting \/ TrialAnswered \/ UNCHANGED editorVars
  BY <1>5, IdleKeeps DEF Choose, TryRouting, TrialAnswered, editorVars
<1>6. CASE SaveRouting
  BY <1>6 DEF SaveRouting, Editable
<1>7. CASE AnswerPut
  <2>1. PICK answer \in {"ok", "refused"} :
            /\ put' = IF put.answer = "left" THEN NoPut ELSE [put EXCEPT !.answer = answer]
            /\ answer = "ok" => served' = put.config
            /\ answer = "refused" => served' = served
    BY <1>7 DEF AnswerPut
  <2>2. CASE put.answer = "left"
    BY <1>7, <2>1, <2>2 DEF AnswerPut
  <2>3. CASE put.answer = "asked"
    BY <1>7, <2>1, <2>3 DEF AnswerPut
  <2> QED
    BY <1>7, <2>2, <2>3 DEF AnswerPut
<1>8. CASE PutArrives
  <2>1. /\ othersSaved' = (othersSaved \/ put.answer = "asked")
        /\ UNCHANGED <<served, routingLoad, draft>>
        /\ routingLoad = FreeLoad /\ config' = config /\ dirty
    BY <1>8 DEF PutArrives
  <2>2. CASE put.answer = "asked"
    BY <1>8, <2>1, <2>2 DEF PutArrives
  <2>3. CASE put.answer # "asked"
    <3>1. put' = NoPut /\ othersSaved' = othersSaved
      BY <1>8, <2>1, <2>3 DEF PutArrives
    <3>2. dirty' = dirty \/ put.answer = "ok"
      BY <1>8 DEF PutArrives
    <3> QED
      BY <2>1, <3>1, <3>2
  <2> QED
    BY <2>2, <2>3
<1>9. CASE OthersSave
  BY <1>9 DEF OthersSave, editorRequests
<1>10. CASE ReopenEditor
  BY <1>10 DEF ReopenEditor, AskedLoad
<1> QED
  BY <1>1, <1>2, <1>3, <1>4, <1>5, <1>6, <1>7, <1>8, <1>9, <1>10 DEF EditorNext

\* No answer replaces an edit, and what the page shows as saved is what the
\* server routes by unless somebody else saved.
THEOREM EditsSurvive == EditorSpec => []EditsKept
<1>1. EditorInv => EditsKept
  BY DEF EditorInv
<1> QED
  BY <1>1, EditorInvInit, EditorInvStep, PTL DEF EditorSpec
-----------------------------------------------------------------------------
(* The lists of the routing editor's configurations: KeepsShape. *)

Distinct(s) == s \in Seq(ToSet(s)) /\ IsInjective(s)

LEMMA DistinctFacts ==
    ASSUME NEW s, Distinct(s)
    PROVE  /\ Len(s) \in Nat /\ DOMAIN s = 1 .. Len(s)
           /\ ToSet(s) = {s[i] : i \in 1 .. Len(s)}
           /\ \A i, j \in 1 .. Len(s) : s[i] = s[j] => i = j
<1>1. Len(s) \in Nat /\ DOMAIN s = 1 .. Len(s)
  BY LenProperties DEF Distinct
<1> QED
  BY <1>1 DEF Distinct, ToSet, IsInjective

LEMMA DistinctIf ==
    ASSUME NEW S, NEW s \in Seq(S), \A i, j \in 1 .. Len(s) : s[i] = s[j] => i = j
    PROVE  Distinct(s) /\ ToSet(s) = {s[i] : i \in 1 .. Len(s)}
<1>1. DOMAIN s = 1 .. Len(s)
  BY LenProperties
<1>2. Range(s) = ToSet(s) /\ s \in Seq(Range(s))
  BY SeqOfRange DEF Range, ToSet
<1> QED
  BY <1>1, <1>2 DEF Distinct, ToSet, IsInjective

LEMMA EmptyDistinct == Distinct(<<>>) /\ ToSet(<<>>) = {}
<1>1. <<>> \in Seq({}) /\ Len(<<>>) = 0
  BY EmptySeq
<1> DEFINE t == <<>>
<1>2. t \in Seq({}) /\ 1 .. Len(t) = {}
  BY <1>1
<1> HIDE DEF t
<1>3. Distinct(t) /\ ToSet(t) = {t[i] : i \in 1 .. Len(t)}
  BY <1>2, DistinctIf
<1>4. ToSet(t) = {}
  BY <1>2, <1>3
<1> QED
  BY <1>3, <1>4 DEF t

LEMMA AppendDistinct ==
    ASSUME NEW s, Distinct(s), NEW x, x \notin ToSet(s)
    PROVE  Distinct(Append(s, x)) /\ ToSet(Append(s, x)) = ToSet(s) \cup {x}
<1> DEFINE S == ToSet(s) \cup {x}
           t == Append(s, x)
<1>1. /\ Len(s) \in Nat /\ ToSet(s) = {s[i] : i \in 1 .. Len(s)}
      /\ \A i, j \in 1 .. Len(s) : s[i] = s[j] => i = j
  BY DistinctFacts
<1>2. s \in Seq(S) /\ x \in S
  <2>1. ToSet(s) \subseteq S /\ s \in Seq(ToSet(s))
    BY DEF Distinct
  <2> HIDE DEF S
  <2>2. s \in Seq(S)
    BY <2>1, SeqMonotonic
  <2> QED
    BY <2>2 DEF S
<1> HIDE DEF S
<1>3. /\ t \in Seq(S) /\ Len(t) = Len(s) + 1 /\ t[Len(s) + 1] = x
      /\ \A i \in 1 .. Len(s) : t[i] = s[i]
  BY <1>2, AppendProperties
<1> HIDE DEF t
<1>4. 1 .. Len(t) = (1 .. Len(s)) \cup {Len(s) + 1}
  BY <1>1, <1>3
<1>5. \A i \in 1 .. Len(s) : s[i] # x
  BY <1>1
<1>6. \A i, j \in 1 .. Len(t) : t[i] = t[j] => i = j
  BY <1>1, <1>3, <1>4, <1>5
<1>7. Distinct(t) /\ ToSet(t) = {t[i] : i \in 1 .. Len(t)}
  BY <1>3, <1>6, DistinctIf
<1>8. ToSet(t) = ToSet(s) \cup {x}
  BY <1>1, <1>3, <1>4, <1>7
<1> QED
  BY <1>7, <1>8 DEF t

LEMMA WithoutDistinct ==
    ASSUME NEW s, Distinct(s), NEW x \in ToSet(s)
    PROVE  Distinct(Without(s, x)) /\ ToSet(Without(s, x)) = ToSet(s) \ {x}
<1> DEFINE k == CHOOSE i \in DOMAIN s : s[i] = x
           n == Len(s)
           a == SubSeq(s, 1, k - 1)
           b == SubSeq(s, k + 1, n)
           t == a \o b
           S == ToSet(s)
<1>1. /\ n \in Nat /\ DOMAIN s = 1 .. n /\ S = {s[i] : i \in 1 .. n}
      /\ \A i, j \in 1 .. n : s[i] = s[j] => i = j
      /\ s \in Seq(S)
  BY DistinctFacts DEF Distinct
<1>2. k \in 1 .. n /\ s[k] = x
  <2>1. \E i \in DOMAIN s : s[i] = x
    BY <1>1
  <2> QED
    BY <1>1, <2>1
<1>3. Without(s, x) = t
  BY DEF Without, RemoveAt
<1> HIDE DEF k, S, n
<1>4. \A i \in 1 .. n : s[i] \in S
  BY <1>1
<1>5. /\ a \in Seq(S) /\ Len(a) = k - 1 /\ \A i \in 1 .. k - 1 : a[i] = s[i]
  <2>1. \A i \in 1 .. k - 1 : s[i] \in S
    BY <1>1, <1>2, <1>4
  <2>2. 1 \in Int /\ k - 1 \in Int /\ (IF 1 <= k - 1 THEN (k - 1) - 1 + 1 ELSE 0) = k - 1
    BY <1>1, <1>2
  <2>3. /\ a \in Seq(S) /\ Len(a) = IF 1 <= k - 1 THEN (k - 1) - 1 + 1 ELSE 0
        /\ \A i \in 1 .. (k - 1) - 1 + 1 : a[i] = s[1 + i - 1]
    BY <1>1, <2>1, <2>2, SubSeqProperties
  <2> HIDE DEF a
  <2> QED
    BY <1>1, <1>2, <2>2, <2>3
<1>6. /\ b \in Seq(S) /\ Len(b) = n - k /\ \A i \in 1 .. n - k : b[i] = s[k + i]
  <2>1. \A i \in k + 1 .. n : s[i] \in S
    BY <1>1, <1>2, <1>4
  <2>2. k + 1 \in Int /\ n \in Int /\ (IF k + 1 <= n THEN n - (k + 1) + 1 ELSE 0) = n - k
    BY <1>1, <1>2
  <2>3. /\ b \in Seq(S) /\ Len(b) = IF k + 1 <= n THEN n - (k + 1) + 1 ELSE 0
        /\ \A i \in 1 .. n - (k + 1) + 1 : b[i] = s[(k + 1) + i - 1]
    BY <1>1, <2>1, <2>2, SubSeqProperties
  <2> HIDE DEF b
  <2>4. n - (k + 1) + 1 = n - k /\ \A i \in 1 .. n - k : (k + 1) + i - 1 = k + i
    BY <1>1, <1>2
  <2> QED
    BY <2>2, <2>3, <2>4
<1> HIDE DEF a, b
<1>7. /\ t \in Seq(S) /\ Len(t) = Len(a) + Len(b)
      /\ \A i \in 1 .. Len(a) + Len(b) : t[i] = IF i <= Len(a) THEN a[i] ELSE b[i - Len(a)]
  BY <1>5, <1>6, ConcatProperties
<1> HIDE DEF t
<1>8. Len(t) = n - 1
  BY <1>1, <1>2, <1>5, <1>6, <1>7
<1>9. \A i \in 1 .. n - 1 : t[i] = IF i < k THEN s[i] ELSE s[i + 1]
  <2> SUFFICES ASSUME NEW i \in 1 .. n - 1
               PROVE  t[i] = IF i < k THEN s[i] ELSE s[i + 1]
    OBVIOUS
  <2>1. CASE i < k
    BY <1>1, <1>2, <1>5, <1>6, <1>7, <2>1
  <2>2. CASE ~(i < k)
    <3>1. i - (k - 1) \in 1 .. n - k /\ k + (i - (k - 1)) = i + 1
      BY <1>1, <1>2, <2>2
    <3>2. t[i] = b[i - (k - 1)]
      BY <1>1, <1>2, <1>5, <1>6, <1>7, <2>2
    <3> QED
      BY <1>6, <2>2, <3>1, <3>2
  <2> QED
    BY <2>1, <2>2
<1>10. \A i, j \in 1 .. n - 1 : t[i] = t[j] => i = j
  <2> SUFFICES ASSUME NEW i \in 1 .. n - 1, NEW j \in 1 .. n - 1, t[i] = t[j] PROVE i = j
    OBVIOUS
  <2> DEFINE from(m) == IF m < k THEN m ELSE m + 1
  <2>1. from(i) \in 1 .. n /\ from(j) \in 1 .. n
    BY <1>1, <1>2
  <2>2. t[i] = s[from(i)] /\ t[j] = s[from(j)]
    BY <1>9
  <2>3. from(i) = from(j)
    BY <1>1, <2>1, <2>2
  <2> QED
    BY <1>1, <1>2, <2>3
<1>11. Distinct(t) /\ ToSet(t) = {t[i] : i \in 1 .. n - 1}
  BY <1>7, <1>8, <1>10, DistinctIf
<1>12. \A i \in 1 .. n - 1 : t[i] \in S \ {x}
  <2> SUFFICES ASSUME NEW i \in 1 .. n - 1 PROVE t[i] \in S /\ t[i] # x
    OBVIOUS
  <2> DEFINE m == IF i < k THEN i ELSE i + 1
  <2>1. m \in 1 .. n /\ m # k
    BY <1>1, <1>2
  <2>2. t[i] = s[m]
    BY <1>9
  <2> HIDE DEF m
  <2> QED
    BY <1>1, <1>2, <1>4, <2>1, <2>2
<1>13. \A y \in S \ {x} : y \in ToSet(t)
  <2> SUFFICES ASSUME NEW y \in S, y # x PROVE y \in ToSet(t)
    OBVIOUS
  <2>1. PICK j \in 1 .. n : y = s[j]
    BY <1>1
  <2>2. j # k
    BY <1>2, <2>1
  <2> DEFINE m == IF j < k THEN j ELSE j - 1
  <2>3. m \in 1 .. n - 1 /\ (m < k => m = j) /\ (~(m < k) => m + 1 = j)
    BY <1>1, <1>2, <2>2
  <2> HIDE DEF m
  <2>4. t[m] = y
    BY <1>9, <2>1, <2>3
  <2> QED
    BY <1>11, <2>3, <2>4
<1>14. ToSet(t) = S \ {x}
  BY <1>11, <1>12, <1>13
<1> QED
  BY <1>3, <1>11, <1>14 DEF S

LEMMA SwapDistinct ==
    ASSUME NEW s, Distinct(s), NEW i \in 1 .. Len(s) - 1
    PROVE  LET t == [s EXCEPT ![i] = s[i + 1], ![i + 1] = s[i]]
           IN  Distinct(t) /\ ToSet(t) = ToSet(s)
<1> DEFINE t == [s EXCEPT ![i] = s[i + 1], ![i + 1] = s[i]]
           n == Len(s)
           S == ToSet(s)
<1>1. /\ n \in Nat /\ DOMAIN s = 1 .. n /\ S = {s[j] : j \in 1 .. n}
      /\ \A j, l \in 1 .. n : s[j] = s[l] => j = l
      /\ s \in Seq(S)
  BY DistinctFacts DEF Distinct
<1> HIDE DEF n, S
<1>2. i \in 1 .. n /\ i + 1 \in 1 .. n /\ i # i + 1
  BY <1>1 DEF n
<1>3. /\ DOMAIN t = 1 .. n /\ t = [j \in 1 .. n |-> t[j]]
      /\ \A j \in 1 .. n : t[j] = IF j = i THEN s[i + 1] ELSE IF j = i + 1 THEN s[i] ELSE s[j]
  BY <1>1, <1>2
<1> HIDE DEF t
<1>4. \A j \in 1 .. n : t[j] \in S
  BY <1>1, <1>2, <1>3
<1>5. t \in Seq(S) /\ Len(t) = n
  <2>1. t \in [1 .. n -> S]
    BY <1>3, <1>4
  <2>2. t \in Seq(S)
    BY <1>1, <2>1, SeqDef
  <2>3. DOMAIN t = 1 .. Len(t) /\ Len(t) \in Nat
    BY <2>2, LenProperties
  <2> QED
    BY <1>1, <1>3, <2>2, <2>3
<1>6. \A j, l \in 1 .. n : t[j] = t[l] => j = l
  BY <1>1, <1>2, <1>3
<1>7. Distinct(t) /\ ToSet(t) = {t[j] : j \in 1 .. n}
  BY <1>5, <1>6, DistinctIf
<1>8. S \subseteq ToSet(t)
  <2> SUFFICES ASSUME NEW j \in 1 .. n PROVE s[j] \in ToSet(t)
    BY <1>1
  <2>1. CASE j = i
    <3>1. t[i + 1] = s[j]
      BY <1>2, <1>3, <2>1
    <3> QED
      BY <1>2, <1>7, <3>1
  <2>2. CASE j = i + 1
    <3>1. t[i] = s[j]
      BY <1>2, <1>3, <2>2
    <3> QED
      BY <1>2, <1>7, <3>1
  <2>3. CASE j # i /\ j # i + 1
    <3>1. t[j] = s[j]
      BY <1>3, <2>3
    <3> QED
      BY <1>7, <3>1
  <2> QED
    BY <2>1, <2>2, <2>3
<1>9. ToSet(t) = S
  BY <1>4, <1>7, <1>8
<1> QED
  BY <1>7, <1>9 DEF t, S

\* What keeps a configuration in shape, part by part.
AutoRecord(auto) ==
    auto = [enabled |-> auto.enabled, decision |-> auto.decision,
            targets |-> auto.targets, fallback |-> auto.fallback]
SoundAuto(auto) ==
    /\ AutoRecord(auto)
    /\ Distinct(auto.targets) /\ auto.fallback \in ToSet(auto.targets) \cup {""}
SoundPools(pools) ==
    /\ pools = [p \in DOMAIN pools |-> pools[p]]
    /\ \A p \in DOMAIN pools : Distinct(pools[p])
SoundRules(rules) ==
    /\ rules = [m \in DOMAIN rules |-> rules[m]]
    /\ \A m \in DOMAIN rules : Distinct(rules[m]) /\ m \notin ToSet(rules[m])
Sound(c) ==
    /\ c = [auto |-> c.auto, pools |-> c.pools, failover |-> c.failover, rules |-> c.rules,
            tuned |-> c.tuned]
    /\ SoundAuto(c.auto) /\ SoundPools(c.pools) /\ SoundRules(c.rules) /\ Distinct(c.failover)

\* Whatever configuration is served, shown or on its way is in shape.
AllSound ==
    /\ Sound(served)
    /\ config # NoConfig => Sound(config)
    /\ put.answer # "idle" => Sound(put.config)
    /\ routingLoad.answer = "ok" => Sound(routingLoad.config)

LEMMA PartsSound ==
    ASSUME NEW c, Sound(c)
    PROVE  /\ \A auto : SoundAuto(auto) => Sound([c EXCEPT !.auto = auto])
           /\ \A pools : SoundPools(pools) => Sound([c EXCEPT !.pools = pools])
           /\ \A rules : SoundRules(rules) => Sound([c EXCEPT !.rules = rules])
           /\ \A s : Distinct(s) => Sound([c EXCEPT !.failover = s])
           /\ \A b : Sound([c EXCEPT !.tuned = b])
BY DEF Sound

LEMMA AutoParts ==
    ASSUME NEW auto, SoundAuto(auto)
    PROVE  /\ \A b : SoundAuto([auto EXCEPT !.enabled = b])
           /\ \A m : SoundAuto([auto EXCEPT !.decision = m])
           /\ \A t \in ToSet(auto.targets) \cup {""} : SoundAuto([auto EXCEPT !.fallback = t])
           /\ \A s : Distinct(s) /\ ToSet(auto.targets) \subseteq ToSet(s)
                     => SoundAuto([auto EXCEPT !.targets = s])
           /\ \A t, s : Distinct(s) /\ t \in ToSet(s) \cup {""}
                     => SoundAuto([auto EXCEPT !.fallback = t, !.targets = s])
<1>1. AutoRecord(auto)
  BY DEF SoundAuto
<1>2. Distinct(auto.targets) /\ auto.fallback \in ToSet(auto.targets) \cup {""}
  BY DEF SoundAuto
<1>3. ASSUME NEW b
      PROVE  SoundAuto([auto EXCEPT !.enabled = b])
  <2> DEFINE edited == [auto EXCEPT !.enabled = b]
  <2>1. AutoRecord(edited)
    BY <1>1 DEF AutoRecord
  <2>2. edited.targets = auto.targets /\ edited.fallback = auto.fallback
    BY <1>1 DEF AutoRecord
  <2> HIDE DEF edited
  <2>3. SoundAuto(edited)
    BY <1>2, <2>1, <2>2 DEF SoundAuto
  <2> QED
    BY <2>3 DEF edited
<1>4. ASSUME NEW m
      PROVE  SoundAuto([auto EXCEPT !.decision = m])
  <2> DEFINE edited == [auto EXCEPT !.decision = m]
  <2>1. AutoRecord(edited)
    BY <1>1 DEF AutoRecord
  <2>2. edited.targets = auto.targets /\ edited.fallback = auto.fallback
    BY <1>1 DEF AutoRecord
  <2> HIDE DEF edited
  <2>3. SoundAuto(edited)
    BY <1>2, <2>1, <2>2 DEF SoundAuto
  <2> QED
    BY <2>3 DEF edited
<1>5. ASSUME NEW t, t \in ToSet(auto.targets) \cup {""}
      PROVE  SoundAuto([auto EXCEPT !.fallback = t])
  <2> DEFINE edited == [auto EXCEPT !.fallback = t]
  <2>1. AutoRecord(edited)
    BY <1>1 DEF AutoRecord
  <2>2. edited.targets = auto.targets /\ edited.fallback = t
    BY <1>1 DEF AutoRecord
  <2> HIDE DEF edited
  <2>3. SoundAuto(edited)
    BY <1>2, <1>5, <2>1, <2>2 DEF SoundAuto
  <2> QED
    BY <2>3 DEF edited
<1>6. ASSUME NEW s, Distinct(s), ToSet(auto.targets) \subseteq ToSet(s)
      PROVE  SoundAuto([auto EXCEPT !.targets = s])
  <2> DEFINE edited == [auto EXCEPT !.targets = s]
  <2>1. AutoRecord(edited)
    BY <1>1 DEF AutoRecord
  <2>2. edited.targets = s /\ edited.fallback = auto.fallback
    BY <1>1 DEF AutoRecord
  <2> HIDE DEF edited
  <2>3. SoundAuto(edited)
    BY <1>2, <1>6, <2>1, <2>2 DEF SoundAuto
  <2> QED
    BY <2>3 DEF edited
<1>7. ASSUME NEW s, NEW t, Distinct(s), t \in ToSet(s) \cup {""}
      PROVE  SoundAuto([auto EXCEPT !.fallback = t, !.targets = s])
  <2> DEFINE edited == [auto EXCEPT !.fallback = t, !.targets = s]
             first == [auto EXCEPT !.fallback = t]
  <2>1. AutoRecord(first)
    BY <1>1 DEF AutoRecord
  <2>2. edited = [first EXCEPT !.targets = s]
    BY <1>1 DEF AutoRecord
  <2>3. AutoRecord(edited)
    <3> HIDE DEF first, edited
    <3>1. AutoRecord([first EXCEPT !.targets = s])
      BY <2>1 DEF AutoRecord
    <3> QED
      BY <2>2, <3>1
  <2>4. edited.targets = s /\ edited.fallback = t
    BY <1>1 DEF AutoRecord
  <2> HIDE DEF edited
  <2>5. SoundAuto(edited)
    BY <1>7, <2>3, <2>4 DEF SoundAuto
  <2> QED
    BY <2>5 DEF edited
<1> QED
  BY <1>3, <1>4, <1>5, <1>6, <1>7

\* The lists an editor makes of a list.
LEMMA ListsSound ==
    ASSUME NEW s, Distinct(s), NEW M, NEW t, t \in PolicyEdits(s, M)
    PROVE  Distinct(t) /\ ToSet(t) \subseteq ToSet(s) \cup M
<1>1. ASSUME t \in Added(s, M) PROVE Distinct(t) /\ ToSet(t) \subseteq ToSet(s) \cup M
  <2>1. PICK m \in M \ ToSet(s) : t = Append(s, m)
    BY <1>1 DEF Added
  <2> QED
    BY <2>1, AppendDistinct
<1>2. ASSUME t \in Removed(s) PROVE Distinct(t) /\ ToSet(t) \subseteq ToSet(s) \cup M
  <2>1. PICK m \in ToSet(s) : t = Without(s, m)
    BY <1>2 DEF Removed
  <2> QED
    BY <2>1, WithoutDistinct
<1>3. ASSUME t \in Moved(s) PROVE Distinct(t) /\ ToSet(t) \subseteq ToSet(s) \cup M
  <2>1. PICK i \in 1 .. Len(s) - 1 : t = [s EXCEPT ![i] = s[i + 1], ![i + 1] = s[i]]
    BY <1>3 DEF Moved
  <2> QED
    BY <2>1, SwapDistinct
<1> QED
  BY <1>1, <1>2, <1>3 DEF PolicyEdits

\* An edit that keeps the shape keeps it everywhere.
LEMMA EditSound ==
    ASSUME AllSound, NEW next, Edit(next), Sound(next)
    PROVE  AllSound'
BY DEF Edit, Editable, editorRequests, AllSound

LEMMA AutoSound == ASSUME AllSound, EditAuto PROVE AllSound'
<1> DEFINE auto == config.auto
<1>1. Sound(config) /\ SoundAuto(auto)
  BY DEF EditAuto, AllSound, Sound
<1>2. ASSUME NEW a, SoundAuto(a), Edit(WithAuto(a)) PROVE AllSound'
  <2>1. Sound(WithAuto(a))
    BY <1>1, <1>2, PartsSound DEF WithAuto
  <2> QED
    BY <1>2, <2>1, EditSound
<1>3. Distinct(auto.targets) /\ auto.fallback \in ToSet(auto.targets) \cup {""}
  BY <1>1 DEF SoundAuto
<1>4. CASE Edit(WithAuto([auto EXCEPT !.enabled = ~@]))
  <2>1. SoundAuto([auto EXCEPT !.enabled = ~@])
    BY <1>1, AutoParts
  <2> QED
    BY <1>2, <1>4, <2>1
<1>5. ASSUME NEW m \in ChatModels \cup DecisionModels \cup {""},
             Edit(WithAuto([auto EXCEPT !.decision = m]))
      PROVE  AllSound'
  <2>1. SoundAuto([auto EXCEPT !.decision = m])
    BY <1>1, AutoParts
  <2> QED
    BY <1>2, <1>5, <2>1
<1>6. ASSUME NEW t \in ToSet(auto.targets) \cup {""},
             Edit(WithAuto([auto EXCEPT !.fallback = t]))
      PROVE  AllSound'
  <2>1. SoundAuto([auto EXCEPT !.fallback = t])
    BY <1>1, AutoParts
  <2> QED
    BY <1>2, <1>6, <2>1
<1>7. CASE /\ autoTarget \notin ToSet(auto.targets) \cup {""}
           /\ Edit(WithAuto([auto EXCEPT !.targets = Append(@, autoTarget)]))
  <2>1. /\ Distinct(Append(auto.targets, autoTarget))
        /\ ToSet(Append(auto.targets, autoTarget)) = ToSet(auto.targets) \cup {autoTarget}
    BY <1>3, <1>7, AppendDistinct
  <2>2. SoundAuto([auto EXCEPT !.targets = Append(@, autoTarget)])
    BY <1>1, <2>1, AutoParts
  <2> QED
    BY <1>2, <1>7, <2>2
<1>8. ASSUME NEW t \in ToSet(auto.targets),
             Edit(WithAuto([auto EXCEPT !.fallback = FallbackWithout(auto, t),
                                        !.targets = Without(@, t)]))
      PROVE  AllSound'
  <2>1. /\ Distinct(Without(auto.targets, t))
        /\ ToSet(Without(auto.targets, t)) = ToSet(auto.targets) \ {t}
    BY <1>3, WithoutDistinct
  <2>2. FallbackWithout(auto, t) \in (ToSet(auto.targets) \ {t}) \cup {""}
    BY <1>3 DEF FallbackWithout
  <2>3. SoundAuto([auto EXCEPT !.fallback = FallbackWithout(auto, t),
                               !.targets = Without(@, t)])
    BY <1>1, <2>1, <2>2, AutoParts
  <2> QED
    BY <1>2, <1>8, <2>3
<1> QED
  BY <1>4, <1>5, <1>6, <1>7, <1>8 DEF EditAuto

LEMMA PoolsSound == ASSUME AllSound, EditPools PROVE AllSound'
<1> DEFINE pools == config.pools
<1>1. Sound(config) /\ SoundPools(pools)
  BY DEF EditPools, AllSound, Sound
<1>2. ASSUME NEW ps, SoundPools(ps), Edit([config EXCEPT !.pools = ps]) PROVE AllSound'
  <2>1. Sound([config EXCEPT !.pools = ps])
    BY <1>1, <1>2, PartsSound
  <2> QED
    BY <1>2, <2>1, EditSound
<1>3. ASSUME NEW p \in PoolIds \ DOMAIN pools, Edit([config EXCEPT !.pools = KeyAdded(@, p)])
      PROVE  AllSound'
  <2>1. SoundPools(KeyAdded(pools, p))
    BY <1>1, EmptyDistinct DEF SoundPools, KeyAdded
  <2> QED
    BY <1>2, <1>3, <2>1
<1>4. ASSUME NEW p \in DOMAIN pools, Edit([config EXCEPT !.pools = KeyRemoved(@, p)])
      PROVE  AllSound'
  <2>1. SoundPools(KeyRemoved(pools, p))
    BY <1>1 DEF SoundPools, KeyRemoved
  <2> QED
    BY <1>2, <1>4, <2>1
<1>5. ASSUME NEW p \in DOMAIN pools,
             NEW s \in Added(pools[p], ChatModels) \cup Removed(pools[p]),
             Edit([config EXCEPT !.pools[p] = s])
      PROVE  AllSound'
  <2>1. Distinct(s)
    <3>1. Distinct(pools[p]) /\ s \in PolicyEdits(pools[p], ChatModels)
      BY <1>1 DEF SoundPools, PolicyEdits
    <3> QED
      BY <3>1, ListsSound
  <2>2. SoundPools([pools EXCEPT ![p] = s])
    BY <1>1, <2>1 DEF SoundPools
  <2>3. [config EXCEPT !.pools[p] = s] = [config EXCEPT !.pools = [pools EXCEPT ![p] = s]]
    OBVIOUS
  <2> QED
    BY <1>2, <1>5, <2>2, <2>3
<1> QED
  BY <1>3, <1>4, <1>5 DEF EditPools

LEMMA PoliciesSound == ASSUME AllSound, EditPolicies PROVE AllSound'
<1> DEFINE rules == config.rules
<1>1. Sound(config) /\ SoundRules(rules) /\ Distinct(config.failover)
  BY DEF EditPolicies, AllSound, Sound
<1>2. ASSUME NEW rs, SoundRules(rs), Edit([config EXCEPT !.rules = rs]) PROVE AllSound'
  <2>1. Sound([config EXCEPT !.rules = rs])
    BY <1>1, <1>2, PartsSound
  <2> QED
    BY <1>2, <2>1, EditSound
<1>3. ASSUME NEW s \in PolicyEdits(config.failover, ChatModels),
             Edit([config EXCEPT !.failover = s])
      PROVE  AllSound'
  <2>1. Distinct(s)
    BY <1>1, ListsSound
  <2>2. Sound([config EXCEPT !.failover = s])
    BY <1>1, <2>1, PartsSound
  <2> QED
    BY <1>3, <2>2, EditSound
<1>4. CASE Edit([config EXCEPT !.rules = KeyAdded(@, ruleModel)])
           /\ ruleModel \notin DOMAIN rules \cup {""}
  <2>1. SoundRules(KeyAdded(rules, ruleModel))
    BY <1>1, EmptyDistinct DEF SoundRules, KeyAdded
  <2> QED
    BY <1>2, <1>4, <2>1
<1>5. ASSUME NEW m \in DOMAIN rules, Edit([config EXCEPT !.rules = KeyRemoved(@, m)])
      PROVE  AllSound'
  <2>1. SoundRules(KeyRemoved(rules, m))
    BY <1>1 DEF SoundRules, KeyRemoved
  <2> QED
    BY <1>2, <1>5, <2>1
<1>6. ASSUME NEW m \in DOMAIN rules, NEW s \in PolicyEdits(rules[m], RuleModels(m)),
             Edit([config EXCEPT !.rules[m] = s])
      PROVE  AllSound'
  <2>1. Distinct(rules[m]) /\ m \notin ToSet(rules[m])
    BY <1>1 DEF SoundRules
  <2>2. Distinct(s) /\ m \notin ToSet(s)
    <3>1. RuleModels(m) = ChatModels \ {m}
      BY DEF RuleModels
    <3>2. Distinct(s) /\ ToSet(s) \subseteq ToSet(rules[m]) \cup RuleModels(m)
      BY <2>1, ListsSound
    <3> QED
      BY <2>1, <3>1, <3>2
  <2>3. SoundRules([rules EXCEPT ![m] = s])
    BY <1>1, <2>2 DEF SoundRules
  <2>4. [config EXCEPT !.rules[m] = s] = [config EXCEPT !.rules = [rules EXCEPT ![m] = s]]
    OBVIOUS
  <2> QED
    BY <1>2, <1>6, <2>3, <2>4
<1> QED
  BY <1>3, <1>4, <1>5, <1>6 DEF EditPolicies

LEMMA AllSoundStep ==
    ASSUME \A c \in OtherConfigs : Sound(c), EditorInv, AllSound, [EditorNext]_editorVars
    PROVE  AllSound'
<1>1. CASE EditAuto \/ EditPools \/ EditPolicies
  BY <1>1, AutoSound, PoolsSound, PoliciesSound
<1>2. CASE EditDetails
  <2>1. config # NoConfig /\ Edit([config EXCEPT !.tuned = ~@])
    BY <1>2 DEF EditDetails
  <2>2. Sound([config EXCEPT !.tuned = ~@])
    BY <2>1, PartsSound DEF AllSound
  <2> QED
    BY <2>1, <2>2, EditSound
<1>3. CASE RetryRouting \/ AnswerRouting \/ RoutingArrives
  BY <1>3 DEF RetryRouting, AnswerRouting, RoutingArrives, AllSound, editorPage, AskedLoad,
              FreeLoad
<1>4. CASE Choose \/ TryRouting \/ TrialAnswered \/ UNCHANGED editorVars
  BY <1>4 DEF Choose, TryRouting, TrialAnswered, AllSound, editorVars, editorPage, editorRequests
<1>5. CASE OthersSave
  BY <1>5 DEF OthersSave, AllSound, editorPage, editorRequests
<1>6. CASE ReopenEditor
  <2>1. /\ served' = served /\ config' = NoConfig /\ routingLoad' = [answer |-> "asked", config |-> NoConfig]
        /\ put' = IF put.answer = "asked" THEN [put EXCEPT !.answer = "left"]
                  ELSE IF put.answer = "left" THEN put ELSE [config |-> NoConfig, answer |-> "idle"]
    BY <1>6 DEF ReopenEditor, AskedLoad, NoPut
  <2>2. put = [config |-> put.config, answer |-> put.answer]
    BY DEF EditorInv, SavingShown
  <2>3. put'.answer # "idle" => put.answer # "idle" /\ put'.config = put.config
    BY <2>1, <2>2
  <2> QED
    BY <2>1, <2>3 DEF AllSound
<1>7. CASE SaveRouting \/ AnswerPut \/ PutArrives
  BY <1>7 DEF SaveRouting, AnswerPut, PutArrives, EditorInv, SavingShown, saving, Editable,
              AllSound, editorPage, NoPut
<1> QED
  BY <1>1, <1>2, <1>3, <1>4, <1>5, <1>6, <1>7 DEF EditorNext

\* From configurations in shape, no sequence of edits, saves and reloads makes
\* one that lists a target twice, falls back to a target Auto may not choose or
\* fails a model over to itself.
THEOREM ShapeKept ==
    ASSUME \A c \in StartConfigs \cup OtherConfigs : Sound(c)
    PROVE  EditorSpec => []KeepsShape
<1>1. ASSUME EditorInit PROVE AllSound
  <2>1. /\ served \in StartConfigs /\ config = NoConfig
        /\ put = [config |-> NoConfig, answer |-> "idle"]
        /\ routingLoad = [answer |-> "asked", config |-> NoConfig]
    BY <1>1 DEF EditorInit, AskedLoad, NoPut
  <2>2. put.answer = "idle" /\ routingLoad.answer = "asked"
    BY <2>1
  <2> QED
    BY <2>1, <2>2 DEF AllSound
<1>2. EditorInv /\ AllSound /\ [EditorNext]_editorVars => AllSound'
  BY AllSoundStep
<1>3. ASSUME AllSound PROVE KeepsShape
  <2> SUFFICES ASSUME config # NoConfig
               PROVE  /\ \A s \in Lists(config) : IsInjective(s)
                      /\ config.auto.fallback \in ToSet(config.auto.targets) \cup {""}
                      /\ \A m \in DOMAIN config.rules : m \notin ToSet(config.rules[m])
    BY DEF KeepsShape
  <2>1. Sound(config)
    BY <1>3 DEF AllSound
  <2>2. /\ Distinct(config.auto.targets) /\ Distinct(config.failover)
        /\ \A p \in DOMAIN config.pools : Distinct(config.pools[p])
        /\ \A m \in DOMAIN config.rules : Distinct(config.rules[m])
    BY <2>1 DEF Sound, SoundAuto, SoundPools, SoundRules
  <2>3. \A s \in Lists(config) : Distinct(s)
    BY <2>2 DEF Lists, ModelLists
  <2>4. \A s \in Lists(config) : IsInjective(s)
    BY <2>3 DEF Distinct
  <2> QED
    BY <2>1, <2>4 DEF Sound, SoundAuto, SoundRules
<1> QED
  BY <1>1, <1>2, <1>3, EditorInvInit, EditorInvStep, PTL DEF EditorSpec
=============================================================================
