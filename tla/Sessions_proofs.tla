--------------------------- MODULE Sessions_proofs ---------------------------
(* What Sessions promises, for any number of requests, any limits and any    *)
(* clock: only sessions of the present password, none that returns, and no   *)
(* more verdicts for a burst of guesses than the limit allows.               *)
EXTENDS Sessions, FiniteSetTheorems, TLAPS

-----------------------------------------------------------------------------
(* The inductive invariant. *)

\* SessionsMatchPassword, of any record.
Fits(record) ==
    \A id \in Ids(record) :
        \/ record.password = IF id = First THEN InitialPassword ELSE guess[id]
        \/ record.password \in Changes /\ session[record.password] = id

\* The change that set the password has chosen its session.
Settled(record) == record.password \in Changes => pc[record.password] # "start"

\* Entries are told apart by revisions older than the record's.
Dated(record, rev) ==
    /\ IsFiniteSet(record.failures) /\ IsFiniteSet(record.sessions)
    /\ \A f \in record.failures : f.rev < rev
    /\ \A s \in record.sessions : s.rev < rev
    /\ \A s, t \in record.sessions : s.rev = t.rev => s = t
    /\ Cardinality(record.sessions) <= MAX_SESSIONS

\* What a write does to the account it was read from: the only session it adds
\* is its sign-in's own, and a write that clears nothing counts a failed
\* sign-in, within the limit.
Faithful(r, record, then) ==
    /\ \A id \in Ids(record) \ Ids(account) : id = r /\ r \in SignIns /\ then = "ok"
    /\ now < SIGN_IN_WINDOW_MS /\ then # "ok" =>
          /\ account.failures \subseteq record.failures
          /\ r \in SignIns /\ then = "incorrect" =>
                /\ Cardinality(account.failures) < SIGN_IN_MAX_FAILURES
                /\ record.failures # account.failures

Pending(r) ==
    pc[r] = "write" =>
        /\ next[r].rev = seenRev[r] + 1
        /\ answer[r] \in {"ok", "incorrect", "throttled"}
        /\ Fits(next[r]) /\ Settled(next[r]) /\ Dated(next[r], next[r].rev)
        /\ Same(r) => Faithful(r, next[r], answer[r])

Paced(r) ==
    /\ seenRev[r] <= account.rev
    /\ pc[r] \in {"start", "commit"} => attempt[r] < MAX_ATTEMPTS

\* While nothing has cleared them, there is a failure for every verdict.
Counted ==
    /\ IsFiniteSet(Answered)
    /\ now < SIGN_IN_WINDOW_MS /\ (\A r \in Requests : pc[r] # "ok") =>
          /\ Cardinality(Answered) <= Cardinality(account.failures)
          /\ Cardinality(Answered) <= SIGN_IN_MAX_FAILURES

SInv ==
    /\ TypeOK
    /\ Fits(account) /\ Settled(account) /\ Dated(account, account.rev)
    /\ \A r \in Requests : Pending(r) /\ Paced(r)
    /\ Counted

\* What the mutates see to when they write a record.
GoodWrite(r, record, then) ==
    /\ record \in Records
    /\ then \in {"ok", "incorrect", "throttled"}
    /\ Fits(record) /\ record.password \in {account.password, r}
    /\ Dated(record, account.rev + 1)
    /\ Faithful(r, record, then)

-----------------------------------------------------------------------------
(* Lemmas about the operators. *)

\* No more than MAX_SESSIONS are kept: each of them has a different number of
\* newer ones.
LEMMA CutBounded ==
    ASSUME NEW S \in SUBSET [id : SessionIds, expires : Nat, rev : Nat], IsFiniteSet(S),
           \A s, t \in S : s.rev = t.rev => s = t
    PROVE  /\ Cut(S) \subseteq S /\ IsFiniteSet(Cut(S))
           /\ Cardinality(Cut(S)) <= MAX_SESSIONS
<1> DEFINE Newer(s) == {t \in S : t.rev > s.rev}
           f == [s \in Cut(S) |-> Cardinality(Newer(s))]
<1>0. MAX_SESSIONS \in Nat \ {0}
  BY SessionAssumption
<1>1. Cut(S) \subseteq S /\ IsFiniteSet(Cut(S))
  <2>1. Cut(S) \in SUBSET S
    BY DEF Cut
  <2> QED
    BY <2>1, FS_Subset
<1>2. ASSUME NEW s \in S
      PROVE  IsFiniteSet(Newer(s)) /\ Cardinality(Newer(s)) \in Nat
  <2>1. Newer(s) \in SUBSET S
    OBVIOUS
  <2> HIDE DEF Newer
  <2>2. IsFiniteSet(Newer(s))
    BY <2>1, FS_Subset
  <2> QED
    BY <2>2, FS_CardinalityType
<1>3. \A s \in Cut(S) : Cardinality(Newer(s)) < MAX_SESSIONS
  BY DEF Cut
<1>4. ASSUME NEW s \in S, NEW t \in S, s.rev < t.rev
      PROVE  Cardinality(Newer(t)) < Cardinality(Newer(s))
  <2>1. s.rev \in Nat /\ t.rev \in Nat /\ \A u \in S : u.rev \in Nat
    OBVIOUS
  <2>2. Newer(t) \in SUBSET Newer(s) /\ t \in Newer(s) /\ t \notin Newer(t)
    BY <1>4, <2>1
  <2> HIDE DEF Newer
  <2>3. /\ Cardinality(Newer(t)) <= Cardinality(Newer(s))
        /\ Cardinality(Newer(s)) # Cardinality(Newer(t))
    BY <1>2, <2>2, FS_Subset
  <2> QED
    BY <1>2, <2>3
<1> HIDE DEF Newer
<1>5. f \in Injection(Cut(S), 0 .. MAX_SESSIONS - 1)
  <2>1. f \in [Cut(S) -> 0 .. MAX_SESSIONS - 1]
    <3>1. ASSUME NEW s \in Cut(S) PROVE Cardinality(Newer(s)) \in 0 .. MAX_SESSIONS - 1
      BY <1>0, <1>1, <1>2, <1>3
    <3> QED
      BY <3>1
  <2>2. ASSUME NEW s \in Cut(S), NEW t \in Cut(S), f[s] = f[t] PROVE s = t
    <3>1. /\ s \in S /\ t \in S /\ s.rev \in Nat /\ t.rev \in Nat
          /\ Cardinality(Newer(s)) = Cardinality(Newer(t))
          /\ Cardinality(Newer(s)) \in Nat
      BY <1>1, <1>2, <2>2
    <3>2. ~(s.rev < t.rev) /\ ~(t.rev < s.rev)
      BY <1>4, <3>1
    <3> QED
      BY <3>1, <3>2
  <2> QED
    BY <2>1, <2>2 DEF Injection, IsInjective
<1>6. IsFiniteSet(0 .. MAX_SESSIONS - 1) /\ Cardinality(0 .. MAX_SESSIONS - 1) = MAX_SESSIONS
  BY <1>0, FS_Interval
<1> HIDE DEF f
<1>7. Cardinality(Cut(S)) <= Cardinality(0 .. MAX_SESSIONS - 1)
  BY <1>5, <1>6, FS_Injection
<1> QED
  BY <1>1, <1>6, <1>7

\* A failure more: dated now, by a revision no other failure has.
LEMMA FailedOnceMoreFacts ==
    ASSUME SInv
    PROVE  /\ FailedOnceMore(account) \in Records
           /\ FailedOnceMore(account).password = account.password
           /\ FailedOnceMore(account).sessions = account.sessions
           /\ Dated(FailedOnceMore(account), account.rev + 1)
           /\ now < SIGN_IN_WINDOW_MS =>
                 /\ Recent(account) = account.failures
                 /\ account.failures \subseteq FailedOnceMore(account).failures
                 /\ FailedOnceMore(account).failures # account.failures
<1> DEFINE new == [at |-> now, rev |-> account.rev]
           more == {new} \cup Recent(account)
<1>1. /\ account \in Records /\ now \in Nat /\ SIGN_IN_WINDOW_MS \in Nat
      /\ account.failures \in SUBSET [at : Nat, rev : Nat]
      /\ account.rev \in Nat /\ account.sessions \in SUBSET
            [id : SessionIds, expires : Nat, rev : Nat]
  BY SessionAssumption DEF SInv, TypeOK, Records
<1>2. Recent(account) \in SUBSET account.failures
  BY DEF Recent
<1>3. now < SIGN_IN_WINDOW_MS => Recent(account) = account.failures
  BY <1>1 DEF Recent
<1>4. IsFiniteSet(Recent(account))
  BY <1>2, FS_Subset DEF SInv, Dated
<1>5. IsFiniteSet(more)
  <2>1. IsFiniteSet(Recent(account) \cup {new})
    BY <1>4, FS_AddElement
  <2>2. more = Recent(account) \cup {new}
    OBVIOUS
  <2> HIDE DEF more
  <2> QED
    BY <2>1, <2>2
<1>6. /\ FailedOnceMore(account) = [account EXCEPT !.failures = more]
      /\ more \in SUBSET [at : Nat, rev : Nat]
  BY <1>1, <1>2 DEF FailedOnceMore
<1>7. new \notin account.failures
  BY <1>1 DEF SInv, Dated
<1>8. \A f \in more : f.rev < account.rev + 1
  BY <1>1, <1>2 DEF SInv, Dated
<1>9. new \in more /\ Recent(account) \subseteq more
  OBVIOUS
<1> HIDE DEF more, new
<1>10. /\ FailedOnceMore(account) \in Records
       /\ FailedOnceMore(account).failures = more
       /\ FailedOnceMore(account).password = account.password
       /\ FailedOnceMore(account).sessions = account.sessions
  BY <1>1, <1>6 DEF Records
<1>11. Dated(FailedOnceMore(account), account.rev + 1)
  BY <1>1, <1>5, <1>8, <1>10 DEF SInv, Dated
<1> QED
  BY <1>3, <1>7, <1>9, <1>10, <1>11

-----------------------------------------------------------------------------
(* Init and the steps. *)

LEMMA SInvInit == Init => SInv
<1> SUFFICES ASSUME Init PROVE SInv
  OBVIOUS
<1> DEFINE s0 == [id |-> First, expires |-> SESSION_TTL_MS, rev |-> 0]
<1>1. /\ SESSION_TTL_MS \in Nat /\ MAX_SESSIONS \in Nat \ {0} /\ MAX_ATTEMPTS \in Nat \ {0}
      /\ SIGN_IN_MAX_FAILURES \in Nat /\ MaxTime \in Nat
  BY SessionAssumption
<1>2. FirstAccount \in Records
  BY <1>1 DEF FirstAccount, Records, Passwords, SessionIds
<1>3. account = FirstAccount /\ now = 0
  BY DEF Init
<1>4. TypeOK
  <2>1. Cardinality(account.sessions) <= MAX_SESSIONS
    <3>1. account.sessions = {s0}
      BY <1>3 DEF FirstAccount
    <3>2. Cardinality({s0}) = 1
      BY FS_Singleton
    <3> HIDE DEF s0
    <3> QED
      BY <1>1, <3>1, <3>2
  <2> QED
    BY <1>1, <1>2, <1>3, <2>1 DEF Init, TypeOK, SessionIds, Passwords, Stages
<1>5. Fits(account) /\ Settled(account)
  BY <1>3, SessionAssumption DEF FirstAccount, Fits, Ids, Settled, Requests
<1>6. Dated(account, account.rev)
  <2>1. IsFiniteSet({s0}) /\ Cardinality({s0}) = 1 /\ IsFiniteSet({})
    BY FS_Singleton, FS_EmptySet
  <2> QED
    BY <1>1, <1>3, <2>1 DEF FirstAccount, Dated
<1>7. ASSUME NEW r \in Requests PROVE Pending(r) /\ Paced(r)
  BY <1>1, <1>3 DEF Init, FirstAccount, Pending, Paced
<1>8. Counted
  <2>1. Answered = {}
    BY DEF Init, Answered, Requests
  <2>2. Cardinality(account.failures) = 0
    BY <1>3, FS_EmptySet DEF FirstAccount
  <2> QED
    BY <1>1, <2>1, <2>2, FS_EmptySet DEF Counted
<1> QED
  BY <1>4, <1>5, <1>6, <1>7, <1>8 DEF SInv

\* A step that leaves the account and the answers alone does not disturb them.
LEMMA CountedStays ==
    ASSUME Counted, account.live' => account.live, account'.failures = account.failures,
           IsFiniteSet(account.failures),
           now \in Nat, now' \in Nat, now <= now',
           \A q \in SignIns : pc'[q] = "incorrect" /\ account.live' => pc[q] = "incorrect",
           \A q \in Requests : pc[q] = "ok" => pc'[q] = "ok"
    PROVE  Counted'
<1>1. Answered' \in SUBSET Answered
  BY DEF Answered
<1>2. IsFiniteSet(Answered) /\ IsFiniteSet(Answered') /\ Cardinality(Answered') <= Cardinality(Answered)
  BY <1>1, FS_Subset DEF Counted
<1>3. Cardinality(Answered) \in Nat /\ Cardinality(Answered') \in Nat
  BY <1>2, FS_CardinalityType
<1>4. CASE now' < SIGN_IN_WINDOW_MS /\ \A r \in Requests : pc'[r] # "ok"
  <2>1. now < SIGN_IN_WINDOW_MS /\ \A r \in Requests : pc[r] # "ok"
    BY <1>4, SessionAssumption
  <2>2. /\ Cardinality(Answered) <= Cardinality(account.failures)
        /\ Cardinality(Answered) <= SIGN_IN_MAX_FAILURES
    BY <2>1 DEF Counted
  <2>3. Cardinality(account.failures) \in Nat /\ SIGN_IN_MAX_FAILURES \in Nat
    BY FS_CardinalityType, SessionAssumption
  <2>4. /\ Cardinality(Answered') <= Cardinality(account'.failures)
        /\ Cardinality(Answered') <= SIGN_IN_MAX_FAILURES
    BY <1>2, <1>3, <2>2, <2>3
  <2> QED
    BY <1>2, <2>4 DEF Counted
<1> QED
  BY <1>2, <1>4 DEF Counted

\* A step of one request before its commit, or after its last attempt.
LEMMA QuietStep ==
    ASSUME SInv, NEW r \in Requests, pc[r] \in {"start", "commit", "write"},
           NEW stage \in Stages \ {"write", "ok"}, pc' = [pc EXCEPT ![r] = stage],
           stage = "incorrect" => ~account.live,
           stage = "start" => FALSE,
           stage = "commit" => attempt[r] < MAX_ATTEMPTS,
           session' \in [Changes \cup Others -> SessionIds],
           \A q \in Changes : pc[q] # "start" => session'[q] = session[q],
           seenPassword' \in [Requests -> Passwords],
           UNCHANGED <<now, account, guess, resetters, attempt, next, answer, seenRev>>
    PROVE  SInv'
<1> USE DEF SInv
<1>1. TypeOK'
  BY DEF TypeOK
<1>2. ASSUME NEW record, Settled(record), Fits(record)
      PROVE  Settled(record)' /\ Fits(record)'
  BY <1>2 DEF Settled, Fits, Ids, TypeOK, Requests
<1>3. ASSUME NEW q \in Requests PROVE Pending(q)' /\ Paced(q)'
  <2>1. pc'[q] = "write" => pc[q] = "write" /\ q # r
    BY DEF TypeOK
  <2>2. Pending(q)'
    <3> SUFFICES ASSUME pc'[q] = "write" PROVE Pending(q)'
      BY DEF Pending
    <3>1. /\ next[q].rev = seenRev[q] + 1
          /\ answer[q] \in {"ok", "incorrect", "throttled"}
          /\ Fits(next[q]) /\ Settled(next[q]) /\ Dated(next[q], next[q].rev)
          /\ Same(q) => Faithful(q, next[q], answer[q])
      BY <2>1 DEF Pending
    <3>2. Fits(next[q])' /\ Settled(next[q])'
      BY <1>2, <3>1 DEF Fits, Settled, Ids
    <3>3. (Same(q)' <=> Same(q)) /\ (Dated(next[q], next[q].rev)' <=> Dated(next[q], next[q].rev))
          /\ (Faithful(q, next[q], answer[q])' <=> Faithful(q, next[q], answer[q]))
      BY DEF Same, Dated, Faithful, Ids
    <3> QED
      BY <3>1, <3>2, <3>3 DEF Pending
  <2>3. Paced(q)'
    BY DEF Paced, TypeOK
  <2> QED
    BY <2>2, <2>3
<1>4. Fits(account)' /\ Settled(account)' /\ Dated(account, account.rev)'
  <2>1. Fits(account)' /\ Settled(account)'
    BY <1>2 DEF Fits, Settled, Ids
  <2> QED
    BY <2>1 DEF Dated
<1>5. Counted'
  BY CountedStays DEF TypeOK, Dated
<1> QED
  BY <1>1, <1>3, <1>4, <1>5

\* Time passes, or the account is removed.
LEMMA WorldStep ==
    ASSUME SInv, Tick \/ RemoveAccount \/ UNCHANGED vars PROVE SInv'
<1> USE DEF SInv
<1>1. /\ UNCHANGED <<asked, pc, seenPassword, attempt, next, answer, seenRev>>
      /\ now \in Nat /\ now' \in 0 .. MaxTime /\ now <= now'
      /\ account'.live => account.live
      /\ account' \in Records
      /\ account'.rev = account.rev /\ account'.password = account.password
      /\ account'.failures = account.failures /\ account'.sessions = account.sessions
  <2>1. account \in Records /\ now \in 0 .. MaxTime /\ MaxTime \in Nat
    BY SessionAssumption DEF TypeOK
  <2>2. CASE Tick
    BY <2>1, <2>2 DEF Tick
  <2>3. CASE RemoveAccount
    <3>1. /\ account' = [account EXCEPT !.live = FALSE]
          /\ UNCHANGED <<now, asked, pc, seenPassword, attempt, next, answer, seenRev>>
      BY <2>3 DEF RemoveAccount
    <3>2. account' \in Records /\ account'.live = FALSE
      BY <2>1, <3>1 DEF Records
    <3>3. /\ account'.rev = account.rev /\ account'.password = account.password
          /\ account'.failures = account.failures /\ account'.sessions = account.sessions
      BY <2>1, <3>1 DEF Records
    <3> QED
      BY <2>1, <3>1, <3>2, <3>3
  <2>4. CASE UNCHANGED vars
    BY <2>1, <2>4 DEF vars
  <2> QED
    BY <2>2, <2>3, <2>4
<1>2. TypeOK'
  BY <1>1 DEF TypeOK, asked
<1>3. Fits(account)' /\ Settled(account)' /\ Dated(account, account.rev)'
  BY <1>1 DEF Fits, Settled, Dated, Ids, asked
<1>4. ASSUME NEW r \in Requests PROVE Pending(r)' /\ Paced(r)'
  <2>1. Paced(r)'
    BY <1>1 DEF Paced
  <2>2. Pending(r)'
    <3> SUFFICES ASSUME pc'[r] = "write" PROVE Pending(r)'
      BY DEF Pending
    <3>1. /\ next[r].rev = seenRev[r] + 1
          /\ answer[r] \in {"ok", "incorrect", "throttled"}
          /\ Fits(next[r]) /\ Settled(next[r]) /\ Dated(next[r], next[r].rev)
          /\ Same(r) => Faithful(r, next[r], answer[r])
      BY <1>1 DEF Pending
    <3>2. Fits(next[r])' /\ Settled(next[r])' /\ Dated(next[r], next[r].rev)'
      BY <1>1, <3>1 DEF Fits, Settled, Dated, Ids, asked
    <3>3. Same(r)' => Same(r)
      BY <1>1 DEF Same
    <3>4. Faithful(r, next[r], answer[r]) => Faithful(r, next[r], answer[r])'
      <4>1. now' < SIGN_IN_WINDOW_MS => now < SIGN_IN_WINDOW_MS
        BY <1>1, SessionAssumption
      <4>2. Ids(account)' = Ids(account) /\ Ids(next[r])' = Ids(next[r])
        BY <1>1 DEF Ids
      <4> QED
        BY <1>1, <4>1, <4>2 DEF Faithful
    <3> QED
      BY <1>1, <3>1, <3>2, <3>3, <3>4 DEF Pending
  <2> QED
    BY <2>1, <2>2
<1>5. Counted'
  BY <1>1, CountedStays DEF Dated
<1> QED
  BY <1>2, <1>3, <1>4, <1>5

\* A mutate has read the record and is about to write it.
LEMMA WriteStep ==
    ASSUME SInv, NEW r \in Requests, NEW record, NEW then, pc[r] = "commit", account.live,
           Write(r, record, then), GoodWrite(r, record, then)
    PROVE  SInv'
<1> USE DEF SInv
<1>0. PICK written : written = [record EXCEPT !.rev = account.rev + 1]
  OBVIOUS
<1>1. /\ next' = [next EXCEPT ![r] = written]
      /\ answer' = [answer EXCEPT ![r] = then]
      /\ seenRev' = [seenRev EXCEPT ![r] = account.rev]
      /\ attempt' = [attempt EXCEPT ![r] = attempt[r] + 1]
      /\ pc' = [pc EXCEPT ![r] = "write"]
      /\ UNCHANGED <<now, account, asked, seenPassword>>
  BY <1>0 DEF Write, Goto
<1>2. account.rev \in Nat /\ record \in Records
  BY DEF TypeOK, Records, GoodWrite
<1>3. /\ written \in Records /\ written.rev = account.rev + 1
      /\ written.password = record.password /\ written.failures = record.failures
      /\ written.sessions = record.sessions
  BY <1>0, <1>2 DEF Records
<1>4. TypeOK'
  <2>1. attempt[r] + 1 \in 0 .. MAX_ATTEMPTS
    BY SessionAssumption DEF Paced, TypeOK
  <2>2. then \in Stages /\ "write" \in Stages
    BY DEF GoodWrite, Stages
  <2> QED
    BY <1>1, <1>2, <1>3, <2>1, <2>2 DEF TypeOK, asked
<1>5. ASSUME NEW any, Settled(any) PROVE Settled(any)'
  BY <1>1, <1>5 DEF Settled, TypeOK
<1>6. Fits(account)' /\ Settled(account)' /\ Dated(account, account.rev)'
  <2>1. Settled(account)'
    BY <1>1, <1>5 DEF Settled
  <2> QED
    BY <1>1, <2>1 DEF Fits, Dated, Ids, asked
<1>7. Pending(r)'
  <2>1. next'[r] = written /\ answer'[r] = then /\ seenRev'[r] = account.rev
    BY <1>1 DEF TypeOK
  <2>2. Fits(written)'
    BY <1>1, <1>3 DEF GoodWrite, Fits, Ids, asked
  <2>3. Dated(written, account.rev + 1)
    BY <1>3 DEF GoodWrite, Dated
  <2>4. Faithful(r, written, then)'
    <3>1. Ids(written) = Ids(record) /\ Ids(account)' = Ids(account)
      BY <1>1, <1>3 DEF Ids
    <3> QED
      BY <1>1, <1>3, <3>1 DEF GoodWrite, Faithful, Ids
  <2>5. Settled(written)'
    <3>1. CASE record.password = r
      BY <1>1, <1>3, <3>1 DEF Settled, TypeOK
    <3>2. CASE record.password = account.password
      BY <1>3, <1>5, <3>2, <1>1 DEF Settled, TypeOK
    <3> QED
      BY <3>1, <3>2 DEF GoodWrite
  <2>6. Fits(next[r])' /\ Settled(next[r])' /\ Dated(next[r], next[r].rev)'
    BY <1>3, <2>1, <2>2, <2>3, <2>5 DEF Fits, Settled, Dated, Ids
  <2>7. Faithful(r, next[r], answer[r])'
    BY <2>1, <2>4 DEF Faithful, Ids
  <2> QED
    BY <1>3, <2>1, <2>6, <2>7 DEF Pending, GoodWrite
<1>8. ASSUME NEW q \in Requests, q # r PROVE Pending(q)'
  <2> SUFFICES ASSUME pc'[q] = "write" PROVE Pending(q)'
    BY DEF Pending
  <2>1. /\ next'[q] = next[q] /\ answer'[q] = answer[q] /\ seenRev'[q] = seenRev[q]
        /\ pc[q] = "write"
    BY <1>1, <1>8 DEF TypeOK
  <2>2. /\ next[q].rev = seenRev[q] + 1
        /\ answer[q] \in {"ok", "incorrect", "throttled"}
        /\ Fits(next[q]) /\ Settled(next[q]) /\ Dated(next[q], next[q].rev)
        /\ Same(q) => Faithful(q, next[q], answer[q])
    BY <2>1 DEF Pending
  <2>3. Settled(next[q])'
    BY <1>5, <2>1, <2>2 DEF Settled
  <2>4. Fits(next[q])' /\ Dated(next[q], next[q].rev)' /\ (Same(q)' <=> Same(q))
    BY <1>1, <2>1, <2>2 DEF Fits, Dated, Same, Ids, asked
  <2>5. Faithful(q, next[q], answer[q])' <=> Faithful(q, next[q], answer[q])
    <3>1. Ids(next[q])' = Ids(next[q]) /\ Ids(account)' = Ids(account)
      BY <1>1, <2>1 DEF Ids
    <3> QED
      BY <1>1, <2>1, <3>1 DEF Faithful
  <2> QED
    BY <2>1, <2>2, <2>3, <2>4, <2>5 DEF Pending
<1>9. ASSUME NEW q \in Requests PROVE Paced(q)'
  BY <1>1, <1>2 DEF Paced, TypeOK
<1>10. Counted'
  <2>1. \A q \in Requests : pc[q] = "ok" => pc'[q] = "ok"
    BY <1>1 DEF TypeOK
  <2>2. \A q \in SignIns : pc'[q] = "incorrect" => pc[q] = "incorrect"
    BY <1>1 DEF TypeOK, Requests
  <2> QED
    BY <1>1, <2>1, <2>2, CountedStays DEF TypeOK, Dated
<1> QED
  BY <1>4, <1>6, <1>7, <1>8, <1>9, <1>10

\* Its compare-and-swap succeeds: no other write came in between.
LEMMA LandStep ==
    ASSUME SInv, NEW r \in Requests, Land(r) PROVE SInv'
<1> USE DEF SInv
<1>1. /\ pc[r] = "write" /\ account.live /\ account.rev = seenRev[r]
      /\ account' = next[r] /\ pc' = [pc EXCEPT ![r] = answer[r]]
      /\ UNCHANGED <<now, asked, seenPassword, attempt, next, answer, seenRev>>
  BY DEF Land, Same, Goto
<1>2. /\ next[r].rev = account.rev + 1 /\ answer[r] \in {"ok", "incorrect", "throttled"}
      /\ Fits(next[r]) /\ Settled(next[r]) /\ Dated(next[r], next[r].rev)
      /\ Faithful(r, next[r], answer[r])
  BY <1>1 DEF Pending, Same
<1>3. next[r] \in Records /\ account.rev \in Nat
  BY DEF TypeOK, Records
<1>4. TypeOK'
  BY <1>1, <1>2, <1>3 DEF TypeOK, Stages, asked, Dated
<1>5. ASSUME NEW any, Settled(any) PROVE Settled(any)'
  BY <1>1, <1>2, <1>5 DEF Settled, TypeOK
<1>6. Fits(account)' /\ Settled(account)' /\ Dated(account, account.rev)'
  <2>1. Settled(account)'
    BY <1>1, <1>2, <1>5 DEF Settled
  <2> QED
    BY <1>1, <1>2, <2>1 DEF Fits, Dated, Ids, asked
<1>7. ASSUME NEW q \in Requests PROVE Pending(q)' /\ Paced(q)'
  <2>1. Paced(q)'
    BY <1>1, <1>2, <1>3 DEF Paced, TypeOK
  <2>2. Pending(q)'
    <3> SUFFICES ASSUME pc'[q] = "write" PROVE Pending(q)'
      BY DEF Pending
    <3>1. pc[q] = "write" /\ q # r
      BY <1>1, <1>2 DEF TypeOK
    <3>2. /\ next[q].rev = seenRev[q] + 1
          /\ answer[q] \in {"ok", "incorrect", "throttled"}
          /\ Fits(next[q]) /\ Settled(next[q]) /\ Dated(next[q], next[q].rev)
      BY <3>1 DEF Pending
    <3>3. ~Same(q)'
      BY <1>1, <1>2, <1>3 DEF Same, Paced, TypeOK
    <3>4. Fits(next[q])' /\ Settled(next[q])' /\ Dated(next[q], next[q].rev)'
      BY <1>1, <1>5, <3>2 DEF Fits, Settled, Dated, Ids, asked
    <3> QED
      BY <1>1, <3>2, <3>3, <3>4 DEF Pending
  <2> QED
    BY <2>1, <2>2
<1>8. Counted'
  <2>1. /\ IsFiniteSet(account.failures) /\ IsFiniteSet(next[r].failures)
        /\ IsFiniteSet(Answered)
    BY <1>2 DEF Dated, Counted
  <2>2. /\ Cardinality(account.failures) \in Nat /\ Cardinality(next[r].failures) \in Nat
        /\ Cardinality(Answered) \in Nat /\ SIGN_IN_MAX_FAILURES \in Nat
    BY <2>1, FS_CardinalityType, SessionAssumption
  <2>3. CASE r \in SignIns /\ answer[r] = "incorrect"
    <3>1. Answered' \in SUBSET (Answered \cup {r})
      BY <1>1, <2>3 DEF Answered, TypeOK, Requests
    <3>2. /\ IsFiniteSet(Answered \cup {r})
          /\ Cardinality(Answered \cup {r}) <= Cardinality(Answered) + 1
      <4>1. /\ IsFiniteSet(Answered \cup {r})
            /\ Cardinality(Answered \cup {r}) =
                  IF r \in Answered THEN Cardinality(Answered) ELSE Cardinality(Answered) + 1
        BY <2>1, FS_AddElement
      <4> QED
        BY <2>2, <4>1
    <3>3. /\ IsFiniteSet(Answered') /\ Cardinality(Answered') \in Nat
          /\ Cardinality(Answered') <= Cardinality(Answered \cup {r})
      BY <3>1, <3>2, FS_Subset, FS_CardinalityType
    <3>4. Cardinality(Answered \cup {r}) \in Nat
      BY <3>2, FS_CardinalityType
    <3>5. CASE now' < SIGN_IN_WINDOW_MS /\ \A q \in Requests : pc'[q] # "ok"
      <4>1. now < SIGN_IN_WINDOW_MS /\ \A q \in Requests : pc[q] # "ok"
        BY <1>1, <2>3, <3>5 DEF TypeOK
      <4>2. /\ account.failures \in SUBSET next[r].failures
            /\ Cardinality(account.failures) < SIGN_IN_MAX_FAILURES
            /\ next[r].failures # account.failures
        BY <2>3, <4>1, <1>2 DEF Faithful
      <4>3. Cardinality(account.failures) < Cardinality(next[r].failures)
        BY <2>1, <2>2, <4>2, FS_Subset
      <4>4. Cardinality(Answered) <= Cardinality(account.failures)
        BY <4>1 DEF Counted
      <4>5. /\ Cardinality(Answered') <= Cardinality(next[r].failures)
            /\ Cardinality(Answered') <= SIGN_IN_MAX_FAILURES
        BY <2>2, <3>2, <3>3, <3>4, <4>2, <4>3, <4>4
      <4> QED
        BY <1>1, <3>3, <4>5 DEF Counted
    <3> QED
      BY <3>3, <3>5 DEF Counted
  <2>4. CASE ~(r \in SignIns /\ answer[r] = "incorrect")
    <3>1. Answered' \in SUBSET Answered
      BY <1>1, <2>4 DEF Answered, TypeOK, Requests
    <3>2. /\ IsFiniteSet(Answered') /\ Cardinality(Answered') \in Nat
          /\ Cardinality(Answered') <= Cardinality(Answered)
      BY <2>1, <3>1, FS_Subset, FS_CardinalityType
    <3>3. CASE now' < SIGN_IN_WINDOW_MS /\ \A q \in Requests : pc'[q] # "ok"
      <4>1. now < SIGN_IN_WINDOW_MS /\ answer[r] # "ok" /\ \A q \in Requests : pc[q] # "ok"
        BY <1>1, <3>3 DEF TypeOK
      <4>2. account.failures \in SUBSET next[r].failures
        BY <4>1, <1>2 DEF Faithful
      <4>3. Cardinality(account.failures) <= Cardinality(next[r].failures)
        BY <2>1, <4>2, FS_Subset
      <4>4. /\ Cardinality(Answered) <= Cardinality(account.failures)
            /\ Cardinality(Answered) <= SIGN_IN_MAX_FAILURES
        BY <4>1 DEF Counted
      <4>5. /\ Cardinality(Answered') <= Cardinality(next[r].failures)
            /\ Cardinality(Answered') <= SIGN_IN_MAX_FAILURES
        BY <2>2, <3>2, <4>3, <4>4
      <4> QED
        BY <1>1, <3>2, <4>5 DEF Counted
    <3> QED
      BY <3>2, <3>3 DEF Counted
  <2> QED
    BY <2>3, <2>4
<1> QED
  BY <1>4, <1>6, <1>7, <1>8

\* What each mutate writes.
LEMMA SignInWrites ==
    ASSUME SInv, NEW r \in Requests,
           SignInThrottled(r) \/ SignInFails(r) \/ SignInSucceeds(r)
    PROVE  SInv'
<1> USE DEF SInv
<1>1. /\ r \in SignIns /\ pc[r] = "commit" /\ account.live
      /\ account \in Records /\ account.rev \in Nat
  BY DEF SignInThrottled, SignInFails, SignInSucceeds, Reading, TypeOK, Records
<1>2. Dated(account, account.rev + 1)
  BY <1>1 DEF Dated, TypeOK, Records
<1>3. CASE SignInThrottled(r)
  <2>1. GoodWrite(r, account, "throttled")
    BY <1>1, <1>2 DEF GoodWrite, Faithful
  <2> QED
    BY <1>1, <1>3, <2>1, WriteStep DEF SignInThrottled
<1>4. CASE SignInFails(r)
  <2>1. /\ FailedOnceMore(account) \in Records
        /\ FailedOnceMore(account).password = account.password
        /\ FailedOnceMore(account).sessions = account.sessions
        /\ Dated(FailedOnceMore(account), account.rev + 1)
        /\ now < SIGN_IN_WINDOW_MS =>
              /\ Recent(account) = account.failures
              /\ account.failures \subseteq FailedOnceMore(account).failures
              /\ FailedOnceMore(account).failures # account.failures
    BY FailedOnceMoreFacts
  <2>2. Ids(FailedOnceMore(account)) = Ids(account) /\ Fits(FailedOnceMore(account))
    BY <2>1 DEF Ids, Fits
  <2>3. now < SIGN_IN_WINDOW_MS => Cardinality(account.failures) < SIGN_IN_MAX_FAILURES
    <3>1. ~(Cardinality(Recent(account)) >= SIGN_IN_MAX_FAILURES)
      BY <1>4 DEF SignInFails, CommitThrottled, LimitReached
    <3>2. Cardinality(account.failures) \in Nat /\ SIGN_IN_MAX_FAILURES \in Nat
      BY <1>2, FS_CardinalityType, SessionAssumption DEF Dated
    <3> QED
      BY <2>1, <3>1, <3>2
  <2>4. GoodWrite(r, FailedOnceMore(account), "incorrect")
    BY <2>1, <2>2, <2>3 DEF GoodWrite, Faithful
  <2> QED
    BY <1>1, <1>4, <2>4, WriteStep DEF SignInFails
<1>5. CASE SignInSucceeds(r)
  <2> DEFINE new == [id |-> r, expires |-> now + SESSION_TTL_MS, rev |-> account.rev]
             kept == {s \in account.sessions : s.expires > now}
             all == {new} \cup kept
             with == WithSession(account, r)
  <2>1. guess[r] = account.password /\ r # First
    BY <1>5, <1>1, SessionAssumption DEF SignInSucceeds, Verified, Requests
  <2>2. /\ account.sessions \in SUBSET [id : SessionIds, expires : Nat, rev : Nat]
        /\ new \in [id : SessionIds, expires : Nat, rev : Nat]
    BY <1>1, SessionAssumption DEF TypeOK, Records, SessionIds
  <2>3. all \in SUBSET [id : SessionIds, expires : Nat, rev : Nat]
    BY <2>2
  <2>4. IsFiniteSet(all)
    <3>1. kept \in SUBSET account.sessions
      OBVIOUS
    <3> HIDE DEF kept, new
    <3>2. IsFiniteSet(kept)
      BY <3>1, FS_Subset DEF Dated
    <3>3. IsFiniteSet(kept \cup {new}) /\ all = kept \cup {new}
      BY <3>2, FS_AddElement
    <3> HIDE DEF all
    <3> QED
      BY <3>3
  <2>5. \A s, t \in all : s.rev = t.rev => s = t
    BY <1>1, <2>2 DEF Dated
  <2>6. \A s \in all : s.rev < account.rev + 1
    BY <1>1, <2>2 DEF Dated
  <2>7. \A s \in all : s.id = r \/ s \in account.sessions
    OBVIOUS
  <2>8. with = [account EXCEPT !.failures = {}, !.sessions = Cut(all)]
    BY DEF WithSession
  <2> HIDE DEF all, with
  <2>9. /\ Cut(all) \subseteq all /\ IsFiniteSet(Cut(all))
        /\ Cardinality(Cut(all)) <= MAX_SESSIONS
    BY <2>3, <2>4, <2>5, CutBounded
  <2>10. /\ with \in Records /\ with.failures = {} /\ with.sessions = Cut(all)
         /\ with.password = account.password
    BY <1>1, <2>3, <2>8, <2>9 DEF Records
  <2>11. Dated(with, account.rev + 1)
    BY <2>5, <2>6, <2>9, <2>10, FS_EmptySet DEF Dated
  <2>12. \A id \in Ids(with) : id = r \/ id \in Ids(account)
    BY <2>7, <2>9, <2>10 DEF Ids
  <2>13. Fits(with)
    BY <2>1, <2>10, <2>12 DEF Fits
  <2>14. GoodWrite(r, with, "ok")
    BY <1>1, <2>10, <2>11, <2>12, <2>13 DEF GoodWrite, Faithful
  <2> QED
    BY <1>1, <1>5, <2>14, WriteStep DEF SignInSucceeds, with
<1> QED
  BY <1>3, <1>4, <1>5

LEMMA ChangeWrites ==
    ASSUME SInv, NEW r \in Requests, ChangeFails(r) \/ ChangeSucceeds(r)
    PROVE  SInv'
<1> USE DEF SInv
<1>1. /\ r \in Changes /\ pc[r] = "commit" /\ account.live /\ r \notin SignIns
      /\ account \in Records /\ account.rev \in Nat
  BY SessionAssumption DEF ChangeFails, ChangeSucceeds, Reading, TypeOK, Records
<1>2. CASE ChangeFails(r)
  <2>1. /\ FailedOnceMore(account) \in Records
        /\ FailedOnceMore(account).password = account.password
        /\ FailedOnceMore(account).sessions = account.sessions
        /\ Dated(FailedOnceMore(account), account.rev + 1)
        /\ now < SIGN_IN_WINDOW_MS =>
              account.failures \subseteq FailedOnceMore(account).failures
    BY FailedOnceMoreFacts
  <2>2. Ids(FailedOnceMore(account)) = Ids(account) /\ Fits(FailedOnceMore(account))
    BY <2>1 DEF Ids, Fits
  <2>3. GoodWrite(r, FailedOnceMore(account), "incorrect")
    BY <1>1, <2>1, <2>2 DEF GoodWrite, Faithful
  <2> QED
    BY <1>1, <1>2, <2>3, WriteStep DEF ChangeFails
<1>3. CASE ChangeSucceeds(r)
  <2> DEFINE only == OnlySession(account, session[r])
             changed == [account EXCEPT !.password = r, !.failures = {}, !.sessions = only]
  <2>1. only \in SUBSET account.sessions /\ \A s \in only : s.id = session[r]
    BY DEF OnlySession
  <2> HIDE DEF only
  <2>2. IsFiniteSet(only) /\ Cardinality(only) <= Cardinality(account.sessions)
    BY <2>1, FS_Subset DEF Dated
  <2>3. Cardinality(only) <= MAX_SESSIONS
    <3>1. /\ Cardinality(only) \in Nat /\ Cardinality(account.sessions) \in Nat
          /\ MAX_SESSIONS \in Nat
      BY <2>2, FS_CardinalityType, SessionAssumption DEF Dated
    <3> QED
      BY <2>2, <3>1 DEF Dated
  <2>4. /\ changed \in Records /\ changed.failures = {} /\ changed.sessions = only
        /\ changed.password = r
    BY <1>1, <2>1 DEF Records, Passwords
  <2>5. \A s \in only : s.rev < account.rev + 1
    BY <1>1, <2>1 DEF Dated, Records
  <2> HIDE DEF changed
  <2>6. Dated(changed, account.rev + 1)
    BY <2>1, <2>2, <2>3, <2>4, <2>5, FS_EmptySet DEF Dated
  <2>7. Fits(changed)
    BY <1>1, <2>1, <2>4 DEF Fits, Ids
  <2>8. Ids(changed) \subseteq Ids(account)
    BY <2>1, <2>4 DEF Ids
  <2>9. GoodWrite(r, changed, "ok")
    BY <2>4, <2>6, <2>7, <2>8 DEF GoodWrite, Faithful
  <2> QED
    BY <1>1, <1>3, <2>9, WriteStep DEF ChangeSucceeds, changed, only
<1> QED
  BY <1>2, <1>3

LEMMA OtherWrites ==
    ASSUME SInv, NEW r \in Requests, Reset(r) \/ SignOut(r)
    PROVE  SInv'
<1> USE DEF SInv
<1>1. /\ r \in Others /\ pc[r] = "commit" /\ account.live
      /\ account \in Records /\ account.rev \in Nat
  BY DEF Reset, SignOut, Reading, TypeOK, Records
<1>2. CASE Reset(r)
  <2> DEFINE reset == [account EXCEPT !.password = r, !.failures = {}, !.sessions = {}]
  <2>1. /\ reset \in Records /\ reset.failures = {} /\ reset.sessions = {}
        /\ reset.password = r
    BY <1>1 DEF Records, Passwords
  <2> HIDE DEF reset
  <2>2. Dated(reset, account.rev + 1)
    BY <2>1, FS_EmptySet, SessionAssumption DEF Dated
  <2>3. Ids(reset) = {}
    BY <2>1 DEF Ids
  <2>4. GoodWrite(r, reset, "ok")
    BY <2>1, <2>2, <2>3 DEF GoodWrite, Faithful, Fits
  <2> QED
    BY <1>1, <1>2, <2>4, WriteStep DEF Reset, SessionsAfterReset, reset
<1>3. CASE SignOut(r)
  <2> DEFINE left == {s \in account.sessions : s.id # session[r]}
             without == [account EXCEPT !.sessions = left]
  <2>1. left \in SUBSET account.sessions
    OBVIOUS
  <2> HIDE DEF left
  <2>2. IsFiniteSet(left) /\ Cardinality(left) <= Cardinality(account.sessions)
    BY <2>1, FS_Subset DEF Dated
  <2>3. Cardinality(left) <= MAX_SESSIONS
    <3>1. /\ Cardinality(left) \in Nat /\ Cardinality(account.sessions) \in Nat
          /\ MAX_SESSIONS \in Nat
      BY <2>2, FS_CardinalityType, SessionAssumption DEF Dated
    <3> QED
      BY <2>2, <3>1 DEF Dated
  <2>4. /\ without \in Records /\ without.failures = account.failures
        /\ without.sessions = left /\ without.password = account.password
    BY <1>1, <2>1 DEF Records
  <2>5. /\ \A s \in left : s.rev < account.rev + 1
        /\ \A f \in account.failures : f.rev < account.rev + 1
    BY <1>1, <2>1 DEF Dated, Records
  <2> HIDE DEF without
  <2>6. Dated(without, account.rev + 1)
    BY <2>1, <2>2, <2>3, <2>4, <2>5 DEF Dated
  <2>7. Ids(without) \subseteq Ids(account)
    BY <2>1, <2>4 DEF Ids
  <2>8. GoodWrite(r, without, "ok")
    BY <2>4, <2>6, <2>7 DEF GoodWrite, Faithful, Fits
  <2> QED
    BY <1>1, <1>3, <2>8, WriteStep DEF SignOut, without, left
<1> QED
  BY <1>2, <1>3

\* What each handler does before it writes, or when it does not.
LEMMA LookStep ==
    ASSUME SInv, NEW r \in Requests,
           \/ SignInLook(r) \/ ChangeLook(r) \/ ResetLook(r) \/ SignOutStart(r)
           \/ ChangeConflicts(r) \/ Missing(r) \/ Miss(r)
    PROVE  SInv'
<1> USE DEF SInv, Goto
<1>0. account.password \in Passwords /\ attempt[r] \in 0 .. MAX_ATTEMPTS
  BY DEF TypeOK, Records
<1>1. CASE SignInLook(r)
  <2>1. PICK stage \in {"incorrect", "throttled", "commit"} :
           pc' = [pc EXCEPT ![r] = stage] /\ (stage = "incorrect" => ~account.live)
    BY <1>1 DEF SignInLook
  <2> QED
    BY <1>0, <1>1, <2>1, QuietStep DEF SignInLook, asked, TypeOK, Paced, Stages
<1>2. CASE ChangeLook(r)
  <2>1. PICK stage \in {"throttled", "commit"} : pc' = [pc EXCEPT ![r] = stage]
    BY <1>2 DEF ChangeLook
  <2>2. /\ session' \in [Changes \cup Others -> SessionIds]
        /\ \A q \in Changes : pc[q] # "start" => session'[q] = session[q]
    BY <1>2 DEF ChangeLook, TypeOK
  <2> QED
    BY <1>0, <1>2, <2>1, <2>2, QuietStep DEF ChangeLook, TypeOK, Paced, Stages
<1>3. CASE ResetLook(r)
  <2>1. /\ pc[r] = "start" /\ pc' = [pc EXCEPT ![r] = "commit"] /\ attempt[r] < MAX_ATTEMPTS
        /\ session' = session /\ session \in [Changes \cup Others -> SessionIds]
        /\ seenPassword' \in [Requests -> Passwords]
        /\ UNCHANGED <<now, account, guess, resetters, attempt, next, answer, seenRev>>
    BY <1>3 DEF ResetLook, asked, TypeOK, Paced
  <2>2. "commit" \in Stages \ {"write", "ok"}
    BY DEF Stages
  <2> HIDE DEF SInv, Goto
  <2> QED
    BY <2>1, <2>2, QuietStep
<1>4. CASE SignOutStart(r)
  <2>1. /\ session' \in [Changes \cup Others -> SessionIds]
        /\ \A q \in Changes : pc[q] # "start" => session'[q] = session[q]
    BY <1>4 DEF SignOutStart, TypeOK
  <2>2. /\ pc[r] = "start" /\ pc' = [pc EXCEPT ![r] = "commit"] /\ attempt[r] < MAX_ATTEMPTS
        /\ seenPassword' \in [Requests -> Passwords]
        /\ UNCHANGED <<now, account, guess, resetters, attempt, next, answer, seenRev>>
    BY <1>4 DEF SignOutStart, TypeOK, Paced
  <2>3. "commit" \in Stages \ {"write", "ok"}
    BY DEF Stages
  <2> HIDE DEF SInv, Goto
  <2> QED
    BY <2>1, <2>2, <2>3, QuietStep
<1>5. CASE ChangeConflicts(r)
  <2>1. /\ pc[r] = "commit" /\ pc' = [pc EXCEPT ![r] = "refused"]
        /\ session' = session /\ session \in [Changes \cup Others -> SessionIds]
        /\ seenPassword' \in [Requests -> Passwords]
        /\ UNCHANGED <<now, account, guess, resetters, attempt, next, answer, seenRev>>
    BY <1>5 DEF ChangeConflicts, Reading, asked, TypeOK
  <2>2. "refused" \in Stages \ {"write", "ok"}
    BY DEF Stages
  <2> HIDE DEF SInv, Goto
  <2> QED
    BY <2>1, <2>2, QuietStep
<1>6. CASE Missing(r)
  BY <1>6, QuietStep DEF Missing, asked, TypeOK, Stages
<1>7. CASE Miss(r)
  <2>1. PICK stage \in {"refused", "commit"} :
           pc' = [pc EXCEPT ![r] = stage] /\ (stage = "commit" => attempt[r] < MAX_ATTEMPTS)
    BY <1>7 DEF Miss
  <2> QED
    BY <1>7, <2>1, QuietStep DEF Miss, asked, TypeOK, Stages
<1> QED
  BY <1>1, <1>2, <1>3, <1>4, <1>5, <1>6, <1>7

LEMMA SInvStep == SInv /\ [Next]_vars => SInv'
BY LookStep, SignInWrites, ChangeWrites, OtherWrites, LandStep, WorldStep DEF Next

-----------------------------------------------------------------------------
(* The theorems. *)

\* The record keeps its form, and never more than MAX_SESSIONS sessions.
THEOREM SessionsTyped == Spec => []TypeOK
<1>1. SInv => TypeOK
  BY DEF SInv
<1> QED
  BY <1>1, SInvInit, SInvStep, PTL DEF Spec

\* No session outlives the password it was opened with, except the one that a
\* change was made from.
THEOREM PasswordDecides == Spec => []SessionsMatchPassword
<1>1. SInv => SessionsMatchPassword
  BY DEF SInv, Fits, SessionsMatchPassword
<1> QED
  BY <1>1, SInvInit, SInvStep, PTL DEF Spec

\* A session appears only by its own sign-in's write.
THEOREM SignedOutForGood == Spec => NoSessionReturns
<1>1. SInv /\ [Next]_vars =>
         [\A id \in SessionIds :
             id \in Ids(account') /\ id \notin Ids(account) =>
                 id \in SignIns /\ pc[id] = "write" /\ pc'[id] = "ok"]_vars
  <2> SUFFICES ASSUME SInv, Next, NEW id \in SessionIds,
                      id \in Ids(account'), id \notin Ids(account)
               PROVE  id \in SignIns /\ pc[id] = "write" /\ pc'[id] = "ok"
    OBVIOUS
  <2>1. PICK r \in Requests : Land(r)
    <3>1. account'.sessions = account.sessions => Ids(account') = Ids(account)
      BY DEF Ids
    <3>2. RemoveAccount => account'.sessions = account.sessions
      BY DEF RemoveAccount, SInv, TypeOK, Records
    <3>3. UNCHANGED account => account'.sessions = account.sessions
      OBVIOUS
    <3> HIDE DEF Ids
    <3> QED
      BY <3>1, <3>2, <3>3 DEF Next, SignInLook, ChangeLook, ResetLook, SignOutStart,
         SignInThrottled, SignInFails, SignInSucceeds, ChangeFails, ChangeConflicts,
         ChangeSucceeds, Reset, SignOut, Missing, Miss, Write, Tick
  <2>2. /\ pc[r] = "write" /\ Same(r) /\ account' = next[r]
        /\ pc' = [pc EXCEPT ![r] = answer[r]]
    BY <2>1 DEF Land, Goto
  <2>3. Faithful(r, next[r], answer[r])
    BY <2>2 DEF SInv, Pending
  <2>4. id = r /\ r \in SignIns /\ answer[r] = "ok"
    BY <2>2, <2>3 DEF Faithful
  <2> QED
    BY <2>2, <2>4 DEF SInv, TypeOK
<1> QED
  BY <1>1, SInvInit, SInvStep, PTL DEF Spec, NoSessionReturns

\* A burst of guesses gets no more verdicts than the limit, however many come.
THEOREM BurstStopped == Spec => []BurstLimited
<1>1. SInv => BurstLimited
  BY DEF SInv, Counted, BurstLimited
<1> QED
  BY <1>1, SInvInit, SInvStep, PTL DEF Spec
=============================================================================
