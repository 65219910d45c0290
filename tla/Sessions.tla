------------------------------- MODULE Sessions -------------------------------
(***************************************************************************)
(* One account's password, failed attempts and sessions                    *)
(* (auth/accounts.ts: signIn, authenticate, signOut, changePassword,       *)
(* resetPassword, removal). All of it lives in one document that every     *)
(* handler reads, works on for a while (hashing a password takes long) and *)
(* writes back with a compare-and-swap on its revision, up to MAX_ATTEMPTS *)
(* times. A request that fails or dies is one that takes no further step.  *)
(* The two lists of the document are sets here; the revision an entry was  *)
(* written on tells its age.                                               *)
(***************************************************************************)
EXTENDS Integers, FiniteSets

CONSTANTS
    SignIns, Changes, Others,   \* the requests; the others reset or sign out
    First,              \* the sign-in whose session exists at the start
    InitialPassword,    \* later passwords are named after the request that set them
    WrongPassword,      \* what a guess may also be
    SIGN_IN_WINDOW_MS, SIGN_IN_MAX_FAILURES, SESSION_TTL_MS, MAX_SESSIONS,
    MAX_ATTEMPTS, MaxTime

Requests == SignIns \cup Changes \cup Others
Passwords == {InitialPassword} \cup Changes \cup Others
Guesses == Passwords \cup {WrongPassword}
SessionIds == SignIns \cup {First}

ASSUME SessionAssumption ==
    /\ SignIns \cap Changes = {}
    /\ First \notin Requests /\ InitialPassword \notin Requests
    /\ WrongPassword \notin Passwords
    /\ {SIGN_IN_WINDOW_MS, SIGN_IN_MAX_FAILURES, SESSION_TTL_MS, MAX_SESSIONS,
        MAX_ATTEMPTS} \subseteq Nat \ {0}
    /\ MaxTime \in Nat

VARIABLES
    now,
    account,    \* the gateway_users document; live is FALSE once it is deleted
    guess,      \* the password each sign-in and change presents
    resetters,  \* which of the others reset the password
    session,    \* the session a change or a sign-out was sent with
    pc, seenPassword, attempt,
    next, answer, \* the record a pending write carries and what follows it
    seenRev

asked == <<guess, session, resetters>>
vars == <<now, account, asked, pc, seenPassword, attempt, next, answer, seenRev>>

Ids(record) == {s.id : s \in record.sessions}

\* authenticate: the account exists and the session is listed and not over.
Authenticated(id) ==
    account.live /\ \E s \in account.sessions : s.id = id /\ s.expires > now

FirstAccount ==
    [live |-> TRUE, rev |-> 1, password |-> InitialPassword, failures |-> {},
     sessions |-> {[id |-> First, expires |-> SESSION_TTL_MS, rev |-> 0]}]

Init ==
    /\ now = 0
    /\ account = FirstAccount
    /\ guess \in [SignIns \cup Changes -> Guesses]
    /\ session = [r \in Changes \cup Others |-> First]
    /\ resetters \in SUBSET Others
    /\ pc = [r \in Requests |-> "start"]
    /\ seenPassword = [r \in Requests |-> InitialPassword]
    /\ attempt = [r \in Requests |-> 0]
    /\ next = [r \in Requests |-> FirstAccount]
    /\ answer = [r \in Requests |-> "ok"]
    /\ seenRev = [r \in Requests |-> 0]

Goto(r, stage) == pc' = [pc EXCEPT ![r] = stage]

\* recentFailures and issueSession.
Recent(record) == {f \in record.failures : now - f.at < SIGN_IN_WINDOW_MS}

FailedOnceMore(record) ==
    [record EXCEPT !.failures = {[at |-> now, rev |-> record.rev]} \cup Recent(record)]

\* The newest ones stay.
Cut(sessions) ==
    {s \in sessions : Cardinality({t \in sessions : t.rev > s.rev}) < MAX_SESSIONS}

WithSession(record, id) ==
    LET new == [id |-> id, expires |-> now + SESSION_TTL_MS, rev |-> record.rev]
    IN [record EXCEPT !.failures = {},
                      !.sessions = Cut({new} \cup {s \in record.sessions : s.expires > now})]

OnlySession(record, id) == {s \in record.sessions : s.id = id}

LimitReached(record) == Cardinality(Recent(record)) >= SIGN_IN_MAX_FAILURES

-----------------------------------------------------------------------------
(* The first read, before the password is verified or hashed. *)

SignInLook(r) ==
    /\ r \in SignIns /\ pc[r] = "start"
    /\ seenPassword' = [seenPassword EXCEPT ![r] = account.password]
    /\ Goto(r, IF ~account.live THEN "incorrect"
               ELSE IF LimitReached(account) THEN "throttled" ELSE "commit")
    /\ UNCHANGED <<now, account, asked, attempt, next, answer, seenRev>>

\* A change comes with a session, which it means to keep.
ChangeLook(r) ==
    /\ r \in Changes /\ pc[r] = "start"
    /\ \E id \in SessionIds :
        Authenticated(id) /\ session' = [session EXCEPT ![r] = id]
    /\ seenPassword' = [seenPassword EXCEPT ![r] = account.password]
    /\ Goto(r, IF LimitReached(account) THEN "throttled" ELSE "commit")
    /\ UNCHANGED <<now, account, guess, resetters, attempt, next, answer, seenRev>>

SignOutStart(r) ==
    /\ r \in Others \ resetters /\ pc[r] = "start"
    /\ \E id \in SessionIds :
        Authenticated(id) /\ session' = [session EXCEPT ![r] = id]
    /\ Goto(r, "commit")
    /\ UNCHANGED <<now, account, guess, resetters, seenPassword, attempt, next, answer, seenRev>>

\* Somebody who may manage the member (TeamOwners) asks for a new password.
ResetLook(r) ==
    /\ r \in resetters /\ pc[r] = "start" /\ account.live
    /\ Goto(r, "commit")
    /\ UNCHANGED <<now, account, asked, seenPassword, attempt, next, answer, seenRev>>

-----------------------------------------------------------------------------
(* The mutates: what each writes on the record it reads now. *)

\* A mutate's read and change: the write that follows, or the end.
Write(r, record, then) ==
    /\ next' = [next EXCEPT ![r] = [record EXCEPT !.rev = account.rev + 1]]
    /\ answer' = [answer EXCEPT ![r] = then]
    /\ seenRev' = [seenRev EXCEPT ![r] = account.rev]
    /\ attempt' = [attempt EXCEPT ![r] = @ + 1]
    /\ Goto(r, "write")
    /\ UNCHANGED <<now, account, asked, seenPassword>>

Reading(r, requests) == r \in requests /\ pc[r] = "commit" /\ account.live

Missing(r) ==
    /\ pc[r] = "commit" /\ ~account.live
    /\ Goto(r, "missing")
    /\ UNCHANGED <<now, account, asked, seenPassword, attempt, next, answer, seenRev>>

\* Variants: sign-in does not look at the limit again, or at the password.
NotRechecked(record) == FALSE
VerdictKept(r, record) == guess[r] = seenPassword[r]

\* Checked again at commit: concurrent guesses must not slip past the limit.
CommitThrottled(record) == LimitReached(record)

\* The password verified against is still the account's.
Verified(r, record) == guess[r] = seenPassword[r] /\ record.password = seenPassword[r]

SignInThrottled(r) ==
    /\ Reading(r, SignIns) /\ CommitThrottled(account)
    /\ Write(r, account, "throttled")

SignInFails(r) ==
    /\ Reading(r, SignIns) /\ ~CommitThrottled(account) /\ ~Verified(r, account)
    /\ Write(r, FailedOnceMore(account), "incorrect")

SignInSucceeds(r) ==
    /\ Reading(r, SignIns) /\ ~CommitThrottled(account) /\ Verified(r, account)
    /\ Write(r, WithSession(account, r), "ok")

ChangeFails(r) ==
    /\ Reading(r, Changes) /\ guess[r] # seenPassword[r]
    /\ Write(r, FailedOnceMore(account), "incorrect")

\* A reset or sign-out since the change was verified wins over it.
Conflicts(r, record) ==
    record.password # seenPassword[r] \/ session[r] \notin Ids(record)

ChangeConflicts(r) ==
    /\ Reading(r, Changes) /\ guess[r] = seenPassword[r] /\ Conflicts(r, account)
    /\ Goto(r, "refused")
    /\ UNCHANGED <<now, account, asked, seenPassword, attempt, next, answer, seenRev>>

ChangeSucceeds(r) ==
    /\ Reading(r, Changes) /\ guess[r] = seenPassword[r] /\ ~Conflicts(r, account)
    /\ Write(r, [account EXCEPT !.password = r, !.failures = {},
                                !.sessions = OnlySession(account, session[r])], "ok")

SessionsAfterReset(record) == {}

Reset(r) ==
    /\ Reading(r, resetters)
    /\ Write(r, [account EXCEPT !.password = r, !.failures = {},
                                !.sessions = SessionsAfterReset(account)], "ok")

SignOut(r) ==
    /\ Reading(r, Others \ resetters)
    /\ Write(r, [account EXCEPT !.sessions =
                    {s \in account.sessions : s.id # session[r]}], "ok")

\* Variant: the write does not compare the revision.
SwapAlways(r) == account.live

Same(r) == account.live /\ account.rev = seenRev[r]

Land(r) ==
    /\ pc[r] = "write" /\ Same(r)
    /\ account' = next[r]
    /\ Goto(r, answer[r])
    /\ UNCHANGED <<now, asked, seenPassword, attempt, next, answer, seenRev>>

Miss(r) ==
    /\ pc[r] = "write" /\ ~Same(r)
    /\ Goto(r, IF attempt[r] < MAX_ATTEMPTS THEN "commit" ELSE "refused")
    /\ UNCHANGED <<now, account, asked, seenPassword, attempt, next, answer, seenRev>>

\* Removing the member deletes the document, sessions and all.
RemoveAccount ==
    /\ account.live
    /\ account' = [account EXCEPT !.live = FALSE]
    /\ UNCHANGED <<now, asked, pc, seenPassword, attempt, next, answer, seenRev>>

Tick ==
    /\ now < MaxTime /\ now' = now + 1
    /\ UNCHANGED <<account, asked, pc, seenPassword, attempt, next, answer, seenRev>>

Next ==
    \/ \E r \in Requests :
        \/ SignInLook(r) \/ ChangeLook(r) \/ ResetLook(r) \/ SignOutStart(r)
        \/ SignInThrottled(r) \/ SignInFails(r) \/ SignInSucceeds(r)
        \/ ChangeFails(r) \/ ChangeConflicts(r) \/ ChangeSucceeds(r)
        \/ Reset(r) \/ SignOut(r) \/ Missing(r) \/ Land(r) \/ Miss(r)
    \/ RemoveAccount \/ Tick

Spec == Init /\ [][Next]_vars

-----------------------------------------------------------------------------
(* Properties. *)

Stages == {"start", "commit", "write", "ok", "incorrect", "throttled", "refused", "missing"}

Records == [live : BOOLEAN, rev : Nat, password : Passwords,
            failures : SUBSET [at : Nat, rev : Nat],
            sessions : SUBSET [id : SessionIds, expires : Nat, rev : Nat]]

TypeOK ==
    /\ now \in 0 .. MaxTime
    /\ account \in Records /\ next \in [Requests -> Records]
    /\ Cardinality(account.sessions) <= MAX_SESSIONS
    /\ guess \in [SignIns \cup Changes -> Guesses]
    /\ session \in [Changes \cup Others -> SessionIds] /\ resetters \subseteq Others
    /\ pc \in [Requests -> Stages] /\ answer \in [Requests -> Stages]
    /\ seenPassword \in [Requests -> Passwords]
    /\ attempt \in [Requests -> 0 .. MAX_ATTEMPTS] /\ seenRev \in [Requests -> Nat]

\* No session outlives the password it was opened with, except the one a
\* password change was made from: a sign-in verified before a change or reset
\* and committed after it is not let in.
SessionsMatchPassword ==
    \A id \in Ids(account) :
        \/ account.password = IF id = First THEN InitialPassword ELSE guess[id]
        \/ account.password \in Changes /\ session[account.password] = id

\* A session appears only by its own sign-in's write: no write based on an
\* older record brings a signed-out session back.
NoSessionReturns ==
    [][\A id \in SessionIds :
        id \in Ids(account') /\ id \notin Ids(account) =>
            id \in SignIns /\ pc[id] = "write" /\ pc'[id] = "ok"]_vars

\* README: ten failed attempts throttle the account, "including bursts of
\* concurrent guesses". Until something clears them, no more than the limit of
\* sign-ins is answered with a verdict within one window, whatever password
\* changes do meanwhile.
Answered == {r \in SignIns : pc[r] = "incorrect" /\ account.live}
BurstLimited ==
    now < SIGN_IN_WINDOW_MS /\ (\A r \in Requests : pc[r] # "ok") =>
        Cardinality(Answered) <= SIGN_IN_MAX_FAILURES
===============================================================================
