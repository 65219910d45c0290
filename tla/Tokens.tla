-------------------------------- MODULE Tokens --------------------------------
(***************************************************************************)
(* One API or agent token (auth/token-store.ts: create, update, roll,      *)
(* revoke, authenticate). The token's values, grants and audit log are one *)
(* document, changed by mutate: read, change, and a compare-and-swap on    *)
(* the revision, up to MAX_ATTEMPTS times. A value is an id, named after   *)
(* the roll that issued it; null, "never expires", is the time Never,      *)
(* later than every other. The list of credentials is the function from    *)
(* its values to their ends; its first entry, which record.prefix names    *)
(* too, is the current value, and the order of the rest decides nothing.   *)
(* All replicas read the same clock.                                       *)
(***************************************************************************)
EXTENDS Integers, Sequences, FiniteSets

CONSTANTS
    Rolls, Others,          \* the requests; the others edit or revoke
    First,                  \* the value the token was created with
    Lifetimes, Overlaps,    \* what a roll may ask for (days, seconds)
    Never,
    MAX_VALUES,             \* values that may overlap (20)
    MAX_ACTIONS,            \* log entries kept (100)
    MAX_ATTEMPTS, MaxTime

Requests == Rolls \cup Others
Values == Rolls \cup {First}

ASSUME TokenAssumption ==
    /\ First \notin Requests
    /\ Rolls \cap Others = {}
    /\ Lifetimes \subseteq Nat \ {0} /\ Overlaps \subseteq Nat
    /\ MaxTime \in Nat /\ Never \in Nat /\ Never \in Lifetimes
    /\ \A t \in (Lifetimes \ {Never}) \cup Overlaps : MaxTime + t < Never
    /\ {MAX_VALUES, MAX_ACTIONS, MAX_ATTEMPTS} \subseteq Nat \ {0}

VARIABLES
    now,
    token,      \* the document
    life, overlap,  \* what each roll asks for
    revokers,        \* which of the others revoke
    stage, next, seenRev, attempt, \* next: the record a pending write carries
    readAt,     \* when the pending write's record was made
    promised    \* history: until when each value was promised to work (0: not issued)

asked == <<life, overlap, revokers>>
tokenVars == <<now, token, asked, stage, next, seenRev, attempt, readAt, promised>>

Least(a, b) == IF a < b THEN a ELSE b

\* expiresAt(ttl, now).
ExpiresAt(t) == IF t = Never THEN Never ELSE now + t

Live(expires) == expires > now

\* authenticate: the value is one of the token's and it is not over.
Authenticates(v) ==
    ~token.revoked /\ v \in DOMAIN token.credentials /\ Live(token.credentials[v])

Created(t) ==
    [rev |-> 0, revoked |-> FALSE, log |-> <<>>, current |-> First,
     credentials |-> [v \in {First} |-> t]]

NoCredentials == [v \in {} |-> Never]

\* One that was revoked before; what lifetime it had no longer matters.
Gone == [rev |-> 0, revoked |-> TRUE, log |-> <<>>, current |-> First,
         credentials |-> NoCredentials]

TokensInit ==
    /\ now = 0
    /\ \E t \in Lifetimes :
        /\ token \in {Created(t)} \cup IF t = Never THEN {Gone} ELSE {}
        /\ promised = [v \in Values |-> IF v = First THEN t ELSE 0]
        /\ next = [r \in Requests |-> Created(t)]
    /\ revokers \in SUBSET Others
    /\ life \in [Rolls -> Lifetimes] /\ overlap \in [Rolls -> Overlaps]
    /\ stage = [r \in Requests |-> "read"]
    /\ seenRev = [r \in Requests |-> 0]
    /\ attempt = [r \in Requests |-> 0]
    /\ readAt = [r \in Requests |-> 0]

Goto(r, to) == stage' = [stage EXCEPT ![r] = to]

-----------------------------------------------------------------------------
(* mutate's read and change, one per operation. *)

Logged(r) == SubSeq(<<r>> \o token.log, 1, Least(Len(token.log) + 1, MAX_ACTIONS))

Reads(r, requests) == r \in requests /\ stage[r] = "read"

\* The record is made now and sent.
Send(r, record) ==
    /\ next' = [next EXCEPT ![r] = record]
    /\ seenRev' = [seenRev EXCEPT ![r] = token.rev]
    /\ readAt' = [readAt EXCEPT ![r] = now]
    /\ attempt' = [attempt EXCEPT ![r] = @ + 1]
    /\ Goto(r, "write")
    /\ UNCHANGED <<now, token, asked, promised>>

TurnDown(r) ==
    /\ Goto(r, "refused")
    /\ UNCHANGED <<now, token, asked, next, seenRev, attempt, readAt, promised>>

\* Variant: a roll does not look at the value's own end.
OverlapUncapped(r, v) ==
    IF v # token.current THEN token.credentials[v] ELSE now + overlap[r]

\* When v ends once r has rolled: earlier rolls keep their original deadlines,
\* the current value gets the overlap or less.
EndAfterRoll(r, v) ==
    IF v # token.current THEN token.credentials[v]
    ELSE Least(token.credentials[v], now + overlap[r])

Previous(r) == {v \in DOMAIN token.credentials : Live(EndAfterRoll(r, v))}

HasRoom(r) == Cardinality(Previous(r)) < MAX_VALUES

MayRoll(r) == ~token.revoked /\ HasRoom(r)

RollRefuse(r) == Reads(r, Rolls) /\ ~MayRoll(r) /\ TurnDown(r)

RollSend(r) ==
    /\ Reads(r, Rolls) /\ MayRoll(r)
    /\ Send(r, [rev |-> token.rev + 1, revoked |-> token.revoked, log |-> Logged(r),
                current |-> r,
                credentials |-> [v \in Previous(r) \cup {r} |->
                    IF v = r THEN ExpiresAt(life[r]) ELSE EndAfterRoll(r, v)]])

EditRefuse(r) == Reads(r, Others \ revokers) /\ token.revoked /\ TurnDown(r)

EditSend(r) ==
    /\ Reads(r, Others \ revokers) /\ ~token.revoked
    /\ Send(r, [rev |-> token.rev + 1, revoked |-> token.revoked, log |-> Logged(r),
                current |-> token.current, credentials |-> token.credentials])

\* A token revoked before is written back as it is.
RevokeSend(r) ==
    /\ Reads(r, revokers)
    /\ Send(r, IF token.revoked THEN [token EXCEPT !.rev = token.rev + 1]
               ELSE [rev |-> token.rev + 1, revoked |-> TRUE, log |-> Logged(r),
                     current |-> token.current, credentials |-> NoCredentials])

-----------------------------------------------------------------------------
(* mutate's write. *)

\* Variant: the write does not compare the revision.
SwapAlways(r) == TRUE

Same(r) == token.rev = seenRev[r]

\* What the roll that lands promises: its own value, and the overlap of the
\* value it replaces.
Promise(r) ==
    IF r \notin Rolls THEN promised
    ELSE [v \in Values |->
            IF v = r THEN IF life[r] = Never THEN Never ELSE readAt[r] + life[r]
            ELSE IF v = token.current THEN Least(promised[v], readAt[r] + overlap[r])
            ELSE promised[v]]

\* The write is applied; its answer arrives, or gets lost (503).
Land(r) ==
    /\ stage[r] = "write" /\ Same(r)
    /\ token' = next[r] /\ promised' = Promise(r)
    /\ \E answer \in {"ok", "failed"} : Goto(r, answer)
    /\ UNCHANGED <<now, asked, next, seenRev, attempt, readAt>>

AfterMiss(r) == IF attempt[r] < MAX_ATTEMPTS THEN "read" ELSE "refused"

Miss(r) ==
    /\ stage[r] = "write" /\ ~Same(r)
    /\ Goto(r, AfterMiss(r))
    /\ UNCHANGED <<now, token, asked, next, seenRev, attempt, readAt, promised>>

\* The database is out of reach, or the process dies, before the write.
Fail(r) ==
    /\ stage[r] \in {"read", "write"}
    /\ Goto(r, "failed")
    /\ UNCHANGED <<now, token, asked, next, seenRev, attempt, readAt, promised>>

Tick ==
    /\ now < MaxTime /\ now' = now + 1
    /\ UNCHANGED <<token, asked, stage, next, seenRev, attempt, readAt, promised>>

TokensNext ==
    \/ \E r \in Requests :
        \/ RollRefuse(r) \/ RollSend(r) \/ EditRefuse(r) \/ EditSend(r) \/ RevokeSend(r)
        \/ Land(r) \/ Miss(r) \/ Fail(r)
    \/ Tick

TokensSpec == TokensInit /\ [][TokensNext]_tokenVars

-----------------------------------------------------------------------------
(* Properties. *)

\* README: "The old value never outlives its original expiry. Previously
\* rolled values keep their own deadlines". A value works exactly until the
\* time it was promised at its issue, cut once by the overlap of the roll that
\* replaced it; however rolls, edits and revocations interleave, none takes
\* that time away (a lost update) and none gives more.
HonoursPromises ==
    \A v \in Values : Authenticates(v) <=> ~token.revoked /\ now < promised[v]

\* README: "revoked and expired values cannot be revived": what worked once
\* and no longer works never works again, and a revocation is final.
NoneRevived ==
    [][/\ token.revoked => token'.revoked
       /\ \A v \in Values :
            promised[v] # 0 /\ ~Authenticates(v) => ~Authenticates(v)']_tokenVars
===============================================================================
