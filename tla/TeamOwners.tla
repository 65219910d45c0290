----------------------------- MODULE TeamOwners -----------------------------
(***************************************************************************)
(* Owner changes of the account store (auth/accounts.ts): updateMember and *)
(* removeMember of several requests, possibly on several replicas, against *)
(* one MongoDB. A change that takes an owner away runs under a lease kept  *)
(* in the setup record (withOwnerLock); every document write is a          *)
(* compare-and-swap on the document's revision; a write takes up to        *)
(* WRITE_MS to reach the database; a process may die between any two       *)
(* steps and leave its lease behind.                                       *)
(***************************************************************************)
EXTENDS Integers, FiniteSets

CONSTANTS
    Members,                \* account ids, used and not yet used
    InitialRole,            \* the role each id has at the start
    Requests,               \* the requests served; each is also a lease holder
    Asks,                   \* what requests ask: a new role, or "gone"
    NoHolder,
    OWNER_LOCK_MS, OWNER_LOCK_MARGIN_MS,
    WRITE_MS,               \* the longest time one write can take
    MAX_ATTEMPTS,           \* compare-and-swap attempts of one mutate
    MaxTime, MaxRevision    \* bounds of the exploration

Roles == {"owner", "admin", "member"}
NotLive == {"absent", "gone"}       \* not yet created, removed

ASSUME TeamAssumption ==
    /\ IsFiniteSet(Members)
    /\ InitialRole \in [Members -> Roles \cup {"absent"}]
    /\ \E m \in Members : InitialRole[m] = "owner"
    /\ NoHolder \notin Requests
    /\ Asks \subseteq Roles \cup {"gone"}
    /\ OWNER_LOCK_MS \in Nat /\ OWNER_LOCK_MARGIN_MS \in Nat /\ WRITE_MS \in Nat
    /\ WRITE_MS <= OWNER_LOCK_MARGIN_MS
    /\ OWNER_LOCK_MARGIN_MS <= OWNER_LOCK_MS
    /\ MAX_ATTEMPTS \in Nat \ {0}
    /\ MaxTime \in Nat /\ MaxRevision \in Nat

VARIABLES
    now,        \* the clock (replicas are taken to agree on it)
    users,      \* gateway_users: role and revision of each id
    setup,      \* gateway_setup "default": the owner lease and the revision
    pc,         \* where each request is
    input,      \* what each request was asked, and by whom
    seenRole,   \* the target's role as the request first read it
    seenRev,    \* revision the request's pending write compares with
    owners,     \* the owners the request counted
    deadline,   \* the fence's deadline
    sentAt,     \* when the pending write left
    attempt     \* compare-and-swap attempts made by the running mutate

seen == <<seenRole, seenRev, owners>>
vars == <<now, users, setup, pc, input, seen, deadline, sentAt, attempt>>

Owners == {m \in Members : users[m].role = "owner"}

(***************************************************************************)
(* A request's life. "done" is a request that answered, "dead" one whose   *)
(* process stopped. Under "recheck", "count", "read", "send" and "write" a *)
(* request with Locked runs inside withOwnerLock.                          *)
(***************************************************************************)
Stages == {"idle", "look", "lock", "lockWrite", "recheck", "count", "read",
           "send", "write", "unlock", "unlockWrite", "done", "dead"}

Removes(r) == input[r].new = "gone"

\* It removes an owner, or gives an owner a lesser role ("demotes").
TakesOwner(r, current) == current = "owner" /\ input[r].new # "owner"

\* Whether the request decided, on its first read, to take the lease.
Locked(r) == TakesOwner(r, seenRole[r])

\* Variant: any manager may touch an owner.
AuthorizedManager(r, roles) == input[r].actorRole # "member"

\* authorize(): members manage nobody, and only owners touch owners.
Authorized(r, roles) ==
    /\ input[r].actorRole # "member"
    /\ "owner" \in roles => input[r].actorRole = "owner"

\* What updateMember and removeMember pass to authorize for a record they read.
RolesTouched(r, current) ==
    IF Removes(r) THEN {current} ELSE {current, input[r].new}

\* Where a request goes when its work returns or throws.
Exit(r) == IF Locked(r) THEN "unlock" ELSE "done"

\* It gets there with a mutate of its own (the release) still to start.
Leave(r) ==
    /\ pc' = [pc EXCEPT ![r] = Exit(r)]
    /\ attempt' = [attempt EXCEPT ![r] = 0]

NoInput == [actorRole |-> "member", self |-> FALSE,
            target |-> CHOOSE m \in Members : TRUE, new |-> "owner"]

Init ==
    /\ now = 0
    /\ users = [m \in Members |-> [role |-> InitialRole[m], rev |-> 0]]
    /\ setup = [holder |-> NoHolder, expires |-> 0, rev |-> 0]
    /\ pc = [r \in Requests |-> "idle"]
    /\ input = [r \in Requests |-> NoInput]
    /\ seenRole = [r \in Requests |-> "absent"]
    /\ seenRev = [r \in Requests |-> 0]
    /\ owners = [r \in Requests |-> {}]
    /\ deadline = [r \in Requests |-> 0]
    /\ sentAt = [r \in Requests |-> 0]
    /\ attempt = [r \in Requests |-> 0]

Goto(r, stage) == pc' = [pc EXCEPT ![r] = stage]

-----------------------------------------------------------------------------
(* The request arrives and looks at its target. *)

\* The access hook authenticates the caller; from here on the handler uses
\* the role the caller had at this moment.
Begin(r) ==
    /\ pc[r] = "idle"
    /\ \E actor, target \in Members, new \in Asks :
        /\ users[actor].role \in Roles
        /\ input' = [input EXCEPT ![r] =
                        [actorRole |-> users[actor].role, self |-> actor = target,
                         target |-> target, new |-> new]]
    /\ Goto(r, "look")
    /\ UNCHANGED <<now, users, setup, seen, deadline, sentAt, attempt>>

\* Missing, not allowed, or the caller's own account.
LookRefused(r, current) ==
    \/ current \in NotLive
    \/ ~Authorized(r, RolesTouched(r, current))
    \/ Removes(r) /\ input[r].self

TargetRecord(r) == users[input[r].target]

LookRefuse(r) ==
    /\ pc[r] = "look" /\ LookRefused(r, TargetRecord(r).role)
    /\ Goto(r, "done")
    /\ UNCHANGED <<now, users, setup, input, seen, deadline, sentAt, attempt>>

\* The first read of the target decides whether the lease is taken; its
\* deadline is fixed before the lease is asked for.
LookLocked(r) ==
    /\ pc[r] = "look" /\ ~LookRefused(r, TargetRecord(r).role)
    /\ TakesOwner(r, TargetRecord(r).role)
    /\ seenRole' = [seenRole EXCEPT ![r] = TargetRecord(r).role]
    /\ deadline' = [deadline EXCEPT ![r] = now + OWNER_LOCK_MS - OWNER_LOCK_MARGIN_MS]
    /\ Goto(r, "lock")
    /\ UNCHANGED <<now, users, setup, input, seenRev, owners, sentAt, attempt>>

\* A removal compares with this first read; an update reads again.
LookUnlocked(r) ==
    /\ pc[r] = "look" /\ ~LookRefused(r, TargetRecord(r).role)
    /\ ~TakesOwner(r, TargetRecord(r).role)
    /\ seenRole' = [seenRole EXCEPT ![r] = TargetRecord(r).role]
    /\ seenRev' = [seenRev EXCEPT ![r] = TargetRecord(r).rev]
    /\ Goto(r, IF Removes(r) THEN "send" ELSE "read")
    /\ UNCHANGED <<now, users, setup, input, owners, deadline, sentAt, attempt>>

-----------------------------------------------------------------------------
(* withOwnerLock: the lease is a mutate on the setup record. *)

\* Variant: a lease that is still held is not noticed.
LeaseNeverTaken == FALSE

LeaseTaken == setup.holder # NoHolder /\ setup.expires > now

LockRefuse(r) ==
    /\ pc[r] = "lock" /\ LeaseTaken
    /\ Goto(r, "done")
    /\ UNCHANGED <<now, users, setup, input, seen, deadline, sentAt, attempt>>

LockRead(r) ==
    /\ pc[r] = "lock" /\ ~LeaseTaken
    /\ seenRev' = [seenRev EXCEPT ![r] = setup.rev]
    /\ sentAt' = [sentAt EXCEPT ![r] = now]
    /\ attempt' = [attempt EXCEPT ![r] = @ + 1]
    /\ Goto(r, "lockWrite")
    /\ UNCHANGED <<now, users, setup, input, seenRole, owners, deadline>>

TakeLease(r) ==
    setup' = [holder |-> r, expires |-> sentAt[r] + OWNER_LOCK_MS, rev |-> setup.rev + 1]

\* The lease is written and acknowledged: the work starts.
LockLand(r) ==
    /\ pc[r] = "lockWrite" /\ seenRev[r] = setup.rev
    /\ TakeLease(r)
    /\ Goto(r, IF Removes(r) THEN "recheck" ELSE "count")
    /\ attempt' = [attempt EXCEPT ![r] = 0]
    /\ UNCHANGED <<now, users, input, seen, deadline, sentAt>>

\* The lease is written, its acknowledgement is lost: the request fails
\* outside the try block and the lease stays until it expires.
LockAckLost(r) ==
    /\ pc[r] = "lockWrite" /\ seenRev[r] = setup.rev
    /\ TakeLease(r)
    /\ Goto(r, "done")
    /\ UNCHANGED <<now, users, input, seen, deadline, sentAt, attempt>>

\* Somebody else wrote the record meanwhile: read again, or 409.
LockMiss(r) ==
    /\ pc[r] = "lockWrite" /\ seenRev[r] # setup.rev
    /\ Goto(r, IF attempt[r] < MAX_ATTEMPTS THEN "lock" ELSE "done")
    /\ UNCHANGED <<now, users, setup, input, seen, deadline, sentAt, attempt>>

\* finally: every path out of the work gives the lease back if it still
\* names this holder (a later holder's lease is written back as it is).
UnlockRead(r) ==
    /\ pc[r] = "unlock"
    /\ seenRev' = [seenRev EXCEPT ![r] = setup.rev]
    /\ attempt' = [attempt EXCEPT ![r] = @ + 1]
    /\ Goto(r, "unlockWrite")
    /\ UNCHANGED <<now, users, setup, input, seenRole, owners, deadline, sentAt>>

\* Variant: the release does not look at whose lease it is.
ReleaseAny(r) == NoHolder

HolderAfterRelease(r) == IF setup.holder = r THEN NoHolder ELSE setup.holder

UnlockLand(r) ==
    /\ pc[r] = "unlockWrite" /\ seenRev[r] = setup.rev
    /\ setup' = [holder |-> HolderAfterRelease(r), expires |-> setup.expires,
                  rev |-> setup.rev + 1]
    /\ Goto(r, "done")
    /\ UNCHANGED <<now, users, input, seen, deadline, sentAt, attempt>>

UnlockMiss(r) ==
    /\ pc[r] = "unlockWrite" /\ seenRev[r] # setup.rev
    /\ Goto(r, IF attempt[r] < MAX_ATTEMPTS THEN "unlock" ELSE "done")
    /\ UNCHANGED <<now, users, setup, input, seen, deadline, sentAt, attempt>>

-----------------------------------------------------------------------------
(* The work: removeMember reads the target again, both count the owners. *)

RecheckRefuse(r) ==
    /\ pc[r] = "recheck" /\ TargetRecord(r).role # seenRole[r]
    /\ Leave(r)
    /\ UNCHANGED <<now, users, setup, input, seen, deadline, sentAt>>

Recheck(r) ==
    /\ pc[r] = "recheck" /\ TargetRecord(r).role = seenRole[r]
    /\ seenRev' = [seenRev EXCEPT ![r] = TargetRecord(r).rev]
    /\ Goto(r, "count")
    /\ UNCHANGED <<now, users, setup, input, seenRole, owners, deadline, sentAt, attempt>>

Count(r) ==
    /\ pc[r] = "count"
    /\ owners' = [owners EXCEPT ![r] = Owners]
    /\ Goto(r, IF Removes(r) THEN "send" ELSE "read")
    /\ UNCHANGED <<now, users, setup, input, seenRole, seenRev, deadline, sentAt, attempt>>

\* Variant: one owner left counts as enough.
NoOwner(r) == Cardinality(owners[r]) < 1

LastOwner(r) == Cardinality(owners[r]) <= 1

\* fence(): a holder does not write once its lease is too close to its end.
FenceOpen(r) == now < deadline[r]

\* A change the mutate of updateMember refuses, on the record it reads now.
ChangeRefused(r, current) ==
    \/ current \in NotLive
    \/ ~Authorized(r, RolesTouched(r, current))
    \/ TakesOwner(r, current) /\ (~Locked(r) \/ LastOwner(r))
    \/ Locked(r) /\ ~FenceOpen(r)

\* updateMember's mutate: read, change, send.
UpdateRefuse(r) ==
    /\ pc[r] = "read" /\ ChangeRefused(r, TargetRecord(r).role)
    /\ Leave(r)
    /\ UNCHANGED <<now, users, setup, input, seen, deadline, sentAt>>

UpdateSend(r) ==
    /\ pc[r] = "read" /\ ~ChangeRefused(r, TargetRecord(r).role)
    /\ seenRev' = [seenRev EXCEPT ![r] = TargetRecord(r).rev]
    /\ sentAt' = [sentAt EXCEPT ![r] = now]
    /\ attempt' = [attempt EXCEPT ![r] = @ + 1]
    /\ Goto(r, "write")
    /\ UNCHANGED <<now, users, setup, input, seenRole, owners, deadline>>

\* removeMember: the checks before the delete.
DeleteRefused(r) == Locked(r) /\ (LastOwner(r) \/ ~FenceOpen(r))

RemoveRefuse(r) ==
    /\ pc[r] = "send" /\ DeleteRefused(r)
    /\ Leave(r)
    /\ UNCHANGED <<now, users, setup, input, seen, deadline, sentAt>>

RemoveSend(r) ==
    /\ pc[r] = "send" /\ ~DeleteRefused(r)
    /\ sentAt' = [sentAt EXCEPT ![r] = now]
    /\ Goto(r, "write")
    /\ UNCHANGED <<now, users, setup, input, seen, deadline, attempt>>

\* The compare-and-swap of the pending write finds the record it read.
Unchanged(r) ==
    TargetRecord(r).role \in Roles /\ TargetRecord(r).rev = seenRev[r]

\* The write reaches the database (whether its answer does is the same to
\* the team: the request leaves either way).
WriteLand(r) ==
    /\ pc[r] = "write" /\ Unchanged(r)
    /\ users' = [users EXCEPT ![input[r].target] =
                    [role |-> input[r].new, rev |-> @.rev + 1]]
    /\ Leave(r)
    /\ UNCHANGED <<now, setup, input, seen, deadline, sentAt>>

\* The record changed meanwhile: mutate tries again, a removal gives up.
RetriesWrite(r) == ~Removes(r) /\ attempt[r] < MAX_ATTEMPTS

WriteRetry(r) ==
    /\ pc[r] = "write" /\ ~Unchanged(r) /\ RetriesWrite(r)
    /\ Goto(r, "read")
    /\ UNCHANGED <<now, users, setup, input, seen, deadline, sentAt, attempt>>

WriteRefuse(r) ==
    /\ pc[r] = "write" /\ ~Unchanged(r) /\ ~RetriesWrite(r)
    /\ Leave(r)
    /\ UNCHANGED <<now, users, setup, input, seen, deadline, sentAt>>

-----------------------------------------------------------------------------
(* What the database, the processes and the rest of the API do. *)

\* Any read or write in the database can fail: the request answers 503,
\* under the lease after giving it back. A release that fails is not
\* reported, and the lease stays.
UnavailableOutside(r) ==
    /\ pc[r] \in {"look", "lock", "lockWrite", "unlock", "unlockWrite"}
    /\ Goto(r, "done")
    /\ UNCHANGED <<now, users, setup, input, seen, deadline, sentAt, attempt>>

UnavailableInWork(r) ==
    /\ pc[r] \in {"recheck", "count", "read", "write"}
    /\ Leave(r)
    /\ UNCHANGED <<now, users, setup, input, seen, deadline, sentAt>>

\* The process stops. (A write that was under way either landed before the
\* crash or never does.)
Crash(r) ==
    /\ pc[r] \notin {"idle", "done", "dead"}
    /\ Goto(r, "dead")
    /\ UNCHANGED <<now, users, setup, input, seen, deadline, sentAt, attempt>>

\* addMember and acceptInvite insert an account; whoever may make the role
\* of it an owner was checked when the role was chosen.
Join(m) ==
    /\ users[m].role = "absent"
    /\ \E new \in Roles : users' = [users EXCEPT ![m] = [role |-> new, rev |-> @.rev]]
    /\ UNCHANGED <<now, setup, pc, input, seen, deadline, sentAt, attempt>>

\* Sign-ins, sign-outs and password changes rewrite the member's document.
Touch(m) ==
    /\ users[m].role \in Roles /\ users[m].rev < MaxRevision
    /\ users' = [users EXCEPT ![m] = [role |-> @.role, rev |-> @.rev + 1]]
    /\ UNCHANGED <<now, setup, pc, input, seen, deadline, sentAt, attempt>>

\* Time passes, but no member write stays under way for more than WRITE_MS.
Tick ==
    /\ now < MaxTime
    /\ \A r \in Requests : pc[r] = "write" => now < sentAt[r] + WRITE_MS
    /\ now' = now + 1
    /\ UNCHANGED <<users, setup, pc, input, seen, deadline, sentAt, attempt>>

Step(r) ==
    \/ Begin(r) \/ LookRefuse(r) \/ LookLocked(r) \/ LookUnlocked(r)
    \/ LockRefuse(r) \/ LockRead(r) \/ LockLand(r) \/ LockAckLost(r) \/ LockMiss(r)
    \/ RecheckRefuse(r) \/ Recheck(r) \/ Count(r)
    \/ UpdateRefuse(r) \/ UpdateSend(r) \/ RemoveRefuse(r) \/ RemoveSend(r)
    \/ WriteLand(r) \/ WriteRetry(r) \/ WriteRefuse(r)
    \/ UnlockRead(r) \/ UnlockLand(r) \/ UnlockMiss(r)

Next ==
    \/ \E r \in Requests :
          Step(r) \/ UnavailableOutside(r) \/ UnavailableInWork(r) \/ Crash(r)
    \/ \E m \in Members : Join(m) \/ Touch(m)
    \/ Tick

Spec == Init /\ [][Next]_vars

-----------------------------------------------------------------------------
(* Properties. *)

TypeOK ==
    /\ now \in Nat
    /\ users \in [Members -> [role : Roles \cup NotLive, rev : Nat]]
    /\ setup \in [holder : Requests \cup {NoHolder}, expires : Nat, rev : Nat]
    /\ pc \in [Requests -> Stages]
    /\ input \in [Requests -> [actorRole : Roles, self : BOOLEAN, target : Members,
                               new : Roles \cup {"gone"}]]
    /\ seenRole \in [Requests -> Roles \cup {"absent"}]
    /\ seenRev \in [Requests -> Nat]
    /\ owners \in [Requests -> SUBSET Members]
    /\ deadline \in [Requests -> Nat]
    /\ sentAt \in [Requests -> Nat]
    /\ attempt \in [Requests -> Nat]

\* Concurrent demotions and removals never leave the team without an owner,
\* whatever stalls, loses an answer or dies on the way.
AlwaysAnOwner == Owners # {}

\* Two owner changes are never under way at once: a holder whose lease ran
\* out cannot have a write pending beside the next holder's.
InFlight(r) == pc[r] = "write" /\ Locked(r)
OneOwnerChangeInFlight ==
    \A r, q \in Requests : InFlight(r) /\ InFlight(q) => r = q

\* An owner stops being one only by a write of the request that holds the
\* lease at that moment, before the lease expires.
OwnerLostUnderLease ==
    [][\A m \in Owners : users'[m].role # "owner" =>
            \E r \in Requests : /\ setup.holder = r /\ now < setup.expires
                                /\ InFlight(r) /\ input[r].target = m]_vars

\* Somebody who exists becomes an owner, or an owner something else, only by
\* a request whose caller was an owner when it was authenticated, however
\* often the member changed between the checks and the write.
OnlyOwnersTouchOwners ==
    [][\A m \in Members :
            (users[m].role # "absent" /\ ((m \in Owners) # (users'[m].role = "owner"))) =>
                \E r \in Requests : /\ pc[r] = "write" /\ pc'[r] # "write"
                                    /\ input[r].target = m
                                    /\ input[r].actorRole = "owner"]_vars

\* The whole refines the atomic promise: one member at a time, and an owner
\* goes only while another stays.
Promise == INSTANCE TeamPromise WITH role <- [m \in Members |-> users[m].role]
ImplementsPromise == Promise!Spec

-----------------------------------------------------------------------------
(* Why AlwaysAnOwner holds: the inductive invariant, by parts. *)

InWork(r) == pc[r] \in {"recheck", "count", "read", "send", "write"}
LeaseEnd(r) == deadline[r] + OWNER_LOCK_MARGIN_MS

\* The deadline was fixed before the lease, so the lease outlasts it by the
\* margin, and a pending lease write saw a lease that was free.
LeaseAsked ==
    \A r \in Requests :
        /\ pc[r] = "lock" => LeaseEnd(r) <= now + OWNER_LOCK_MS
        /\ pc[r] = "lockWrite" =>
              /\ sentAt[r] <= now /\ LeaseEnd(r) <= sentAt[r] + OWNER_LOCK_MS
              /\ seenRev[r] <= setup.rev
              /\ seenRev[r] = setup.rev => ~LeaseTaken

\* A holder at work keeps the lease until a margin after its deadline.
LeaseKept ==
    \A r \in Requests :
        Locked(r) /\ InWork(r) /\ now < LeaseEnd(r) =>
            setup.holder = r /\ LeaseEnd(r) <= setup.expires

\* A fenced write is under way within the lease.
WriteFenced ==
    \A r \in Requests :
        InFlight(r) => sentAt[r] < deadline[r] /\ now <= sentAt[r] + WRITE_MS

\* What the holder counted is still there: only the holder takes owners away.
CountHolds ==
    \A r \in Requests :
        /\ Locked(r) /\ pc[r] \in {"read", "send", "write"} /\ setup.holder = r
        => owners[r] \subseteq Owners

\* The removals' stages, and what the revision a removal compares stands for.
RemovalSeen ==
    \A r \in Requests :
        /\ pc[r] \in {"recheck", "send"} => Removes(r)
        /\ pc[r] = "read" => ~Removes(r)
        /\ pc[r] \in {"count", "send"} /\ Removes(r) =>
              /\ seenRev[r] <= TargetRecord(r).rev
              /\ Unchanged(r) => TargetRecord(r).role = seenRole[r]

\* A pending write that would take an owner away was counted under the lease.
WriteChecked ==
    \A r \in Requests :
        pc[r] = "write" =>
            /\ seenRev[r] <= TargetRecord(r).rev
            /\ Unchanged(r) /\ TakesOwner(r, TargetRecord(r).role) =>
                  Locked(r) /\ ~LastOwner(r)

\* A request past its first read works on an account that existed.
TargetKnown ==
    \A r \in Requests :
        InWork(r) \/ pc[r] \in {"lock", "lockWrite"} =>
            TargetRecord(r).role # "absent"

\* A pending write that touches an owner was checked against an owner's role.
CallerChecked ==
    \A r \in Requests :
        /\ pc[r] \in {"lock", "lockWrite", "recheck", "count", "send"} =>
              Authorized(r, RolesTouched(r, seenRole[r]))
        /\ pc[r] = "write" /\ Unchanged(r) =>
              Authorized(r, RolesTouched(r, TargetRecord(r).role))

IInv ==
    /\ TypeOK /\ AlwaysAnOwner
    /\ LeaseAsked /\ LeaseKept /\ WriteFenced
    /\ CountHolds /\ RemovalSeen /\ WriteChecked /\ TargetKnown
    /\ CallerChecked
=============================================================================
