------------------------------- MODULE Invites -------------------------------
(***************************************************************************)
(* Invite links and new accounts (auth/accounts.ts: acceptInvite,          *)
(* openInvite, revokeInvite, addMember, insertUser). Redeeming a link is   *)
(* two writes to two collections: the compare-and-swap that claims the     *)
(* link, then the insert of the account; when the insert fails the link is *)
(* given back. Requests interleave at every database call.                 *)
(***************************************************************************)
EXTENDS Integers

CONSTANTS
    Links,          \* the invite links
    Emails,
    Accepts,        \* POST accept requests; each brings a fresh account id: itself
    Adds,           \* POST team requests (addMember); likewise
    Revokes,        \* DELETE invite requests
    Nobody,
    FaultKinds,     \* which of "unavailable", "ackLost", "crash" may happen
    MAX_ATTEMPTS, MaxFaults

Newcomers == Accepts \cup Adds
Requests == Newcomers \cup Revokes

ASSUME InviteAssumption ==
    /\ Accepts \cap Adds = {} /\ Newcomers \cap Revokes = {}
    /\ Nobody \notin Newcomers
    /\ FaultKinds \subseteq {"unavailable", "ackLost", "crash"}
    /\ MAX_ATTEMPTS \in Nat \ {0} /\ MaxFaults \in Nat

VARIABLES
    invites,    \* gateway_invites: revision, who accepted, revoked, expired
    users,      \* gateway_users: the ids inserted
    link, email,    \* what each request was sent
    pc, seenRev, attempt,
    unsure,     \* history: accounts whose insert was applied and not acknowledged
    faults

asked == <<link, email>>
history == <<unsure, faults>>
vars == <<invites, users, asked, pc, seenRev, attempt, history>>

Pending(i) ==
    invites[i].acceptedBy = Nobody /\ ~invites[i].revoked /\ ~invites[i].expired

EmailTaken(e) == \E u \in users : email[u] = e

Init ==
    /\ invites = [i \in Links |-> [rev |-> 0, acceptedBy |-> Nobody,
                                   revoked |-> FALSE, expired |-> FALSE]]
    /\ users = {}
    /\ link \in [Accepts \cup Revokes -> Links]
    /\ email \in [Newcomers -> Emails]
    /\ pc = [r \in Requests |-> "start"]
    /\ seenRev = [r \in Requests |-> 0]
    /\ attempt = [r \in Requests |-> 0]
    /\ unsure = {} /\ faults = 0

TriesLeft(r) == attempt[r] < MAX_ATTEMPTS

Goto(r, stage) == pc' = [pc EXCEPT ![r] = stage]

-----------------------------------------------------------------------------
(* The checks before anything is written. *)

\* openInvite: the link has to be pending.
Open(r) ==
    /\ r \in Accepts /\ pc[r] = "start"
    /\ Goto(r, IF Pending(link[r]) THEN "email" ELSE "refused")
    /\ UNCHANGED <<invites, users, asked, seenRev, attempt, history>>

\* assertEmailAvailable, for acceptInvite and addMember.
CheckEmail(r) ==
    /\ pc[r] = IF r \in Accepts THEN "email" ELSE "start"
    /\ r \in Newcomers
    /\ Goto(r, IF EmailTaken(email[r]) THEN "refused"
               ELSE IF r \in Accepts THEN "claim" ELSE "insert")
    /\ UNCHANGED <<invites, users, asked, seenRev, attempt, history>>

-----------------------------------------------------------------------------
(* The claim and the account. *)

MayClaim(r) == Pending(link[r])

\* mutate: the link is read again, long after it was opened.
ClaimRefuse(r) ==
    /\ pc[r] = "claim" /\ ~MayClaim(r)
    /\ Goto(r, "refused")
    /\ UNCHANGED <<invites, users, asked, seenRev, attempt, history>>

ClaimRead(r) ==
    /\ pc[r] = "claim" /\ MayClaim(r)
    /\ seenRev' = [seenRev EXCEPT ![r] = invites[link[r]].rev]
    /\ attempt' = [attempt EXCEPT ![r] = @ + 1]
    /\ Goto(r, "claimWrite")
    /\ UNCHANGED <<invites, users, asked, history>>

\* Variant: the write does not compare the revision.
SwapAlways(r) == TRUE

Same(r) == invites[link[r]].rev = seenRev[r]

Accepted(r) ==
    invites' = [invites EXCEPT ![link[r]].acceptedBy = r, ![link[r]].rev = @ + 1]

ClaimWrite(r) ==
    /\ pc[r] = "claimWrite" /\ Same(r)
    /\ Accepted(r)
    /\ Goto(r, "insert")
    /\ attempt' = [attempt EXCEPT ![r] = 0]
    /\ UNCHANGED <<users, asked, seenRev, history>>

ClaimMiss(r) ==
    /\ pc[r] = "claimWrite" /\ ~Same(r)
    /\ Goto(r, IF TriesLeft(r) THEN "claim" ELSE "refused")
    /\ UNCHANGED <<invites, users, asked, seenRev, attempt, history>>

\* insertUser: the unique index refuses a taken e-mail.
Insertable(r) == ~EmailTaken(email[r])

Insert(r) ==
    /\ pc[r] = "insert" /\ Insertable(r)
    /\ users' = users \cup {r}
    /\ Goto(r, "ok")
    /\ UNCHANGED <<invites, asked, seenRev, attempt, history>>

\* What follows an insert that threw: an acceptInvite gives the link back.
AfterFailure(r) == IF r \in Accepts THEN "giveBack" ELSE "refused"

InsertRefuse(r) ==
    /\ pc[r] = "insert" /\ ~Insertable(r)
    /\ Goto(r, AfterFailure(r))
    /\ UNCHANGED <<invites, users, asked, seenRev, attempt, history>>

GiveBackRead(r) ==
    /\ pc[r] = "giveBack"
    /\ seenRev' = [seenRev EXCEPT ![r] = invites[link[r]].rev]
    /\ attempt' = [attempt EXCEPT ![r] = @ + 1]
    /\ Goto(r, "giveBackWrite")
    /\ UNCHANGED <<invites, users, asked, history>>

\* Variant: the link stays claimed.
ClearNone(r) == invites[link[r]].acceptedBy

\* Only the claim of this very account is cleared.
Cleared(r) ==
    IF invites[link[r]].acceptedBy = r THEN Nobody ELSE invites[link[r]].acceptedBy

GiveBackWrite(r) ==
    /\ pc[r] = "giveBackWrite" /\ Same(r)
    /\ invites' = [invites EXCEPT ![link[r]].acceptedBy = Cleared(r),
                                  ![link[r]].rev = @ + 1]
    /\ Goto(r, "refused")
    /\ UNCHANGED <<users, asked, seenRev, attempt, history>>

GiveBackMiss(r) ==
    /\ pc[r] = "giveBackWrite" /\ ~Same(r)
    /\ Goto(r, IF TriesLeft(r) THEN "giveBack" ELSE "refused")
    /\ UNCHANGED <<invites, users, asked, seenRev, attempt, history>>

-----------------------------------------------------------------------------
(* revokeInvite: its first read refuses the same links as the reads of mutate
   that follow at once, and is one with the first of them here. *)

RevokeRead(r) ==
    /\ r \in Revokes /\ pc[r] \in {"start", "revoke"}
    /\ seenRev' = [seenRev EXCEPT ![r] = invites[link[r]].rev]
    /\ attempt' = [attempt EXCEPT ![r] = @ + 1]
    /\ Goto(r, "revokeWrite")
    /\ UNCHANGED <<invites, users, asked, history>>

\* Variant: an accepted link is marked revoked all the same.
RevocableAnyway(i) == TRUE

Revocable(i) == invites[i].acceptedBy = Nobody

\* An accepted link cannot be revoked any more (the write happens anyway).
RevokeWrite(r) ==
    /\ pc[r] = "revokeWrite" /\ Same(r)
    /\ invites' = [invites EXCEPT ![link[r]].revoked = @ \/ Revocable(link[r]),
                                  ![link[r]].rev = @ + 1]
    /\ Goto(r, IF invites'[link[r]].revoked THEN "ok" ELSE "refused")
    /\ UNCHANGED <<users, asked, seenRev, attempt, history>>

RevokeMiss(r) ==
    /\ pc[r] = "revokeWrite" /\ ~Same(r)
    /\ Goto(r, IF TriesLeft(r) THEN "revoke" ELSE "refused")
    /\ UNCHANGED <<invites, users, asked, seenRev, attempt, history>>

\* The link's last day passes.
Expire(i) ==
    /\ ~invites[i].expired
    /\ invites' = [invites EXCEPT ![i].expired = TRUE]
    /\ UNCHANGED <<users, asked, pc, seenRev, attempt, history>>

-----------------------------------------------------------------------------
(* Faults, of the kinds FaultKinds admits. *)

Fault(kind) == kind \in FaultKinds /\ faults < MaxFaults /\ faults' = faults + 1

\* A database call fails. Only an insert that fails has something to undo;
\* what fails in the undoing is not reported.
Unavailable(r) ==
    /\ Fault("unavailable")
    /\ pc[r] \notin {"ok", "refused", "dead"}
    /\ Goto(r, IF pc[r] = "insert" THEN AfterFailure(r) ELSE "refused")
    /\ UNCHANGED <<invites, users, asked, seenRev, attempt, unsure>>

\* The claim is written, its acknowledgement lost: no account follows.
ClaimAckLost(r) ==
    /\ Fault("ackLost")
    /\ pc[r] = "claimWrite" /\ Same(r)
    /\ Accepted(r)
    /\ Goto(r, "refused")
    /\ UNCHANGED <<users, asked, seenRev, attempt, unsure>>

\* The account is written, its acknowledgement lost: the link is given back.
InsertAckLost(r) ==
    /\ Fault("ackLost")
    /\ pc[r] = "insert" /\ Insertable(r)
    /\ users' = users \cup {r} /\ unsure' = unsure \cup {r}
    /\ Goto(r, AfterFailure(r))
    /\ UNCHANGED <<invites, asked, seenRev, attempt>>

Crash(r) ==
    /\ Fault("crash")
    /\ pc[r] \notin {"start", "ok", "refused", "dead"}
    /\ Goto(r, "dead")
    /\ UNCHANGED <<invites, users, asked, seenRev, attempt, unsure>>

Redeem(r) ==
    \/ Open(r) \/ ClaimRefuse(r) \/ ClaimRead(r) \/ ClaimWrite(r) \/ ClaimMiss(r)
    \/ GiveBackRead(r) \/ GiveBackWrite(r) \/ GiveBackMiss(r)
Create(r) == CheckEmail(r) \/ Insert(r) \/ InsertRefuse(r)
Revoke(r) == RevokeRead(r) \/ RevokeWrite(r) \/ RevokeMiss(r)

Next ==
    \/ \E r \in Accepts : Redeem(r) \/ ClaimAckLost(r)
    \/ \E r \in Newcomers : Create(r) \/ InsertAckLost(r)
    \/ \E r \in Revokes : Revoke(r)
    \/ \E r \in Requests : Unavailable(r) \/ Crash(r)
    \/ \E i \in Links : Expire(i)

Spec == Init /\ [][Next]_vars

\* A handler that runs goes on running.
FairSpec ==
    Spec /\ \A r \in Accepts : WF_vars(Redeem(r)) /\ WF_vars(Create(r))

-----------------------------------------------------------------------------
(* Properties. *)

Stages == {"start", "email", "claim", "claimWrite", "insert", "giveBack", "giveBackWrite",
           "revoke", "revokeWrite", "ok", "refused", "dead"}

TypeOK ==
    /\ invites \in [Links -> [rev : Nat, acceptedBy : Accepts \cup {Nobody},
                              revoked : BOOLEAN, expired : BOOLEAN]]
    /\ users \subseteq Newcomers
    /\ link \in [Accepts \cup Revokes -> Links] /\ email \in [Newcomers -> Emails]
    /\ pc \in [Requests -> Stages]
    /\ seenRev \in [Requests -> Nat] /\ attempt \in [Requests -> 0 .. MAX_ATTEMPTS]
    /\ unsure \subseteq users /\ faults \in Nat

\* README: an invite is a "single-use invite link". However many requests
\* redeem one link at once, fail or die, at most one account comes of it.
SingleUse ==
    \A u, v \in users \cap Accepts : link[u] = link[v] => u = v

Settled == (users \cap Accepts) \ unsure

\* An account made by a link is the account the link names as its acceptor, so
\* no two come of one link - but for those whose insert was not acknowledged.
AccountHasClaim == \A u \in Settled : invites[link[u]].acceptedBy = u

\* A link that is revoked admits nobody, not even a request that had opened
\* it or was about to create its account.
RevokedAdmitsNobody ==
    \A i \in Links : invites[i].revoked =>
        /\ invites[i].acceptedBy = Nobody
        /\ \A r \in Accepts : link[r] = i => pc[r] # "insert" /\ r \notin Settled

\* While nothing fails a claim ends in an account, or the link is given back.
ClaimSettles ==
    \A r \in Accepts :
        pc[r] = "insert" ~> r \in users \/ invites[link[r]].acceptedBy # r \/ faults > 0
=============================================================================
