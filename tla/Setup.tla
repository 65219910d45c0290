-------------------------------- MODULE Setup --------------------------------
(***************************************************************************)
(* First-run setup of the gateway (auth/accounts.ts: completeSetup,        *)
(* isSetupComplete, setupState, forgetEmbeddedOwner) on several replicas   *)
(* that share one MongoDB. The first owner is written into the setup       *)
(* record by the compare-and-swap that claims setup and is then copied     *)
(* into gateway_users by whichever request finds it missing. Every         *)
(* database call is a step of its own; calls fail, acknowledgements get    *)
(* lost and replicas restart, at most MaxFaults times.                     *)
(***************************************************************************)
EXTENDS Integers

CONSTANTS
    Setups,         \* POST setup requests; each brings a fresh account id: itself
    Checks,         \* one stream of other requests per replica: isSetupComplete
    Replicas,
    home,           \* the replica that serves a request
    Others,         \* accounts made later, by an owner
    Nobody,
    MAX_ATTEMPTS,   \* compare-and-swap attempts of one mutate
    MaxFaults, MaxRevision  \* bounds of the exploration

Requests == Setups \cup Checks

ASSUME SetupAssumption ==
    /\ home \in [Requests -> Replicas]
    /\ Setups \cap Checks = {} /\ Requests \cap Others = {}
    /\ Nobody \notin Requests \cup Others
    /\ MAX_ATTEMPTS \in Nat \ {0} /\ MaxFaults \in Nat /\ MaxRevision \in Nat

VARIABLES
    marker,     \* the setup record: revision (0: no record), owner, its copy
    users,      \* ids in gateway_users
    removed,    \* ids an owner removed (history)
    completed,  \* per replica: the cached answer
    pc, seen, attempt,  \* per request: where it is, the record it read, tries
    faults

vars == <<marker, users, removed, completed, pc, seen, attempt, faults>>

Records == [rev : Nat, ownerId : Setups \cup {Nobody}, owner : BOOLEAN]
NoRecord == [rev |-> 0, ownerId |-> Nobody, owner |-> FALSE]
Stages == {"idle", "lookup", "list", "copy", "forget", "forgetWrite",
           "claim", "claimWrite", "ok", "refused", "failed"}
Active == {"lookup", "list", "copy", "forget", "forgetWrite", "claim", "claimWrite"}

Init ==
    /\ marker = NoRecord /\ users = {} /\ removed = {}
    /\ completed = [p \in Replicas |-> FALSE]
    /\ pc = [r \in Requests |-> "idle"]
    /\ seen = [r \in Requests |-> NoRecord]
    /\ attempt = [r \in Requests |-> 0]
    /\ faults = 0

Goto(r, stage) == pc' = [pc EXCEPT ![r] = stage]

\* A request ends: the next one of its stream starts afresh, a setup request
\* has its answer.
End(r, answer) == Goto(r, IF r \in Checks THEN "idle" ELSE answer)

\* setupState answered "complete", or this request's own setup is through.
Finish(r) ==
    /\ completed' = [completed EXCEPT ![home[r]] = TRUE]
    /\ End(r, IF seen[r].ownerId = r THEN "ok" ELSE "refused")

-----------------------------------------------------------------------------
(* setupState: what the record read says, and finishing what it left open. *)

Claimed(record) == record.ownerId # Nobody

\* Every request asks isSetupComplete until its replica cached the answer; a
\* setup request reads the record itself.
Read(r) ==
    /\ pc[r] = "idle"
    /\ r \in Checks => ~completed[home[r]]
    /\ seen' = [seen EXCEPT ![r] = marker]
    /\ IF Claimed(marker) THEN Goto(r, "lookup")
       ELSE Goto(r, IF r \in Setups THEN "claim" ELSE "idle")
    /\ attempt' = [attempt EXCEPT ![r] = 0]
    /\ UNCHANGED <<marker, users, removed, completed, faults>>

OwnerPresent(r) == seen[r].ownerId \in users

\* users.get(ownerId): present, to be copied, or to be told from the rest.
LookupPresent(r) ==
    /\ pc[r] = "lookup" /\ OwnerPresent(r) /\ ~seen[r].owner
    /\ Finish(r)
    /\ UNCHANGED <<marker, users, removed, seen, attempt, faults>>

LookupCopied(r) ==
    /\ pc[r] = "lookup" /\ OwnerPresent(r) /\ seen[r].owner
    /\ Goto(r, "forget")
    /\ UNCHANGED <<marker, users, removed, completed, seen, attempt, faults>>

LookupMissing(r) ==
    /\ pc[r] = "lookup" /\ ~OwnerPresent(r)
    /\ Goto(r, IF seen[r].owner THEN "copy" ELSE "list")
    /\ UNCHANGED <<marker, users, removed, completed, seen, attempt, faults>>

\* The first owner is gone for good: complete while any account exists.
List(r) ==
    /\ pc[r] = "list"
    /\ IF users # {} THEN Finish(r)
       ELSE /\ Goto(r, IF r \in Setups THEN "claim" ELSE "idle")
            /\ UNCHANGED completed
    /\ UNCHANGED <<marker, users, removed, seen, attempt, faults>>

\* insertUser(record.owner, idempotent).
Copy(r) ==
    /\ pc[r] = "copy"
    /\ users' = users \cup {seen[r].ownerId}
    /\ Goto(r, "forget")
    /\ UNCHANGED <<marker, removed, completed, seen, attempt, faults>>

\* forgetEmbeddedOwner: one mutate, whose failure nobody sees.
ForgetRead(r) ==
    /\ pc[r] = "forget"
    /\ seen' = [seen EXCEPT ![r].rev = marker.rev]
    /\ attempt' = [attempt EXCEPT ![r] = @ + 1]
    /\ Goto(r, "forgetWrite")
    /\ UNCHANGED <<marker, users, removed, completed, faults>>

Forgotten(id) ==
    [rev |-> marker.rev + 1, ownerId |-> marker.ownerId,
     owner |-> marker.owner /\ marker.ownerId # id]

ForgetWrite(r) ==
    /\ pc[r] = "forgetWrite" /\ seen[r].rev = marker.rev
    /\ marker' = Forgotten(seen[r].ownerId)
    /\ Finish(r)
    /\ UNCHANGED <<users, removed, seen, attempt, faults>>

ForgetMiss(r) ==
    /\ pc[r] = "forgetWrite" /\ seen[r].rev # marker.rev
    /\ IF attempt[r] < MAX_ATTEMPTS THEN Goto(r, "forget") /\ UNCHANGED completed
       ELSE Finish(r)
    /\ UNCHANGED <<marker, users, removed, seen, attempt, faults>>

-----------------------------------------------------------------------------
(* completeSetup's claim. *)

\* Variant: the claim compares with the record the mutate reads itself, not
\* with the one setupState judged.
GateAlwaysOpen(r) == TRUE

\* Any write since the request looked means another setup got there first.
GateOpen(r) == marker.rev = seen[r].rev

ClaimRefuse(r) ==
    /\ pc[r] = "claim" /\ ~GateOpen(r)
    /\ End(r, "refused")
    /\ UNCHANGED <<marker, users, removed, completed, seen, attempt, faults>>

ClaimRead(r) ==
    /\ pc[r] = "claim" /\ GateOpen(r)
    /\ seen' = [seen EXCEPT ![r].rev = marker.rev]
    /\ Goto(r, "claimWrite")
    /\ UNCHANGED <<marker, users, removed, completed, attempt, faults>>

\* Variant: the claim names the owner without carrying the account.
ClaimWithoutCopy(r) == [rev |-> marker.rev + 1, ownerId |-> r, owner |-> FALSE]

Claim(r) == [rev |-> marker.rev + 1, ownerId |-> r, owner |-> TRUE]

\* The compare-and-swap commits the owner with the claim.
ClaimWrite(r) ==
    /\ pc[r] = "claimWrite" /\ seen[r].rev = marker.rev
    /\ marker' = Claim(r)
    /\ seen' = [seen EXCEPT ![r] = Claim(r)]
    /\ Goto(r, "copy")
    /\ UNCHANGED <<users, removed, completed, attempt, faults>>

\* Lost it: the mutate reads again and meets the gate.
ClaimMiss(r) ==
    /\ pc[r] = "claimWrite" /\ seen[r].rev # marker.rev
    /\ Goto(r, "claim")
    /\ UNCHANGED <<marker, users, removed, completed, seen, attempt, faults>>

-----------------------------------------------------------------------------
(* What else happens to the setup record, the accounts and the replicas. *)

Fault == faults < MaxFaults /\ faults' = faults + 1

\* A database call fails: 503, except in forgetEmbeddedOwner, which goes on.
Unavailable(r) ==
    /\ Fault
    /\ pc[r] \in {"idle", "lookup", "list", "copy", "claim", "claimWrite"}
    /\ End(r, "failed")
    /\ UNCHANGED <<marker, users, removed, completed, seen, attempt>>

ForgetFails(r) ==
    /\ Fault
    /\ pc[r] \in {"forget", "forgetWrite"}
    /\ Finish(r)
    /\ UNCHANGED <<marker, users, removed, seen, attempt>>

\* The claim or the copy is written and its acknowledgement lost.
ClaimAckLost(r) ==
    /\ Fault
    /\ pc[r] = "claimWrite" /\ seen[r].rev = marker.rev
    /\ marker' = Claim(r)
    /\ End(r, "failed")
    /\ UNCHANGED <<users, removed, completed, seen, attempt>>

CopyAckLost(r) ==
    /\ Fault
    /\ pc[r] = "copy"
    /\ users' = users \cup {seen[r].ownerId}
    /\ End(r, "failed")
    /\ UNCHANGED <<marker, removed, completed, seen, attempt>>

\* A replica restarts: its requests are gone and so is its cache.
Restart(p) ==
    /\ Fault
    /\ completed' = [completed EXCEPT ![p] = FALSE]
    /\ pc' = [r \in Requests |->
                IF home[r] # p \/ pc[r] \notin Active THEN pc[r]
                ELSE IF r \in Checks THEN "idle" ELSE "failed"]
    /\ UNCHANGED <<marker, users, removed, seen, attempt>>

\* The team grows and shrinks; TeamPromise says how: nobody joins before
\* there is an account to sign in with, and an owner goes while another stays.
Join(a) ==
    /\ users # {} /\ a \notin users \cup removed
    /\ users' = users \cup {a}
    /\ UNCHANGED <<marker, removed, completed, pc, seen, attempt, faults>>

Remove(a) ==
    /\ a \in users /\ users # {a}
    /\ users' = users \ {a} /\ removed' = removed \cup {a}
    /\ UNCHANGED <<marker, completed, pc, seen, attempt, faults>>

\* The owner lease is kept in the same record and moves its revision.
LeaseWrite ==
    /\ users # {} /\ marker.rev < MaxRevision
    /\ marker' = [marker EXCEPT !.rev = @ + 1]
    /\ UNCHANGED <<users, removed, completed, pc, seen, attempt, faults>>

Settle(r) ==
    \/ LookupPresent(r) \/ LookupCopied(r) \/ LookupMissing(r) \/ List(r) \/ Copy(r)
    \/ ForgetRead(r) \/ ForgetWrite(r) \/ ForgetMiss(r)

Gate(r) == ClaimRefuse(r) \/ ClaimRead(r) \/ ClaimWrite(r) \/ ClaimMiss(r)

Next ==
    \/ \E r \in Requests :
          Read(r) \/ Settle(r) \/ Unavailable(r) \/ ForgetFails(r) \/ CopyAckLost(r)
    \/ \E r \in Setups : Gate(r) \/ ClaimAckLost(r)
    \/ \E p \in Replicas : Restart(p)
    \/ \E a \in Others : Join(a)
    \/ \E a \in Others \cup Setups : Remove(a)
    \/ LeaseWrite

\* A running handler goes on, and requests keep coming to every replica.
Fairness ==
    /\ \A r \in Requests : WF_vars(Settle(r))
    /\ \A r \in Setups : WF_vars(Gate(r))
    /\ \A r \in Checks : WF_vars(Read(r))

Spec == Init /\ [][Next]_vars
FairSpec == Spec /\ Fairness

-----------------------------------------------------------------------------
(* Properties. *)

TypeOK ==
    /\ marker \in Records
    /\ users \subseteq Setups \cup Others /\ removed \subseteq Setups \cup Others
    /\ completed \in [Replicas -> BOOLEAN]
    /\ pc \in [Requests -> Stages]
    /\ seen \in [Requests -> Records]
    /\ attempt \in [Requests -> Nat]
    /\ faults \in Nat

\* Setup is claimed once: whatever races, fails or restarts, and however the
\* first owner fares later, no other request ever becomes the first owner.
ClaimedOnce == [][Claimed(marker) => marker'.ownerId = marker.ownerId]_vars

\* No account of a setup request exists unless that request has the claim.
OneFirstOwner == users \cap Setups \subseteq {marker.ownerId}

\* Between the claim and the copy nothing can lose the first owner: the
\* record keeps the account until gateway_users has it (or an owner removed it).
OwnerNeverLost ==
    Claimed(marker) /\ marker.ownerId \notin users \cup removed => marker.owner

\* A replica that cached "complete", and a setup request that answered with
\* a session, leave a gateway somebody can sign in to.
CompleteMeansAccounts ==
    /\ \A p \in Replicas : completed[p] => Claimed(marker) /\ users # {}
    /\ \A r \in Setups : pc[r] = "ok" => marker.ownerId = r /\ r \in users \cup removed

\* A setup that died after its claim is finished by the requests that follow.
FirstOwnerArrives ==
    \A r \in Setups : marker.ownerId = r ~> r \in users \cup removed

-----------------------------------------------------------------------------
(* Why they hold: the inductive invariant, by parts. *)

InSettle(r) == pc[r] \in {"lookup", "list", "copy", "forget", "forgetWrite"}

\* Nothing is in gateway_users before the claim, and once somebody was there,
\* somebody stays.
AccountsFollowClaim ==
    /\ ~Claimed(marker) => users = {}
    /\ removed # {} => users # {}

\* A request that settles a claim settles the claim there is.
SettlesTheClaim ==
    \A r \in Requests : InSettle(r) =>
        seen[r].ownerId = marker.ownerId /\ Claimed(marker)

\* Where a request no longer looks for the account, it was there.
SettledAccount ==
    \A r \in Requests :
        \/ pc[r] \in {"list", "forget", "forgetWrite"}
        \/ pc[r] = "lookup" /\ ~seen[r].owner
        => seen[r].ownerId \in users \cup removed

\* A request at the gate saw an unclaimed record, and the revision tells
\* whether it still is.
GateSawOpen ==
    \A r \in Requests :
        pc[r] \in {"claim", "claimWrite"} =>
            /\ r \in Setups
            /\ seen[r].rev <= marker.rev
            /\ seen[r].rev = marker.rev => ~Claimed(marker)

IInv ==
    /\ TypeOK /\ OneFirstOwner /\ OwnerNeverLost /\ CompleteMeansAccounts
    /\ AccountsFollowClaim /\ SettlesTheClaim /\ SettledAccount /\ GateSawOpen
=============================================================================
