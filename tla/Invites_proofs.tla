---------------------------- MODULE Invites_proofs ----------------------------
(* What redeeming a link promises, for every number of links, requests and   *)
(* faults of any kind.                                                       *)
EXTENDS Invites, TLAPS

\* Who is inserting holds the claim of its link.
InsertsUnderClaim ==
    \A r \in Accepts : pc[r] = "insert" => invites[link[r]].acceptedBy = r

\* A claim that will land was decided on the link as it still is.
ClaimSawPending ==
    \A r \in Accepts :
        /\ seenRev[r] <= invites[link[r]].rev
        /\ pc[r] = "claimWrite" /\ Same(r) =>
              invites[link[r]].acceptedBy = Nobody /\ ~invites[link[r]].revoked

\* A request whose account is settled is over: it gives nothing back.
SettledOver == \A u \in Settled : pc[u] \in {"ok", "dead"}

RevokedUnclaimed == \A i \in Links : invites[i].revoked => invites[i].acceptedBy = Nobody

LinksInv ==
    /\ InsertsUnderClaim /\ ClaimSawPending /\ SettledOver
    /\ RevokedUnclaimed /\ AccountHasClaim

-----------------------------------------------------------------------------
InviteRecords ==
    [rev : Nat, acceptedBy : Accepts \cup {Nobody}, revoked : BOOLEAN, expired : BOOLEAN]

\* Whoever may read a link again has an attempt left.
TriesRemain ==
    \A r \in Requests :
        pc[r] \in {"start", "email", "claim", "insert", "giveBack", "revoke"} => TriesLeft(r)

TypeInv == TypeOK /\ TriesRemain

LEMMA TypeInit == Init => TypeInv
<1> SUFFICES ASSUME Init PROVE TypeInv
  OBVIOUS
<1>1. TypeOK
  BY InviteAssumption DEF Init, TypeOK, Newcomers, Requests, Stages
<1>2. TriesRemain
  BY InviteAssumption DEF Init, TriesRemain, TriesLeft
<1> QED
  BY <1>1, <1>2 DEF TypeInv

\* A step writes one link: who accepted it, whether it is revoked or expired,
\* and by how much its revision moves on.
LinkWritten(i, acceptedBy, revoked, expired, n) ==
    /\ invites' \in [Links -> InviteRecords]
    /\ \A j \in Links \ {i} : invites'[j] = invites[j]
    /\ invites'[i].acceptedBy = acceptedBy /\ invites'[i].revoked = revoked
    /\ invites'[i].expired = expired /\ invites'[i].rev = invites[i].rev + n

LEMMA LinkClaimed ==
    ASSUME invites \in [Links -> InviteRecords], NEW r \in Accepts, link[r] \in Links,
           Accepted(r)
    PROVE  LinkWritten(link[r], r, invites[link[r]].revoked, invites[link[r]].expired, 1)
BY DEF Accepted, InviteRecords, LinkWritten

LEMMA LinkGivenBack ==
    ASSUME invites \in [Links -> InviteRecords], NEW r \in Accepts, link[r] \in Links,
           GiveBackWrite(r)
    PROVE  /\ Cleared(r) \in {Nobody, invites[link[r]].acceptedBy}
           /\ Cleared(r) = invites[link[r]].acceptedBy \/ invites[link[r]].acceptedBy = r
           /\ LinkWritten(link[r], Cleared(r), invites[link[r]].revoked,
                          invites[link[r]].expired, 1)
<1>1. Cleared(r) \in Accepts \cup {Nobody}
  BY DEF Cleared, InviteRecords
<1>2. invites' = [invites EXCEPT ![link[r]].acceptedBy = Cleared(r), ![link[r]].rev = @ + 1]
  BY DEF GiveBackWrite
<1>3. LinkWritten(link[r], Cleared(r), invites[link[r]].revoked, invites[link[r]].expired, 1)
  BY <1>1, <1>2 DEF InviteRecords, LinkWritten
<1> QED
  BY <1>1, <1>3 DEF Cleared

LEMMA LinkRevoked ==
    ASSUME invites \in [Links -> InviteRecords], NEW r, link[r] \in Links, RevokeWrite(r)
    PROVE  LinkWritten(link[r], invites[link[r]].acceptedBy,
                       invites[link[r]].revoked \/ Revocable(link[r]),
                       invites[link[r]].expired, 1)
BY DEF RevokeWrite, InviteRecords, LinkWritten, Revocable

LEMMA LinkExpired ==
    ASSUME invites \in [Links -> InviteRecords], NEW i \in Links, Expire(i)
    PROVE  LinkWritten(i, invites[i].acceptedBy, invites[i].revoked, TRUE, 0)
<1>1. invites' = [invites EXCEPT ![i].expired = TRUE]
  BY DEF Expire
<1>2. invites[i] \in InviteRecords
  OBVIOUS
<1>3. invites' \in [Links -> InviteRecords]
  BY <1>1, <1>2 DEF InviteRecords
<1>4. invites'[i] = [invites[i] EXCEPT !.expired = TRUE]
  BY <1>1
<1>5. \A j \in Links \ {i} : invites'[j] = invites[j]
  BY <1>1
<1>6. invites[i].rev + 0 = invites[i].rev
  BY <1>2 DEF InviteRecords
<1> QED
  BY <1>2, <1>3, <1>4, <1>5, <1>6 DEF InviteRecords, LinkWritten

-----------------------------------------------------------------------------
\* A request that reads a link, to claim it, to give it back or to revoke it,
\* had an attempt left.
LEMMA ReadTyped ==
    ASSUME TypeInv, NEW r \in Accepts \cup Revokes,
           pc[r] \in {"start", "claim", "giveBack", "revoke"},
           seenRev' = [seenRev EXCEPT ![r] = invites[link[r]].rev],
           attempt' = [attempt EXCEPT ![r] = @ + 1]
    PROVE  /\ seenRev' \in [Requests -> Nat] /\ attempt' \in [Requests -> 0 .. MAX_ATTEMPTS]
           /\ \A q \in Requests \ {r} : attempt'[q] = attempt[q]
<1>1. r \in Requests
  BY DEF Requests, Newcomers
<1>2. invites[link[r]].rev \in Nat
  BY DEF TypeInv, TypeOK
<1>3. attempt[r] + 1 \in 0 .. MAX_ATTEMPTS
  BY <1>1, InviteAssumption DEF TypeInv, TypeOK, TriesRemain, TriesLeft
<1> QED
  BY <1>1, <1>2, <1>3 DEF TypeInv, TypeOK

LEMMA TypeStep == TypeInv /\ [Next]_vars => TypeInv'
<1> SUFFICES ASSUME TypeInv, [Next]_vars PROVE TypeInv'
  OBVIOUS
<1>l. invites \in [Links -> InviteRecords]
      /\ \A r \in Accepts \cup Revokes : link[r] \in Links
  BY DEF TypeInv, TypeOK, InviteRecords
<1> USE InviteAssumption
    DEF TypeInv, TypeOK, TriesRemain, TriesLeft, Newcomers, Requests, Stages, asked, history,
        Goto, AfterFailure
<1>1. ASSUME NEW r \in Accepts, Redeem(r) \/ ClaimAckLost(r) PROVE TypeInv'
  <2>1. CASE Open(r) \/ ClaimRefuse(r) \/ ClaimMiss(r) \/ GiveBackMiss(r)
    BY <2>1 DEF Open, ClaimRefuse, ClaimMiss, GiveBackMiss
  <2>2. CASE ClaimRead(r) \/ GiveBackRead(r)
    <3>1. /\ pc[r] \in {"start", "claim", "giveBack", "revoke"}
          /\ seenRev' = [seenRev EXCEPT ![r] = invites[link[r]].rev]
          /\ attempt' = [attempt EXCEPT ![r] = @ + 1]
      BY <2>2 DEF ClaimRead, GiveBackRead
    <3>2. /\ seenRev' \in [Requests -> Nat] /\ attempt' \in [Requests -> 0 .. MAX_ATTEMPTS]
          /\ \A q \in Requests \ {r} : attempt'[q] = attempt[q]
      BY <3>1, ReadTyped
    <3> QED
      BY <2>2, <3>2 DEF ClaimRead, GiveBackRead
  <2>3. CASE ClaimWrite(r) \/ ClaimAckLost(r)
    <3>1. LinkWritten(link[r], r, invites[link[r]].revoked, invites[link[r]].expired, 1)
      BY <2>3, <1>l, LinkClaimed DEF ClaimWrite, ClaimAckLost
    <3>2. invites' \in [Links -> InviteRecords]
      BY <3>1 DEF LinkWritten
    <3>3. CASE ClaimWrite(r)
      BY <3>2, <3>3 DEF ClaimWrite, InviteRecords
    <3>4. CASE ClaimAckLost(r)
      BY <3>2, <3>4 DEF ClaimAckLost, Fault, InviteRecords
    <3> QED
      BY <2>3, <3>3, <3>4
  <2>4. CASE GiveBackWrite(r)
    BY <2>4, <1>l, LinkGivenBack DEF GiveBackWrite, InviteRecords, LinkWritten
  <2> QED
    BY <1>1, <2>1, <2>2, <2>3, <2>4 DEF Redeem
<1>2. ASSUME NEW r \in Newcomers, Create(r) \/ InsertAckLost(r) PROVE TypeInv'
  BY <1>2 DEF Create, CheckEmail, Insert, InsertRefuse, InsertAckLost, Fault
<1>3. ASSUME NEW r \in Revokes, Revoke(r) PROVE TypeInv'
  <2>1. CASE RevokeRead(r)
    <3>1. /\ seenRev' \in [Requests -> Nat] /\ attempt' \in [Requests -> 0 .. MAX_ATTEMPTS]
          /\ \A q \in Requests \ {r} : attempt'[q] = attempt[q]
      BY <2>1, ReadTyped DEF RevokeRead
    <3> QED
      BY <2>1, <3>1 DEF RevokeRead
  <2>2. CASE RevokeWrite(r)
    <3>1. LinkWritten(link[r], invites[link[r]].acceptedBy,
                      invites[link[r]].revoked \/ Revocable(link[r]),
                      invites[link[r]].expired, 1)
      BY <2>2, <1>l, LinkRevoked
    <3> QED
      BY <2>2, <3>1 DEF RevokeWrite, InviteRecords, LinkWritten
  <2>3. CASE RevokeMiss(r)
    BY <2>3 DEF RevokeMiss
  <2> QED
    BY <1>3, <2>1, <2>2, <2>3 DEF Revoke
<1>4. ASSUME NEW r \in Requests, Unavailable(r) \/ Crash(r) PROVE TypeInv'
  BY <1>4 DEF Unavailable, Crash, Fault
<1>5. ASSUME NEW i \in Links, Expire(i) PROVE TypeInv'
  BY <1>5, <1>l, LinkExpired DEF Expire, InviteRecords, LinkWritten
<1>6. CASE UNCHANGED vars
  BY <1>6 DEF vars
<1> QED
  BY <1>1, <1>2, <1>3, <1>4, <1>5, <1>6 DEF Next

-----------------------------------------------------------------------------
LEMMA LinksInit == Init => LinksInv
BY InviteAssumption
   DEF Init, LinksInv, InsertsUnderClaim, ClaimSawPending, SettledOver, RevokedUnclaimed,
       AccountHasClaim, Settled, Same, Newcomers, Requests

\* A write that moves a link's revision on is seen by every request that read
\* the link before: none of them will write.
LEMMA WriteSeen ==
    ASSUME TypeOK, ClaimSawPending, NEW i \in Links, NEW a, NEW b, NEW e,
           LinkWritten(i, a, b, e, 1), UNCHANGED <<seenRev, link>>
    PROVE  \A q \in Accepts : /\ seenRev'[q] <= invites'[link'[q]].rev
                              /\ link[q] = i => ~Same(q)'
                              /\ link[q] # i => invites'[link'[q]] = invites[link[q]]
<1> SUFFICES ASSUME NEW q \in Accepts
             PROVE  /\ seenRev'[q] <= invites'[link'[q]].rev
                    /\ link[q] = i => ~Same(q)'
                    /\ link[q] # i => invites'[link'[q]] = invites[link[q]]
  OBVIOUS
<1>1. /\ link[q] \in Links /\ invites[link[q]].rev \in Nat /\ seenRev[q] \in Nat
      /\ seenRev[q] <= invites[link[q]].rev
  BY DEF TypeOK, Requests, Newcomers, ClaimSawPending
<1>2. CASE link[q] = i
  <2>1. invites'[link'[q]].rev = invites[link[q]].rev + 1
    BY <1>2 DEF LinkWritten
  <2> QED
    BY <1>1, <1>2, <2>1 DEF Same
<1>3. CASE link[q] # i
  BY <1>1, <1>3 DEF LinkWritten
<1> QED
  BY <1>2, <1>3

LEMMA LinksStep == TypeInv /\ LinksInv /\ [Next]_vars => LinksInv'
<1> SUFFICES ASSUME TypeInv, LinksInv, [Next]_vars PROVE LinksInv'
  OBVIOUS
<1>l. /\ invites \in [Links -> InviteRecords] /\ TypeOK
      /\ \A r \in Accepts \cup Revokes : link[r] \in Links
      /\ \A r \in Requests : r \in DOMAIN pc /\ r \in DOMAIN seenRev
      /\ \A i \in Links : invites[i].rev \in Nat
  BY DEF TypeInv, TypeOK, InviteRecords
<1>n. /\ Accepts \subseteq Newcomers /\ Newcomers \subseteq Requests /\ Nobody \notin Newcomers
      /\ \A r \in Revokes : r \notin Accepts
      /\ \A r \in Adds : r \notin Accepts
  BY InviteAssumption DEF Newcomers, Requests
<1> USE DEF LinksInv, InsertsUnderClaim, ClaimSawPending, SettledOver, RevokedUnclaimed,
            AccountHasClaim, Settled, asked, history, Goto
<1>1. ASSUME NEW r \in Accepts, Redeem(r) \/ ClaimAckLost(r) PROVE LinksInv'
  <2>1. CASE Open(r) \/ ClaimRefuse(r) \/ ClaimMiss(r) \/ GiveBackMiss(r)
    BY <2>1, <1>l, <1>n DEF Open, ClaimRefuse, ClaimMiss, GiveBackMiss, Same
  <2>2. CASE ClaimRead(r) \/ GiveBackRead(r)
    BY <2>2, <1>l, <1>n DEF ClaimRead, GiveBackRead, MayClaim, Pending, Same
  <2>3. CASE ClaimWrite(r) \/ ClaimAckLost(r)
    <3>1. LinkWritten(link[r], r, invites[link[r]].revoked, invites[link[r]].expired, 1)
      BY <2>3, <1>l, LinkClaimed DEF ClaimWrite, ClaimAckLost
    <3>2. /\ invites[link[r]].acceptedBy = Nobody /\ ~invites[link[r]].revoked
          /\ pc[r] = "claimWrite"
      BY <2>3, <1>n DEF ClaimWrite, ClaimAckLost
    <3>3. \A q \in Accepts : /\ seenRev'[q] <= invites'[link'[q]].rev
                             /\ link[q] = link[r] => ~Same(q)'
                             /\ link[q] # link[r] => invites'[link'[q]] = invites[link[q]]
      BY <2>3, <3>1, <1>l, WriteSeen DEF ClaimWrite, ClaimAckLost
    <3> QED
      BY <2>3, <3>1, <3>2, <3>3, <1>l, <1>n DEF ClaimWrite, ClaimAckLost, LinkWritten, Same
  <2>4. CASE GiveBackWrite(r)
    <3>1. /\ Cleared(r) \in {Nobody, invites[link[r]].acceptedBy}
          /\ Cleared(r) = invites[link[r]].acceptedBy \/ invites[link[r]].acceptedBy = r
          /\ LinkWritten(link[r], Cleared(r), invites[link[r]].revoked,
                         invites[link[r]].expired, 1)
      BY <2>4, <1>l, LinkGivenBack
    <3>2. \A q \in Accepts : /\ seenRev'[q] <= invites'[link'[q]].rev
                             /\ link[q] = link[r] => ~Same(q)'
                             /\ link[q] # link[r] => invites'[link'[q]] = invites[link[q]]
      BY <2>4, <3>1, <1>l, WriteSeen DEF GiveBackWrite
    <3>3. /\ pc[r] = "giveBackWrite" /\ pc' = [pc EXCEPT ![r] = "refused"]
          /\ UNCHANGED <<users, link, seenRev, unsure>> /\ r \in Accepts
      BY <2>4 DEF GiveBackWrite
    <3>4. \A q \in Accepts \ {r} : pc'[q] = pc[q]
      BY <3>3, <1>l, <1>n
    <3>5. InsertsUnderClaim' /\ ClaimSawPending'
      BY <3>1, <3>2, <3>3, <3>4, <1>l, <1>n DEF LinkWritten, Same
    <3>6. SettledOver' /\ AccountHasClaim' /\ RevokedUnclaimed'
      BY <3>1, <3>3, <3>4, <1>l, <1>n DEF LinkWritten
    <3> QED
      BY <3>5, <3>6
  <2> QED
    BY <1>1, <2>1, <2>2, <2>3, <2>4 DEF Redeem
<1>2. ASSUME NEW r \in Newcomers, Create(r) \/ InsertAckLost(r) PROVE LinksInv'
  BY <1>2, <1>l, <1>n
     DEF Create, CheckEmail, Insert, InsertRefuse, InsertAckLost, Fault, AfterFailure, Same
<1>3. ASSUME NEW r \in Revokes, Revoke(r) PROVE LinksInv'
  <2>1. CASE RevokeRead(r) \/ RevokeMiss(r)
    BY <2>1, <1>l, <1>n DEF RevokeRead, RevokeMiss, Same
  <2>2. CASE RevokeWrite(r)
    <3>1. LinkWritten(link[r], invites[link[r]].acceptedBy,
                      invites[link[r]].revoked \/ Revocable(link[r]),
                      invites[link[r]].expired, 1)
      BY <2>2, <1>l, LinkRevoked
    <3>2. \A q \in Accepts : /\ seenRev'[q] <= invites'[link'[q]].rev
                             /\ link[q] = link[r] => ~Same(q)'
                             /\ link[q] # link[r] => invites'[link'[q]] = invites[link[q]]
      BY <2>2, <3>1, <1>l, WriteSeen DEF RevokeWrite
    <3>3. /\ \A j \in Links : invites'[j].acceptedBy = invites[j].acceptedBy
          /\ \A j \in Links :
                invites'[j].revoked => invites[j].revoked \/ invites[j].acceptedBy = Nobody
      BY <3>1, <1>l DEF LinkWritten, Revocable
    <3>4. UNCHANGED <<users, link, unsure, seenRev>> /\ pc' = [pc EXCEPT ![r] = pc'[r]]
      BY <2>2 DEF RevokeWrite
    <3>5. InsertsUnderClaim' /\ SettledOver' /\ RevokedUnclaimed' /\ AccountHasClaim'
      BY <3>3, <3>4, <1>l, <1>n
    <3>6. ClaimSawPending'
      BY <3>2, <3>4, <1>l, <1>n DEF Same
    <3> QED
      BY <3>5, <3>6
  <2> QED
    BY <1>3, <2>1, <2>2 DEF Revoke
<1>4. ASSUME NEW r \in Requests, Unavailable(r) \/ Crash(r) PROVE LinksInv'
  BY <1>4, <1>l, <1>n DEF Unavailable, Crash, Fault, AfterFailure, Same
<1>5. ASSUME NEW i \in Links, Expire(i) PROVE LinksInv'
  <2>1. LinkWritten(i, invites[i].acceptedBy, invites[i].revoked, TRUE, 0)
    BY <1>5, <1>l, LinkExpired
  <2>2. \A j \in Links : /\ invites'[j].acceptedBy = invites[j].acceptedBy
                         /\ invites'[j].revoked = invites[j].revoked
                         /\ invites'[j].rev = invites[j].rev
    BY <2>1, <1>l DEF LinkWritten
  <2> QED
    BY <1>5, <2>2, <1>l, <1>n DEF Expire, Same
<1>6. CASE UNCHANGED vars
  BY <1>6 DEF vars, Same
<1> QED
  BY <1>1, <1>2, <1>3, <1>4, <1>5, <1>6 DEF Next

-----------------------------------------------------------------------------
(* The results. *)

\* Who inserts holds the link's claim, and a claim that can still land was
\* decided on the link as it is: for any number of links and requests, with
\* any faults.
THEOREM LinksInvariant == Spec => [](TypeInv /\ LinksInv)
<1>1. Init => TypeInv /\ LinksInv
  BY TypeInit, LinksInit
<1>2. TypeInv /\ LinksInv /\ [Next]_vars => (TypeInv /\ LinksInv)'
  BY TypeStep, LinksStep
<1> QED
  BY <1>1, <1>2, PTL DEF Spec

\* acceptInvite: the link of every account whose insert was acknowledged names
\* that account, whatever else was tried with the link.
THEOREM LinkNamesAccount == Spec => []AccountHasClaim
<1>1. TypeInv /\ LinksInv => AccountHasClaim
  BY DEF LinksInv
<1> QED
  BY <1>1, LinksInvariant, PTL

\* revokeInvite: a revoked link is claimed by nobody, and nobody is about to
\* insert under it.
THEOREM RevokedClosed == Spec => []RevokedAdmitsNobody
<1>1. TypeInv /\ LinksInv => RevokedAdmitsNobody
  <2> SUFFICES ASSUME TypeInv, LinksInv, NEW i \in Links, invites[i].revoked,
                      NEW r \in Accepts, link[r] = i
               PROVE  pc[r] # "insert" /\ r \notin Settled
    BY DEF LinksInv, RevokedUnclaimed, RevokedAdmitsNobody
  <2>1. invites[i].acceptedBy = Nobody /\ r # Nobody
    BY InviteAssumption DEF LinksInv, RevokedUnclaimed, Newcomers
  <2> QED
    BY <2>1 DEF LinksInv, InsertsUnderClaim, AccountHasClaim
<1> QED
  BY <1>1, LinksInvariant, PTL

\* README's "single-use invite link" holds while no acknowledgement is lost,
\* whatever calls fail and requests die: the lost one is what breaks it.
THEOREM SingleUseAcknowledged ==
    ASSUME "ackLost" \notin FaultKinds PROVE Spec => []SingleUse
<1>1. Init => unsure = {}
  BY DEF Init
<1>2. unsure = {} /\ [Next]_vars => (unsure = {})'
  <2> USE DEF asked, history, vars
  <2>1. ASSUME NEW r, ClaimAckLost(r) \/ InsertAckLost(r) PROVE FALSE
    BY <2>1 DEF ClaimAckLost, InsertAckLost, Fault
  <2>2. ASSUME NEW r, Redeem(r) \/ Create(r) \/ Revoke(r) PROVE unsure' = unsure
    BY <2>2 DEF Redeem, Create, Revoke, Open, CheckEmail, ClaimRefuse, ClaimRead, ClaimWrite,
         ClaimMiss, Insert, InsertRefuse, GiveBackRead, GiveBackWrite, GiveBackMiss,
         RevokeRead, RevokeWrite, RevokeMiss
  <2>3. ASSUME NEW r, Unavailable(r) \/ Crash(r) \/ Expire(r) PROVE unsure' = unsure
    BY <2>3 DEF Unavailable, Crash, Expire
  <2> QED
    BY <2>1, <2>2, <2>3 DEF Next
<1>3. unsure = {} /\ AccountHasClaim => SingleUse
  BY DEF AccountHasClaim, SingleUse, Settled
<1> QED
  BY <1>1, <1>2, <1>3, LinkNamesAccount, PTL DEF Spec
=============================================================================
