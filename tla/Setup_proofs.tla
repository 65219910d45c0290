---------------------------- MODULE Setup_proofs ----------------------------
(***************************************************************************)
(* Theorems about Setup, for any number of setup requests, other requests, *)
(* replicas and faults.                                                    *)
(***************************************************************************)
EXTENDS Setup, TLAPS

USE SetupAssumption

\* Every step keeps every variable in its type.
LEMMA TypeStep == IInv /\ [Next]_vars => TypeOK'
<1> SUFFICES ASSUME IInv, TypeOK, [Next]_vars PROVE TypeOK'
  BY DEF IInv
<1> USE DEF TypeOK, Records, NoRecord, Stages, Active, Requests, Claimed
<1>1. ASSUME NEW r \in Requests, Read(r) PROVE TypeOK'
  BY <1>1 DEF Read, Goto
<1>2. ASSUME NEW r \in Requests, LookupPresent(r) PROVE TypeOK'
  BY <1>2 DEF LookupPresent, Goto, Finish, End, OwnerPresent
<1>3. ASSUME NEW r \in Requests, LookupCopied(r) PROVE TypeOK'
  BY <1>3 DEF LookupCopied, Goto, OwnerPresent
<1>4. ASSUME NEW r \in Requests, LookupMissing(r) PROVE TypeOK'
  BY <1>4 DEF LookupMissing, Goto, OwnerPresent
<1>5. ASSUME NEW r \in Requests, List(r) PROVE TypeOK'
  <2>1. CASE users # {}
    <3>1. Finish(r) /\ UNCHANGED <<marker, users, removed, seen, attempt, faults>>
      BY <1>5, <2>1 DEF List
    <3> QED
      BY <3>1 DEF Finish, End, Goto
  <2>2. CASE users = {}
    BY <1>5, <2>2 DEF List, Goto
  <2> QED
    BY <2>1, <2>2
<1>6. ASSUME NEW r \in Requests, Copy(r) PROVE TypeOK'
  BY <1>6 DEF Copy, Goto, IInv, SettlesTheClaim, InSettle
<1>7. ASSUME NEW r \in Requests, ForgetRead(r) PROVE TypeOK'
  BY <1>7 DEF ForgetRead, Goto
<1>8. ASSUME NEW r \in Requests, ForgetWrite(r) PROVE TypeOK'
  BY <1>8 DEF ForgetWrite, Forgotten, Finish, End, Goto
<1>9. ASSUME NEW r \in Requests, ForgetMiss(r) PROVE TypeOK'
  BY <1>9 DEF ForgetMiss, Goto, Finish, End
<1>10. ASSUME NEW r \in Requests, Unavailable(r) PROVE TypeOK'
  BY <1>10 DEF Unavailable, Fault, Finish, End, Goto
<1>11. ASSUME NEW r \in Requests, ForgetFails(r) PROVE TypeOK'
  BY <1>11 DEF ForgetFails, Fault, Finish, End, Goto
<1>12. ASSUME NEW r \in Requests, CopyAckLost(r) PROVE TypeOK'
  BY <1>12 DEF CopyAckLost, Fault, End, Goto, IInv, SettlesTheClaim, InSettle
<1>13. ASSUME NEW r \in Setups, ClaimRefuse(r) PROVE TypeOK'
  BY <1>13 DEF ClaimRefuse, End, Goto
<1>14. ASSUME NEW r \in Setups, ClaimRead(r) PROVE TypeOK'
  BY <1>14 DEF ClaimRead, Goto, GateOpen
<1>15. ASSUME NEW r \in Setups, ClaimWrite(r) PROVE TypeOK'
  BY <1>15 DEF ClaimWrite, Claim, Goto
<1>16. ASSUME NEW r \in Setups, ClaimMiss(r) PROVE TypeOK'
  BY <1>16 DEF ClaimMiss, Goto
<1>17. ASSUME NEW r \in Setups, ClaimAckLost(r) PROVE TypeOK'
  BY <1>17 DEF ClaimAckLost, Fault, Claim, End, Goto
<1>18. ASSUME NEW p \in Replicas, Restart(p) PROVE TypeOK'
  BY <1>18 DEF Restart, Fault
<1>19. ASSUME NEW a \in Others, Join(a) PROVE TypeOK'
  BY <1>19 DEF Join
<1>20. ASSUME NEW a \in Others \cup Setups, Remove(a) PROVE TypeOK'
  BY <1>20 DEF Remove
<1>21. CASE LeaseWrite
  BY <1>21 DEF LeaseWrite
<1>22. CASE UNCHANGED vars
  BY <1>22 DEF vars
<1> QED
  BY <1>1, <1>2, <1>3, <1>4, <1>5, <1>6, <1>7, <1>8, <1>9, <1>10, <1>11, <1>12, <1>13, <1>14, <1>15, <1>16, <1>17, <1>18, <1>19, <1>20, <1>21, <1>22 DEF Next, Settle, Gate

\* The accounts: what gateway_users and the record hold.
LEMMA AccountsStep == IInv /\ TypeOK' /\ [Next]_vars => (OneFirstOwner /\ OwnerNeverLost /\ AccountsFollowClaim)'
<1> SUFFICES ASSUME IInv, TypeOK', [Next]_vars PROVE (OneFirstOwner /\ OwnerNeverLost /\ AccountsFollowClaim)'
  OBVIOUS
<1> USE DEF IInv, TypeOK, Records, Requests, Claimed, OneFirstOwner, OwnerNeverLost, AccountsFollowClaim,
        SettlesTheClaim, SettledAccount, GateSawOpen, InSettle
<1>1. ASSUME NEW r \in Requests, Read(r) PROVE (OneFirstOwner /\ OwnerNeverLost /\ AccountsFollowClaim)'
  BY <1>1 DEF Read, Goto
<1>2. ASSUME NEW r \in Requests, LookupPresent(r) PROVE (OneFirstOwner /\ OwnerNeverLost /\ AccountsFollowClaim)'
  BY <1>2 DEF LookupPresent, Goto, Finish, End, OwnerPresent
<1>3. ASSUME NEW r \in Requests, LookupCopied(r) PROVE (OneFirstOwner /\ OwnerNeverLost /\ AccountsFollowClaim)'
  BY <1>3 DEF LookupCopied, Goto, OwnerPresent
<1>4. ASSUME NEW r \in Requests, LookupMissing(r) PROVE (OneFirstOwner /\ OwnerNeverLost /\ AccountsFollowClaim)'
  BY <1>4 DEF LookupMissing, Goto, OwnerPresent
<1>5. ASSUME NEW r \in Requests, List(r) PROVE (OneFirstOwner /\ OwnerNeverLost /\ AccountsFollowClaim)'
  BY <1>5 DEF List, Goto, Finish, End
<1>6. ASSUME NEW r \in Requests, Copy(r) PROVE (OneFirstOwner /\ OwnerNeverLost /\ AccountsFollowClaim)'
  BY <1>6 DEF Copy, Goto
<1>7. ASSUME NEW r \in Requests, ForgetRead(r) PROVE (OneFirstOwner /\ OwnerNeverLost /\ AccountsFollowClaim)'
  BY <1>7 DEF ForgetRead, Goto
<1>8. ASSUME NEW r \in Requests, ForgetWrite(r) PROVE (OneFirstOwner /\ OwnerNeverLost /\ AccountsFollowClaim)'
  BY <1>8 DEF ForgetWrite, Forgotten, Finish, End, Goto
<1>9. ASSUME NEW r \in Requests, ForgetMiss(r) PROVE (OneFirstOwner /\ OwnerNeverLost /\ AccountsFollowClaim)'
  BY <1>9 DEF ForgetMiss, Goto, Finish, End
<1>10. ASSUME NEW r \in Requests, Unavailable(r) PROVE (OneFirstOwner /\ OwnerNeverLost /\ AccountsFollowClaim)'
  BY <1>10 DEF Unavailable, Fault, Finish, End, Goto
<1>11. ASSUME NEW r \in Requests, ForgetFails(r) PROVE (OneFirstOwner /\ OwnerNeverLost /\ AccountsFollowClaim)'
  BY <1>11 DEF ForgetFails, Fault, Finish, End, Goto
<1>12. ASSUME NEW r \in Requests, CopyAckLost(r) PROVE (OneFirstOwner /\ OwnerNeverLost /\ AccountsFollowClaim)'
  BY <1>12 DEF CopyAckLost, Fault, End, Goto
<1>13. ASSUME NEW r \in Setups, ClaimRefuse(r) PROVE (OneFirstOwner /\ OwnerNeverLost /\ AccountsFollowClaim)'
  BY <1>13 DEF ClaimRefuse, End, Goto
<1>14. ASSUME NEW r \in Setups, ClaimRead(r) PROVE (OneFirstOwner /\ OwnerNeverLost /\ AccountsFollowClaim)'
  BY <1>14 DEF ClaimRead, Goto, GateOpen
<1>15. ASSUME NEW r \in Setups, ClaimWrite(r) PROVE (OneFirstOwner /\ OwnerNeverLost /\ AccountsFollowClaim)'
  BY <1>15 DEF ClaimWrite, Claim, Goto
<1>16. ASSUME NEW r \in Setups, ClaimMiss(r) PROVE (OneFirstOwner /\ OwnerNeverLost /\ AccountsFollowClaim)'
  BY <1>16 DEF ClaimMiss, Goto
<1>17. ASSUME NEW r \in Setups, ClaimAckLost(r) PROVE (OneFirstOwner /\ OwnerNeverLost /\ AccountsFollowClaim)'
  BY <1>17 DEF ClaimAckLost, Fault, Claim, End, Goto
<1>18. ASSUME NEW p \in Replicas, Restart(p) PROVE (OneFirstOwner /\ OwnerNeverLost /\ AccountsFollowClaim)'
  BY <1>18 DEF Restart, Fault
<1>19. ASSUME NEW a \in Others, Join(a) PROVE (OneFirstOwner /\ OwnerNeverLost /\ AccountsFollowClaim)'
  BY <1>19 DEF Join
<1>20. ASSUME NEW a \in Others \cup Setups, Remove(a) PROVE (OneFirstOwner /\ OwnerNeverLost /\ AccountsFollowClaim)'
  BY <1>20 DEF Remove
<1>21. CASE LeaseWrite
  BY <1>21 DEF LeaseWrite
<1>22. CASE UNCHANGED vars
  BY <1>22 DEF vars
<1> QED
  BY <1>1, <1>2, <1>3, <1>4, <1>5, <1>6, <1>7, <1>8, <1>9, <1>10, <1>11, <1>12, <1>13, <1>14, <1>15, <1>16, <1>17, <1>18, <1>19, <1>20, <1>21, <1>22 DEF Next, Settle, Gate

\* The requests: what each has learned of the claim.
LEMMA RequestsStep == IInv /\ TypeOK' /\ [Next]_vars => (SettlesTheClaim /\ SettledAccount /\ GateSawOpen)'
<1> SUFFICES ASSUME IInv, TypeOK', [Next]_vars PROVE (SettlesTheClaim /\ SettledAccount /\ GateSawOpen)'
  OBVIOUS
<1> USE DEF IInv, TypeOK, Records, Requests, Claimed, OwnerNeverLost, AccountsFollowClaim,
        SettlesTheClaim, SettledAccount, GateSawOpen, InSettle, Active
<1>1. ASSUME NEW r \in Requests, Read(r) PROVE (SettlesTheClaim /\ SettledAccount /\ GateSawOpen)'
  BY <1>1 DEF Read, Goto
<1>2. ASSUME NEW r \in Requests, LookupPresent(r) PROVE (SettlesTheClaim /\ SettledAccount /\ GateSawOpen)'
  BY <1>2 DEF LookupPresent, Goto, Finish, End, OwnerPresent
<1>3. ASSUME NEW r \in Requests, LookupCopied(r) PROVE (SettlesTheClaim /\ SettledAccount /\ GateSawOpen)'
  BY <1>3 DEF LookupCopied, Goto, OwnerPresent
<1>4. ASSUME NEW r \in Requests, LookupMissing(r) PROVE (SettlesTheClaim /\ SettledAccount /\ GateSawOpen)'
  BY <1>4 DEF LookupMissing, Goto, OwnerPresent
<1>5. ASSUME NEW r \in Requests, List(r) PROVE (SettlesTheClaim /\ SettledAccount /\ GateSawOpen)'
  BY <1>5 DEF List, Goto, Finish, End
<1>6. ASSUME NEW r \in Requests, Copy(r) PROVE (SettlesTheClaim /\ SettledAccount /\ GateSawOpen)'
  BY <1>6 DEF Copy, Goto
<1>7. ASSUME NEW r \in Requests, ForgetRead(r) PROVE (SettlesTheClaim /\ SettledAccount /\ GateSawOpen)'
  BY <1>7 DEF ForgetRead, Goto
<1>8. ASSUME NEW r \in Requests, ForgetWrite(r) PROVE (SettlesTheClaim /\ SettledAccount /\ GateSawOpen)'
  BY <1>8 DEF ForgetWrite, Forgotten, Finish, End, Goto
<1>9. ASSUME NEW r \in Requests, ForgetMiss(r) PROVE (SettlesTheClaim /\ SettledAccount /\ GateSawOpen)'
  BY <1>9 DEF ForgetMiss, Goto, Finish, End
<1>10. ASSUME NEW r \in Requests, Unavailable(r) PROVE (SettlesTheClaim /\ SettledAccount /\ GateSawOpen)'
  BY <1>10 DEF Unavailable, Fault, Finish, End, Goto
<1>11. ASSUME NEW r \in Requests, ForgetFails(r) PROVE (SettlesTheClaim /\ SettledAccount /\ GateSawOpen)'
  BY <1>11 DEF ForgetFails, Fault, Finish, End, Goto
<1>12. ASSUME NEW r \in Requests, CopyAckLost(r) PROVE (SettlesTheClaim /\ SettledAccount /\ GateSawOpen)'
  BY <1>12 DEF CopyAckLost, Fault, End, Goto
<1>13. ASSUME NEW r \in Setups, ClaimRefuse(r) PROVE (SettlesTheClaim /\ SettledAccount /\ GateSawOpen)'
  BY <1>13 DEF ClaimRefuse, End, Goto
<1>14. ASSUME NEW r \in Setups, ClaimRead(r) PROVE (SettlesTheClaim /\ SettledAccount /\ GateSawOpen)'
  BY <1>14 DEF ClaimRead, Goto, GateOpen
<1>15. ASSUME NEW r \in Setups, ClaimWrite(r) PROVE (SettlesTheClaim /\ SettledAccount /\ GateSawOpen)'
  BY <1>15 DEF ClaimWrite, Claim, Goto
<1>16. ASSUME NEW r \in Setups, ClaimMiss(r) PROVE (SettlesTheClaim /\ SettledAccount /\ GateSawOpen)'
  BY <1>16 DEF ClaimMiss, Goto
<1>17. ASSUME NEW r \in Setups, ClaimAckLost(r) PROVE (SettlesTheClaim /\ SettledAccount /\ GateSawOpen)'
  BY <1>17 DEF ClaimAckLost, Fault, Claim, End, Goto
<1>18. ASSUME NEW p \in Replicas, Restart(p) PROVE (SettlesTheClaim /\ SettledAccount /\ GateSawOpen)'
  BY <1>18 DEF Restart, Fault
<1>19. ASSUME NEW a \in Others, Join(a) PROVE (SettlesTheClaim /\ SettledAccount /\ GateSawOpen)'
  BY <1>19 DEF Join
<1>20. ASSUME NEW a \in Others \cup Setups, Remove(a) PROVE (SettlesTheClaim /\ SettledAccount /\ GateSawOpen)'
  BY <1>20 DEF Remove
<1>21. CASE LeaseWrite
  BY <1>21 DEF LeaseWrite
<1>22. CASE UNCHANGED vars
  BY <1>22 DEF vars
<1> QED
  BY <1>1, <1>2, <1>3, <1>4, <1>5, <1>6, <1>7, <1>8, <1>9, <1>10, <1>11, <1>12, <1>13, <1>14, <1>15, <1>16, <1>17, <1>18, <1>19, <1>20, <1>21, <1>22 DEF Next, Settle, Gate

\* The answers: "complete" stays true.
LEMMA CompleteStep == IInv /\ TypeOK' /\ [Next]_vars => CompleteMeansAccounts'
<1> SUFFICES ASSUME IInv, TypeOK', [Next]_vars PROVE CompleteMeansAccounts'
  OBVIOUS
<1> USE DEF IInv, TypeOK, Records, Requests, Claimed, CompleteMeansAccounts, AccountsFollowClaim,
        SettlesTheClaim, SettledAccount, GateSawOpen, InSettle, Active
<1>1. ASSUME NEW r \in Requests, Read(r) PROVE CompleteMeansAccounts'
  BY <1>1 DEF Read, Goto
<1>2. ASSUME NEW r \in Requests, LookupPresent(r) PROVE CompleteMeansAccounts'
  BY <1>2 DEF LookupPresent, Goto, Finish, End, OwnerPresent
<1>3. ASSUME NEW r \in Requests, LookupCopied(r) PROVE CompleteMeansAccounts'
  BY <1>3 DEF LookupCopied, Goto, OwnerPresent
<1>4. ASSUME NEW r \in Requests, LookupMissing(r) PROVE CompleteMeansAccounts'
  BY <1>4 DEF LookupMissing, Goto, OwnerPresent
<1>5. ASSUME NEW r \in Requests, List(r) PROVE CompleteMeansAccounts'
  BY <1>5 DEF List, Goto, Finish, End
<1>6. ASSUME NEW r \in Requests, Copy(r) PROVE CompleteMeansAccounts'
  BY <1>6 DEF Copy, Goto
<1>7. ASSUME NEW r \in Requests, ForgetRead(r) PROVE CompleteMeansAccounts'
  BY <1>7 DEF ForgetRead, Goto
<1>8. ASSUME NEW r \in Requests, ForgetWrite(r) PROVE CompleteMeansAccounts'
  BY <1>8 DEF ForgetWrite, Forgotten, Finish, End, Goto
<1>9. ASSUME NEW r \in Requests, ForgetMiss(r) PROVE CompleteMeansAccounts'
  BY <1>9 DEF ForgetMiss, Goto, Finish, End
<1>10. ASSUME NEW r \in Requests, Unavailable(r) PROVE CompleteMeansAccounts'
  BY <1>10 DEF Unavailable, Fault, Finish, End, Goto
<1>11. ASSUME NEW r \in Requests, ForgetFails(r) PROVE CompleteMeansAccounts'
  BY <1>11 DEF ForgetFails, Fault, Finish, End, Goto
<1>12. ASSUME NEW r \in Requests, CopyAckLost(r) PROVE CompleteMeansAccounts'
  BY <1>12 DEF CopyAckLost, Fault, End, Goto
<1>13. ASSUME NEW r \in Setups, ClaimRefuse(r) PROVE CompleteMeansAccounts'
  BY <1>13 DEF ClaimRefuse, End, Goto
<1>14. ASSUME NEW r \in Setups, ClaimRead(r) PROVE CompleteMeansAccounts'
  BY <1>14 DEF ClaimRead, Goto, GateOpen
<1>15. ASSUME NEW r \in Setups, ClaimWrite(r) PROVE CompleteMeansAccounts'
  BY <1>15 DEF ClaimWrite, Claim, Goto
<1>16. ASSUME NEW r \in Setups, ClaimMiss(r) PROVE CompleteMeansAccounts'
  BY <1>16 DEF ClaimMiss, Goto
<1>17. ASSUME NEW r \in Setups, ClaimAckLost(r) PROVE CompleteMeansAccounts'
  BY <1>17 DEF ClaimAckLost, Fault, Claim, End, Goto
<1>18. ASSUME NEW p \in Replicas, Restart(p) PROVE CompleteMeansAccounts'
  BY <1>18 DEF Restart, Fault
<1>19. ASSUME NEW a \in Others, Join(a) PROVE CompleteMeansAccounts'
  BY <1>19 DEF Join
<1>20. ASSUME NEW a \in Others \cup Setups, Remove(a) PROVE CompleteMeansAccounts'
  BY <1>20 DEF Remove
<1>21. CASE LeaseWrite
  BY <1>21 DEF LeaseWrite
<1>22. CASE UNCHANGED vars
  BY <1>22 DEF vars
<1> QED
  BY <1>1, <1>2, <1>3, <1>4, <1>5, <1>6, <1>7, <1>8, <1>9, <1>10, <1>11, <1>12, <1>13, <1>14, <1>15, <1>16, <1>17, <1>18, <1>19, <1>20, <1>21, <1>22 DEF Next, Settle, Gate

LEMMA InvInit == Init => IInv
BY DEF Init, IInv, TypeOK, Records, NoRecord, Stages, Requests, Claimed, OneFirstOwner,
       OwnerNeverLost, CompleteMeansAccounts, AccountsFollowClaim, SettlesTheClaim,
       SettledAccount, GateSawOpen, InSettle

LEMMA InvStep == IInv /\ [Next]_vars => IInv'
<1> SUFFICES ASSUME IInv, [Next]_vars PROVE IInv'
  OBVIOUS
<1>1. TypeOK'
  BY TypeStep
<1> QED
  BY <1>1, AccountsStep, RequestsStep, CompleteStep DEF IInv

\* Every reachable state satisfies the inductive invariant.
THEOREM SetupInvariant == Spec => []IInv
BY InvInit, InvStep, PTL DEF Spec

\* No two requests are ever both let in as the first owner: an account of a
\* setup request exists only under that request's claim.
THEOREM OnlyOneFirstOwner == Spec => []OneFirstOwner
<1>1. IInv => OneFirstOwner
  BY DEF IInv
<1> QED
  BY <1>1, SetupInvariant, PTL

\* A replica that answers "setup is complete" from its cache is right: setup
\* was claimed and there is an account; and whoever was told that its setup
\* succeeded holds the claim and had its account.
THEOREM CompleteIsTrue == Spec => []CompleteMeansAccounts
<1>1. IInv => CompleteMeansAccounts
  BY DEF IInv
<1> QED
  BY <1>1, SetupInvariant, PTL

\* A crash between claim and copy never loses the first owner.
THEOREM OwnerKept == Spec => []OwnerNeverLost
<1>1. IInv => OwnerNeverLost
  BY DEF IInv
<1> QED
  BY <1>1, SetupInvariant, PTL

\* Setup never reopens: once claimed, the claim is nobody else's.
THEOREM SetupClaimedOnce == Spec => ClaimedOnce
<1>1. IInv /\ [Next]_vars => [Claimed(marker) => marker'.ownerId = marker.ownerId]_vars
  <2> SUFFICES ASSUME IInv, Next, Claimed(marker) PROVE marker'.ownerId = marker.ownerId
    OBVIOUS
  <2>1. ASSUME NEW r \in Setups, ClaimWrite(r) \/ ClaimAckLost(r) PROVE FALSE
    BY <2>1 DEF ClaimWrite, ClaimAckLost, IInv, GateSawOpen, Requests
  <2>2. ASSUME NEW r \in Requests, ForgetWrite(r) PROVE marker'.ownerId = marker.ownerId
    BY <2>2 DEF ForgetWrite, Forgotten
  <2>3. ASSUME LeaseWrite PROVE marker'.ownerId = marker.ownerId
    BY <2>3 DEF LeaseWrite, IInv, TypeOK, Records
  <2> QED
    BY <2>1, <2>2, <2>3
       DEF Next, Settle, Gate, Read, LookupPresent, LookupCopied, LookupMissing, List, Copy, ForgetRead,
           ForgetMiss, ClaimRefuse, ClaimRead, ClaimMiss, Unavailable, ForgetFails, CopyAckLost, Restart,
           Join, Remove
<1> QED
  BY <1>1, SetupInvariant, PTL DEF Spec, ClaimedOnce
=============================================================================
