-------------------------- MODULE TeamOwners_proofs --------------------------
(***************************************************************************)
(* Theorems about TeamOwners, for every set of members and requests and    *)
(* every value of the lease's constants that TeamAssumption admits.        *)
(***************************************************************************)
EXTENDS TeamOwners, FiniteSetTheorems, TLAPS

USE TeamAssumption

\* Every step keeps every variable in its type.
LEMMA TypeStep == TypeOK /\ [Next]_vars => TypeOK'
<1> SUFFICES ASSUME TypeOK, [Next]_vars PROVE TypeOK'
  OBVIOUS
<1> USE DEF TypeOK, Roles, NotLive, Stages, seen
<1>1. ASSUME NEW r \in Requests, Begin(r) PROVE TypeOK'
  BY <1>1 DEF Begin, Goto
<1>2. ASSUME NEW r \in Requests, LookRefuse(r) PROVE TypeOK'
  BY <1>2 DEF LookRefuse, Goto
<1>3. ASSUME NEW r \in Requests, LookLocked(r) PROVE TypeOK'
  BY <1>3 DEF LookLocked, Goto, LookRefused, TargetRecord
<1>4. ASSUME NEW r \in Requests, LookUnlocked(r) PROVE TypeOK'
  BY <1>4 DEF LookUnlocked, Goto, LookRefused, TargetRecord
<1>5. ASSUME NEW r \in Requests, LockRefuse(r) PROVE TypeOK'
  BY <1>5 DEF LockRefuse, Goto
<1>6. ASSUME NEW r \in Requests, LockRead(r) PROVE TypeOK'
  BY <1>6 DEF LockRead, Goto
<1>7. ASSUME NEW r \in Requests, LockLand(r) PROVE TypeOK'
  BY <1>7 DEF LockLand, Goto, TakeLease
<1>8. ASSUME NEW r \in Requests, LockAckLost(r) PROVE TypeOK'
  BY <1>8 DEF LockAckLost, Goto, TakeLease
<1>9. ASSUME NEW r \in Requests, LockMiss(r) PROVE TypeOK'
  BY <1>9 DEF LockMiss, Goto
<1>10. ASSUME NEW r \in Requests, RecheckRefuse(r) PROVE TypeOK'
  BY <1>10 DEF RecheckRefuse, Leave, Exit
<1>11. ASSUME NEW r \in Requests, Recheck(r) PROVE TypeOK'
  BY <1>11 DEF Recheck, Goto, TargetRecord
<1>12. ASSUME NEW r \in Requests, Count(r) PROVE TypeOK'
  BY <1>12 DEF Count, Goto, Owners
<1>13. ASSUME NEW r \in Requests, UpdateRefuse(r) PROVE TypeOK'
  BY <1>13 DEF UpdateRefuse, Leave, Exit
<1>14. ASSUME NEW r \in Requests, UpdateSend(r) PROVE TypeOK'
  BY <1>14 DEF UpdateSend, Goto, TargetRecord
<1>15. ASSUME NEW r \in Requests, RemoveRefuse(r) PROVE TypeOK'
  BY <1>15 DEF RemoveRefuse, Leave, Exit
<1>16. ASSUME NEW r \in Requests, RemoveSend(r) PROVE TypeOK'
  BY <1>16 DEF RemoveSend, Goto
<1>17. ASSUME NEW r \in Requests, WriteLand(r) PROVE TypeOK'
  BY <1>17 DEF WriteLand, Leave, Exit
<1>18. ASSUME NEW r \in Requests, WriteRetry(r) PROVE TypeOK'
  BY <1>18 DEF WriteRetry, Goto
<1>19. ASSUME NEW r \in Requests, WriteRefuse(r) PROVE TypeOK'
  BY <1>19 DEF WriteRefuse, Leave, Exit
<1>20. ASSUME NEW r \in Requests, UnlockRead(r) PROVE TypeOK'
  BY <1>20 DEF UnlockRead, Goto
<1>21. ASSUME NEW r \in Requests, UnlockLand(r) PROVE TypeOK'
  BY <1>21 DEF UnlockLand, Goto, HolderAfterRelease
<1>22. ASSUME NEW r \in Requests, UnlockMiss(r) PROVE TypeOK'
  BY <1>22 DEF UnlockMiss, Goto
<1>23. ASSUME NEW r \in Requests, UnavailableOutside(r) PROVE TypeOK'
  BY <1>23 DEF UnavailableOutside, Goto
<1>24. ASSUME NEW r \in Requests, UnavailableInWork(r) PROVE TypeOK'
  BY <1>24 DEF UnavailableInWork, Leave, Exit
<1>25. ASSUME NEW r \in Requests, Crash(r) PROVE TypeOK'
  BY <1>25 DEF Crash, Goto
<1>26. ASSUME NEW m \in Members, Join(m) PROVE TypeOK'
  BY <1>26 DEF Join
<1>27. ASSUME NEW m \in Members, Touch(m) PROVE TypeOK'
  BY <1>27 DEF Touch
<1>28. CASE Tick
  BY <1>28 DEF Tick
<1>29. CASE UNCHANGED vars
  BY <1>29 DEF vars
<1> QED
  BY <1>1, <1>2, <1>3, <1>4, <1>5, <1>6, <1>7, <1>8, <1>9, <1>10, <1>11, <1>12, <1>13, <1>14, <1>15, <1>16, <1>17, <1>18, <1>19, <1>20, <1>21, <1>22, <1>23, <1>24, <1>25, <1>26, <1>27, <1>28, <1>29 DEF Next, Step

LEMMA TypeInit == Init => TypeOK
BY DEF Init, TypeOK, NoInput, Roles, NotLive, Stages

\* Every variable keeps its type in every reachable state.
THEOREM TypeCorrect == Spec => []TypeOK
BY TypeInit, TypeStep, PTL DEF Spec

\* The lease: what a holder may rely on while it is at work.
LEMMA LeaseStep == IInv /\ TypeOK' /\ [Next]_vars => (LeaseAsked /\ LeaseKept /\ WriteFenced)'
<1> SUFFICES ASSUME IInv, TypeOK', [Next]_vars PROVE (LeaseAsked /\ LeaseKept /\ WriteFenced)'
  OBVIOUS
<1> USE DEF IInv, TypeOK, LeaseAsked, LeaseKept, WriteFenced, LeaseTaken, Removes, Locked, TakesOwner,
        InWork, LeaseEnd, InFlight, seen
<1>1. ASSUME NEW r \in Requests, Begin(r) PROVE (LeaseAsked /\ LeaseKept /\ WriteFenced)'
  BY <1>1 DEF Begin, Goto
<1>2. ASSUME NEW r \in Requests, LookRefuse(r) PROVE (LeaseAsked /\ LeaseKept /\ WriteFenced)'
  BY <1>2 DEF LookRefuse, Goto
<1>3. ASSUME NEW r \in Requests, LookLocked(r) PROVE (LeaseAsked /\ LeaseKept /\ WriteFenced)'
  BY <1>3 DEF LookLocked, Goto, LookRefused, TargetRecord
<1>4. ASSUME NEW r \in Requests, LookUnlocked(r) PROVE (LeaseAsked /\ LeaseKept /\ WriteFenced)'
  BY <1>4 DEF LookUnlocked, Goto, LookRefused, TargetRecord
<1>5. ASSUME NEW r \in Requests, LockRefuse(r) PROVE (LeaseAsked /\ LeaseKept /\ WriteFenced)'
  BY <1>5 DEF LockRefuse, Goto
<1>6. ASSUME NEW r \in Requests, LockRead(r) PROVE (LeaseAsked /\ LeaseKept /\ WriteFenced)'
  BY <1>6 DEF LockRead, Goto
<1>7. ASSUME NEW r \in Requests, LockLand(r) PROVE (LeaseAsked /\ LeaseKept /\ WriteFenced)'
  BY <1>7 DEF LockLand, Goto, TakeLease
<1>8. ASSUME NEW r \in Requests, LockAckLost(r) PROVE (LeaseAsked /\ LeaseKept /\ WriteFenced)'
  BY <1>8 DEF LockAckLost, Goto, TakeLease
<1>9. ASSUME NEW r \in Requests, LockMiss(r) PROVE (LeaseAsked /\ LeaseKept /\ WriteFenced)'
  BY <1>9 DEF LockMiss, Goto
<1>10. ASSUME NEW r \in Requests, RecheckRefuse(r) PROVE (LeaseAsked /\ LeaseKept /\ WriteFenced)'
  BY <1>10 DEF RecheckRefuse, Leave, Exit
<1>11. ASSUME NEW r \in Requests, Recheck(r) PROVE (LeaseAsked /\ LeaseKept /\ WriteFenced)'
  BY <1>11 DEF Recheck, Goto, TargetRecord
<1>12. ASSUME NEW r \in Requests, Count(r) PROVE (LeaseAsked /\ LeaseKept /\ WriteFenced)'
  BY <1>12 DEF Count, Goto, Owners
<1>13. ASSUME NEW r \in Requests, UpdateRefuse(r) PROVE (LeaseAsked /\ LeaseKept /\ WriteFenced)'
  BY <1>13 DEF UpdateRefuse, Leave, Exit
<1>14. ASSUME NEW r \in Requests, UpdateSend(r) PROVE (LeaseAsked /\ LeaseKept /\ WriteFenced)'
  BY <1>14 DEF UpdateSend, Goto, TargetRecord, ChangeRefused, FenceOpen
<1>15. ASSUME NEW r \in Requests, RemoveRefuse(r) PROVE (LeaseAsked /\ LeaseKept /\ WriteFenced)'
  BY <1>15 DEF RemoveRefuse, Leave, Exit
<1>16. ASSUME NEW r \in Requests, RemoveSend(r) PROVE (LeaseAsked /\ LeaseKept /\ WriteFenced)'
  BY <1>16 DEF RemoveSend, Goto, DeleteRefused, FenceOpen
<1>17. ASSUME NEW r \in Requests, WriteLand(r) PROVE (LeaseAsked /\ LeaseKept /\ WriteFenced)'
  BY <1>17 DEF WriteLand, Leave, Exit
<1>18. ASSUME NEW r \in Requests, WriteRetry(r) PROVE (LeaseAsked /\ LeaseKept /\ WriteFenced)'
  BY <1>18 DEF WriteRetry, Goto
<1>19. ASSUME NEW r \in Requests, WriteRefuse(r) PROVE (LeaseAsked /\ LeaseKept /\ WriteFenced)'
  BY <1>19 DEF WriteRefuse, Leave, Exit
<1>20. ASSUME NEW r \in Requests, UnlockRead(r) PROVE (LeaseAsked /\ LeaseKept /\ WriteFenced)'
  BY <1>20 DEF UnlockRead, Goto
<1>21. ASSUME NEW r \in Requests, UnlockLand(r) PROVE (LeaseAsked /\ LeaseKept /\ WriteFenced)'
  BY <1>21 DEF UnlockLand, Goto, HolderAfterRelease
<1>22. ASSUME NEW r \in Requests, UnlockMiss(r) PROVE (LeaseAsked /\ LeaseKept /\ WriteFenced)'
  BY <1>22 DEF UnlockMiss, Goto
<1>23. ASSUME NEW r \in Requests, UnavailableOutside(r) PROVE (LeaseAsked /\ LeaseKept /\ WriteFenced)'
  BY <1>23 DEF UnavailableOutside, Goto
<1>24. ASSUME NEW r \in Requests, UnavailableInWork(r) PROVE (LeaseAsked /\ LeaseKept /\ WriteFenced)'
  BY <1>24 DEF UnavailableInWork, Leave, Exit
<1>25. ASSUME NEW r \in Requests, Crash(r) PROVE (LeaseAsked /\ LeaseKept /\ WriteFenced)'
  BY <1>25 DEF Crash, Goto
<1>26. ASSUME NEW m \in Members, Join(m) PROVE (LeaseAsked /\ LeaseKept /\ WriteFenced)'
  BY <1>26 DEF Join
<1>27. ASSUME NEW m \in Members, Touch(m) PROVE (LeaseAsked /\ LeaseKept /\ WriteFenced)'
  BY <1>27 DEF Touch
<1>28. CASE Tick
  BY <1>28 DEF Tick
<1>29. CASE UNCHANGED vars
  BY <1>29 DEF vars
<1> QED
  BY <1>1, <1>2, <1>3, <1>4, <1>5, <1>6, <1>7, <1>8, <1>9, <1>10, <1>11, <1>12, <1>13, <1>14, <1>15, <1>16, <1>17, <1>18, <1>19, <1>20, <1>21, <1>22, <1>23, <1>24, <1>25, <1>26, <1>27, <1>28, <1>29 DEF Next, Step

\* The members: what a pending write was checked against.
LEMMA TeamStep == IInv /\ TypeOK' /\ [Next]_vars => (CountHolds /\ RemovalSeen /\ WriteChecked /\ TargetKnown)'
<1> SUFFICES ASSUME IInv, TypeOK', [Next]_vars PROVE (CountHolds /\ RemovalSeen /\ WriteChecked /\ TargetKnown)'
  OBVIOUS
<1> USE DEF IInv, TypeOK, CountHolds, RemovalSeen, WriteChecked, TargetKnown, Owners, Unchanged,
        TargetRecord, Removes, Locked, TakesOwner, LastOwner, InWork, Roles, NotLive, seen
<1>1. ASSUME NEW r \in Requests, Begin(r) PROVE (CountHolds /\ RemovalSeen /\ WriteChecked /\ TargetKnown)'
  BY <1>1 DEF Begin, Goto
<1>2. ASSUME NEW r \in Requests, LookRefuse(r) PROVE (CountHolds /\ RemovalSeen /\ WriteChecked /\ TargetKnown)'
  BY <1>2 DEF LookRefuse, Goto
<1>3. ASSUME NEW r \in Requests, LookLocked(r) PROVE (CountHolds /\ RemovalSeen /\ WriteChecked /\ TargetKnown)'
  BY <1>3 DEF LookLocked, Goto, LookRefused
<1>4. ASSUME NEW r \in Requests, LookUnlocked(r) PROVE (CountHolds /\ RemovalSeen /\ WriteChecked /\ TargetKnown)'
  BY SMTT(30), <1>4 DEF LookUnlocked, Goto, LookRefused
<1>5. ASSUME NEW r \in Requests, LockRefuse(r) PROVE (CountHolds /\ RemovalSeen /\ WriteChecked /\ TargetKnown)'
  BY <1>5 DEF LockRefuse, Goto
<1>6. ASSUME NEW r \in Requests, LockRead(r) PROVE (CountHolds /\ RemovalSeen /\ WriteChecked /\ TargetKnown)'
  BY <1>6 DEF LockRead, Goto
<1>7. ASSUME NEW r \in Requests, LockLand(r) PROVE (CountHolds /\ RemovalSeen /\ WriteChecked /\ TargetKnown)'
  BY <1>7 DEF LockLand, Goto, TakeLease
<1>8. ASSUME NEW r \in Requests, LockAckLost(r) PROVE (CountHolds /\ RemovalSeen /\ WriteChecked /\ TargetKnown)'
  BY <1>8 DEF LockAckLost, Goto, TakeLease
<1>9. ASSUME NEW r \in Requests, LockMiss(r) PROVE (CountHolds /\ RemovalSeen /\ WriteChecked /\ TargetKnown)'
  BY <1>9 DEF LockMiss, Goto
<1>10. ASSUME NEW r \in Requests, RecheckRefuse(r) PROVE (CountHolds /\ RemovalSeen /\ WriteChecked /\ TargetKnown)'
  BY <1>10 DEF RecheckRefuse, Leave, Exit
<1>11. ASSUME NEW r \in Requests, Recheck(r) PROVE (CountHolds /\ RemovalSeen /\ WriteChecked /\ TargetKnown)'
  BY <1>11 DEF Recheck, Goto
<1>12. ASSUME NEW r \in Requests, Count(r) PROVE (CountHolds /\ RemovalSeen /\ WriteChecked /\ TargetKnown)'
  BY <1>12 DEF Count, Goto
<1>13. ASSUME NEW r \in Requests, UpdateRefuse(r) PROVE (CountHolds /\ RemovalSeen /\ WriteChecked /\ TargetKnown)'
  BY <1>13 DEF UpdateRefuse, Leave, Exit
<1>14. ASSUME NEW r \in Requests, UpdateSend(r) PROVE (CountHolds /\ RemovalSeen /\ WriteChecked /\ TargetKnown)'
  BY SMTT(30), <1>14 DEF UpdateSend, Goto, ChangeRefused
<1>15. ASSUME NEW r \in Requests, RemoveRefuse(r) PROVE (CountHolds /\ RemovalSeen /\ WriteChecked /\ TargetKnown)'
  BY <1>15 DEF RemoveRefuse, Leave, Exit
<1>16. ASSUME NEW r \in Requests, RemoveSend(r) PROVE (CountHolds /\ RemovalSeen /\ WriteChecked /\ TargetKnown)'
  BY <1>16 DEF RemoveSend, Goto, DeleteRefused
<1>17. ASSUME NEW r \in Requests, WriteLand(r) PROVE (CountHolds /\ RemovalSeen /\ WriteChecked /\ TargetKnown)'
  BY <1>17 DEF WriteLand, Leave, Exit, WriteFenced, LeaseKept, LeaseEnd, InFlight
<1>18. ASSUME NEW r \in Requests, WriteRetry(r) PROVE (CountHolds /\ RemovalSeen /\ WriteChecked /\ TargetKnown)'
  BY <1>18 DEF WriteRetry, Goto, RetriesWrite
<1>19. ASSUME NEW r \in Requests, WriteRefuse(r) PROVE (CountHolds /\ RemovalSeen /\ WriteChecked /\ TargetKnown)'
  BY <1>19 DEF WriteRefuse, Leave, Exit
<1>20. ASSUME NEW r \in Requests, UnlockRead(r) PROVE (CountHolds /\ RemovalSeen /\ WriteChecked /\ TargetKnown)'
  BY <1>20 DEF UnlockRead, Goto
<1>21. ASSUME NEW r \in Requests, UnlockLand(r) PROVE (CountHolds /\ RemovalSeen /\ WriteChecked /\ TargetKnown)'
  BY <1>21 DEF UnlockLand, Goto, HolderAfterRelease
<1>22. ASSUME NEW r \in Requests, UnlockMiss(r) PROVE (CountHolds /\ RemovalSeen /\ WriteChecked /\ TargetKnown)'
  BY <1>22 DEF UnlockMiss, Goto
<1>23. ASSUME NEW r \in Requests, UnavailableOutside(r) PROVE (CountHolds /\ RemovalSeen /\ WriteChecked /\ TargetKnown)'
  BY <1>23 DEF UnavailableOutside, Goto
<1>24. ASSUME NEW r \in Requests, UnavailableInWork(r) PROVE (CountHolds /\ RemovalSeen /\ WriteChecked /\ TargetKnown)'
  BY <1>24 DEF UnavailableInWork, Leave, Exit
<1>25. ASSUME NEW r \in Requests, Crash(r) PROVE (CountHolds /\ RemovalSeen /\ WriteChecked /\ TargetKnown)'
  BY <1>25 DEF Crash, Goto
<1>26. ASSUME NEW m \in Members, Join(m) PROVE (CountHolds /\ RemovalSeen /\ WriteChecked /\ TargetKnown)'
  BY <1>26 DEF Join
<1>27. ASSUME NEW m \in Members, Touch(m) PROVE (CountHolds /\ RemovalSeen /\ WriteChecked /\ TargetKnown)'
  BY <1>27 DEF Touch
<1>28. CASE Tick
  BY <1>28 DEF Tick
<1>29. CASE UNCHANGED vars
  BY <1>29 DEF vars
<1> QED
  BY <1>1, <1>2, <1>3, <1>4, <1>5, <1>6, <1>7, <1>8, <1>9, <1>10, <1>11, <1>12, <1>13, <1>14, <1>15, <1>16, <1>17, <1>18, <1>19, <1>20, <1>21, <1>22, <1>23, <1>24, <1>25, <1>26, <1>27, <1>28, <1>29 DEF Next, Step

\* The callers: a pending write that touches an owner is an owner's.
LEMMA CallerStep == IInv /\ TypeOK' /\ [Next]_vars => CallerChecked'
<1> SUFFICES ASSUME IInv, TypeOK', [Next]_vars PROVE CallerChecked'
  OBVIOUS
<1> USE DEF IInv, TypeOK, CallerChecked, Authorized, RolesTouched, Unchanged, TargetRecord, RemovalSeen,
        WriteChecked, TargetKnown, Removes, InWork, Roles, NotLive, seen
<1>1. ASSUME NEW r \in Requests, Begin(r) PROVE CallerChecked'
  BY <1>1 DEF Begin, Goto
<1>2. ASSUME NEW r \in Requests, LookRefuse(r) PROVE CallerChecked'
  BY <1>2 DEF LookRefuse, Goto
<1>3. ASSUME NEW r \in Requests, LookLocked(r) PROVE CallerChecked'
  BY <1>3 DEF LookLocked, Goto, LookRefused
<1>4. ASSUME NEW r \in Requests, LookUnlocked(r) PROVE CallerChecked'
  BY <1>4 DEF LookUnlocked, Goto, LookRefused
<1>5. ASSUME NEW r \in Requests, LockRefuse(r) PROVE CallerChecked'
  BY <1>5 DEF LockRefuse, Goto
<1>6. ASSUME NEW r \in Requests, LockRead(r) PROVE CallerChecked'
  BY <1>6 DEF LockRead, Goto
<1>7. ASSUME NEW r \in Requests, LockLand(r) PROVE CallerChecked'
  BY <1>7 DEF LockLand, Goto, TakeLease
<1>8. ASSUME NEW r \in Requests, LockAckLost(r) PROVE CallerChecked'
  BY <1>8 DEF LockAckLost, Goto, TakeLease
<1>9. ASSUME NEW r \in Requests, LockMiss(r) PROVE CallerChecked'
  BY <1>9 DEF LockMiss, Goto
<1>10. ASSUME NEW r \in Requests, RecheckRefuse(r) PROVE CallerChecked'
  BY <1>10 DEF RecheckRefuse, Leave, Exit
<1>11. ASSUME NEW r \in Requests, Recheck(r) PROVE CallerChecked'
  BY <1>11 DEF Recheck, Goto
<1>12. ASSUME NEW r \in Requests, Count(r) PROVE CallerChecked'
  BY <1>12 DEF Count, Goto, Owners
<1>13. ASSUME NEW r \in Requests, UpdateRefuse(r) PROVE CallerChecked'
  BY <1>13 DEF UpdateRefuse, Leave, Exit
<1>14. ASSUME NEW r \in Requests, UpdateSend(r) PROVE CallerChecked'
  BY <1>14 DEF UpdateSend, Goto, ChangeRefused
<1>15. ASSUME NEW r \in Requests, RemoveRefuse(r) PROVE CallerChecked'
  BY <1>15 DEF RemoveRefuse, Leave, Exit
<1>16. ASSUME NEW r \in Requests, RemoveSend(r) PROVE CallerChecked'
  BY <1>16 DEF RemoveSend, Goto
<1>17. ASSUME NEW r \in Requests, WriteLand(r) PROVE CallerChecked'
  BY <1>17 DEF WriteLand, Leave, Exit
<1>18. ASSUME NEW r \in Requests, WriteRetry(r) PROVE CallerChecked'
  BY <1>18 DEF WriteRetry, Goto, RetriesWrite
<1>19. ASSUME NEW r \in Requests, WriteRefuse(r) PROVE CallerChecked'
  BY <1>19 DEF WriteRefuse, Leave, Exit
<1>20. ASSUME NEW r \in Requests, UnlockRead(r) PROVE CallerChecked'
  BY <1>20 DEF UnlockRead, Goto
<1>21. ASSUME NEW r \in Requests, UnlockLand(r) PROVE CallerChecked'
  BY <1>21 DEF UnlockLand, Goto, HolderAfterRelease
<1>22. ASSUME NEW r \in Requests, UnlockMiss(r) PROVE CallerChecked'
  BY <1>22 DEF UnlockMiss, Goto
<1>23. ASSUME NEW r \in Requests, UnavailableOutside(r) PROVE CallerChecked'
  BY <1>23 DEF UnavailableOutside, Goto
<1>24. ASSUME NEW r \in Requests, UnavailableInWork(r) PROVE CallerChecked'
  BY <1>24 DEF UnavailableInWork, Leave, Exit
<1>25. ASSUME NEW r \in Requests, Crash(r) PROVE CallerChecked'
  BY <1>25 DEF Crash, Goto
<1>26. ASSUME NEW m \in Members, Join(m) PROVE CallerChecked'
  BY <1>26 DEF Join
<1>27. ASSUME NEW m \in Members, Touch(m) PROVE CallerChecked'
  BY <1>27 DEF Touch
<1>28. CASE Tick
  BY <1>28 DEF Tick
<1>29. CASE UNCHANGED vars
  BY <1>29 DEF vars
<1> QED
  BY <1>1, <1>2, <1>3, <1>4, <1>5, <1>6, <1>7, <1>8, <1>9, <1>10, <1>11, <1>12, <1>13, <1>14, <1>15, <1>16, <1>17, <1>18, <1>19, <1>20, <1>21, <1>22, <1>23, <1>24, <1>25, <1>26, <1>27, <1>28, <1>29 DEF Next, Step

\* A set of members with more than one element keeps one without any m.
LEMMA AnotherOwner ==
    ASSUME NEW S \in SUBSET Members, ~(Cardinality(S) <= 1), NEW m
    PROVE  \E o \in S : o # m
<1>1. SUFFICES ASSUME S \subseteq {m} PROVE FALSE
  OBVIOUS
<1>2. IsFiniteSet({m}) /\ Cardinality({m}) = 1
  BY FS_Singleton
<1>3. Cardinality(S) <= Cardinality({m})
  BY <1>1, <1>2, FS_Subset
<1> QED
  BY <1>2, <1>3

\* The holder whose write lands still has the lease.
LEMMA HolderAtWrite ==
    ASSUME IInv, NEW r \in Requests, InFlight(r)
    PROVE  setup.holder = r /\ now < setup.expires
<1>1. sentAt[r] < deadline[r] /\ now <= sentAt[r] + WRITE_MS
  BY DEF IInv, WriteFenced
<1>2. now \in Nat /\ sentAt[r] \in Nat /\ deadline[r] \in Nat /\ setup.expires \in Nat
  BY DEF IInv, TypeOK
<1>3. now < LeaseEnd(r)
  BY <1>1, <1>2 DEF LeaseEnd
<1>4. Locked(r) /\ InWork(r)
  BY DEF InFlight, InWork
<1>5. setup.holder = r /\ LeaseEnd(r) <= setup.expires
  BY <1>3, <1>4 DEF IInv, LeaseKept
<1> QED
  BY <1>2, <1>3, <1>5 DEF LeaseEnd

\* A landing write that takes an owner away leaves another owner.
LEMMA OwnerStays ==
    ASSUME IInv, NEW r \in Requests, WriteLand(r), TakesOwner(r, TargetRecord(r).role)
    PROVE  InFlight(r) /\ \E o \in Owners : o # input[r].target
<1>1. Locked(r) /\ ~LastOwner(r)
  BY DEF IInv, WriteChecked, WriteLand
<1>2. InFlight(r)
  BY <1>1 DEF InFlight, WriteLand
<1>3. owners[r] \subseteq Owners
  BY <1>1, <1>2, HolderAtWrite DEF IInv, CountHolds, InFlight
<1>4. owners[r] \in SUBSET Members
  BY DEF IInv, TypeOK
<1>5. \E o \in owners[r] : o # input[r].target
  BY <1>1, <1>4, AnotherOwner DEF LastOwner
<1> QED
  BY <1>2, <1>3, <1>5

\* The step of the abstract specification each step is: a landing write
\* changes one member as the promise allows, a join adds one, the rest stutter.
roleOf == [m \in Members |-> users[m].role]

LEMMA PromiseStep == IInv /\ TypeOK' /\ [Next]_vars => [Promise!Next]_roleOf
<1> SUFFICES ASSUME IInv, TypeOK', [Next]_vars, roleOf' # roleOf
             PROVE  Promise!Next
  OBVIOUS
<1>1. ASSUME NEW r \in Requests, WriteLand(r) PROVE Promise!Next
  <2>1. PICK t \in Members, given \in Roles \cup {"gone"} :
            t = input[r].target /\ given = input[r].new
    BY DEF IInv, TypeOK
  <2>2. users[t].role \in Roles
    BY <1>1, <2>1 DEF WriteLand, Unchanged, TargetRecord
  <2>3. roleOf' = [roleOf EXCEPT ![t] = given]
    BY <1>1, <2>1 DEF WriteLand, roleOf, IInv, TypeOK
  <2>4. users[t].role = "owner" /\ given # "owner" => \E o \in Owners : o # t
    BY <1>1, <2>1, OwnerStays DEF TakesOwner, TargetRecord
  <2>5. \A m \in Members : roleOf[m] = users[m].role
    BY DEF roleOf
  <2>6. Promise!Owners = Owners
    BY <2>5 DEF Promise!Owners, Owners, roleOf
  <2>7. Promise!Change(t, given)
    BY <2>2, <2>3, <2>4, <2>5, <2>6 DEF Promise!Change, Promise!Roles, Roles, roleOf
  <2> QED
    BY <2>7 DEF Promise!Next, Promise!Roles, Roles
<1>2. ASSUME NEW m \in Members, Join(m) PROVE Promise!Next
  <2>1. PICK new \in Roles : users' = [users EXCEPT ![m] = [role |-> new, rev |-> @.rev]]
    BY <1>2 DEF Join
  <2>2. roleOf' = [roleOf EXCEPT ![m] = new]
    BY <2>1 DEF roleOf, IInv, TypeOK
  <2>3. Promise!Join(m, new)
    BY <1>2, <2>2 DEF Join, Promise!Join, roleOf
  <2> QED
    BY <2>1, <2>3 DEF Promise!Next, Promise!Roles, Roles
<1>3. ASSUME NEW m \in Members, Touch(m) PROVE FALSE
  BY <1>3 DEF Touch, roleOf, IInv, TypeOK
<1>4. users' # users
  BY DEF roleOf
<1> QED
  BY <1>1, <1>2, <1>3, <1>4
     DEF Next, Step, vars, Tick, Begin, LookRefuse, LookLocked, LookUnlocked, LockRefuse,
         LockRead, LockLand, LockAckLost, LockMiss, RecheckRefuse, Recheck, Count,
         UpdateRefuse, UpdateSend, RemoveRefuse, RemoveSend, WriteRetry, WriteRefuse,
         UnlockRead, UnlockLand, UnlockMiss, UnavailableOutside, UnavailableInWork, Crash

LEMMA OwnerStep == IInv /\ TypeOK' /\ [Next]_vars => AlwaysAnOwner'
<1> SUFFICES ASSUME IInv, TypeOK', [Next]_vars PROVE Owners' # {}
  BY DEF AlwaysAnOwner
<1>1. PICK o \in Members : users[o].role = "owner"
  BY DEF IInv, AlwaysAnOwner, Owners
<1>2. CASE roleOf' = roleOf
  <2>1. users'[o].role = "owner"
    BY <1>1, <1>2 DEF roleOf
  <2> QED
    BY <2>1 DEF Owners
<1>3. CASE Promise!Next
  <2>1. PICK m \in Members, new \in Roles \cup {"gone"} :
            Promise!Join(m, new) \/ Promise!Change(m, new)
    BY <1>3 DEF Promise!Next, Promise!Roles, Roles
  <2>2. roleOf' = [roleOf EXCEPT ![m] = new]
    BY <2>1 DEF Promise!Join, Promise!Change, roleOf
  <2>3. \A p \in Members : roleOf[p] = users[p].role /\ roleOf'[p] = users'[p].role
    BY DEF roleOf
  <2>4. \E p \in Members : users[p].role = "owner" /\ (p # m \/ new = "owner")
    <3>1. CASE Promise!Join(m, new)
      BY <1>1, <2>3, <3>1 DEF Promise!Join, roleOf
    <3>2. CASE Promise!Change(m, new)
      BY <1>1, <2>3, <3>2 DEF Promise!Change, Promise!Owners, roleOf
    <3> QED
      BY <2>1, <3>1, <3>2
  <2>5. \E p \in Members : users'[p].role = "owner"
    BY <2>2, <2>3, <2>4 DEF roleOf
  <2> QED
    BY <2>5 DEF Owners
<1> QED
  BY <1>2, <1>3, PromiseStep

LEMMA InvInit == Init => IInv
<1> SUFFICES ASSUME Init PROVE IInv
  OBVIOUS
<1>1. TypeOK
  BY TypeInit
<1>2. AlwaysAnOwner
  BY DEF Init, AlwaysAnOwner, Owners
<1>3. \A r \in Requests : pc[r] = "idle"
  BY DEF Init
<1> QED
  BY <1>1, <1>2, <1>3 DEF IInv, LeaseAsked, LeaseKept, WriteFenced, CountHolds, RemovalSeen,
       WriteChecked, TargetKnown, CallerChecked, InWork, InFlight

LEMMA InvStep == IInv /\ [Next]_vars => IInv'
<1> SUFFICES ASSUME IInv, [Next]_vars PROVE IInv'
  OBVIOUS
<1>1. TypeOK'
  BY TypeStep DEF IInv
<1> QED
  BY <1>1, LeaseStep, TeamStep, CallerStep, OwnerStep DEF IInv

\* Every reachable state satisfies the inductive invariant.
THEOREM Invariant == Spec => []IInv
BY InvInit, InvStep, PTL DEF Spec

\* updateMember and removeMember, however they interleave, stall, fail or die,
\* never leave the team without an owner.
THEOREM OwnerAlwaysThere == Spec => []AlwaysAnOwner
<1>1. IInv => AlwaysAnOwner
  BY DEF IInv
<1> QED
  BY <1>1, Invariant, PTL

\* withOwnerLock and its fence: at most one owner change has a write under way.
THEOREM OneChangeAtATime == Spec => []OneOwnerChangeInFlight
<1>1. IInv => OneOwnerChangeInFlight
  BY HolderAtWrite DEF OneOwnerChangeInFlight
<1> QED
  BY <1>1, Invariant, PTL

\* The team's operations implement the atomic promise: a change that takes an
\* owner away happens only while another owner stays.
THEOREM PromiseImplemented == Spec => ImplementsPromise
<1>1. Init => Promise!Init
  BY DEF Init, Promise!Init, TeamAssumption
<1>2. IInv /\ IInv' /\ [Next]_vars => [Promise!Next]_roleOf
  BY PromiseStep DEF IInv
<1> QED
  BY <1>1, <1>2, Invariant, PTL DEF Spec, ImplementsPromise, Promise!Spec, roleOf

\* The steps that change a member's role: a write that lands, or a join.
LEMMA RoleChanges ==
    ASSUME IInv, Next, NEW m \in Members, users'[m].role # users[m].role
    PROVE  \/ users[m].role = "absent"
           \/ \E r \in Requests : WriteLand(r) /\ input[r].target = m
<1>1. ASSUME NEW r \in Requests, WriteLand(r) PROVE input[r].target = m
  BY <1>1 DEF WriteLand, IInv, TypeOK
<1>2. ASSUME NEW n \in Members, Join(n) PROVE users[m].role = "absent"
  BY <1>2 DEF Join, IInv, TypeOK
<1>3. ASSUME NEW n \in Members, Touch(n) PROVE FALSE
  BY <1>3 DEF Touch, IInv, TypeOK
<1>4. users' # users
  OBVIOUS
<1> QED
  BY <1>1, <1>2, <1>3, <1>4
     DEF Next, Step, Tick, Begin, LookRefuse, LookLocked, LookUnlocked, LockRefuse,
         LockRead, LockLand, LockAckLost, LockMiss, RecheckRefuse, Recheck, Count,
         UpdateRefuse, UpdateSend, RemoveRefuse, RemoveSend, WriteRetry, WriteRefuse,
         UnlockRead, UnlockLand, UnlockMiss, UnavailableOutside, UnavailableInWork, Crash

\* An owner stops being one only under its lease holder's unexpired lease.
THEOREM OwnerLossLeased == Spec => OwnerLostUnderLease
<1> DEFINE Leased ==
        \A m \in Owners : users'[m].role # "owner" =>
            \E r \in Requests : /\ setup.holder = r /\ now < setup.expires
                                /\ InFlight(r) /\ input[r].target = m
<1>1. IInv /\ [Next]_vars => [Leased]_vars
  <2> SUFFICES ASSUME IInv, Next, NEW m \in Owners, users'[m].role # "owner"
               PROVE  \E r \in Requests : /\ setup.holder = r /\ now < setup.expires
                                          /\ InFlight(r) /\ input[r].target = m
    OBVIOUS
  <2>1. m \in Members /\ users[m].role = "owner"
    BY DEF Owners
  <2>2. PICK r \in Requests : WriteLand(r) /\ input[r].target = m
    BY <2>1, RoleChanges
  <2>3. users'[m].role = input[r].new
    BY <2>1, <2>2 DEF WriteLand, IInv, TypeOK
  <2>4. TakesOwner(r, TargetRecord(r).role)
    BY <2>1, <2>2, <2>3 DEF TakesOwner, TargetRecord
  <2> QED
    BY <2>2, <2>4, OwnerStays, HolderAtWrite
<1> QED
  BY <1>1, Invariant, PTL DEF Spec, OwnerLostUnderLease

\* Nobody becomes an owner, and no owner something else, but by an owner.
THEOREM OwnersByOwners == Spec => OnlyOwnersTouchOwners
<1> DEFINE ByOwner ==
        \A m \in Members :
            (users[m].role # "absent" /\ ((m \in Owners) # (users'[m].role = "owner"))) =>
                \E r \in Requests : /\ pc[r] = "write" /\ pc'[r] # "write"
                                    /\ input[r].target = m
                                    /\ input[r].actorRole = "owner"
<1>1. IInv /\ [Next]_vars => [ByOwner]_vars
  <2> SUFFICES ASSUME IInv, Next, NEW m \in Members, users[m].role # "absent",
                      (m \in Owners) # (users'[m].role = "owner")
               PROVE  \E r \in Requests : /\ pc[r] = "write" /\ pc'[r] # "write"
                                          /\ input[r].target = m
                                          /\ input[r].actorRole = "owner"
    OBVIOUS
  <2>1. users'[m].role # users[m].role
    BY DEF Owners
  <2>2. PICK r \in Requests : WriteLand(r) /\ input[r].target = m
    BY <2>1, RoleChanges
  <2>3. users'[m].role = input[r].new
    BY <2>2 DEF WriteLand, IInv, TypeOK
  <2>4. "owner" \in RolesTouched(r, TargetRecord(r).role)
    BY <2>2, <2>3 DEF RolesTouched, Removes, TargetRecord, Owners
  <2>5. input[r].actorRole = "owner"
    BY <2>2, <2>4 DEF IInv, CallerChecked, Authorized, WriteLand
  <2>6. pc[r] = "write" /\ pc'[r] # "write"
    BY <2>2 DEF WriteLand, Leave, Exit, IInv, TypeOK
  <2> QED
    BY <2>2, <2>5, <2>6
<1> QED
  BY <1>1, Invariant, PTL DEF Spec, OnlyOwnersTouchOwners
============================================================================
