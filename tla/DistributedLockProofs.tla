------------------------- MODULE DistributedLockProofs -------------------------
(***************************************************************************)
(* Proofs about DistributedLock for every set of holders, TTL, number of   *)
(* retries and time bound: type correctness, that running leases exclude   *)
(* each other, that a live row changes only by its holder, and that an     *)
(* answer of IsHeld is true when it is given.                              *)
(***************************************************************************)
EXTENDS DistributedLock, TLAPS

USE ConstantsAssumption DEF Row

\* A caller that waits has attempts left.
WaitHasTries == \A h \in Holders : pc[h] = "wait" => tries[h] < MaxRetries

TypeInv == TypeOK /\ WaitHasTries

\* The initial states are well typed.
LEMMA TypeInit == Init => TypeInv
  BY DEF Init, TypeInv, TypeOK, WaitHasTries

\* Every step keeps the types: the loop of Lock stops at MaxRetries and the
\* store only ever holds whole rows of known holders.
LEMMA TypeStep == TypeInv /\ [Next]_vars => TypeInv'
<1> SUFFICES ASSUME TypeInv, [Next]_vars PROVE TypeInv'
  OBVIOUS
<1> USE DEF TypeInv, TypeOK, WaitHasTries, Goto, DeleteExpired, Expired, HeldBy
<1>1. CASE Tick
  BY <1>1 DEF Tick
<1>2. CASE CleanupExpiredLocks
  BY <1>2 DEF CleanupExpiredLocks
<1>3. ASSUME NEW h \in Holders, LockBegin(h) PROVE TypeInv'
  BY <1>3 DEF LockBegin
<1>4. ASSUME NEW h \in Holders, LockCancelled(h) PROVE TypeInv'
  BY <1>4 DEF LockCancelled
<1>5. ASSUME NEW h \in Holders, Cleanup(h) PROVE TypeInv'
  BY <1>5 DEF Cleanup
<1>6. ASSUME NEW h \in Holders, TryLockStamp(h) PROVE TypeInv'
  BY <1>6 DEF TryLockStamp
<1>7. ASSUME NEW h \in Holders, TryAcquireLock(h) PROVE TypeInv'
  BY <1>7 DEF TryAcquireLock
<1>8. ASSUME NEW h \in Holders, TryAcquireConflict(h) PROVE TypeInv'
  BY <1>8 DEF TryAcquireConflict, MoreTries
<1>9. ASSUME NEW h \in Holders, TryAcquireError(h) PROVE TypeInv'
  BY <1>9 DEF TryAcquireError
<1>10. ASSUME NEW h \in Holders, Retry(h) PROVE TypeInv'
  BY <1>10 DEF Retry
<1>11. ASSUME NEW h \in Holders, ExtendBegin(h) PROVE TypeInv'
  BY <1>11 DEF ExtendBegin
<1>12. ASSUME NEW h \in Holders, UpdateLockExpiry(h) PROVE TypeInv'
  BY <1>12 DEF UpdateLockExpiry, ExtendMatches
<1>13. ASSUME NEW h \in Holders, ExtendError(h) PROVE TypeInv'
  BY <1>13 DEF ExtendError, ExtendMatches
<1>14. ASSUME NEW h \in Holders, GetLock(h) PROVE TypeInv'
  BY <1>14 DEF GetLock
<1>15. ASSUME NEW h \in Holders, IsHeld(h) PROVE TypeInv'
  BY <1>15 DEF IsHeld, Fresh
<1>16. ASSUME NEW h \in Holders, UnlockBegin(h) PROVE TypeInv'
  BY <1>16 DEF UnlockBegin
<1>17. ASSUME NEW h \in Holders, ReleaseLock(h) PROVE TypeInv'
  BY <1>17 DEF ReleaseLock, ReleaseMatches
<1>18. ASSUME NEW h \in Holders, ReleaseError(h) PROVE TypeInv'
  BY <1>18 DEF ReleaseError, ReleaseMatches
<1>19. ASSUME NEW h \in Holders, Crash(h) PROVE TypeInv'
  BY <1>19 DEF Crash
<1>20. CASE UNCHANGED vars
  BY <1>20 DEF vars
<1> QED
  BY <1>1, <1>2, <1>3, <1>4, <1>5, <1>6, <1>7, <1>8, <1>9, <1>10, <1>11,
     <1>12, <1>13, <1>14, <1>15, <1>16, <1>17, <1>18, <1>19, <1>20 DEF Next

\* DistributedLock and its table row keep their types in every behaviour.
THEOREM TypeCorrect == Spec => []TypeOK
<1>1. TypeInv => TypeOK
  BY DEF TypeInv
<1> QED
  BY <1>1, TypeInit, TypeStep, PTL DEF Spec

-----------------------------------------------------------------------------
\* No lease runs at the start.
LEMMA CoverInit == Init => LeaseIsCovered
<1> SUFFICES ASSUME Init, NEW h \in Holders
             PROVE /\ lease[h] <= now + TTL /\ stamp[h] <= now + TTL
                   /\ ~Holding(h)
  BY DEF Init, LeaseIsCovered, Leased, Holding
<1> QED
  BY DEF Init, Holding

\* A running lease stays covered by its caller's row: cleanup needs an expired
\* row, an insert needs none, and the other holders' statements name themselves.
LEMMA CoverStep == TypeOK /\ LeaseIsCovered /\ [Next]_vars => LeaseIsCovered'
<1> SUFFICES ASSUME TypeOK, LeaseIsCovered, [Next]_vars PROVE LeaseIsCovered'
  OBVIOUS
<1> USE DEF TypeOK, LeaseIsCovered, Leased, Holding, HeldBy, Goto, DeleteExpired, Expired
<1>1. CASE Tick
  BY <1>1 DEF Tick
<1>2. CASE CleanupExpiredLocks
  BY <1>2 DEF CleanupExpiredLocks
<1>3. ASSUME NEW g \in Holders, LockBegin(g) PROVE LeaseIsCovered'
  BY <1>3 DEF LockBegin
<1>4. ASSUME NEW g \in Holders, LockCancelled(g) PROVE LeaseIsCovered'
  BY <1>4 DEF LockCancelled
<1>5. ASSUME NEW g \in Holders, Cleanup(g) PROVE LeaseIsCovered'
  BY <1>5 DEF Cleanup
<1>6. ASSUME NEW g \in Holders, TryLockStamp(g) PROVE LeaseIsCovered'
  BY <1>6 DEF TryLockStamp
<1>7. ASSUME NEW g \in Holders, TryAcquireLock(g) PROVE LeaseIsCovered'
  BY <1>7 DEF TryAcquireLock, InsertAllowed
<1>8. ASSUME NEW g \in Holders, TryAcquireConflict(g) PROVE LeaseIsCovered'
  BY <1>8 DEF TryAcquireConflict
<1>9. ASSUME NEW g \in Holders, TryAcquireError(g) PROVE LeaseIsCovered'
  BY <1>9 DEF TryAcquireError, InsertAllowed
<1>10. ASSUME NEW g \in Holders, Retry(g) PROVE LeaseIsCovered'
  BY <1>10 DEF Retry
<1>11. ASSUME NEW g \in Holders, ExtendBegin(g) PROVE LeaseIsCovered'
  BY <1>11 DEF ExtendBegin
<1>12. ASSUME NEW g \in Holders, UpdateLockExpiry(g) PROVE LeaseIsCovered'
  BY <1>12 DEF UpdateLockExpiry, ExtendMatches
<1>13. ASSUME NEW g \in Holders, ExtendError(g) PROVE LeaseIsCovered'
  BY <1>13 DEF ExtendError, ExtendMatches
<1>14. ASSUME NEW g \in Holders, GetLock(g) PROVE LeaseIsCovered'
  BY <1>14 DEF GetLock
<1>15. ASSUME NEW g \in Holders, IsHeld(g) PROVE LeaseIsCovered'
  BY <1>15 DEF IsHeld
<1>16. ASSUME NEW g \in Holders, UnlockBegin(g) PROVE LeaseIsCovered'
  BY <1>16 DEF UnlockBegin
<1>17. ASSUME NEW g \in Holders, ReleaseLock(g) PROVE LeaseIsCovered'
  BY <1>17 DEF ReleaseLock, ReleaseMatches
<1>18. ASSUME NEW g \in Holders, ReleaseError(g) PROVE LeaseIsCovered'
  BY <1>18 DEF ReleaseError, ReleaseMatches
<1>19. ASSUME NEW g \in Holders, Crash(g) PROVE LeaseIsCovered'
  BY <1>19 DEF Crash
<1>20. CASE UNCHANGED vars
  BY <1>20 DEF vars
<1> QED
  BY <1>1, <1>2, <1>3, <1>4, <1>5, <1>6, <1>7, <1>8, <1>9, <1>10, <1>11,
     <1>12, <1>13, <1>14, <1>15, <1>16, <1>17, <1>18, <1>19, <1>20 DEF Next

\* Every running lease is covered by a row of its caller that lives as long.
THEOREM LeasesAreCovered == Spec => []LeaseIsCovered
  BY CoverInit, CoverStep, TypeCorrect, PTL DEF Spec

\* Two callers whose leases run are never both between Lock and Unlock,
\* whatever statements fail, replies are lost and processes crash: there is one
\* row for the key and it has one holder.
THEOREM LeasesExclude == Spec => []LeaseIsExclusive
<1>1. LeaseIsCovered => LeaseIsExclusive
  BY DEF LeaseIsCovered, LeaseIsExclusive, HeldBy
<1> QED
  BY <1>1, LeasesAreCovered, PTL

-----------------------------------------------------------------------------
\* What a step may do to a row that has not expired.
Own == row # NoRow /\ now <= row.expires /\ row' # row
         => pc[row.holder] \in {"extend", "unlock"}

\* Every statement spares the live rows of other holders.
LEMMA OwnStep == TypeOK /\ [Next]_vars => Own
<1> SUFFICES ASSUME TypeOK, [Next]_vars PROVE Own
  OBVIOUS
<1> USE DEF Own, TypeOK, HeldBy, Goto, DeleteExpired, Expired
<1>1. CASE Tick
  BY <1>1 DEF Tick
<1>2. CASE CleanupExpiredLocks
  BY <1>2 DEF CleanupExpiredLocks
<1>3. ASSUME NEW g \in Holders, LockBegin(g) PROVE Own
  BY <1>3 DEF LockBegin
<1>4. ASSUME NEW g \in Holders, LockCancelled(g) PROVE Own
  BY <1>4 DEF LockCancelled
<1>5. ASSUME NEW g \in Holders, Cleanup(g) PROVE Own
  BY <1>5 DEF Cleanup
<1>6. ASSUME NEW g \in Holders, TryLockStamp(g) PROVE Own
  BY <1>6 DEF TryLockStamp
<1>7. ASSUME NEW g \in Holders, TryAcquireLock(g) PROVE Own
  BY <1>7 DEF TryAcquireLock, InsertAllowed
<1>8. ASSUME NEW g \in Holders, TryAcquireConflict(g) PROVE Own
  BY <1>8 DEF TryAcquireConflict
<1>9. ASSUME NEW g \in Holders, TryAcquireError(g) PROVE Own
  BY <1>9 DEF TryAcquireError, InsertAllowed
<1>10. ASSUME NEW g \in Holders, Retry(g) PROVE Own
  BY <1>10 DEF Retry
<1>11. ASSUME NEW g \in Holders, ExtendBegin(g) PROVE Own
  BY <1>11 DEF ExtendBegin
<1>12. ASSUME NEW g \in Holders, UpdateLockExpiry(g) PROVE Own
  BY <1>12 DEF UpdateLockExpiry, ExtendMatches
<1>13. ASSUME NEW g \in Holders, ExtendError(g) PROVE Own
  BY <1>13 DEF ExtendError, ExtendMatches
<1>14. ASSUME NEW g \in Holders, GetLock(g) PROVE Own
  BY <1>14 DEF GetLock
<1>15. ASSUME NEW g \in Holders, IsHeld(g) PROVE Own
  BY <1>15 DEF IsHeld
<1>16. ASSUME NEW g \in Holders, UnlockBegin(g) PROVE Own
  BY <1>16 DEF UnlockBegin
<1>17. ASSUME NEW g \in Holders, ReleaseLock(g) PROVE Own
  BY <1>17 DEF ReleaseLock, ReleaseMatches
<1>18. ASSUME NEW g \in Holders, ReleaseError(g) PROVE Own
  BY <1>18 DEF ReleaseError, ReleaseMatches
<1>19. ASSUME NEW g \in Holders, Crash(g) PROVE Own
  BY <1>19 DEF Crash
<1>20. CASE UNCHANGED vars
  BY <1>20 DEF vars
<1> QED
  BY <1>1, <1>2, <1>3, <1>4, <1>5, <1>6, <1>7, <1>8, <1>9, <1>10, <1>11,
     <1>12, <1>13, <1>14, <1>15, <1>16, <1>17, <1>18, <1>19, <1>20 DEF Next

\* The row of a lock that has not expired is changed only by its holder's
\* Extend or Unlock.
THEOREM LiveRowsBelong == Spec => LiveRowIsItsHolders
  BY TypeCorrect, OwnStep, PTL DEF Spec, LiveRowIsItsHolders, Own

-----------------------------------------------------------------------------
\* What IsHeld read stays true until it expires: while the caller compares it
\* with the clock nobody else may change the row.
SeenIsCurrent ==
  \A h \in Holders :
    pc[h] = "compare" /\ Fresh(h) => HeldBy(h) /\ row.expires = seen[h].expires

\* Nobody is comparing at the start.
LEMMA SeenInit == Init => SeenIsCurrent
  BY DEF Init, SeenIsCurrent

\* Every step keeps what IsHeld read current.
LEMMA SeenStep == TypeOK /\ SeenIsCurrent /\ [Next]_vars => SeenIsCurrent'
<1> SUFFICES ASSUME TypeOK, SeenIsCurrent, [Next]_vars PROVE SeenIsCurrent'
  OBVIOUS
<1> USE DEF TypeOK, SeenIsCurrent, Fresh, HeldBy, Goto, DeleteExpired, Expired
<1>1. CASE Tick
  BY <1>1 DEF Tick
<1>2. CASE CleanupExpiredLocks
  BY <1>2 DEF CleanupExpiredLocks
<1>3. ASSUME NEW g \in Holders, LockBegin(g) PROVE SeenIsCurrent'
  BY <1>3 DEF LockBegin
<1>4. ASSUME NEW g \in Holders, LockCancelled(g) PROVE SeenIsCurrent'
  BY <1>4 DEF LockCancelled
<1>5. ASSUME NEW g \in Holders, Cleanup(g) PROVE SeenIsCurrent'
  BY <1>5 DEF Cleanup
<1>6. ASSUME NEW g \in Holders, TryLockStamp(g) PROVE SeenIsCurrent'
  BY <1>6 DEF TryLockStamp
<1>7. ASSUME NEW g \in Holders, TryAcquireLock(g) PROVE SeenIsCurrent'
  BY <1>7 DEF TryAcquireLock, InsertAllowed
<1>8. ASSUME NEW g \in Holders, TryAcquireConflict(g) PROVE SeenIsCurrent'
  BY <1>8 DEF TryAcquireConflict
<1>9. ASSUME NEW g \in Holders, TryAcquireError(g) PROVE SeenIsCurrent'
  BY <1>9 DEF TryAcquireError, InsertAllowed
<1>10. ASSUME NEW g \in Holders, Retry(g) PROVE SeenIsCurrent'
  BY <1>10 DEF Retry
<1>11. ASSUME NEW g \in Holders, ExtendBegin(g) PROVE SeenIsCurrent'
  BY <1>11 DEF ExtendBegin
<1>12. ASSUME NEW g \in Holders, UpdateLockExpiry(g) PROVE SeenIsCurrent'
  BY <1>12 DEF UpdateLockExpiry, ExtendMatches
<1>13. ASSUME NEW g \in Holders, ExtendError(g) PROVE SeenIsCurrent'
  BY <1>13 DEF ExtendError, ExtendMatches
<1>14. ASSUME NEW g \in Holders, GetLock(g) PROVE SeenIsCurrent'
  BY <1>14 DEF GetLock
<1>15. ASSUME NEW g \in Holders, IsHeld(g) PROVE SeenIsCurrent'
  BY <1>15 DEF IsHeld
<1>16. ASSUME NEW g \in Holders, UnlockBegin(g) PROVE SeenIsCurrent'
  BY <1>16 DEF UnlockBegin
<1>17. ASSUME NEW g \in Holders, ReleaseLock(g) PROVE SeenIsCurrent'
  BY <1>17 DEF ReleaseLock, ReleaseMatches
<1>18. ASSUME NEW g \in Holders, ReleaseError(g) PROVE SeenIsCurrent'
  BY <1>18 DEF ReleaseError, ReleaseMatches
<1>19. ASSUME NEW g \in Holders, Crash(g) PROVE SeenIsCurrent'
  BY <1>19 DEF Crash
<1>20. CASE UNCHANGED vars
  BY <1>20 DEF vars
<1> QED
  BY <1>1, <1>2, <1>3, <1>4, <1>5, <1>6, <1>7, <1>8, <1>9, <1>10, <1>11,
     <1>12, <1>13, <1>14, <1>15, <1>16, <1>17, <1>18, <1>19, <1>20 DEF Next

\* When IsHeld answers true the caller's row is in the table at that moment,
\* although the row it compares with the clock was read before.
THEOREM IsHeldTellsTheTruth == Spec => IsHeldIsTrue
<1> DEFINE True(h) == pc[h] = "compare" /\ pc'[h] = "held" /\ acquired'[h] => HeldBy(h)
<1>1. TypeOK /\ SeenIsCurrent /\ [Next]_vars => \A h \in Holders : True(h)
  <2> SUFFICES ASSUME TypeOK, SeenIsCurrent, [Next]_vars, NEW h \in Holders,
                      pc[h] = "compare", pc'[h] = "held", acquired'[h]
               PROVE HeldBy(h)
    OBVIOUS
  <2>1. IsHeld(h)
    <3> USE DEF TypeOK, Goto
    <3>1. CASE Tick
      BY <3>1 DEF Tick
    <3>2. CASE CleanupExpiredLocks
      BY <3>2 DEF CleanupExpiredLocks
    <3>3. CASE UNCHANGED vars
      BY <3>3 DEF vars
    <3>4. ASSUME NEW g \in Holders,
                 LockBegin(g) \/ LockCancelled(g) \/ Cleanup(g) \/ TryLockStamp(g)
                 \/ TryAcquireConflict(g) \/ TryAcquireError(g) \/ Retry(g)
                 \/ ExtendBegin(g) \/ GetLock(g) \/ UnlockBegin(g)
                 \/ ReleaseLock(g) \/ ReleaseError(g) \/ Crash(g)
          PROVE FALSE
      BY <3>4 DEF LockBegin, LockCancelled, Cleanup, TryLockStamp,
         TryAcquireConflict, TryAcquireError, Retry, ExtendBegin, GetLock,
         UnlockBegin, ReleaseLock, ReleaseError, Crash
    <3>5. ASSUME NEW g \in Holders,
                 TryAcquireLock(g) \/ UpdateLockExpiry(g) \/ ExtendError(g)
          PROVE FALSE
      BY <3>5 DEF TryAcquireLock, UpdateLockExpiry, ExtendError
    <3>6. ASSUME NEW g \in Holders, IsHeld(g) PROVE g = h
      BY <3>6 DEF IsHeld
    <3> QED
      BY <3>1, <3>2, <3>3, <3>4, <3>5, <3>6 DEF Next
  <2> QED
    BY <2>1 DEF IsHeld, SeenIsCurrent, TypeOK
<1>2. Spec => []SeenIsCurrent
  BY SeenInit, SeenStep, TypeCorrect, PTL DEF Spec
<1> QED
  BY <1>1, <1>2, TypeCorrect, PTL DEF Spec, IsHeldIsTrue
===============================================================================
