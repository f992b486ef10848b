---------------------------- MODULE DistributedLock ----------------------------
(***************************************************************************)
(* The database-backed lease lock of framework/configstore (dlock.go) and  *)
(* the statements its store runs (rdb.go). A holder is one DistributedLock *)
(* object with its own holder ID; several processes contend for one key.   *)
(* The store's statements are atomic; between two of them, and between     *)
(* reading the clock and running a statement, anything may happen: other   *)
(* holders run, time passes, the process crashes. A statement may fail     *)
(* without effect, and may also take effect while its caller sees an error *)
(* (a reply lost to a dropped connection or to the caller's context).      *)
(*                                                                         *)
(* Clocks are synchronised: every process reads now. A configuration       *)
(* without a store (every method returns at once) is not modelled.         *)
(***************************************************************************)
EXTENDS Integers

CONSTANTS
  Holders,       \* DistributedLock objects for the key
  TTL,           \* ttl
  MaxRetries,    \* maxRetries of Lock and LockWithRetry
  MaxTime,       \* bound: time stops here
  StoreMayFail,  \* statements may fail or lose their reply
  NoRow          \* the table has no row for the key

ASSUME ConstantsAssumption ==
  /\ TTL \in Nat \ {0} /\ MaxRetries \in Nat /\ MaxTime \in Nat
  /\ StoreMayFail \in BOOLEAN
  /\ NoRow \notin [holder : Holders, expires : Int]

VARIABLES
  now,       \* time.Now()
  row,       \* the row of the key: holder_id and expires_at
  pc,        \* pc[h]: what the goroutine using h is doing
  tries,     \* tries[h]: i in the loop of Lock
  acquired,  \* acquired[h]: the local flag
  stamp,     \* stamp[h]: the expiry computed for the next statement
  seen,      \* seen[h]: the row IsHeld read
  lease      \* lease[h]: the expiry of the last success h was told of

vars == <<now, row, pc, tries, acquired, stamp, seen, lease>>

Row == [holder : Holders, expires : Int]

TypeOK ==
  /\ now \in 0..MaxTime
  /\ row \in Row \cup {NoRow}
  /\ pc \in [Holders -> {"idle", "cleanup", "stamp", "insert", "wait", "held",
                         "extend", "compare", "unlock", "dead"}]
  /\ tries \in [Holders -> 0..MaxRetries]
  /\ acquired \in [Holders -> BOOLEAN]
  /\ stamp \in [Holders -> Int] /\ lease \in [Holders -> Int]
  /\ seen \in [Holders -> Row \cup {NoRow}]

Init ==
  /\ now = 0 /\ row = NoRow
  /\ pc = [h \in Holders |-> "idle"]
  /\ tries = [h \in Holders |-> 0]
  /\ acquired = [h \in Holders |-> FALSE]
  /\ stamp = [h \in Holders |-> 0] /\ lease = [h \in Holders |-> -1]
  /\ seen = [h \in Holders |-> NoRow]

-----------------------------------------------------------------------------
Goto(h, s) == pc' = [pc EXCEPT ![h] = s]

\* WHERE holder_id = ?
HeldBy(h) == row # NoRow /\ row.holder = h

\* Faulty variant of Expired: an entry is removed at the instant it expires.
ExpiredInclusive == row # NoRow /\ row.expires <= now

\* WHERE expires_at < now
Expired == row # NoRow /\ row.expires < now

\* DELETE of an expired row: CleanupExpiredLockByKey and CleanupExpiredLocks.
DeleteExpired == row' = IF Expired THEN NoRow ELSE row

-----------------------------------------------------------------------------
(* Lock, LockWithRetry and TryLock.                                        *)

LockBegin(h) ==
  /\ pc[h] = "idle" /\ Goto(h, "cleanup")
  /\ tries' = [tries EXCEPT ![h] = 0]
  /\ UNCHANGED <<now, row, acquired, stamp, seen, lease>>

\* The context is done at the head of the loop or while waiting.
LockCancelled(h) ==
  /\ pc[h] \in {"cleanup", "wait"} /\ Goto(h, "idle")
  /\ UNCHANGED <<now, row, tries, acquired, stamp, seen, lease>>

\* cleanupExpiredLock; an error is only logged.
Cleanup(h) ==
  /\ pc[h] = "cleanup" /\ Goto(h, "stamp")
  /\ DeleteExpired \/ (StoreMayFail /\ UNCHANGED row)
  /\ UNCHANGED <<now, tries, acquired, stamp, seen, lease>>

\* ExpiresAt is computed before the insert runs.
TryLockStamp(h) ==
  /\ pc[h] = "stamp" /\ Goto(h, "insert")
  /\ stamp' = [stamp EXCEPT ![h] = now + TTL]
  /\ UNCHANGED <<now, row, tries, acquired, seen, lease>>

\* Faulty variant of InsertAllowed: an upsert instead of DO NOTHING.
InsertAllowedAlways == TRUE

\* INSERT ... ON CONFLICT (lock_key) DO NOTHING affects a row.
InsertAllowed == row = NoRow

TryAcquireLock(h) ==
  /\ pc[h] = "insert" /\ InsertAllowed
  /\ row' = [holder |-> h, expires |-> stamp[h]]
  /\ acquired' = [acquired EXCEPT ![h] = TRUE]
  /\ lease' = [lease EXCEPT ![h] = stamp[h]]
  /\ Goto(h, "held")
  /\ UNCHANGED <<now, tries, stamp, seen>>

\* Faulty variant of MoreTries: one attempt too many.
MoreTriesInclusive(h) == tries[h] <= MaxRetries

\* i < maxRetries
MoreTries(h) == tries[h] < MaxRetries

\* Somebody has the row: another attempt, or ErrLockNotAcquired.
TryAcquireConflict(h) ==
  /\ pc[h] = "insert" /\ ~InsertAllowed
  /\ Goto(h, IF MoreTries(h) THEN "wait" ELSE "idle")
  /\ UNCHANGED <<now, row, tries, acquired, stamp, seen, lease>>

\* The insert fails, or its reply is lost: Lock returns the error either way.
TryAcquireError(h) ==
  /\ StoreMayFail
  /\ pc[h] = "insert" /\ Goto(h, "idle")
  /\ \/ UNCHANGED row
     \/ InsertAllowed /\ row' = [holder |-> h, expires |-> stamp[h]]
  /\ UNCHANGED <<now, tries, acquired, stamp, seen, lease>>

\* time.After(retryInterval)
Retry(h) ==
  /\ pc[h] = "wait" /\ Goto(h, "cleanup")
  /\ tries' = [tries EXCEPT ![h] = @ + 1]
  /\ UNCHANGED <<now, row, acquired, stamp, seen, lease>>

-----------------------------------------------------------------------------
(* Extend.                                                                 *)

ExtendBegin(h) ==
  /\ pc[h] = "held" /\ acquired[h]
  /\ Goto(h, "extend")
  /\ stamp' = [stamp EXCEPT ![h] = now + TTL]
  /\ UNCHANGED <<now, row, tries, acquired, seen, lease>>

\* Faulty variant of ExtendMatches: any holder's row is extended.
ExtendMatchesAny(h) == row # NoRow /\ row.expires > stamp[h] - TTL

\* WHERE holder_id = ? AND expires_at > time.Now(), read with no I/O after the
\* reading of Extend: the two are one.
ExtendMatches(h) == HeldBy(h) /\ row.expires > stamp[h] - TTL

\* UpdateLockExpiry; ErrLockNotHeld clears the local flag.
UpdateLockExpiry(h) ==
  /\ pc[h] = "extend" /\ Goto(h, "held")
  /\ IF ExtendMatches(h)
     THEN /\ row' = [row EXCEPT !.expires = stamp[h]]
          /\ lease' = [lease EXCEPT ![h] = stamp[h]]
          /\ UNCHANGED acquired
     ELSE /\ acquired' = [acquired EXCEPT ![h] = FALSE]
          /\ UNCHANGED <<row, lease>>
  /\ UNCHANGED <<now, tries, stamp, seen>>

\* A transient error leaves the flag alone, whether or not the row was updated.
ExtendError(h) ==
  /\ StoreMayFail
  /\ pc[h] = "extend" /\ Goto(h, "held")
  /\ \/ UNCHANGED row
     \/ ExtendMatches(h) /\ row' = [row EXCEPT !.expires = stamp[h]]
  /\ UNCHANGED <<now, tries, acquired, stamp, seen, lease>>

-----------------------------------------------------------------------------
(* IsHeld: the row is read, then compared with the clock. A failed read    *)
(* changes nothing.                                                        *)

GetLock(h) ==
  /\ pc[h] = "held" /\ acquired[h]
  /\ Goto(h, "compare")
  /\ seen' = [seen EXCEPT ![h] = row]
  /\ UNCHANGED <<now, row, tries, acquired, stamp, lease>>

\* HolderID matches and now is not After ExpiresAt.
Fresh(h) == seen[h] # NoRow /\ seen[h].holder = h /\ now <= seen[h].expires

IsHeld(h) ==
  /\ pc[h] = "compare" /\ Goto(h, "held")
  /\ acquired' = [acquired EXCEPT ![h] = Fresh(h)]
  /\ seen' = [seen EXCEPT ![h] = NoRow]
  /\ UNCHANGED <<now, row, tries, stamp, lease>>

-----------------------------------------------------------------------------
(* Unlock.                                                                 *)

\* The critical section is over. Without the local flag: ErrLockNotHeld.
UnlockBegin(h) ==
  /\ pc[h] = "held" /\ Goto(h, IF acquired[h] THEN "unlock" ELSE "idle")
  /\ UNCHANGED <<now, row, tries, acquired, stamp, seen, lease>>

\* Faulty variant of ReleaseMatches: the row is deleted by its key alone.
ReleaseMatchesKey(h) == row # NoRow

\* DELETE ... WHERE lock_key = ? AND holder_id = ?, expired or not.
ReleaseMatches(h) == HeldBy(h)

ReleaseLock(h) ==
  /\ pc[h] = "unlock" /\ Goto(h, "idle")
  /\ row' = IF ReleaseMatches(h) THEN NoRow ELSE row
  /\ acquired' = [acquired EXCEPT ![h] = FALSE]
  /\ UNCHANGED <<now, tries, stamp, seen, lease>>

\* Unlock returns an error and keeps the flag; the row may be gone or not.
ReleaseError(h) ==
  /\ StoreMayFail
  /\ pc[h] = "unlock" /\ Goto(h, "idle")
  /\ row' = row \/ (ReleaseMatches(h) /\ row' = NoRow)
  /\ UNCHANGED <<now, tries, acquired, stamp, seen, lease>>

-----------------------------------------------------------------------------
(* The environment.                                                        *)

\* CleanupExpiredLocks of a manager, by any process.
CleanupExpiredLocks ==
  /\ DeleteExpired /\ row' # row
  /\ UNCHANGED <<now, pc, tries, acquired, stamp, seen, lease>>

\* The process dies; its row stays until it expires.
Crash(h) ==
  /\ pc[h] # "dead" /\ Goto(h, "dead")
  /\ UNCHANGED <<now, row, tries, acquired, stamp, seen, lease>>

Tick ==
  /\ now < MaxTime /\ now' = now + 1
  /\ UNCHANGED <<row, pc, tries, acquired, stamp, seen, lease>>

Next ==
  \/ Tick \/ CleanupExpiredLocks
  \/ \E h \in Holders :
       \/ LockBegin(h) \/ LockCancelled(h) \/ Cleanup(h) \/ TryLockStamp(h)
       \/ TryAcquireLock(h) \/ TryAcquireConflict(h) \/ TryAcquireError(h)
       \/ Retry(h) \/ ExtendBegin(h) \/ UpdateLockExpiry(h) \/ ExtendError(h)
       \/ GetLock(h) \/ IsHeld(h)
       \/ UnlockBegin(h) \/ ReleaseLock(h) \/ ReleaseError(h) \/ Crash(h)

Spec == Init /\ [][Next]_vars

-----------------------------------------------------------------------------
(* Properties.                                                             *)

\* The caller is between a successful Lock and its Unlock.
Holding(h) == pc[h] \in {"held", "extend", "compare"}

\* h holds the lock and the lease it was last granted has not run out.
Leased(h) == Holding(h) /\ now <= lease[h]

\* Two callers are never inside at once while both leases run, whatever fails:
\* the startup resets of governance and the pricing sync exclude each other for
\* as long as they finish within the TTL. (A caller that outlives its lease,
\* since nothing in the code calls Extend, is not excluded.)
LeaseIsExclusive == \A g, h \in Holders : Leased(g) /\ Leased(h) => g = h

\* The row of a lock that has not expired changes only by its own holder's
\* Extend or Unlock: not by the Unlock of a previous holder that was late, nor
\* by anybody's cleanup.
LiveRowIsItsHolders ==
  [][row # NoRow /\ now <= row.expires /\ row' # row
       => pc[row.holder] \in {"extend", "unlock"}]_vars

\* When IsHeld answers true the row is still there and still the caller's, even
\* though the row it compares was read earlier.
IsHeldIsTrue ==
  [][\A h \in Holders :
       pc[h] = "compare" /\ pc'[h] = "held" /\ acquired'[h] => HeldBy(h)]_vars

\* The inductive invariant behind LeaseIsExclusive: a running lease is covered
\* by the caller's row, also after an Extend whose reply was lost.
LeaseIsCovered ==
  \A h \in Holders :
    /\ lease[h] <= now + TTL /\ stamp[h] <= now + TTL
    /\ pc[h] = "extend" => lease[h] <= stamp[h]
    /\ Leased(h) => HeldBy(h) /\ lease[h] <= row.expires

===============================================================================
