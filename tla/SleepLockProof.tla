--------------------------- MODULE SleepLockProof ---------------------------
(***************************************************************************)
(* Theorems about sleep locks, for any number of processes and of kills.   *)
(*                                                                         *)
(* The inductive invariant adds to the invariants of SleepLock what is     *)
(* known of a process on its way into sleep(): before ptable.lock is taken *)
(* it still holds lk->lk, so the lock is held; once it holds ptable.lock,  *)
(* a releaser may have cleared the lock but cannot have finished wakeup(). *)
(***************************************************************************)
EXTENDS SleepLock, TLAPS

\* Before lk->lk is given up nobody can clear the lock.
EnteringSleep == \A p \in Procs : pc[p] \in {"sleep1", "sleep2"} => locked

\* While ptable.lock is held the releaser stands before wakeup1.
AboutToSleep ==
  \A p \in Procs : pc[p] = "sleep3" => locked \/ \E q \in Procs : pc[q] = "wake"

LockInv == TypeOK /\ SpinLocks /\ HolderRecorded

WakeInv == NoLostWakeup /\ EnteringSleep /\ AboutToSleep

LEMMA InitLockInv == Init => LockInv
<1> SUFFICES ASSUME Init PROVE LockInv
  OBVIOUS
<1>1. TypeOK
  BY DEF Init, TypeOK, PCs
<1>2. ASSUME NEW p \in Procs PROVE pc[p] = "out" /\ lk # p /\ ptlock # p /\ ~locked
  BY SleepLockConstants DEF Init
<1>3. SpinLocks /\ HolderRecorded
  BY <1>2, Zenon DEF SpinLocks, HolderRecorded, Owning, HoldsLk, HoldsPt
<1> QED
  BY <1>1, <1>3 DEF LockInv

\* Every step keeps the types, the owners of the spin locks and the owner of
\* the sleep lock.
LEMMA StepLockInv == LockInv /\ [Next]_vars => LockInv'
<1> SUFFICES ASSUME LockInv, [Next]_vars PROVE LockInv'
  OBVIOUS
<1> USE SleepLockConstants DEF LockInv, TypeOK, SpinLocks, HolderRecorded, Move,
                               PCs, Owning, HoldsLk, HoldsPt
<1>1. CASE UNCHANGED vars
  BY <1>1 DEF vars
<1>2. ASSUME NEW p \in Procs, Call(p) PROVE LockInv'
  BY <1>2 DEF Call
<1>3. ASSUME NEW p \in Procs, AcquireLk(p) PROVE LockInv'
  BY <1>3 DEF AcquireLk
<1>4. ASSUME NEW p \in Procs, Take(p) PROVE LockInv'
  BY <1>4 DEF Take
<1>5. ASSUME NEW p \in Procs, Wait(p) PROVE LockInv'
  BY <1>5 DEF Wait
<1>6. ASSUME NEW p \in Procs, SleepAcquire(p) PROVE LockInv'
  BY <1>6 DEF SleepAcquire
<1>7. ASSUME NEW p \in Procs, SleepRelease(p) PROVE LockInv'
  BY <1>7 DEF SleepRelease
<1>8. ASSUME NEW p \in Procs, SleepSched(p) PROVE LockInv'
  BY <1>8 DEF SleepSched
<1>9. ASSUME NEW p \in Procs, Resume(p) PROVE LockInv'
  BY <1>9 DEF Resume
<1>10. ASSUME NEW p \in Procs, SleepReturn(p) PROVE LockInv'
  BY <1>10 DEF SleepReturn
<1>11. ASSUME NEW p \in Procs, CallRelease(p) PROVE LockInv'
  BY <1>11 DEF CallRelease
<1>12. ASSUME NEW p \in Procs, ReleaseLk(p) PROVE LockInv'
  BY <1>12 DEF ReleaseLk
<1>13. ASSUME NEW p \in Procs, Clear(p) PROVE LockInv'
  BY <1>13 DEF Clear
<1>14. ASSUME NEW p \in Procs, WakeAcquire(p) PROVE LockInv'
  BY <1>14 DEF WakeAcquire
<1>15. ASSUME NEW p \in Procs, WakeAll(p) PROVE LockInv'
  BY <1>15 DEF WakeAll
<1>16. ASSUME NEW p \in Procs, Done(p) PROVE LockInv'
  BY <1>16 DEF Done
<1>17. ASSUME NEW p \in Procs, Kill(p) PROVE LockInv'
  BY <1>17 DEF Kill
<1>18. QED
  BY <1>1, <1>2, <1>3, <1>4, <1>5, <1>6, <1>7, <1>8, <1>9, <1>10, <1>11, <1>12,
     <1>13, <1>14, <1>15, <1>16, <1>17
     DEF Next, AcquireSleep, ReleaseSleep

\* Every step keeps the facts about sleepers, given the owners of the locks.
LEMMA StepWakeInv == LockInv /\ WakeInv /\ [Next]_vars => WakeInv'
<1> SUFFICES ASSUME LockInv, WakeInv, [Next]_vars PROVE WakeInv'
  OBVIOUS
<1> USE SleepLockConstants DEF LockInv, TypeOK, SpinLocks, HolderRecorded, WakeInv,
      NoLostWakeup, EnteringSleep, AboutToSleep, Move, PCs, Owning, HoldsLk, HoldsPt
<1>1. CASE UNCHANGED vars
  BY <1>1 DEF vars
<1>2. ASSUME NEW p \in Procs, Call(p) PROVE WakeInv'
  BY <1>2 DEF Call
<1>3. ASSUME NEW p \in Procs, AcquireLk(p) PROVE WakeInv'
  BY <1>3 DEF AcquireLk
<1>4. ASSUME NEW p \in Procs, Take(p) PROVE WakeInv'
  BY <1>4 DEF Take
<1>5. ASSUME NEW p \in Procs, Wait(p) PROVE WakeInv'
  BY <1>5 DEF Wait
<1>6. ASSUME NEW p \in Procs, SleepAcquire(p) PROVE WakeInv'
  BY <1>6 DEF SleepAcquire
<1>7. ASSUME NEW p \in Procs, SleepRelease(p) PROVE WakeInv'
  BY <1>7 DEF SleepRelease
<1>8. ASSUME NEW p \in Procs, SleepSched(p) PROVE WakeInv'
  BY <1>8 DEF SleepSched
<1>9. ASSUME NEW p \in Procs, Resume(p) PROVE WakeInv'
  BY <1>9 DEF Resume
<1>10. ASSUME NEW p \in Procs, SleepReturn(p) PROVE WakeInv'
  BY <1>10 DEF SleepReturn
<1>11. ASSUME NEW p \in Procs, CallRelease(p) PROVE WakeInv'
  BY <1>11 DEF CallRelease
<1>12. ASSUME NEW p \in Procs, ReleaseLk(p) PROVE WakeInv'
  BY <1>12 DEF ReleaseLk
<1>13. ASSUME NEW p \in Procs, Clear(p) PROVE WakeInv'
  BY <1>13 DEF Clear
<1>14. ASSUME NEW p \in Procs, WakeAcquire(p) PROVE WakeInv'
  BY <1>14 DEF WakeAcquire
<1>15. ASSUME NEW p \in Procs, WakeAll(p) PROVE WakeInv'
  BY <1>15 DEF WakeAll
<1>16. ASSUME NEW p \in Procs, Done(p) PROVE WakeInv'
  BY <1>16 DEF Done
<1>17. ASSUME NEW p \in Procs, Kill(p) PROVE WakeInv'
  BY <1>17 DEF Kill
<1>18. QED
  BY <1>1, <1>2, <1>3, <1>4, <1>5, <1>6, <1>7, <1>8, <1>9, <1>10, <1>11, <1>12,
     <1>13, <1>14, <1>15, <1>16, <1>17
     DEF Next, AcquireSleep, ReleaseSleep

\* sleeplock.c with proc.c:sleep and wakeup: the spin locks are held where the
\* code says, and lk->locked with lk->pid name the one process between
\* acquiresleep and releasesleep.
THEOREM SleepLockExclusive == Spec => [](SpinLocks /\ HolderRecorded)
<1>1. Spec => []LockInv
  BY InitLockInv, StepLockInv, PTL DEF Spec
<1>2. LockInv => SpinLocks /\ HolderRecorded
  BY DEF LockInv
<1> QED
  BY <1>1, <1>2, PTL

\* The order in which sleep() takes ptable.lock and gives up lk->lk: no wakeup
\* is lost.
THEOREM SleepLockNoLostWakeup == Spec => []NoLostWakeup
<1>1. Spec => []LockInv
  BY InitLockInv, StepLockInv, PTL DEF Spec
<1>2. Init => WakeInv
  BY DEF Init, WakeInv, NoLostWakeup, EnteringSleep, AboutToSleep
<1>3. WakeInv => NoLostWakeup
  BY DEF WakeInv
<1> QED
  BY <1>1, <1>2, <1>3, StepWakeInv, PTL DEF Spec

\* A sleep lock implements the abstract mutex.
THEOREM SleepLockIsMutex == Spec => ImplementsMutex
<1>1. Init => M!Init
  BY DEF Init, M!Init, Owner
<1>2. LockInv /\ [Next]_vars => [M!Next]_Owner
  <2> SUFFICES ASSUME LockInv, [Next]_vars PROVE [M!Next]_Owner
    OBVIOUS
  <2>1. ASSUME NEW p \in Procs, Take(p) PROVE M!Acquire(p)
    BY <2>1 DEF Take, Move, M!Acquire, Owner
  <2>2. ASSUME NEW p \in Procs, Clear(p) PROVE M!Release(p)
    BY <2>2 DEF Clear, Move, M!Release, Owner, LockInv, HolderRecorded, Owning
  <2>3. CASE UNCHANGED <<locked, lkpid>>
    BY <2>3 DEF Owner
  <2>4. \/ \E p \in Procs : Take(p) \/ Clear(p)
        \/ UNCHANGED <<locked, lkpid>>
    BY DEF Next, AcquireSleep, ReleaseSleep, vars, Call, AcquireLk, Wait, SleepAcquire,
           SleepRelease, SleepSched, Resume, SleepReturn, CallRelease, ReleaseLk,
           WakeAcquire, WakeAll, Done, Kill
  <2> QED
    BY <2>1, <2>2, <2>3, <2>4 DEF M!Next
<1>3. Spec => []LockInv
  BY InitLockInv, StepLockInv, PTL DEF Spec
<1> QED
  BY <1>1, <1>2, <1>3, PTL DEF Spec, ImplementsMutex, M!Spec
=============================================================================
