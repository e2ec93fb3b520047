----------------------------- MODULE SleepLock -----------------------------
(***************************************************************************)
(* Sleep locks (sleeplock.c) over sleep() and wakeup() (proc.c), in the    *)
(* grain that decides whether a wakeup is lost: the spin lock lk->lk that  *)
(* guards the condition, ptable.lock that guards the process state, and    *)
(* the order in which sleep() takes the second and gives up the first.     *)
(*                                                                         *)
(* pc names the point a process has reached; a step runs to the next point *)
(* at which another process can interfere.                                 *)
(***************************************************************************)
EXTENDS Integers, FiniteSets

CONSTANTS Procs, None, MaxKills   \* MaxKills: bound on the calls of kill()

ASSUME SleepLockConstants == None \notin Procs /\ MaxKills \in Nat

VARIABLES
  lk,       \* holder of the spin lock lk->lk
  ptlock,   \* holder of ptable.lock
  locked,   \* lk->locked
  lkpid,    \* lk->pid
  pc,
  kills

vars == <<lk, ptlock, locked, lkpid, pc, kills>>

\* Points at which a process holds the sleep lock, lk->lk, ptable.lock.
Owning == {"in", "rel", "clear"}
HoldsLk == {"test", "sleep1", "sleep2", "clear", "wake", "wakeall", "done"}
HoldsPt == {"sleep2", "sleep3", "tidy", "wakeall"}
PCs == {"out", "acq", "asleep", "runnable"} \cup Owning \cup HoldsLk \cup HoldsPt

Move(p, from, to) == pc[p] = from /\ pc' = [pc EXCEPT ![p] = to]

Init ==
  /\ lk = None /\ ptlock = None
  /\ locked = FALSE /\ lkpid = None
  /\ pc = [p \in Procs |-> "out"]
  /\ kills = 0

-----------------------------------------------------------------------------
\* acquiresleep is called.
Call(p) == Move(p, "out", "acq") /\ UNCHANGED <<lk, ptlock, locked, lkpid, kills>>

\* acquire(&lk->lk), on entry and again when sleep() returns.
AcquireLk(p) ==
  /\ lk = None /\ lk' = p
  /\ Move(p, "acq", "test")
  /\ UNCHANGED <<ptlock, locked, lkpid, kills>>

\* Faulty variants of Take: without the loop test; without lk->pid.
Take_NoTest(p) ==
  /\ Move(p, "test", "in")
  /\ locked' = TRUE /\ lkpid' = p /\ lk' = None
  /\ UNCHANGED <<ptlock, kills>>

Take_NoPid(p) ==
  /\ ~locked
  /\ Move(p, "test", "in")
  /\ locked' = TRUE /\ lk' = None
  /\ UNCHANGED <<lkpid, ptlock, kills>>

\* The loop test fails: take the sleep lock and release lk->lk.
Take(p) ==
  /\ ~locked
  /\ Move(p, "test", "in")
  /\ locked' = TRUE /\ lkpid' = p /\ lk' = None
  /\ UNCHANGED <<ptlock, kills>>

\* Faulty variant of Wait: sleep() gives up lk before it has ptable.lock.
Wait_EarlyRelease(p) == locked /\ Move(p, "test", "sleep1") /\ lk' = None /\ UNCHANGED <<ptlock, locked, lkpid, kills>>

\* The loop test succeeds: sleep(lk, &lk->lk).
Wait(p) == locked /\ Move(p, "test", "sleep1") /\ UNCHANGED <<lk, ptlock, locked, lkpid, kills>>

\* sleep(): acquire(&ptable.lock) ...
SleepAcquire(p) ==
  /\ ptlock = None /\ ptlock' = p
  /\ Move(p, "sleep1", "sleep2")
  /\ UNCHANGED <<lk, locked, lkpid, kills>>

\* ... then release(lk) ...
SleepRelease(p) ==
  /\ Move(p, "sleep2", "sleep3")
  /\ lk' = None
  /\ UNCHANGED <<ptlock, locked, lkpid, kills>>

\* ... then SLEEPING and sched(), whose scheduler gives up ptable.lock.
SleepSched(p) ==
  /\ Move(p, "sleep3", "asleep")
  /\ ptlock' = None
  /\ UNCHANGED <<lk, locked, lkpid, kills>>

\* The scheduler takes ptable.lock and switches back into sleep().
Resume(p) ==
  /\ ptlock = None /\ ptlock' = p
  /\ Move(p, "runnable", "tidy")
  /\ UNCHANGED <<lk, locked, lkpid, kills>>

\* The end of sleep(): release(&ptable.lock), acquire(lk).
SleepReturn(p) ==
  /\ Move(p, "tidy", "acq")
  /\ ptlock' = None
  /\ UNCHANGED <<lk, locked, lkpid, kills>>

-----------------------------------------------------------------------------
\* The owner calls releasesleep.
CallRelease(p) == Move(p, "in", "rel") /\ UNCHANGED <<lk, ptlock, locked, lkpid, kills>>

ReleaseLk(p) ==
  /\ lk = None /\ lk' = p
  /\ Move(p, "rel", "clear")
  /\ UNCHANGED <<ptlock, locked, lkpid, kills>>

\* Faulty variant of Clear: releasesleep forgets wakeup(lk).
Clear_NoWakeup(p) ==
  /\ Move(p, "clear", "done")
  /\ locked' = FALSE /\ lkpid' = None
  /\ UNCHANGED <<lk, ptlock, kills>>

Clear(p) ==
  /\ Move(p, "clear", "wake")
  /\ locked' = FALSE /\ lkpid' = None
  /\ UNCHANGED <<lk, ptlock, kills>>

\* wakeup(lk): acquire(&ptable.lock), wakeup1, release(&ptable.lock).
WakeAcquire(p) ==
  /\ ptlock = None /\ ptlock' = p
  /\ Move(p, "wake", "wakeall")
  /\ UNCHANGED <<lk, locked, lkpid, kills>>

WakeAll(p) ==
  /\ pc[p] = "wakeall"
  /\ pc' = [q \in Procs |-> IF q = p THEN "done"
                            ELSE IF pc[q] = "asleep" THEN "runnable" ELSE pc[q]]
  /\ ptlock' = None
  /\ UNCHANGED <<lk, locked, lkpid, kills>>

Done(p) ==
  /\ Move(p, "done", "out")
  /\ lk' = None
  /\ UNCHANGED <<ptlock, locked, lkpid, kills>>

-----------------------------------------------------------------------------
\* kill() by somebody else: the sleeper is made runnable, lock or no lock.
Kill(p) ==
  /\ kills < MaxKills /\ kills' = kills + 1
  /\ ptlock = None
  /\ Move(p, "asleep", "runnable")
  /\ UNCHANGED <<lk, ptlock, locked, lkpid>>

AcquireSleep(p) ==
  \/ AcquireLk(p) \/ Take(p) \/ Wait(p)
  \/ SleepAcquire(p) \/ SleepRelease(p) \/ SleepSched(p) \/ Resume(p) \/ SleepReturn(p)

ReleaseSleep(p) ==
  \/ CallRelease(p) \/ ReleaseLk(p) \/ Clear(p)
  \/ WakeAcquire(p) \/ WakeAll(p) \/ Done(p)

Next == \E p \in Procs : Call(p) \/ AcquireSleep(p) \/ ReleaseSleep(p) \/ Kill(p)

Spec == Init /\ [][Next]_vars

\* Every started call keeps running and the owner lets go in the end.  The
\* spin locks are not fair: only weak fairness.
Fairness == \A p \in Procs : WF_vars(AcquireSleep(p)) /\ WF_vars(ReleaseSleep(p))

LiveSpec == Spec /\ Fairness

-----------------------------------------------------------------------------
\* Types.
TypeOK ==
  /\ lk \in Procs \cup {None} /\ ptlock \in Procs \cup {None}
  /\ locked \in BOOLEAN /\ lkpid \in Procs \cup {None}
  /\ pc \in [Procs -> PCs]
  /\ kills \in Nat

\* holdingsleep() tells the truth: lk->locked and lk->pid name the process
\* between acquiresleep and releasesleep, the only one.
HolderRecorded ==
  \A p \in Procs : pc[p] \in Owning <=> locked /\ lkpid = p

\* No wakeup is lost: whoever is asleep sleeps on a held lock, or its releaser
\* has yet to call wakeup.
NoLostWakeup ==
  (\E p \in Procs : pc[p] = "asleep") =>
     locked \/ \E q \in Procs : pc[q] \in {"wake", "wakeall"}

\* A spin lock has one holder, and it is given up on every path through sleep()
\* and wakeup(): its owner is the process that is at a point between acquire
\* and release.
SpinLocks ==
  \A p \in Procs : /\ pc[p] \in HoldsLk <=> lk = p
                   /\ pc[p] \in HoldsPt <=> ptlock = p

Owner == IF locked THEN lkpid ELSE None

M == INSTANCE Mutex WITH owner <- Owner

\* A sleep lock is a lock: the abstract mutex is implemented.
ImplementsMutex == M!Spec

\* A process asleep on the lock is woken.
SleeperWakes == \A p \in Procs : pc[p] = "asleep" ~> pc[p] # "asleep"
=============================================================================
