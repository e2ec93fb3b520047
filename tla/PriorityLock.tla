---------------------------- MODULE PriorityLock ----------------------------
(***************************************************************************)
(* The priority lock of OS-Lab-4 (prioritylock.c).  acquire_prioritylock   *)
(* and release_prioritylock run under the spin lock lk->lk, so a step is   *)
(* one of their critical sections; sleep() ends one and starts another.    *)
(*                                                                         *)
(* The queue is passed to add_to_pq and pop_from_pq by value: what they do *)
(* to its first link never reaches lk->queue.                              *)
(***************************************************************************)
EXTENDS Integers, FiniteSets, SequencesExt

CONSTANTS Pids,       \* the processes, named by their pids
          MaxLeaked,  \* the pages that kalloc() has for nodes
          MaxKills    \* bound on the calls of kill()

VARIABLES
  locked,   \* lk->locked
  lkpid,    \* lk->pid
  queue,    \* the pids along lk->queue
  leaked,   \* nodes from kalloc() that nothing points to
  lpc,       \* "out", "asleep", "woken", "in"
  chan,     \* what a sleeper waits for: 0 is the lock, n is struct proc of n
  kills,    \* calls of kill() that found their process asleep here
  lpanicked \* panic("Alloc failded") froze the machine

lockVars == <<locked, lkpid, queue, leaked, lpc, chan, kills, lpanicked>>

LockInit ==
  /\ locked = FALSE /\ lkpid = 0
  /\ queue = <<>> /\ leaked = 0
  /\ lpc = [p \in Pids |-> "out"] /\ chan = [p \in Pids |-> 0]
  /\ kills = 0 /\ lpanicked = FALSE

\* add_to_pq: into an existing queue, after its head, in the order of pids.
Insert(q, p) ==
  LET i == 1 + Len(SelectSeq(Tail(q), LAMBDA n : n < p)) IN InsertAt(q, i + 1, p)

\* Faulty variant of Acquire: no test of lk->locked.
Acquire_NoTest(p) ==
  /\ lpc[p] = "out"
  /\ locked' = TRUE /\ lkpid' = p
  /\ lpc' = [lpc EXCEPT ![p] = "in"]
  /\ UNCHANGED <<queue, leaked, chan, kills, lpanicked>>

\* acquire_prioritylock, lock free.
Acquire(p) ==
  /\ lpc[p] = "out" /\ ~locked
  /\ locked' = TRUE /\ lkpid' = p
  /\ lpc' = [lpc EXCEPT ![p] = "in"]
  /\ UNCHANGED <<queue, leaked, chan, kills, lpanicked>>

\* acquire_prioritylock, lock held.  With an empty queue the new node is
\* assigned to the local variable only.
AcquireSleep(p) ==
  /\ lpc[p] = "out" /\ locked /\ leaked + Len(queue) < MaxLeaked
  /\ IF queue = <<>> THEN queue' = queue /\ leaked' = leaked + 1
                     ELSE queue' = Insert(queue, p) /\ leaked' = leaked
  /\ lpc' = [lpc EXCEPT ![p] = "asleep"] /\ chan' = [chan EXCEPT ![p] = 0]
  /\ UNCHANGED <<locked, lkpid, kills, lpanicked>>

\* ... and add_to_pq panics when kalloc() has no page for the node.
AcquirePanic(p) ==
  /\ lpc[p] = "out" /\ locked /\ leaked + Len(queue) >= MaxLeaked
  /\ lpanicked' = TRUE
  /\ UNCHANGED <<locked, lkpid, queue, leaked, lpc, chan, kills>>

\* sleep() returns into the "if": the lock is taken without another look.
AcquireResume(p) ==
  /\ lpc[p] = "woken"
  /\ locked' = TRUE /\ lkpid' = p
  /\ lpc' = [lpc EXCEPT ![p] = "in"]
  /\ UNCHANGED <<queue, leaked, chan, kills, lpanicked>>

\* release_prioritylock: wake the processes sleeping on the popped process.
Release(p) ==
  /\ lpc[p] = "in"
  /\ locked' = FALSE /\ lkpid' = 0
  /\ lpc' = [q \in Pids |->
       IF q = p THEN "out"
       ELSE IF lpc[q] = "asleep" /\ queue # <<>> /\ chan[q] = Head(queue) THEN "woken"
       ELSE lpc[q]]
  /\ UNCHANGED <<queue, leaked, chan, kills, lpanicked>>

\* kill(): the sleeper is made runnable.
KillWaiter(p) ==
  /\ kills < MaxKills /\ kills' = kills + 1
  /\ lpc[p] = "asleep"
  /\ lpc' = [lpc EXCEPT ![p] = "woken"]
  /\ UNCHANGED <<locked, lkpid, queue, leaked, chan, lpanicked>>

LockNext ==
  /\ ~lpanicked
  /\ \E p \in Pids :
       Acquire(p) \/ AcquireSleep(p) \/ AcquirePanic(p) \/ AcquireResume(p) \/ Release(p) \/ KillWaiter(p)

LockSpec == LockInit /\ [][LockNext]_lockVars

-----------------------------------------------------------------------------
\* prioritylock.h: "locked: is the lock held?", "pid: process holding lock".
\* True as long as no waiter is killed: a woken waiter takes the lock whoever
\* holds it, and then one release frees it for all.
LockedWhileHeld == kills = 0 => \A p \in Pids : lpc[p] = "in" => locked /\ lkpid = p
=============================================================================
