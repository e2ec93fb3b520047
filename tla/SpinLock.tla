------------------------------ MODULE SpinLock ------------------------------
(***************************************************************************)
(* Spin locks and the nesting of cli (spinlock.c) on several processors,   *)
(* with the timer interrupt, the switch between a process and its          *)
(* processor's scheduler, and the system call counters of OS-Lab-4.        *)
(*                                                                         *)
(* todo[t] is what thread t has still to execute: a call puts the steps of *)
(* the function in front, an interrupt those of its handler.  A thread is  *)
(* a process or the scheduler of a processor, named by the processor.      *)
(*                                                                         *)
(* What no other processor sees, with interrupts off, joins the step next  *)
(* to it: popcli() the store of release(), the panics the step they guard. *)
(* myproc() and holding() push and pop around a read; they change nothing  *)
(* but intena, which the next outermost pushcli() assigns again.           *)
(***************************************************************************)
EXTENDS Integers, Sequences, FiniteSetsExt

CONSTANTS Cpus, Boot,  \* Boot: the processor that keeps the time
          None,        \* no processor
          NPROC,       \* processes 1..NPROC
          MaxCalls,    \* bound on the system calls
          TickWrap     \* bound on ticks, a uint

VARIABLES
  held, holder,   \* lk->locked and lk->cpu of each lock
  iflag,          \* FL_IF of each processor
  ncli, intena,   \* of each struct cpu
  on,             \* the thread a processor executes
  state,          \* p->state
  todo,
  ticks,
  counter,        \* syscallCoutnerAll, and syscall_counter of each struct cpu
  calls,          \* system calls made
  panicked

vars == <<held, holder, iflag, ncli, intena, on, state, todo, ticks, counter, calls, panicked>>

Proc == 1..NPROC
Thread == Cpus \cup Proc
Locks == {"ptable", "time", "all", "each"}

Acquire(l) == << <<"pushcli", l>>, <<"xchg", l>>, <<"own", l>> >>
Release(l) == << <<"disown", l>>, <<"unlock", l>> >>
Yield == Acquire("ptable") \o << <<"sched", "RUNNABLE">> >> \o Release("ptable")

\* sleep(&ticks, &tickslock): the locks are not released in reverse order.
Sleep == Acquire("ptable") \o Release("time") \o << <<"sched", "SLEEPING">> >>
         \o Release("ptable") \o Acquire("time")

SysSleep == Acquire("time") \o << <<"ticks0">> >> \o Release("time")

\* The T_SYSCALL branch of trap(), around the call itself.
Syscall(body) ==
  body \o Acquire("all") \o << <<"load", "all">> >> \o Release("all")
       \o Acquire("each") \o << <<"mycpu">> >> \o Release("each") \o << <<"iret", "call">> >>

\* trap() for the timer, on c in thread t.  Interrupts reach a process only
\* while it is RUNNING.
Timer(c, t) ==
  (IF c = Boot THEN Acquire("time") \o << <<"tick">> >> \o Acquire("ptable")
                    \o << <<"wakeup">> >> \o Release("ptable") \o Release("time")
               ELSE <<>>)
  \o (IF t \in Proc THEN Yield ELSE <<>>) \o << <<"iret", "timer">> >>

\* A new process starts here, with ptable.lock from the scheduler.
Forkret == Release("ptable") \o << <<"iret", "fork">> >>

Init ==
  /\ held = [l \in Locks |-> FALSE] /\ holder = [l \in Locks |-> None]
  /\ iflag = [c \in Cpus |-> FALSE]
  /\ ncli = [c \in Cpus |-> 0] /\ intena = [c \in Cpus |-> FALSE]
  /\ on = [c \in Cpus |-> c]
  /\ state = [p \in Proc |-> "RUNNABLE"]
  /\ todo = [t \in Thread |-> IF t \in Cpus THEN <<>> ELSE Forkret]
  /\ ticks = 0
  /\ counter = [k \in Cpus \cup {"all"} |-> 0] /\ calls = 0
  /\ panicked = FALSE

\* The next step of the thread on c is op; steps take its place.
At(c, op) == ~panicked /\ todo[on[c]] # <<>> /\ Head(todo[on[c]])[1] = op
Arg(c) == Head(todo[on[c]])[2]
Become(c, steps) == todo' = [todo EXCEPT ![on[c]] = steps \o Tail(@)]
Done(c) == Become(c, <<>>)

Holding(c, l) == held[l] /\ holder[l] = c

locks == <<held, holder>>
cli == <<iflag, ncli, intena>>
procs == <<on, state>>
counts == <<ticks, counter, calls>>

-----------------------------------------------------------------------------
\* acquire(): pushcli() and the panic of a lock that is already held here ...
Pushcli(c) ==
  /\ At(c, "pushcli")
  /\ intena' = IF ncli[c] = 0 THEN [intena EXCEPT ![c] = iflag[c]] ELSE intena
  /\ iflag' = [iflag EXCEPT ![c] = FALSE]
  /\ ncli' = [ncli EXCEPT ![c] = @ + 1]
  /\ panicked' = Holding(c, Arg(c))
  /\ Done(c)
  /\ UNCHANGED <<locks, procs, counts>>

\* ... the exchange that finds it free ...
Xchg(c) ==
  /\ At(c, "xchg") /\ ~held[Arg(c)]
  /\ held' = [held EXCEPT ![Arg(c)] = TRUE]
  /\ Done(c)
  /\ UNCHANGED <<holder, cli, procs, counts, panicked>>

\* ... and the record of the holder.
Own(c) ==
  /\ At(c, "own")
  /\ holder' = [holder EXCEPT ![Arg(c)] = c]
  /\ Done(c)
  /\ UNCHANGED <<held, cli, procs, counts, panicked>>

\* Faulty variant of Disown: lk->cpu keeps its value.
Disown_Stale(c) ==
  /\ At(c, "disown")
  /\ panicked' = ~Holding(c, Arg(c))
  /\ Done(c)
  /\ UNCHANGED <<held, holder, cli, procs, counts>>

\* release(): the test and the record ...
Disown(c) ==
  /\ At(c, "disown")
  /\ panicked' = ~Holding(c, Arg(c))
  /\ holder' = [holder EXCEPT ![Arg(c)] = None]
  /\ Done(c)
  /\ UNCHANGED <<held, cli, procs, counts>>

\* ... and the store, then popcli() with its panics.
Unlock(c) ==
  /\ At(c, "unlock")
  /\ held' = [held EXCEPT ![Arg(c)] = FALSE]
  /\ panicked' = (iflag[c] \/ ncli[c] = 0)
  /\ ncli' = [ncli EXCEPT ![c] = @ - 1]
  /\ iflag' = [iflag EXCEPT ![c] = ncli[c] = 1 /\ intena[c]]
  /\ Done(c)
  /\ UNCHANGED <<holder, intena, procs, counts>>

-----------------------------------------------------------------------------
\* scheduler(): another round, from sti().
Schedule(c) ==
  /\ ~panicked /\ on[c] = c /\ todo[c] = <<>>
  /\ iflag' = [iflag EXCEPT ![c] = TRUE]
  /\ todo' = [todo EXCEPT ![c] = Acquire("ptable") \o << <<"scan", 1>> >> \o Release("ptable")]
  /\ UNCHANGED <<locks, ncli, intena, procs, counts, panicked>>

\* The next RUNNABLE process runs, from where it called sched() or in forkret().
Pick(c) ==
  /\ At(c, "scan")
  /\ \E p \in Arg(c)..NPROC :
       /\ state[p] = "RUNNABLE" /\ \A q \in Arg(c)..p-1 : state[q] # "RUNNABLE"
       /\ state' = [state EXCEPT ![p] = "RUNNING"]
       /\ on' = [on EXCEPT ![c] = p]
       /\ Become(c, << <<"scan", p + 1>> >>)
  /\ UNCHANGED <<locks, cli, counts, panicked>>

EndScan(c) ==
  /\ At(c, "scan")
  /\ \A q \in Arg(c)..NPROC : state[q] # "RUNNABLE"
  /\ Done(c)
  /\ UNCHANGED <<locks, cli, procs, counts, panicked>>

\* p->state is assigned and sched() called: its panics, then the switch;
\* intena waits in a local variable.
Sched(c) ==
  /\ At(c, "sched")
  /\ state' = [state EXCEPT ![on[c]] = Arg(c)]
  /\ panicked' = (~Holding(c, "ptable") \/ ncli[c] # 1 \/ iflag[c])
  /\ on' = [on EXCEPT ![c] = c]
  /\ Become(c, << <<"restore", intena[c]>> >>)
  /\ UNCHANGED <<locks, cli, counts>>

\* Faulty variant of Restore: intena stays what it is on this processor.
Restore_Lost(c) == At(c, "restore") /\ Done(c) /\ UNCHANGED <<locks, cli, procs, counts, panicked>>

\* sched() returns, on whichever processor picked the process.
Restore(c) ==
  /\ At(c, "restore")
  /\ intena' = [intena EXCEPT ![c] = Arg(c)]
  /\ Done(c)
  /\ UNCHANGED <<locks, iflag, ncli, procs, counts, panicked>>

-----------------------------------------------------------------------------
\* A process enters the kernel, through a trap gate, which leaves FL_IF alone.
TrapSyscall(c) ==
  /\ ~panicked /\ on[c] \in Proc /\ todo[on[c]] = <<>>
  /\ calls < MaxCalls /\ calls' = calls + 1
  /\ \E body \in {<<>>, SysSleep} : todo' = [todo EXCEPT ![on[c]] = Syscall(body)]
  /\ UNCHANGED <<locks, cli, procs, ticks, counter, panicked>>

\* The timer interrupts, through an interrupt gate, which clears FL_IF.
TrapTimer(c) ==
  /\ ~panicked /\ iflag[c]
  /\ iflag' = [iflag EXCEPT ![c] = FALSE]
  /\ todo' = [todo EXCEPT ![on[c]] = Timer(c, on[c]) \o @]
  /\ UNCHANGED <<locks, ncli, intena, procs, counts, panicked>>

\* The return to where interrupts were on; for a new process, to user mode.
Iret(c) ==
  /\ At(c, "iret")
  /\ iflag' = [iflag EXCEPT ![c] = TRUE]
  /\ Done(c)
  /\ UNCHANGED <<locks, ncli, intena, procs, counts, panicked>>

Tick(c) ==
  /\ At(c, "tick")
  /\ ticks' = (ticks + 1) % TickWrap
  /\ Done(c)
  /\ UNCHANGED <<locks, cli, procs, counter, calls, panicked>>

\* wakeup1(&ticks).
Wakeup(c) ==
  /\ At(c, "wakeup")
  /\ state' = [p \in Proc |-> IF state[p] = "SLEEPING" THEN "RUNNABLE" ELSE state[p]]
  /\ Done(c)
  /\ UNCHANGED <<locks, cli, on, counts, panicked>>

\* sys_sleep(1): the time is read, then the loop.
ReadTicks(c) ==
  /\ At(c, "ticks0")
  /\ Become(c, << <<"while", ticks>> >>)
  /\ UNCHANGED <<locks, cli, procs, counts, panicked>>

While(c) ==
  /\ At(c, "while")
  /\ Become(c, IF ticks = Arg(c) THEN Sleep \o << <<"while", Arg(c)>> >> ELSE <<>>)
  /\ UNCHANGED <<locks, cli, procs, counts, panicked>>

\* The increments of the counters, the second of the struct cpu of mycpu().
Mycpu(c) ==
  /\ At(c, "mycpu")
  /\ panicked' = iflag[c]
  /\ Become(c, << <<"load", c>> >>)
  /\ UNCHANGED <<locks, cli, procs, counts>>

Load(c) ==
  /\ At(c, "load")
  /\ Become(c, << <<"store", Arg(c), counter[Arg(c)] + 1>> >>)
  /\ UNCHANGED <<locks, cli, procs, counts, panicked>>

Store(c) ==
  /\ At(c, "store")
  /\ counter' = [counter EXCEPT ![Arg(c)] = Head(todo[on[c]])[3]]
  /\ Done(c)
  /\ UNCHANGED <<locks, cli, procs, ticks, calls, panicked>>

-----------------------------------------------------------------------------
Next == \E c \in Cpus :
  \/ Pushcli(c) \/ Xchg(c) \/ Own(c) \/ Disown(c) \/ Unlock(c)
  \/ Schedule(c) \/ Pick(c) \/ EndScan(c) \/ Sched(c) \/ Restore(c)
  \/ TrapSyscall(c) \/ TrapTimer(c) \/ Iret(c)
  \/ Tick(c) \/ Wakeup(c) \/ ReadTicks(c) \/ While(c)
  \/ Mycpu(c) \/ Load(c) \/ Store(c)

Spec == Init /\ [][Next]_vars

-----------------------------------------------------------------------------
\* The steps of a kind that a thread has still to execute.
Ahead(t, op) == {i \in DOMAIN todo[t] : todo[t][i][1] = op}
Handling(t) == \E i \in Ahead(t, "iret") : todo[t][i][2] = "timer"
Spins(c) == At(c, "xchg") /\ held[Arg(c)]

\* None of the panics of acquire, release, popcli, sched and mycpu.
NoLockPanic == ~panicked

\* Every system call that is past its increments is in both counts.
CountersExact ==
  LET loads(K) == {t \in Thread : \E i \in Ahead(t, "load") \cup Ahead(t, "store") : todo[t][i][2] \in K}
      mine == {t \in Thread : Ahead(t, "mycpu") # {}}
  IN  /\ counter["all"] + Cardinality(loads({"all"})) = calls
      /\ FoldSet(LAMBDA c, n : n + counter[c], 0, Cpus) + Cardinality(loads(Cpus) \cup mine) = calls

\* A processor spins only while another one runs that holds a lock.
SpinsEnd == \A c \in Cpus : Spins(c) => \E d \in Cpus : ncli[d] > 0 /\ ~Spins(d)

\* The spin locks of spinlock.c exclude: no test of theirs panics, no count of
\* a system call is lost (trap.c:48), and processors do not wait for each other.
LocksExclude == NoLockPanic /\ CountersExact /\ SpinsEnd

\* Whether interrupts are on belongs to the kernel thread, although ncli and
\* intena are the processor's (proc.c:363): under a lock and in a handler they
\* are off, wherever the thread has been moved to; elsewhere in a system call,
\* in the scheduler and in user mode they are on.  A new process reaches its
\* first return to user mode with the intena that the last one left.
IntenaFollowsThread == \A c \in Cpus : LET t == on[c] IN
  /\ iflag[c] => ncli[c] = 0 /\ ~Handling(t)
  /\ ~iflag[c] => \/ ncli[c] > 0 \/ Handling(t)
                  \/ t = c /\ todo[t] = <<>>
                  \/ todo[t] # <<>> /\ Head(todo[t]) = <<"iret", "fork">>
=============================================================================
