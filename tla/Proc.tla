-------------------------------- MODULE Proc --------------------------------
(***************************************************************************)
(* The life of a process in xv6 (proc.c, with the kill checks of trap.c    *)
(* and sys_sleep): the process table, fork, exit, wait, kill, sleep and    *)
(* wakeup, the scheduler and preemption.                                   *)
(*                                                                         *)
(* A step is one critical section under ptable.lock, or a stretch of       *)
(* kernel code between two of them.  fork takes three: the slot is claimed *)
(* under the lock, filled in without it, and published under it again.     *)
(* Between the steps of a process its CPU may be taken away by the timer,  *)
(* and other CPUs run other processes.  Slots are numbered from 1, the     *)
(* first is init's; 0 is the null pointer.                                 *)
(***************************************************************************)
EXTENDS Integers, FiniteSets

CONSTANTS NPROC,        \* slots of ptable
          Cpus,         \* processors
          KillPids,     \* arguments that user programs pass to kill()
          MaxPid        \* bound: no fork once nextpid exceeds it

ASSUME ProcConstants == NPROC \in Nat \ {0} /\ MaxPid \in Nat /\ KillPids \subseteq Nat

Slots == 1..NPROC
initproc == 1
Ticks == NPROC + 1      \* the channel &ticks; a slot p is the channel of p's wait()

VARIABLES
  state, pid, parent, chan, killed,  \* fields of ptable.proc[]
  nextpid,
  cpu,      \* cpu[c].proc, 0 while c is in its scheduler
  pc,       \* where each process is in the kernel, or "user"
  child     \* fork's np

slots == <<state, pid, parent, chan, killed>>
kernel == <<nextpid, cpu>>
vars == <<slots, kernel, pc, child>>

States == {"UNUSED", "EMBRYO", "SLEEPING", "RUNNABLE", "RUNNING", "ZOMBIE"}

\* exit() called by init panics, and panic() stops the machine.
Panicked == pc[initproc] = "exit"

Running(p) == state[p] = "RUNNING"
At(p, l) == ~Panicked /\ Running(p) /\ pc[p] = l
Goto(p, l) == pc' = [pc EXCEPT ![p] = l]
First(S) == CHOOSE q \in S : \A r \in S : q <= r
Children(p) == {q \in Slots : parent[q] = p}
OffCpu(p) == [c \in DOMAIN cpu |-> IF cpu[c] = p THEN 0 ELSE cpu[c]]

\* wakeup1 on each channel of C, applied to the table s.
Wakeup1(s, C) ==
  [q \in Slots |-> IF s[q] = "SLEEPING" /\ chan[q] \in C THEN "RUNNABLE" ELSE s[q]]

-----------------------------------------------------------------------------
\* userinit has published the first process.
Init ==
  /\ state = [q \in Slots |-> IF q = initproc THEN "RUNNABLE" ELSE "UNUSED"]
  /\ pid = [q \in Slots |-> IF q = initproc THEN 1 ELSE 0]
  /\ parent = [q \in Slots |-> 0] /\ chan = [q \in Slots |-> 0]
  /\ killed = [q \in Slots |-> FALSE]
  /\ nextpid = 2
  /\ cpu = [c \in Cpus |-> 0]
  /\ pc = [q \in Slots |-> "user"] /\ child = [q \in Slots |-> 0]

-----------------------------------------------------------------------------
\* scheduler() picks p; if p comes out of sleep() it also clears p->chan,
\* still under the ptable.lock the scheduler took.
Schedule(c, p) ==
  /\ ~Panicked /\ cpu[c] = 0 /\ state[p] = "RUNNABLE"
  /\ cpu' = [cpu EXCEPT ![c] = p]
  /\ state' = [state EXCEPT ![p] = "RUNNING"]
  /\ chan' = [chan EXCEPT ![p] = 0]
  /\ UNCHANGED <<pid, parent, killed, nextpid, pc, child>>

\* The timer interrupt: yield().
Yield(p) ==
  /\ ~Panicked /\ Running(p)
  /\ state' = [state EXCEPT ![p] = "RUNNABLE"]
  /\ cpu' = OffCpu(p)
  /\ UNCHANGED <<pid, parent, chan, killed, nextpid, pc, child>>

\* The timer interrupt on CPU 0: ticks++ and wakeup(&ticks).
Tick ==
  /\ ~Panicked
  /\ state' = Wakeup1(state, {Ticks})
  /\ UNCHANGED <<pid, parent, chan, killed, kernel, pc, child>>

\* trap(): a killed process exits instead of entering, or on leaving, the
\* kernel; pc "user" stands before the entry check and after the exit check.
Trap(p) ==
  /\ At(p, "user")
  /\ Goto(p, IF killed[p] THEN "exit" ELSE "sys")
  /\ UNCHANGED <<slots, kernel, child>>

\* init.c: fork a shell, wait until the shell has been reaped, and so forth;
\* child[initproc] is the shell.  At the bound it just waits.
InitForks == child[initproc] = 0 /\ nextpid <= MaxPid

\* The system calls of this module other than fork and kill.  An exit also
\* stands for a fault in user mode.
Syscall(p) ==
  /\ At(p, "sys")
  /\ IF p = initproc THEN ~InitForks /\ Goto(p, "wait")
     ELSE \E l \in {"wait", "sleepcheck", "exit"} : Goto(p, l)
  /\ UNCHANGED <<slots, kernel, child>>

-----------------------------------------------------------------------------
\* What a process does when fork returns -1: init exits.
ForkFailed(p) == Goto(p, IF p = initproc THEN "exit" ELSE "user")

\* allocproc: the first unused slot, or failure when there is none.
ForkAlloc(p) ==
  /\ At(p, "sys") /\ nextpid <= MaxPid
  /\ p = initproc => InitForks
  /\ LET free == {q \in Slots : state[q] = "UNUSED"}
         np == First(free)
     IN  IF free = {}
         THEN /\ ForkFailed(p)
              /\ UNCHANGED <<state, pid, nextpid, child>>
         ELSE /\ state' = [state EXCEPT ![np] = "EMBRYO"]
              /\ pid' = [pid EXCEPT ![np] = nextpid]
              /\ nextpid' = nextpid + 1
              /\ child' = [child EXCEPT ![p] = np]
              /\ Goto(p, "forkcopy")
  /\ UNCHANGED <<parent, chan, killed, cpu>>

\* No memory for the kernel stack or for the copy of the address space.  The
\* slot is given back without the lock, its pid and killed left as they are.
ForkNoMemory(p) ==
  /\ At(p, "forkcopy")
  /\ state' = [state EXCEPT ![child[p]] = "UNUSED"]
  /\ ForkFailed(p)
  /\ UNCHANGED <<pid, parent, chan, killed, kernel, child>>

ForkCopy(p) ==
  /\ At(p, "forkcopy")
  /\ parent' = [parent EXCEPT ![child[p]] = p]
  /\ Goto(p, "forkrun")
  /\ UNCHANGED <<state, pid, chan, killed, kernel, child>>

ForkRun(p) ==
  /\ At(p, "forkrun")
  /\ state' = [state EXCEPT ![child[p]] = "RUNNABLE"]
  /\ pc' = [pc EXCEPT ![p] = "user", ![child[p]] = "user"]
  /\ UNCHANGED <<pid, parent, chan, killed, kernel, child>>

-----------------------------------------------------------------------------
\* Faulty variants of Exit: the children keep their dead parent; init is not told of
\* the zombies it adopts; the parent is not told.
Exit_NoReparent(p) ==
  /\ At(p, "exit")
  /\ state' = [Wakeup1(state, {parent[p]}) EXCEPT ![p] = "ZOMBIE"]
  /\ cpu' = OffCpu(p)
  /\ UNCHANGED <<pid, parent, chan, killed, nextpid, pc, child>>

Exit_NoAdopterWake(p) ==
  /\ At(p, "exit")
  /\ state' = [Wakeup1(state, {parent[p]}) EXCEPT ![p] = "ZOMBIE"]
  /\ parent' = [q \in Slots |-> IF parent[q] = p THEN initproc ELSE parent[q]]
  /\ cpu' = OffCpu(p)
  /\ UNCHANGED <<pid, chan, killed, nextpid, pc, child>>

Exit_NoParentWake(p) ==
  /\ At(p, "exit")
  /\ state' = [state EXCEPT ![p] = "ZOMBIE"]
  /\ parent' = [q \in Slots |-> IF parent[q] = p THEN initproc ELSE parent[q]]
  /\ cpu' = OffCpu(p)
  /\ UNCHANGED <<pid, chan, killed, nextpid, pc, child>>

\* exit(), under ptable.lock: wake the parent, pass the children to init,
\* waking it if one of them is a zombie already, become a zombie.  (What exit()
\* does before, closing files, is left out.)
Exit(p) ==
  /\ At(p, "exit")
  /\ LET toInit == IF \E q \in Children(p) : state[q] = "ZOMBIE" THEN {initproc} ELSE {}
     IN  state' = [Wakeup1(state, {parent[p]} \cup toInit) EXCEPT ![p] = "ZOMBIE"]
  /\ parent' = [q \in Slots |-> IF parent[q] = p THEN initproc ELSE parent[q]]
  /\ cpu' = OffCpu(p)
  /\ UNCHANGED <<pid, chan, killed, nextpid, pc, child>>

-----------------------------------------------------------------------------
Zombies(p) == {q \in Children(p) : state[q] = "ZOMBIE"}

WaitReap(p) ==
  /\ At(p, "wait") /\ Zombies(p) # {}
  /\ LET q == First(Zombies(p))
     IN  /\ state' = [state EXCEPT ![q] = "UNUSED"]
         /\ pid' = [pid EXCEPT ![q] = 0]
         /\ parent' = [parent EXCEPT ![q] = 0]
         /\ killed' = [killed EXCEPT ![q] = FALSE]
         /\ child' = IF p = initproc /\ q = child[p] THEN [child EXCEPT ![p] = 0] ELSE child
  /\ Goto(p, "user")
  /\ UNCHANGED <<chan, kernel>>

WaitFail(p) ==
  /\ At(p, "wait") /\ Zombies(p) = {}
  /\ Children(p) = {} \/ killed[p]
  /\ child' = IF p = initproc THEN [child EXCEPT ![p] = 0] ELSE child
  /\ Goto(p, "user")
  /\ UNCHANGED <<slots, kernel>>

\* sleep(): the lock that guards the condition is given up only after
\* ptable.lock is held, so falling asleep is one step.
Sleep(p, c) ==
  /\ state' = [state EXCEPT ![p] = "SLEEPING"]
  /\ chan' = [chan EXCEPT ![p] = c]
  /\ cpu' = OffCpu(p)

WaitSleep(p) ==
  /\ At(p, "wait") /\ Zombies(p) = {}
  /\ Children(p) # {} /\ ~killed[p]
  /\ Sleep(p, p)
  /\ UNCHANGED <<pid, parent, killed, nextpid, pc, child>>

\* Faulty variant of SleepCheck: no look at p->killed.
SleepCheck_IgnoresKilled(p) ==
  /\ At(p, "sleepcheck")
  /\ \E l \in {"user", "sleep"} : Goto(p, l)
  /\ UNCHANGED <<slots, kernel, child>>

\* sys_sleep: the loop tests the clock and p->killed under tickslock, which
\* kill() does not take, and then calls sleep().
SleepCheck(p) ==
  /\ At(p, "sleepcheck")
  /\ \E l \in IF killed[p] THEN {"user"} ELSE {"user", "sleep"} : Goto(p, l)
  /\ UNCHANGED <<slots, kernel, child>>

SleepTicks(p) ==
  /\ At(p, "sleep")
  /\ Sleep(p, Ticks)
  /\ Goto(p, "sleepcheck")
  /\ UNCHANGED <<pid, parent, killed, nextpid, child>>

\* Faulty variant of Kill: whatever the process does, it is made runnable.
Kill_AnyState(p, n) ==
  /\ At(p, "sys") /\ p # initproc
  /\ LET hits == {q \in Slots : pid[q] = n}
         q == First(hits)
     IN  IF hits = {} THEN UNCHANGED <<state, killed>>
         ELSE /\ killed' = [killed EXCEPT ![q] = TRUE]
              /\ state' = [state EXCEPT ![q] = "RUNNABLE"]
  /\ Goto(p, "user")
  /\ UNCHANGED <<pid, parent, chan, kernel, child>>

\* kill(n): the first slot whose pid field is n, whatever its state.
Kill(p, n) ==
  /\ At(p, "sys") /\ p # initproc
  /\ LET hits == {q \in Slots : pid[q] = n}
         q == First(hits)
     IN  IF hits = {} THEN UNCHANGED <<state, killed>>
         ELSE /\ killed' = [killed EXCEPT ![q] = TRUE]
              /\ state' = IF state[q] = "SLEEPING" THEN [state EXCEPT ![q] = "RUNNABLE"] ELSE state
  /\ Goto(p, "user")
  /\ UNCHANGED <<pid, parent, chan, kernel, child>>

-----------------------------------------------------------------------------
\* panic(): for(;;);
Panic == Panicked /\ UNCHANGED vars

Fork(p) == ForkAlloc(p) \/ ForkNoMemory(p) \/ ForkCopy(p) \/ ForkRun(p)
Wait(p) == WaitReap(p) \/ WaitFail(p) \/ WaitSleep(p)
SysSleep(p) == SleepCheck(p) \/ SleepTicks(p)

Step(p) == \/ Trap(p) \/ Syscall(p) \/ Fork(p) \/ Exit(p) \/ Wait(p) \/ SysSleep(p)
           \/ \E n \in KillPids : Kill(p, n)

Next == \/ \E p \in Slots : Step(p) \/ Yield(p)
        \/ \E c \in Cpus, p \in Slots : Schedule(c, p)
        \/ Tick
        \/ Panic

Spec == Init /\ [][Next]_vars

\* scheduler() goes round the table, so a runnable process is picked again
\* and again; the timer takes the CPU from whoever keeps it, but a time slice
\* is long enough for some step; the clock ticks.
Fairness ==
  /\ WF_vars(Tick)
  /\ \A p \in Slots : /\ SF_vars(Step(p))
                      /\ WF_vars(Yield(p))
                      /\ SF_vars(\E c \in Cpus : Schedule(c, p))

LiveSpec == Spec /\ Fairness

-----------------------------------------------------------------------------
\* A process runs on exactly one CPU, and no CPU is on the stack of a process
\* that is asleep, dead or runnable elsewhere.
RunsOnOneCpu ==
  \A p \in Slots : Cardinality({c \in Cpus : cpu[c] = p}) = IF Running(p) THEN 1 ELSE 0

\* A process asleep in wait() has a child that has not exited and has not been
\* killed: neither the exit of a child nor the adoption of a dead one nor a
\* kill is slept through.
NoMissedExit ==
  \A p \in Slots : state[p] = "SLEEPING" /\ chan[p] = p =>
     Children(p) # {} /\ Zombies(p) = {} /\ ~killed[p]

\* Whoever is in the table, init and the newborn excepted, has a parent that
\* can still call wait(): exit() leaves no child behind.
NoOrphan ==
  \A q \in Slots : state[q] \notin {"UNUSED", "EMBRYO"} /\ q # initproc =>
     /\ parent[q] # 0
     /\ state[parent[q]] \notin {"UNUSED", "EMBRYO", "ZOMBIE"}

\* A dead child of init, adopted or its own, is reaped, unless init finds the
\* table full when it starts its next shell, and panics.
InitReaps ==
  \A q \in Slots :
    (state[q] = "ZOMBIE" /\ parent[q] = initproc) ~> (state[q] = "UNUSED" \/ Panicked)

\* A killed process dies, also when kill() falls between sys_sleep's look at
\* p->killed and its sleep: the next tick brings it back to the check.
KilledDies ==
  \A q \in Slots : killed[q] ~> ~killed[q] \/ state[q] \in {"ZOMBIE", "UNUSED"} \/ Panicked
=============================================================================
