----------------------------- MODULE ProcProof -----------------------------
(***************************************************************************)
(* Theorems about both views of the processors: the process table of       *)
(* proc.c for any number of slots, CPUs and process ids, and below it the  *)
(* spin locks for any number of processors and processes.                  *)
(*                                                                         *)
(* The inductive invariant of the table ties three views of it together:   *)
(* the CPUs' (a CPU runs p exactly if p's slot says RUNNING), fork's (the  *)
(* slot a fork under way has claimed is EMBRYO, belongs to no other fork   *)
(* and has no parent before it is filled in), and the family's (a slot     *)
(* that has a parent has one that lives).  That of the locks is in the     *)
(* second part: each thread is somewhere in a proof outline of the         *)
(* functions that it has called.                                           *)
(***************************************************************************)
EXTENDS Processors, FiniteSetTheorems, SequenceTheorems, WellFoundedInduction, TLAPS

Alive == {"SLEEPING", "RUNNABLE", "RUNNING"}
Forking == {"forkcopy", "forkrun"}
PCs == {"user", "sys", "wait", "sleepcheck", "sleep", "exit"} \cup Forking

TypeOK ==
  /\ state \in [Slots -> States]
  /\ pid \in [Slots -> Nat]
  /\ parent \in [Slots -> Slots \cup {0}]
  /\ chan \in [Slots -> Slots \cup {0, Ticks}]
  /\ killed \in [Slots -> BOOLEAN]
  /\ nextpid \in Nat
  /\ cpu \in [Cpus -> Slots \cup {0}]
  /\ pc \in [Slots -> PCs]
  /\ child \in [Slots -> Slots \cup {0}]

\* A CPU that is not in its scheduler runs a RUNNING slot, each RUNNING slot is
\* on some CPU, and on no two.
CpuInv ==
  /\ \A c \in Cpus : cpu[c] # 0 => Running(cpu[c])
  /\ \A p \in Slots : Running(p) => \E c \in Cpus : cpu[c] = p
  /\ \A c, d \in Cpus : cpu[c] = cpu[d] /\ cpu[c] # 0 => c = d

\* A fork under way, possibly preempted, owns the EMBRYO slot it has claimed.
ForkInv ==
  /\ \A p \in Slots : pc[p] \in Forking =>
       /\ state[p] \in {"RUNNING", "RUNNABLE"}
       /\ child[p] \in Slots /\ state[child[p]] = "EMBRYO"
       /\ pc[p] = "forkcopy" => parent[child[p]] = 0
       /\ pc[p] = "forkrun" => parent[child[p]] = p
  /\ \A p, q \in Slots :
       pc[p] \in Forking /\ pc[q] \in Forking /\ child[p] = child[q] => p = q

\* init never dies and has no parent, nor has a free slot; nobody is its own
\* parent, and a parent is alive.
FamilyInv ==
  /\ state[initproc] \in Alive /\ parent[initproc] = 0
  /\ \A q \in Slots : parent[q] # q /\ (state[q] = "UNUSED" => parent[q] = 0)
  /\ \A q \in Slots : parent[q] # 0 => state[parent[q]] \in Alive
  /\ NoOrphan

IInv == TypeOK /\ CpuInv /\ ForkInv /\ FamilyInv /\ NoMissedExit

-----------------------------------------------------------------------------
\* What the actions that search the table do to the slot they find.
\* The first of some slots is one of them: slots are numbers, and < is well-founded.
LEMMA FirstIn ==
  ASSUME NEW S \in SUBSET Slots, S # {}
  PROVE  First(S) \in S
<1>1. S \subseteq Nat
  BY ProcConstants DEF Slots
<1>2. PICK q \in S : \A r \in S : ~(<<r, q>> \in OpToRel(<, Nat))
  BY <1>1, NatLessThanWellFounded, WFMin
<1>3. ASSUME NEW r \in S, ~(q <= r) PROVE FALSE
  <2>1. r < q /\ <<r, q>> \in Nat \X Nat
    BY <1>1, <1>3
  <2>2. <<r, q>> \in OpToRel(<, Nat)
    BY <2>1 DEF OpToRel
  <2> QED
    BY <1>2, <2>2
<1>4. \E s \in S : \A r \in S : s <= r
  BY <1>3
<1> QED
  BY <1>4 DEF First

\* init has a slot; 0 and the channel &ticks are none.
LEMMA SlotFacts ==
  initproc \in Slots /\ 0 \notin Slots /\ Ticks \notin Slots /\ Ticks # 0
BY ProcConstants DEF Slots, initproc, Ticks

\* allocproc finds slot q for p, or none.
ClaimSlot(p, q) ==
  /\ state[q] = "UNUSED"
  /\ state' = [state EXCEPT ![q] = "EMBRYO"]
  /\ pid' = [pid EXCEPT ![q] = nextpid]
  /\ nextpid' = nextpid + 1
  /\ child' = [child EXCEPT ![p] = q]
  /\ Goto(p, "forkcopy")
  /\ UNCHANGED <<parent, chan, killed, cpu>>

NoSlot(p) == ForkFailed(p) /\ UNCHANGED <<slots, kernel, child>>

\* ForkAlloc, with the slot named.
LEMMA ForkAllocEffect ==
  ASSUME NEW p \in Slots, ForkAlloc(p)
  PROVE  /\ At(p, "sys")
         /\ NoSlot(p) \/ \E q \in Slots : ClaimSlot(p, q)
<1> DEFINE free == {q \in Slots : state[q] = "UNUSED"}
<1>1. free # {} => First(free) \in free
  BY FirstIn
<1> QED
  BY <1>1 DEF ForkAlloc, ClaimSlot, NoSlot, slots, kernel

\* wait() frees the zombie q of p.
Reap(p, q) ==
  /\ parent[q] = p /\ state[q] = "ZOMBIE"
  /\ state' = [state EXCEPT ![q] = "UNUSED"]
  /\ pid' = [pid EXCEPT ![q] = 0]
  /\ parent' = [parent EXCEPT ![q] = 0]
  /\ killed' = [killed EXCEPT ![q] = FALSE]
  /\ child' \in {child, [child EXCEPT ![p] = 0]}
  /\ Goto(p, "user")
  /\ UNCHANGED <<chan, kernel>>

\* WaitReap, with the zombie named.
LEMMA WaitReapEffect ==
  ASSUME NEW p \in Slots, WaitReap(p)
  PROVE  At(p, "wait") /\ \E q \in Slots : Reap(p, q)
<1>1. First(Zombies(p)) \in Zombies(p)
  BY FirstIn DEF WaitReap, Zombies, Children
<1>2. First(Zombies(p)) \in Slots
  BY <1>1 DEF Zombies, Children
<1>3. Reap(p, First(Zombies(p)))
  BY <1>1 DEF WaitReap, Reap, Zombies, Children
<1> QED
  BY <1>2, <1>3 DEF WaitReap

\* kill() finds q, or none.
SetKilled(p, q) ==
  /\ killed' = [killed EXCEPT ![q] = TRUE]
  /\ state' = IF state[q] = "SLEEPING" THEN [state EXCEPT ![q] = "RUNNABLE"] ELSE state
  /\ Goto(p, "user")
  /\ UNCHANGED <<pid, parent, chan, kernel, child>>

NoSuchPid(p) == Goto(p, "user") /\ UNCHANGED <<slots, kernel, child>>

\* Kill, with the slot named.
LEMMA KillEffect ==
  ASSUME NEW p \in Slots, NEW n \in KillPids, Kill(p, n)
  PROVE  /\ At(p, "sys")
         /\ NoSuchPid(p) \/ \E q \in Slots : SetKilled(p, q)
<1> DEFINE hits == {q \in Slots : pid[q] = n}
<1>1. hits # {} => First(hits) \in hits
  BY FirstIn
<1> QED
  BY <1>1 DEF Kill, SetKilled, NoSuchPid, slots

-----------------------------------------------------------------------------
\* Every step keeps the invariant.
LEMMA StepInv == IInv /\ [Next]_vars => IInv'
<1> SUFFICES ASSUME IInv, [Next]_vars PROVE IInv'
  OBVIOUS
<1> USE SlotFacts DEF At, Goto, Panicked, Running, Children, OffCpu, Wakeup1, Zombies, Sleep,
      ForkFailed, InitForks, slots, kernel, States, PCs, Forking, Alive, NoOrphan,
      IInv, TypeOK, CpuInv, ForkInv, FamilyInv, NoMissedExit
<1>1. ASSUME NEW p \in Slots, Trap(p) PROVE IInv'
  BY <1>1 DEF Trap
<1>2. ASSUME NEW p \in Slots, Syscall(p) PROVE IInv'
  BY <1>2 DEF Syscall
<1>3. ASSUME NEW p \in Slots, ForkAlloc(p) PROVE IInv'
  <2>1. CASE At(p, "sys") /\ NoSlot(p)
    BY <2>1 DEF NoSlot
  <2>2. ASSUME NEW q \in Slots, At(p, "sys"), ClaimSlot(p, q) PROVE IInv'
    BY <2>2 DEF ClaimSlot
  <2> QED
    BY <1>3, <2>1, <2>2, ForkAllocEffect
<1>4. ASSUME NEW p \in Slots, ForkNoMemory(p) PROVE IInv'
  BY <1>4 DEF ForkNoMemory
<1>5. ASSUME NEW p \in Slots, ForkCopy(p) PROVE IInv'
  BY <1>5 DEF ForkCopy
<1>6. ASSUME NEW p \in Slots, ForkRun(p) PROVE IInv'
  BY <1>6 DEF ForkRun
<1>7. ASSUME NEW p \in Slots, Exit(p) PROVE IInv'
  <2> DEFINE C == {parent[p]} \cup
                  (IF \E q \in Children(p) : state[q] = "ZOMBIE" THEN {initproc} ELSE {})
  <2>1. /\ At(p, "exit")
        /\ state' = [Wakeup1(state, C) EXCEPT ![p] = "ZOMBIE"]
        /\ parent' = [q \in Slots |-> IF parent[q] = p THEN initproc ELSE parent[q]]
        /\ cpu' = OffCpu(p)
        /\ UNCHANGED <<pid, chan, killed, nextpid, pc, child>>
    BY <1>7 DEF Exit
  <2>2. TypeOK' /\ ForkInv' /\ FamilyInv'
    BY <2>1
  <2>3. CpuInv'
    <3>1. \A r \in Slots : Running(r)' <=> r # p /\ Running(r)
      BY <2>1
    <3>2. \A c \in Cpus : cpu'[c] = IF cpu[c] = p THEN 0 ELSE cpu[c]
      BY <2>1
    <3> QED
      BY <3>1, <3>2
  <2>4. ASSUME NEW q \in Slots, state'[q] = "SLEEPING", chan'[q] = q
        PROVE  Children(q)' # {} /\ Zombies(q)' = {} /\ ~killed'[q]
    <3>1. /\ q # p /\ state[q] = "SLEEPING" /\ chan[q] = q /\ q \notin C
          /\ Children(q) # {} /\ Zombies(q) = {} /\ ~killed[q]
      BY <2>1, <2>4
    <3>2. Children(q) \subseteq Children(q)'
      BY <2>1, <3>1
    <3>3. ASSUME NEW r \in Slots, parent'[r] = q PROVE state'[r] # "ZOMBIE"
      BY <2>1, <3>1, <3>3
    <3> QED
      BY <2>1, <3>1, <3>2, <3>3
  <2> QED
    BY <2>2, <2>3, <2>4
<1>8. ASSUME NEW p \in Slots, WaitReap(p) PROVE IInv'
  <2>1. ASSUME NEW q \in Slots, At(p, "wait"), Reap(p, q) PROVE IInv'
    BY <2>1 DEF Reap
  <2> QED
    BY <1>8, <2>1, WaitReapEffect
<1>9. ASSUME NEW p \in Slots, WaitFail(p) PROVE IInv'
  BY <1>9 DEF WaitFail
<1>10. ASSUME NEW p \in Slots, WaitSleep(p) PROVE IInv'
  BY <1>10 DEF WaitSleep
<1>11. ASSUME NEW p \in Slots, SleepCheck(p) PROVE IInv'
  BY <1>11 DEF SleepCheck
<1>12. ASSUME NEW p \in Slots, SleepTicks(p) PROVE IInv'
  BY <1>12 DEF SleepTicks
<1>13. ASSUME NEW p \in Slots, Yield(p) PROVE IInv'
  BY <1>13 DEF Yield
<1>14. ASSUME NEW p \in Slots, NEW n \in KillPids, Kill(p, n) PROVE IInv'
  <2>1. CASE At(p, "sys") /\ NoSuchPid(p)
    BY <2>1 DEF NoSuchPid
  <2>2. ASSUME NEW q \in Slots, At(p, "sys"), SetKilled(p, q) PROVE IInv'
    BY <2>2 DEF SetKilled
  <2> QED
    BY <1>14, <2>1, <2>2, KillEffect
<1>15. ASSUME NEW c \in Cpus, NEW p \in Slots, Schedule(c, p) PROVE IInv'
  BY <1>15 DEF Schedule
<1>16. CASE Tick
  BY <1>16 DEF Tick
<1>17. CASE UNCHANGED vars
  BY <1>17 DEF vars
<1> QED
  BY <1>1, <1>2, <1>3, <1>4, <1>5, <1>6, <1>7, <1>8, <1>9,
     <1>10, <1>11, <1>12, <1>13, <1>14, <1>15, <1>16, <1>17
     DEF Next, Step, Fork, Wait, SysSleep, Panic

\* userinit's table satisfies the invariant.
LEMMA InitInv == Init => IInv
<1> SUFFICES ASSUME Init PROVE IInv
  OBVIOUS
<1> USE SlotFacts DEF Init, Running, Children, Zombies, Forking, Alive, NoOrphan
<1>1. TypeOK
  BY DEF TypeOK, States, PCs
<1>2. CpuInv /\ ForkInv
  BY DEF CpuInv, ForkInv
<1>3. FamilyInv /\ NoMissedExit
  BY DEF FamilyInv, NoMissedExit
<1> QED
  BY <1>1, <1>2, <1>3 DEF IInv

\* The views of the CPUs and of the table agree, counted.
LEMMA CountCpus == IInv => RunsOnOneCpu
<1> SUFFICES ASSUME IInv, NEW p \in Slots
             PROVE  Cardinality({c \in Cpus : cpu[c] = p}) = IF Running(p) THEN 1 ELSE 0
  BY DEF RunsOnOneCpu
<1> USE SlotFacts DEF IInv, TypeOK, CpuInv
<1>1. CASE Running(p)
  <2>1. PICK c \in Cpus : cpu[c] = p
    BY <1>1
  <2>2. {d \in Cpus : cpu[d] = p} = {c}
    BY <2>1
  <2> QED
    BY <1>1, <2>2, FS_Singleton
<1>2. CASE ~Running(p)
  <2>1. {c \in Cpus : cpu[c] = p} = {}
    BY <1>2
  <2> QED
    BY <1>2, <2>1, FS_EmptySet
<1> QED
  BY <1>1, <1>2

-----------------------------------------------------------------------------
\* The invariant holds throughout.
LEMMA Invariance == Spec => []IInv
BY InitInv, StepInv, PTL DEF Spec

\* scheduler(), yield(), sleep() and exit() never leave a process running on
\* two CPUs, or a CPU on the stack of a process that is asleep, dead or
\* runnable elsewhere, whatever the number of CPUs.
THEOREM OneCpu == Spec => []RunsOnOneCpu
BY Invariance, CountCpus, PTL

\* wait() never sleeps through the exit of a child, the adoption of a dead
\* one, or a kill: whoever sleeps there has children, all of them alive, and
\* has not been killed.
THEOREM WaitMissesNothing == Spec => []NoMissedExit
<1>1. IInv => NoMissedExit
  BY DEF IInv
<1> QED
  BY Invariance, <1>1, PTL

\* exit() leaves no orphan: whoever is in the table, init and the newborn
\* excepted, has a parent that can still call wait().
THEOREM NobodyOrphaned == Spec => []NoOrphan
<1>1. IInv => NoOrphan
  BY DEF IInv, FamilyInv
<1> QED
  BY Invariance, <1>1, PTL

-----------------------------------------------------------------------------
\* What follows is about the other view, the spin locks.  A point is what is known
\* of a thread between two steps: the locks it has, the one it waits for (want) or
\* is about to record or store (got), how deep it is in pushcli(), whether it is in
\* a handler (off), and whether the processor's intena, or FL_IF outside the locks,
\* agrees with that (sure), as it need not just after swtch().
Point == [has : SUBSET Spin!Locks, want : Spin!Locks \cup {""}, got : Spin!Locks \cup {""},
          n : Nat, off : BOOLEAN, sure : BOOLEAN, proc : BOOLEAN]

Pt(L, want, got, n, off, sure, proc) ==
  [has |-> L, want |-> want, got |-> got, n |-> n, off |-> off, sure |-> sure, proc |-> proc]

\* The locks are taken one at a time, except that ptable.lock is taken under tickslock.
Legal(a) ==
  /\ a \in Point
  /\ a.want # "" => a.got = "" /\ a.want \notin a.has
                      /\ (a.has = {} \/ (a.has = {"time"} /\ a.want = "ptable"))
  /\ a.got \notin a.has
  /\ a.n = 0 <=> a.has = {} /\ a.want = "" /\ a.got = ""
  /\ a.n = 0 /\ ~a.sure => ~a.off

With(L, n, off, sure, proc) == Pt(L, "", "", n, off, sure, proc)

\* Outside the locks; just after swtch(), with ptable.lock; and where a thread has
\* nothing left to do.
Outside(proc) == With({}, 0, FALSE, TRUE, proc)
Switched(off, proc) == With({"ptable"}, 1, off, FALSE, proc)
Rest(t) == IF t \in LockCpus THEN With({}, 0, FALSE, FALSE, FALSE) ELSE Outside(TRUE)

Stays(x) == x[1] \in {"tick", "wakeup", "mycpu", "load", "store"}
ReadsTime(x) == x[1] \in {"ticks0", "while"}
EndsHandler(x) == x[1] = "iret" /\ x[2] = "timer"

\* The counts that a system call is to enter, and the step that enters it in one.
Marks(x, k) ==
  \/ k = "all" /\ x[1] \in {"load", "store"} /\ x[2] = "all"
  \/ k = "each" /\ (x[1] = "mycpu" \/ (x[1] \in {"load", "store"} /\ x[2] \in LockCpus))
  \/ k = "store" /\ x[1] = "store"

\* A count is guarded by the lock of the same name.
Guarded(x, L) ==
  /\ x[1] \in {"load", "store"} => x[2] \in LockCpus \cup {"all"}
  /\ \A k \in {"all", "each"} : Marks(x, k) => k \in L

\* The step x takes a thread from the point a to the point b, without a panic.
Takes(x, a, b) ==
  /\ Legal(a) /\ Legal(b) /\ a.proc = b.proc
  /\ a.off <=> b.off \/ EndsHandler(x)
  /\ \/ x[1] = "pushcli" /\ x[2] \in Spin!Locks /\ a.sure /\ a.want = "" /\ a.got = ""
        /\ b = Pt(a.has, x[2], "", a.n + 1, a.off, TRUE, a.proc)
     \/ x[1] = "xchg" /\ x[2] \in Spin!Locks /\ a.want = x[2]
        /\ b = Pt(a.has, "", x[2], a.n, a.off, a.sure, a.proc)
     \/ x[1] = "own" /\ x[2] \in Spin!Locks /\ a.got = x[2] /\ a.want = ""
        /\ b = With(a.has \cup {x[2]}, a.n, a.off, a.sure, a.proc)
     \/ x[1] = "disown" /\ x[2] \in a.has /\ a.want = "" /\ a.got = ""
        /\ b = Pt(a.has \ {x[2]}, "", x[2], a.n, a.off, a.sure, a.proc)
     \/ x[1] = "unlock" /\ x[2] \in Spin!Locks /\ a.got = x[2] /\ a.want = ""
        /\ b = With(a.has, a.n - 1, a.off, a.sure, a.proc)
     \/ x[1] = "sched" /\ x[2] \in {"RUNNABLE", "SLEEPING"}
        /\ a = With({"ptable"}, 1, a.off, TRUE, TRUE) /\ b = a
     \/ x[1] = "restore" /\ x[2] = ~a.off
        /\ a = Switched(a.off, TRUE) /\ b = With({"ptable"}, 1, a.off, TRUE, TRUE)
     \/ x[1] = "scan" /\ x[2] \in Nat \ {0}
        /\ a = With({"ptable"}, 1, FALSE, a.sure, FALSE) /\ b = Switched(FALSE, FALSE)
     \/ x = <<"iret", "timer">> /\ a = With({}, 0, TRUE, TRUE, a.proc)
        /\ b = With({}, 0, FALSE, b.sure, a.proc)
     \/ x = <<"iret", "call">> /\ a = Outside(TRUE) /\ b = a
     \/ x = <<"iret", "fork">> /\ a = With({}, 0, FALSE, FALSE, TRUE) /\ b = Outside(TRUE)
     \/ ReadsTime(x) /\ a = With({"time"}, 1, FALSE, TRUE, TRUE) /\ b = a
     \/ Stays(x) /\ a.n > 0 /\ Guarded(x, a.has) /\ b = a

\* The steps s, in order, take a thread from a to b; h is what is known between them,
\* the proof outline of s.
Outline(s, h, a, b) ==
  /\ h[1] = a /\ h[Len(s) + 1] = b
  /\ \A i \in 1..Len(s) : Takes(s[i], h[i], h[i + 1])
  /\ \A i \in 1..Len(s) + 1 : h[i].off <=> b.off \/ \E j \in i..Len(s) : EndsHandler(s[j])
Leads(s, a, b) == \E S, h : s \in Seq(S) /\ Outline(s, h, a, b)

LEMMA LeadsNowhere ==
  /\ \A a : Leads(<<>>, a, a)
  /\ \A a, b : Leads(<<>>, a, b) => a = b
<1>1. Len(<<>>) = 0 /\ <<>> \in Seq({})
  BY EmptySeq
<1>2. ASSUME NEW a PROVE Leads(<<>>, a, a)
  <2>1. Outline(<<>>, <<a>>, a, a)
    BY <1>1 DEF Outline
  <2> QED
    BY <1>1, <2>1 DEF Leads
<1>3. ASSUME NEW a, NEW b, Leads(<<>>, a, b) PROVE a = b
  BY <1>1, <1>3 DEF Leads, Outline
<1> QED
  BY <1>2, <1>3

LEMMA LeadsOne ==
  ASSUME NEW x, NEW a, NEW b, Takes(x, a, b)
  PROVE  Leads(<<x>>, a, b)
<1> DEFINE h == <<a, b>>
<1>1. <<x>> \in Seq({x}) /\ Len(<<x>>) = 1 /\ <<x>>[1] = x /\ h[1] = a /\ h[2] = b
  OBVIOUS
<1>2. a.off <=> b.off \/ EndsHandler(x)
  BY DEF Takes
<1> HIDE DEF h
<1>3. Outline(<<x>>, h, a, b)
  BY <1>1, <1>2 DEF Outline
<1> QED
  BY <1>1, <1>3 DEF Leads

LEMMA LeadsOn ==
  ASSUME NEW s, NEW t, NEW a, NEW b, NEW c, Leads(s, a, b), Leads(t, b, c)
  PROVE  Leads(s \o t, a, c)
<1>1. PICK S, h : s \in Seq(S) /\ Outline(s, h, a, b)
  BY DEF Leads
<1>2. PICK T, k : t \in Seq(T) /\ Outline(t, k, b, c)
  BY DEF Leads
<1> DEFINE u == s \o t
           m == Len(s)
           n == Len(t)
           g == [i \in 1..m + n + 1 |-> IF i <= m THEN h[i] ELSE k[i - m]]
<1>3. s \in Seq(S \cup T) /\ t \in Seq(S \cup T)
  BY <1>1, <1>2, SeqMonotonic
<1>4. /\ u \in Seq(S \cup T) /\ Len(u) = m + n /\ m \in Nat /\ n \in Nat
      /\ \A i \in 1..m + n : u[i] = IF i <= m THEN s[i] ELSE t[i - m]
  BY <1>3, ConcatProperties, LenProperties
<1>5. \A i \in 1..m + n + 1 : g[i] = IF i <= m THEN h[i] ELSE k[i - m]
  OBVIOUS
<1>6. h[m + 1] = b /\ k[1] = b /\ h[1] = a /\ k[n + 1] = c
  BY <1>1, <1>2 DEF Outline
<1> HIDE DEF u, m, n, g
<1>7. g[1] = a /\ g[m + n + 1] = c
  BY <1>4, <1>5, <1>6
<1>8. ASSUME NEW i \in 1..m + n PROVE Takes(u[i], g[i], g[i + 1])
  <2>1. CASE i < m
    <3>1. u[i] = s[i] /\ g[i] = h[i] /\ g[i + 1] = h[i + 1] /\ i \in 1..m
      BY <1>4, <1>5, <2>1
    <3> QED
      BY <1>1, <3>1 DEF Outline, m
  <2>2. CASE i = m
    <3>1. u[i] = s[i] /\ g[i] = h[i] /\ g[i + 1] = b /\ i \in 1..m
      BY <1>4, <1>5, <1>6, <2>2
    <3> QED
      BY <1>1, <1>6, <2>2, <3>1 DEF Outline, m
  <2>3. CASE i > m
    <3>1. u[i] = t[i - m] /\ g[i] = k[i - m] /\ g[i + 1] = k[(i - m) + 1] /\ i - m \in 1..n
      BY <1>4, <1>5, <2>3
    <3> QED
      BY <1>2, <3>1 DEF Outline, n
  <2> QED
    BY <1>4, <2>1, <2>2, <2>3
<1>9. ASSUME NEW i \in 1..m + n + 1
      PROVE  g[i].off <=> c.off \/ \E j \in i..m + n : EndsHandler(u[j])
  <2>1. \A l \in 1..m + 1 : h[l].off <=> b.off \/ \E j \in l..m : EndsHandler(s[j])
    BY <1>1 DEF Outline, m
  <2>2. \A l \in 1..n + 1 : k[l].off <=> c.off \/ \E j \in l..n : EndsHandler(t[j])
    BY <1>2 DEF Outline, n
  <2>3. \A j \in 1..m : u[j] = s[j]
    BY <1>4
  <2>4. \A j \in 1..n : u[m + j] = t[j]
    <3> SUFFICES ASSUME NEW j \in 1..n PROVE u[m + j] = t[j]
      OBVIOUS
    <3>1. m + j \in 1..m + n /\ ~(m + j <= m) /\ (m + j) - m = j
      BY <1>4
    <3> QED
      BY <1>4, <3>1
  <2>5. CASE i <= m
    <3>1. g[i] = h[i] /\ i \in 1..m + 1
      BY <1>4, <1>5, <2>5
    <3>2. b.off <=> c.off \/ \E j \in 1..n : EndsHandler(t[j])
      BY <1>4, <1>6, <2>2
    <3>3. (\E j \in i..m + n : EndsHandler(u[j]))
            <=> (\E j \in i..m : EndsHandler(s[j])) \/ (\E j \in 1..n : EndsHandler(t[j]))
      <4>1. ASSUME NEW j \in i..m, EndsHandler(s[j]) PROVE \E l \in i..m + n : EndsHandler(u[l])
        BY <1>4, <2>3, <4>1
      <4>2. ASSUME NEW j \in 1..n, EndsHandler(t[j]) PROVE \E l \in i..m + n : EndsHandler(u[l])
        <5>1. m + j \in i..m + n
          BY <1>4, <2>5
        <5> QED
          BY <2>4, <4>2, <5>1
      <4>3. ASSUME NEW j \in i..m + n, EndsHandler(u[j])
            PROVE  (\E l \in i..m : EndsHandler(s[l])) \/ (\E l \in 1..n : EndsHandler(t[l]))
        <5>1. CASE j <= m
          BY <1>4, <2>3, <4>3, <5>1
        <5>2. CASE j > m
          <6>1. j - m \in 1..n /\ m + (j - m) = j
            BY <1>4, <5>2
          <6> QED
            BY <2>4, <4>3, <6>1
        <5> QED
          BY <1>4, <5>1, <5>2
      <4> QED
        BY <4>1, <4>2, <4>3
    <3>4. h[i].off <=> b.off \/ \E j \in i..m : EndsHandler(s[j])
      BY <2>1, <3>1
    <3> QED
      BY <3>1, <3>2, <3>3, <3>4
  <2>6. CASE i > m
    <3>1. g[i] = k[i - m] /\ i - m \in 1..n + 1
      BY <1>4, <1>5, <2>6
    <3>2. k[i - m].off <=> c.off \/ \E j \in (i - m)..n : EndsHandler(t[j])
      BY <2>2, <3>1
    <3>3. ASSUME NEW j \in (i - m)..n, EndsHandler(t[j]) PROVE \E l \in i..m + n : EndsHandler(u[l])
      <4>1. m + j \in i..m + n /\ j \in 1..n
        BY <1>4, <2>6
      <4> QED
        BY <2>4, <3>3, <4>1
    <3>4. ASSUME NEW j \in i..m + n, EndsHandler(u[j]) PROVE \E l \in (i - m)..n : EndsHandler(t[l])
      <4>1. j - m \in (i - m)..n /\ j - m \in 1..n /\ m + (j - m) = j
        BY <1>4, <2>6
      <4> QED
        BY <2>4, <3>4, <4>1
    <3> QED
      BY <3>1, <3>2, <3>3, <3>4
  <2> QED
    BY <1>4, <2>5, <2>6
<1>10. Outline(u, g, a, c)
  BY <1>4, <1>7, <1>8, <1>9 DEF Outline
<1> QED
  BY <1>4, <1>10 DEF Leads, u

LEMMA LeadsTail ==
  ASSUME NEW s, NEW a, NEW c, Leads(s, a, c), s # <<>>
  PROVE  \E b : Takes(Head(s), a, b) /\ Leads(Tail(s), b, c)
<1>1. PICK S, h : s \in Seq(S) /\ Outline(s, h, a, c)
  BY DEF Leads
<1> DEFINE n == Len(s)
           t == Tail(s)
           k == [i \in 1..n |-> h[i + 1]]
<1>2. /\ n \in Nat /\ n >= 1 /\ t \in Seq(S) /\ Len(t) = n - 1
      /\ \A i \in 1..n - 1 : t[i] = s[i + 1]
      /\ Head(s) = s[1]
  BY <1>1, HeadTailProperties, EmptySeq
<1>3. \A i \in 1..n : k[i] = h[i + 1]
  OBVIOUS
<1> HIDE DEF n, t, k
<1>4. \A i \in 1..n : Takes(s[i], h[i], h[i + 1])
  BY <1>1 DEF Outline, n
<1>5. \A i \in 1..n + 1 : h[i].off <=> c.off \/ \E j \in i..n : EndsHandler(s[j])
  BY <1>1 DEF Outline, n
<1>6. h[1] = a /\ h[n + 1] = c
  BY <1>1 DEF Outline, n
<1>7. k[1] = h[2] /\ k[(n - 1) + 1] = c
  BY <1>2, <1>3, <1>6
<1>8. \A i \in 1..n - 1 : Takes(t[i], k[i], k[i + 1])
  <2> SUFFICES ASSUME NEW i \in 1..n - 1 PROVE Takes(t[i], k[i], k[i + 1])
    OBVIOUS
  <2>1. t[i] = s[i + 1] /\ k[i] = h[i + 1] /\ k[i + 1] = h[(i + 1) + 1] /\ i + 1 \in 1..n
    BY <1>2, <1>3
  <2> QED
    BY <1>4, <2>1
<1>9. ASSUME NEW i \in 1..(n - 1) + 1
      PROVE  k[i].off <=> c.off \/ \E j \in i..n - 1 : EndsHandler(t[j])
  <2>1. k[i] = h[i + 1] /\ i + 1 \in 1..n + 1
    BY <1>2, <1>3
  <2>2. h[i + 1].off <=> c.off \/ \E j \in i + 1..n : EndsHandler(s[j])
    BY <1>5, <2>1
  <2>3. ASSUME NEW j \in i + 1..n, EndsHandler(s[j]) PROVE \E l \in i..n - 1 : EndsHandler(t[l])
    <3>1. j - 1 \in i..n - 1 /\ j - 1 \in 1..n - 1 /\ (j - 1) + 1 = j
      BY <1>2
    <3> QED
      BY <1>2, <2>3, <3>1
  <2>4. ASSUME NEW j \in i..n - 1, EndsHandler(t[j]) PROVE \E l \in i + 1..n : EndsHandler(s[l])
    <3>1. j + 1 \in i + 1..n /\ j \in 1..n - 1
      BY <1>2
    <3> QED
      BY <1>2, <2>4, <3>1
  <2> QED
    BY <2>1, <2>2, <2>3, <2>4
<1>10. Outline(t, k, h[2], c)
  BY <1>2, <1>7, <1>8, <1>9 DEF Outline
<1>11. Takes(Head(s), a, h[2])
  BY <1>2, <1>4, <1>6
<1> QED
  BY <1>2, <1>10, <1>11 DEF Leads, t

LEMMA LeadsWhere ==
  ASSUME NEW s, NEW a, NEW b, Leads(s, a, b)
  PROVE  /\ \E S : s \in Seq(S)
         /\ a.off <=> b.off \/ \E j \in DOMAIN s : EndsHandler(s[j])
<1>1. PICK S, h : s \in Seq(S) /\ Outline(s, h, a, b)
  BY DEF Leads
<1>2. Len(s) \in Nat /\ DOMAIN s = 1..Len(s) /\ 1 \in 1..Len(s) + 1
  BY <1>1, LenProperties
<1> QED
  BY <1>1, <1>2 DEF Outline

-----------------------------------------------------------------------------
\* The outlines of the functions.
LEMMA LegalAt ==
  ASSUME NEW L \in SUBSET Spin!Locks, NEW want \in Spin!Locks \cup {""},
         NEW got \in Spin!Locks \cup {""}, NEW n \in Nat, NEW off \in BOOLEAN,
         NEW sure \in BOOLEAN, NEW proc \in BOOLEAN,
         want # "" => got = "" /\ want \notin L /\ (L = {} \/ (L = {"time"} /\ want = "ptable")),
         got \notin L, n = 0 <=> L = {} /\ want = "" /\ got = "", n = 0 /\ ~sure => ~off
  PROVE  Legal(Pt(L, want, got, n, off, sure, proc))
<1> DEFINE a == Pt(L, want, got, n, off, sure, proc)
<1>1. a \in Point
  BY DEF Pt, Point
<1>2. /\ a.has = L /\ a.want = want /\ a.got = got /\ a.n = n
      /\ a.off = off /\ a.sure = sure /\ a.proc = proc
  BY DEF Pt
<1> HIDE DEF a
<1> QED
  BY <1>1, <1>2 DEF Legal, a

LEMMA TwoAndThree ==
  ASSUME NEW x, NEW y, NEW z
  PROVE  <<x>> \o <<y>> = <<x, y>> /\ <<x, y>> \o <<z>> = <<x, y, z>>
<1> DEFINE S == {x, y, z}
<1>1. <<x>> \in Seq(S) /\ <<y>> \in Seq(S) /\ <<z>> \in Seq(S) /\ <<x, y>> \in Seq(S)
      /\ <<x, y, z>> \in Seq(S)
  OBVIOUS
<1>0. /\ Len(<<x>>) = 1 /\ Len(<<y>>) = 1 /\ Len(<<z>>) = 1 /\ Len(<<x, y>>) = 2 /\ Len(<<x, y, z>>) = 3
      /\ <<x>>[1] = x /\ <<y>>[1] = y /\ <<z>>[1] = z /\ <<x, y>>[1] = x /\ <<x, y>>[2] = y
      /\ <<x, y, z>>[1] = x /\ <<x, y, z>>[2] = y /\ <<x, y, z>>[3] = z
  OBVIOUS
<1> DEFINE s == <<x>>
           t == <<y>>
           u == <<z>>
           v == <<x, y>>
           w == <<x, y, z>>
<1> HIDE DEF S, s, t, u, v, w
<1>2. s \o t = v
  <2>1. s \o t \in Seq(S) /\ Len(s \o t) = 2 /\ \A i \in 1..2 : (s \o t)[i] = v[i]
    BY <1>1, <1>0, ConcatProperties DEF s, t, v
  <2> QED
    BY <1>1, <1>0, <2>1, SeqEqual DEF v
<1>3. v \o u = w
  <2>1. v \o u \in Seq(S) /\ Len(v \o u) = 3 /\ \A i \in 1..3 : (v \o u)[i] = w[i]
    BY <1>1, <1>0, ConcatProperties DEF u, v, w
  <2> QED
    BY <1>1, <1>0, <2>1, SeqEqual DEF w
<1> QED
  BY <1>2, <1>3 DEF s, t, u, v, w
LEMMA LeadsThree ==
  ASSUME NEW x, NEW y, NEW z, NEW a, NEW b, NEW c, NEW d,
         Takes(x, a, b), Takes(y, b, c), Takes(z, c, d)
  PROVE  Leads(<<x, y, z>>, a, d)
<1>1. Leads(<<x>>, a, b) /\ Leads(<<y>>, b, c) /\ Leads(<<z>>, c, d)
  BY LeadsOne
<1>2. Leads(<<x>> \o <<y>>, a, c)
  BY <1>1, LeadsOn
<1>3. Leads(<<x, y>> \o <<z>>, a, d)
  BY <1>1, <1>2, LeadsOn, TwoAndThree, Zenon
<1> QED
  BY <1>3, TwoAndThree, Zenon

LEMMA LeadsTwo ==
  ASSUME NEW x, NEW y, NEW a, NEW b, NEW c, Takes(x, a, b), Takes(y, b, c)
  PROVE  Leads(<<x, y>>, a, c)
<1>1. Leads(<<x>> \o <<y>>, a, c)
  BY LeadsOne, LeadsOn
<1> QED
  BY <1>1, TwoAndThree, Zenon

LEMMA LockNames ==
  /\ "" \notin Spin!Locks /\ "ptable" \in Spin!Locks /\ "time" \in Spin!Locks
  /\ "all" \in Spin!Locks /\ "each" \in Spin!Locks
BY DEF Spin!Locks

LEMMA AcquireLeads ==
  ASSUME NEW l \in Spin!Locks, NEW L \in SUBSET Spin!Locks, NEW n \in Nat, NEW off \in BOOLEAN,
         NEW proc \in BOOLEAN, n = 0 <=> L = {}, L = {} \/ (L = {"time"} /\ l = "ptable")
  PROVE  Leads(Spin!Acquire(l), With(L, n, off, TRUE, proc), With(L \cup {l}, n + 1, off, TRUE, proc))
<1> DEFINE M == L \cup {l}
           m == n + 1
           a == Pt(L, "", "", n, off, TRUE, proc)
           b == Pt(L, l, "", m, off, TRUE, proc)
           c == Pt(L, "", l, m, off, TRUE, proc)
           d == Pt(M, "", "", m, off, TRUE, proc)
<1>1. l # "" /\ l \notin L /\ "" \notin L /\ "" \notin M /\ M \in SUBSET Spin!Locks /\ M # {}
  BY LockNames
<1>2. m \in Nat /\ m # 0 /\ TRUE \in BOOLEAN
  OBVIOUS
<1>3. l \in Spin!Locks \cup {""} /\ "" \in Spin!Locks \cup {""}
  OBVIOUS
<1> HIDE DEF M
<1>4. Legal(a) /\ Legal(b) /\ Legal(c) /\ Legal(d)
  <2> HIDE DEF m
  <2>1. Legal(a)
    BY <1>1, <1>3, LegalAt
  <2>2. Legal(b)
    BY <1>1, <1>2, <1>3, LegalAt
  <2>3. Legal(c)
    BY <1>1, <1>2, <1>3, LegalAt
  <2>4. Legal(d)
    BY <1>1, <1>2, <1>3, LegalAt
  <2> QED
    BY <2>1, <2>2, <2>3, <2>4
<1>5. /\ a.has = L /\ a.want = "" /\ a.got = "" /\ a.n = n /\ a.off = off /\ a.sure = TRUE /\ a.proc = proc
      /\ b.has = L /\ b.want = l /\ b.got = "" /\ b.n = m /\ b.off = off /\ b.sure = TRUE /\ b.proc = proc
      /\ c.has = L /\ c.want = "" /\ c.got = l /\ c.n = m /\ c.off = off /\ c.sure = TRUE /\ c.proc = proc
      /\ d.off = off /\ d.proc = proc
  BY DEF Pt
<1>6. /\ b = Pt(a.has, l, "", a.n + 1, a.off, TRUE, a.proc)
      /\ c = Pt(b.has, "", l, b.n, b.off, b.sure, b.proc)
      /\ d = With(c.has \cup {l}, c.n, c.off, c.sure, c.proc)
  BY <1>5 DEF With, M
<1> HIDE DEF a, b, c, d, m
<1>7. Takes(<<"pushcli", l>>, a, b) /\ Takes(<<"xchg", l>>, b, c) /\ Takes(<<"own", l>>, c, d)
  <2>1. Takes(<<"pushcli", l>>, a, b)
    <3> DEFINE x == <<"pushcli", l>>
    <3>1. x[1] = "pushcli" /\ x[2] = l /\ ~EndsHandler(x)
      BY DEF EndsHandler
    <3> HIDE DEF x
    <3>2. /\ x[2] \in Spin!Locks /\ a.sure /\ a.want = "" /\ a.got = ""
          /\ b = Pt(a.has, x[2], "", a.n + 1, a.off, TRUE, a.proc)
      <4>1. b = Pt(a.has, l, "", a.n + 1, a.off, TRUE, a.proc) /\ l \in Spin!Locks
        BY <1>6
      <4> QED
        BY ONLY <1>5, <3>1, <4>1
    <3>3. a.proc = b.proc /\ (a.off <=> b.off \/ EndsHandler(x))
      BY <1>5, <3>1
    <3>4. Takes(x, a, b)
      BY <1>4, <3>1, <3>2, <3>3 DEF Takes
    <3> QED
      BY <3>4 DEF x
  <2>2. Takes(<<"xchg", l>>, b, c)
    <3> DEFINE x == <<"xchg", l>>
    <3>1. x[1] = "xchg" /\ x[2] = l /\ ~EndsHandler(x)
      BY DEF EndsHandler
    <3> HIDE DEF x
    <3>2. /\ x[2] \in Spin!Locks /\ b.want = x[2]
          /\ c = Pt(b.has, "", x[2], b.n, b.off, b.sure, b.proc)
      <4>1. c = Pt(b.has, "", l, b.n, b.off, b.sure, b.proc) /\ l \in Spin!Locks
        BY <1>6
      <4> QED
        BY ONLY <1>5, <3>1, <4>1
    <3>3. b.proc = c.proc /\ (b.off <=> c.off \/ EndsHandler(x))
      BY <1>5, <3>1
    <3>4. Takes(x, b, c)
      BY <1>4, <3>1, <3>2, <3>3 DEF Takes
    <3> QED
      BY <3>4 DEF x
  <2>3. Takes(<<"own", l>>, c, d)
    <3> DEFINE x == <<"own", l>>
    <3>1. x[1] = "own" /\ x[2] = l /\ ~EndsHandler(x)
      BY DEF EndsHandler
    <3> HIDE DEF x
    <3>2. /\ x[2] \in Spin!Locks /\ c.got = x[2] /\ c.want = ""
          /\ d = With(c.has \cup {x[2]}, c.n, c.off, c.sure, c.proc)
      <4>1. d = With(c.has \cup {l}, c.n, c.off, c.sure, c.proc) /\ l \in Spin!Locks
        BY <1>6
      <4>2. c.got = l /\ c.want = ""
        BY <1>5
      <4> QED
        BY ONLY <3>1, <4>1, <4>2
    <3>3. c.proc = d.proc /\ (c.off <=> d.off \/ EndsHandler(x))
      BY <1>5, <3>1
    <3>4. Takes(x, c, d)
      BY <1>4, <3>1, <3>2, <3>3 DEF Takes
    <3> QED
      BY <3>4 DEF x
  <2> QED
    BY <2>1, <2>2, <2>3
<1>8. Leads(Spin!Acquire(l), a, d)
  BY <1>7, LeadsThree, Zenon DEF Spin!Acquire
<1> QED
  BY <1>8 DEF a, d, M, m, With

LEMMA ReleaseLeads ==
  ASSUME NEW l \in Spin!Locks, NEW L \in SUBSET Spin!Locks, l \notin L, NEW n \in Nat,
         NEW off \in BOOLEAN, NEW sure \in BOOLEAN, NEW proc \in BOOLEAN,
         n = 0 <=> L = {}, n = 0 /\ ~sure => ~off
  PROVE  Leads(Spin!Release(l), With(L \cup {l}, n + 1, off, sure, proc), With(L, n, off, sure, proc))
<1> DEFINE M == L \cup {l}
           m == n + 1
           a == Pt(M, "", "", m, off, sure, proc)
           b == Pt(L, "", l, m, off, sure, proc)
           c == Pt(L, "", "", n, off, sure, proc)
<1>1. /\ l # "" /\ "" \notin L /\ "" \notin M /\ M \in SUBSET Spin!Locks /\ M # {}
      /\ L = M \ {l} /\ l \in M
  BY LockNames
<1>2. m \in Nat /\ m # 0 /\ m - 1 = n
  OBVIOUS
<1>3. l \in Spin!Locks \cup {""} /\ "" \in Spin!Locks \cup {""}
  OBVIOUS
<1> HIDE DEF M, m
<1>4. Legal(a) /\ Legal(b) /\ Legal(c)
  <2>1. Legal(a)
    BY <1>1, <1>2, <1>3, LegalAt
  <2>2. Legal(b)
    BY <1>1, <1>2, <1>3, LegalAt
  <2>3. Legal(c)
    BY <1>1, <1>3, LegalAt
  <2> QED
    BY <2>1, <2>2, <2>3
<1>5. /\ a.has = M /\ a.want = "" /\ a.got = "" /\ a.n = m /\ a.off = off /\ a.sure = sure /\ a.proc = proc
      /\ b.has = L /\ b.want = "" /\ b.got = l /\ b.n = m /\ b.off = off /\ b.sure = sure /\ b.proc = proc
      /\ c.off = off /\ c.proc = proc
  BY DEF Pt
<1>6. /\ b = Pt(a.has \ {l}, "", l, a.n, a.off, a.sure, a.proc)
      /\ c = With(b.has, b.n - 1, b.off, b.sure, b.proc)
  BY <1>1, <1>2, <1>5 DEF With
<1> HIDE DEF a, b, c
<1>7. Takes(<<"disown", l>>, a, b) /\ Takes(<<"unlock", l>>, b, c)
  BY <1>1, <1>4, <1>5, <1>6 DEF Takes, EndsHandler
<1>8. Leads(Spin!Release(l), a, c)
  BY <1>7, LeadsTwo, Zenon DEF Spin!Release
<1> QED
  BY <1>8 DEF a, c, M, m, With

\* The locks as the functions take them: one, or both of ptable.lock and tickslock.
LEMMA LockLeads ==
  ASSUME NEW off \in BOOLEAN, NEW sure \in BOOLEAN, NEW proc \in BOOLEAN
  PROVE  /\ \A l \in Spin!Locks :
              /\ Leads(Spin!Acquire(l), With({}, 0, off, TRUE, proc), With({l}, 1, off, TRUE, proc))
              /\ sure \/ ~off =>
                   Leads(Spin!Release(l), With({l}, 1, off, sure, proc), With({}, 0, off, sure, proc))
         /\ Leads(Spin!Acquire("ptable"), With({"time"}, 1, off, TRUE, proc),
                                          With({"time", "ptable"}, 2, off, TRUE, proc))
         /\ Leads(Spin!Release("ptable"), With({"time", "ptable"}, 2, off, TRUE, proc),
                                          With({"time"}, 1, off, TRUE, proc))
         /\ Leads(Spin!Release("time"), With({"time", "ptable"}, 2, off, TRUE, proc),
                                        With({"ptable"}, 1, off, TRUE, proc))
<1>1. ASSUME NEW l \in Spin!Locks
      PROVE  /\ Leads(Spin!Acquire(l), With({}, 0, off, TRUE, proc), With({l}, 1, off, TRUE, proc))
             /\ sure \/ ~off =>
                  Leads(Spin!Release(l), With({l}, 1, off, sure, proc), With({}, 0, off, sure, proc))
  <2>1. {} \in SUBSET Spin!Locks /\ {} \cup {l} = {l} /\ 0 \in Nat /\ 0 + 1 = 1 /\ l \notin {}
        /\ TRUE \in BOOLEAN
    OBVIOUS
  <2>2. Leads(Spin!Acquire(l), With({}, 0, off, TRUE, proc), With({} \cup {l}, 0 + 1, off, TRUE, proc))
    BY <2>1, AcquireLeads
  <2>3. ASSUME sure \/ ~off
        PROVE  Leads(Spin!Release(l), With({} \cup {l}, 0 + 1, off, sure, proc), With({}, 0, off, sure, proc))
    BY <2>1, <2>3, ReleaseLeads
  <2> QED
    BY <2>1, <2>2, <2>3
<1>2. /\ {"time"} \in SUBSET Spin!Locks /\ {"ptable"} \in SUBSET Spin!Locks
      /\ "time" \in Spin!Locks /\ "ptable" \in Spin!Locks
      /\ {"time"} \cup {"ptable"} = {"time", "ptable"} /\ {"ptable"} \cup {"time"} = {"time", "ptable"}
      /\ 1 + 1 = 2 /\ 1 \in Nat /\ TRUE \in BOOLEAN /\ {"time"} # {} /\ {"ptable"} # {} /\ 1 # 0
      /\ "ptable" \notin {"time"} /\ "time" \notin {"ptable"}
  BY DEF Spin!Locks
<1>3. Leads(Spin!Acquire("ptable"), With({"time"}, 1, off, TRUE, proc),
                                    With({"time"} \cup {"ptable"}, 1 + 1, off, TRUE, proc))
  BY <1>2, AcquireLeads
<1>4. Leads(Spin!Release("ptable"), With({"time"} \cup {"ptable"}, 1 + 1, off, TRUE, proc),
                                    With({"time"}, 1, off, TRUE, proc))
  BY <1>2, ReleaseLeads
<1>5. Leads(Spin!Release("time"), With({"ptable"} \cup {"time"}, 1 + 1, off, TRUE, proc),
                                  With({"ptable"}, 1, off, TRUE, proc))
  BY <1>2, ReleaseLeads
<1> QED
  BY <1>1, <1>2, <1>3, <1>4, <1>5

\* A step that only needs a lock, or nothing: the locks and the point are the same after it.
LEMMA StayLeads ==
  ASSUME NEW off \in BOOLEAN, NEW proc \in BOOLEAN, NEW L \in SUBSET Spin!Locks, L # {},
         NEW n \in Nat, n # 0, NEW x, Stays(x), Guarded(x, L)
  PROVE  Leads(<<x>>, With(L, n, off, TRUE, proc), With(L, n, off, TRUE, proc))
<1> DEFINE a == With(L, n, off, TRUE, proc)
<1>1. Legal(a) /\ a.n > 0 /\ a.off \in BOOLEAN /\ a.has = L
  <2>1. "" \in Spin!Locks \cup {""} /\ "" \notin L
    BY LockNames
  <2>2. a.n > 0 /\ a.off \in BOOLEAN /\ a.has = L
    BY DEF Pt, With
  <2> QED
    BY <2>1, <2>2, LegalAt DEF With
<1>2. ~EndsHandler(x)
  BY DEF EndsHandler, Stays
<1> HIDE DEF a
<1>3. Takes(x, a, a)
  BY <1>1, <1>2 DEF Takes
<1> QED
  BY <1>3, LeadsOne DEF a

LEMMA SchedLeads ==
  ASSUME NEW off \in BOOLEAN
  PROVE  LET a == With({"ptable"}, 1, off, TRUE, TRUE) IN
         /\ \A s \in {"RUNNABLE", "SLEEPING"} : Leads(<< <<"sched", s>> >>, a, a)
         /\ \A on1 : on1 = ~off => Leads(<< <<"restore", on1>> >>, Switched(off, TRUE), a)
<1> DEFINE a == With({"ptable"}, 1, off, TRUE, TRUE)
           b == Switched(off, TRUE)
<1>1. Legal(a) /\ Legal(b)
  <2>1. {"ptable"} \in SUBSET Spin!Locks /\ {"ptable"} # {} /\ "" \in Spin!Locks \cup {""}
        /\ "" \notin {"ptable"} /\ 1 \in Nat /\ 1 # 0
    BY DEF Spin!Locks
  <2> QED
    BY <2>1, LegalAt DEF With, Switched
<1>2. a.off = off /\ b.off = off /\ a.proc = TRUE /\ b.proc = TRUE
  BY DEF Pt, With, Switched
<1>3. a = With({"ptable"}, 1, a.off, TRUE, TRUE) /\ a = With({"ptable"}, 1, b.off, TRUE, TRUE)
      /\ b = Switched(b.off, TRUE)
  BY <1>2
<1> HIDE DEF a, b
<1>4. ASSUME NEW s \in {"RUNNABLE", "SLEEPING"} PROVE Takes(<<"sched", s>>, a, a)
  BY <1>1, <1>2, <1>3 DEF Takes, EndsHandler
<1>5. ASSUME NEW on1, on1 = ~off PROVE Takes(<<"restore", on1>>, b, a)
  BY <1>1, <1>2, <1>3, <1>5 DEF Takes, EndsHandler
<1>6. \A s \in {"RUNNABLE", "SLEEPING"} : Leads(<< <<"sched", s>> >>, a, a)
  BY <1>4, LeadsOne, Zenon
<1>7. \A on1 : on1 = ~off => Leads(<< <<"restore", on1>> >>, b, a)
  BY <1>5, LeadsOne, Zenon
<1> QED
  BY <1>6, <1>7, Zenon DEF a, b

\* A new process, and the last step of a system call, of the timer's handler, and of
\* fork's child.
LEMMA IretLeads ==
  /\ Leads(<< <<"iret", "call">> >>, Outside(TRUE), Outside(TRUE))
  /\ Leads(<< <<"iret", "fork">> >>, With({}, 0, FALSE, FALSE, TRUE), Outside(TRUE))
  /\ \A sure, proc \in BOOLEAN :
       Leads(<< <<"iret", "timer">> >>, With({}, 0, TRUE, TRUE, proc), With({}, 0, FALSE, sure, proc))
<1>1. ASSUME NEW off \in BOOLEAN, NEW sure \in BOOLEAN, NEW proc \in BOOLEAN, sure \/ ~off
      PROVE  Legal(With({}, 0, off, sure, proc))
  <2>1. {} \in SUBSET Spin!Locks /\ "" \in Spin!Locks \cup {""} /\ "" \notin {} /\ 0 \in Nat
    OBVIOUS
  <2> QED
    BY <1>1, <2>1, LegalAt DEF With
<1>2. Legal(Outside(TRUE)) /\ Legal(With({}, 0, FALSE, FALSE, TRUE))
  BY <1>1 DEF Outside
<1>3. Takes(<<"iret", "call">>, Outside(TRUE), Outside(TRUE))
  BY <1>2 DEF Takes, EndsHandler, Outside, With, Pt
<1>4. Takes(<<"iret", "fork">>, With({}, 0, FALSE, FALSE, TRUE), Outside(TRUE))
  BY <1>2 DEF Takes, EndsHandler, Outside, With, Pt
<1>5. ASSUME NEW sure \in BOOLEAN, NEW proc \in BOOLEAN
      PROVE  Takes(<<"iret", "timer">>, With({}, 0, TRUE, TRUE, proc), With({}, 0, FALSE, sure, proc))
  <2> DEFINE a == With({}, 0, TRUE, TRUE, proc)
             b == With({}, 0, FALSE, sure, proc)
             x == <<"iret", "timer">>
  <2>1. Legal(a) /\ Legal(b)
    BY <1>1
  <2>2. a.proc = proc /\ b.proc = proc /\ a.off = TRUE /\ b.off = FALSE /\ b.sure = sure
    BY DEF With, Pt
  <2>3. a = With({}, 0, TRUE, TRUE, a.proc) /\ b = With({}, 0, FALSE, b.sure, a.proc)
    BY <2>2
  <2>4. EndsHandler(x)
    BY DEF EndsHandler
  <2> HIDE DEF a, b
  <2> QED
    BY <2>1, <2>2, <2>3, <2>4 DEF Takes
<1> QED
  BY <1>3, <1>4, <1>5, LeadsOne, Zenon

LEMMA TimeLeads ==
  \A x : ReadsTime(x) =>
    Leads(<<x>>, With({"time"}, 1, FALSE, TRUE, TRUE), With({"time"}, 1, FALSE, TRUE, TRUE))
<1> DEFINE a == With({"time"}, 1, FALSE, TRUE, TRUE)
<1>1. Legal(a)
  <2>1. {"time"} \in SUBSET Spin!Locks /\ {"time"} # {} /\ "" \in Spin!Locks \cup {""}
        /\ "" \notin {"time"} /\ 1 \in Nat /\ 1 # 0
    BY DEF Spin!Locks
  <2> QED
    BY <2>1, LegalAt DEF With
<1>2. a.off = FALSE
  BY DEF With, Pt
<1> HIDE DEF a
<1>3. ASSUME NEW x, ReadsTime(x) PROVE Leads(<<x>>, a, a)
  <2>1. Takes(x, a, a)
    BY <1>1, <1>2, <1>3 DEF Takes, EndsHandler, ReadsTime, a
  <2> QED
    BY <2>1, LeadsOne
<1> QED
  BY <1>3 DEF a

LEMMA YieldLeads ==
  ASSUME NEW off \in BOOLEAN
  PROVE  Leads(Spin!Yield, With({}, 0, off, TRUE, TRUE), With({}, 0, off, TRUE, TRUE))
<1> DEFINE a == With({}, 0, off, TRUE, TRUE)
           b == With({"ptable"}, 1, off, TRUE, TRUE)
<1>1. Leads(Spin!Acquire("ptable"), a, b) /\ Leads(Spin!Release("ptable"), b, a)
  BY LockLeads, LockNames
<1>2. Leads(<< <<"sched", "RUNNABLE">> >>, b, b)
  BY SchedLeads
<1> HIDE DEF a, b
<1>3. Leads(Spin!Acquire("ptable") \o << <<"sched", "RUNNABLE">> >>, a, b)
  BY <1>1, <1>2, LeadsOn, Zenon
<1>4. Leads(Spin!Acquire("ptable") \o << <<"sched", "RUNNABLE">> >> \o Spin!Release("ptable"), a, a)
  BY <1>1, <1>3, LeadsOn, Zenon
<1> QED
  BY <1>4, Zenon DEF Spin!Yield, a

LEMMA SleepLeads ==
  LET a == With({"time"}, 1, FALSE, TRUE, TRUE) IN Leads(Spin!Sleep, a, a)
<1> DEFINE a == With({"time"}, 1, FALSE, TRUE, TRUE)
           b == With({"time", "ptable"}, 2, FALSE, TRUE, TRUE)
           c == With({"ptable"}, 1, FALSE, TRUE, TRUE)
           d == With({}, 0, FALSE, TRUE, TRUE)
<1>1. /\ Leads(Spin!Acquire("ptable"), a, b) /\ Leads(Spin!Release("time"), b, c)
      /\ Leads(Spin!Release("ptable"), c, d) /\ Leads(Spin!Acquire("time"), d, a)
  BY LockLeads, LockNames
<1>2. Leads(<< <<"sched", "SLEEPING">> >>, c, c)
  BY SchedLeads
<1> HIDE DEF a, b, c, d
<1>3. Leads(Spin!Acquire("ptable") \o Spin!Release("time"), a, c)
  BY <1>1, LeadsOn, Zenon
<1>4. Leads(Spin!Acquire("ptable") \o Spin!Release("time") \o << <<"sched", "SLEEPING">> >>, a, c)
  BY <1>2, <1>3, LeadsOn, Zenon
<1>5. Leads(Spin!Acquire("ptable") \o Spin!Release("time") \o << <<"sched", "SLEEPING">> >>
              \o Spin!Release("ptable"), a, d)
  BY <1>1, <1>4, LeadsOn, Zenon
<1>6. Leads(Spin!Sleep, a, a)
  BY <1>1, <1>5, LeadsOn, Zenon DEF Spin!Sleep
<1> QED
  BY <1>6 DEF a

LEMMA SysSleepLeads == Leads(Spin!SysSleep, Outside(TRUE), Outside(TRUE))
<1> DEFINE a == With({}, 0, FALSE, TRUE, TRUE)
           b == With({"time"}, 1, FALSE, TRUE, TRUE)
<1>1. Leads(Spin!Acquire("time"), a, b) /\ Leads(Spin!Release("time"), b, a)
  BY LockLeads, LockNames
<1>2. Leads(<< <<"ticks0">> >>, b, b)
  <2>1. ReadsTime(<<"ticks0">>)
    BY DEF ReadsTime
  <2> QED
    BY <2>1, TimeLeads, Zenon
<1> HIDE DEF a, b
<1>3. Leads(Spin!Acquire("time") \o << <<"ticks0">> >>, a, b)
  BY <1>1, <1>2, LeadsOn, Zenon
<1>4. Leads(Spin!SysSleep, a, a)
  BY <1>1, <1>3, LeadsOn, Zenon DEF Spin!SysSleep
<1> QED
  BY <1>4 DEF a, Outside

LEMMA SyscallLeads ==
  ASSUME NEW body, Leads(body, Outside(TRUE), Outside(TRUE))
  PROVE  Leads(Spin!Syscall(body), Outside(TRUE), Outside(TRUE))
<1> DEFINE a == With({}, 0, FALSE, TRUE, TRUE)
           b == With({"all"}, 1, FALSE, TRUE, TRUE)
           c == With({"each"}, 1, FALSE, TRUE, TRUE)
           A1 == Spin!Acquire("all")
           A2 == << <<"load", "all">> >>
           A3 == Spin!Release("all")
           C1 == Spin!Acquire("each")
           C2 == << <<"mycpu">> >>
           C3 == Spin!Release("each")
           D1 == << <<"iret", "call">> >>
<1>1. Leads(A1, a, b) /\ Leads(A3, b, a) /\ Leads(C1, a, c) /\ Leads(C3, c, a)
  BY LockLeads, LockNames
<1>2. Leads(A2, b, b) /\ Leads(C2, c, c)
  <2>1. /\ {"all"} \in SUBSET Spin!Locks /\ {"all"} # {} /\ {"each"} \in SUBSET Spin!Locks /\ {"each"} # {}
        /\ 1 \in Nat /\ 1 # 0 /\ TRUE \in BOOLEAN /\ FALSE \in BOOLEAN
    BY DEF Spin!Locks
  <2>2. /\ Stays(<<"load", "all">>) /\ Guarded(<<"load", "all">>, {"all"})
        /\ Stays(<<"mycpu">>) /\ Guarded(<<"mycpu">>, {"each"})
    BY SpinLockConstants DEF Stays, Guarded, Marks
  <2> QED
    BY <2>1, <2>2, StayLeads, Zenon
<1>3. Leads(body, a, a) /\ Leads(D1, a, a) /\ a = Outside(TRUE)
  BY IretLeads DEF Outside
<1> HIDE DEF a, b, c, A1, A2, A3, C1, C2, C3, D1
<1>4. Leads(body \o A1 \o A2 \o A3, a, a)
  BY <1>1, <1>2, <1>3, LeadsOn, Zenon
<1>5. Leads(body \o A1 \o A2 \o A3 \o C1 \o C2 \o C3 \o D1, a, a)
  BY <1>1, <1>2, <1>3, <1>4, LeadsOn, Zenon
<1> QED
  BY <1>3, <1>5, Zenon DEF Spin!Syscall, A1, A2, A3, C1, C2, C3, D1

\* The handler of the timer, from the interrupt gate to where it interrupted.
LEMMA TimerLeads ==
  ASSUME NEW c, NEW t, NEW sure \in BOOLEAN
  PROVE  LET proc == t \in Spin!Proc
         IN  Leads(Spin!Timer(c, t), With({}, 0, TRUE, TRUE, proc), With({}, 0, FALSE, sure, proc))
<1> DEFINE proc == t \in Spin!Proc
           a == With({}, 0, TRUE, TRUE, proc)
           b == With({"time"}, 1, TRUE, TRUE, proc)
           d == With({"time", "ptable"}, 2, TRUE, TRUE, proc)
           e == With({}, 0, FALSE, sure, proc)
           A1 == Spin!Acquire("time")
           A2 == << <<"tick">> >>
           A3 == Spin!Acquire("ptable")
           A4 == << <<"wakeup">> >>
           A5 == Spin!Release("ptable")
           A6 == Spin!Release("time")
           D1 == << <<"iret", "timer">> >>
<1>0. proc \in BOOLEAN
  OBVIOUS
<1>1. /\ Leads(A1, a, b) /\ Leads(A3, b, d) /\ Leads(A5, d, b) /\ Leads(A6, b, a)
  BY <1>0, LockLeads, LockNames
<1>2. Leads(A2, b, b) /\ Leads(A4, d, d)
  <2>1. /\ {"time"} \in SUBSET Spin!Locks /\ {"time"} # {} /\ 1 \in Nat /\ 1 # 0 /\ 2 \in Nat /\ 2 # 0
        /\ {"time", "ptable"} \in SUBSET Spin!Locks /\ {"time", "ptable"} # {} /\ TRUE \in BOOLEAN
    BY DEF Spin!Locks
  <2>2. /\ Stays(<<"tick">>) /\ Guarded(<<"tick">>, {"time"})
        /\ Stays(<<"wakeup">>) /\ Guarded(<<"wakeup">>, {"time", "ptable"})
    BY DEF Stays, Guarded, Marks
  <2> QED
    BY <1>0, <2>1, <2>2, StayLeads, Zenon
<1>3. Leads(D1, a, e)
  BY <1>0, IretLeads
<1>4. proc => Leads(Spin!Yield, a, a)
  <2>1. Leads(Spin!Yield, With({}, 0, TRUE, TRUE, TRUE), With({}, 0, TRUE, TRUE, TRUE))
    BY YieldLeads
  <2> QED
    BY <2>1
<1> HIDE DEF a, b, d, e, A1, A2, A3, A4, A5, A6, D1
<1> DEFINE M == IF c = Boot THEN A1 \o A2 \o A3 \o A4 \o A5 \o A6 ELSE <<>>
           Y == IF t \in Spin!Proc THEN Spin!Yield ELSE <<>>
<1>5. Leads(A1 \o A2 \o A3 \o A4 \o A5 \o A6, a, a)
  BY <1>1, <1>2, LeadsOn, Zenon
<1>6. Leads(M, a, a) /\ Leads(Y, a, a)
  BY <1>4, <1>5, LeadsNowhere
<1> HIDE DEF M, Y
<1>7. Leads(M \o Y \o D1, a, e)
  BY <1>3, <1>6, LeadsOn, Zenon
<1>8. M \o Y \o D1 = Spin!Timer(c, t)
  BY Zenon DEF Spin!Timer, M, Y, A1, A2, A3, A4, A5, A6, D1
<1> QED
  BY <1>7, <1>8 DEF a, e

\* The child of fork() from forkret(), and a round of the scheduler.
LEMMA RoundLeads ==
  /\ Leads(Spin!Forkret, Switched(FALSE, TRUE), Outside(TRUE))
  /\ \A sure \in BOOLEAN, k \in Nat \ {0} :
       Leads(<< <<"scan", k>> >>, With({"ptable"}, 1, FALSE, sure, FALSE), Switched(FALSE, FALSE))
  /\ Leads(Spin!Release("ptable"), Switched(FALSE, FALSE), With({}, 0, FALSE, FALSE, FALSE))
  /\ Leads(Spin!Acquire("ptable") \o << <<"scan", 1>> >> \o Spin!Release("ptable"),
           Outside(FALSE), With({}, 0, FALSE, FALSE, FALSE))
<1> DEFINE a == Outside(FALSE)
           b == With({"ptable"}, 1, FALSE, TRUE, FALSE)
           c == Switched(FALSE, FALSE)
           d == With({}, 0, FALSE, FALSE, FALSE)
<1>1. /\ Leads(Spin!Release("ptable"), c, d) /\ Leads(Spin!Acquire("ptable"), a, b)
      /\ Leads(Spin!Release("ptable"), Switched(FALSE, TRUE), With({}, 0, FALSE, FALSE, TRUE))
  BY LockLeads, LockNames DEF Outside, Switched
<1>2. Leads(Spin!Forkret, Switched(FALSE, TRUE), Outside(TRUE))
  BY <1>1, IretLeads, LeadsOn, Zenon DEF Spin!Forkret
<1>3. ASSUME NEW sure \in BOOLEAN, NEW k \in Nat \ {0}
      PROVE  Leads(<< <<"scan", k>> >>, With({"ptable"}, 1, FALSE, sure, FALSE), c)
  <2> DEFINE e == With({"ptable"}, 1, FALSE, sure, FALSE)
  <2>1. {"ptable"} \in SUBSET Spin!Locks /\ {"ptable"} # {} /\ "" \in Spin!Locks \cup {""}
        /\ "" \notin {"ptable"} /\ 1 \in Nat /\ 1 # 0
    BY DEF Spin!Locks
  <2>2. Legal(e) /\ Legal(c)
    BY <2>1, LegalAt DEF With, Switched
  <2>3. e.off = FALSE /\ c.off = FALSE /\ e.proc = FALSE /\ c.proc = FALSE /\ e.sure = sure
    BY DEF With, Pt, Switched
  <2>4. e = With({"ptable"}, 1, FALSE, e.sure, FALSE)
    BY <2>3
  <2> HIDE DEF e, c
  <2>5. Takes(<<"scan", k>>, e, c)
    BY <2>2, <2>3, <2>4 DEF Takes, EndsHandler, c
  <2> QED
    BY <2>5, LeadsOne DEF e
<1>4. Leads(<< <<"scan", 1>> >>, b, c)
  <2>1. 1 \in Nat \ {0} /\ TRUE \in BOOLEAN
    OBVIOUS
  <2> QED
    BY <1>3, <2>1, Zenon
<1> HIDE DEF a, b, c, d
<1>5. Leads(Spin!Acquire("ptable") \o << <<"scan", 1>> >>, a, c)
  BY <1>1, <1>4, LeadsOn, Zenon
<1>6. Leads(Spin!Acquire("ptable") \o << <<"scan", 1>> >> \o Spin!Release("ptable"), a, d)
  BY <1>1, <1>5, LeadsOn, Zenon
<1> QED
  BY <1>1, <1>2, <1>3, <1>6 DEF a, c, d

-----------------------------------------------------------------------------
\* The invariant: each processor c is at a point A[c] of an outline of its thread.
SpinTypes ==
  /\ held \in [Spin!Locks -> BOOLEAN] /\ holder \in [Spin!Locks -> LockCpus \cup {None}]
  /\ iflag \in [LockCpus -> BOOLEAN] /\ ncli \in [LockCpus -> Nat]
  /\ intena \in [LockCpus -> BOOLEAN] /\ on \in [LockCpus -> Spin!Thread]
  /\ tstate \in [Spin!Proc -> {"RUNNABLE", "RUNNING", "SLEEPING"}]
  /\ todo = [t \in Spin!Thread |-> todo[t]]

Owns(a) == a.has \cup {a.got}

\* What the processor c has in memory when its thread is at a.
Fits(c, a) ==
  /\ ncli[c] = a.n
  /\ \A l \in Spin!Locks : (holder[l] = c <=> l \in a.has) /\ (l \in Owns(a) => held[l])
  /\ iflag[c] => a.n = 0
  /\ a.sure => IF a.n = 0 THEN iflag[c] = ~a.off ELSE intena[c] = ~a.off

\* A processor executes its own scheduler or a process, which no other one executes.
Placed == \A c \in LockCpus :
  /\ on[c] \in LockCpus => on[c] = c
  /\ on[c] \in Spin!Proc => tstate[on[c]] = "RUNNING"
  /\ \A d \in LockCpus : on[c] = on[d] => c = d

\* The threads that are not executed wait in swtch().
Waiting ==
  /\ \A p \in Spin!Proc : (\A c \in LockCpus : on[c] # p) =>
       \E off \in BOOLEAN : Leads(todo[p], Switched(off, TRUE), Outside(TRUE))
  /\ \A c \in LockCpus : on[c] # c => Leads(todo[c], Switched(FALSE, FALSE), Rest(c))

SpinAt(A) ==
  /\ SpinTypes /\ ~panicked /\ Placed /\ Waiting
  /\ A \in [LockCpus -> Point]
  /\ \A c \in LockCpus : /\ Legal(A[c]) /\ Fits(c, A[c])
                         /\ A[c].proc = (on[c] \in Spin!Proc)
                         /\ Leads(todo[on[c]], A[c], Rest(on[c]))
  /\ \A c, d \in LockCpus : c # d => Owns(A[c]) \cap Owns(A[d]) \cap Spin!Locks = {}
  /\ \A l \in Spin!Locks : held[l] => \E c \in LockCpus : l \in Owns(A[c])

SpinInv == \E A : SpinAt(A)

LEMMA Threads0 ==
  /\ None \notin LockCpus /\ Spin!Thread = LockCpus \cup Spin!Proc
  /\ \A c \in LockCpus : c \notin Spin!Proc
BY SpinLockConstants DEF Spin!Thread, Spin!Proc

LEMMA InitSpin == Spin!Init => SpinInv
<1> SUFFICES ASSUME Spin!Init PROVE SpinInv
  OBVIOUS
<1> DEFINE a == With({}, 0, FALSE, FALSE, FALSE)
           A == [c \in LockCpus |-> a]
<1>1. /\ a.has = {} /\ a.want = "" /\ a.got = "" /\ a.n = 0 /\ a.off = FALSE
      /\ a.sure = FALSE /\ a.proc = FALSE
  BY DEF With, Pt
<1>2. Legal(a) /\ a \in Point
  <2>1. {} \in SUBSET Spin!Locks /\ "" \in Spin!Locks \cup {""} /\ "" \notin {} /\ 0 \in Nat
    OBVIOUS
  <2>2. Legal(a)
    BY <2>1, LegalAt DEF With
  <2> QED
    BY <2>2 DEF Legal
<1> HIDE DEF a
<1>3. \A c \in LockCpus : A[c] = a
  OBVIOUS
<1>4. A \in [LockCpus -> Point]
  BY <1>2
<1> HIDE DEF A
<1>5. SpinTypes /\ ~panicked /\ Placed
  BY Threads0 DEF Spin!Init, SpinTypes, Placed
<1>6. \A p \in Spin!Proc : todo[p] = Spin!Forkret
  BY Threads0 DEF Spin!Init
<1>7. \A c \in LockCpus : on[c] = c /\ todo[c] = <<>> /\ Rest(c) = a
  BY Threads0 DEF Spin!Init, Rest, a
<1>8. Waiting
  BY <1>6, <1>7, RoundLeads DEF Waiting
<1>9. \A c \in LockCpus : Fits(c, a)
  BY <1>1, Threads0 DEF Fits, Owns, Spin!Init, Spin!Locks
<1>10. ASSUME NEW c \in LockCpus
       PROVE  a.proc = (on[c] \in Spin!Proc) /\ Leads(todo[on[c]], a, Rest(on[c]))
  <2>1. on[c] = c /\ todo[on[c]] = <<>> /\ Rest(on[c]) = a
    BY <1>7
  <2>2. Leads(<<>>, a, a)
    BY LeadsNowhere
  <2>3. ~(on[c] \in Spin!Proc) /\ ~a.proc /\ a.proc \in BOOLEAN
    BY <1>1, <2>1, Threads0
  <2> QED
    BY <2>1, <2>2, <2>3
<1>11. Owns(a) \cap Spin!Locks = {}
  BY <1>1, LockNames DEF Owns
<1>12. \A l \in Spin!Locks : ~held[l]
  BY DEF Spin!Init
<1>13. SpinAt(A)
  BY <1>2, <1>3, <1>4, <1>5, <1>8, <1>9, <1>10, <1>11, <1>12 DEF SpinAt
<1> QED
  BY <1>13 DEF SpinInv

\* The step that c executes next, and where it leads.
LEMMA NextStep ==
  ASSUME NEW A, SpinAt(A), NEW c \in LockCpus, todo[on[c]] # <<>>
  PROVE  \E b : /\ Takes(Head(todo[on[c]]), A[c], b)
                /\ Leads(Tail(todo[on[c]]), b, Rest(on[c]))
                /\ Legal(b) /\ b \in Point /\ b.proc = A[c].proc
<1>1. Leads(todo[on[c]], A[c], Rest(on[c]))
  BY DEF SpinAt
<1>2. PICK b : Takes(Head(todo[on[c]]), A[c], b) /\ Leads(Tail(todo[on[c]]), b, Rest(on[c]))
  BY <1>1, LeadsTail
<1>3. Legal(b) /\ b \in Point /\ b.proc = A[c].proc
  BY <1>2 DEF Takes, Legal
<1> QED
  BY <1>2, <1>3

\* What a step of c may change: what is its own, and a lock that it has or that is free.
Own(c, A) ==
  /\ \A d \in LockCpus \ {c} : ncli'[d] = ncli[d] /\ iflag'[d] = iflag[d] /\ intena'[d] = intena[d]
  /\ \A l \in Spin!Locks :
       /\ holder'[l] = holder[l] \/ (l \in Owns(A[c]) /\ holder'[l] \in {c, None})
       /\ held'[l] = held[l] \/ l \in Owns(A[c]) \/ ~held[l]

\* The other processors do not notice.
LEMMA OthersFit ==
  ASSUME NEW A, SpinAt(A), NEW c \in LockCpus, NEW d \in LockCpus, c # d, Own(c, A)
  PROVE  Fits(d, A[d])'
<1> DEFINE a == A[d]
<1>1. Fits(d, a) /\ Owns(A[c]) \cap Owns(a) \cap Spin!Locks = {} /\ None # d
  BY Threads0 DEF SpinAt
<1>2. ncli'[d] = ncli[d] /\ iflag'[d] = iflag[d] /\ intena'[d] = intena[d]
  BY DEF Own
<1>3. ASSUME NEW l \in Spin!Locks
      PROVE  (holder'[l] = d <=> l \in a.has) /\ (l \in Owns(a) => held'[l])
  <2>1. (holder[l] = d <=> l \in a.has) /\ (l \in Owns(a) => held[l])
    BY <1>1 DEF Fits
  <2>2. l \in a.has => l \in Owns(a)
    BY DEF Owns
  <2>3. l \in Owns(A[c]) => l \notin Owns(a)
    BY <1>1
  <2>4. /\ holder'[l] = holder[l] \/ (l \in Owns(A[c]) /\ holder'[l] \in {c, None})
        /\ held'[l] = held[l] \/ l \in Owns(A[c]) \/ ~held[l]
    BY DEF Own
  <2> QED
    BY <1>1, <2>1, <2>2, <2>3, <2>4
<1> HIDE DEF a
<1>4. /\ ncli'[d] = a.n /\ (iflag'[d] => a.n = 0)
      /\ a.sure => IF a.n = 0 THEN iflag'[d] = ~a.off ELSE intena'[d] = ~a.off
  BY <1>1, <1>2 DEF Fits
<1> QED
  BY <1>3, <1>4 DEF Fits, a

\* c goes to the point b, with s to execute.
LEMMA Moved ==
  ASSUME NEW A, SpinAt(A), NEW c \in LockCpus, NEW b, NEW s, Own(c, A),
         todo' = [todo EXCEPT ![on[c]] = s], UNCHANGED on, SpinTypes', ~panicked',
         \A p \in Spin!Proc : tstate[p] = "RUNNING" => tstate'[p] = "RUNNING",
         Legal(b), b.proc = A[c].proc, Leads(s, b, Rest(on[c])), Fits(c, b)',
         \A l \in Spin!Locks : l \in Owns(b) /\ l \notin Owns(A[c]) => ~held[l],
         \A l \in Spin!Locks : held'[l] => l \in Owns(b) \/ (held[l] /\ l \notin Owns(A[c]))
  PROVE  SpinInv'
<1> DEFINE B == [A EXCEPT ![c] = b]
<1>1. A \in [LockCpus -> Point] /\ b \in Point /\ SpinTypes
  BY DEF SpinAt, Legal
<1>2. B \in [LockCpus -> Point] /\ B[c] = b /\ \A d \in LockCpus : d # c => B[d] = A[d]
  BY <1>1
<1> HIDE DEF B
<1>3. on[c] \in Spin!Thread /\ todo'[on[c]] = s /\ \A t \in Spin!Thread : t # on[c] => todo'[t] = todo[t]
  BY <1>1 DEF SpinTypes
<1>4. Placed'
  BY DEF SpinAt, Placed
<1>5. Waiting'
  <2>1. ASSUME NEW p \in Spin!Proc, \A d \in LockCpus : on[d] # p PROVE todo'[p] = todo[p]
    BY <1>3, <2>1, Threads0
  <2>2. ASSUME NEW d \in LockCpus, on[d] # d PROVE todo'[d] = todo[d]
    BY <1>3, <2>2, Threads0 DEF SpinAt, Placed
  <2> QED
    BY <2>1, <2>2 DEF SpinAt, Waiting
<1>6. ASSUME NEW d \in LockCpus
      PROVE  /\ Legal(B[d]) /\ Fits(d, B[d])' /\ B[d].proc = (on'[d] \in Spin!Proc)
             /\ Leads(todo'[on'[d]], B[d], Rest(on'[d]))
  <2>1. CASE d = c
    BY <1>2, <1>3, <2>1 DEF SpinAt
  <2>2. CASE d # c
    <3>1. on[d] # on[c] /\ on[d] \in Spin!Thread
      BY <1>1, <2>2 DEF SpinAt, Placed, SpinTypes
    <3>2. Fits(d, A[d])'
      BY <2>2, OthersFit
    <3>3. B[d] = A[d] /\ todo'[on'[d]] = todo[on[d]]
      BY <1>2, <1>3, <2>2, <3>1
    <3>4. Fits(d, B[d])'
      BY <3>2, <3>3 DEF Fits
    <3> QED
      BY <3>3, <3>4 DEF SpinAt
  <2> QED
    BY <2>1, <2>2
<1>7. ASSUME NEW d \in LockCpus, d # c PROVE Owns(b) \cap Owns(A[d]) \cap Spin!Locks = {}
  <2> SUFFICES ASSUME NEW l \in Spin!Locks, l \in Owns(b), l \in Owns(A[d]) PROVE FALSE
    OBVIOUS
  <2>1. held[l]
    BY DEF SpinAt, Fits
  <2>2. l \notin Owns(A[c])
    BY <1>7 DEF SpinAt
  <2> QED
    BY <2>1, <2>2
<1>8. ASSUME NEW d \in LockCpus, NEW e \in LockCpus, d # e
      PROVE  Owns(B[d]) \cap Owns(B[e]) \cap Spin!Locks = {}
  <2>1. CASE d = c
    BY <1>2, <1>7, <1>8, <2>1
  <2>2. CASE e = c
    BY <1>2, <1>7, <1>8, <2>2
  <2>3. CASE d # c /\ e # c
    BY <1>2, <1>8, <2>3 DEF SpinAt
  <2> QED
    BY <2>1, <2>2, <2>3
<1>9. ASSUME NEW l \in Spin!Locks, held'[l] PROVE \E d \in LockCpus : l \in Owns(B[d])
  <2>1. CASE l \in Owns(b)
    BY <1>2, <2>1
  <2>2. CASE held[l] /\ l \notin Owns(A[c])
    <3>1. PICK d \in LockCpus : l \in Owns(A[d])
      BY <2>2 DEF SpinAt
    <3>2. d # c
      BY <2>2, <3>1
    <3> QED
      BY <1>2, <3>1, <3>2
  <2> QED
    BY <1>9, <2>1, <2>2
<1>10. SpinAt(B)'
  BY <1>2, <1>4, <1>5, <1>6, <1>8, <1>9 DEF SpinAt
<1> QED
  BY <1>10 DEF SpinInv

\* A step that leaves the locks and the interrupts alone.
LEMMA Quiet ==
  ASSUME NEW A, SpinAt(A), NEW c \in LockCpus, NEW b, NEW s,
         UNCHANGED <<held, holder, iflag, ncli, intena, on>>,
         todo' = [todo EXCEPT ![on[c]] = s], ~panicked',
         tstate' \in [Spin!Proc -> {"RUNNABLE", "RUNNING", "SLEEPING"}],
         \A p \in Spin!Proc : tstate[p] = "RUNNING" => tstate'[p] = "RUNNING",
         Legal(b), b.proc = A[c].proc, Leads(s, b, Rest(on[c])),
         b.has = A[c].has, b.got = A[c].got, b.n = A[c].n,
         b.sure => A[c].sure /\ b.off = A[c].off
  PROVE  SpinInv'
<1> DEFINE a == A[c]
<1>1. SpinTypes'
  BY DEF SpinAt, SpinTypes
<1>2. Own(c, A)
  BY DEF Own
<1>3. Owns(b) = Owns(a)
  BY DEF Owns
<1>4. Fits(c, a)
  BY DEF SpinAt
<1> HIDE DEF a
<1>5. Fits(c, b)'
  BY <1>3, <1>4 DEF Fits, a
<1>6. \A l \in Spin!Locks : l \in Owns(b) /\ l \notin Owns(A[c]) => ~held[l]
  BY <1>3 DEF a
<1>7. \A l \in Spin!Locks : held'[l] => l \in Owns(b) \/ (held[l] /\ l \notin Owns(A[c]))
  BY <1>3 DEF a
<1> QED
  BY <1>1, <1>2, <1>5, <1>6, <1>7, Moved

LEMMA TodoTypes ==
  ASSUME SpinTypes, NEW t, NEW s, todo' = [todo EXCEPT ![t] = s]
  PROVE  todo' = [u \in Spin!Thread |-> todo'[u]]
BY DEF SpinTypes

\* Nothing is put in front of the rest.
LEMMA JustTail ==
  ASSUME NEW c, NEW b, Leads(Tail(todo[on[c]]), b, Rest(on[c])), Spin!Done(c)
  PROVE  LET s == <<>> \o Tail(todo[on[c]])
         IN  todo' = [todo EXCEPT ![on[c]] = s] /\ Leads(s, b, Rest(on[c]))
<1>1. Leads(<<>> \o Tail(todo[on[c]]), b, Rest(on[c]))
  BY LeadsNowhere, LeadsOn
<1>2. todo' = [todo EXCEPT ![on[c]] = <<>> \o Tail(todo[on[c]])]
  BY DEF Spin!Done, Spin!Become
<1> QED
  BY <1>1, <1>2

\* What each step that c executes needs and does.
LEMMA TakesIs ==
  ASSUME NEW x, NEW a, NEW b, Takes(x, a, b)
  PROVE  /\ x[1] = "pushcli" =>
              /\ x[2] \in Spin!Locks /\ a.sure /\ a.want = "" /\ a.got = ""
              /\ b = Pt(a.has, x[2], "", a.n + 1, a.off, TRUE, a.proc)
         /\ x[1] = "xchg" => x[2] \in Spin!Locks /\ a.want = x[2]
                             /\ b = Pt(a.has, "", x[2], a.n, a.off, a.sure, a.proc)
         /\ x[1] = "own" => x[2] \in Spin!Locks /\ a.got = x[2]
                            /\ b = With(a.has \cup {x[2]}, a.n, a.off, a.sure, a.proc)
         /\ x[1] = "disown" => x[2] \in a.has /\ a.got = ""
                               /\ b = Pt(a.has \ {x[2]}, "", x[2], a.n, a.off, a.sure, a.proc)
         /\ x[1] = "unlock" => x[2] \in Spin!Locks /\ a.got = x[2]
                               /\ b = With(a.has, a.n - 1, a.off, a.sure, a.proc)
         /\ x[1] = "sched" => x[2] \in {"RUNNABLE", "SLEEPING"} /\ b = a
                              /\ a = With({"ptable"}, 1, a.off, TRUE, TRUE)
         /\ x[1] = "restore" => x[2] = ~a.off /\ a = Switched(a.off, TRUE)
                                /\ b = With({"ptable"}, 1, a.off, TRUE, TRUE)
         /\ x[1] = "scan" => x[2] \in Nat \ {0} /\ b = Switched(FALSE, FALSE)
                             /\ a = With({"ptable"}, 1, FALSE, a.sure, FALSE)
         /\ x[1] = "iret" => a.n = 0 /\ a.has = {} /\ b.n = 0 /\ b.has = {} /\ b.off = FALSE
                             /\ a.got = "" /\ b.got = "" /\ (~a.sure => x = <<"iret", "fork">>)
         /\ ReadsTime(x) => b = a /\ a = With({"time"}, 1, FALSE, TRUE, TRUE)
         /\ Stays(x) => b = a /\ a.n > 0 /\ Guarded(x, a.has)
         /\ x[1] \in {"pushcli", "xchg", "own", "disown", "unlock", "sched", "restore", "scan", "iret",
                      "ticks0", "while", "tick", "wakeup", "mycpu", "load", "store"}
<1> DEFINE D1 == x[1] = "pushcli" /\ x[2] \in Spin!Locks /\ a.sure /\ a.want = "" /\ a.got = ""
                 /\ b = Pt(a.has, x[2], "", a.n + 1, a.off, TRUE, a.proc)
           D2 == x[1] = "xchg" /\ x[2] \in Spin!Locks /\ a.want = x[2]
                 /\ b = Pt(a.has, "", x[2], a.n, a.off, a.sure, a.proc)
           D3 == x[1] = "own" /\ x[2] \in Spin!Locks /\ a.got = x[2] /\ a.want = ""
                 /\ b = With(a.has \cup {x[2]}, a.n, a.off, a.sure, a.proc)
           D4 == x[1] = "disown" /\ x[2] \in a.has /\ a.want = "" /\ a.got = ""
                 /\ b = Pt(a.has \ {x[2]}, "", x[2], a.n, a.off, a.sure, a.proc)
           D5 == x[1] = "unlock" /\ x[2] \in Spin!Locks /\ a.got = x[2] /\ a.want = ""
                 /\ b = With(a.has, a.n - 1, a.off, a.sure, a.proc)
           D6 == x[1] = "sched" /\ x[2] \in {"RUNNABLE", "SLEEPING"}
                 /\ a = With({"ptable"}, 1, a.off, TRUE, TRUE) /\ b = a
           D7 == x[1] = "restore" /\ x[2] = ~a.off
                 /\ a = Switched(a.off, TRUE) /\ b = With({"ptable"}, 1, a.off, TRUE, TRUE)
           D8 == x[1] = "scan" /\ x[2] \in Nat \ {0}
                 /\ a = With({"ptable"}, 1, FALSE, a.sure, FALSE) /\ b = Switched(FALSE, FALSE)
           D9 == /\ x[1] = "iret" /\ a.n = 0 /\ a.has = {} /\ b.n = 0 /\ b.has = {} /\ b.off = FALSE
                 /\ a.got = "" /\ b.got = "" /\ (~a.sure => x = <<"iret", "fork">>)
           D10 == ReadsTime(x) /\ a = With({"time"}, 1, FALSE, TRUE, TRUE) /\ b = a
           D11 == Stays(x) /\ a.n > 0 /\ Guarded(x, a.has) /\ b = a
<1>1. ASSUME x = <<"iret", "timer">>, a = With({}, 0, TRUE, TRUE, a.proc),
             b = With({}, 0, FALSE, b.sure, a.proc)
      PROVE  D9
  <2> DEFINE u == With({}, 0, TRUE, TRUE, a.proc)
             v == With({}, 0, FALSE, b.sure, a.proc)
  <2>1. /\ u.n = 0 /\ u.has = {} /\ u.got = "" /\ u.sure = TRUE
        /\ v.n = 0 /\ v.has = {} /\ v.got = "" /\ v.off = FALSE
    BY DEF With, Pt
  <2>2. x[1] = "iret"
    BY <1>1
  <2> HIDE DEF u, v
  <2>0. a = u /\ b = v
    BY <1>1, Zenon DEF u, v
  <2>3. a.n = 0 /\ a.has = {} /\ a.got = "" /\ a.sure = TRUE
    BY <2>1, <2>0
  <2>4. b.n = 0 /\ b.has = {} /\ b.got = "" /\ b.off = FALSE
    BY <2>1, <2>0
  <2> QED
    BY <2>2, <2>3, <2>4
<1>2. ASSUME x = <<"iret", "call">>, a = Outside(TRUE), b = a PROVE D9
  BY <1>2 DEF With, Pt, Outside
<1>3. ASSUME x = <<"iret", "fork">>, a = With({}, 0, FALSE, FALSE, TRUE), b = Outside(TRUE) PROVE D9
  BY <1>3 DEF With, Pt, Outside
<1>4. D1 \/ D2 \/ D3 \/ D4 \/ D5 \/ D6 \/ D7 \/ D8 \/ D9 \/ D10 \/ D11
  BY <1>1, <1>2, <1>3, Zenon DEF Takes
<1> QED
  BY <1>4 DEF ReadsTime, Stays

LEMMA PushcliStep ==
  ASSUME NEW A, SpinAt(A), NEW c \in LockCpus, Spin!Pushcli(c)
  PROVE  SpinInv'
<1> DEFINE a == A[c]
           x == Head(todo[on[c]])
           l == x[2]
           s == <<>> \o Tail(todo[on[c]])
<1>1. todo[on[c]] # <<>> /\ x[1] = "pushcli"
  BY DEF Spin!Pushcli, Spin!At
<1>2. PICK b : /\ Takes(x, a, b) /\ Leads(Tail(todo[on[c]]), b, Rest(on[c]))
               /\ Legal(b) /\ b.proc = a.proc
  BY <1>1, NextStep
<1>3. Legal(a) /\ Fits(c, a) /\ SpinTypes
  BY DEF SpinAt
<1>4. /\ todo' = [todo EXCEPT ![on[c]] = s] /\ Leads(s, b, Rest(on[c]))
  BY <1>2, JustTail DEF Spin!Pushcli
<1>5. /\ intena' = IF ncli[c] = 0 THEN [intena EXCEPT ![c] = iflag[c]] ELSE intena
      /\ iflag' = [iflag EXCEPT ![c] = FALSE]
      /\ ncli' = [ncli EXCEPT ![c] = @ + 1]
      /\ panicked' = (held[l] /\ holder[l] = c)
      /\ UNCHANGED <<held, holder, on, tstate>>
  BY DEF Spin!Pushcli, Spin!Holding, Spin!Arg, Spin!locks, Spin!procs, Spin!counts
<1> HIDE DEF a, x, s
<1>6. /\ l \in Spin!Locks /\ a.sure /\ a.want = "" /\ a.got = ""
      /\ b = Pt(a.has, l, "", a.n + 1, a.off, TRUE, a.proc)
  BY <1>1, <1>2, TakesIs
<1>7. b.has = a.has /\ b.want = l /\ b.got = "" /\ b.n = a.n + 1 /\ b.off = a.off
  BY <1>6 DEF Pt
<1>8. a.n \in Nat /\ a.off \in BOOLEAN /\ l \notin a.has
  BY <1>2, <1>3, <1>6, <1>7, LockNames DEF Legal, Point
<1>9. ~panicked'
  BY <1>3, <1>5, <1>6, <1>8 DEF Fits
<1>10. SpinTypes'
  <2>1. todo' = [u \in Spin!Thread |-> todo'[u]]
    BY <1>3, <1>4, TodoTypes
  <2>2. iflag' \in [LockCpus -> BOOLEAN] /\ ncli' \in [LockCpus -> Nat] /\ intena' \in [LockCpus -> BOOLEAN]
    BY <1>3, <1>5 DEF SpinTypes
  <2> QED
    BY <1>3, <1>5, <2>1, <2>2 DEF SpinTypes
<1>11. ncli'[c] = a.n + 1 /\ ~iflag'[c] /\ intena'[c] = ~a.off
  <2>1. ncli'[c] = ncli[c] + 1 /\ ~iflag'[c] /\ ncli[c] = a.n
    BY <1>3, <1>5 DEF SpinTypes, Fits
  <2>2. intena'[c] = IF a.n = 0 THEN iflag[c] ELSE intena[c]
    BY <1>3, <1>5, <2>1 DEF SpinTypes
  <2> QED
    BY <1>3, <1>6, <2>1, <2>2 DEF Fits
<1>12. Owns(b) = Owns(a)
  BY <1>6, <1>7 DEF Owns
<1>13. Fits(c, b)'
  <2>1. \A k \in Spin!Locks : (holder'[k] = c <=> k \in b.has) /\ (k \in Owns(b) => held'[k])
    BY <1>3, <1>5, <1>7, <1>12 DEF Fits
  <2>2. b.n # 0 /\ ncli'[c] = b.n /\ ~iflag'[c] /\ intena'[c] = ~b.off
    <3>1. b.n = a.n + 1 /\ a.n \in Nat /\ b.off = a.off
      BY <1>7, <1>8, Zenon
    <3>2. ncli'[c] = b.n /\ ~iflag'[c] /\ intena'[c] = ~b.off
      BY <1>11, <3>1, Zenon
    <3> QED
      BY <3>1, <3>2
  <2> QED
    BY <2>1, <2>2 DEF Fits
<1>14. Own(c, A)
  BY <1>3, <1>5 DEF Own, SpinTypes
<1>15. /\ \A k \in Spin!Locks : k \in Owns(b) /\ k \notin Owns(A[c]) => ~held[k]
       /\ \A k \in Spin!Locks : held'[k] => k \in Owns(b) \/ (held[k] /\ k \notin Owns(A[c]))
  BY <1>5, <1>12 DEF a
<1> QED
  BY <1>2, <1>4, <1>5, <1>9, <1>10, <1>13, <1>14, <1>15, Moved DEF a

LEMMA XchgStep ==
  ASSUME NEW A, SpinAt(A), NEW c \in LockCpus, Spin!Xchg(c)
  PROVE  SpinInv'
<1> DEFINE a == A[c]
           x == Head(todo[on[c]])
           l == x[2]
           s == <<>> \o Tail(todo[on[c]])
<1>1. todo[on[c]] # <<>> /\ x[1] = "xchg" /\ ~held[l]
  BY DEF Spin!Xchg, Spin!At, Spin!Arg
<1>2. PICK b : /\ Takes(x, a, b) /\ Leads(Tail(todo[on[c]]), b, Rest(on[c]))
               /\ Legal(b) /\ b.proc = a.proc
  BY <1>1, NextStep
<1>3. Legal(a) /\ Fits(c, a) /\ SpinTypes /\ ~panicked
  BY DEF SpinAt
<1>4. /\ todo' = [todo EXCEPT ![on[c]] = s] /\ Leads(s, b, Rest(on[c]))
  BY <1>2, JustTail DEF Spin!Xchg
<1>5. held' = [held EXCEPT ![l] = TRUE]
      /\ UNCHANGED <<holder, iflag, ncli, intena, on, tstate, panicked>>
  BY DEF Spin!Xchg, Spin!Arg, Spin!cli, Spin!procs, Spin!counts
<1> HIDE DEF a, x, s
<1>6. /\ l \in Spin!Locks /\ a.want = l /\ b = Pt(a.has, "", l, a.n, a.off, a.sure, a.proc)
  BY <1>1, <1>2, TakesIs
<1>7. b.has = a.has /\ b.want = "" /\ b.got = l /\ b.n = a.n /\ b.off = a.off /\ b.sure = a.sure
  BY <1>6 DEF Pt
<1>8. a.got = "" /\ l # ""
  BY <1>3, <1>6, LockNames DEF Legal
<1>10. SpinTypes'
  <2>1. todo' = [u \in Spin!Thread |-> todo'[u]]
    BY <1>3, <1>4, TodoTypes
  <2>2. held' \in [Spin!Locks -> BOOLEAN]
    BY <1>3, <1>5, <1>6 DEF SpinTypes
  <2> QED
    BY <1>3, <1>5, <2>1, <2>2 DEF SpinTypes
<1>11. held'[l] /\ \A k \in Spin!Locks : k # l => held'[k] = held[k]
  BY <1>3, <1>5, <1>6 DEF SpinTypes
<1>12. \A k \in Spin!Locks : k \in Owns(b) <=> k \in Owns(a) \/ k = l
  BY <1>7, <1>8, LockNames DEF Owns
<1>13. Fits(c, b)'
  <2>1. ASSUME NEW k \in Spin!Locks
        PROVE  (holder'[k] = c <=> k \in b.has) /\ (k \in Owns(b) => held'[k])
    BY <1>3, <1>5, <1>7, <1>11, <1>12 DEF Fits
  <2>2. /\ ncli'[c] = b.n /\ (iflag'[c] => b.n = 0)
        /\ b.sure => IF b.n = 0 THEN iflag'[c] = ~b.off ELSE intena'[c] = ~b.off
    BY <1>3, <1>5, <1>7 DEF Fits
  <2> QED
    BY <2>1, <2>2 DEF Fits
<1>14. Own(c, A)
  BY <1>1, <1>5, <1>11 DEF Own
<1>15. /\ \A k \in Spin!Locks : k \in Owns(b) /\ k \notin Owns(A[c]) => ~held[k]
       /\ \A k \in Spin!Locks : held'[k] => k \in Owns(b) \/ (held[k] /\ k \notin Owns(A[c]))
  <2>1. l \notin Owns(a)
    BY <1>1, <1>3, <1>6 DEF Fits
  <2> QED
    BY <1>1, <1>11, <1>12, <2>1 DEF a
<1> QED
  BY <1>2, <1>3, <1>4, <1>5, <1>10, <1>13, <1>14, <1>15, Moved DEF a

LEMMA OwnStep ==
  ASSUME NEW A, SpinAt(A), NEW c \in LockCpus, Spin!Own(c)
  PROVE  SpinInv'
<1> DEFINE a == A[c]
           x == Head(todo[on[c]])
           l == x[2]
           s == <<>> \o Tail(todo[on[c]])
<1>1. todo[on[c]] # <<>> /\ x[1] = "own"
  BY DEF Spin!Own, Spin!At
<1>2. PICK b : /\ Takes(x, a, b) /\ Leads(Tail(todo[on[c]]), b, Rest(on[c]))
               /\ Legal(b) /\ b.proc = a.proc
  BY <1>1, NextStep
<1>3. Legal(a) /\ Fits(c, a) /\ SpinTypes /\ ~panicked
  BY DEF SpinAt
<1>4. /\ todo' = [todo EXCEPT ![on[c]] = s] /\ Leads(s, b, Rest(on[c]))
  BY <1>2, JustTail DEF Spin!Own
<1>5. holder' = [holder EXCEPT ![l] = c]
      /\ UNCHANGED <<held, iflag, ncli, intena, on, tstate, panicked>>
  BY DEF Spin!Own, Spin!Arg, Spin!cli, Spin!procs, Spin!counts
<1> HIDE DEF a, x, s
<1>6. /\ l \in Spin!Locks /\ a.got = l
      /\ b = Pt(a.has \cup {l}, "", "", a.n, a.off, a.sure, a.proc)
  BY <1>1, <1>2, TakesIs DEF With
<1>7. b.has = a.has \cup {l} /\ b.got = "" /\ b.n = a.n /\ b.off = a.off /\ b.sure = a.sure
  BY <1>6 DEF Pt
<1>10. SpinTypes'
  <2>1. todo' = [u \in Spin!Thread |-> todo'[u]]
    BY <1>3, <1>4, TodoTypes
  <2>2. holder' \in [Spin!Locks -> LockCpus \cup {None}]
    BY <1>3, <1>5, <1>6 DEF SpinTypes
  <2> QED
    BY <1>3, <1>5, <2>1, <2>2 DEF SpinTypes
<1>11. holder'[l] = c /\ \A k \in Spin!Locks : k # l => holder'[k] = holder[k]
  BY <1>3, <1>5, <1>6 DEF SpinTypes
<1>12. \A k \in Spin!Locks : (k \in Owns(b) <=> k \in Owns(a)) /\ l \in Owns(a)
  BY <1>6, <1>7, LockNames DEF Owns
<1>13. Fits(c, b)'
  <2>1. ASSUME NEW k \in Spin!Locks
        PROVE  (holder'[k] = c <=> k \in b.has) /\ (k \in Owns(b) => held'[k])
    BY <1>3, <1>5, <1>7, <1>11, <1>12 DEF Fits
  <2>2. /\ ncli'[c] = b.n /\ (iflag'[c] => b.n = 0)
        /\ b.sure => IF b.n = 0 THEN iflag'[c] = ~b.off ELSE intena'[c] = ~b.off
    BY <1>3, <1>5, <1>7 DEF Fits
  <2> QED
    BY <2>1, <2>2 DEF Fits
<1>14. Own(c, A)
  BY <1>5, <1>11, <1>12 DEF Own, a
<1>15. /\ \A k \in Spin!Locks : k \in Owns(b) /\ k \notin Owns(A[c]) => ~held[k]
       /\ \A k \in Spin!Locks : held'[k] => k \in Owns(b) \/ (held[k] /\ k \notin Owns(A[c]))
  BY <1>5, <1>12 DEF a
<1> QED
  BY <1>2, <1>3, <1>4, <1>5, <1>10, <1>13, <1>14, <1>15, Moved DEF a

LEMMA DisownStep ==
  ASSUME NEW A, SpinAt(A), NEW c \in LockCpus, Spin!Disown(c)
  PROVE  SpinInv'
<1> DEFINE a == A[c]
           x == Head(todo[on[c]])
           l == x[2]
           s == <<>> \o Tail(todo[on[c]])
<1>1. todo[on[c]] # <<>> /\ x[1] = "disown"
  BY DEF Spin!Disown, Spin!At
<1>2. PICK b : /\ Takes(x, a, b) /\ Leads(Tail(todo[on[c]]), b, Rest(on[c]))
               /\ Legal(b) /\ b.proc = a.proc
  BY <1>1, NextStep
<1>3. Legal(a) /\ Fits(c, a) /\ SpinTypes
  BY DEF SpinAt
<1>4. /\ todo' = [todo EXCEPT ![on[c]] = s] /\ Leads(s, b, Rest(on[c]))
  BY <1>2, JustTail DEF Spin!Disown
<1>5. /\ holder' = [holder EXCEPT ![l] = None] /\ panicked' = ~(held[l] /\ holder[l] = c)
      /\ UNCHANGED <<held, iflag, ncli, intena, on, tstate>>
  BY DEF Spin!Disown, Spin!Holding, Spin!Arg, Spin!cli, Spin!procs, Spin!counts
<1> HIDE DEF a, x, s
<1>6. /\ l \in a.has /\ a.got = "" /\ b = Pt(a.has \ {l}, "", l, a.n, a.off, a.sure, a.proc)
  BY <1>1, <1>2, TakesIs
<1>7. b.has = a.has \ {l} /\ b.got = l /\ b.n = a.n /\ b.off = a.off /\ b.sure = a.sure
  BY <1>6 DEF Pt
<1>8. l \in Spin!Locks
  BY <1>3, <1>6 DEF Legal, Point
<1>9. ~panicked'
  BY <1>3, <1>5, <1>6, <1>8 DEF Fits, Owns
<1>10. SpinTypes'
  <2>1. todo' = [u \in Spin!Thread |-> todo'[u]]
    BY <1>3, <1>4, TodoTypes
  <2>2. holder' \in [Spin!Locks -> LockCpus \cup {None}]
    BY <1>3, <1>5, <1>8 DEF SpinTypes
  <2> QED
    BY <1>3, <1>5, <2>1, <2>2 DEF SpinTypes
<1>11. holder'[l] = None /\ \A k \in Spin!Locks : k # l => holder'[k] = holder[k]
  BY <1>3, <1>5, <1>8 DEF SpinTypes
<1>12. \A k \in Spin!Locks : (k \in Owns(b) <=> k \in Owns(a)) /\ l \in Owns(a)
  BY <1>6, <1>7, LockNames DEF Owns
<1>13. Fits(c, b)'
  <2>1. ASSUME NEW k \in Spin!Locks
        PROVE  (holder'[k] = c <=> k \in b.has) /\ (k \in Owns(b) => held'[k])
    BY <1>3, <1>5, <1>7, <1>11, <1>12, Threads0 DEF Fits
  <2>2. /\ ncli'[c] = b.n /\ (iflag'[c] => b.n = 0)
        /\ b.sure => IF b.n = 0 THEN iflag'[c] = ~b.off ELSE intena'[c] = ~b.off
    BY <1>3, <1>5, <1>7 DEF Fits
  <2> QED
    BY <2>1, <2>2 DEF Fits
<1>14. Own(c, A)
  BY <1>5, <1>11, <1>12 DEF Own, a
<1>15. /\ \A k \in Spin!Locks : k \in Owns(b) /\ k \notin Owns(A[c]) => ~held[k]
       /\ \A k \in Spin!Locks : held'[k] => k \in Owns(b) \/ (held[k] /\ k \notin Owns(A[c]))
  BY <1>5, <1>12 DEF a
<1> QED
  BY <1>2, <1>4, <1>5, <1>9, <1>10, <1>13, <1>14, <1>15, Moved DEF a

LEMMA UnlockStep ==
  ASSUME NEW A, SpinAt(A), NEW c \in LockCpus, Spin!Unlock(c)
  PROVE  SpinInv'
<1> DEFINE a == A[c]
           x == Head(todo[on[c]])
           l == x[2]
           s == <<>> \o Tail(todo[on[c]])
<1>1. todo[on[c]] # <<>> /\ x[1] = "unlock"
  BY DEF Spin!Unlock, Spin!At
<1>2. PICK b : /\ Takes(x, a, b) /\ Leads(Tail(todo[on[c]]), b, Rest(on[c]))
               /\ Legal(b) /\ b.proc = a.proc
  BY <1>1, NextStep
<1>3. Legal(a) /\ Fits(c, a) /\ SpinTypes
  BY DEF SpinAt
<1>4. /\ todo' = [todo EXCEPT ![on[c]] = s] /\ Leads(s, b, Rest(on[c]))
  BY <1>2, JustTail DEF Spin!Unlock
<1>5. /\ held' = [held EXCEPT ![l] = FALSE] /\ panicked' = (iflag[c] \/ ncli[c] = 0)
      /\ ncli' = [ncli EXCEPT ![c] = @ - 1]
      /\ iflag' = [iflag EXCEPT ![c] = (ncli[c] = 1 /\ intena[c])]
      /\ UNCHANGED <<holder, intena, on, tstate>>
  BY DEF Spin!Unlock, Spin!Arg, Spin!procs, Spin!counts
<1> HIDE DEF a, x, s
<1>6. /\ l \in Spin!Locks /\ a.got = l
      /\ b = Pt(a.has, "", "", a.n - 1, a.off, a.sure, a.proc)
  BY <1>1, <1>2, TakesIs DEF With
<1>7. b.has = a.has /\ b.got = "" /\ b.n = a.n - 1 /\ b.off = a.off /\ b.sure = a.sure
  BY <1>6 DEF Pt
<1>8. a.n \in Nat /\ a.n # 0 /\ a.off \in BOOLEAN /\ l \notin a.has
  BY <1>3, <1>6, LockNames DEF Legal, Point
<1>9. ~panicked'
  BY <1>3, <1>5, <1>8 DEF Fits
<1>10. SpinTypes'
  <2>1. todo' = [u \in Spin!Thread |-> todo'[u]]
    BY <1>3, <1>4, TodoTypes
  <2>2. held' \in [Spin!Locks -> BOOLEAN]
    BY <1>3, <1>5, <1>6 DEF SpinTypes
  <2>3. ncli[c] - 1 \in Nat
    BY <1>3, <1>8 DEF Fits
  <2>4. iflag' \in [LockCpus -> BOOLEAN] /\ ncli' \in [LockCpus -> Nat]
    BY <1>3, <1>5, <2>3 DEF SpinTypes
  <2> QED
    BY <1>3, <1>5, <2>1, <2>2, <2>4 DEF SpinTypes
<1>11. ~held'[l] /\ \A k \in Spin!Locks : k # l => held'[k] = held[k]
  BY <1>3, <1>5, <1>6 DEF SpinTypes
<1>12. \A k \in Spin!Locks : (k \in Owns(b) <=> k \in Owns(a) /\ k # l) /\ l \in Owns(a)
  BY <1>6, <1>7, <1>8, LockNames DEF Owns
<1>13. Fits(c, b)'
  <2>1. ASSUME NEW k \in Spin!Locks
        PROVE  (holder'[k] = c <=> k \in b.has) /\ (k \in Owns(b) => held'[k])
    BY <1>3, <1>5, <1>7, <1>11, <1>12 DEF Fits
  <2>0. ncli[c] = a.n /\ ncli \in [LockCpus -> Nat] /\ iflag \in [LockCpus -> BOOLEAN]
        /\ intena[c] \in BOOLEAN
    BY <1>3 DEF Fits, SpinTypes
  <2>2. ncli'[c] = b.n /\ (iflag'[c] <=> b.n = 0 /\ intena[c]) /\ intena'[c] = intena[c]
    <3>1. ncli'[c] = ncli[c] - 1 /\ (iflag'[c] <=> ncli[c] = 1 /\ intena[c])
      BY <1>5, <2>0
    <3>2. ncli[c] = 1 <=> b.n = 0
      <4>1. b.n = a.n - 1 /\ a.n \in Nat /\ ncli[c] = a.n
        BY <1>7, <1>8, <2>0, Zenon
      <4> QED
        BY <4>1
    <3> QED
      BY <1>5, <1>7, <2>0, <3>1, <3>2
  <2>5. iflag'[c] \in BOOLEAN
    BY <1>10 DEF SpinTypes
  <2>3. b.sure => intena[c] = ~b.off
    BY <1>3, <1>7, <1>8 DEF Fits
  <2>4. b.n = 0 \/ b.n # 0
    OBVIOUS
  <2> QED
    BY <2>1, <2>2, <2>3, <2>0, <2>5 DEF Fits
<1>14. Own(c, A)
  <2>1. \A d \in LockCpus \ {c} : ncli'[d] = ncli[d] /\ iflag'[d] = iflag[d]
    BY <1>3, <1>5 DEF SpinTypes
  <2> QED
    BY <1>5, <1>11, <1>12, <2>1 DEF Own, a
<1>15. /\ \A k \in Spin!Locks : k \in Owns(b) /\ k \notin Owns(A[c]) => ~held[k]
       /\ \A k \in Spin!Locks : held'[k] => k \in Owns(b) \/ (held[k] /\ k \notin Owns(A[c]))
  BY <1>11, <1>12 DEF a
<1> QED
  BY <1>2, <1>4, <1>5, <1>9, <1>10, <1>13, <1>14, <1>15, Moved DEF a

\* A step that leaves the locks alone, and the interrupts of the others.
LEMMA SameLocks ==
  ASSUME NEW A, SpinAt(A), NEW c \in LockCpus, NEW b, NEW s,
         UNCHANGED <<held, holder, ncli, on, tstate, panicked>>,
         todo' = [todo EXCEPT ![on[c]] = s],
         iflag' \in [LockCpus -> BOOLEAN], intena' \in [LockCpus -> BOOLEAN],
         \A d \in LockCpus \ {c} : iflag'[d] = iflag[d] /\ intena'[d] = intena[d],
         Legal(b), b.proc = A[c].proc, Leads(s, b, Rest(on[c])),
         b.has = A[c].has, b.got = A[c].got, b.n = A[c].n,
         iflag'[c] => b.n = 0,
         b.sure => IF b.n = 0 THEN iflag'[c] = ~b.off ELSE intena'[c] = ~b.off
  PROVE  SpinInv'
<1> DEFINE a == A[c]
<1>1. SpinTypes' /\ ~panicked'
  BY DEF SpinAt, SpinTypes
<1>2. Own(c, A)
  BY DEF Own
<1>3. Owns(b) = Owns(a)
  BY DEF Owns
<1>4. Fits(c, a)
  BY DEF SpinAt
<1> HIDE DEF a
<1>5. Fits(c, b)'
  <2>1. \A l \in Spin!Locks : (holder'[l] = c <=> l \in b.has) /\ (l \in Owns(b) => held'[l])
    BY <1>3, <1>4 DEF Fits, a
  <2>2. ncli'[c] = b.n
    BY <1>4 DEF Fits, a
  <2> QED
    BY <2>1, <2>2 DEF Fits
<1>6. /\ \A l \in Spin!Locks : l \in Owns(b) /\ l \notin Owns(A[c]) => ~held[l]
      /\ \A l \in Spin!Locks : held'[l] => l \in Owns(b) \/ (held[l] /\ l \notin Owns(A[c]))
  BY <1>3 DEF a
<1> QED
  BY <1>1, <1>2, <1>5, <1>6, Moved

\* c goes to another thread u, which waits in swtch(), and leaves its own there with s.
LEMMA Swapped ==
  ASSUME NEW A, SpinAt(A), NEW c \in LockCpus, NEW b, NEW s, NEW u \in Spin!Thread,
         UNCHANGED <<held, holder, iflag, ncli, intena>>, ~panicked',
         todo' = [todo EXCEPT ![on[c]] = s], on' = [on EXCEPT ![c] = u],
         tstate' \in [Spin!Proc -> {"RUNNABLE", "RUNNING", "SLEEPING"}],
         \A p \in Spin!Proc : p # on[c] => (tstate[p] = "RUNNING" => tstate'[p] = "RUNNING"),
         \A d \in LockCpus : on[d] # u,
         u \in LockCpus => u = c, u \in Spin!Proc => tstate'[u] = "RUNNING",
         Legal(b), b.proc = (u \in Spin!Proc), Leads(todo[u], b, Rest(u)), Fits(c, b),
         Owns(b) = Owns(A[c]),
         on[c] \in Spin!Proc => \E off \in BOOLEAN : Leads(s, Switched(off, TRUE), Outside(TRUE)),
         on[c] \in LockCpus => Leads(s, Switched(FALSE, FALSE), Rest(on[c]))
  PROVE  SpinInv'
<1> DEFINE B == [A EXCEPT ![c] = b]
<1>1. A \in [LockCpus -> Point] /\ b \in Point /\ SpinTypes
  BY DEF SpinAt, Legal
<1>2. B \in [LockCpus -> Point] /\ B[c] = b /\ \A d \in LockCpus : d # c => B[d] = A[d]
  BY <1>1
<1> HIDE DEF B
<1>3. on[c] \in Spin!Thread /\ todo'[on[c]] = s /\ \A t \in Spin!Thread : t # on[c] => todo'[t] = todo[t]
  BY <1>1 DEF SpinTypes
<1>4. on'[c] = u /\ \A d \in LockCpus : d # c => on'[d] = on[d] /\ on[d] # on[c] /\ on[d] \in Spin!Thread
  BY <1>1 DEF SpinTypes, SpinAt, Placed
<1>5. SpinTypes'
  <2>1. todo' = [t \in Spin!Thread |-> todo'[t]]
    BY <1>1, TodoTypes
  <2>2. on' \in [LockCpus -> Spin!Thread]
    BY <1>1 DEF SpinTypes
  <2> QED
    BY <1>1, <2>1, <2>2 DEF SpinTypes
<1>6. Placed'
  <2>1. ASSUME NEW d \in LockCpus
        PROVE  /\ on'[d] \in LockCpus => on'[d] = d
               /\ on'[d] \in Spin!Proc => tstate'[on'[d]] = "RUNNING"
    BY <1>4 DEF SpinAt, Placed
  <2>2. ASSUME NEW d \in LockCpus, NEW e \in LockCpus, on'[d] = on'[e] PROVE d = e
    BY <1>4, <2>2 DEF SpinAt, Placed
  <2> QED
    BY <2>1, <2>2 DEF Placed
<1>7. Waiting'
  <2>1. ASSUME NEW p \in Spin!Proc, \A d \in LockCpus : on'[d] # p
        PROVE  \E off \in BOOLEAN : Leads(todo'[p], Switched(off, TRUE), Outside(TRUE))
    <3>1. CASE p = on[c]
      BY <1>3, <3>1
    <3>2. CASE p # on[c]
      <4>1. \A d \in LockCpus : on[d] # p
        BY <1>4, <2>1, <3>2
      <4>2. todo'[p] = todo[p]
        BY <1>3, <3>2, Threads0
      <4> QED
        BY <4>1, <4>2 DEF SpinAt, Waiting
    <3> QED
      BY <3>1, <3>2
  <2>2. ASSUME NEW d \in LockCpus, on'[d] # d
        PROVE  Leads(todo'[d], Switched(FALSE, FALSE), Rest(d))
    <3>1. CASE d = on[c]
      BY <1>3, <3>1
    <3>2. CASE d # on[c]
      <4>1. todo'[d] = todo[d]
        BY <1>3, <3>2, Threads0
      <4>2. on[d] # d
        BY <1>4, <2>2, <3>2 DEF SpinAt, Placed
      <4> QED
        BY <4>1, <4>2 DEF SpinAt, Waiting
    <3> QED
      BY <3>1, <3>2
  <2> QED
    BY <2>1, <2>2 DEF Waiting
<1>8. ASSUME NEW d \in LockCpus
      PROVE  /\ Legal(B[d]) /\ Fits(d, B[d])' /\ B[d].proc = (on'[d] \in Spin!Proc)
             /\ Leads(todo'[on'[d]], B[d], Rest(on'[d]))
  <2>0. \A a : Fits(d, a) => Fits(d, a)'
    BY DEF Fits
  <2>1. CASE d = c
    <3>1. on'[d] = u /\ B[d] = b /\ todo'[u] = todo[u]
      BY <1>2, <1>3, <1>4, <2>1
    <3>2. Fits(d, B[d])'
      BY <2>0, <2>1, <3>1
    <3> QED
      BY <3>1, <3>2
  <2>2. CASE d # c
    <3>1. B[d] = A[d] /\ on'[d] = on[d] /\ todo'[on[d]] = todo[on[d]]
      BY <1>2, <1>3, <1>4, <2>2
    <3>2. Fits(d, B[d])'
      BY <2>0, <3>1 DEF SpinAt
    <3> QED
      BY <3>1, <3>2 DEF SpinAt
  <2> QED
    BY <2>1, <2>2
<1>9. \A d \in LockCpus : Owns(B[d]) = Owns(A[d])
  BY <1>2
<1>10. SpinAt(B)'
  BY <1>2, <1>5, <1>6, <1>7, <1>8, <1>9 DEF SpinAt
<1> QED
  BY <1>10 DEF SpinInv

LEMMA PickStep ==
  ASSUME NEW A, SpinAt(A), NEW c \in LockCpus, Spin!Pick(c)
  PROVE  SpinInv'
<1> DEFINE a == A[c]
           x == Head(todo[on[c]])
<1>1. todo[on[c]] # <<>> /\ x[1] = "scan"
  BY DEF Spin!Pick, Spin!At
<1>2. PICK b : Takes(x, a, b) /\ Leads(Tail(todo[on[c]]), b, Rest(on[c]))
  BY <1>1, NextStep
<1>3. Legal(a) /\ Fits(c, a) /\ SpinTypes /\ ~panicked /\ a.proc = (on[c] \in Spin!Proc)
  BY DEF SpinAt
<1> HIDE DEF a, x
<1>0. x[2] \in Nat \ {0}
  BY <1>1, <1>2, TakesIs, ZenonT(60)
<1>4. PICK p \in Spin!Proc :
        /\ tstate[p] = "RUNNABLE"
        /\ tstate' = [tstate EXCEPT ![p] = "RUNNING"] /\ on' = [on EXCEPT ![c] = p]
        /\ Spin!Become(c, << <<"scan", p + 1>> >>)
  <2>1. PICK p \in Spin!Arg(c)..Threads :
          /\ tstate[p] = "RUNNABLE" /\ \A q \in Spin!Arg(c)..p - 1 : tstate[q] # "RUNNABLE"
          /\ tstate' = [tstate EXCEPT ![p] = "RUNNING"] /\ on' = [on EXCEPT ![c] = p]
          /\ Spin!Become(c, << <<"scan", p + 1>> >>)
    BY DEF Spin!Pick
  <2>2. p \in Spin!Proc
    BY <1>0, <2>1 DEF Spin!Arg, Spin!Proc, x
  <2> QED
    BY <2>1, <2>2
<1> DEFINE s == << <<"scan", p + 1>> >> \o Tail(todo[on[c]])
<1>5. todo' = [todo EXCEPT ![on[c]] = s]
  BY <1>4 DEF Spin!Become
<1>6. UNCHANGED <<held, holder, iflag, ncli, intena, panicked>>
  BY DEF Spin!Pick, Spin!locks, Spin!cli, Spin!counts
<1>7. a = With({"ptable"}, 1, FALSE, a.sure, FALSE) /\ b = Switched(FALSE, FALSE)
  <2>1. x[1] = "scan" => (x[2] \in Nat \ {0} /\ b = Switched(FALSE, FALSE)
                             /\ a = With({"ptable"}, 1, FALSE, a.sure, FALSE))
    BY <1>2, TakesIs, ZenonT(60)
  <2> QED
    BY <1>1, <2>1, Zenon
<1>8. a.has = {"ptable"} /\ a.got = "" /\ a.n = 1 /\ a.proc = FALSE
  <2> DEFINE w == With({"ptable"}, 1, FALSE, a.sure, FALSE)
  <2>1. w.has = {"ptable"} /\ w.got = "" /\ w.n = 1 /\ w.proc = FALSE
    BY DEF With, Pt
  <2> HIDE DEF w
  <2>2. a = w
    BY <1>7, Zenon DEF w
  <2> QED
    BY <2>1, <2>2, Zenon
<1>9. on[c] \notin Spin!Proc /\ on[c] = c
  BY <1>3, <1>8, Threads0 DEF SpinAt, Placed, SpinTypes
<1>10. \A d \in LockCpus : on[d] # p
  BY <1>4 DEF SpinAt, Placed
<1>11. PICK off \in BOOLEAN : Leads(todo[p], Switched(off, TRUE), Outside(TRUE))
  BY <1>10 DEF SpinAt, Waiting
<1> DEFINE e == Switched(off, TRUE)
<1>12. e.has = {"ptable"} /\ e.got = "" /\ e.n = 1 /\ e.proc = TRUE /\ e.sure = FALSE
  BY DEF Switched, With, Pt
<1>13. Legal(e)
  <2>1. {"ptable"} \in SUBSET Spin!Locks /\ {"ptable"} # {} /\ "" \in Spin!Locks \cup {""}
        /\ "" \notin {"ptable"} /\ 1 \in Nat /\ 1 # 0
    BY DEF Spin!Locks
  <2> QED
    BY <2>1, LegalAt DEF With, Switched
<1> HIDE DEF e, s
<1>14. Owns(e) = Owns(a)
  BY <1>8, <1>12 DEF Owns
<1>15. Fits(c, e)
  <2>1. \A l \in Spin!Locks : (holder[l] = c <=> l \in e.has) /\ (l \in Owns(e) => held[l])
    BY <1>3, <1>8, <1>12, <1>14 DEF Fits
  <2>2. ncli[c] = a.n /\ (iflag[c] => a.n = 0)
    BY <1>3 DEF Fits
  <2>3. ncli[c] = e.n /\ ~iflag[c]
    <3>1. a.n = 1 /\ e.n = 1
      BY <1>8, <1>12, Zenon
    <3> QED
      BY <2>2, <3>1
  <2>4. ~e.sure
    BY <1>12
  <2> QED
    BY <2>1, <2>3, <2>4 DEF Fits
<1>16. Leads(s, Switched(FALSE, FALSE), Rest(on[c]))
  <2>1. Leads(<< <<"scan", p + 1>> >>, With({"ptable"}, 1, FALSE, FALSE, FALSE), Switched(FALSE, FALSE))
    <3>1. p + 1 \in Nat \ {0} /\ FALSE \in BOOLEAN
      BY DEF Spin!Proc
    <3> QED
      BY <3>1, RoundLeads, Zenon
  <2>2. With({"ptable"}, 1, FALSE, FALSE, FALSE) = Switched(FALSE, FALSE)
    BY DEF Switched
  <2> QED
    BY <1>2, <1>7, <2>1, <2>2, LeadsOn DEF s
<1>17. tstate' \in [Spin!Proc -> {"RUNNABLE", "RUNNING", "SLEEPING"}] /\ tstate'[p] = "RUNNING"
       /\ \A q \in Spin!Proc : q # on[c] => (tstate[q] = "RUNNING" => tstate'[q] = "RUNNING")
  BY <1>3, <1>4 DEF SpinTypes
<1>18. p \in Spin!Thread /\ p \notin LockCpus /\ Rest(p) = Outside(TRUE)
  BY Threads0 DEF Rest
<1>19. e.proc = (p \in Spin!Proc) /\ Leads(todo[p], e, Rest(p))
  BY <1>11, <1>12, <1>18 DEF e
<1> QED
  BY <1>3, <1>4, <1>5, <1>6, <1>9, <1>10, <1>13, <1>14, <1>15, <1>16, <1>17, <1>18, <1>19, Swapped DEF a

LEMMA SchedStep ==
  ASSUME NEW A, SpinAt(A), NEW c \in LockCpus, Spin!Sched(c)
  PROVE  SpinInv'
<1> DEFINE a == A[c]
           x == Head(todo[on[c]])
           s == << <<"restore", intena[c]>> >> \o Tail(todo[on[c]])
           e == Switched(FALSE, FALSE)
<1>1. todo[on[c]] # <<>> /\ x[1] = "sched"
  BY DEF Spin!Sched, Spin!At
<1>2. PICK b : Takes(x, a, b) /\ Leads(Tail(todo[on[c]]), b, Rest(on[c]))
  BY <1>1, NextStep
<1>3. Legal(a) /\ Fits(c, a) /\ SpinTypes /\ a.proc = (on[c] \in Spin!Proc)
  BY DEF SpinAt
<1>4. /\ tstate' = [tstate EXCEPT ![on[c]] = x[2]] /\ on' = [on EXCEPT ![c] = c]
      /\ panicked' = (~(held["ptable"] /\ holder["ptable"] = c) \/ ncli[c] # 1 \/ iflag[c])
      /\ todo' = [todo EXCEPT ![on[c]] = s]
      /\ UNCHANGED <<held, holder, iflag, ncli, intena>>
  BY DEF Spin!Sched, Spin!Arg, Spin!Holding, Spin!Become, Spin!locks, Spin!cli, Spin!counts
<1> HIDE DEF x
<1>5. x[2] \in {"RUNNABLE", "SLEEPING"} /\ b = a /\ a = With({"ptable"}, 1, a.off, TRUE, TRUE)
  BY <1>1, <1>2, TakesIs
<1> HIDE DEF a
<1>6. a.has = {"ptable"} /\ a.got = "" /\ a.n = 1 /\ a.proc = TRUE /\ a.sure = TRUE
  <2> DEFINE w == With({"ptable"}, 1, a.off, TRUE, TRUE)
  <2>1. w.has = {"ptable"} /\ w.got = "" /\ w.n = 1 /\ w.proc = TRUE /\ w.sure = TRUE
    BY DEF With, Pt
  <2> HIDE DEF w
  <2>2. a = w
    BY <1>5, Zenon DEF w
  <2> QED
    BY <2>1, <2>2, Zenon
<1>7. a.off \in BOOLEAN /\ intena[c] = ~a.off
  BY <1>3, <1>6 DEF Fits, Legal, Point
<1>8. on[c] \in Spin!Proc /\ on[c] \notin LockCpus /\ Rest(on[c]) = Outside(TRUE)
  BY <1>3, <1>6, Threads0 DEF Rest
<1>9. \A d \in LockCpus : on[d] # c
  BY <1>8 DEF SpinAt, Placed
<1>10. Leads(todo[c], e, Rest(c))
  BY <1>9 DEF SpinAt, Waiting
<1>11. e.has = {"ptable"} /\ e.got = "" /\ e.n = 1 /\ e.proc = FALSE /\ e.sure = FALSE
  BY DEF Switched, With, Pt
<1>12. Legal(e)
  <2>1. {"ptable"} \in SUBSET Spin!Locks /\ {"ptable"} # {} /\ "" \in Spin!Locks \cup {""}
        /\ "" \notin {"ptable"} /\ 1 \in Nat /\ 1 # 0
    BY DEF Spin!Locks
  <2> QED
    BY <2>1, LegalAt DEF With, Switched
<1> HIDE DEF e, s
<1>13. Owns(e) = Owns(a)
  BY <1>6, <1>11 DEF Owns
<1>14. ncli[c] = 1 /\ ~iflag[c] /\ held["ptable"] /\ holder["ptable"] = c
  <2>1. "ptable" \in a.has /\ "ptable" \in Owns(a) /\ a.n # 0 /\ a.n = 1
    <3>1. a.has = {"ptable"} /\ a.n = 1
      BY <1>6, Zenon
    <3> QED
      BY <3>1 DEF Owns
  <2>2. /\ ncli[c] = a.n /\ (iflag[c] => a.n = 0)
        /\ holder["ptable"] = c <=> "ptable" \in a.has
        /\ "ptable" \in Owns(a) => held["ptable"]
    BY <1>3, LockNames DEF Fits
  <2> QED
    BY <2>1, <2>2
<1>15. ~panicked'
  BY <1>4, <1>14
<1>16. Fits(c, e)
  <2>1. \A l \in Spin!Locks : (holder[l] = c <=> l \in e.has) /\ (l \in Owns(e) => held[l])
    BY <1>3, <1>6, <1>11, <1>13 DEF Fits
  <2> QED
    BY <1>11, <1>14, <2>1 DEF Fits
<1>17. Leads(s, Switched(a.off, TRUE), Outside(TRUE))
  <2>1. Leads(<< <<"restore", intena[c]>> >>, Switched(a.off, TRUE), With({"ptable"}, 1, a.off, TRUE, TRUE))
    BY <1>7, SchedLeads
  <2> QED
    BY <1>2, <1>5, <1>8, <2>1, LeadsOn DEF s
<1>18. tstate' \in [Spin!Proc -> {"RUNNABLE", "RUNNING", "SLEEPING"}]
       /\ \A q \in Spin!Proc : q # on[c] => (tstate[q] = "RUNNING" => tstate'[q] = "RUNNING")
  BY <1>3, <1>4, <1>5 DEF SpinTypes
<1>19. c \in Spin!Thread /\ c \notin Spin!Proc /\ e.proc = (c \in Spin!Proc)
  <2>1. c \in Spin!Thread /\ ~(c \in Spin!Proc)
    BY Threads0
  <2>2. ~e.proc /\ e.proc \in BOOLEAN
    BY <1>11
  <2> QED
    BY <2>1, <2>2
<1>20. \E off \in BOOLEAN : Leads(s, Switched(off, TRUE), Outside(TRUE))
  BY <1>7, <1>17
<1> QED
  BY <1>4, <1>8, <1>9, <1>10, <1>12, <1>13, <1>15, <1>16, <1>18, <1>19, <1>20, Swapped DEF a

LEMMA EndScanStep ==
  ASSUME NEW A, SpinAt(A), NEW c \in LockCpus, Spin!EndScan(c)
  PROVE  SpinInv'
<1> DEFINE a == A[c]
           x == Head(todo[on[c]])
           s == <<>> \o Tail(todo[on[c]])
           w == With({"ptable"}, 1, FALSE, a.sure, FALSE)
           v == Switched(FALSE, FALSE)
<1>1. todo[on[c]] # <<>> /\ x[1] = "scan"
  BY DEF Spin!EndScan, Spin!At
<1>2. PICK b : /\ Takes(x, a, b) /\ Leads(Tail(todo[on[c]]), b, Rest(on[c]))
               /\ Legal(b) /\ b.proc = a.proc
  BY <1>1, NextStep
<1>3. todo' = [todo EXCEPT ![on[c]] = s] /\ Leads(s, b, Rest(on[c]))
  BY <1>2, JustTail DEF Spin!EndScan
<1>4. UNCHANGED <<held, holder, iflag, ncli, intena, on, tstate, panicked>>
  BY DEF Spin!EndScan, Spin!locks, Spin!cli, Spin!procs, Spin!counts
<1>5. ~panicked' /\ tstate' \in [Spin!Proc -> {"RUNNABLE", "RUNNING", "SLEEPING"}]
  BY <1>4 DEF SpinAt, SpinTypes
<1>6. /\ w.has = {"ptable"} /\ w.got = "" /\ w.n = 1
      /\ v.has = {"ptable"} /\ v.got = "" /\ v.n = 1 /\ ~v.sure
  BY DEF Switched, With, Pt
<1> HIDE DEF a, x, s, w, v
<1>7. a = w /\ b = v
  <2>1. x[1] = "scan" => (x[2] \in Nat \ {0} /\ b = Switched(FALSE, FALSE)
                             /\ a = With({"ptable"}, 1, FALSE, a.sure, FALSE))
    BY <1>2, TakesIs, ZenonT(60)
  <2> QED
    BY <1>1, <2>1, Zenon DEF v, w
<1>8. b.has = a.has /\ b.got = a.got /\ b.n = a.n /\ ~b.sure
  BY <1>6, <1>7, Zenon
<1> QED
  BY <1>2, <1>3, <1>4, <1>5, <1>8, Quiet DEF a

LEMMA RestoreStep ==
  ASSUME NEW A, SpinAt(A), NEW c \in LockCpus, Spin!Restore(c)
  PROVE  SpinInv'
<1> DEFINE a == A[c]
           x == Head(todo[on[c]])
           s == <<>> \o Tail(todo[on[c]])
           w == Switched(a.off, TRUE)
           v == With({"ptable"}, 1, a.off, TRUE, TRUE)
<1>1. todo[on[c]] # <<>> /\ x[1] = "restore"
  BY DEF Spin!Restore, Spin!At
<1>2. PICK b : /\ Takes(x, a, b) /\ Leads(Tail(todo[on[c]]), b, Rest(on[c]))
               /\ Legal(b) /\ b.proc = a.proc
  BY <1>1, NextStep
<1>3. todo' = [todo EXCEPT ![on[c]] = s] /\ Leads(s, b, Rest(on[c]))
  BY <1>2, JustTail DEF Spin!Restore
<1>4. /\ UNCHANGED <<held, holder, iflag, ncli, on, tstate, panicked>>
      /\ intena' = [intena EXCEPT ![c] = x[2]]
  BY DEF Spin!Restore, Spin!Arg, Spin!locks, Spin!procs, Spin!counts
<1>5. SpinTypes /\ Fits(c, a) /\ Legal(a)
  BY DEF SpinAt
<1>6. /\ w.has = {"ptable"} /\ w.got = "" /\ w.n = 1
      /\ v.has = {"ptable"} /\ v.got = "" /\ v.n = 1 /\ v.off = a.off
  BY DEF Switched, With, Pt
<1> HIDE DEF a, x, s, w, v
<1>7. x[2] = ~a.off /\ a = w /\ b = v
  <2>1. x[1] = "restore" => (x[2] = ~a.off /\ a = Switched(a.off, TRUE)
                                /\ b = With({"ptable"}, 1, a.off, TRUE, TRUE))
    BY <1>2, TakesIs, ZenonT(60)
  <2> QED
    BY <1>1, <2>1, Zenon DEF v, w
<1>8. b.has = a.has /\ b.got = a.got /\ b.n = a.n /\ b.off = a.off /\ b.n = 1
  BY <1>6, <1>7, Zenon
<1>9. a.off \in BOOLEAN /\ x[2] \in BOOLEAN
  BY <1>5, <1>7 DEF Legal, Point
<1>10. /\ iflag' \in [LockCpus -> BOOLEAN] /\ intena' \in [LockCpus -> BOOLEAN]
       /\ \A d \in LockCpus \ {c} : iflag'[d] = iflag[d] /\ intena'[d] = intena[d]
       /\ intena'[c] = x[2] /\ iflag'[c] = iflag[c]
  BY <1>4, <1>5, <1>9 DEF SpinTypes
<1>11. ~iflag'[c]
  <2>1. iflag[c] => a.n = 0
    BY <1>5 DEF Fits
  <2>2. a.n = 1
    BY <1>8, Zenon
  <2> QED
    BY <1>10, <2>1, <2>2
<1>12. b.n # 0 /\ intena'[c] = ~b.off
  <2>1. b.n = 1
    BY <1>8, Zenon
  <2>2. intena'[c] = ~b.off
    BY <1>7, <1>8, <1>10, Zenon
  <2> QED
    BY <2>1, <2>2
<1> QED
  BY <1>2, <1>3, <1>4, <1>8, <1>10, <1>11, <1>12, SameLocks DEF a

LEMMA IretStep ==
  ASSUME NEW A, SpinAt(A), NEW c \in LockCpus, Spin!Iret(c)
  PROVE  SpinInv'
<1> DEFINE a == A[c]
           x == Head(todo[on[c]])
           s == <<>> \o Tail(todo[on[c]])
<1>1. todo[on[c]] # <<>> /\ x[1] = "iret"
  BY DEF Spin!Iret, Spin!At
<1>2. PICK b : /\ Takes(x, a, b) /\ Leads(Tail(todo[on[c]]), b, Rest(on[c]))
               /\ Legal(b) /\ b.proc = a.proc
  BY <1>1, NextStep
<1>3. todo' = [todo EXCEPT ![on[c]] = s] /\ Leads(s, b, Rest(on[c]))
  BY <1>2, JustTail DEF Spin!Iret
<1>4. /\ UNCHANGED <<held, holder, ncli, intena, on, tstate, panicked>>
      /\ iflag' = [iflag EXCEPT ![c] = TRUE]
  BY DEF Spin!Iret, Spin!locks, Spin!procs, Spin!counts
<1>5. SpinTypes
  BY DEF SpinAt
<1> HIDE DEF a, x, s
<1>6. a.n = 0 /\ a.has = {} /\ b.n = 0 /\ b.has = {} /\ b.off = FALSE /\ a.got = "" /\ b.got = ""
  BY <1>1, <1>2, TakesIs, ZenonT(60)
<1>7. b.has = a.has /\ b.got = a.got /\ b.n = a.n /\ b.n = 0
  BY <1>6, Zenon
<1>8. /\ iflag' \in [LockCpus -> BOOLEAN] /\ intena' \in [LockCpus -> BOOLEAN]
      /\ \A d \in LockCpus \ {c} : iflag'[d] = iflag[d] /\ intena'[d] = intena[d]
      /\ iflag'[c] = TRUE
  BY <1>4, <1>5 DEF SpinTypes
<1>9. iflag'[c] = ~b.off
  BY <1>6, <1>8
<1> QED
  BY <1>2, <1>3, <1>4, <1>7, <1>8, <1>9, SameLocks DEF a

\* A thread with nothing left to do is at rest.
LEMMA AtRest ==
  ASSUME NEW A, SpinAt(A), NEW c \in LockCpus, todo[on[c]] = <<>>
  PROVE  A[c] = Rest(on[c])
<1>1. Leads(<<>>, A[c], Rest(on[c]))
  BY DEF SpinAt
<1> QED
  BY <1>1, LeadsNowhere

LEMMA ScheduleStep ==
  ASSUME NEW A, SpinAt(A), NEW c \in LockCpus, Spin!Schedule(c)
  PROVE  SpinInv'
<1> DEFINE a == A[c]
           s == Spin!Acquire("ptable") \o << <<"scan", 1>> >> \o Spin!Release("ptable")
           w == With({}, 0, FALSE, FALSE, FALSE)
           b == Outside(FALSE)
<1>1. on[c] = c /\ todo[on[c]] = <<>>
  BY DEF Spin!Schedule
<1>2. a = w
  BY <1>1, AtRest DEF Rest
<1>3. Leads(s, b, Rest(on[c]))
  BY <1>1, RoundLeads DEF Rest
<1>4. todo' = [todo EXCEPT ![on[c]] = s]
  BY <1>1 DEF Spin!Schedule
<1>5. /\ UNCHANGED <<held, holder, ncli, intena, on, tstate, panicked>>
      /\ iflag' = [iflag EXCEPT ![c] = TRUE]
  BY DEF Spin!Schedule, Spin!locks, Spin!procs, Spin!counts
<1>6. SpinTypes
  BY DEF SpinAt
<1>7. /\ w.has = {} /\ w.got = "" /\ w.n = 0 /\ w.proc = FALSE
      /\ b.has = {} /\ b.got = "" /\ b.n = 0 /\ b.off = FALSE /\ b.proc = FALSE
  BY DEF Outside, With, Pt
<1>8. Legal(b)
  <2>1. {} \in SUBSET Spin!Locks /\ "" \in Spin!Locks \cup {""} /\ "" \notin {} /\ 0 \in Nat
    OBVIOUS
  <2> QED
    BY <2>1, LegalAt DEF With, Outside
<1> HIDE DEF a, s, w, b
<1>9. b.has = a.has /\ b.got = a.got /\ b.n = a.n /\ b.n = 0 /\ b.proc = a.proc
  BY <1>2, <1>7, Zenon
<1>10. /\ iflag' \in [LockCpus -> BOOLEAN] /\ intena' \in [LockCpus -> BOOLEAN]
       /\ \A d \in LockCpus \ {c} : iflag'[d] = iflag[d] /\ intena'[d] = intena[d]
       /\ iflag'[c] = TRUE
  BY <1>5, <1>6 DEF SpinTypes
<1>11. iflag'[c] = ~b.off
  BY <1>7, <1>10
<1> QED
  BY <1>3, <1>4, <1>5, <1>8, <1>9, <1>10, <1>11, SameLocks DEF a

LEMMA TrapSyscallStep ==
  ASSUME NEW A, SpinAt(A), NEW c \in LockCpus, Spin!TrapSyscall(c)
  PROVE  SpinInv'
<1>1. on[c] \in Spin!Proc /\ todo[on[c]] = <<>>
  BY DEF Spin!TrapSyscall
<1>2. Rest(on[c]) = Outside(TRUE) /\ A[c] = Outside(TRUE)
  BY <1>1, AtRest, Threads0 DEF Rest
<1>3. PICK body \in {<<>>, Spin!SysSleep} : todo' = [todo EXCEPT ![on[c]] = Spin!Syscall(body)]
  BY DEF Spin!TrapSyscall
<1>4. Leads(body, Outside(TRUE), Outside(TRUE))
  BY <1>3, SysSleepLeads, LeadsNowhere
<1>5. Leads(Spin!Syscall(body), A[c], Rest(on[c]))
  BY <1>2, <1>4, SyscallLeads
<1>6. UNCHANGED <<held, holder, iflag, ncli, intena, on, tstate, panicked>>
  BY DEF Spin!TrapSyscall, Spin!locks, Spin!cli, Spin!procs
<1>7. ~panicked' /\ tstate' \in [Spin!Proc -> {"RUNNABLE", "RUNNING", "SLEEPING"}] /\ Legal(A[c])
  BY <1>6 DEF SpinAt, SpinTypes
<1> QED
  BY <1>3, <1>5, <1>6, <1>7, Quiet

LEMMA TrapTimerStep ==
  ASSUME NEW A, SpinAt(A), NEW c \in LockCpus, Spin!TrapTimer(c)
  PROVE  SpinInv'
<1> DEFINE a == A[c]
           proc == on[c] \in Spin!Proc
           s == Spin!Timer(c, on[c]) \o todo[on[c]]
           b == With({}, 0, TRUE, TRUE, proc)
           w == With({}, 0, FALSE, a.sure, proc)
<1>1. /\ UNCHANGED <<held, holder, ncli, intena, on, tstate, panicked>>
      /\ iflag[c] /\ iflag' = [iflag EXCEPT ![c] = FALSE]
      /\ todo' = [todo EXCEPT ![on[c]] = s]
  BY DEF Spin!TrapTimer, Spin!locks, Spin!procs, Spin!counts
<1>2. Legal(a) /\ Fits(c, a) /\ SpinTypes /\ a.proc = proc /\ Leads(todo[on[c]], a, Rest(on[c]))
  BY DEF SpinAt
<1> HIDE DEF a
<1>3. a.n = 0 /\ a.has = {} /\ a.want = "" /\ a.got = "" /\ a.sure \in BOOLEAN /\ a \in Point
  BY <1>1, <1>2 DEF Fits, Legal, Point
<1>4. a.off = FALSE
  <2>1. a.sure => iflag[c] = ~a.off
    BY <1>2, <1>3 DEF Fits
  <2>2. ~a.sure => ~a.off
    BY <1>2, <1>3 DEF Legal
  <2>3. a.off \in BOOLEAN
    BY <1>3 DEF Point
  <2> QED
    BY <1>1, <2>1, <2>2, <2>3
<1>5. a = w
  <2>1. a = Pt(a.has, a.want, a.got, a.n, a.off, a.sure, a.proc)
    BY <1>3 DEF Pt, Point
  <2> QED
    BY <1>2, <1>3, <1>4, <2>1, Zenon DEF With
<1>6. Leads(Spin!Timer(c, on[c]), b, w)
  BY <1>3, TimerLeads
<1>7. b.has = {} /\ b.got = "" /\ b.n = 0 /\ b.off = TRUE /\ b.proc = proc
  BY DEF With, Pt
<1>8. Legal(b)
  <2>1. /\ {} \in SUBSET Spin!Locks /\ "" \in Spin!Locks \cup {""} /\ "" \notin {} /\ 0 \in Nat
        /\ proc \in BOOLEAN
    OBVIOUS
  <2> QED
    BY <2>1, LegalAt DEF With
<1> HIDE DEF proc, b, w
<1>9. Leads(s, b, Rest(on[c]))
  BY <1>2, <1>5, <1>6, LeadsOn
<1> HIDE DEF s
<1>10. b.has = a.has /\ b.got = a.got /\ b.n = a.n /\ b.n = 0 /\ b.proc = a.proc
  BY <1>2, <1>3, <1>7, Zenon
<1>11. /\ iflag' \in [LockCpus -> BOOLEAN] /\ intena' \in [LockCpus -> BOOLEAN]
       /\ \A d \in LockCpus \ {c} : iflag'[d] = iflag[d] /\ intena'[d] = intena[d]
       /\ iflag'[c] = FALSE
  BY <1>1, <1>2 DEF SpinTypes
<1>12. iflag'[c] = ~b.off
  BY <1>7, <1>11
<1> QED
  BY <1>1, <1>8, <1>9, <1>10, <1>11, <1>12, SameLocks DEF a

\* y takes the place of x, under the same locks.
Follows(x, y) == Stays(y) /\ \A L : Guarded(x, L) => Guarded(y, L)

\* A step with a lock that only touches what the lock guards.
LEMMA StaysStep ==
  ASSUME NEW A, SpinAt(A), NEW c \in LockCpus, todo[on[c]] # <<>>, Stays(Head(todo[on[c]])),
         UNCHANGED <<held, holder, iflag, ncli, intena, on>>, ~panicked',
         tstate' \in [Spin!Proc -> {"RUNNABLE", "RUNNING", "SLEEPING"}],
         \A p \in Spin!Proc : tstate[p] = "RUNNING" => tstate'[p] = "RUNNING",
         Spin!Done(c) \/ \E y : Follows(Head(todo[on[c]]), y) /\ Spin!Become(c, <<y>>)
  PROVE  SpinInv'
<1> DEFINE a == A[c]
           x == Head(todo[on[c]])
<1>1. PICK b : /\ Takes(x, a, b) /\ Leads(Tail(todo[on[c]]), b, Rest(on[c]))
  BY NextStep
<1>2. Legal(a)
  BY DEF SpinAt
<1> HIDE DEF a
<1>3. b = a /\ a.n > 0 /\ Guarded(x, a.has)
  <2> HIDE DEF x
  <2>1. Stays(x)
    BY DEF x
  <2> QED
    BY <1>1, <2>1, TakesIs, ZenonT(60)
<1>4. ASSUME NEW y, Follows(x, y) PROVE Leads(<<y>>, a, a)
  <2>1. Takes(y, a, a)
    BY <1>2, <1>3, <1>4 DEF Takes, EndsHandler, Stays, Follows
  <2> QED
    BY <2>1, LeadsOne
<1>5. \E s : todo' = [todo EXCEPT ![on[c]] = s] /\ Leads(s, a, Rest(on[c]))
  <2>1. CASE Spin!Done(c)
    BY <1>1, <1>3, <2>1, JustTail
  <2>2. ASSUME NEW y, Follows(x, y), Spin!Become(c, <<y>>)
        PROVE  \E s : todo' = [todo EXCEPT ![on[c]] = s] /\ Leads(s, a, Rest(on[c]))
    <3>1. Leads(<<y>> \o Tail(todo[on[c]]), a, Rest(on[c]))
      BY <1>1, <1>3, <1>4, <2>2, LeadsOn
    <3>2. todo' = [todo EXCEPT ![on[c]] = <<y>> \o Tail(todo[on[c]])]
      BY <2>2 DEF Spin!Become
    <3> QED
      BY <3>1, <3>2
  <2> QED
    BY <2>1, <2>2
<1> QED
  BY <1>2, <1>5, Quiet DEF a

LEMMA WorkStep ==
  ASSUME NEW A, SpinAt(A), NEW c \in LockCpus,
         \/ Spin!Tick(c) \/ Spin!Wakeup(c) \/ Spin!Mycpu(c) \/ Spin!Load(c) \/ Spin!Store(c)
  PROVE  SpinInv'
<1> DEFINE x == Head(todo[on[c]])
<1>1. todo[on[c]] # <<>> /\ x[1] \in {"tick", "wakeup", "mycpu", "load", "store"}
  BY DEF Spin!Tick, Spin!Wakeup, Spin!Mycpu, Spin!Load, Spin!Store, Spin!At
<1>2. Stays(x)
  BY <1>1 DEF Stays
<1>3. UNCHANGED <<held, holder, iflag, ncli, intena, on>>
  BY DEF Spin!Tick, Spin!Wakeup, Spin!Mycpu, Spin!Load, Spin!Store, Spin!locks, Spin!cli, Spin!procs
<1>4. SpinTypes /\ ~panicked /\ Fits(c, A[c])
  BY DEF SpinAt
<1>5. ~iflag[c]
  <2>1. PICK b : Takes(x, A[c], b)
    BY <1>1, NextStep
  <2>2. A[c].n > 0
    <3> HIDE DEF x
    <3> QED
      BY <1>2, <2>1, TakesIs, ZenonT(60)
  <2> QED
    BY <1>4, <2>2 DEF Fits
<1>6. ~panicked'
  BY <1>4, <1>5 DEF Spin!Tick, Spin!Wakeup, Spin!Mycpu, Spin!Load, Spin!Store
<1>7. /\ tstate' \in [Spin!Proc -> {"RUNNABLE", "RUNNING", "SLEEPING"}]
      /\ \A p \in Spin!Proc : tstate[p] = "RUNNING" => tstate'[p] = "RUNNING"
  <2>1. CASE Spin!Wakeup(c)
    BY <1>4, <2>1 DEF Spin!Wakeup, SpinTypes
  <2>2. CASE tstate' = tstate
    BY <1>4, <2>2 DEF SpinTypes
  <2> QED
    BY <2>1, <2>2 DEF Spin!Tick, Spin!Mycpu, Spin!Load, Spin!Store, Spin!procs
<1>8. Spin!Done(c) \/ \E y : Follows(x, y) /\ Spin!Become(c, <<y>>)
  <2>1. CASE Spin!Tick(c) \/ Spin!Wakeup(c) \/ Spin!Store(c)
    BY <2>1 DEF Spin!Tick, Spin!Wakeup, Spin!Store
  <2>2. CASE Spin!Mycpu(c)
    <3>1. Spin!Become(c, << <<"load", c>> >>)
      BY <2>2 DEF Spin!Mycpu
    <3>2. Follows(x, <<"load", c>>)
      BY <2>2, SpinLockConstants DEF Follows, Stays, Guarded, Marks, Spin!Mycpu, Spin!At
    <3> QED
      BY <3>1, <3>2
  <2>3. CASE Spin!Load(c)
    <3> DEFINE y == <<"store", Spin!Arg(c), counter[Spin!Arg(c)] + 1>>
    <3>1. Spin!Become(c, <<y>>)
      BY <2>3 DEF Spin!Load
    <3>2. Follows(x, y)
      BY <2>3 DEF Follows, Stays, Guarded, Marks, Spin!Load, Spin!At, Spin!Arg
    <3> QED
      BY <3>1, <3>2
  <2> QED
    BY <2>1, <2>2, <2>3
<1> QED
  BY <1>1, <1>2, <1>3, <1>6, <1>7, <1>8, StaysStep

LEMMA TimeStep ==
  ASSUME NEW A, SpinAt(A), NEW c \in LockCpus, Spin!ReadTicks(c) \/ Spin!While(c)
  PROVE  SpinInv'
<1> DEFINE a == A[c]
           x == Head(todo[on[c]])
           w == With({"time"}, 1, FALSE, TRUE, TRUE)
<1>1. todo[on[c]] # <<>> /\ ReadsTime(x)
  BY DEF Spin!ReadTicks, Spin!While, Spin!At, ReadsTime
<1>2. PICK b : Takes(x, a, b) /\ Leads(Tail(todo[on[c]]), b, Rest(on[c]))
  BY <1>1, NextStep
<1>3. b = a /\ a = w
  <2> HIDE DEF a, x
  <2> QED
    BY <1>1, <1>2, TakesIs, ZenonT(60)
<1> HIDE DEF w
<1>4. \A k : Leads(<< <<"while", k>> >>, w, w)
  <2>1. \A k : ReadsTime(<<"while", k>>)
    BY DEF ReadsTime
  <2> QED
    BY <2>1, TimeLeads, Zenon DEF w
<1>5. \A k : Leads(Spin!Sleep \o << <<"while", k>> >>, w, w)
  BY <1>4, SleepLeads, LeadsOn, Zenon DEF w
<1>6. PICK s : Leads(s, w, w) /\ Spin!Become(c, s)
  <2>1. CASE Spin!ReadTicks(c)
    BY <1>4, <2>1 DEF Spin!ReadTicks
  <2>2. CASE Spin!While(c) /\ ticks = Spin!Arg(c)
    <3>1. Spin!Become(c, Spin!Sleep \o << <<"while", Spin!Arg(c)>> >>)
      BY <2>2 DEF Spin!While
    <3> QED
      BY <1>5, <3>1
  <2>3. CASE Spin!While(c) /\ ticks # Spin!Arg(c)
    <3>1. Spin!Become(c, <<>>)
      BY <2>3 DEF Spin!While
    <3> QED
      BY <3>1, LeadsNowhere
  <2> QED
    BY <2>1, <2>2, <2>3
<1> DEFINE u == s \o Tail(todo[on[c]])
<1>7. todo' = [todo EXCEPT ![on[c]] = u]
  BY <1>6 DEF Spin!Become
<1>8. Leads(u, a, Rest(on[c]))
  BY <1>2, <1>3, <1>6, LeadsOn, Zenon
<1>9. UNCHANGED <<held, holder, iflag, ncli, intena, on, tstate, panicked>>
  BY DEF Spin!ReadTicks, Spin!While, Spin!locks, Spin!cli, Spin!procs, Spin!counts
<1>10. /\ Legal(a) /\ ~panicked'
       /\ tstate' \in [Spin!Proc -> {"RUNNABLE", "RUNNING", "SLEEPING"}]
  BY <1>9 DEF SpinAt, SpinTypes
<1> HIDE DEF u
<1> QED
  BY <1>7, <1>8, <1>9, <1>10, Quiet

LEMMA NextSpin == SpinInv /\ Spin!Next => SpinInv'
<1> SUFFICES ASSUME NEW A, SpinAt(A), NEW c \in LockCpus,
        \/ Spin!Pushcli(c) \/ Spin!Xchg(c) \/ Spin!Own(c) \/ Spin!Disown(c) \/ Spin!Unlock(c)
        \/ Spin!Schedule(c) \/ Spin!Pick(c) \/ Spin!EndScan(c) \/ Spin!Sched(c) \/ Spin!Restore(c)
        \/ Spin!TrapSyscall(c) \/ Spin!TrapTimer(c) \/ Spin!Iret(c)
        \/ Spin!Tick(c) \/ Spin!Wakeup(c) \/ Spin!ReadTicks(c) \/ Spin!While(c)
        \/ Spin!Mycpu(c) \/ Spin!Load(c) \/ Spin!Store(c)
     PROVE SpinInv'
  BY DEF SpinInv, Spin!Next
<1>1. CASE Spin!Pushcli(c) BY <1>1, PushcliStep
<1>2. CASE Spin!Xchg(c) BY <1>2, XchgStep
<1>3. CASE Spin!Own(c) BY <1>3, OwnStep
<1>4. CASE Spin!Disown(c) BY <1>4, DisownStep
<1>5. CASE Spin!Unlock(c) BY <1>5, UnlockStep
<1>6. CASE Spin!Schedule(c) BY <1>6, ScheduleStep
<1>7. CASE Spin!Pick(c) BY <1>7, PickStep
<1>8. CASE Spin!EndScan(c) BY <1>8, EndScanStep
<1>9. CASE Spin!Sched(c) BY <1>9, SchedStep
<1>10. CASE Spin!Restore(c) BY <1>10, RestoreStep
<1>11. CASE Spin!TrapSyscall(c) BY <1>11, TrapSyscallStep
<1>12. CASE Spin!TrapTimer(c) BY <1>12, TrapTimerStep
<1>13. CASE Spin!Iret(c) BY <1>13, IretStep
<1>14. CASE \/ Spin!Tick(c) \/ Spin!Wakeup(c) \/ Spin!Mycpu(c) \/ Spin!Load(c) \/ Spin!Store(c)
  BY <1>14, WorkStep
<1>15. CASE Spin!ReadTicks(c) \/ Spin!While(c) BY <1>15, TimeStep
<1> QED
  BY <1>1, <1>2, <1>3, <1>4, <1>5, <1>6, <1>7, <1>8, <1>9, <1>10, <1>11, <1>12, <1>13, <1>14, <1>15

-----------------------------------------------------------------------------
\* What the outlines say of a state.
LEMMA HandlerIsOff ==
  ASSUME NEW A, SpinAt(A), NEW c \in LockCpus
  PROVE  /\ Spin!Handling(on[c]) <=> A[c].off
         /\ iflag[c] => A[c].n = 0 /\ ~A[c].off
         /\ ~iflag[c] /\ A[c].n = 0 /\ A[c].sure => A[c].off
<1> DEFINE a == A[c]
           t == on[c]
           r == Rest(t)
           H == \E j \in DOMAIN todo[t] : EndsHandler(todo[t][j])
<1>1. Legal(a) /\ Fits(c, a) /\ SpinTypes /\ Leads(todo[t], a, r)
  BY DEF SpinAt
<1>2. r.off = FALSE
  BY DEF Rest, Outside, With, Pt
<1>3. Spin!Handling(t) <=> H
  BY DEF Spin!Handling, Spin!Ahead, EndsHandler
<1> HIDE DEF a, r, H
<1>4. a.off <=> r.off \/ H
  BY <1>1, LeadsWhere DEF H
<1>5. a.off \in BOOLEAN /\ iflag[c] \in BOOLEAN
  BY <1>1 DEF Legal, Point, SpinTypes
<1>6. Spin!Handling(t) <=> a.off
  BY <1>2, <1>3, <1>4
<1>7. /\ iflag[c] => a.n = 0
      /\ a.sure /\ a.n = 0 => iflag[c] = ~a.off
  BY <1>1 DEF Fits
<1>8. a.n = 0 /\ ~a.sure => ~a.off
  BY <1>1 DEF Legal
<1> QED
  BY <1>5, <1>6, <1>7, <1>8 DEF a, t

\* With interrupts off outside the locks and the handlers, a thread is at the end of
\* the scheduler's round, or at the return of a new process.
LEMMA OffOutside ==
  ASSUME NEW A, SpinAt(A), NEW c \in LockCpus, A[c].n = 0, ~A[c].sure
  PROVE  \/ on[c] = c /\ todo[on[c]] = <<>>
         \/ todo[on[c]] # <<>> /\ Head(todo[on[c]]) = <<"iret", "fork">>
<1> DEFINE a == A[c]
           x == Head(todo[on[c]])
<1>1. CASE todo[on[c]] = <<>>
  <2>1. a = Rest(on[c])
    BY <1>1, AtRest
  <2>2. Outside(TRUE).sure
    BY DEF Outside, With, Pt
  <2>3. on[c] \in LockCpus
    BY <2>1, <2>2 DEF Rest
  <2> QED
    BY <1>1, <2>3 DEF SpinAt, Placed
<1>2. CASE todo[on[c]] # <<>>
  <2>1. PICK b : Takes(x, a, b)
    BY <1>2, NextStep
  <2>2. Legal(a) /\ a.n = 0 /\ ~a.sure
    BY DEF SpinAt
  <2> HIDE DEF a, x
  <2>3. a.has = {} /\ a.want = "" /\ a.got = ""
    BY <2>2 DEF Legal
  <2>4. /\ x[1] = "pushcli" => a.sure
        /\ x[1] = "xchg" => x[2] \in Spin!Locks /\ a.want = x[2]
        /\ x[1] = "own" => x[2] \in Spin!Locks /\ a.got = x[2]
        /\ x[1] = "disown" => x[2] \in a.has
        /\ x[1] = "unlock" => x[2] \in Spin!Locks /\ a.got = x[2]
    BY ONLY <2>1, TakesIs
  <2>5. /\ x[1] = "sched" => a = With({"ptable"}, 1, a.off, TRUE, TRUE)
        /\ x[1] = "restore" => a = Switched(a.off, TRUE)
        /\ x[1] = "scan" => a = With({"ptable"}, 1, FALSE, a.sure, FALSE)
        /\ ReadsTime(x) => a = With({"time"}, 1, FALSE, TRUE, TRUE)
        /\ Stays(x) => a.n > 0
    BY <2>1, TakesIs, ZenonT(60)
  <2>6. /\ x[1] = "iret" => (~a.sure => x = <<"iret", "fork">>)
        /\ x[1] \in {"pushcli", "xchg", "own", "disown", "unlock", "sched", "restore", "scan", "iret",
                     "ticks0", "while", "tick", "wakeup", "mycpu", "load", "store"}
    BY <2>1, TakesIs
  <2>7. x[1] \notin {"pushcli", "xchg", "own", "disown", "unlock"}
    BY <2>2, <2>3, <2>4, LockNames
  <2>8. ~Stays(x)
    BY <2>2, <2>5
  <2>9. \A off, sure, proc, l : With({l}, 1, off, sure, proc).n = 1
    BY DEF With, Pt
  <2>10. /\ x[1] = "sched" => a.n = 1
         /\ x[1] = "restore" => a.n = 1
         /\ x[1] = "scan" => a.n = 1
         /\ ReadsTime(x) => a.n = 1
    <3>1. \A off, sure, proc, l : a = With({l}, 1, off, sure, proc) => a.n = 1
      BY <2>9, Zenon
    <3>2. a = Switched(a.off, TRUE) => a.n = 1
      BY <3>1, Zenon DEF Switched
    <3>3. a = With({"ptable"}, 1, a.off, TRUE, TRUE) => a.n = 1
      BY <3>1, Zenon
    <3>4. a = With({"ptable"}, 1, FALSE, a.sure, FALSE) => a.n = 1
      BY <3>1, Zenon
    <3>5. a = With({"time"}, 1, FALSE, TRUE, TRUE) => a.n = 1
      BY <3>1, Zenon
    <3> QED
      BY <2>5, <3>2, <3>3, <3>4, <3>5, Zenon
  <2>11. x[1] \notin {"sched", "restore", "scan"} /\ ~ReadsTime(x)
    BY <2>2, <2>10
  <2>12. x[1] = "iret"
    BY <2>6, <2>7, <2>8, <2>11 DEF Stays, ReadsTime
  <2> QED
    BY <1>2, <2>2, <2>6, <2>12 DEF x
<1> QED
  BY <1>1, <1>2

LEMMA FollowsThread == SpinInv => Spin!IntenaFollowsThread
<1> SUFFICES ASSUME NEW A, SpinAt(A), NEW c \in LockCpus
             PROVE  /\ iflag[c] => ncli[c] = 0 /\ ~Spin!Handling(on[c])
                    /\ ~iflag[c] => \/ ncli[c] > 0 \/ Spin!Handling(on[c])
                                    \/ on[c] = c /\ todo[on[c]] = <<>>
                                    \/ todo[on[c]] # <<>> /\ Head(todo[on[c]]) = <<"iret", "fork">>
  BY DEF SpinInv, Spin!IntenaFollowsThread
<1>1. ncli[c] = A[c].n /\ ncli[c] \in Nat
  BY DEF SpinAt, Fits, SpinTypes
<1>2. iflag[c] => ncli[c] = 0 /\ ~Spin!Handling(on[c])
  BY <1>1, HandlerIsOff
<1>3. ASSUME ~iflag[c], ~(ncli[c] > 0), ~Spin!Handling(on[c])
      PROVE  \/ on[c] = c /\ todo[on[c]] = <<>>
             \/ todo[on[c]] # <<>> /\ Head(todo[on[c]]) = <<"iret", "fork">>
  <2>1. A[c].n = 0
    BY <1>1, <1>3
  <2>2. ~A[c].sure
    BY <1>3, <2>1, HandlerIsOff
  <2> QED
    BY <2>1, <2>2, OffOutside
<1> QED
  BY <1>2, <1>3

\* Whoever has the lock that c waits for has ncli > 0; if it waits itself, it is for
\* ptable.lock under tickslock, and whoever has that one does not wait.
LEMMA SomeoneRuns == SpinInv => Spin!SpinsEnd
<1> SUFFICES ASSUME NEW A, SpinAt(A), NEW c \in LockCpus, Spin!Spins(c)
             PROVE  \E d \in LockCpus : ncli[d] > 0 /\ ~Spin!Spins(d)
  BY DEF SpinInv, Spin!SpinsEnd
<1>1. ASSUME NEW d \in LockCpus, Spin!Spins(d)
      PROVE  \E l \in Spin!Locks : /\ A[d].want = l /\ held[l] /\ A[d].got = ""
                                   /\ (A[d].has = {} \/ (A[d].has = {"time"} /\ l = "ptable"))
  <2> DEFINE a == A[d]
             x == Head(todo[on[d]])
  <2>1. todo[on[d]] # <<>> /\ x[1] = "xchg" /\ held[x[2]]
    BY <1>1 DEF Spin!Spins, Spin!At, Spin!Arg
  <2>2. PICK b : Takes(x, a, b)
    BY <2>1, NextStep
  <2>3. Legal(a)
    BY DEF SpinAt
  <2> HIDE DEF a, x
  <2>4. x[2] \in Spin!Locks /\ a.want = x[2]
    BY <2>1, <2>2, TakesIs
  <2>5. a.got = "" /\ (a.has = {} \/ (a.has = {"time"} /\ a.want = "ptable"))
    BY <2>3, <2>4, LockNames DEF Legal
  <2> QED
    BY <2>1, <2>4, <2>5 DEF a
<1>2. ASSUME NEW l \in Spin!Locks, held[l]
      PROVE  \E d \in LockCpus : l \in Owns(A[d]) /\ ncli[d] > 0
  <2>1. PICK d \in LockCpus : l \in Owns(A[d])
    BY <1>2 DEF SpinAt
  <2>2. Legal(A[d]) /\ ncli[d] = A[d].n /\ A[d].n \in Nat
    BY DEF SpinAt, Legal, Point, Fits
  <2>3. A[d].n # 0
    BY <2>1, <2>2, LockNames DEF Legal, Owns
  <2> QED
    BY <2>1, <2>2, <2>3
<1>3. ASSUME NEW l \in Spin!Locks, NEW d \in LockCpus, l \in Owns(A[d]), Spin!Spins(d)
      PROVE  l = "time" /\ held["ptable"]
  <2>1. PICK k \in Spin!Locks : /\ A[d].want = k /\ held[k] /\ A[d].got = ""
                                /\ (A[d].has = {} \/ (A[d].has = {"time"} /\ k = "ptable"))
    BY <1>1, <1>3
  <2>2. l \in A[d].has
    BY <1>3, <2>1, LockNames DEF Owns
  <2> QED
    BY <2>1, <2>2
<1>4. PICK l \in Spin!Locks : held[l]
  BY <1>1
<1>5. PICK d \in LockCpus : l \in Owns(A[d]) /\ ncli[d] > 0
  BY <1>2, <1>4
<1>6. CASE ~Spin!Spins(d)
  BY <1>5, <1>6
<1>7. CASE Spin!Spins(d)
  <2>1. held["ptable"]
    BY <1>3, <1>5, <1>7
  <2>2. PICK e \in LockCpus : "ptable" \in Owns(A[e]) /\ ncli[e] > 0
    BY <1>2, <2>1, LockNames
  <2>3. ~Spin!Spins(e)
    BY <1>3, <2>2, LockNames
  <2> QED
    BY <2>2, <2>3
<1> QED
  BY <1>6, <1>7

\* In the view of the locks, the invariant holds.
LEMMA SpinHolds == SpecBoth => [](view = "spin" => SpinInv)
<1>1. InitBoth => (view = "spin" => SpinInv)
  BY InitSpin DEF InitBoth
<1>2. (view = "spin" => SpinInv) /\ [NextBoth]_bothVars => (view = "spin" => SpinInv)'
  <2> SUFFICES ASSUME view = "spin" => SpinInv, [NextBoth]_bothVars, view' = "spin"
               PROVE  SpinInv'
    OBVIOUS
  <2>1. view = "spin" /\ SpinInv
    BY DEF NextBoth, bothVars
  <2>2. CASE Spin!Next
    BY <2>1, <2>2, NextSpin
  <2>3. CASE UNCHANGED spin
    <3>1. UNCHANGED <<held, holder, iflag, ncli, intena, on, tstate, todo, panicked>>
      BY <2>3 DEF spin
    <3>2. PICK A : SpinAt(A)
      BY <2>1 DEF SpinInv
    <3>3. SpinAt(A)'
      <4>1. SpinTypes' /\ ~panicked'
        BY <3>1, <3>2 DEF SpinAt, SpinTypes
      <4>2. Placed'
        BY <3>1, <3>2 DEF SpinAt, Placed
      <4>3. Waiting'
        BY <3>1, <3>2 DEF SpinAt, Waiting
      <4>4. \A c \in LockCpus : Fits(c, A[c])'
        BY <3>1, <3>2 DEF SpinAt, Fits
      <4>5. /\ \A c \in LockCpus : /\ Legal(A[c]) /\ A[c].proc = (on'[c] \in Spin!Proc)
                                     /\ Leads(todo'[on'[c]], A[c], Rest(on'[c]))
            /\ A \in [LockCpus -> Point]
            /\ \A c, d \in LockCpus : c # d => Owns(A[c]) \cap Owns(A[d]) \cap Spin!Locks = {}
            /\ \A l \in Spin!Locks : held'[l] => \E c \in LockCpus : l \in Owns(A[c])
        BY <3>1, <3>2 DEF SpinAt
      <4> QED
        BY <4>1, <4>2, <4>3, <4>4, <4>5 DEF SpinAt
    <3> QED
      BY <3>3 DEF SpinInv
  <2> QED
    BY <2>1, <2>2, <2>3 DEF NextBoth, bothVars
<1> QED
  BY <1>1, <1>2, PTL DEF SpecBoth

\* Spin locks and interrupts (spinlock.c, sched of proc.c): whatever the number of
\* processors and of processes, whether interrupts are on belongs to the kernel
\* thread, not to the processor whose ncli and intena it happens to use.
THEOREM IntenaBelongsToThread == SpecBoth => []IntenaFollowsThread
<1>1. (view = "spin" => SpinInv) => IntenaFollowsThread
  BY FollowsThread DEF IntenaFollowsThread
<1> QED
  BY <1>1, SpinHolds, PTL

-----------------------------------------------------------------------------
\* The sum over a set that FoldSet makes, as the value of a recursive function.
SumStep(f, S, g) ==
  g = [s \in SUBSET S |-> IF s = {} THEN 0
                          ELSE LET x == CHOOSE x \in s : TRUE IN g[s \ {x}] + f[x]]
Total(f, S) == (CHOOSE g : SumStep(f, S, g))[S]
Pick1(s) == CHOOSE x \in s : TRUE

LEMMA FoldIsTotal ==
  ASSUME NEW f, NEW S
  PROVE  Spin!FoldSet(LAMBDA c, n : n + f[c], 0, S) = Total(f, S)
BY Zenon DEF Spin!FoldSet, Spin!MapThenFoldSet, Total, SumStep

LEMMA Smallest ==
  ASSUME NEW S, IsFiniteSet(S), NEW B \in SUBSET SUBSET S, B # {}
  PROVE  \E s \in B : \A u \in SUBSET s : u # s => u \notin B
<1>1. IsWellFoundedOn(StrictSubsetOrdering(S), SUBSET S)
  BY FS_StrictSubsetOrderingWellFounded, FS_FiniteSubsetsOfFinite
<1>2. PICK s \in B : \A u \in B : ~(<<u, s>> \in StrictSubsetOrdering(S))
  BY <1>1, WFMin
<1>3. ASSUME NEW u \in SUBSET s, u # s, u \in B PROVE FALSE
  <2>1. <<u, s>> \in StrictSubsetOrdering(S)
    BY <1>3 DEF StrictSubsetOrdering
  <2> QED
    BY <1>2, <1>3, <2>1
<1> QED
  BY <1>2, <1>3

LEMMA SumAt ==
  ASSUME NEW f, NEW S, NEW g, SumStep(f, S, g), NEW s \in SUBSET S
  PROVE  /\ s = {} => g[s] = 0
         /\ s # {} => /\ Pick1(s) \in s /\ s \ {Pick1(s)} \in SUBSET s /\ s \ {Pick1(s)} # s
                      /\ g[s] = g[s \ {Pick1(s)}] + f[Pick1(s)]
<1>1. g[s] = IF s = {} THEN 0 ELSE LET x == CHOOSE x \in s : TRUE IN g[s \ {x}] + f[x]
  BY DEF SumStep
<1>2. s # {} => Pick1(s) \in s
  BY DEF Pick1
<1> QED
  BY <1>1, <1>2 DEF Pick1

LEMMA SumUnique ==
  ASSUME NEW f, NEW S, NEW T, NEW g, NEW h, SumStep(f, S, g), SumStep(f, T, h),
         NEW U, IsFiniteSet(U), U \subseteq S, U \subseteq T
  PROVE  g[U] = h[U]
<1> DEFINE B == {s \in SUBSET U : g[s] # h[s]}
<1> SUFFICES ASSUME B # {} PROVE FALSE
  BY DEF B
<1>1. PICK s \in B : \A u \in SUBSET s : u # s => u \notin B
  <2>1. B \in SUBSET SUBSET U
    OBVIOUS
  <2> HIDE DEF B
  <2> QED
    BY <2>1, Smallest
<1>2. s # {} /\ Pick1(s) \in s /\ s \in SUBSET S /\ s \in SUBSET T
  BY SumAt
<1> DEFINE u == s \ {Pick1(s)}
<1>3. u \in SUBSET s /\ u # s
  BY <1>2
<1>4. g[u] = h[u]
  BY <1>1, <1>3
<1> QED
  BY <1>2, <1>4, SumAt

\* Total is what the recursion says.
LEMMA TotalStep ==
  ASSUME NEW f, NEW S, IsFiniteSet(S)
  PROVE  \A s \in SUBSET S :
           Total(f, s) = IF s = {} THEN 0 ELSE Total(f, s \ {Pick1(s)}) + f[Pick1(s)]
<1> DEFINE P(s) == Total(f, s) = IF s = {} THEN 0 ELSE Total(f, s \ {Pick1(s)}) + f[Pick1(s)]
           B == {s \in SUBSET S : ~P(s)}
<1> SUFFICES ASSUME B # {} PROVE FALSE
  BY DEF B
<1>1. PICK s \in B : \A u \in SUBSET s : u # s => u \notin B
  <2>1. B \in SUBSET SUBSET S
    OBVIOUS
  <2> HIDE DEF B
  <2> QED
    BY <2>1, Smallest
<1>2. s \in SUBSET S /\ ~P(s) /\ \A u \in SUBSET s : u # s => P(u)
  BY <1>1
<1> DEFINE last == IF s = {} THEN 0 ELSE Total(f, s \ {Pick1(s)}) + f[Pick1(s)]
           G == [u \in SUBSET s |-> IF u = s THEN last ELSE Total(f, u)]
<1>3. ASSUME NEW u \in SUBSET s
      PROVE  G[u] = IF u = {} THEN 0 ELSE G[u \ {Pick1(u)}] + f[Pick1(u)]
  <2>1. u # {} => Pick1(u) \in u /\ u \ {Pick1(u)} \in SUBSET s /\ u \ {Pick1(u)} # s
    BY DEF Pick1
  <2>2. u # {} => G[u \ {Pick1(u)}] = Total(f, u \ {Pick1(u)})
    BY <2>1
  <2>3. CASE u = s
    BY <2>2, <2>3
  <2>4. CASE u # s
    BY <1>2, <2>2, <2>4
  <2> QED
    BY <2>3, <2>4
<1>4. SumStep(f, s, G)
  <2>1. G = [u \in SUBSET s |-> IF u = {} THEN 0 ELSE G[u \ {Pick1(u)}] + f[Pick1(u)]]
    <3> HIDE DEF last
    <3>1. G = [u \in SUBSET s |-> G[u]]
      OBVIOUS
    <3> HIDE DEF G
    <3> QED
      BY <1>3, <3>1
  <2> HIDE DEF G
  <2> QED
    BY <2>1, Zenon DEF SumStep, Pick1
<1> HIDE DEF G
<1>5. PICK g : SumStep(f, s, g) /\ Total(f, s) = g[s]
  BY <1>4 DEF Total
<1>6. IsFiniteSet(s) /\ \A u \in SUBSET s : IsFiniteSet(u)
  BY <1>2, FS_Subset
<1>7. g[s] = G[s]
  BY <1>4, <1>5, <1>6, SumUnique
<1>8. G[s] = last
  BY DEF G
<1> QED
  BY <1>2, <1>5, <1>7, <1>8

\* One of the summands grows, or none of them changes.
LEMMA TotalGrows ==
  ASSUME NEW S, IsFiniteSet(S), NEW f, NEW h, NEW k,
         \A x \in S : f[x] \in Int /\ h[x] = f[x] + (IF x = k THEN 1 ELSE 0)
  PROVE  Total(f, S) \in Int /\ Total(h, S) = Total(f, S) + (IF k \in S THEN 1 ELSE 0)
<1> DEFINE P(s) == /\ Total(f, s) \in Int
                   /\ Total(h, s) = Total(f, s) + (IF k \in s THEN 1 ELSE 0)
           B == {s \in SUBSET S : ~P(s)}
<1> SUFFICES ASSUME B # {} PROVE FALSE
  BY DEF B
<1>1. PICK s \in B : \A u \in SUBSET s : u # s => u \notin B
  <2>1. B \in SUBSET SUBSET S
    OBVIOUS
  <2> HIDE DEF B
  <2> QED
    BY <2>1, Smallest
<1>2. s \in SUBSET S /\ ~P(s) /\ \A u \in SUBSET s : u # s => P(u)
  BY <1>1
<1> DEFINE x == Pick1(s)
           u == s \ {x}
<1>3. /\ Total(f, s) = IF s = {} THEN 0 ELSE Total(f, u) + f[x]
      /\ Total(h, s) = IF s = {} THEN 0 ELSE Total(h, u) + h[x]
  BY <1>2, TotalStep
<1>4. s # {} => x \in s
  BY DEF Pick1
<1>5. s # {} => P(u)
  BY <1>2, <1>4
<1>6. s # {} => f[x] \in Int /\ h[x] = f[x] + (IF x = k THEN 1 ELSE 0)
  BY <1>2, <1>4
<1>7. k \in s <=> k \in u \/ (s # {} /\ k = x)
  BY <1>4
<1>8. k \notin u \/ k # x
  OBVIOUS
<1> HIDE DEF x, u
<1> QED
  BY <1>2, <1>3, <1>5, <1>6, <1>7, <1>8

LEMMA TotalZero ==
  ASSUME NEW S, IsFiniteSet(S), NEW f, \A x \in S : f[x] = 0
  PROVE  Total(f, S) = 0
<1> DEFINE B == {s \in SUBSET S : Total(f, s) # 0}
<1> SUFFICES ASSUME B # {} PROVE FALSE
  BY DEF B
<1>1. PICK s \in B : \A u \in SUBSET s : u # s => u \notin B
  <2>1. B \in SUBSET SUBSET S
    OBVIOUS
  <2> HIDE DEF B
  <2> QED
    BY <2>1, Smallest
<1>2. Total(f, s) = IF s = {} THEN 0 ELSE Total(f, s \ {Pick1(s)}) + f[Pick1(s)]
  BY TotalStep
<1>3. s # {} => Pick1(s) \in s
  BY DEF Pick1
<1>4. s # {} => Total(f, s \ {Pick1(s)}) = 0 /\ f[Pick1(s)] = 0
  BY <1>1, <1>3
<1> QED
  BY <1>1, <1>2, <1>4

-----------------------------------------------------------------------------
\* A sequence of steps without one that marks k, and with just one.
Plain(s, k) == (\E S : s \in Seq(S)) /\ \A i \in 1..Len(s) : ~Marks(s[i], k)
Once(s, k) ==
  /\ \E S : s \in Seq(S)
  /\ \E i \in 1..Len(s) : Marks(s[i], k) /\ \A j \in 1..Len(s) : Marks(s[j], k) => j = i
Clean(s) == \A k \in {"all", "each", "store"} : Plain(s, k)

LEMMA PlainOrOnce ==
  /\ \A s, k : ~(Plain(s, k) /\ Once(s, k))
  /\ \A k : Plain(<<>>, k)
  /\ \A x, k : IF Marks(x, k) THEN Once(<<x>>, k) ELSE Plain(<<x>>, k)
<1>1. <<>> \in Seq({}) /\ Len(<<>>) = 0
  BY EmptySeq
<1>2. ASSUME NEW x PROVE <<x>> \in Seq({x}) /\ Len(<<x>>) = 1 /\ <<x>>[1] = x
  OBVIOUS
<1>3. \A k : Plain(<<>>, k)
  BY <1>1 DEF Plain
<1>4. ASSUME NEW x, NEW k PROVE IF Marks(x, k) THEN Once(<<x>>, k) ELSE Plain(<<x>>, k)
  <2> DEFINE s == <<x>>
  <2>1. s \in Seq({x}) /\ Len(s) = 1 /\ s[1] = x
    BY <1>2
  <2> HIDE DEF s
  <2>2. IF Marks(x, k) THEN Once(s, k) ELSE Plain(s, k)
    BY <2>1 DEF Once, Plain
  <2> QED
    BY <2>2 DEF s
<1> QED
  BY <1>3, <1>4 DEF Plain, Once

LEMMA MarksOn ==
  ASSUME NEW s, NEW u, NEW k
  PROVE  /\ Plain(s, k) /\ Plain(u, k) => Plain(s \o u, k)
         /\ Plain(s, k) /\ Once(u, k) => Once(s \o u, k)
         /\ Once(s, k) /\ Plain(u, k) => Once(s \o u, k)
<1> SUFFICES ASSUME NEW S, s \in Seq(S), NEW T, u \in Seq(T)
    PROVE  /\ Plain(s, k) /\ Plain(u, k) => Plain(s \o u, k)
           /\ Plain(s, k) /\ Once(u, k) => Once(s \o u, k)
           /\ Once(s, k) /\ Plain(u, k) => Once(s \o u, k)
  BY DEF Plain, Once
<1> DEFINE w == s \o u
           m == Len(s)
           n == Len(u)
<1>1. s \in Seq(S \cup T) /\ u \in Seq(S \cup T)
  BY SeqMonotonic
<1>2. /\ w \in Seq(S \cup T) /\ Len(w) = m + n /\ m \in Nat /\ n \in Nat
      /\ \A i \in 1..m + n : w[i] = IF i <= m THEN s[i] ELSE u[i - m]
  BY <1>1, ConcatProperties, LenProperties
<1> HIDE DEF w, m, n
<1>3. \A i \in 1..m : w[i] = s[i] /\ i \in 1..m + n
  BY <1>2
<1>4. ASSUME NEW i \in 1..n PROVE w[m + i] = u[i] /\ m + i \in 1..m + n
  <2>1. m + i \in 1..m + n /\ ~(m + i <= m) /\ (m + i) - m = i
    BY <1>2
  <2> QED
    BY <1>2, <2>1
<1>5. ASSUME NEW i \in 1..m + n
      PROVE  i \in 1..m \/ (i > m /\ i - m \in 1..n /\ m + (i - m) = i)
  BY <1>2
<1>6. ASSUME Plain(s, k), Plain(u, k) PROVE Plain(w, k)
  <2>1. \A i \in 1..m : ~Marks(w[i], k)
    BY <1>3, <1>6 DEF Plain, m
  <2>2. \A i \in 1..n : ~Marks(w[m + i], k)
    BY <1>4, <1>6 DEF Plain, n
  <2>3. ASSUME NEW i \in 1..m + n PROVE ~Marks(w[i], k)
    <3>1. CASE i \in 1..m
      BY <2>1, <3>1
    <3>2. CASE i - m \in 1..n /\ m + (i - m) = i
      <4>1. ~Marks(w[m + (i - m)], k)
        BY <2>2, <3>2
      <4> QED
        BY <3>2, <4>1
    <3> QED
      BY <1>5, <3>1, <3>2
  <2> QED
    BY <1>2, <2>3 DEF Plain
<1>7. ASSUME Plain(s, k), Once(u, k) PROVE Once(w, k)
  <2>1. \A i \in 1..m : ~Marks(w[i], k)
    BY <1>3, <1>7 DEF Plain, m
  <2>2. PICK i \in 1..n : Marks(u[i], k) /\ \A j \in 1..n : Marks(u[j], k) => j = i
    BY <1>7 DEF Once, n
  <2>3. Marks(w[m + i], k) /\ m + i \in 1..m + n
    BY <1>4, <2>2
  <2>4. ASSUME NEW j \in 1..m + n, Marks(w[j], k) PROVE j = m + i
    <3>1. j - m \in 1..n /\ m + (j - m) = j
      BY <1>5, <2>1, <2>4
    <3>2. w[m + (j - m)] = u[j - m]
      BY <1>4, <3>1
    <3>3. Marks(u[j - m], k)
      BY <2>4, <3>1, <3>2
    <3>4. j - m = i
      BY <2>2, <3>1, <3>3
    <3> QED
      BY <3>1, <3>4
  <2> QED
    BY <1>2, <2>3, <2>4 DEF Once
<1>8. ASSUME Once(s, k), Plain(u, k) PROVE Once(w, k)
  <2>1. \A i \in 1..n : ~Marks(w[m + i], k)
    BY <1>4, <1>8 DEF Plain, n
  <2>2. PICK i \in 1..m : Marks(s[i], k) /\ \A j \in 1..m : Marks(s[j], k) => j = i
    BY <1>8 DEF Once, m
  <2>3. Marks(w[i], k) /\ i \in 1..m + n
    BY <1>3, <2>2
  <2>4. ASSUME NEW j \in 1..m + n, Marks(w[j], k) PROVE j = i
    <3>1. CASE j \in 1..m
      BY <1>3, <2>2, <2>4, <3>1
    <3>2. CASE j - m \in 1..n /\ m + (j - m) = j
      <4>1. ~Marks(w[m + (j - m)], k)
        BY <2>1, <3>2
      <4> QED
        BY <2>4, <3>2, <4>1
    <3> QED
      BY <1>5, <3>1, <3>2
  <2> QED
    BY <1>2, <2>3, <2>4 DEF Once
<1> QED
  BY <1>6, <1>7, <1>8 DEF w

LEMMA MarksOff ==
  ASSUME NEW s, NEW k, s # <<>>
  PROVE  /\ Plain(s, k) => ~Marks(Head(s), k) /\ Plain(Tail(s), k)
         /\ Once(s, k) => IF Marks(Head(s), k) THEN Plain(Tail(s), k) ELSE Once(Tail(s), k)
<1> SUFFICES ASSUME NEW S, s \in Seq(S)
    PROVE  /\ Plain(s, k) => ~Marks(Head(s), k) /\ Plain(Tail(s), k)
           /\ Once(s, k) => IF Marks(Head(s), k) THEN Plain(Tail(s), k) ELSE Once(Tail(s), k)
  BY DEF Plain, Once
<1> DEFINE n == Len(s)
           t == Tail(s)
           x == Head(s)
<1>1. /\ n \in Nat /\ n >= 1 /\ t \in Seq(S) /\ Len(t) = n - 1
      /\ \A i \in 1..n - 1 : t[i] = s[i + 1]
      /\ x = s[1]
  BY HeadTailProperties, EmptySeq, LenProperties
<1> HIDE DEF n, t, x
<1>2. 1 \in 1..n /\ \A i \in 1..n - 1 : i + 1 \in 1..n /\ i + 1 # 1
  BY <1>1
<1>3. \A i \in 1..n : i = 1 \/ (i - 1 \in 1..n - 1 /\ (i - 1) + 1 = i)
  BY <1>1
<1>4. ASSUME Plain(s, k) PROVE ~Marks(x, k) /\ Plain(t, k)
  <2>1. \A i \in 1..n : ~Marks(s[i], k)
    BY <1>4 DEF Plain, n
  <2> QED
    BY <1>1, <1>2, <2>1 DEF Plain
<1>5. ASSUME Once(s, k) PROVE IF Marks(x, k) THEN Plain(t, k) ELSE Once(t, k)
  <2>1. PICK i \in 1..n : Marks(s[i], k) /\ \A j \in 1..n : Marks(s[j], k) => j = i
    BY <1>5 DEF Once, n
  <2>2. CASE Marks(x, k)
    <3>1. i = 1
      BY <1>1, <1>2, <2>1, <2>2
    <3>2. ASSUME NEW j \in 1..n - 1 PROVE ~Marks(t[j], k)
      BY <1>1, <1>2, <2>1, <3>1
    <3> QED
      BY <1>1, <2>2, <3>2 DEF Plain
  <2>3. CASE ~Marks(x, k)
    <3>1. i - 1 \in 1..n - 1 /\ (i - 1) + 1 = i
      BY <1>1, <1>3, <2>1, <2>3
    <3>2. Marks(t[i - 1], k)
      BY <1>1, <2>1, <3>1
    <3>3. ASSUME NEW j \in 1..n - 1, Marks(t[j], k) PROVE j = i - 1
      <4>1. Marks(s[j + 1], k)
        BY <1>1, <3>3
      <4>2. j + 1 = i
        BY <1>2, <2>1, <4>1
      <4> QED
        BY <4>2
    <3> QED
      BY <1>1, <2>3, <3>1, <3>2, <3>3 DEF Once
  <2> QED
    BY <2>2, <2>3
<1> QED
  BY <1>4, <1>5 DEF t, x

LEMMA CleanOn ==
  ASSUME NEW s, NEW u, Clean(s), Clean(u)
  PROVE  Clean(s \o u)
BY MarksOn DEF Clean

LEMMA CleanSteps ==
  /\ Clean(<<>>)
  /\ \A x : x[1] \notin {"load", "store", "mycpu"} => Clean(<<x>>)
  /\ \A l : Clean(Spin!Acquire(l)) /\ Clean(Spin!Release(l))
<1>1. Clean(<<>>)
  BY PlainOrOnce DEF Clean
<1>2. ASSUME NEW x, x[1] \notin {"load", "store", "mycpu"} PROVE Clean(<<x>>)
  <2>1. \A k : ~Marks(x, k)
    BY <1>2 DEF Marks
  <2> QED
    BY <2>1, PlainOrOnce DEF Clean
<1>3. ASSUME NEW l PROVE Clean(Spin!Acquire(l)) /\ Clean(Spin!Release(l))
  <2>1. /\ <<"pushcli", l>>[1] \notin {"load", "store", "mycpu"}
        /\ <<"xchg", l>>[1] \notin {"load", "store", "mycpu"}
        /\ <<"own", l>>[1] \notin {"load", "store", "mycpu"}
        /\ <<"disown", l>>[1] \notin {"load", "store", "mycpu"}
        /\ <<"unlock", l>>[1] \notin {"load", "store", "mycpu"}
    OBVIOUS
  <2>2. /\ Clean(<< <<"pushcli", l>> >>) /\ Clean(<< <<"xchg", l>> >>) /\ Clean(<< <<"own", l>> >>)
        /\ Clean(<< <<"disown", l>> >>) /\ Clean(<< <<"unlock", l>> >>)
    BY <1>2, <2>1, Zenon
  <2>3. Clean(Spin!Release(l))
    <3>1. Clean(<< <<"disown", l>> >> \o << <<"unlock", l>> >>)
      BY <2>2, CleanOn, Zenon
    <3> QED
      BY <3>1, TwoAndThree, Zenon DEF Spin!Release
  <2>4. Clean(<< <<"pushcli", l>>, <<"xchg", l>> >>)
    <3>1. Clean(<< <<"pushcli", l>> >> \o << <<"xchg", l>> >>)
      BY <2>2, CleanOn, Zenon
    <3> QED
      BY <3>1, TwoAndThree, Zenon
  <2>5. Clean(<< <<"pushcli", l>>, <<"xchg", l>> >> \o << <<"own", l>> >>)
    BY <2>2, <2>4, CleanOn, Zenon
  <2>6. Clean(Spin!Acquire(l))
    BY <2>5, TwoAndThree, Zenon DEF Spin!Acquire
  <2> QED
    BY <2>3, <2>6
<1> QED
  BY <1>1, <1>2, <1>3

\* The functions that enter no count, and the system call, which enters two.
LEMMA FunctionMarks ==
  /\ Clean(Spin!Yield) /\ Clean(Spin!Sleep) /\ Clean(Spin!SysSleep) /\ Clean(Spin!Forkret)
  /\ \A c, t : Clean(Spin!Timer(c, t))
  /\ Clean(Spin!Acquire("ptable") \o << <<"scan", 1>> >> \o Spin!Release("ptable"))
<1>1. /\ Clean(<< <<"sched", "RUNNABLE">> >>) /\ Clean(<< <<"sched", "SLEEPING">> >>)
      /\ Clean(<< <<"ticks0">> >>) /\ Clean(<< <<"iret", "fork">> >>) /\ Clean(<< <<"scan", 1>> >>)
      /\ Clean(<< <<"tick">> >>) /\ Clean(<< <<"wakeup">> >>) /\ Clean(<< <<"iret", "timer">> >>)
  <2>1. /\ <<"sched", "RUNNABLE">>[1] \notin {"load", "store", "mycpu"}
        /\ <<"sched", "SLEEPING">>[1] \notin {"load", "store", "mycpu"}
        /\ <<"ticks0">>[1] \notin {"load", "store", "mycpu"}
        /\ <<"iret", "fork">>[1] \notin {"load", "store", "mycpu"}
        /\ <<"scan", 1>>[1] \notin {"load", "store", "mycpu"}
        /\ <<"tick">>[1] \notin {"load", "store", "mycpu"}
        /\ <<"wakeup">>[1] \notin {"load", "store", "mycpu"}
        /\ <<"iret", "timer">>[1] \notin {"load", "store", "mycpu"}
    OBVIOUS
  <2> QED
    BY <2>1, CleanSteps, Zenon
<1>2. Clean(Spin!Yield)
  BY <1>1, CleanSteps, CleanOn, Zenon DEF Spin!Yield
<1>3. Clean(Spin!Sleep)
  BY <1>1, CleanSteps, CleanOn, Zenon DEF Spin!Sleep
<1>4. Clean(Spin!SysSleep)
  BY <1>1, CleanSteps, CleanOn, Zenon DEF Spin!SysSleep
<1>5. Clean(Spin!Forkret)
  BY <1>1, CleanSteps, CleanOn, Zenon DEF Spin!Forkret
<1>6. ASSUME NEW c, NEW t PROVE Clean(Spin!Timer(c, t))
  <2> DEFINE U == Spin!Acquire("time") \o << <<"tick">> >> \o Spin!Acquire("ptable")
                    \o << <<"wakeup">> >> \o Spin!Release("ptable") \o Spin!Release("time")
             M == IF c = Boot THEN U ELSE <<>>
             Y == IF t \in Spin!Proc THEN Spin!Yield ELSE <<>>
  <2>1. Clean(U)
    BY <1>1, CleanSteps, CleanOn, Zenon
  <2>2. Clean(M)
    BY <2>1, CleanSteps
  <2>3. Clean(Y)
    BY <1>2, CleanSteps
  <2>4. M \o Y \o << <<"iret", "timer">> >> = Spin!Timer(c, t)
    BY Zenon DEF Spin!Timer
  <2> HIDE DEF M, Y
  <2>5. Clean(M \o Y \o << <<"iret", "timer">> >>)
    BY <1>1, <2>2, <2>3, CleanOn, Zenon
  <2> QED
    BY <2>4, <2>5
<1>7. Clean(Spin!Acquire("ptable") \o << <<"scan", 1>> >> \o Spin!Release("ptable"))
  BY <1>1, CleanSteps, CleanOn, Zenon
<1> QED
  BY <1>2, <1>3, <1>4, <1>5, <1>6, <1>7

LEMMA SyscallMarks ==
  ASSUME NEW body, Clean(body)
  PROVE  LET s == Spin!Syscall(body)
         IN  Once(s, "all") /\ Once(s, "each") /\ Plain(s, "store")
<1> DEFINE A1 == Spin!Acquire("all")
           A2 == << <<"load", "all">> >>
           A3 == Spin!Release("all")
           C1 == Spin!Acquire("each")
           C2 == << <<"mycpu">> >>
           C3 == Spin!Release("each")
           D1 == << <<"iret", "call">> >>
           s == body \o A1 \o A2 \o A3 \o C1 \o C2 \o C3 \o D1
<1>1. Clean(A1) /\ Clean(A3) /\ Clean(C1) /\ Clean(C3)
  BY CleanSteps
<1>2. Clean(D1)
  <2>1. <<"iret", "call">>[1] \notin {"load", "store", "mycpu"}
    OBVIOUS
  <2> QED
    BY <2>1, CleanSteps, Zenon
<1>3. Once(A2, "all") /\ Plain(A2, "each") /\ Plain(A2, "store")
  <2>1. Marks(<<"load", "all">>, "all") /\ ~Marks(<<"load", "all">>, "each")
        /\ ~Marks(<<"load", "all">>, "store")
    BY SpinLockConstants DEF Marks
  <2> QED
    BY <2>1, PlainOrOnce, Zenon
<1>4. Plain(C2, "all") /\ Once(C2, "each") /\ Plain(C2, "store")
  <2>1. ~Marks(<<"mycpu">>, "all") /\ Marks(<<"mycpu">>, "each") /\ ~Marks(<<"mycpu">>, "store")
    BY DEF Marks
  <2> QED
    BY <2>1, PlainOrOnce, Zenon
<1> HIDE DEF A1, A2, A3, C1, C2, C3, D1
<1>5. Clean(body \o A1) /\ Clean(A3 \o C1)
  BY <1>1, CleanOn
<1>6. /\ Once(body \o A1 \o A2, "all") /\ Plain(body \o A1 \o A2, "each")
      /\ Plain(body \o A1 \o A2, "store")
  BY <1>3, <1>5, MarksOn DEF Clean
<1>7. /\ Once(body \o A1 \o A2 \o A3 \o C1, "all") /\ Plain(body \o A1 \o A2 \o A3 \o C1, "each")
      /\ Plain(body \o A1 \o A2 \o A3 \o C1, "store")
  BY <1>1, <1>6, MarksOn DEF Clean
<1> DEFINE u == body \o A1 \o A2 \o A3 \o C1 \o C2
<1>8. Once(u, "all") /\ Once(u, "each") /\ Plain(u, "store")
  BY <1>4, <1>7, MarksOn
<1> HIDE DEF u
<1>9. Once(u \o C3, "all") /\ Once(u \o C3, "each") /\ Plain(u \o C3, "store")
  BY <1>1, <1>8, MarksOn DEF Clean
<1>10. Once(u \o C3 \o D1, "all") /\ Once(u \o C3 \o D1, "each") /\ Plain(u \o C3 \o D1, "store")
  BY <1>2, <1>9, MarksOn DEF Clean
<1>11. Once(s, "all") /\ Once(s, "each") /\ Plain(s, "store")
  BY <1>10 DEF u
<1>12. Spin!Syscall(body) = s
  BY Zenon DEF Spin!Syscall, A1, A2, A3, C1, C2, C3, D1
<1> HIDE DEF s
<1> QED
  BY <1>11, <1>12

-----------------------------------------------------------------------------
\* The invariant of the counters: a call is in a count, or its thread has still to
\* enter it, once; what a thread is about to store is one more than what is there.
Due(k) == {t \in Spin!Thread : Once(todo[t], k)}
InStore(s) == s # <<>> /\ Head(s)[1] = "store"

CountInv ==
  /\ counter \in [LockCpus \cup {"all"} -> Nat] /\ calls \in Nat
  /\ \A t \in Spin!Thread :
       /\ \A k \in {"all", "each"} : Plain(todo[t], k) \/ Once(todo[t], k)
       /\ todo[t] # <<>> => Plain(Tail(todo[t]), "store")
       /\ InStore(todo[t]) => Head(todo[t])[3] = counter[Head(todo[t])[2]] + 1
  /\ counter["all"] + Cardinality(Due("all")) = calls
  /\ Total(counter, LockCpus) + Cardinality(Due("each")) = calls

LEMMA ThreadsFinite == IsFiniteSet(Spin!Thread)
<1>1. IsFiniteSet(LockCpus) /\ IsFiniteSet(Spin!Proc)
  BY SpinLockConstants, FS_Interval DEF Spin!Proc
<1> QED
  BY <1>1, FS_Union DEF Spin!Thread

LEMMA CountType == CountInv => Total(counter, LockCpus) \in Int
<1> SUFFICES ASSUME CountInv PROVE Total(counter, LockCpus) \in Int
  OBVIOUS
<1>1. "all" \notin LockCpus /\ IsFiniteSet(LockCpus)
  BY SpinLockConstants
<1>2. \A x \in LockCpus : counter[x] \in Int /\ counter[x] = counter[x] + (IF x = "all" THEN 1 ELSE 0)
  BY <1>1 DEF CountInv
<1> QED
  BY <1>1, <1>2, TotalGrows

LEMMA InitCount == Spin!Init => CountInv
<1> SUFFICES ASSUME Spin!Init PROVE CountInv
  OBVIOUS
<1>1. counter \in [LockCpus \cup {"all"} -> Nat] /\ calls = 0
      /\ counter["all"] = 0 /\ \A c \in LockCpus : counter[c] = 0
  BY DEF Spin!Init
<1>2. ASSUME NEW t \in Spin!Thread PROVE Clean(todo[t])
  BY FunctionMarks, CleanSteps DEF Spin!Init
<1>3. ASSUME NEW t \in Spin!Thread
      PROVE  /\ \A k \in {"all", "each"} : Plain(todo[t], k) \/ Once(todo[t], k)
             /\ todo[t] # <<>> => Plain(Tail(todo[t]), "store") /\ ~Marks(Head(todo[t]), "store")
  BY <1>2, MarksOff DEF Clean
<1>4. \A t \in Spin!Thread : ~InStore(todo[t])
  BY <1>3 DEF InStore, Marks
<1>5. Due("all") = {} /\ Due("each") = {}
  BY <1>2, PlainOrOnce DEF Due, Clean
<1>6. Total(counter, LockCpus) = 0
  BY <1>1, TotalZero, SpinLockConstants
<1>7. Cardinality(Due("all")) = 0 /\ Cardinality(Due("each")) = 0
  BY <1>5, FS_EmptySet
<1>8. /\ counter["all"] + Cardinality(Due("all")) = calls
      /\ Total(counter, LockCpus) + Cardinality(Due("each")) = calls
  BY <1>1, <1>6, <1>7
<1> QED
  BY <1>1, <1>3, <1>4, <1>8 DEF CountInv

\* A thread goes on to s, where as much is due.
LEMMA CountMove ==
  ASSUME SpinTypes, CountInv, NEW t \in Spin!Thread, NEW s,
         todo' = [todo EXCEPT ![t] = s], UNCHANGED <<counter, calls>>,
         \A k \in {"all", "each"} : /\ Plain(s, k) \/ Once(s, k)
                                    /\ Once(s, k) <=> Once(todo[t], k),
         s # <<>> => Plain(Tail(s), "store"),
         InStore(s) => Head(s)[3] = counter[Head(s)[2]] + 1
  PROVE  CountInv'
<1>1. todo'[t] = s /\ \A u \in Spin!Thread : u # t => todo'[u] = todo[u]
  BY DEF SpinTypes
<1>2. ASSUME NEW u \in Spin!Thread
      PROVE  /\ \A k \in {"all", "each"} : Plain(todo'[u], k) \/ Once(todo'[u], k)
             /\ todo'[u] # <<>> => Plain(Tail(todo'[u]), "store")
             /\ InStore(todo'[u]) => Head(todo'[u])[3] = counter'[Head(todo'[u])[2]] + 1
  <2>1. CASE u = t
    BY <1>1, <2>1
  <2>2. CASE u # t
    BY <1>1, <2>2 DEF CountInv
  <2> QED
    BY <2>1, <2>2
<1>3. ASSUME NEW k \in {"all", "each"} PROVE Due(k)' = Due(k)
  <2>1. \A u \in Spin!Thread : Once(todo'[u], k) <=> Once(todo[u], k)
    BY <1>1
  <2> QED
    BY <2>1 DEF Due
<1>4. /\ counter' \in [LockCpus \cup {"all"} -> Nat] /\ calls' \in Nat
      /\ counter'["all"] + Cardinality(Due("all")') = calls'
      /\ Total(counter', LockCpus) + Cardinality(Due("each")') = calls'
  BY <1>3 DEF CountInv
<1>5. (\A u \in Spin!Thread :
         /\ \A k \in {"all", "each"} : Plain(todo[u], k) \/ Once(todo[u], k)
         /\ todo[u] # <<>> => Plain(Tail(todo[u]), "store")
         /\ InStore(todo[u]) => Head(todo[u])[3] = counter[Head(todo[u])[2]] + 1)'
  BY <1>2 DEF InStore
<1> QED
  BY <1>4, <1>5 DEF CountInv

\* Steps that enter no count come in front of some others.
LEMMA CountFront ==
  ASSUME NEW p, NEW r, Clean(p), Plain(r, "store"),
         \A k \in {"all", "each"} : Plain(r, k) \/ Once(r, k)
  PROVE  LET s == p \o r
         IN  /\ \A k \in {"all", "each"} : /\ Plain(s, k) \/ Once(s, k)
                                           /\ Once(s, k) <=> Once(r, k)
             /\ s # <<>> => Plain(Tail(s), "store")
             /\ ~InStore(s)
<1> DEFINE s == p \o r
<1>1. ASSUME NEW k \in {"all", "each"}
      PROVE  (Plain(s, k) \/ Once(s, k)) /\ (Once(s, k) <=> Once(r, k))
  <2>1. Plain(p, k)
    BY DEF Clean
  <2>2. Plain(r, k) => Plain(s, k)
    BY <2>1, MarksOn
  <2>3. Once(r, k) => Once(s, k)
    BY <2>1, MarksOn
  <2> HIDE DEF s
  <2> QED
    BY <2>2, <2>3, PlainOrOnce
<1>2. Plain(s, "store")
  BY MarksOn DEF Clean
<1> HIDE DEF s
<1>3. s # <<>> => Plain(Tail(s), "store") /\ ~Marks(Head(s), "store")
  BY <1>2, MarksOff
<1> QED
  BY <1>1, <1>3 DEF InStore, Marks, s

\* The step that is done enters no count, and no more do those that take its place.
LEMMA CountOn ==
  ASSUME SpinTypes, CountInv, NEW c \in LockCpus, todo[on[c]] # <<>>,
         Head(todo[on[c]])[1] \notin {"load", "store", "mycpu"},
         NEW p, Clean(p), Spin!Become(c, p), UNCHANGED <<counter, calls>>
  PROVE  CountInv'
<1> DEFINE t == on[c]
           r == Tail(todo[t])
           s == p \o r
<1>1. t \in Spin!Thread
  BY DEF SpinTypes
<1>2. \A k : ~Marks(Head(todo[t]), k)
  BY DEF Marks
<1>3. Plain(r, "store") /\ \A k \in {"all", "each"} : Plain(todo[t], k) \/ Once(todo[t], k)
  BY <1>1 DEF CountInv
<1>4. ASSUME NEW k \in {"all", "each"}
      PROVE  (Plain(r, k) \/ Once(r, k)) /\ (Once(r, k) <=> Once(todo[t], k))
  BY <1>2, <1>3, MarksOff, PlainOrOnce
<1>5. todo' = [todo EXCEPT ![t] = s]
  BY DEF Spin!Become
<1> HIDE DEF t, r
<1>6. /\ \A k \in {"all", "each"} : /\ Plain(s, k) \/ Once(s, k)
                                    /\ Once(s, k) <=> Once(r, k)
      /\ s # <<>> => Plain(Tail(s), "store")
      /\ ~InStore(s)
  BY <1>3, <1>4, CountFront
<1> HIDE DEF s
<1> QED
  BY <1>1, <1>4, <1>5, <1>6, CountMove

\* A thread without a step to do first calls p, which enters no count.
LEMMA CountCall ==
  ASSUME SpinTypes, CountInv, NEW t \in Spin!Thread, ~InStore(todo[t]), NEW p, Clean(p),
         todo' = [todo EXCEPT ![t] = p \o todo[t]], UNCHANGED <<counter, calls>>
  PROVE  CountInv'
<1> DEFINE r == todo[t]
           s == p \o r
<1>1. \A k \in {"all", "each"} : Plain(r, k) \/ Once(r, k)
  BY DEF CountInv
<1>2. Plain(r, "store")
  <2>1. CASE r = <<>>
    BY <2>1, PlainOrOnce
  <2>2. CASE r # <<>>
    <3>1. Plain(Tail(r), "store") /\ ~Marks(Head(r), "store")
      BY <2>2 DEF CountInv, InStore, Marks
    <3>2. PICK S : r \in Seq(S)
      BY <1>1 DEF Plain, Once
    <3> HIDE DEF r
    <3>3. Plain(r, "store")
      <4> DEFINE n == Len(r)
                 u == Tail(r)
      <4>1. n \in Nat /\ Len(u) = n - 1 /\ (\A i \in 1..n - 1 : u[i] = r[i + 1]) /\ Head(r) = r[1]
        BY <2>2, <3>2, HeadTailProperties, EmptySeq, LenProperties
      <4>2. \A i \in 1..n - 1 : ~Marks(u[i], "store")
        BY <3>1, <4>1 DEF Plain
      <4> HIDE DEF n, u
      <4>3. ASSUME NEW i \in 1..n PROVE ~Marks(r[i], "store")
        <5>1. i = 1 \/ (i - 1 \in 1..n - 1 /\ (i - 1) + 1 = i)
          BY <4>1
        <5> QED
          BY <3>1, <4>1, <4>2, <5>1
      <4> QED
        BY <3>2, <4>3 DEF Plain, n
    <3> QED
      BY <3>3
  <2> QED
    BY <2>1, <2>2
<1> HIDE DEF r
<1>3. /\ \A k \in {"all", "each"} : /\ Plain(s, k) \/ Once(s, k)
                                    /\ Once(s, k) <=> Once(r, k)
      /\ s # <<>> => Plain(Tail(s), "store")
      /\ ~InStore(s)
  BY <1>1, <1>2, CountFront
<1> HIDE DEF s
<1> QED
  BY <1>3, CountMove DEF s, r

\* A store under way has the lock that guards it.
LEMMA StoreGuarded ==
  ASSUME NEW s, NEW a, NEW b, Leads(s, a, b), InStore(s)
  PROVE  /\ a.n > 0 /\ Head(s)[2] \in LockCpus \cup {"all"}
         /\ \A k \in {"all", "each"} : Marks(Head(s), k) => k \in a.has
<1> DEFINE x == Head(s)
<1>1. PICK d : Takes(x, a, d)
  BY LeadsTail DEF InStore
<1>2. x[1] = "store" /\ Stays(x)
  BY DEF InStore, Stays
<1> HIDE DEF x
<1>3. a.n > 0 /\ Guarded(x, a.has)
  BY <1>1, <1>2, TakesIs, ZenonT(60)
<1> QED
  BY <1>2, <1>3 DEF Guarded, x

LEMMA StoreAlone ==
  ASSUME NEW A, SpinAt(A), NEW c \in LockCpus, NEW t \in Spin!Thread, t # on[c],
         InStore(todo[on[c]]), InStore(todo[t]), NEW k \in {"all", "each"},
         Marks(Head(todo[on[c]]), k), Marks(Head(todo[t]), k)
  PROVE  FALSE
<1>1. k \in A[c].has /\ k \in Spin!Locks
  <2>1. Leads(todo[on[c]], A[c], Rest(on[c]))
    BY DEF SpinAt
  <2>2. k \in A[c].has
    BY <2>1, StoreGuarded
  <2> QED
    BY <2>2, LockNames
<1>2. ASSUME NEW d \in LockCpus, on[d] = t PROVE FALSE
  <2>1. k \in A[d].has /\ d # c
    BY <1>2, StoreGuarded DEF SpinAt
  <2> QED
    BY <1>1, <2>1 DEF SpinAt, Owns
<1>3. ASSUME NEW off, NEW proc, NEW r, Leads(todo[t], Switched(off, proc), r) PROVE FALSE
  <2>1. k \in Switched(off, proc).has
    BY <1>3, StoreGuarded
  <2>2. Switched(off, proc).has = {"ptable"}
    BY DEF Switched, With, Pt
  <2> QED
    BY <2>1, <2>2
<1>4. CASE t \in Spin!Proc
  BY <1>2, <1>3, <1>4 DEF SpinAt, Waiting
<1>5. CASE t \in LockCpus
  BY <1>2, <1>3, <1>5 DEF SpinAt, Waiting
<1> QED
  BY <1>4, <1>5, Threads0

LEMMA CountLoad ==
  ASSUME SpinInv, CountInv, NEW c \in LockCpus, Spin!Load(c) \/ Spin!Mycpu(c)
  PROVE  CountInv'
<1> DEFINE t == on[c]
           x == Head(todo[t])
           r == Tail(todo[t])
<1>1. todo[t] # <<>> /\ x[1] \in {"load", "mycpu"}
  BY DEF Spin!Load, Spin!Mycpu, Spin!At
<1>2. PICK A : SpinAt(A)
  BY DEF SpinInv
<1>3. SpinTypes /\ t \in Spin!Thread
  BY <1>2 DEF SpinAt, SpinTypes
<1>4. Stays(x) => Guarded(x, A[c].has)
  <2>1. PICK b : Takes(x, A[c], b)
    BY <1>1, <1>2, NextStep
  <2> HIDE DEF x
  <2> QED
    BY <2>1, TakesIs, ZenonT(60)
<1>5. x[1] = "load" => x[2] \in LockCpus \cup {"all"}
  BY <1>4 DEF Stays, Guarded
<1>6. UNCHANGED <<counter, calls>>
  BY DEF Spin!Load, Spin!Mycpu, Spin!counts
<1>7. \E y : /\ Spin!Become(c, <<y>>) /\ \A k \in {"all", "each"} : Marks(y, k) <=> Marks(x, k)
             /\ y[1] = "store" => y[3] = counter[y[2]] + 1
  <2>1. CASE Spin!Load(c)
    <3> DEFINE y == <<"store", x[2], counter[x[2]] + 1>>
    <3>1. Spin!Become(c, <<y>>) /\ x[1] = "load"
      BY <2>1 DEF Spin!Load, Spin!Arg, Spin!At
    <3>2. \A k \in {"all", "each"} : Marks(y, k) <=> Marks(x, k)
      BY <3>1 DEF Marks
    <3>3. y[3] = counter[y[2]] + 1
      OBVIOUS
    <3> QED
      BY <3>1, <3>2, <3>3
  <2>2. CASE Spin!Mycpu(c)
    <3> DEFINE y == <<"load", c>>
    <3>1. Spin!Become(c, <<y>>) /\ x[1] = "mycpu"
      BY <2>2 DEF Spin!Mycpu, Spin!At
    <3>2. \A k \in {"all", "each"} : Marks(y, k) <=> Marks(x, k)
      BY <3>1, SpinLockConstants DEF Marks
    <3>3. y[1] # "store"
      OBVIOUS
    <3> QED
      BY <3>1, <3>2, <3>3
  <2> QED
    BY <2>1, <2>2
<1>8. PICK y : /\ Spin!Become(c, <<y>>) /\ \A k \in {"all", "each"} : Marks(y, k) <=> Marks(x, k)
               /\ y[1] = "store" => y[3] = counter[y[2]] + 1
  BY <1>7
<1> DEFINE p == <<y>>
           s == p \o r
<1>9. todo' = [todo EXCEPT ![t] = s]
  BY <1>8 DEF Spin!Become
<1>10. \A k : IF Marks(y, k) THEN Once(p, k) ELSE Plain(p, k)
  BY PlainOrOnce
<1>11. \A k \in {"all", "each"} :
       /\ Plain(todo[t], k) \/ Once(todo[t], k)
       /\ Plain(todo[t], k) => ~Marks(x, k) /\ Plain(r, k)
       /\ Once(todo[t], k) => IF Marks(x, k) THEN Plain(r, k) ELSE Once(r, k)
  BY <1>1, <1>3, MarksOff DEF CountInv
<1>12. Plain(r, "store")
  BY <1>1, <1>3 DEF CountInv
<1> DEFINE m == Len(r)
<1>13. /\ s # <<>> /\ Head(s) = y /\ Tail(s) = r
  <2>1. PICK S : r \in Seq(S)
    BY <1>12 DEF Plain
  <2>2. p \in Seq({y} \cup S) /\ r \in Seq({y} \cup S) /\ Len(p) = 1 /\ p[1] = y
    BY <2>1, SeqMonotonic
  <2> HIDE DEF r, p
  <2>3. /\ s \in Seq({y} \cup S) /\ Len(s) = 1 + Len(r) /\ Len(r) \in Nat
        /\ \A i \in 1..1 + Len(r) : s[i] = IF i <= 1 THEN p[i] ELSE r[i - 1]
    <3> DEFINE S2 == {y} \cup S
    <3>1. p \in Seq(S2) /\ r \in Seq(S2)
      BY <2>2
    <3> HIDE DEF S2
    <3>2. Len(r) \in Nat /\ Len(p) = 1
      BY <2>2, <3>1, LenProperties
    <3>3. /\ p \o r \in Seq(S2) /\ Len(p \o r) = Len(p) + Len(r)
          /\ \A i \in 1..Len(p) + Len(r) : (p \o r)[i] = IF i <= Len(p) THEN p[i] ELSE r[i - Len(p)]
      BY ONLY <3>1, ConcatProperties
    <3> QED
      BY ONLY <3>2, <3>3 DEF S2
  <2> HIDE DEF s
  <2>4. s # <<>> /\ Head(s) = s[1]
    BY <2>3, EmptySeq
  <2>5. s[1] = y
    BY <2>2, <2>3
  <2>6. /\ Tail(s) \in Seq({y} \cup S) /\ Len(Tail(s)) = Len(r)
        /\ \A i \in 1..Len(r) : Tail(s)[i] = s[i + 1]
    BY <2>3, <2>4, HeadTailProperties
  <2>7. \A i \in 1..Len(r) : s[i + 1] = r[i]
    <3> SUFFICES ASSUME NEW i \in 1..Len(r) PROVE s[i + 1] = r[i]
      OBVIOUS
    <3>1. i + 1 \in 1..1 + Len(r) /\ ~(i + 1 <= 1) /\ (i + 1) - 1 = i
      BY <2>3
    <3> QED
      BY <2>3, <3>1
  <2>8. \A i \in 1..Len(Tail(s)) : Tail(s)[i] = r[i]
    BY <2>6, <2>7
  <2>9. Tail(s) = r
    BY <2>2, <2>6, <2>8, SeqEqual
  <2> QED
    BY <2>4, <2>5, <2>9
<1> HIDE DEF t, x, r, p
<1>14. ASSUME NEW k \in {"all", "each"}
       PROVE  (Plain(s, k) \/ Once(s, k)) /\ (Once(s, k) <=> Once(todo[t], k))
  <2>0. /\ Marks(y, k) <=> Marks(x, k)
        /\ Marks(y, k) => Once(p, k)
        /\ ~Marks(y, k) => Plain(p, k)
        /\ Plain(todo[t], k) \/ Once(todo[t], k)
        /\ Plain(todo[t], k) => ~Marks(x, k) /\ Plain(r, k)
        /\ Once(todo[t], k) /\ Marks(x, k) => Plain(r, k)
        /\ Once(todo[t], k) /\ ~Marks(x, k) => Once(r, k)
    <3>1. Marks(y, k) <=> Marks(x, k)
      BY <1>8, Zenon
    <3>2. IF Marks(y, k) THEN Once(p, k) ELSE Plain(p, k)
      BY <1>10, Zenon
    <3>3. /\ Plain(todo[t], k) \/ Once(todo[t], k)
          /\ Plain(todo[t], k) => ~Marks(x, k) /\ Plain(r, k)
          /\ Once(todo[t], k) => IF Marks(x, k) THEN Plain(r, k) ELSE Once(r, k)
      BY <1>11, Zenon
    <3> QED
      BY <3>1, <3>2, <3>3, Zenon
  <2>1. CASE Marks(x, k)
    <3>1. Once(todo[t], k) /\ Plain(r, k) /\ Once(p, k)
      BY <2>0, <2>1, Zenon
    <3> QED
      BY <3>1, MarksOn
  <2>2. CASE ~Marks(x, k)
    <3>1. Plain(p, k) /\ (Plain(r, k) \/ Once(r, k)) /\ (Once(r, k) <=> Once(todo[t], k))
      BY <2>0, <2>2, PlainOrOnce, Zenon
    <3>2. (Plain(r, k) => Plain(s, k)) /\ (Once(r, k) => Once(s, k))
      BY <3>1, MarksOn
    <3> HIDE DEF s
    <3> QED
      BY <3>1, <3>2, PlainOrOnce
  <2> QED
    BY <2>1, <2>2
<1> HIDE DEF s
<1>15. InStore(s) => Head(s)[3] = counter[Head(s)[2]] + 1
  BY <1>8, <1>13 DEF InStore
<1> QED
  BY <1>3, <1>6, <1>9, <1>12, <1>13, <1>14, <1>15, CountMove

LEMMA CountStore ==
  ASSUME SpinInv, CountInv, NEW c \in LockCpus, Spin!Store(c)
  PROVE  CountInv'
<1> DEFINE t == on[c]
           x == Head(todo[t])
           K == x[2]
           r == Tail(todo[t])
           s == <<>> \o r
<1>0. PICK q \in {"all", "each"} : q = IF K = "all" THEN "all" ELSE "each"
  OBVIOUS
<1>1. todo[t] # <<>> /\ x[1] = "store" /\ InStore(todo[t])
  BY DEF Spin!Store, Spin!At, InStore
<1>2. PICK A : SpinAt(A)
  BY DEF SpinInv
<1>3. SpinTypes /\ t \in Spin!Thread
  BY <1>2 DEF SpinAt, SpinTypes
<1>4. K \in LockCpus \cup {"all"}
  <2>1. Leads(todo[t], A[c], Rest(t))
    BY <1>2 DEF SpinAt
  <2> QED
    BY <1>1, <2>1, StoreGuarded
<1>5. /\ counter' = [counter EXCEPT ![K] = x[3]] /\ calls' = calls
      /\ todo' = [todo EXCEPT ![t] = s]
  BY DEF Spin!Store, Spin!Arg, Spin!Done, Spin!Become
<1>6. x[3] = counter[K] + 1
  BY <1>1, <1>3 DEF CountInv
<1>7. counter \in [LockCpus \cup {"all"} -> Nat] /\ counter[K] \in Nat
  BY <1>4 DEF CountInv
<1>8. /\ counter' \in [LockCpus \cup {"all"} -> Nat] /\ counter'[K] = counter[K] + 1
      /\ \A k \in LockCpus \cup {"all"} : k # K => counter'[k] = counter[k]
  <2> HIDE DEF x, K
  <2> QED
    BY <1>4, <1>5, <1>6, <1>7
<1>9. q \in {"all", "each"} /\ \A k \in {"all", "each"} : Marks(x, k) <=> k = q
  BY <1>0, <1>1, <1>4, SpinLockConstants DEF Marks
<1>10. \A k \in {"all", "each"} : Plain(todo[t], k) \/ Once(todo[t], k)
  BY <1>3 DEF CountInv
<1>11. Plain(r, "store")
  BY <1>1, <1>3 DEF CountInv
<1>12. s = r
  <2>1. PICK S : r \in Seq(S)
    BY <1>11 DEF Plain
  <2> HIDE DEF r
  <2> QED
    BY <2>1, ConcatEmptySeq
<1>13. todo'[t] = r /\ \A u \in Spin!Thread : u # t => todo'[u] = todo[u]
  BY <1>3, <1>5, <1>12 DEF SpinTypes
<1>14. Once(todo[t], q) /\ Plain(r, q)
  <2> HIDE DEF x, r
  <2>1. Marks(x, q)
    BY <1>9
  <2>2. Plain(todo[t], q) \/ Once(todo[t], q)
    BY <1>9, <1>10
  <2>3. Once(todo[t], q)
    BY <1>1, <2>1, <2>2, MarksOff DEF x
  <2>4. Plain(r, q)
    BY <1>1, <2>1, <2>3, MarksOff DEF x, r
  <2> QED
    BY <2>3, <2>4
<1>15. ASSUME NEW k \in {"all", "each"}, k # q
       PROVE  (Plain(r, k) \/ Once(r, k)) /\ (Once(r, k) <=> Once(todo[t], k))
  <2> HIDE DEF x, r
  <2>1. ~Marks(x, k)
    BY <1>9, <1>15
  <2>2. /\ Plain(todo[t], k) => Plain(r, k)
        /\ Once(todo[t], k) => Once(r, k)
    BY <1>1, <2>1, MarksOff DEF x, r
  <2>3. Plain(todo[t], k) \/ Once(todo[t], k)
    BY <1>10
  <2> QED
    BY <2>2, <2>3, PlainOrOnce
<1>16. ~InStore(r) /\ (r # <<>> => Plain(Tail(r), "store"))
  <2> HIDE DEF r
  <2>1. r # <<>> => Plain(Tail(r), "store") /\ ~Marks(Head(r), "store")
    BY <1>11, MarksOff
  <2> QED
    BY <2>1 DEF InStore, Marks
<1>17. ASSUME NEW u \in Spin!Thread, u # t, InStore(todo[u])
       PROVE  Head(todo[u])[3] = counter'[Head(todo[u])[2]] + 1
  <2> DEFINE y == Head(todo[u])
  <2>1. y[1] = "store" /\ y[3] = counter[y[2]] + 1
    BY <1>17 DEF CountInv, InStore
  <2>2. ~Marks(y, q)
    <3>1. Marks(x, q) /\ q \in {"all", "each"}
      BY <1>9
    <3> QED
      BY <1>1, <1>2, <1>17, <3>1, StoreAlone
  <2>3. y[2] \in LockCpus \cup {"all"}
    <3>1. \E a, b : Leads(todo[u], a, b)
      BY <1>2, Threads0 DEF SpinAt, Waiting
    <3> QED
      BY <1>17, <3>1, StoreGuarded
  <2>4. y[2] # K
    BY <1>0, <1>4, <2>1, <2>2, <2>3, SpinLockConstants DEF Marks
  <2> HIDE DEF y, K
  <2>5. counter'[y[2]] = counter[y[2]]
    BY <1>8, <2>3, <2>4
  <2> QED
    BY <2>1, <2>5 DEF y
<1> HIDE DEF s, r, x
<1>18. ASSUME NEW u \in Spin!Thread
       PROVE  /\ \A k \in {"all", "each"} : Plain(todo'[u], k) \/ Once(todo'[u], k)
              /\ todo'[u] # <<>> => Plain(Tail(todo'[u]), "store")
              /\ InStore(todo'[u]) => Head(todo'[u])[3] = counter'[Head(todo'[u])[2]] + 1
  <2>1. CASE u = t
    <3>1. ASSUME NEW k \in {"all", "each"} PROVE Plain(r, k) \/ Once(r, k)
      BY <1>14, <1>15
    <3> QED
      BY <1>13, <1>16, <2>1, <3>1
  <2>2. CASE u # t
    BY <1>13, <1>17, <2>2 DEF CountInv
  <2> QED
    BY <2>1, <2>2
<1> HIDE DEF K
<1>19. Due(q)' = Due(q) \ {t} /\ t \in Due(q)
  <2>1. ASSUME NEW u \in Spin!Thread PROVE Once(todo'[u], q) <=> Once(todo[u], q) /\ u # t
    <3>1. CASE u = t
      BY <1>13, <1>14, <3>1, PlainOrOnce
    <3>2. CASE u # t
      BY <1>13, <3>2
    <3> QED
      BY <3>1, <3>2
  <2> QED
    BY <1>3, <1>14, <2>1 DEF Due
<1>20. ASSUME NEW k \in {"all", "each"}, k # q PROVE Due(k)' = Due(k)
  <2>1. ASSUME NEW u \in Spin!Thread PROVE Once(todo'[u], k) <=> Once(todo[u], k)
    <3>1. CASE u = t
      BY <1>13, <1>15, <1>20, <3>1
    <3>2. CASE u # t
      BY <1>13, <3>2
    <3> QED
      BY <3>1, <3>2
  <2> QED
    BY <2>1 DEF Due
<1>21. IsFiniteSet(Due(q)) /\ Cardinality(Due(q)') = Cardinality(Due(q)) - 1
       /\ Cardinality(Due(q)) \in Int
  <2>1. IsFiniteSet(Due(q))
    BY ThreadsFinite, FS_Subset DEF Due
  <2> QED
    BY <1>19, <2>1, FS_RemoveElement, FS_CardinalityType
<1>22. /\ Total(counter, LockCpus) \in Int
       /\ Total(counter', LockCpus) = Total(counter, LockCpus) + (IF K \in LockCpus THEN 1 ELSE 0)
  <2>1. \A k \in LockCpus : counter[k] \in Int /\ counter'[k] = counter[k] + (IF k = K THEN 1 ELSE 0)
    BY <1>7, <1>8
  <2>2. IsFiniteSet(LockCpus)
    BY SpinLockConstants
  <2> QED
    BY <2>1, <2>2, TotalGrows
<1>23. /\ counter'["all"] + Cardinality(Due("all")') = calls'
       /\ Total(counter', LockCpus) + Cardinality(Due("each")') = calls'
  <2>0. /\ counter["all"] + Cardinality(Due("all")) = calls /\ counter["all"] \in Nat
        /\ Total(counter, LockCpus) + Cardinality(Due("each")) = calls
    BY DEF CountInv
  <2>1. CASE K = "all"
    <3>1. q = "all" /\ K \notin LockCpus
      BY <1>0, <2>1, SpinLockConstants
    <3>2. Due("each")' = Due("each")
      BY <1>20, <3>1
    <3>3. Cardinality(Due("all")') = Cardinality(Due("all")) - 1 /\ Cardinality(Due("all")) \in Int
      BY <1>21, <3>1
    <3>4. counter'["all"] = counter["all"] + 1
      BY <1>8, <2>1
    <3> QED
      BY <1>5, <1>22, <2>0, <3>1, <3>2, <3>3, <3>4
  <2>2. CASE K # "all"
    <3>1. q = "each" /\ K \in LockCpus
      BY <1>0, <1>4, <2>2
    <3>2. Due("all")' = Due("all")
      BY <1>20, <3>1
    <3>3. Cardinality(Due("each")') = Cardinality(Due("each")) - 1 /\ Cardinality(Due("each")) \in Int
      BY <1>21, <3>1
    <3>4. counter'["all"] = counter["all"]
      BY <1>8, <2>2
    <3> QED
      BY <1>5, <1>22, <2>0, <3>1, <3>2, <3>3, <3>4
  <2> QED
    BY <2>1, <2>2
<1>24. (\A u \in Spin!Thread :
          /\ \A k \in {"all", "each"} : Plain(todo[u], k) \/ Once(todo[u], k)
          /\ todo[u] # <<>> => Plain(Tail(todo[u]), "store")
          /\ InStore(todo[u]) => Head(todo[u])[3] = counter[Head(todo[u])[2]] + 1)'
  BY <1>18 DEF InStore
<1>25. counter' \in [LockCpus \cup {"all"} -> Nat] /\ calls' \in Nat
  BY <1>5, <1>8 DEF CountInv
<1> QED
  BY <1>23, <1>24, <1>25 DEF CountInv

LEMMA CountSyscall ==
  ASSUME SpinInv, CountInv, NEW c \in LockCpus, Spin!TrapSyscall(c)
  PROVE  CountInv'
<1> DEFINE t == on[c]
<1>1. SpinTypes /\ t \in Spin!Thread
  BY DEF SpinInv, SpinAt, SpinTypes
<1>2. todo[t] = <<>> /\ calls' = calls + 1 /\ counter' = counter
  BY DEF Spin!TrapSyscall
<1>3. PICK body \in {<<>>, Spin!SysSleep} : todo' = [todo EXCEPT ![t] = Spin!Syscall(body)]
  BY DEF Spin!TrapSyscall
<1> DEFINE s == Spin!Syscall(body)
<1>4. Once(s, "all") /\ Once(s, "each") /\ Plain(s, "store")
  <2>1. Clean(body)
    BY <1>3, CleanSteps, FunctionMarks
  <2> QED
    BY <2>1, SyscallMarks
<1> HIDE DEF s
<1>5. todo'[t] = s /\ \A u \in Spin!Thread : u # t => todo'[u] = todo[u]
  BY <1>1, <1>3 DEF SpinTypes, s
<1> HIDE DEF t
<1>6. s # <<>> => Plain(Tail(s), "store") /\ ~Marks(Head(s), "store")
  BY <1>4, MarksOff
<1>7. ASSUME NEW u \in Spin!Thread
      PROVE  /\ \A k \in {"all", "each"} : Plain(todo'[u], k) \/ Once(todo'[u], k)
             /\ todo'[u] # <<>> => Plain(Tail(todo'[u]), "store")
             /\ InStore(todo'[u]) => Head(todo'[u])[3] = counter'[Head(todo'[u])[2]] + 1
  <2>1. CASE u = t
    <3>1. ~InStore(s)
      BY <1>6 DEF InStore, Marks
    <3> QED
      BY <1>4, <1>5, <1>6, <2>1, <3>1
  <2>2. CASE u # t
    BY <1>2, <1>5, <2>2 DEF CountInv
  <2> QED
    BY <2>1, <2>2
<1>8. ASSUME NEW k \in {"all", "each"}
      PROVE  Cardinality(Due(k)') = Cardinality(Due(k)) + 1 /\ Cardinality(Due(k)) \in Nat
  <2>1. ~Once(todo[t], k)
    BY <1>2, PlainOrOnce
  <2>2. ASSUME NEW u \in Spin!Thread PROVE Once(todo'[u], k) <=> Once(todo[u], k) \/ u = t
    <3>1. CASE u = t
      BY <1>4, <1>5, <3>1
    <3>2. CASE u # t
      BY <1>5, <3>2
    <3> QED
      BY <3>1, <3>2
  <2>3. Due(k)' = Due(k) \cup {t} /\ t \notin Due(k)
    BY <1>1, <2>1, <2>2 DEF Due
  <2>4. IsFiniteSet(Due(k))
    BY ThreadsFinite, FS_Subset DEF Due
  <2> QED
    BY <2>3, <2>4, FS_AddElement, FS_CardinalityType
<1>9. Total(counter, LockCpus) \in Int
  BY CountType
<1>10. /\ counter' \in [LockCpus \cup {"all"} -> Nat] /\ calls' \in Nat
       /\ counter'["all"] + Cardinality(Due("all")') = calls'
       /\ Total(counter', LockCpus) + Cardinality(Due("each")') = calls'
  BY <1>2, <1>8, <1>9 DEF CountInv
<1>11. (\A u \in Spin!Thread :
          /\ \A k \in {"all", "each"} : Plain(todo[u], k) \/ Once(todo[u], k)
          /\ todo[u] # <<>> => Plain(Tail(todo[u]), "store")
          /\ InStore(todo[u]) => Head(todo[u])[3] = counter[Head(todo[u])[2]] + 1)'
  BY <1>7 DEF InStore
<1> QED
  BY <1>10, <1>11 DEF CountInv

LEMMA CountTimer ==
  ASSUME SpinInv, CountInv, NEW c \in LockCpus, Spin!TrapTimer(c)
  PROVE  CountInv'
<1>1. PICK A : SpinAt(A)
  BY DEF SpinInv
<1>2. SpinTypes /\ on[c] \in Spin!Thread
  BY <1>1 DEF SpinAt, SpinTypes
<1>3. ~InStore(todo[on[c]])
  <2> SUFFICES ASSUME InStore(todo[on[c]]) PROVE FALSE
    OBVIOUS
  <2>1. A[c].n > 0
    BY <1>1, StoreGuarded DEF SpinAt
  <2>2. A[c].n = 0
    BY <1>1 DEF SpinAt, Fits, Spin!TrapTimer
  <2> QED
    BY <2>1, <2>2
<1>4. Clean(Spin!Timer(c, on[c]))
  BY FunctionMarks
<1>5. /\ todo' = [todo EXCEPT ![on[c]] = Spin!Timer(c, on[c]) \o todo[on[c]]]
      /\ UNCHANGED <<counter, calls>>
  BY DEF Spin!TrapTimer, Spin!counts
<1> QED
  BY <1>2, <1>3, <1>4, <1>5, CountCall

LEMMA CountSchedule ==
  ASSUME SpinInv, CountInv, NEW c \in LockCpus, Spin!Schedule(c)
  PROVE  CountInv'
<1> DEFINE s == Spin!Acquire("ptable") \o << <<"scan", 1>> >> \o Spin!Release("ptable")
<1>1. SpinTypes /\ c \in Spin!Thread
  BY Threads0 DEF SpinInv, SpinAt
<1>2. todo[c] = <<>> /\ todo' = [todo EXCEPT ![c] = s] /\ UNCHANGED <<counter, calls>>
  BY DEF Spin!Schedule, Spin!counts
<1>3. Clean(s)
  BY FunctionMarks
<1> HIDE DEF s
<1>4. \A k \in {"all", "each"} : /\ Plain(s, k) \/ Once(s, k)
                                 /\ Once(s, k) <=> Once(todo[c], k)
  BY <1>2, <1>3, PlainOrOnce DEF Clean
<1>5. s # <<>> => Plain(Tail(s), "store") /\ ~Marks(Head(s), "store")
  BY <1>3, MarksOff DEF Clean
<1>6. ~InStore(s)
  BY <1>5 DEF InStore, Marks
<1> QED
  BY <1>1, <1>2, <1>4, <1>5, <1>6, CountMove

LEMMA NextCount == SpinInv /\ CountInv /\ Spin!Next => CountInv'
<1> SUFFICES ASSUME SpinInv, CountInv, NEW c \in LockCpus,
        \/ Spin!Pushcli(c) \/ Spin!Xchg(c) \/ Spin!Own(c) \/ Spin!Disown(c) \/ Spin!Unlock(c)
        \/ Spin!Schedule(c) \/ Spin!Pick(c) \/ Spin!EndScan(c) \/ Spin!Sched(c) \/ Spin!Restore(c)
        \/ Spin!TrapSyscall(c) \/ Spin!TrapTimer(c) \/ Spin!Iret(c)
        \/ Spin!Tick(c) \/ Spin!Wakeup(c) \/ Spin!ReadTicks(c) \/ Spin!While(c)
        \/ Spin!Mycpu(c) \/ Spin!Load(c) \/ Spin!Store(c)
     PROVE CountInv'
  BY DEF Spin!Next
<1> DEFINE op == Head(todo[on[c]])[1]
<1>1. SpinTypes
  BY DEF SpinInv, SpinAt
<1>2. ASSUME NEW p, Clean(p), Spin!Become(c, p), todo[on[c]] # <<>>,
             op \notin {"load", "store", "mycpu"}, UNCHANGED <<counter, calls>>
      PROVE  CountInv'
  BY <1>1, <1>2, CountOn
<1>3. Clean(<<>>)
  BY CleanSteps
<1>4. CASE \/ Spin!Pushcli(c) \/ Spin!Xchg(c) \/ Spin!Own(c) \/ Spin!Disown(c) \/ Spin!Unlock(c)
           \/ Spin!EndScan(c) \/ Spin!Restore(c) \/ Spin!Iret(c) \/ Spin!Wakeup(c) \/ Spin!Tick(c)
  <2>1. Spin!Become(c, <<>>) /\ UNCHANGED <<counter, calls>>
    BY <1>4 DEF Spin!Pushcli, Spin!Xchg, Spin!Own, Spin!Disown, Spin!Unlock, Spin!EndScan,
         Spin!Restore, Spin!Iret, Spin!Wakeup, Spin!Tick, Spin!Done, Spin!counts
  <2>2. todo[on[c]] # <<>> /\ op \notin {"load", "store", "mycpu"}
    BY <1>4 DEF Spin!Pushcli, Spin!Xchg, Spin!Own, Spin!Disown, Spin!Unlock, Spin!EndScan,
         Spin!Restore, Spin!Iret, Spin!Wakeup, Spin!Tick, Spin!At
  <2> QED
    BY <1>2, <1>3, <2>1, <2>2
<1>5. CASE Spin!Pick(c) \/ Spin!Sched(c) \/ Spin!ReadTicks(c)
  <2>1. todo[on[c]] # <<>> /\ op \notin {"load", "store", "mycpu"} /\ UNCHANGED <<counter, calls>>
    BY <1>5 DEF Spin!Pick, Spin!Sched, Spin!ReadTicks, Spin!At, Spin!counts
  <2>2. \E y : y[1] \in {"scan", "restore", "while"} /\ Spin!Become(c, <<y>>)
    <3>1. CASE Spin!Pick(c)
      <4>1. PICK p : Spin!Become(c, << <<"scan", p + 1>> >>)
        BY <3>1 DEF Spin!Pick
      <4>2. <<"scan", p + 1>>[1] = "scan"
        OBVIOUS
      <4> QED
        BY <4>1, <4>2
    <3>2. CASE Spin!Sched(c)
      <4>1. Spin!Become(c, << <<"restore", intena[c]>> >>)
        BY <3>2 DEF Spin!Sched
      <4>2. <<"restore", intena[c]>>[1] = "restore"
        OBVIOUS
      <4> QED
        BY <4>1, <4>2
    <3>3. CASE Spin!ReadTicks(c)
      <4>1. Spin!Become(c, << <<"while", ticks>> >>)
        BY <3>3 DEF Spin!ReadTicks
      <4>2. <<"while", ticks>>[1] = "while"
        OBVIOUS
      <4> QED
        BY <4>1, <4>2
    <3> QED
      BY <1>5, <3>1, <3>2, <3>3
  <2>3. PICK y : y[1] \in {"scan", "restore", "while"} /\ Spin!Become(c, <<y>>)
    BY <2>2
  <2>4. Clean(<<y>>)
    BY <2>3, CleanSteps
  <2> QED
    BY <1>2, <2>1, <2>3, <2>4
<1>6. CASE Spin!While(c)
  <2> DEFINE y == <<"while", Spin!Arg(c)>>
  <2>1. todo[on[c]] # <<>> /\ op \notin {"load", "store", "mycpu"} /\ UNCHANGED <<counter, calls>>
    BY <1>6 DEF Spin!While, Spin!At, Spin!counts
  <2>2. y[1] \notin {"load", "store", "mycpu"}
    OBVIOUS
  <2>3. Clean(<<y>>)
    BY <2>2, CleanSteps
  <2>4. Clean(Spin!Sleep \o <<y>>)
    BY <2>3, FunctionMarks, CleanOn
  <2>5. \/ Spin!Become(c, Spin!Sleep \o <<y>>) \/ Spin!Become(c, <<>>)
    BY <1>6 DEF Spin!While
  <2> HIDE DEF y
  <2> QED
    BY <1>2, <1>3, <2>1, <2>4, <2>5
<1>7. CASE Spin!Schedule(c) BY <1>7, CountSchedule
<1>8. CASE Spin!TrapTimer(c) BY <1>8, CountTimer
<1>9. CASE Spin!TrapSyscall(c) BY <1>9, CountSyscall
<1>10. CASE Spin!Mycpu(c) \/ Spin!Load(c) BY <1>10, CountLoad
<1>11. CASE Spin!Store(c) BY <1>11, CountStore
<1> QED
  BY <1>4, <1>5, <1>6, <1>7, <1>8, <1>9, <1>10, <1>11

\* A count that a thread has still to enter is one of its steps.
LEMMA DueIsAhead ==
  ASSUME CountInv, NEW t \in Spin!Thread, NEW k \in {"all", "each"}
  PROVE  Once(todo[t], k) <=> \E i \in DOMAIN todo[t] : Marks(todo[t][i], k)
<1>1. Plain(todo[t], k) \/ Once(todo[t], k)
  BY DEF CountInv
<1>2. PICK S : todo[t] \in Seq(S)
  BY <1>1 DEF Plain, Once
<1>3. DOMAIN todo[t] = 1..Len(todo[t])
  BY <1>2, LenProperties
<1> QED
  BY <1>1, <1>3 DEF Plain, Once

LEMMA CountsAreExact == CountInv => Spin!CountersExact
<1> SUFFICES ASSUME CountInv PROVE Spin!CountersExact
  OBVIOUS
<1> DEFINE loads(K) == {t \in Spin!Thread :
             \E i \in Spin!Ahead(t, "load") \cup Spin!Ahead(t, "store") : todo[t][i][2] \in K}
           mine == {t \in Spin!Thread : Spin!Ahead(t, "mycpu") # {}}
<1>1. loads({"all"}) = Due("all")
  <2>1. ASSUME NEW t \in Spin!Thread
        PROVE  (\E i \in Spin!Ahead(t, "load") \cup Spin!Ahead(t, "store") : todo[t][i][2] \in {"all"})
                 <=> Once(todo[t], "all")
    <3>1. Once(todo[t], "all") <=> \E i \in DOMAIN todo[t] : Marks(todo[t][i], "all")
      BY DueIsAhead
    <3>2. \A i \in DOMAIN todo[t] :
            Marks(todo[t][i], "all") <=> todo[t][i][1] \in {"load", "store"} /\ todo[t][i][2] = "all"
      BY DEF Marks
    <3> QED
      BY <3>1, <3>2 DEF Spin!Ahead
  <2> QED
    BY <2>1 DEF Due
<1>2. loads(LockCpus) \cup mine = Due("each")
  <2>1. ASSUME NEW t \in Spin!Thread
        PROVE  (\/ \E i \in Spin!Ahead(t, "load") \cup Spin!Ahead(t, "store") : todo[t][i][2] \in LockCpus
                \/ Spin!Ahead(t, "mycpu") # {})
                 <=> Once(todo[t], "each")
    <3>1. Once(todo[t], "each") <=> \E i \in DOMAIN todo[t] : Marks(todo[t][i], "each")
      BY DueIsAhead
    <3>2. \A i \in DOMAIN todo[t] : Marks(todo[t][i], "each") <=>
            \/ todo[t][i][1] = "mycpu"
            \/ todo[t][i][1] \in {"load", "store"} /\ todo[t][i][2] \in LockCpus
      BY DEF Marks
    <3> QED
      BY <3>1, <3>2 DEF Spin!Ahead
  <2> QED
    BY <2>1 DEF Due
<1>3. Spin!FoldSet(LAMBDA c, n : n + counter[c], 0, LockCpus) = Total(counter, LockCpus)
  BY FoldIsTotal
<1>4. \A S : Spin!Cardinality(S) = Cardinality(S)
  BY Zenon DEF Spin!Cardinality, Cardinality
<1> HIDE DEF loads, mine
<1>5. /\ counter["all"] + Spin!Cardinality(loads({"all"})) = calls
      /\ Spin!FoldSet(LAMBDA c, n : n + counter[c], 0, LockCpus)
           + Spin!Cardinality(loads(LockCpus) \cup mine) = calls
  BY <1>1, <1>2, <1>3, <1>4 DEF CountInv
<1> QED
  BY <1>5, Zenon DEF Spin!CountersExact, loads, mine

\* The spin locks of spinlock.c exclude, for any processors and processes: none of
\* their panics is reached, every system call that is past its increments is in both
\* counts of trap.c, and a processor spins only while another one runs.
THEOREM SpinLocksExclude == SpecBoth => []LocksExclude
<1> DEFINE P == view = "spin" => SpinInv
           Q == view = "spin" => CountInv
<1>1. InitBoth => Q
  BY InitCount DEF InitBoth
<1>2. P /\ Q /\ [NextBoth]_bothVars => Q'
  <2> SUFFICES ASSUME P, Q, [NextBoth]_bothVars, view' = "spin"
               PROVE  CountInv'
    OBVIOUS
  <2>1. view = "spin" /\ SpinInv /\ CountInv
    BY DEF NextBoth, bothVars
  <2>2. CASE Spin!Next
    BY <2>1, <2>2, NextCount
  <2>3. CASE UNCHANGED spin
    <3>1. UNCHANGED <<counter, calls, todo>>
      BY <2>3 DEF spin
    <3> QED
      BY <2>1, <3>1 DEF CountInv, Due
  <2> QED
    BY <2>1, <2>2, <2>3 DEF NextBoth, bothVars
<1>3. P /\ Q => LocksExclude
  <2>1. SpinInv => Spin!NoLockPanic /\ Spin!SpinsEnd
    BY SomeoneRuns DEF SpinInv, SpinAt, Spin!NoLockPanic
  <2> QED
    BY <2>1, CountsAreExact DEF LocksExclude, Spin!LocksExclude
<1>4. SpecBoth => []P
  BY SpinHolds
<1> HIDE DEF P, Q
<1> QED
  BY <1>1, <1>2, <1>3, <1>4, PTL DEF SpecBoth
=============================================================================
