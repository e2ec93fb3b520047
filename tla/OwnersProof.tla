----------------------------- MODULE OwnersProof -----------------------------
(***************************************************************************)
(* Proofs about three tables of owners.  PriorityLock: the lock belongs to *)
(* the process inside, until a waiter is killed.  Memory: a page is free   *)
(* or has one owner, and none is forgotten, for any number of processes,   *)
(* pages and segments.  Umalloc: the same for the units of a program's     *)
(* heap, and its list of free blocks is in order, for requests of any size.*)
(***************************************************************************)
EXTENDS PriorityLock, Memory, Umalloc, FiniteSetTheorems, SequenceTheorems, WellFoundedInduction, TLAPS

-----------------------------------------------------------------------------
\* The queue is never more than the empty list, so nobody is popped and only
\* kill() makes a waiter runnable.
PriorityLockInv ==
  /\ lpc \in [Pids -> {"out", "asleep", "woken", "in"}]
  /\ queue = <<>> /\ kills \in Nat
  /\ kills = 0 => \A p \in Pids : lpc[p] # "woken" /\ (lpc[p] = "in" => locked /\ lkpid = p)

\* For any set of processes, without a bound on the waiters: as long as none of
\* them is killed, whoever is between acquire_prioritylock and release_prioritylock
\* has lk->locked and lk->pid for itself.
THEOREM PriorityLockExclusive == LockSpec => []LockedWhileHeld
<1>1. LockInit => PriorityLockInv
  BY DEF LockInit, PriorityLockInv
<1>2. PriorityLockInv /\ [LockNext]_lockVars => PriorityLockInv'
  <2> SUFFICES ASSUME PriorityLockInv, [LockNext]_lockVars PROVE PriorityLockInv'
    OBVIOUS
  <2> USE DEF PriorityLockInv
  <2>1. CASE UNCHANGED lockVars
    BY <2>1 DEF lockVars
  <2>2. ASSUME NEW p \in Pids, Acquire(p) PROVE PriorityLockInv'
    BY <2>2 DEF Acquire
  <2>3. ASSUME NEW p \in Pids, AcquireSleep(p) \/ AcquirePanic(p) PROVE PriorityLockInv'
    BY <2>3 DEF AcquireSleep, AcquirePanic
  <2>4. ASSUME NEW p \in Pids, AcquireResume(p) PROVE PriorityLockInv'
    BY <2>4 DEF AcquireResume
  <2>5. ASSUME NEW p \in Pids, Release(p) PROVE PriorityLockInv'
    BY <2>5 DEF Release
  <2>6. ASSUME NEW p \in Pids, KillWaiter(p) PROVE PriorityLockInv'
    BY <2>6 DEF KillWaiter
  <2> QED
    BY <2>1, <2>2, <2>3, <2>4, <2>5, <2>6 DEF LockNext
<1>3. PriorityLockInv => LockedWhileHeld
  BY DEF PriorityLockInv, LockedWhileHeld
<1> QED
  BY <1>1, <1>2, <1>3, PTL DEF LockSpec
-----------------------------------------------------------------------------
\* The pages of the first user process fit the memory.
-----------------------------------------------------------------------------
\* Sequences of pages.
Distinct(s) == \A i, j \in 1..Len(s) : s[i] = s[j] => i = j

LEMMA ToSetIs ==
  ASSUME NEW S, NEW s \in Seq(S)
  PROVE  ToSet(s) = {s[i] : i \in 1..Len(s)} /\ ToSet(s) \subseteq S
BY DEF ToSet

LEMMA EmptyPages == ToSet(<<>>) = {} /\ Distinct(<<>>)
BY DEF ToSet, Distinct

LEMMA ConcatPages ==
  ASSUME NEW S, NEW s \in Seq(S), NEW t \in Seq(S)
  PROVE  /\ s \o t \in Seq(S)
         /\ ToSet(s \o t) = ToSet(s) \cup ToSet(t)
         /\ Distinct(s) /\ Distinct(t) /\ ToSet(s) \cap ToSet(t) = {} => Distinct(s \o t)
<1> DEFINE u == s \o t
<1>1. /\ u \in Seq(S) /\ Len(u) = Len(s) + Len(t)
      /\ Len(s) \in Nat /\ Len(t) \in Nat
      /\ \A i \in 1..Len(s) : u[i] = s[i]
      /\ \A i \in 1..Len(t) : u[Len(s) + i] = t[i]
  OBVIOUS
<1>2. \A i \in 1..Len(u) : i \in 1..Len(s) \/ (i - Len(s) \in 1..Len(t) /\ u[i] = t[i - Len(s)])
  BY <1>1
<1> HIDE DEF u
<1>3. ToSet(u) = ToSet(s) \cup ToSet(t)
  <2>1. \A x \in ToSet(u) : x \in ToSet(s) \cup ToSet(t)
    <3> SUFFICES ASSUME NEW i \in 1..Len(u) PROVE u[i] \in ToSet(s) \cup ToSet(t)
      BY <1>1, ToSetIs
    <3>1. \A k \in 1..Len(s) : s[k] \in ToSet(s)
      BY ToSetIs
    <3>2. \A k \in 1..Len(t) : t[k] \in ToSet(t)
      BY ToSetIs
    <3>3. CASE i \in 1..Len(s)
      BY <1>1, <3>1, <3>3
    <3>4. CASE i \notin 1..Len(s)
      BY <1>2, <3>2, <3>4
    <3> QED
      BY <3>3, <3>4
  <2>2. \A x \in ToSet(s) : x \in ToSet(u)
    <3> SUFFICES ASSUME NEW i \in 1..Len(s) PROVE s[i] \in ToSet(u)
      BY ToSetIs
    <3> QED
      BY <1>1, ToSetIs
  <2>3. \A x \in ToSet(t) : x \in ToSet(u)
    <3> SUFFICES ASSUME NEW i \in 1..Len(t) PROVE t[i] \in ToSet(u)
      BY ToSetIs
    <3>1. Len(s) + i \in 1..Len(u) /\ u[Len(s) + i] = t[i]
      BY <1>1
    <3> QED
      BY <1>1, <3>1, ToSetIs
  <2> QED
    BY <2>1, <2>2, <2>3
<1>4. ASSUME Distinct(s), Distinct(t), ToSet(s) \cap ToSet(t) = {},
             NEW i \in 1..Len(u), NEW j \in 1..Len(u), u[i] = u[j]
      PROVE  i = j
  <2>1. ToSet(s) = {s[k] : k \in 1..Len(s)} /\ ToSet(t) = {t[k] : k \in 1..Len(t)}
    BY ToSetIs
  <2>2. \A k \in 1..Len(s), m \in 1..Len(t) : s[k] # t[m]
    BY <1>4, <2>1
  <2>3. \A k, m \in 1..Len(s) : s[k] = s[m] => k = m
    BY <1>4 DEF Distinct
  <2>4. \A k, m \in 1..Len(t) : t[k] = t[m] => k = m
    BY <1>4 DEF Distinct
  <2>5. CASE i \in 1..Len(s) /\ j \in 1..Len(s)
    BY <1>1, <1>4, <2>3, <2>5
  <2>6. CASE i \in 1..Len(s) /\ j \notin 1..Len(s)
    BY <1>1, <1>2, <1>4, <2>2, <2>6
  <2>7. CASE i \notin 1..Len(s) /\ j \in 1..Len(s)
    BY <1>1, <1>2, <1>4, <2>2, <2>7
  <2>8. CASE i \notin 1..Len(s) /\ j \notin 1..Len(s)
    <3>1. i - Len(s) \in 1..Len(t) /\ j - Len(s) \in 1..Len(t) /\ t[i - Len(s)] = t[j - Len(s)]
      BY <1>2, <1>4, <2>8
    <3>2. i - Len(s) = j - Len(s)
      BY <2>4, <3>1
    <3> QED
      BY <1>1, <3>2
  <2> QED
    BY <2>5, <2>6, <2>7, <2>8
<1>5. Distinct(s) /\ Distinct(t) /\ ToSet(s) \cap ToSet(t) = {} => Distinct(u)
  BY <1>4 DEF Distinct
<1> QED
  BY <1>1, <1>3, <1>5 DEF u

LEMMA AppendPage ==
  ASSUME NEW S, NEW s \in Seq(S), NEW x \in S
  PROVE  /\ Append(s, x) \in Seq(S)
         /\ ToSet(Append(s, x)) = ToSet(s) \cup {x}
         /\ Distinct(s) /\ x \notin ToSet(s) => Distinct(Append(s, x))
<1>1. <<x>> \in Seq(S) /\ ToSet(<<x>>) = {x} /\ Distinct(<<x>>)
  BY DEF ToSet, Distinct
<1>2. Append(s, x) = s \o <<x>>
  BY AppendIsConcat
<1> DEFINE t == <<x>>
<1>3. t \in Seq(S) /\ ToSet(t) = {x} /\ Distinct(t)
  BY <1>1
<1> HIDE DEF t
<1>4. /\ s \o t \in Seq(S) /\ ToSet(s \o t) = ToSet(s) \cup {x}
      /\ Distinct(s) /\ ToSet(s) \cap {x} = {} => Distinct(s \o t)
  BY <1>3, ConcatPages
<1> QED
  BY <1>2, <1>4 DEF t

LEMMA DropPage ==
  ASSUME NEW S, NEW s \in Seq(S), Len(s) > 0
  PROVE  LET n == Len(s) t == SubSeq(s, 1, n - 1)
         IN  /\ t \in Seq(S) /\ s[n] \in S
             /\ ToSet(s) = ToSet(t) \cup {s[n]}
             /\ Distinct(s) => Distinct(t) /\ s[n] \notin ToSet(t)
<1> DEFINE n == Len(s)
           t == SubSeq(s, 1, n - 1)
<1>0. n \in Nat \ {0} /\ \A i \in 1..n : s[i] \in S
  OBVIOUS
<1>1. n \in Nat \ {0} /\ t \in Seq(S) /\ Len(t) = n - 1 /\ \A i \in 1..n-1 : t[i] = s[i]
  <2>1. \A i \in 1..n-1 : s[i] \in S
    BY <1>0
  <2> QED
    <3>1. /\ SubSeq(s, 1, n - 1) \in Seq(S)
          /\ Len(SubSeq(s, 1, n - 1)) = IF 1 <= n - 1 THEN (n - 1) - 1 + 1 ELSE 0
          /\ \A i \in 1..(n - 1) - 1 + 1 : SubSeq(s, 1, n - 1)[i] = s[1 + i - 1]
      <4>1. 1 \in Int /\ n - 1 \in Int
        BY <1>0
      <4> HIDE DEF n
      <4> QED
        BY <2>1, <4>1, SubSeqProperties
    <3>2. \A i \in 1..n-1 : 1 + i - 1 = i /\ i \in 1..(n - 1) - 1 + 1
      BY <1>0
    <3> HIDE DEF n
    <3>3. \A i \in 1..n-1 : SubSeq(s, 1, n - 1)[i] = s[i]
      BY <3>1, <3>2
    <3>4. Len(SubSeq(s, 1, n - 1)) = n - 1
      BY <1>0, <3>1
    <3> QED
      BY <1>0, <3>1, <3>3, <3>4
<1>2. s[n] \in S
  BY <1>0
<1> HIDE DEF t
<1>3. ToSet(s) = ToSet(t) \cup {s[n]}
  <2>1. \A i \in 1..n : i \in 1..n-1 \/ i = n
    BY <1>1
  <2> QED
    <3>1. ToSet(s) = {s[i] : i \in 1..n} /\ ToSet(t) = {t[i] : i \in 1..n-1}
      BY <1>1, ToSetIs
    <3>2. \A i \in 1..n-1 : t[i] = s[i] /\ i \in 1..n
      BY <1>1
    <3>3. n \in 1..n
      BY <1>1
    <3> HIDE DEF n
    <3> QED
      BY ONLY <2>1, <3>1, <3>2, <3>3
<1>4. Distinct(s) => Distinct(t) /\ s[n] \notin ToSet(t)
  BY <1>1, ToSetIs DEF Distinct
<1> QED
  BY <1>1, <1>2, <1>3, <1>4 DEF t

LEMMA MinIn ==
  ASSUME NEW S \in SUBSET Nat, S # {}
  PROVE  Min(S) \in S
<1>1. PICK x \in S : \A y \in S : ~(<<y, x>> \in OpToRel(<, Nat))
  BY NatLessThanWellFounded, WFMin
<1>2. ASSUME NEW y \in S, ~(x <= y) PROVE FALSE
  <2>1. y < x /\ <<y, x>> \in Nat \X Nat
    BY <1>2
  <2>2. <<y, x>> \in OpToRel(<, Nat)
    BY <2>1 DEF OpToRel
  <2> QED
    BY <1>1, <2>2
<1>3. \E z \in S : \A y \in S : z <= y
  BY <1>2
<1> QED
  BY <1>3 DEF Min

\* kalloc() hands out pages of the free list, each once.
LEMMA KallocGives ==
  ASSUME NFRAMES \in Nat, free \in SUBSET Frames, NEW n \in 1..2, Cardinality(free) >= n
  PROVE  /\ Kalloc(n) \in Seq(Frames) /\ Len(Kalloc(n)) = n
         /\ Distinct(Kalloc(n)) /\ ToSet(Kalloc(n)) \subseteq free
         /\ Kalloc(1) = <<Kalloc(n)[1]>>
         /\ Kalloc(n)[1] \in free
         /\ n = 1 => ToSet(Kalloc(n)) = {Kalloc(n)[1]} /\ ToSet(Tail(Kalloc(n))) = {}
         /\ n = 2 => /\ Kalloc(n)[2] \in free \ {Kalloc(n)[1]}
                     /\ ToSet(Kalloc(n)) = {Kalloc(n)[1], Kalloc(n)[2]}
                     /\ ToSet(Tail(Kalloc(n))) = {Kalloc(n)[2]}
<1> DEFINE a == Min(free)
           b == Min(free \ {a})
<1>1. free \in SUBSET Nat /\ IsFiniteSet(free)
  <2>1. IsFiniteSet(Frames)
    BY FS_Interval DEF Frames
  <2>2. IsFiniteSet(free)
    BY <2>1, FS_Subset
  <2>3. free \in SUBSET Nat
    BY DEF Frames
  <2> QED
    BY <2>2, <2>3
<1>2. free # {}
  BY <1>1, FS_EmptySet
<1>3. a \in free
  BY <1>1, <1>2, MinIn
<1>4. n = 2 => free \ {a} # {}
  <2>1. Cardinality(free \ {a}) = Cardinality(free) - 1
    BY <1>1, <1>3, FS_RemoveElement
  <2>2. Cardinality(free) \in Nat
    BY <1>1, FS_CardinalityType
  <2> QED
    BY <2>1, <2>2, FS_EmptySet
<1>5. n = 2 => b \in free \ {a}
  BY <1>1, <1>4, MinIn
<1> HIDE DEF a, b
<1>6. CASE n = 1
  <2>1. Kalloc(n) = [i \in 1..1 |-> a] /\ Kalloc(1) = [i \in 1..1 |-> a]
    BY <1>6 DEF Kalloc, a
  <2>2. [i \in 1..1 |-> a] = <<a>>
    OBVIOUS
  <2>3. ToSet(<<a>>) = {a} /\ Distinct(<<a>>) /\ Tail(<<a>>) = <<>> /\ <<a>> \in Seq(Frames)
    BY <1>3 DEF ToSet, Distinct
  <2>4. Kalloc(n) = <<a>> /\ Kalloc(1) = <<a>> /\ Len(<<a>>) = 1 /\ <<a>>[1] = a
    BY <2>1, <2>2
  <2>5. Kalloc(n)[1] = a /\ Len(Kalloc(n)) = 1 /\ Kalloc(1) = <<Kalloc(n)[1]>>
    BY <2>4
  <2>6. Kalloc(n) \in Seq(Frames) /\ ToSet(Kalloc(n)) = {a} /\ Distinct(Kalloc(n)) /\ Tail(Kalloc(n)) = <<>>
    BY <2>3, <2>4
  <2>7. ToSet(Tail(Kalloc(n))) = {}
    BY <2>6, EmptyPages
  <2> HIDE DEF a
  <2> QED
    BY <1>3, <1>6, <2>5, <2>6, <2>7
<1>7. CASE n = 2
  <2>1. /\ Kalloc(n) = [i \in 1..2 |-> IF i = 1 THEN a ELSE b]
        /\ Kalloc(1) = [i \in 1..1 |-> IF i = 1 THEN a ELSE b]
    BY <1>7 DEF Kalloc, a, b
  <2>2. [i \in 1..2 |-> IF i = 1 THEN a ELSE b] = <<a, b>> /\ [i \in 1..1 |-> IF i = 1 THEN a ELSE b] = <<a>>
    OBVIOUS
  <2>3. /\ ToSet(<<a, b>>) = {a, b} /\ Tail(<<a, b>>) = <<b>> /\ <<a, b>> \in Seq(Frames)
        /\ ToSet(<<b>>) = {b}
    BY <1>3, <1>5, <1>7 DEF ToSet
  <2>4. Distinct(<<a, b>>)
    BY <1>5, <1>7 DEF Distinct
  <2> QED
    BY <1>3, <1>5, <1>7, <2>1, <2>2, <2>3, <2>4
<1> QED
  BY <1>6, <1>7
-----------------------------------------------------------------------------
Images == [tables : SUBSET Frames, pages : Seq(Frames), want : Nat]

\* Calls that have no page in hand.
PlainPoints == {"user", "zombie", "shminit", "shmwait", "shmclear", "shmready", "shm", "shmopen", "shmclose"}
MemoryPoints == PlainPoints \cup {"unused", "embryo", "fork", "exec", "shmmap"}

MemoryTypeOK ==
  /\ free \in SUBSET Frames
  /\ kstack \in [MemProcs -> 0..NFRAMES]
  /\ tables \in [MemProcs -> SUBSET Frames]
  /\ pages \in [MemProcs -> Seq(Frames)]
  /\ img \in [MemProcs -> Images] /\ kid \in [MemProcs -> MemProcs]
  /\ mpc \in [MemProcs -> MemoryPoints]

\* What a slot has at each point; a fork has its child for itself.
SlotInv ==
  /\ \A p \in MemProcs :
       /\ mpc[p] = "unused" <=> kstack[p] = 0
       /\ mpc[p] \in {"unused", "embryo"} => tables[p] = {} /\ pages[p] = <<>>
       /\ mpc[p] \notin {"fork", "exec", "shmmap"} => img[p].tables = {} /\ img[p].pages = <<>>
       /\ mpc[p] = "fork" => mpc[kid[p]] = "embryo"
  /\ \A p, q \in MemProcs : mpc[p] = "fork" /\ mpc[q] = "fork" /\ kid[p] = kid[q] => p = q

\* The pages of a process, and that none of them serves twice.
Stack(p) == {kstack[p]} \ {0}
Space(p) == tables[p] \cup ToSet(pages[p])
Mine(p) == Stack(p) \cup Space(p) \cup ImageFrames(img[p])

Intact(p) ==
  /\ Stack(p) \cap (Space(p) \cup ImageFrames(img[p])) = {}
  /\ Space(p) \cap ImageFrames(img[p]) = {}
  /\ tables[p] \cap ToSet(pages[p]) = {} /\ Distinct(pages[p])
  /\ img[p].tables \cap ToSet(img[p].pages) = {} /\ Distinct(img[p].pages)

LedgerInv ==
  /\ \A p \in MemProcs : Intact(p) /\ Mine(p) \cap free = {}
  /\ \A p, q \in MemProcs : p # q => Mine(p) \cap Mine(q) = {}

LostPages == {f \in Frames : f \notin free /\ \A p \in MemProcs : f \notin Mine(p)}

\* The slot of shm_table that a running call has claimed names its page.
Segments == [id : 0..NSEG-1, frame : 0..NFRAMES, refcnt : Int]
SegsType ==
  /\ segs \in [0..NSEG-1 -> Segments]
  /\ slot \in [MemProcs -> Nat]

Claim(p) ==
  mpc[p] = "shmmap" => /\ slot[p] \in 0..NSEG-1 /\ img[p].tables = {}
                       /\ img[p].pages = <<segs[slot[p]].frame>>

\* Up to the first close of a segment, and to the call that has lost its lock.
Sound == ~mpanicked /\ ~closed /\ ~Doomed

MemoryInv ==
  Sound => MemoryTypeOK /\ SlotInv /\ LedgerInv /\ Cardinality(LostPages) = lost

ClaimInv == Sound => SegsType /\ \A p \in MemProcs : Claim(p)

\* The slot x keeps its pages in this step.
Same(x) == kstack'[x] = kstack[x] /\ tables'[x] = tables[x] /\ pages'[x] = pages[x] /\ img'[x] = img[x]

LEMMA SameAccount ==
  ASSUME NEW x, Same(x)
  PROVE  /\ Stack(x)' = Stack(x) /\ Space(x)' = Space(x) /\ Mine(x)' = Mine(x)
         /\ Intact(x)' <=> Intact(x)
BY DEF Same, Stack, Space, Mine, Intact

\* A step moves pages between the free list and at most two slots, and forgets D.
LEMMA PagesMove ==
  ASSUME LedgerInv, NEW p \in MemProcs, NEW q \in MemProcs, NEW D \in SUBSET Frames,
         \A x \in MemProcs \ {p, q} : Same(x),
         Intact(p)', Intact(q)', p # q => Mine(p)' \cap Mine(q)' = {},
         free' \cap (Mine(p)' \cup Mine(q)') = {},
         D \cap (free' \cup Mine(p)' \cup Mine(q)') = {},
         free' \cup Mine(p)' \cup Mine(q)' \cup D = free \cup Mine(p) \cup Mine(q)
  PROVE  /\ LedgerInv'
         /\ LostPages' = LostPages \cup D /\ LostPages \cap D = {}
<1> DEFINE M(x) == Mine(x)
           N(x) == Mine(x)'
<1>1. \A x \in MemProcs \ {p, q} : N(x) = M(x) /\ (Intact(x)' <=> Intact(x))
  BY SameAccount
<1>2. /\ \A x \in MemProcs : Intact(x) /\ M(x) \cap free = {}
      /\ \A x, y \in MemProcs : x # y => M(x) \cap M(y) = {}
  BY DEF LedgerInv
<1>3. \A x \in MemProcs : Intact(x)'
  BY <1>1, <1>2
<1>4. \A x \in MemProcs \ {p, q} : \A f \in N(x) : f \notin free /\ f \notin M(p) /\ f \notin M(q)
  BY <1>1, <1>2
<1>5. \A x \in MemProcs \ {p, q} : \A f \in N(x) : f \notin free' /\ f \notin N(p) /\ f \notin N(q) /\ f \notin D
  BY <1>4
<1>6. \A x \in MemProcs : N(x) \cap free' = {}
  BY <1>5
<1>7. ASSUME NEW x \in MemProcs, NEW y \in MemProcs, x # y PROVE N(x) \cap N(y) = {}
  <2>1. CASE x \in {p, q} /\ y \in {p, q}
    BY <1>7, <2>1
  <2>2. CASE x \notin {p, q} /\ y \in {p, q}
    BY <1>5, <2>2
  <2>3. CASE x \in {p, q} /\ y \notin {p, q}
    BY <1>5, <2>3
  <2>4. CASE x \notin {p, q} /\ y \notin {p, q}
    BY <1>1, <1>2, <1>7, <2>4
  <2> QED
    BY <2>1, <2>2, <2>3, <2>4
<1>8. LedgerInv'
  BY <1>3, <1>6, <1>7 DEF LedgerInv
<1>9. ASSUME NEW f \in Frames
      PROVE  /\ f \notin free' /\ (\A x \in MemProcs : f \notin N(x))
                <=> (f \notin free /\ \A x \in MemProcs : f \notin M(x)) \/ f \in D
             /\ f \in D => f \in free \/ f \in M(p) \/ f \in M(q)
  <2>1. f \in free' \/ f \in N(p) \/ f \in N(q) \/ f \in D <=> f \in free \/ f \in M(p) \/ f \in M(q)
    OBVIOUS
  <2>2. \A x \in MemProcs \ {p, q} : f \in N(x) <=> f \in M(x)
    BY <1>1
  <2>3. f \in D => f \notin free' /\ f \notin N(p) /\ f \notin N(q) /\ \A x \in MemProcs \ {p, q} : f \notin N(x)
    BY <1>5
  <2> HIDE DEF M, N
  <2> QED
    BY <2>1, <2>2, <2>3
<1>10. LostPages' = LostPages \cup D /\ LostPages \cap D = {}
  BY <1>9 DEF LostPages, Frames
<1> QED
  BY <1>8, <1>10

\* ... and when one slot exchanges pages with the list.
LEMMA OneMoves ==
  ASSUME LedgerInv, NEW p \in MemProcs, \A x \in MemProcs \ {p} : Same(x), Intact(p)',
         free' \cap Mine(p)' = {}, free' \cup Mine(p)' = free \cup Mine(p)
  PROVE  LedgerInv' /\ LostPages' = LostPages
<1>1. {} \in SUBSET Frames /\ \A x \in MemProcs \ {p, p} : Same(x)
  OBVIOUS
<1>2. /\ p # p => Mine(p)' \cap Mine(p)' = {}
      /\ free' \cap (Mine(p)' \cup Mine(p)') = {}
      /\ {} \cap (free' \cup Mine(p)' \cup Mine(p)') = {}
      /\ free' \cup Mine(p)' \cup Mine(p)' \cup {} = free \cup Mine(p) \cup Mine(p)
  OBVIOUS
<1>3. LedgerInv' /\ LostPages' = LostPages \cup {}
  BY <1>1, <1>2, PagesMove
<1> QED
  BY <1>3

LEMMA LostFinite ==
  ASSUME MemoryCondition
  PROVE  IsFiniteSet(LostPages)
<1>1. IsFiniteSet(Frames)
  BY FS_Interval DEF Frames, MemoryCondition
<1> QED
  BY <1>1, FS_Subset DEF LostPages

\* What the actions start from, and what a step without a loss must show.
Running == /\ MemoryCondition /\ Sound /\ ClaimInv
           /\ MemoryTypeOK /\ SlotInv /\ LedgerInv /\ Cardinality(LostPages) = lost

NothingLost == /\ MemoryTypeOK' /\ SlotInv' /\ LedgerInv'
               /\ LostPages' = LostPages /\ lost' = lost

LEMMA NothingLostInv ==
  ASSUME Running, NothingLost
  PROVE  MemoryInv'
BY DEF Running, NothingLost, MemoryInv

\* Slots alone.
LEMMA QuietStep ==
  ASSUME Running, UNCHANGED <<free, image, img, lost>>, MemoryTypeOK', SlotInv'
  PROVE  MemoryInv'
<1>1. \A x \in MemProcs : Mine(x)' = Mine(x) /\ (Intact(x)' <=> Intact(x))
  BY SameAccount DEF image, Same
<1>2. LedgerInv'
  BY <1>1 DEF LedgerInv, Running
<1>3. LostPages' = LostPages
  BY <1>1 DEF LostPages, Frames
<1> QED
  BY <1>2, <1>3, NothingLostInv DEF NothingLost

-----------------------------------------------------------------------------
\* sbrk appends fresh pages to the image of the process.
LEMMA MorePages ==
  ASSUME Running, NEW p \in MemProcs, mpc[p] = "user",
         NEW n \in 1..2, Cardinality(free) >= n,
         pages' = [pages EXCEPT ![p] = @ \o Kalloc(n)], free' = free \ ToSet(Kalloc(n)),
         UNCHANGED <<mpc, kstack, tables, building, lost>>
  PROVE  MemoryInv'
<1> DEFINE new == Kalloc(n)
<1> USE DEF Running
<1>1. /\ new \in Seq(Frames) /\ Distinct(new) /\ ToSet(new) \subseteq free /\ free \subseteq Frames
  BY KallocGives DEF MemoryCondition, MemoryTypeOK
<1> HIDE DEF new
<1>2. /\ pages[p] \in Seq(Frames) /\ pages' = [pages EXCEPT ![p] = pages[p] \o new]
      /\ pages'[p] = pages[p] \o new /\ free' = free \ ToSet(new)
      /\ UNCHANGED <<kstack, tables, img, kid, lost>>
  BY DEF MemoryTypeOK, new, building
<1>3. Mine(p) \cap free = {} /\ Intact(p)
  BY DEF LedgerInv
<1>4. /\ pages'[p] \in Seq(Frames) /\ ToSet(pages'[p]) = ToSet(pages[p]) \cup ToSet(new)
      /\ Distinct(pages'[p])
  <2>1. ToSet(pages[p]) \cap ToSet(new) = {} /\ Distinct(pages[p])
    BY <1>1, <1>3 DEF Mine, Space, Intact
  <2>2. /\ pages[p] \o new \in Seq(Frames) /\ ToSet(pages[p] \o new) = ToSet(pages[p]) \cup ToSet(new)
        /\ Distinct(pages[p] \o new)
    BY <1>1, <1>2, <2>1, ConcatPages
  <2> QED
    BY <1>2, <2>2
<1>5. Mine(p)' = Mine(p) \cup ToSet(new) /\ Intact(p)'
  <2>1. Space(p)' = Space(p) \cup ToSet(new) /\ Stack(p)' = Stack(p)
    BY <1>2, <1>4 DEF Space, Stack
  <2>2. ToSet(new) \cap Mine(p) = {}
    BY <1>1, <1>3
  <2> QED
    BY <1>2, <1>3, <1>4, <2>1, <2>2 DEF Mine, Intact, Space
<1>6. \A x \in MemProcs \ {p} : Same(x)
  BY <1>2 DEF Same, MemoryTypeOK
<1>7. LedgerInv' /\ LostPages' = LostPages
  <2>1. free' \cap Mine(p)' = {}
    BY <1>2, <1>3, <1>5
  <2>2. free' \cup Mine(p)' = free \cup Mine(p)
    BY <1>1, <1>2, <1>5
  <2> QED
    BY <1>5, <1>6, <2>1, <2>2, OneMoves
<1>8. MemoryTypeOK'
  BY <1>2, <1>4 DEF MemoryTypeOK, MemoryPoints
<1>9. SlotInv'
  <2>1. \A x \in MemProcs \ {p} : pages'[x] = pages[x]
    BY <1>6 DEF Same
  <2>2. \A x \in MemProcs \ {p} : mpc'[x] = mpc[x]
    BY DEF MemoryTypeOK
  <2>3. mpc'[p] = "user" /\ mpc[p] = "user"
    BY DEF MemoryTypeOK
  <2>4. \A x \in MemProcs : mpc'[x] = "fork" <=> mpc[x] = "fork"
    BY <2>2, <2>3
  <2>5. \A x \in MemProcs : mpc[x] = "fork" => mpc'[kid[x]] = "embryo"
    BY <2>2, <2>3 DEF SlotInv, MemoryTypeOK
  <2>6. ASSUME NEW x \in MemProcs
        PROVE  /\ mpc'[x] = "unused" <=> kstack[x] = 0
               /\ mpc'[x] \in {"unused", "embryo"} => tables[x] = {} /\ pages'[x] = <<>>
               /\ mpc'[x] \notin {"fork", "exec", "shmmap"} => img[x].tables = {} /\ img[x].pages = <<>>
    <3>1. CASE x = p
      BY <2>3, <3>1 DEF SlotInv
    <3>2. CASE x # p
      BY <2>1, <2>2, <3>2 DEF SlotInv
    <3> QED
      BY <3>1, <3>2
  <2> QED
    BY <1>2, <2>4, <2>5, <2>6 DEF SlotInv
<1> QED
  BY <1>2, <1>7, <1>8, <1>9, NothingLostInv DEF NothingLost

LEMMA GrowInv ==
  ASSUME Running, NEW p \in MemProcs, NEW n \in 1..2, Grow(p, n)
  PROVE  MemoryInv'
BY MorePages DEF Grow

LEMMA ShrinkInv ==
  ASSUME Running, NEW p \in MemProcs, Shrink(p)
  PROVE  MemoryInv'
<1> DEFINE x == pages[p][Len(pages[p])]
           s == SubSeq(pages[p], 1, Len(pages[p]) - 1)
<1> USE DEF Running
<1>1. /\ pages[p] \in Seq(Frames) /\ Len(pages[p]) > 0 /\ mpc[p] = "user"
      /\ free' = free \cup {x} /\ pages' = [pages EXCEPT ![p] = s]
      /\ UNCHANGED <<kstack, tables, img, kid, mpc, lost>>
  BY DEF Shrink, Kfree, MemoryTypeOK, building
<1>2. Mine(p) \cap free = {} /\ Intact(p)
  BY DEF LedgerInv
<1>3. /\ s \in Seq(Frames) /\ x \in Frames /\ ToSet(pages[p]) = ToSet(s) \cup {x}
      /\ Distinct(s) /\ x \notin ToSet(s)
  BY <1>1, <1>2, DropPage DEF Intact
<1> HIDE DEF x, s
<1>4. pages'[p] = s /\ free \in SUBSET Frames
  BY <1>1 DEF MemoryTypeOK
<1>5. Mine(p) = Mine(p)' \cup {x} /\ x \notin Mine(p)' /\ Intact(p)'
  BY <1>1, <1>2, <1>3, <1>4 DEF Mine, Space, Stack, Intact
<1>6. \A y \in MemProcs \ {p} : Same(y)
  BY <1>1 DEF Same, MemoryTypeOK
<1>7. LedgerInv' /\ LostPages' = LostPages
  <2>1. free' \cap Mine(p)' = {}
    BY <1>1, <1>2, <1>5
  <2>2. free' \cup Mine(p)' = free \cup Mine(p)
    BY <1>1, <1>5
  <2> QED
    BY <1>5, <1>6, <2>1, <2>2, OneMoves
<1>8. MemoryTypeOK'
  BY <1>1, <1>3, <1>4 DEF MemoryTypeOK
<1>9. SlotInv'
  BY <1>1 DEF SlotInv, MemoryTypeOK
<1> QED
  BY <1>1, <1>7, <1>8, <1>9, NothingLostInv DEF NothingLost

\* fork takes a kernel stack and a page directory.
LEMMA ForkInv ==
  ASSUME Running, NEW p \in MemProcs, NEW q \in MemProcs, Fork(p, q)
  PROVE  MemoryInv'
<1> DEFINE a == Kalloc(2)[1]
           b == Kalloc(2)[2]
           i == [tables |-> {b}, pages |-> <<>>, want |-> Len(pages[p])]
<1> USE DEF Running
<1>1. a \in free /\ b \in free /\ a # b /\ free \subseteq Frames /\ ToSet(Kalloc(2)) = {a, b}
  <2>1. NFRAMES \in Nat /\ free \in SUBSET Frames
    BY DEF MemoryCondition, MemoryTypeOK
  <2>2. Cardinality(free) >= 2 /\ 2 \in 1..2
    BY DEF Fork
  <2> QED
    BY ONLY <2>1, <2>2, KallocGives
<1>2. /\ mpc[p] = "user" /\ mpc[q] = "unused" /\ p # q
      /\ free' = free \ {a, b}
      /\ kstack' = [kstack EXCEPT ![q] = a] /\ img' = [img EXCEPT ![p] = i]
      /\ kid' = [kid EXCEPT ![p] = q]
      /\ mpc' = [mpc EXCEPT ![p] = "fork", ![q] = "embryo"]
      /\ UNCHANGED <<tables, pages, lost>>
  BY <1>1 DEF Fork
<1>3. i \in Images /\ i.tables = {b} /\ i.pages = <<>>
  BY <1>1 DEF Images, MemoryTypeOK
<1> HIDE DEF a, b, i
<1>4. /\ kstack'[q] = a /\ kstack'[p] = kstack[p] /\ img'[p] = i /\ img'[q] = img[q]
      /\ kstack[q] = 0 /\ a # 0
      /\ img[p].tables = {} /\ img[p].pages = <<>> /\ img[q].tables = {} /\ img[q].pages = <<>>
      /\ tables[q] = {} /\ pages[q] = <<>>
  <2>1. kstack'[q] = a /\ kstack'[p] = kstack[p] /\ img'[p] = i /\ img'[q] = img[q]
    BY <1>2 DEF MemoryTypeOK
  <2>2. a # 0
    BY <1>1 DEF Frames
  <2>3. kstack[q] = 0 /\ tables[q] = {} /\ pages[q] = <<>> /\ img[q].tables = {} /\ img[q].pages = <<>>
    BY <1>2 DEF SlotInv
  <2>4. img[p].tables = {} /\ img[p].pages = <<>>
    BY <1>2 DEF SlotInv
  <2> QED
    BY <2>1, <2>2, <2>3, <2>4
<1>5. Mine(p) \cap free = {} /\ Intact(p)
  BY DEF LedgerInv
<1>6. Mine(p)' = Mine(p) \cup {b} /\ Mine(q)' = {a} /\ Mine(q) = {}
  BY <1>2, <1>3, <1>4, EmptyPages DEF Mine, Stack, Space, ImageFrames
<1>7. Intact(p)' /\ Intact(q)'
  BY <1>1, <1>2, <1>3, <1>4, <1>5, EmptyPages DEF Mine, Intact, Stack, Space, ImageFrames
<1>8. \A x \in MemProcs \ {p, q} : Same(x)
  BY <1>2 DEF Same, MemoryTypeOK
<1>9. LedgerInv' /\ LostPages' = LostPages \cup {}
  <2>1. Mine(p)' \cap Mine(q)' = {} /\ free' \cap (Mine(p)' \cup Mine(q)') = {}
    BY <1>1, <1>2, <1>5, <1>6
  <2>2. free' \cup Mine(p)' \cup Mine(q)' \cup {} = free \cup Mine(p) \cup Mine(q)
    BY <1>1, <1>2, <1>6
  <2>3. {} \in SUBSET Frames /\ {} \cap (free' \cup Mine(p)' \cup Mine(q)') = {}
    OBVIOUS
  <2> QED
    BY <1>7, <1>8, <2>1, <2>2, <2>3, PagesMove
<1>10. MemoryTypeOK'
  <2>1. a \in 0..NFRAMES /\ free' \in SUBSET Frames
    BY <1>1, <1>2 DEF Frames
  <2>2. mpc' \in [MemProcs -> MemoryPoints]
    BY <1>2 DEF MemoryTypeOK, MemoryPoints
  <2> QED
    BY <1>2, <1>3, <2>1, <2>2 DEF MemoryTypeOK
<1>11. SlotInv'
  <2>1. mpc'[p] = "fork" /\ mpc'[q] = "embryo" /\ kid'[p] = q
    BY <1>2 DEF MemoryTypeOK
  <2>2. \A x \in MemProcs \ {p, q} : mpc'[x] = mpc[x] /\ kid'[x] = kid[x] /\ Same(x)
    BY <1>2, <1>8 DEF MemoryTypeOK
  <2>3. \A x \in MemProcs : mpc[x] = "fork" => kid[x] \in MemProcs \ {p, q} /\ x \notin {p, q}
    BY <1>2 DEF SlotInv, MemoryTypeOK
  <2>4. ASSUME NEW x \in MemProcs
        PROVE  /\ mpc'[x] = "unused" <=> kstack'[x] = 0
               /\ mpc'[x] \in {"unused", "embryo"} => tables'[x] = {} /\ pages'[x] = <<>>
               /\ mpc'[x] \notin {"fork", "exec", "shmmap"} => img'[x].tables = {} /\ img'[x].pages = <<>>
               /\ mpc'[x] = "fork" => mpc'[kid'[x]] = "embryo"
    <3>1. CASE x = p
      BY <1>2, <1>4, <2>1, <3>1 DEF SlotInv
    <3>2. CASE x = q
      BY <1>2, <1>4, <2>1, <3>2 DEF SlotInv
    <3>3. CASE x \notin {p, q}
      BY <2>2, <2>3, <3>3 DEF SlotInv, Same
    <3> QED
      BY <3>1, <3>2, <3>3
  <2>5. ASSUME NEW x \in MemProcs, NEW y \in MemProcs, mpc'[x] = "fork", mpc'[y] = "fork", kid'[x] = kid'[y]
        PROVE  x = y
    <3>1. x # q /\ y # q
      BY <2>1, <2>5
    <3>2. CASE x # p /\ y # p
      BY <2>2, <2>5, <3>1, <3>2 DEF SlotInv
    <3>3. CASE x = p \/ y = p
      BY <2>1, <2>2, <2>3, <2>5, <3>1, <3>3
    <3> QED
      BY <3>2, <3>3
  <2> QED
    BY <2>4, <2>5 DEF SlotInv
<1> QED
  BY <1>2, <1>9, <1>10, <1>11, NothingLostInv DEF NothingLost

\* Steps that change the points of no fork and no child: the slots stay right
\* when p's own is.
LEMMA OneSlot ==
  ASSUME MemoryTypeOK, SlotInv, NEW p \in MemProcs, NEW v,
         mpc' = [mpc EXCEPT ![p] = v], UNCHANGED kid, \A x \in MemProcs \ {p} : Same(x),
         mpc[p] # "embryo", mpc[p] = "fork" <=> v = "fork",
         v = "unused" <=> kstack'[p] = 0,
         v \in {"unused", "embryo"} => tables'[p] = {} /\ pages'[p] = <<>>,
         v \notin {"fork", "exec", "shmmap"} => img'[p].tables = {} /\ img'[p].pages = <<>>
  PROVE  SlotInv'
<1>1. mpc'[p] = v /\ \A x \in MemProcs \ {p} : mpc'[x] = mpc[x]
  BY DEF MemoryTypeOK
<1>2. \A x \in MemProcs : mpc'[x] = "fork" <=> mpc[x] = "fork"
  BY <1>1
<1>3. \A x \in MemProcs : mpc[x] = "fork" => mpc'[kid[x]] = "embryo"
  BY <1>1 DEF SlotInv, MemoryTypeOK
<1>4. ASSUME NEW x \in MemProcs
      PROVE  /\ mpc'[x] = "unused" <=> kstack'[x] = 0
             /\ mpc'[x] \in {"unused", "embryo"} => tables'[x] = {} /\ pages'[x] = <<>>
             /\ mpc'[x] \notin {"fork", "exec", "shmmap"} => img'[x].tables = {} /\ img'[x].pages = <<>>
  <2>1. CASE x = p
    BY <1>1, <2>1
  <2>2. CASE x # p
    BY <1>1, <2>2 DEF SlotInv, Same
  <2> QED
    BY <2>1, <2>2
<1> QED
  BY <1>2, <1>3, <1>4 DEF SlotInv

LEMMA FreeCount ==
  ASSUME Running, free # {}
  PROVE  Cardinality(free) >= 1
<1>1. IsFiniteSet(Frames)
  BY FS_Interval DEF Frames, Running, MemoryCondition
<1>2. IsFiniteSet(free)
  BY <1>1, FS_Subset DEF Running, MemoryTypeOK
<1> QED
  BY <1>2, FS_CardinalityType, FS_EmptySet

\* exec begins a new image beside the old one.
LEMMA ExecInv ==
  ASSUME Running, NEW p \in MemProcs, NEW n \in 2..MaxPages, Exec(p, n)
  PROVE  MemoryInv'
<1> DEFINE a == Kalloc(1)[1]
           i == [tables |-> {a}, pages |-> <<>>, want |-> n]
<1> USE DEF Running
<1>0. Cardinality(free) >= 1
  BY FreeCount DEF Exec
<1>1. a \in free /\ free \subseteq Frames /\ ToSet(Kalloc(1)) = {a}
  <2>1. NFRAMES \in Nat /\ free \in SUBSET Frames /\ 1 \in 1..2
    BY DEF MemoryCondition, MemoryTypeOK
  <2> QED
    BY ONLY <1>0, <2>1, KallocGives
<1>2. /\ mpc[p] = "user" /\ free' = free \ {a} /\ img' = [img EXCEPT ![p] = i]
      /\ mpc' = [mpc EXCEPT ![p] = "exec"]
      /\ UNCHANGED <<kstack, tables, pages, kid, lost>>
  BY <1>1 DEF Exec, image
<1>3. i \in Images /\ i.tables = {a} /\ i.pages = <<>>
  BY <1>1 DEF Images, MemoryCondition
<1> HIDE DEF a, i
<1>4. img'[p] = i /\ img[p].tables = {} /\ img[p].pages = <<>>
  <2>1. img'[p] = i
    BY <1>2 DEF MemoryTypeOK
  <2>2. img[p].tables = {} /\ img[p].pages = <<>>
    BY <1>2 DEF SlotInv
  <2> QED
    BY <2>1, <2>2
<1>5. Mine(p) \cap free = {} /\ Intact(p)
  BY DEF LedgerInv
<1>6. Mine(p)' = Mine(p) \cup {a}
  BY <1>2, <1>3, <1>4, EmptyPages DEF Mine, Stack, Space, ImageFrames
<1>7. Intact(p)'
  BY <1>1, <1>2, <1>3, <1>4, <1>5, EmptyPages DEF Mine, Intact, Stack, Space, ImageFrames
<1>8. \A x \in MemProcs \ {p} : Same(x)
  BY <1>2 DEF Same, MemoryTypeOK
<1>9. LedgerInv' /\ LostPages' = LostPages
  <2>1. free' \cap Mine(p)' = {} /\ free' \cup Mine(p)' = free \cup Mine(p)
    BY <1>1, <1>2, <1>5, <1>6
  <2> QED
    BY <1>7, <1>8, <2>1, OneMoves
<1>10. MemoryTypeOK'
  BY <1>1, <1>2, <1>3 DEF MemoryTypeOK, MemoryPoints
<1>11. SlotInv'
  <2>1. kstack'[p] # 0
    BY <1>2 DEF SlotInv
  <2> QED
    BY <1>2, <1>8, <2>1, OneSlot
<1> QED
  BY <1>2, <1>9, <1>10, <1>11, NothingLostInv DEF NothingLost

\* copyuvm and allocuvm put a page, and a table when it is the first, into the
\* new image.
LEMMA AddPageInv ==
  ASSUME Running, NEW p \in MemProcs, AddPage(p)
  PROVE  MemoryInv'
<1> DEFINE new == Kalloc(Needed(p))
           a == new[1]
           T == ToSet(Tail(new))
           s == Append(img[p].pages, a)
           i == [img[p] EXCEPT !.pages = s, !.tables = @ \cup T]
<1> USE DEF Running
<1>1. /\ a \in free /\ T \subseteq free /\ a \notin T /\ ToSet(new) = {a} \cup T /\ free \subseteq Frames
  <2>1. Needed(p) \in 1..2 /\ Cardinality(free) >= Needed(p)
    BY DEF Needed, AddPage
  <2>2. NFRAMES \in Nat /\ free \in SUBSET Frames
    BY DEF MemoryCondition, MemoryTypeOK
  <2>3. /\ Distinct(new) /\ new \in Seq(Frames) /\ Len(new) \in 1..2 /\ ToSet(new) \subseteq free
        /\ \/ ToSet(new) = {a} /\ T = {}
           \/ ToSet(new) = {a, new[2]} /\ T = {new[2]} /\ a # new[2]
    BY ONLY <2>1, <2>2, KallocGives
  <2> QED
    BY ONLY <2>2, <2>3
<1>2. /\ mpc[p] \in {"fork", "exec"} /\ free' = free \ ({a} \cup T)
      /\ UNCHANGED <<mpc, kstack, tables, pages, kid, lost>>
  BY <1>1 DEF AddPage, image
<1>3. img' = [img EXCEPT ![p] = i]
  BY DEF AddPage
<1>4. img[p] \in Images
  BY DEF MemoryTypeOK
<1> HIDE DEF new, a, T
<1>5. Mine(p) \cap free = {} /\ Intact(p)
  BY DEF LedgerInv
<1>6. /\ s \in Seq(Frames) /\ ToSet(s) = ToSet(img[p].pages) \cup {a} /\ Distinct(s)
  <2>1. img[p].pages \in Seq(Frames) /\ a \in Frames
    BY <1>1, <1>4 DEF Images
  <2>2. a \notin ToSet(img[p].pages) /\ Distinct(img[p].pages)
    BY <1>1, <1>5 DEF Mine, ImageFrames, Intact
  <2> QED
    BY <2>1, <2>2, AppendPage
<1> HIDE DEF s
<1>7. i \in Images /\ i.tables = img[p].tables \cup T /\ i.pages = s
  BY <1>1, <1>4, <1>6 DEF Images
<1> HIDE DEF i
<1>8. img'[p] = i
  BY <1>3 DEF MemoryTypeOK
<1>9. ImageFrames(i) = ImageFrames(img[p]) \cup {a} \cup T
  BY <1>6, <1>7 DEF ImageFrames
<1>10. Mine(p)' = Mine(p) \cup {a} \cup T
  BY <1>2, <1>8, <1>9 DEF Mine, Stack, Space
<1>11. Intact(p)'
  <2>1. Stack(p)' = Stack(p) /\ Space(p)' = Space(p) /\ Stack(p) \subseteq Mine(p) /\ Space(p) \subseteq Mine(p)
        /\ ToSet(img[p].pages) \subseteq Mine(p) /\ img[p].tables \subseteq Mine(p)
    BY <1>2 DEF Stack, Space, Mine, ImageFrames
  <2>2. ({a} \cup T) \cap Mine(p) = {}
    BY <1>1, <1>5
  <2>3. /\ Stack(p) \cap (Space(p) \cup ImageFrames(i)) = {}
        /\ Space(p) \cap ImageFrames(i) = {}
    BY <1>5, <1>9, <2>1, <2>2 DEF Intact
  <2>4. i.tables \cap ToSet(i.pages) = {}
    BY <1>1, <1>5, <1>6, <1>7, <2>1, <2>2 DEF Intact
  <2> QED
    BY <1>2, <1>5, <1>6, <1>7, <1>8, <2>1, <2>3, <2>4 DEF Intact
<1>12. \A x \in MemProcs \ {p} : Same(x)
  BY <1>2, <1>3 DEF Same, MemoryTypeOK
<1>13. LedgerInv' /\ LostPages' = LostPages
  <2>1. free' \cap Mine(p)' = {} /\ free' \cup Mine(p)' = free \cup Mine(p)
    BY <1>1, <1>2, <1>5, <1>10
  <2> QED
    BY <1>11, <1>12, <2>1, OneMoves
<1>14. MemoryTypeOK'
  BY <1>1, <1>2, <1>3, <1>7 DEF MemoryTypeOK
<1>15. SlotInv'
  <2>1. mpc' = [mpc EXCEPT ![p] = mpc[p]]
    BY <1>2 DEF MemoryTypeOK
  <2>2. kstack'[p] # 0
    BY <1>2 DEF SlotInv
  <2> QED
    BY <1>2, <1>12, <2>1, <2>2, OneSlot
<1> QED
  BY <1>2, <1>13, <1>14, <1>15, NothingLostInv DEF NothingLost

\* A step that forgets D and counts it.
LEMMA LossInv ==
  ASSUME Running, NEW D \in SUBSET Frames, MemoryTypeOK', SlotInv', LedgerInv',
         LostPages' = LostPages \cup D, LostPages \cap D = {}, lost' = lost + Cardinality(D)
  PROVE  MemoryInv'
<1>1. IsFiniteSet(LostPages) /\ IsFiniteSet(D)
  <2>1. IsFiniteSet(Frames)
    BY FS_Interval DEF Frames, Running, MemoryCondition
  <2> QED
    BY <2>1, LostFinite, FS_Subset DEF Running
<1>2. Cardinality(LostPages \cup D) = Cardinality(LostPages) + Cardinality(D)
  <2>1. Cardinality(LostPages \cup D) =
          Cardinality(LostPages) + Cardinality(D) - Cardinality(LostPages \cap D)
    BY <1>1, FS_Union
  <2>2. Cardinality(LostPages) \in Nat /\ Cardinality(D) \in Nat /\ Cardinality(LostPages \cap D) = 0
    BY <1>1, FS_CardinalityType, FS_EmptySet
  <2> QED
    BY <2>1, <2>2
<1> QED
  BY <1>2 DEF Running, MemoryInv

\* The end of a fork, of the slots p and q.
LEMMA TwoSlots ==
  ASSUME MemoryTypeOK, SlotInv, NEW p \in MemProcs, NEW q \in MemProcs, NEW v \in {"unused", "user"},
         mpc[p] = "fork", q = kid[p],
         mpc' = [mpc EXCEPT ![p] = "user", ![q] = v], kid' = [kid EXCEPT ![p] = p],
         \A x \in MemProcs \ {p, q} : Same(x), kstack'[p] # 0,
         v = "unused" <=> kstack'[q] = 0,
         v = "unused" => tables'[q] = {} /\ pages'[q] = <<>>,
         img'[p].tables = {}, img'[p].pages = <<>>, img'[q].tables = {}, img'[q].pages = <<>>
  PROVE  SlotInv'
<1>1. mpc[q] = "embryo" /\ p # q
  BY DEF SlotInv
<1>2. /\ mpc'[p] = "user" /\ mpc'[q] = v
      /\ \A x \in MemProcs \ {p, q} : mpc'[x] = mpc[x] /\ kid'[x] = kid[x]
  BY <1>1 DEF MemoryTypeOK
<1>3. \A x \in MemProcs : mpc'[x] = "fork" => x \notin {p, q} /\ mpc[x] = "fork" /\ kid'[x] = kid[x]
  BY <1>2
<1>4. \A x \in MemProcs : mpc'[x] = "fork" => kid[x] \in MemProcs /\ kid[x] \notin {p, q} /\ mpc[kid[x]] = "embryo"
  <2>1. \A x \in MemProcs : kid[x] \in MemProcs
    BY DEF MemoryTypeOK
  <2>2. \A x \in MemProcs : mpc'[x] = "fork" => mpc[kid[x]] = "embryo" /\ kid[x] # q
    BY <1>3 DEF SlotInv
  <2> QED
    BY <2>1, <2>2
<1>5. ASSUME NEW x \in MemProcs, mpc'[x] = "fork" PROVE mpc'[kid'[x]] = "embryo"
  <2>1. kid[x] \in MemProcs \ {p, q} /\ mpc[kid[x]] = "embryo" /\ kid'[x] = kid[x]
    BY <1>3, <1>4, <1>5
  <2>2. mpc'[kid[x]] = mpc[kid[x]]
    BY <1>2, <2>1
  <2> QED
    BY <2>1, <2>2
<1>6. ASSUME NEW x \in MemProcs
      PROVE  /\ mpc'[x] = "unused" <=> kstack'[x] = 0
             /\ mpc'[x] \in {"unused", "embryo"} => tables'[x] = {} /\ pages'[x] = <<>>
             /\ mpc'[x] \notin {"fork", "exec", "shmmap"} => img'[x].tables = {} /\ img'[x].pages = <<>>
  <2>1. CASE x = p
    BY <1>2, <2>1
  <2>2. CASE x = q
    BY <1>2, <2>2
  <2>3. CASE x \notin {p, q}
    <3>1. /\ mpc[x] = "unused" <=> kstack[x] = 0
          /\ mpc[x] \in {"unused", "embryo"} => tables[x] = {} /\ pages[x] = <<>>
          /\ mpc[x] \notin {"fork", "exec", "shmmap"} => img[x].tables = {} /\ img[x].pages = <<>>
      BY DEF SlotInv
    <3>2. Same(x) /\ mpc'[x] = mpc[x]
      BY <1>2, <2>3
    <3> QED
      BY <3>1, <3>2 DEF Same
  <2> QED
    BY <2>1, <2>2, <2>3
<1>7. \A x, y \in MemProcs : mpc'[x] = "fork" /\ mpc'[y] = "fork" /\ kid'[x] = kid'[y] => x = y
  BY <1>3 DEF SlotInv
<1> QED
  BY <1>5, <1>6, <1>7 DEF SlotInv

LEMMA ImagePages ==
  ASSUME MemoryTypeOK, NEW p \in MemProcs
  PROVE  /\ ImageFrames(img[p]) \in SUBSET Frames /\ Space(p) \in SUBSET Frames
         /\ NoImage \in Images /\ ImageFrames(NoImage) = {} /\ NoImage.tables = {} /\ NoImage.pages = <<>>
<1>1. img[p] \in Images /\ tables[p] \in SUBSET Frames /\ pages[p] \in Seq(Frames)
  BY DEF MemoryTypeOK
<1>2. ImageFrames(img[p]) \in SUBSET Frames /\ Space(p) \in SUBSET Frames
  BY <1>1, ToSetIs DEF ImageFrames, Images, Space
<1> QED
  BY <1>2, EmptyPages DEF NoImage, Images, ImageFrames

\* The failure path of exec gives the new image back.
LEMMA AbandonExecInv ==
  ASSUME Running, NEW p \in MemProcs, Abandon(p), mpc[p] = "exec"
  PROVE  MemoryInv'
<1> DEFINE I == ImageFrames(img[p])
<1> USE DEF Running
<1>1. /\ free' = free \cup I /\ kstack' = kstack
      /\ mpc' = [mpc EXCEPT ![p] = "user"] /\ img' = [img EXCEPT ![p] = NoImage]
      /\ kid' = [kid EXCEPT ![p] = p]
      /\ UNCHANGED <<tables, pages>> /\ lost' = lost + Cardinality({})
  BY DEF Abandon, Released, Dropped
<1>2. /\ img'[p] = NoImage /\ \A x \in MemProcs \ {p} : img'[x] = img[x] /\ kid'[x] = kid[x] /\ mpc'[x] = mpc[x]
      /\ mpc'[p] = "user"
  BY <1>1 DEF MemoryTypeOK
<1>3. Mine(p) \cap free = {} /\ Intact(p)
  BY DEF LedgerInv
<1>4. Mine(p)' = Mine(p) \ I /\ I \subseteq Mine(p)
  BY <1>1, <1>2, <1>3, ImagePages DEF Mine, Intact, Stack, Space
<1>5. Intact(p)'
  BY <1>1, <1>2, <1>3, ImagePages, EmptyPages DEF Intact, Stack, Space
<1>6. \A x \in MemProcs \ {p} : Same(x)
  BY <1>1, <1>2 DEF Same
<1>7. LedgerInv' /\ LostPages' = LostPages
  <2>1. free' \cap Mine(p)' = {} /\ free' \cup Mine(p)' = free \cup Mine(p)
    BY <1>1, <1>3, <1>4
  <2> QED
    BY <1>5, <1>6, <2>1, OneMoves
<1>8. MemoryTypeOK'
  <2>1. free' \in SUBSET Frames
    BY <1>1, ImagePages DEF MemoryTypeOK
  <2>2. img' \in [MemProcs -> Images] /\ kid' \in [MemProcs -> MemProcs]
    BY <1>1, ImagePages DEF MemoryTypeOK
  <2> QED
    BY <1>1, <2>1, <2>2 DEF MemoryTypeOK, MemoryPoints, PlainPoints
<1>9. SlotInv'
  <2>1. kstack'[p] # 0
    BY <1>1 DEF SlotInv
  <2>2. \A x \in MemProcs : mpc'[x] = "fork" => mpc[x] = "fork" /\ kid'[x] = kid[x] /\ mpc'[kid[x]] = "embryo"
    BY <1>2 DEF SlotInv, MemoryTypeOK
  <2>3. ASSUME NEW x \in MemProcs
        PROVE  /\ mpc'[x] = "unused" <=> kstack'[x] = 0
               /\ mpc'[x] \in {"unused", "embryo"} => tables'[x] = {} /\ pages'[x] = <<>>
               /\ mpc'[x] \notin {"fork", "exec", "shmmap"} => img'[x].tables = {} /\ img'[x].pages = <<>>
    <3>1. CASE x = p
      BY <1>2, <2>1, <3>1, ImagePages
    <3>2. CASE x # p
      BY <1>2, <1>6, <3>2 DEF SlotInv, Same
    <3> QED
      BY <3>1, <3>2
  <2> QED
    BY <2>2, <2>3 DEF SlotInv
<1>10. lost' = lost
  <2>1. Cardinality({}) = 0
    BY FS_EmptySet
  <2>2. lost \in Nat
    BY LostFinite, FS_CardinalityType
  <2> QED
    BY <1>1, <2>1, <2>2
<1> QED
  BY <1>7, <1>8, <1>9, <1>10, NothingLostInv DEF NothingLost

\* That of fork gives back the image and the kernel stack of the child; copyuvm
\* of OS-Lab-5 may forget one page.
LEMMA AbandonForkInv ==
  ASSUME Running, NEW p \in MemProcs, NEW q \in MemProcs, q = kid[p], Abandon(p), mpc[p] = "fork"
  PROVE  MemoryInv'
<1> DEFINE D == Dropped(p)
           I == ImageFrames(img[p])
<1> USE DEF Running
<1>1. D \in SUBSET free /\ free \in SUBSET Frames
  BY DEF Dropped, MemoryTypeOK
<1>2. /\ free' = (free \ D) \cup (I \cup {kstack[q]}) /\ kstack' = [kstack EXCEPT ![q] = 0]
      /\ mpc' = [mpc EXCEPT ![p] = "user", ![q] = "unused"]
      /\ img' = [img EXCEPT ![p] = NoImage] /\ kid' = [kid EXCEPT ![p] = p]
      /\ UNCHANGED <<tables, pages>> /\ lost' = lost + Cardinality(D)
  BY DEF Abandon, Released
<1> HIDE DEF D
<1>3. mpc[q] = "embryo" /\ p # q
  BY DEF SlotInv
<1>4. /\ kstack[q] # 0 /\ kstack[p] # 0
      /\ tables[q] = {} /\ pages[q] = <<>> /\ img[q].tables = {} /\ img[q].pages = <<>>
  <2>1. kstack[q] # 0 /\ kstack[p] # 0
    BY <1>3 DEF SlotInv
  <2>2. tables[q] = {} /\ pages[q] = <<>>
    BY <1>3 DEF SlotInv
  <2>3. img[q].tables = {} /\ img[q].pages = <<>>
    BY <1>3 DEF SlotInv
  <2> QED
    BY <2>1, <2>2, <2>3
<1>5. /\ img'[p] = NoImage /\ img'[q] = img[q] /\ kstack'[p] = kstack[p] /\ kstack'[q] = 0
      /\ tables'[p] = tables[p] /\ pages'[p] = pages[p] /\ tables'[q] = {} /\ pages'[q] = <<>>
      /\ img'[q].tables = {} /\ img'[q].pages = <<>>
  BY <1>2, <1>3, <1>4 DEF MemoryTypeOK
<1>6. \A x \in MemProcs \ {p, q} : Same(x)
  BY <1>2 DEF Same, MemoryTypeOK
<1>7. /\ Mine(p) \cap free = {} /\ Intact(p) /\ Mine(q) \cap free = {}
      /\ Mine(p) \cap Mine(q) = {}
  BY <1>3 DEF LedgerInv
<1>8. Mine(p)' = Mine(p) \ I /\ I \subseteq Mine(p)
  BY <1>5, <1>7, ImagePages DEF Mine, Intact, Stack, Space
<1>9. Mine(q) = {kstack[q]}
  BY <1>4, EmptyPages DEF Mine, Stack, Space, ImageFrames
<1>10. Mine(q)' = {} /\ Intact(q)'
  <2>1. Stack(q)' = {} /\ Space(q)' = {} /\ ImageFrames(img'[q]) = {}
    BY <1>5, EmptyPages DEF Stack, Space, ImageFrames
  <2> QED
    BY <1>5, <2>1, EmptyPages DEF Mine, Intact
<1>11. Intact(p)'
  BY <1>5, <1>7, ImagePages, EmptyPages DEF Intact, Stack, Space
<1>12. LedgerInv' /\ LostPages' = LostPages \cup D /\ LostPages \cap D = {}
  <2>1. /\ free' \cap (Mine(p)' \cup Mine(q)') = {}
        /\ D \cap (free' \cup Mine(p)' \cup Mine(q)') = {}
        /\ free' \cup Mine(p)' \cup Mine(q)' \cup D = free \cup Mine(p) \cup Mine(q)
    BY <1>1, <1>2, <1>7, <1>8, <1>9, <1>10
  <2>2. D \in SUBSET Frames /\ (p # q => Mine(p)' \cap Mine(q)' = {})
    BY <1>1, <1>10
  <2> QED
    BY <1>6, <1>10, <1>11, <2>1, <2>2, PagesMove
<1>13. MemoryTypeOK'
  <2>1. kstack[q] \in Frames
    BY <1>4 DEF MemoryTypeOK, Frames, MemoryCondition
  <2>2. free' \in SUBSET Frames
    BY <1>1, <1>2, <2>1, ImagePages
  <2>3. img' \in [MemProcs -> Images] /\ kid' \in [MemProcs -> MemProcs]
    BY <1>2, ImagePages DEF MemoryTypeOK
  <2>4. mpc' \in [MemProcs -> MemoryPoints]
    BY <1>2 DEF MemoryTypeOK, MemoryPoints, PlainPoints
  <2>5. kstack' \in [MemProcs -> 0..NFRAMES]
    <3>1. 0 \in 0..NFRAMES
      BY DEF MemoryCondition
    <3> QED
      BY <1>2, <3>1 DEF MemoryTypeOK
  <2> QED
    BY <1>2, <2>2, <2>3, <2>4, <2>5 DEF MemoryTypeOK
<1>14. SlotInv'
  <2>1. img'[p].tables = {} /\ img'[p].pages = <<>>
    BY <1>5, ImagePages
  <2> QED
    BY <1>2, <1>4, <1>5, <1>6, <2>1, TwoSlots
<1>15. D \in SUBSET Frames
  BY <1>1
<1> QED
  BY <1>2, <1>12, <1>13, <1>14, <1>15, LossInv

\* fork hands the new image to the child.
LEMMA ForkDoneInv ==
  ASSUME Running, NEW p \in MemProcs, NEW q \in MemProcs, q = kid[p], ForkDone(p)
  PROVE  MemoryInv'
<1> DEFINE I == ImageFrames(img[p])
<1> USE DEF Running
<1>1. /\ mpc[p] = "fork" /\ UNCHANGED <<free, kstack, lost>>
      /\ tables' = [tables EXCEPT ![q] = img[p].tables]
      /\ pages' = [pages EXCEPT ![q] = img[p].pages]
      /\ mpc' = [mpc EXCEPT ![p] = "user", ![q] = "user"]
      /\ img' = [img EXCEPT ![p] = NoImage] /\ kid' = [kid EXCEPT ![p] = p]
  BY DEF ForkDone
<1>2. mpc[q] = "embryo" /\ p # q
  BY <1>1 DEF SlotInv
<1>3. /\ kstack[q] # 0 /\ kstack[p] # 0
      /\ tables[q] = {} /\ pages[q] = <<>> /\ img[q].tables = {} /\ img[q].pages = <<>>
  <2>1. kstack[q] # 0 /\ kstack[p] # 0
    BY <1>1, <1>2 DEF SlotInv
  <2>2. tables[q] = {} /\ pages[q] = <<>>
    BY <1>2 DEF SlotInv
  <2>3. img[q].tables = {} /\ img[q].pages = <<>>
    BY <1>2 DEF SlotInv
  <2> QED
    BY <2>1, <2>2, <2>3
<1>4. /\ img'[p] = NoImage /\ img'[q] = img[q] /\ kstack'[p] = kstack[p] /\ kstack'[q] = kstack[q]
      /\ tables'[p] = tables[p] /\ pages'[p] = pages[p]
      /\ tables'[q] = img[p].tables /\ pages'[q] = img[p].pages
  BY <1>1, <1>2 DEF MemoryTypeOK
<1>5. \A x \in MemProcs \ {p, q} : Same(x)
  BY <1>1 DEF Same, MemoryTypeOK
<1>6. /\ Mine(p) \cap free = {} /\ Intact(p) /\ Mine(q) \cap free = {}
      /\ Mine(p) \cap Mine(q) = {}
  BY <1>2 DEF LedgerInv
<1>7. Mine(p)' = Mine(p) \ I /\ I \subseteq Mine(p)
  BY <1>4, <1>6, ImagePages DEF Mine, Intact, Stack, Space
<1>8. Mine(q) = Stack(q)
  BY <1>3, EmptyPages DEF Mine, Space, ImageFrames
<1>9. Mine(q)' = Stack(q) \cup I /\ Intact(q)'
  <2>1. /\ Stack(q)' = Stack(q) /\ Space(q)' = I /\ ImageFrames(img'[q]) = {}
    BY <1>3, <1>4, EmptyPages DEF Stack, Space, ImageFrames
  <2>2. Stack(q) \cap I = {}
    BY <1>6, <1>7, <1>8
  <2>3. img'[q].tables = {} /\ img'[q].pages = <<>>
    BY <1>3, <1>4
  <2>4. tables'[q] \cap ToSet(pages'[q]) = {} /\ Distinct(pages'[q])
    BY <1>4, <1>6 DEF Intact
  <2> QED
    BY <2>1, <2>2, <2>3, <2>4, EmptyPages DEF Mine, Intact
<1>10. Intact(p)'
  BY <1>4, <1>6, ImagePages, EmptyPages DEF Intact, Stack, Space
<1>11. LedgerInv' /\ LostPages' = LostPages
  <2>1. Intact(p)' /\ Intact(q)' /\ LedgerInv
    BY <1>9, <1>10
  <2> DEFINE D == {}
  <2>2. D = {}
    OBVIOUS
  <2>3. D \in SUBSET Frames
    OBVIOUS
  <2> HIDE DEF D
  <2>4. /\ free' \cap (Mine(p)' \cup Mine(q)') = {} /\ (p # q => Mine(p)' \cap Mine(q)' = {})
        /\ D \cap (free' \cup Mine(p)' \cup Mine(q)') = {}
        /\ free' \cup Mine(p)' \cup Mine(q)' \cup D = free \cup Mine(p) \cup Mine(q)
    BY <1>1, <1>6, <1>7, <1>8, <1>9, <2>2
  <2> HIDE DEF Running, I
  <2>5. LedgerInv' /\ LostPages' = LostPages \cup D
    BY ONLY <1>5, <2>1, <2>3, <2>4, PagesMove
  <2> QED
    BY <2>2, <2>5
<1>12. MemoryTypeOK'
  <2>1. tables' \in [MemProcs -> SUBSET Frames] /\ pages' \in [MemProcs -> Seq(Frames)]
    BY <1>1 DEF MemoryTypeOK, Images
  <2>2. img' \in [MemProcs -> Images] /\ kid' \in [MemProcs -> MemProcs]
    BY <1>1, ImagePages DEF MemoryTypeOK
  <2>3. mpc' \in [MemProcs -> MemoryPoints]
    BY <1>1 DEF MemoryTypeOK, MemoryPoints, PlainPoints
  <2> QED
    BY <1>1, <2>1, <2>2, <2>3 DEF MemoryTypeOK
<1>13. SlotInv'
  <2>1. img'[p].tables = {} /\ img'[p].pages = <<>> /\ img'[q].tables = {} /\ img'[q].pages = <<>>
    BY <1>3, <1>4, ImagePages
  <2>2. kstack'[p] # 0 /\ kstack'[q] # 0
    BY <1>3, <1>4
  <2> QED
    BY <1>1, <1>5, <2>1, <2>2, TwoSlots
<1> QED
  BY <1>1, <1>11, <1>12, <1>13, NothingLostInv DEF NothingLost

\* exec commits to the new image and frees the old one.
LEMMA ExecDoneInv ==
  ASSUME Running, NEW p \in MemProcs, ExecDone(p)
  PROVE  MemoryInv'
<1> DEFINE I == ImageFrames(img[p])
<1> USE DEF Running
<1>1. /\ mpc[p] = "exec" /\ UNCHANGED <<kstack, kid, lost>>
      /\ free' = free \cup Space(p)
      /\ tables' = [tables EXCEPT ![p] = img[p].tables]
      /\ pages' = [pages EXCEPT ![p] = img[p].pages]
      /\ mpc' = [mpc EXCEPT ![p] = "user"]
      /\ img' = [img EXCEPT ![p] = NoImage]
  BY DEF ExecDone, Kfree, Space
<1>2. img'[p] = NoImage /\ tables'[p] = img[p].tables /\ pages'[p] = img[p].pages
  BY <1>1 DEF MemoryTypeOK
<1>3. \A x \in MemProcs \ {p} : Same(x)
  BY <1>1 DEF Same, MemoryTypeOK
<1>4. Mine(p) \cap free = {} /\ Intact(p)
  BY DEF LedgerInv
<1>5. Stack(p)' = Stack(p) /\ Space(p)' = I /\ ImageFrames(img'[p]) = {}
  BY <1>1, <1>2, ImagePages DEF Stack, Space, ImageFrames
<1>6. Mine(p)' = Mine(p) \ Space(p) /\ Space(p) \subseteq Mine(p)
  BY <1>4, <1>5 DEF Mine, Intact
<1>7. Intact(p)'
  <2>1. Stack(p) \cap I = {} /\ img[p].tables \cap ToSet(img[p].pages) = {} /\ Distinct(img[p].pages)
    BY <1>4 DEF Intact
  <2>2. img'[p].tables = {} /\ img'[p].pages = <<>>
    BY <1>2, ImagePages
  <2> QED
    BY <1>2, <1>5, <2>1, <2>2, EmptyPages DEF Intact
<1>8. LedgerInv' /\ LostPages' = LostPages
  <2>1. free' \cap Mine(p)' = {} /\ free' \cup Mine(p)' = free \cup Mine(p)
    BY <1>1, <1>4, <1>6
  <2> QED
    BY <1>3, <1>7, <2>1, OneMoves
<1>9. MemoryTypeOK'
  <2>1. tables' \in [MemProcs -> SUBSET Frames] /\ pages' \in [MemProcs -> Seq(Frames)]
    BY <1>1 DEF MemoryTypeOK, Images
  <2>2. img' \in [MemProcs -> Images]
    BY <1>1, ImagePages DEF MemoryTypeOK
  <2>3. mpc' \in [MemProcs -> MemoryPoints] /\ free' \in SUBSET Frames
    BY <1>1, ImagePages DEF MemoryTypeOK, MemoryPoints, PlainPoints
  <2> QED
    BY <1>1, <2>1, <2>2, <2>3 DEF MemoryTypeOK
<1>10. SlotInv'
  <2>1. kstack'[p] # 0
    BY <1>1 DEF SlotInv
  <2>2. img'[p].tables = {} /\ img'[p].pages = <<>>
    BY <1>2, ImagePages
  <2> QED
    BY <1>1, <1>3, <2>1, <2>2, OneSlot
<1> QED
  BY <1>1, <1>8, <1>9, <1>10, NothingLostInv DEF NothingLost

\* wait frees all that a zombie has.
LEMMA ReapInv ==
  ASSUME Running, NEW p \in MemProcs, Reap(p)
  PROVE  MemoryInv'
<1> USE DEF Running
<1>1. /\ mpc[p] = "zombie" /\ UNCHANGED <<img, kid, lost>>
      /\ free' = free \cup {kstack[p]} \cup Space(p)
      /\ kstack' = [kstack EXCEPT ![p] = 0]
      /\ tables' = [tables EXCEPT ![p] = {}] /\ pages' = [pages EXCEPT ![p] = <<>>]
      /\ mpc' = [mpc EXCEPT ![p] = "unused"]
  BY DEF Reap, Kfree, Space, building
<1>2. /\ kstack'[p] = 0 /\ tables'[p] = {} /\ pages'[p] = <<>> /\ img'[p] = img[p]
  BY <1>1 DEF MemoryTypeOK
<1>3. kstack[p] # 0 /\ img[p].tables = {} /\ img[p].pages = <<>>
  BY <1>1 DEF SlotInv
<1>4. \A x \in MemProcs \ {p} : Same(x)
  BY <1>1 DEF Same, MemoryTypeOK
<1>5. Mine(p) \cap free = {} /\ Mine(p) = {kstack[p]} \cup Space(p)
  BY <1>3, EmptyPages DEF LedgerInv, Mine, Stack, ImageFrames
<1>6. Stack(p)' = {} /\ Space(p)' = {} /\ ImageFrames(img'[p]) = {}
  BY <1>2, <1>3, EmptyPages DEF Stack, Space, ImageFrames
<1>7. Mine(p)' = {} /\ Intact(p)'
  BY <1>2, <1>3, <1>6, EmptyPages DEF Mine, Intact
<1>8. LedgerInv' /\ LostPages' = LostPages
  <2>1. free' \cap Mine(p)' = {} /\ free' \cup Mine(p)' = free \cup Mine(p)
    BY <1>1, <1>5, <1>7
  <2> QED
    BY <1>4, <1>7, <2>1, OneMoves
<1>9. MemoryTypeOK'
  <2>1. kstack[p] \in Frames /\ 0 \in 0..NFRAMES
    BY <1>3 DEF MemoryTypeOK, Frames, MemoryCondition
  <2>2. free' \in SUBSET Frames
    BY <1>1, <2>1, ImagePages DEF MemoryTypeOK
  <2>3. mpc' \in [MemProcs -> MemoryPoints]
    BY <1>1 DEF MemoryTypeOK, MemoryPoints
  <2>4. /\ kstack' \in [MemProcs -> 0..NFRAMES] /\ tables' \in [MemProcs -> SUBSET Frames]
        /\ pages' \in [MemProcs -> Seq(Frames)]
    BY <1>1, <2>1 DEF MemoryTypeOK
  <2> QED
    BY <1>1, <2>2, <2>3, <2>4 DEF MemoryTypeOK
<1>10. SlotInv'
  <2>1. img'[p].tables = {} /\ img'[p].pages = <<>>
    BY <1>2, <1>3
  <2> HIDE DEF Running
  <2>2. MemoryTypeOK /\ SlotInv
    BY DEF Running
  <2> QED
    BY <1>1, <1>2, <1>4, <2>1, <2>2, OneSlot
<1> QED
  BY <1>1, <1>8, <1>9, <1>10, NothingLostInv DEF NothingLost

\* Steps that change one process's point and no page.
LEMMA PointInv ==
  ASSUME Running, NEW p \in MemProcs, NEW v,
         mpc' = [mpc EXCEPT ![p] = v], UNCHANGED <<free, image, building, lost>>,
         mpc[p] \in PlainPoints, v \in PlainPoints
  PROVE  MemoryInv'
<1> USE DEF Running
<1>1. MemoryTypeOK'
  BY DEF MemoryTypeOK, MemoryPoints, image, building
<1>2. UNCHANGED <<kstack, tables, pages, img, kid>>
  BY DEF image, building
<1>3. SlotInv'
  <2>1. \A x \in MemProcs \ {p} : Same(x)
    BY <1>2 DEF Same
  <2>2. mpc[p] \notin {"unused", "embryo", "fork", "exec", "shmmap"} /\ v \notin {"unused", "embryo", "fork"}
    BY DEF PlainPoints
  <2>3. kstack'[p] # 0 /\ img'[p].tables = {} /\ img'[p].pages = <<>>
    BY <1>2, <2>2 DEF SlotInv
  <2> QED
    BY <1>2, <2>1, <2>2, <2>3, OneSlot
<1> QED
  BY <1>1, <1>2, <1>3, QuietStep DEF image

\* shm_open takes a page for a free slot of the table, and has it in hand ...
LEMMA ShmClaimInv ==
  ASSUME Running, NEW p \in MemProcs, NEW id \in 0..NSEG-1, ShmClaim(p, id)
  PROVE  MemoryInv'
<1> USE DEF Running
<1>1. CASE free = {}
  <2>1. /\ UNCHANGED <<free, image, building, lost>>
        /\ mpc' = [mpc EXCEPT ![p] = "user"] /\ mpc[p] = "shmopen"
    BY <1>1 DEF ShmClaim, ShmRelease, image, building
  <2> QED
    BY <2>1, PointInv DEF PlainPoints
<1>2. CASE free # {}
  <2> DEFINE a == Kalloc(1)[1]
             s == Kalloc(1)
             i == [img[p] EXCEPT !.pages = s]
  <2>1. Cardinality(free) >= 1
    BY <1>2, FreeCount
  <2>2. /\ a \in free /\ free \subseteq Frames /\ ToSet(s) = {a} /\ s \in Seq(Frames) /\ Distinct(s)
    <3>1. NFRAMES \in Nat /\ free \in SUBSET Frames /\ 1 \in 1..2
      BY DEF MemoryCondition, MemoryTypeOK
    <3> QED
      BY ONLY <2>1, <3>1, KallocGives
  <2>3. /\ mpc[p] = "shmopen" /\ free' = free \ {a} /\ img' = [img EXCEPT ![p] = i]
        /\ mpc' = [mpc EXCEPT ![p] = "shmmap"]
        /\ UNCHANGED <<kstack, tables, pages, kid, lost>>
    BY <1>2, <2>2 DEF ShmClaim, image
  <2>4. img[p] \in Images
    BY DEF MemoryTypeOK
  <2>5. img[p].tables = {} /\ img[p].pages = <<>> /\ kstack[p] # 0
    BY <2>3 DEF SlotInv
  <2> HIDE DEF a, s
  <2>6. i \in Images /\ i.tables = {} /\ i.pages = s
    BY <2>2, <2>4, <2>5 DEF Images
  <2> HIDE DEF i
  <2>7. img'[p] = i
    BY <2>3 DEF MemoryTypeOK
  <2>8. Mine(p) \cap free = {} /\ Intact(p)
    BY DEF LedgerInv
  <2>9. Mine(p)' = Mine(p) \cup {a} /\ Intact(p)'
    <3>1. ImageFrames(img[p]) = {} /\ ImageFrames(i) = {a} /\ ToSet(i.pages) = {a}
      BY <2>2, <2>5, <2>6, EmptyPages DEF ImageFrames
    <3>2. Stack(p)' = Stack(p) /\ Space(p)' = Space(p)
      BY <2>3 DEF Stack, Space
    <3>3. Mine(p)' = Mine(p) \cup {a}
      BY <2>7, <3>1, <3>2 DEF Mine
    <3>4. a \notin Mine(p) /\ Stack(p) \subseteq Mine(p) /\ Space(p) \subseteq Mine(p)
      BY <2>2, <2>8 DEF Mine
    <3> QED
      BY <2>2, <2>3, <2>6, <2>7, <2>8, <3>1, <3>2, <3>3, <3>4 DEF Intact
  <2>10. \A x \in MemProcs \ {p} : Same(x)
    BY <2>3 DEF Same, MemoryTypeOK
  <2>11. LedgerInv' /\ LostPages' = LostPages
    <3>1. free' \cap Mine(p)' = {} /\ free' \cup Mine(p)' = free \cup Mine(p)
      BY <2>2, <2>3, <2>8, <2>9
    <3> QED
      BY <2>9, <2>10, <3>1, OneMoves
  <2>12. MemoryTypeOK'
    BY <2>2, <2>3, <2>6 DEF MemoryTypeOK, MemoryPoints
  <2>13. SlotInv'
    <3>1. kstack'[p] # 0
      BY <2>3, <2>5
    <3> QED
      BY <2>3, <2>10, <3>1, OneSlot
  <2> QED
    BY <2>3, <2>11, <2>12, <2>13, NothingLostInv DEF NothingLost
<1> QED
  BY <1>1, <1>2

\* ... and maps it at the end of the process.
LEMMA ShmMapInv ==
  ASSUME Running, NEW p \in MemProcs, ShmMap(p)
  PROVE  MemoryInv'
<1> DEFINE a == segs[slot[p]].frame
           s == Append(pages[p], a)
           i == [img[p] EXCEPT !.pages = <<>>]
<1> USE DEF Running
<1>1. mpc[p] = "shmmap" /\ img[p] \in Images /\ pages[p] \in Seq(Frames)
  BY DEF ShmMap, MemoryTypeOK
<1>2. img[p].tables = {} /\ img[p].pages = <<a>>
  BY <1>1 DEF ClaimInv, Claim
<1> HIDE DEF a
<1>3. <<a>> \in Seq(Frames) /\ a \in Frames /\ a # 0 /\ ToSet(<<a>>) = {a}
  <2>1. <<a>> \in Seq(Frames)
    BY <1>1, <1>2 DEF Images
  <2>2. a \in Frames
    BY <2>1
  <2>3. ToSet(<<a>>) = {a}
    BY DEF ToSet
  <2> QED
    BY <2>1, <2>2, <2>3 DEF Frames
<1>4. /\ mpc' = [mpc EXCEPT ![p] = "user"] /\ img' = [img EXCEPT ![p] = i]
      /\ pages' = [pages EXCEPT ![p] = s]
      /\ UNCHANGED <<free, kstack, tables, kid, lost>>
  BY <1>3 DEF ShmMap, ShmRelease, a
<1>5. Mine(p) \cap free = {} /\ Intact(p) /\ kstack[p] # 0
  BY <1>1 DEF LedgerInv, SlotInv
<1>6. ImageFrames(img[p]) = {a}
  BY <1>2, <1>3 DEF ImageFrames
<1>7. s \in Seq(Frames) /\ ToSet(s) = ToSet(pages[p]) \cup {a} /\ Distinct(s)
  <2>1. a \notin ToSet(pages[p]) /\ Distinct(pages[p])
    BY <1>5, <1>6 DEF Intact, Space
  <2> QED
    BY <1>1, <1>3, <2>1, AppendPage
<1> HIDE DEF s
<1>8. i \in Images /\ i.tables = {} /\ i.pages = <<>> /\ ImageFrames(i) = {}
  <2> DEFINE e == <<>>
  <2>1. e \in Seq(Frames) /\ e = <<>>
    OBVIOUS
  <2> HIDE DEF e
  <2>2. i = [img[p] EXCEPT !.pages = e]
    BY <2>1
  <2>3. i \in Images /\ i.tables = {} /\ i.pages = <<>>
    BY <1>1, <1>2, <2>1, <2>2 DEF Images
  <2> QED
    BY <2>3, EmptyPages DEF ImageFrames
<1> HIDE DEF i
<1>9. img'[p] = i /\ pages'[p] = s
  BY <1>4 DEF MemoryTypeOK
<1>10. Stack(p)' = Stack(p) /\ Space(p)' = Space(p) \cup {a} /\ ImageFrames(img'[p]) = {}
  BY <1>4, <1>7, <1>8, <1>9 DEF Stack, Space
<1>11. Mine(p)' = Mine(p)
  BY <1>6, <1>10 DEF Mine
<1>12. Intact(p)'
  <2>1. Stack(p) \cap (Space(p) \cup {a}) = {} /\ tables[p] \cap ToSet(s) = {}
    BY <1>5, <1>6, <1>7 DEF Intact, Space
  <2>2. tables'[p] = tables[p]
    BY <1>4
  <2> QED
    BY <1>7, <1>8, <1>9, <1>10, <2>1, <2>2, EmptyPages DEF Intact
<1>13. \A x \in MemProcs \ {p} : Same(x)
  BY <1>4 DEF Same, MemoryTypeOK
<1>14. LedgerInv' /\ LostPages' = LostPages
  <2>1. free' \cap Mine(p)' = {} /\ free' \cup Mine(p)' = free \cup Mine(p)
    BY <1>4, <1>5, <1>11
  <2> QED
    BY <1>12, <1>13, <2>1, OneMoves
<1>15. MemoryTypeOK'
  BY <1>4, <1>7, <1>8 DEF MemoryTypeOK, MemoryPoints, PlainPoints
<1>16. SlotInv'
  <2>1. kstack'[p] # 0 /\ img'[p].tables = {} /\ img'[p].pages = <<>>
    BY <1>4, <1>5, <1>8, <1>9
  <2> QED
    BY <1>1, <1>4, <1>13, <2>1, OneSlot
<1> QED
  BY <1>4, <1>14, <1>15, <1>16, NothingLostInv DEF NothingLost

\* The panic of shm_open freezes it; nothing is left to show.
LEMMA ShmAttachInv ==
  ASSUME Running, NEW p \in MemProcs, NEW id, ShmAttach(p, id)
  PROVE  MemoryInv'
<1>1. CASE free = {}
  <2>1. /\ UNCHANGED <<free, image, building, lost>>
        /\ mpc' = [mpc EXCEPT ![p] = "user"] /\ mpc[p] = "shmopen"
    BY <1>1 DEF ShmAttach, ShmRelease
  <2> QED
    BY <2>1, PointInv DEF PlainPoints
<1>2. CASE free # {}
  BY <1>2 DEF ShmAttach, MemoryInv, Sound
<1> QED
  BY <1>1, <1>2

LEMMA ShmCloseInv ==
  ASSUME Running, NEW p \in MemProcs, NEW id, ShmClose(p, id)
  PROVE  MemoryInv'
<1>1. CASE segs[id].refcnt # 1
  <2>1. /\ UNCHANGED <<free, image, building, lost>>
        /\ mpc' = [mpc EXCEPT ![p] = "user"] /\ mpc[p] = "shmclose"
    BY <1>1 DEF ShmClose, ShmRelease
  <2> QED
    BY <2>1, PointInv DEF PlainPoints
<1>2. CASE segs[id].refcnt = 1
  BY <1>2 DEF ShmClose, MemoryInv, Sound
<1> QED
  BY <1>1, <1>2

LEMMA LeastNat ==
  ASSUME NEW T, T \subseteq Nat, T # {}
  PROVE  \E x \in T : \A y \in T : x <= y
<1>1. PICK x \in T : \A y \in T : ~(<<y, x>> \in OpToRel(<, Nat))
  BY NatLessThanWellFounded, WFMin
<1>2. ASSUME NEW y \in T PROVE x <= y
  <2>1. ~(y < x)
    BY <1>1 DEF OpToRel
  <2> QED
    BY <2>1
<1> QED
  BY <1>2

-----------------------------------------------------------------------------
\* Whatever becomes of the lock, a fork has its child for itself.
PointsInv ==
  /\ mpc \in [MemProcs -> MemoryPoints] /\ kid \in [MemProcs -> MemProcs]
  /\ \A p \in MemProcs : mpc[p] = "fork" => mpc[kid[p]] = "embryo"
  /\ \A p, q \in MemProcs : mpc[p] = "fork" /\ mpc[q] = "fork" /\ kid[p] = kid[q] => p = q

\* One process goes from a point to another, neither of which is a fork's.
LEMMA PointStep ==
  ASSUME PointsInv, NEW p \in MemProcs, NEW v \in MemoryPoints \ {"fork"},
         mpc[p] \notin {"fork", "embryo"},
         mpc' = [mpc EXCEPT ![p] = v], UNCHANGED kid
  PROVE  PointsInv'
<1> USE DEF PointsInv
<1>1. mpc' \in [MemProcs -> MemoryPoints]
  OBVIOUS
<1>2. mpc'[p] = v /\ \A x \in MemProcs \ {p} : mpc'[x] = mpc[x]
  OBVIOUS
<1>3. \A x \in MemProcs : mpc'[x] = "fork" => mpc[x] = "fork" /\ kid[x] # p
  BY <1>2
<1>4. \A x \in MemProcs : mpc'[x] = "fork" => mpc'[kid[x]] = "embryo"
  BY <1>2, <1>3
<1> QED
  BY <1>1, <1>3, <1>4

LEMMA ShmPoints ==
  ASSUME NEW p \in MemProcs, ShmStep(p)
  PROVE  /\ mpc[p] \in (PlainPoints \cup {"shmmap"}) \ {"zombie"} /\ UNCHANGED kid
         /\ \/ UNCHANGED mpc
            \/ \E v \in PlainPoints \cup {"shmmap"} : mpc' = [mpc EXCEPT ![p] = v]
<1>1. CASE ShmTest(p)
  BY <1>1 DEF ShmTest, PlainPoints, building
<1>2. CASE ShmInitLock(p) \/ ShmInitAcquire(p)
  BY <1>2 DEF ShmInitLock, ShmInitAcquire, ShmAcquire, PlainPoints, building
<1>3. CASE ShmClear(p) \/ ShmReady(p)
  BY <1>3 DEF ShmClear, ShmRelease, ShmReady, PlainPoints, building
<1>4. CASE ShmEnter(p) \/ ShmCloseEnter(p)
  BY <1>4 DEF ShmEnter, ShmCloseEnter, ShmAcquire, PlainPoints, building
<1>5. CASE ShmRefuse(p) \/ ShmMap(p)
  BY <1>5 DEF ShmRefuse, ShmMap, ShmRelease, PlainPoints, building
<1>6. ASSUME NEW id \in 0..NSEG-1, ShmAttach(p, id)
      PROVE  /\ mpc[p] = "shmopen" /\ UNCHANGED kid
             /\ UNCHANGED mpc \/ mpc' = [mpc EXCEPT ![p] = "user"]
  BY <1>6 DEF ShmAttach, ShmRelease, building
<1>7. ASSUME NEW id \in 0..NSEG-1, ShmClaim(p, id)
      PROVE  /\ mpc[p] = "shmopen" /\ UNCHANGED kid
             /\ mpc' = [mpc EXCEPT ![p] = "shmmap"] \/ mpc' = [mpc EXCEPT ![p] = "user"]
  BY <1>7 DEF ShmClaim, ShmRelease
<1>8. ASSUME NEW id \in 0..NSEG-1, ShmClose(p, id)
      PROVE  /\ mpc[p] = "shmclose" /\ UNCHANGED kid
             /\ UNCHANGED mpc \/ mpc' = [mpc EXCEPT ![p] = "user"]
  BY <1>8 DEF ShmClose, ShmRelease, building
<1> QED
  BY <1>1, <1>2, <1>3, <1>4, <1>5, <1>6, <1>7, <1>8 DEF ShmStep, PlainPoints

LEMMA PointsNextInv ==
  ASSUME PointsInv, [MemoryNext]_memoryVars
  PROVE  PointsInv'
<1> USE DEF PointsInv
<1>1. CASE UNCHANGED memoryVars
  BY <1>1 DEF memoryVars, building
<1>2. CASE MemoryNext
  <2>1. PICK p \in MemProcs : MemoryStep(p)
    BY <1>2 DEF MemoryNext
  <2>2. CASE (\E n \in 1..2 : Grow(p, n)) \/ Shrink(p) \/ AddPage(p)
    BY <2>2 DEF Grow, Shrink, AddPage, building
  <2>3. ASSUME NEW q \in MemProcs, Fork(p, q) PROVE PointsInv'
    <3>1. /\ mpc[p] = "user" /\ mpc[q] = "unused" /\ p # q
          /\ kid' = [kid EXCEPT ![p] = q]
          /\ mpc' = [mpc EXCEPT ![p] = "fork", ![q] = "embryo"]
      BY <2>3 DEF Fork
    <3>2. /\ mpc'[p] = "fork" /\ mpc'[q] = "embryo" /\ kid'[p] = q
          /\ \A x \in MemProcs \ {p, q} : mpc'[x] = mpc[x] /\ kid'[x] = kid[x]
      BY <3>1
    <3>3. \A x \in MemProcs : mpc[x] = "fork" => kid[x] \notin {p, q} /\ x \notin {p, q}
      BY <3>1
    <3>4. mpc' \in [MemProcs -> MemoryPoints] /\ kid' \in [MemProcs -> MemProcs]
      BY <3>1 DEF MemoryPoints
    <3>5. \A x \in MemProcs : mpc'[x] = "fork" => x = p \/ (x \notin {p, q} /\ mpc[x] = "fork")
      BY <3>2
    <3>6. \A x \in MemProcs : mpc'[x] = "fork" => mpc'[kid'[x]] = "embryo"
      BY <3>2, <3>3, <3>5
    <3> QED
      BY <3>2, <3>3, <3>4, <3>5, <3>6
  <2>4. CASE (\E n \in 2..MaxPages : Exec(p, n)) \/ ExecDone(p) \/ (Abandon(p) /\ mpc[p] = "exec")
    <3>1. /\ mpc[p] \in {"user", "exec"}
          /\ mpc' = [mpc EXCEPT ![p] = "user"] \/ mpc' = [mpc EXCEPT ![p] = "exec"]
          /\ kid' = kid \/ kid' = [kid EXCEPT ![p] = p]
      BY <2>4 DEF Exec, ExecDone, Abandon
    <3>2. mpc' \in [MemProcs -> MemoryPoints] /\ kid' \in [MemProcs -> MemProcs]
      BY <3>1 DEF MemoryPoints, PlainPoints
    <3>3. /\ mpc'[p] \in {"user", "exec"}
          /\ \A x \in MemProcs \ {p} : mpc'[x] = mpc[x] /\ kid'[x] = kid[x]
      BY <3>1
    <3>4. \A x \in MemProcs : mpc'[x] = "fork" => x # p /\ mpc[x] = "fork" /\ kid[x] # p
      BY <3>1, <3>3
    <3>5. \A x \in MemProcs : mpc'[x] = "fork" => mpc'[kid'[x]] = "embryo"
      BY <3>3, <3>4
    <3> QED
      BY <3>2, <3>3, <3>4, <3>5
  <2>5. CASE ForkDone(p) \/ (Abandon(p) /\ mpc[p] = "fork")
    <3> DEFINE q == kid[p]
    <3>1. /\ mpc[p] = "fork" /\ kid' = [kid EXCEPT ![p] = p]
          /\ \/ mpc' = [mpc EXCEPT ![p] = "user", ![q] = "user"]
             \/ mpc' = [mpc EXCEPT ![p] = "user", ![q] = "unused"]
      BY <2>5 DEF ForkDone, Abandon
    <3>2. q \in MemProcs /\ mpc[q] = "embryo" /\ p # q
      BY <3>1
    <3> HIDE DEF q
    <3>3. mpc' \in [MemProcs -> MemoryPoints] /\ kid' \in [MemProcs -> MemProcs]
      BY <3>1 DEF MemoryPoints, PlainPoints
    <3>4. /\ mpc'[p] = "user" /\ mpc'[q] \in {"user", "unused"}
          /\ \A x \in MemProcs \ {p, q} : mpc'[x] = mpc[x] /\ kid'[x] = kid[x]
      BY <3>1, <3>2
    <3>5. \A x \in MemProcs : mpc'[x] = "fork" => x \notin {p, q} /\ mpc[x] = "fork"
      BY <3>4
    <3>6. \A x \in MemProcs : mpc'[x] = "fork" => kid[x] \notin {p, q}
      BY <3>1, <3>5 DEF q
    <3>7. \A x \in MemProcs : mpc'[x] = "fork" => mpc'[kid'[x]] = "embryo"
      BY <3>4, <3>5, <3>6
    <3> QED
      BY <3>3, <3>4, <3>5, <3>7
  <2>6. CASE Exit(p) \/ Reap(p)
    <3>1. /\ mpc[p] \in {"user", "zombie"} /\ UNCHANGED kid
          /\ mpc' = [mpc EXCEPT ![p] = "zombie"] \/ mpc' = [mpc EXCEPT ![p] = "unused"]
      BY <2>6 DEF Exit, Reap, building
    <3> QED
      BY <3>1, PointStep DEF MemoryPoints, PlainPoints
  <2>7. CASE ShmStep(p)
    <3>1. CASE UNCHANGED mpc
      BY <2>7, <3>1, ShmPoints
    <3>2. ASSUME NEW v \in PlainPoints \cup {"shmmap"}, mpc' = [mpc EXCEPT ![p] = v]
          PROVE  PointsInv'
      <4>1. v \in MemoryPoints \ {"fork"} /\ mpc[p] \notin {"fork", "embryo"} /\ UNCHANGED kid
        BY <2>7, ShmPoints DEF MemoryPoints, PlainPoints
      <4> QED
        BY <3>2, <4>1, PointStep
    <3> QED
      BY <2>7, <3>1, <3>2, ShmPoints
  <2>8. Abandon(p) => mpc[p] \in {"fork", "exec"}
    BY DEF Abandon
  <2> QED
    BY <2>1, <2>2, <2>3, <2>4, <2>5, <2>6, <2>7, <2>8 DEF MemoryStep
<1> QED
  BY <1>1, <1>2

\* A step of p leaves a call of another process on a segment alone.
LEMMA OthersStay ==
  ASSUME PointsInv, NEW p \in MemProcs, MemoryStep(p), NEW x \in MemProcs, x # p,
         mpc[x] \in ShmSection \/ mpc'[x] \in ShmSection
  PROVE  /\ mpc'[x] = mpc[x] /\ shmlock' \in {shmlock, 0, p}
         /\ img \in [MemProcs -> Images] => img'[x] = img[x]
         /\ slot \in [MemProcs -> Nat] => slot'[x] = slot[x]
<1> USE DEF PointsInv
<1>1. ShmSection \cap {"user", "zombie", "unused", "embryo", "fork", "exec"} = {}
  BY DEF ShmSection
<1>2. CASE (\E n \in 1..2 : Grow(p, n)) \/ Shrink(p) \/ Exit(p) \/ Reap(p)
  BY <1>2 DEF Grow, Shrink, Exit, Reap, building, shm
<1>3. ASSUME NEW q \in MemProcs, Fork(p, q)
      PROVE  /\ mpc'[x] = mpc[x] /\ UNCHANGED <<shmlock, slot>>
             /\ img \in [MemProcs -> Images] => img'[x] = img[x]
  <2>1. /\ mpc[q] = "unused" /\ mpc' = [mpc EXCEPT ![p] = "fork", ![q] = "embryo"]
        /\ UNCHANGED <<shmlock, slot>>
        /\ img \in [MemProcs -> Images] => img'[x] = img[x]
    BY <1>3 DEF Fork, shm
  <2>2. x # q
    BY <1>1, <2>1
  <2> QED
    BY <2>1, <2>2
<1>4. CASE (\E n \in 2..MaxPages : Exec(p, n)) \/ AddPage(p) \/ ExecDone(p)
  BY <1>4 DEF Exec, AddPage, ExecDone, shm
<1>5. CASE Abandon(p) \/ ForkDone(p)
  <2>1. /\ UNCHANGED <<shmlock, slot>>
        /\ img \in [MemProcs -> Images] => img'[x] = img[x]
        /\ \/ mpc' = [mpc EXCEPT ![p] = "user"]
           \/ mpc[p] = "fork" /\ \E v \in {"user", "unused"} : mpc' = [mpc EXCEPT ![p] = "user", ![kid[p]] = v]
    BY <1>5 DEF Abandon, ForkDone, shm
  <2>2. CASE mpc' = [mpc EXCEPT ![p] = "user"]
    BY <2>1, <2>2
  <2>3. ASSUME mpc[p] = "fork", NEW v \in {"user", "unused"}, mpc' = [mpc EXCEPT ![p] = "user", ![kid[p]] = v]
        PROVE  mpc'[x] = mpc[x]
    <3>1. mpc[kid[p]] = "embryo" /\ kid[p] \in MemProcs
      BY <2>3
    <3>2. x # kid[p]
      BY <1>1, <2>3, <3>1
    <3> QED
      BY <2>3, <3>2
  <2> QED
    BY <2>1, <2>2, <2>3
<1>6. CASE ShmStep(p)
  <2>1. mpc'[x] = mpc[x]
    BY <1>6, ShmPoints
  <2>2. CASE ShmTest(p) \/ ShmInitLock(p) \/ ShmInitAcquire(p) \/ ShmReady(p)
    BY <2>1, <2>2 DEF ShmTest, ShmInitLock, ShmInitAcquire, ShmAcquire, ShmReady, building, shm
  <2>3. CASE ShmClear(p) \/ ShmEnter(p) \/ ShmRefuse(p) \/ ShmCloseEnter(p)
    BY <2>1, <2>3 DEF ShmClear, ShmEnter, ShmRefuse, ShmCloseEnter, ShmRelease, ShmAcquire, building
  <2>4. CASE ShmMap(p)
    BY <2>1, <2>4 DEF ShmMap, ShmRelease
  <2>5. ASSUME NEW id \in 0..NSEG-1, ShmAttach(p, id) \/ ShmClose(p, id)
        PROVE  shmlock' \in {shmlock, 0} /\ UNCHANGED <<img, slot>>
    BY <2>5 DEF ShmAttach, ShmClose, ShmRelease, building
  <2>6. ASSUME NEW id \in 0..NSEG-1, ShmClaim(p, id)
        PROVE  /\ shmlock' \in {shmlock, 0}
               /\ img \in [MemProcs -> Images] => img'[x] = img[x]
               /\ slot \in [MemProcs -> Nat] => slot'[x] = slot[x]
    BY <2>6 DEF ShmClaim, ShmRelease
  <2> QED
    BY <1>6, <2>1, <2>2, <2>3, <2>4, <2>5, <2>6 DEF ShmStep
<1> QED
  BY <1>2, <1>3, <1>4, <1>5, <1>6 DEF MemoryStep

\* A call that has lost the lock can only panic.
LEMMA SoundBefore ==
  ASSUME MemoryCondition, PointsInv, MemoryNext, Sound'
  PROVE  Sound
<1> SUFFICES ASSUME NEW x \in MemProcs, mpc[x] \in ShmSection, shmlock # x PROVE FALSE
  BY DEF Sound, Doomed, MemoryNext
<1>1. PICK p \in MemProcs : MemoryStep(p)
  BY DEF MemoryNext
<1>2. CASE p # x
  <2>1. mpc'[x] = mpc[x] /\ shmlock' \in {shmlock, 0, p}
    BY <1>1, <1>2, OthersStay
  <2>2. x # 0
    BY DEF MemoryCondition
  <2> QED
    BY <1>2, <2>1, <2>2 DEF Sound, Doomed
<1>3. CASE p = x
  <2>1. ShmStep(x)
    BY <1>1, <1>3 DEF MemoryStep, ShmSection, Grow, Shrink, Fork, Exec, AddPage, Abandon, ForkDone,
                      ExecDone, Exit, Reap
  <2>2. CASE ShmClear(x) \/ ShmRefuse(x) \/ ShmMap(x)
    BY <2>2 DEF ShmClear, ShmRefuse, ShmMap, ShmRelease, Sound
  <2>3. ASSUME NEW id \in 0..NSEG-1, ShmAttach(x, id) \/ ShmClose(x, id) PROVE FALSE
    BY <2>3 DEF ShmAttach, ShmClose, ShmRelease, Sound
  <2>4. ASSUME NEW id \in 0..NSEG-1, ShmClaim(x, id) PROVE FALSE
    <3>1. mpanicked' \/ (mpc' = [mpc EXCEPT ![x] = "shmmap"] /\ UNCHANGED shmlock)
      BY <2>4 DEF ShmClaim, ShmRelease
    <3>2. mpc' = [mpc EXCEPT ![x] = "shmmap"] => mpc'[x] \in ShmSection
      BY DEF PointsInv, ShmSection
    <3> QED
      BY <3>1, <3>2 DEF Sound, Doomed
  <2> QED
    BY <2>1, <2>2, <2>3, <2>4
       DEF ShmStep, ShmSection, ShmTest, ShmInitLock, ShmInitAcquire, ShmReady, ShmEnter, ShmCloseEnter
<1> QED
  BY <1>2, <1>3

LEMMA SegsUpdate ==
  ASSUME SegsType, slot' \in [MemProcs -> Nat], NEW i, NEW r,
         i \in 0..NSEG-1 => r \in Segments, segs' = [segs EXCEPT ![i] = r]
  PROVE  SegsType'
BY DEF SegsType

\* The claimed slot keeps naming the page: only the holder of the lock writes to
\* the table.
LEMMA ClaimNextInv ==
  ASSUME Running, PointsInv, NEW p \in MemProcs, MemoryStep(p)
  PROVE  ClaimInv'
<1>1. /\ SegsType /\ img \in [MemProcs -> Images] /\ mpc \in [MemProcs -> MemoryPoints]
      /\ \A x \in MemProcs : Claim(x)
      /\ \A x \in MemProcs : mpc[x] \in ShmSection => shmlock = x
  BY DEF Running, ClaimInv, MemoryTypeOK, Sound, Doomed
<1>2. \A x \in MemProcs \ {p} : mpc'[x] = "shmmap" =>
        mpc[x] = "shmmap" /\ img'[x] = img[x] /\ slot'[x] = slot[x]
  BY <1>1, OthersStay DEF ShmSection, SegsType
<1>3. ASSUME UNCHANGED segs, slot' \in [MemProcs -> Nat], mpc'[p] # "shmmap"
      PROVE  ClaimInv'
  <2>1. SegsType'
    BY <1>1, <1>3 DEF SegsType
  <2>2. \A x \in MemProcs : Claim(x)'
    BY <1>1, <1>2, <1>3 DEF Claim
  <2> QED
    BY <2>1, <2>2 DEF ClaimInv
<1>4. ASSUME mpc[p] \in ShmSection, SegsType', Claim(p)'
      PROVE  ClaimInv'
  <2>1. \A x \in MemProcs \ {p} : mpc'[x] # "shmmap"
    BY <1>1, <1>2, <1>4 DEF ShmSection
  <2>2. \A x \in MemProcs : Claim(x)'
    BY <1>4, <2>1 DEF Claim
  <2> QED
    BY <1>4, <2>2 DEF ClaimInv
<1>5. CASE ~ShmStep(p)
  <2>1. UNCHANGED <<segs, slot>>
    BY <1>5 DEF MemoryStep, shm, Grow, Shrink, Fork, Exec, AddPage, Abandon, ForkDone, ExecDone, Exit, Reap
  <2>2. mpc'[p] # "shmmap"
    <3>1. CASE (\E n \in 1..2 : Grow(p, n)) \/ Shrink(p) \/ AddPage(p)
      BY <3>1 DEF Grow, Shrink, AddPage
    <3>2. ASSUME NEW q \in MemProcs, Fork(p, q) PROVE mpc'[p] # "shmmap"
      BY <1>1, <3>2 DEF Fork
    <3>3. CASE (\E n \in 2..MaxPages : Exec(p, n)) \/ ExecDone(p) \/ Exit(p) \/ Reap(p)
      BY <1>1, <3>3 DEF Exec, ExecDone, Exit, Reap
    <3>4. CASE Abandon(p) \/ ForkDone(p)
      BY <1>1, <3>4 DEF Abandon, ForkDone
    <3> QED
      BY <1>5, <3>1, <3>2, <3>3, <3>4 DEF MemoryStep
  <2> QED
    BY <1>1, <1>3, <2>1, <2>2 DEF SegsType
<1>6. CASE ShmTest(p) \/ ShmInitLock(p) \/ ShmInitAcquire(p) \/ ShmReady(p)
  <2>1. UNCHANGED <<segs, slot>> /\ mpc'[p] # "shmmap"
    BY <1>1, <1>6 DEF ShmTest, ShmInitLock, ShmInitAcquire, ShmAcquire, ShmReady, shm
  <2> QED
    BY <1>1, <1>3, <2>1 DEF SegsType
<1>7. CASE ShmEnter(p) \/ ShmRefuse(p) \/ ShmCloseEnter(p)
  <2>1. UNCHANGED <<segs, slot>> /\ mpc'[p] # "shmmap"
    BY <1>1, <1>7 DEF ShmEnter, ShmRefuse, ShmCloseEnter, ShmAcquire, ShmRelease
  <2> QED
    BY <1>1, <1>3, <2>1 DEF SegsType
<1>8. CASE ShmClear(p)
  <2>1. SegsType'
    BY <1>1, <1>8 DEF ShmClear, SegsType, Segments, EmptySeg, Running, MemoryCondition
  <2>2. mpc[p] \in ShmSection /\ mpc'[p] # "shmmap"
    BY <1>1, <1>8 DEF ShmClear, ShmRelease, ShmSection
  <2> QED
    BY <1>4, <2>1, <2>2 DEF Claim
<1>9. CASE ShmMap(p)
  <2> DEFINE i == slot[p]
             r == [segs[i] EXCEPT !.refcnt = 1]
  <2>1. SegsType'
    <3>1. CASE UNCHANGED segs
      BY <1>1, <1>9, <3>1 DEF ShmMap, SegsType
    <3>2. CASE segs' = [segs EXCEPT ![i] = r]
      <4>1. i \in 0..NSEG-1 => r \in Segments
        BY <1>1 DEF SegsType, Segments
      <4>2. slot' \in [MemProcs -> Nat]
        BY <1>1, <1>9 DEF ShmMap, SegsType
      <4> HIDE DEF i, r
      <4> QED
        BY <1>1, <3>2, <4>1, <4>2, SegsUpdate
    <3> QED
      BY <1>9, <3>1, <3>2 DEF ShmMap
  <2>2. mpc[p] \in ShmSection /\ mpc'[p] # "shmmap"
    BY <1>1, <1>9 DEF ShmMap, ShmRelease, ShmSection
  <2> QED
    BY <1>4, <2>1, <2>2 DEF Claim
<1>10. ASSUME NEW id \in 0..NSEG-1, ShmAttach(p, id) PROVE ClaimInv'
  <2>1. UNCHANGED <<segs, slot>> /\ mpc'[p] # "shmmap"
    BY <1>1, <1>10 DEF ShmAttach, ShmRelease
  <2> QED
    BY <1>1, <1>3, <2>1 DEF SegsType
<1>11. ASSUME NEW id \in 0..NSEG-1, ShmClose(p, id) PROVE ClaimInv'
  <2> DEFINE r == [segs[id] EXCEPT !.refcnt = @ - 1]
  <2>1. SegsType'
    <3>1. r \in Segments /\ EmptySeg \in Segments
      <4>1. EmptySeg \in Segments
        BY DEF Segments, EmptySeg, Running, MemoryCondition
      <4>2. segs[id] \in Segments
        BY <1>1 DEF SegsType
      <4>3. r \in Segments
        BY <4>2 DEF Segments
      <4> QED
        BY <4>1, <4>3
    <3>2. segs' = [segs EXCEPT ![id] = r] \/ segs' = [segs EXCEPT ![id] = EmptySeg]
      BY <1>11 DEF ShmClose
    <3>3. slot' \in [MemProcs -> Nat]
      BY <1>1, <1>11 DEF ShmClose, SegsType
    <3> HIDE DEF r
    <3> QED
      BY <1>1, <3>1, <3>2, <3>3, SegsUpdate
  <2>2. mpc[p] \in ShmSection /\ mpc'[p] # "shmmap"
    BY <1>1, <1>11 DEF ShmClose, ShmRelease, ShmSection
  <2> QED
    BY <1>4, <2>1, <2>2 DEF Claim
<1>12. ASSUME NEW id \in 0..NSEG-1, ShmClaim(p, id) PROVE ClaimInv'
  <2> DEFINE T == {j \in 0..NSEG-1 : segs[j].id = 0}
             i == slot'[p]
  <2>1. /\ mpc[p] = "shmopen" /\ segs[id].id = 0
        /\ slot' = [slot EXCEPT ![p] =
             CHOOSE j \in 0..NSEG-1 : segs[j].id = 0 /\ \A k \in 0..j-1 : segs[k].id # 0]
    BY <1>12 DEF ShmClaim
  <2>2. i \in 0..NSEG-1 /\ slot' \in [MemProcs -> Nat]
    <3>1. PICK j \in T : \A y \in T : j <= y
      <4>1. T \subseteq Nat /\ T # {}
        BY <2>1
      <4> HIDE DEF T
      <4> QED
        BY <4>1, LeastNat
    <3>2. j \in 0..NSEG-1 /\ segs[j].id = 0 /\ \A k \in 0..j-1 : segs[k].id # 0
      BY <3>1 DEF Running, MemoryCondition
    <3> DEFINE P(k) == segs[k].id = 0 /\ \A y \in 0..k-1 : segs[y].id # 0
               c == CHOOSE k \in 0..NSEG-1 : P(k)
    <3>3. c \in 0..NSEG-1
      <4>1. \E k \in 0..NSEG-1 : P(k)
        BY <3>2
      <4> HIDE DEF P
      <4> QED
        BY <4>1
    <3>4. slot' = [slot EXCEPT ![p] = c]
      BY <2>1
    <3> HIDE DEF c
    <3> QED
      BY <1>1, <3>3, <3>4 DEF SegsType
  <2> HIDE DEF i
  <2>3. CASE free = {}
    <3>1. mpc'[p] # "shmmap" /\ segs' = [segs EXCEPT ![i].id = id, ![i].frame = 0]
      BY <1>1, <1>12, <2>3 DEF ShmClaim, ShmRelease, i
    <3>2. SegsType'
      <4> DEFINE r == [segs[i] EXCEPT !.id = id, !.frame = 0]
      <4>1. segs' = [segs EXCEPT ![i] = r]
        BY <1>1, <2>2, <3>1 DEF SegsType
      <4>2. segs[i] \in Segments /\ 0 \in 0..NFRAMES
        BY <1>1, <2>2 DEF SegsType, Running, MemoryCondition
      <4>3. r \in Segments
        BY <4>2 DEF Segments
      <4> HIDE DEF r
      <4> QED
        BY <1>1, <2>2, <4>1, <4>3, SegsUpdate
    <3> QED
      BY <1>4, <2>1, <3>1, <3>2 DEF Claim, ShmSection
  <2>4. CASE free # {}
    <3> DEFINE a == Kalloc(1)[1]
    <3>1. a \in 0..NFRAMES /\ Kalloc(1) = <<a>>
      <4>1. Cardinality(free) >= 1
        BY <2>4, FreeCount
      <4>2. a \in free
        BY <4>1, KallocGives DEF Running, MemoryCondition, MemoryTypeOK
      <4>3. Kalloc(1) = <<a>>
        BY DEF Kalloc
      <4> HIDE DEF a
      <4>4. a \in 0..NFRAMES
        BY <4>2 DEF Running, MemoryTypeOK, Frames
      <4> QED
        BY <4>3, <4>4
    <3>2. /\ segs' = [segs EXCEPT ![i].id = id, ![i].frame = a]
          /\ img' = [img EXCEPT ![p].pages = Kalloc(1)]
      BY <1>12, <2>4 DEF ShmClaim, i
    <3> HIDE DEF a
    <3>3. SegsType' /\ segs'[i].frame = a
      <4> DEFINE r == [segs[i] EXCEPT !.id = id, !.frame = a]
      <4>1. segs' = [segs EXCEPT ![i] = r]
        BY <1>1, <2>2, <3>2 DEF SegsType
      <4>0. segs[i] \in Segments
        BY <1>1, <2>2 DEF SegsType
      <4>2. r \in Segments /\ r.frame = a
        BY <3>1, <4>0 DEF Segments
      <4> HIDE DEF r
      <4>3. segs'[i] = r
        BY <1>1, <2>2, <4>1 DEF SegsType
      <4> QED
        BY <1>1, <2>2, <4>1, <4>2, <4>3, SegsUpdate
    <3>4. img'[p].pages = <<a>> /\ img'[p].tables = img[p].tables
      BY <1>1, <3>1, <3>2 DEF Images
    <3>5. img[p].tables = {}
      BY <2>1 DEF Running, SlotInv
    <3>6. Claim(p)'
      BY <2>2, <3>3, <3>4, <3>5 DEF Claim, i
    <3> QED
      BY <1>4, <2>1, <3>3, <3>6 DEF ShmSection
  <2> QED
    BY <2>3, <2>4
<1> QED
  BY <1>5, <1>6, <1>7, <1>8, <1>9, <1>10, <1>11, <1>12 DEF ShmStep

LEMMA MemoryInitInv ==
  ASSUME MemoryCondition, MemoryInit
  PROVE  MemoryInv /\ ClaimInv /\ PointsInv
<1>1. MemoryTypeOK
  <2>1. free \in SUBSET Frames
    BY DEF MemoryInit, Frames, MemoryCondition
  <2>2. NoImage \in Images
    BY DEF NoImage, Images
  <2>3. tables \in [MemProcs -> SUBSET Frames] /\ pages \in [MemProcs -> Seq(Frames)]
    <3>1. {2, 3} \in SUBSET Frames /\ {4, 5, 6} \subseteq Frames
      BY DEF Frames, MemoryCondition
    <3>2. <<4, 5, 6>> \in Seq(Frames) /\ <<>> \in Seq(Frames)
      BY <3>1
    <3> QED
      BY <3>1, <3>2 DEF MemoryInit
  <2>4. kstack \in [MemProcs -> 0..NFRAMES] /\ mpc \in [MemProcs -> MemoryPoints]
    BY DEF MemoryInit, MemoryPoints, PlainPoints, MemoryCondition
  <2>5. img \in [MemProcs -> Images] /\ kid \in [MemProcs -> MemProcs]
    BY <2>2 DEF MemoryInit
  <2> QED
    BY <2>1, <2>3, <2>4, <2>5 DEF MemoryTypeOK
<1>2. \A p \in MemProcs : img[p].tables = {} /\ img[p].pages = <<>>
  BY DEF MemoryInit, NoImage
<1>3. SlotInv
  BY <1>2 DEF MemoryInit, SlotInv
<1>4. /\ \A p \in MemProcs \ {Initproc} : Stack(p) = {} /\ Space(p) = {} /\ tables[p] = {} /\ pages[p] = <<>>
      /\ Stack(Initproc) = {1} /\ Space(Initproc) = 2..6
      /\ tables[Initproc] = {2, 3} /\ pages[Initproc] = <<4, 5, 6>> /\ ToSet(<<4, 5, 6>>) = {4, 5, 6} /\ Distinct(<<4, 5, 6>>)
  <2>1. ToSet(<<4, 5, 6>>) = {4, 5, 6} /\ Distinct(<<4, 5, 6>>)
    BY DEF ToSet, Distinct
  <2>2. tables[Initproc] = {2, 3} /\ pages[Initproc] = <<4, 5, 6>> /\ kstack[Initproc] = 1
    BY DEF MemoryInit, MemoryCondition
  <2>3. \A p \in MemProcs \ {Initproc} : tables[p] = {} /\ pages[p] = <<>> /\ kstack[p] = 0
    BY DEF MemoryInit
  <2>4. \A p \in MemProcs \ {Initproc} : Stack(p) = {} /\ Space(p) = {}
    BY <2>3, EmptyPages DEF Stack, Space
  <2>5. Stack(Initproc) = {1} /\ Space(Initproc) = 2..6
    BY <2>1, <2>2 DEF Stack, Space
  <2> QED
    BY <2>1, <2>2, <2>3, <2>4, <2>5
<1>5. /\ \A p \in MemProcs \ {Initproc} : Mine(p) = {} /\ Intact(p)
      /\ Mine(Initproc) = 1..6 /\ Intact(Initproc)
  <2>1. \A p \in MemProcs : ImageFrames(img[p]) = {}
    BY <1>2, EmptyPages DEF ImageFrames
  <2>2. Mine(Initproc) = 1..6 /\ Intact(Initproc)
    <3>1. Initproc \in MemProcs /\ ImageFrames(img[Initproc]) = {}
      BY <2>1 DEF MemoryCondition
    <3>2. Mine(Initproc) = 1..6
      BY <1>4, <3>1 DEF Mine
    <3>3. Stack(Initproc) \cap Space(Initproc) = {} /\ tables[Initproc] \cap ToSet(pages[Initproc]) = {}
      BY <1>4
    <3>4. img[Initproc].tables = {} /\ Distinct(pages[Initproc]) /\ Distinct(img[Initproc].pages)
      BY <1>2, <1>4, <3>1, EmptyPages
    <3>5. Intact(Initproc)
      BY <3>1, <3>3, <3>4 DEF Intact
    <3> QED
      BY <3>2, <3>5
  <2>3. \A p \in MemProcs \ {Initproc} : Mine(p) = {} /\ Intact(p)
    BY <1>2, <1>4, <2>1, EmptyPages DEF Mine, Intact
  <2> QED
    BY <2>2, <2>3
<1>6. LedgerInv
  BY <1>5 DEF LedgerInv, MemoryInit, MemoryCondition
<1>7. LostPages = {}
  BY <1>5 DEF LostPages, MemoryInit, MemoryCondition, Frames
<1>8. SegsType /\ \A p \in MemProcs : mpc[p] # "shmmap" /\ mpc[p] # "fork"
  BY DEF SegsType, Segments, MemoryInit, EmptySeg, MemoryCondition
<1>9. ClaimInv /\ PointsInv
  BY <1>1, <1>8 DEF ClaimInv, Claim, PointsInv, MemoryTypeOK
<1> QED
  BY <1>1, <1>3, <1>6, <1>7, <1>9, FS_EmptySet DEF MemoryInv, MemoryInit

LEMMA MemoryStepInv ==
  ASSUME Running, NEW p \in MemProcs, MemoryStep(p)
  PROVE  MemoryInv'
<1>1. CASE (\E n \in 1..2 : Grow(p, n)) \/ Shrink(p)
  BY <1>1, GrowInv, ShrinkInv
<1>2. CASE \E q \in MemProcs : Fork(p, q)
  BY <1>2, ForkInv
<1>3. CASE \E n \in 2..MaxPages : Exec(p, n)
  BY <1>3, ExecInv
<1>4. CASE AddPage(p)
  BY <1>4, AddPageInv
<1>5. CASE Abandon(p)
  <2>1. mpc[p] \in {"fork", "exec"} /\ kid[p] \in MemProcs
    BY <1>5 DEF Abandon, Running, MemoryTypeOK
  <2> QED
    BY <1>5, <2>1, AbandonForkInv, AbandonExecInv
<1>6. CASE ForkDone(p)
  <2>1. kid[p] \in MemProcs
    BY DEF Running, MemoryTypeOK
  <2> QED
    BY <1>6, <2>1, ForkDoneInv
<1>7. CASE ExecDone(p)
  BY <1>7, ExecDoneInv
<1>8. CASE Exit(p)
  BY <1>8, PointInv DEF Exit, PlainPoints
<1>9. CASE Reap(p)
  BY <1>9, ReapInv
<1>10. CASE ShmTest(p) \/ ShmInitLock(p) \/ ShmReady(p)
  <2>1. /\ UNCHANGED <<free, image, building, lost>> /\ mpc[p] \in PlainPoints
        /\ \E v \in PlainPoints : mpc' = [mpc EXCEPT ![p] = v]
    BY <1>10 DEF ShmTest, ShmInitLock, ShmReady, PlainPoints
  <2> QED
    BY <2>1, PointInv
<1>11. CASE ShmInitAcquire(p) \/ ShmEnter(p) \/ ShmCloseEnter(p) \/ ShmClear(p) \/ ShmRefuse(p)
  <2>1. /\ UNCHANGED <<free, image, building, lost>> /\ mpc[p] \in PlainPoints
        /\ \E v \in PlainPoints : mpc' = [mpc EXCEPT ![p] = v]
    BY <1>11 DEF ShmInitAcquire, ShmEnter, ShmCloseEnter, ShmClear, ShmRefuse, ShmAcquire, ShmRelease, PlainPoints
  <2> QED
    BY <2>1, PointInv
<1>12. CASE ShmMap(p)
  BY <1>12, ShmMapInv
<1>13. CASE \E id \in 0..NSEG-1 : ShmAttach(p, id) \/ ShmClaim(p, id) \/ ShmClose(p, id)
  BY <1>13, ShmAttachInv, ShmClaimInv, ShmCloseInv
<1> QED
  BY <1>1, <1>2, <1>3, <1>4, <1>5, <1>6, <1>7, <1>8, <1>9, <1>10, <1>11, <1>12, <1>13
     DEF MemoryStep, ShmStep

LEMMA MemoryNextInv ==
  ASSUME MemoryCondition, MemoryInv, ClaimInv, PointsInv, [MemoryNext]_memoryVars
  PROVE  MemoryInv' /\ ClaimInv'
<1>1. CASE UNCHANGED memoryVars
  <2>1. UNCHANGED <<free, mpc, image, img, kid, segs, slot, shmlock, closed, lost, mpanicked>>
    BY <1>1 DEF memoryVars, building, shm
  <2>2. \A x \in MemProcs : Same(x)
    BY <2>1 DEF image, Same
  <2>3. \A x \in MemProcs : Mine(x)' = Mine(x) /\ (Intact(x)' <=> Intact(x))
    BY <2>2, SameAccount
  <2>4. LedgerInv' <=> LedgerInv
    BY <2>1, <2>3 DEF LedgerInv
  <2>5. LostPages' = LostPages
    BY <2>1, <2>3 DEF LostPages, Frames
  <2>6. (MemoryTypeOK' <=> MemoryTypeOK) /\ (SlotInv' <=> SlotInv)
    BY <2>1 DEF image, MemoryTypeOK, SlotInv
  <2>7. (Sound' <=> Sound) /\ (SegsType' <=> SegsType) /\ \A x \in MemProcs : Claim(x)' <=> Claim(x)
    BY <2>1 DEF Sound, Doomed, SegsType, Claim
  <2> QED
    BY <2>1, <2>4, <2>5, <2>6, <2>7 DEF MemoryInv, ClaimInv
<1>2. CASE MemoryNext
  <2> SUFFICES ASSUME Sound' PROVE MemoryInv' /\ ClaimInv'
    BY DEF MemoryInv, ClaimInv
  <2>1. Running
    BY <1>2, SoundBefore DEF MemoryInv, Running
  <2>2. PICK p \in MemProcs : MemoryStep(p)
    BY <1>2 DEF MemoryNext
  <2>3. MemoryInv'
    BY <2>1, <2>2, MemoryStepInv
  <2>4. ClaimInv'
    BY <2>1, <2>2, ClaimNextInv
  <2> QED
    BY <2>3, <2>4
<1> QED
  BY <1>1, <1>2

-----------------------------------------------------------------------------
\* How a process can use a page.
UsedAt(p, f, x) ==
  \/ x = <<p, "kstack", 0>> /\ kstack[p] = f
  \/ x = <<p, "table", 0>> /\ f \in tables[p] \cup img[p].tables
  \/ \E i \in 1..Len(pages[p]) : x = <<p, "page", i>> /\ pages[p][i] = f
  \/ \E i \in 1..Len(img[p].pages) : x = <<p, "new", i>> /\ img[p].pages[i] = f

LEMMA PlacesAre ==
  ASSUME NEW f
  PROVE  \A x : x \in Places(f) <=> \E p \in MemProcs : UsedAt(p, f, x)
<1> DEFINE K == {<<p, "kstack", 0>> : p \in {q \in MemProcs : kstack[q] = f}}
           T == {<<p, "table", 0>> : p \in {q \in MemProcs : f \in tables[q] \cup img[q].tables}}
           G(p) == {<<p, "page", i>> : i \in {j \in 1..Len(pages[p]) : pages[p][j] = f}}
           N(p) == {<<p, "new", i>> : i \in {j \in 1..Len(img[p].pages) : img[p].pages[j] = f}}
<1> TAKE x
<1>1. x \in K <=> \E p \in MemProcs : x = <<p, "kstack", 0>> /\ kstack[p] = f
  OBVIOUS
<1>2. x \in T <=> \E p \in MemProcs : x = <<p, "table", 0>> /\ f \in tables[p] \cup img[p].tables
  OBVIOUS
<1>3. \A p : x \in G(p) <=> \E i \in 1..Len(pages[p]) : x = <<p, "page", i>> /\ pages[p][i] = f
  OBVIOUS
<1>4. \A p : x \in N(p) <=> \E i \in 1..Len(img[p].pages) : x = <<p, "new", i>> /\ img[p].pages[i] = f
  OBVIOUS
<1>5. x \in Places(f) <=> x \in K \/ x \in T \/ (\E p \in MemProcs : x \in G(p)) \/ (\E p \in MemProcs : x \in N(p))
  <2>1. Places(f) = K \cup T \cup (UNION {G(p) : p \in MemProcs}) \cup (UNION {N(p) : p \in MemProcs})
    BY Zenon DEF Places
  <2> HIDE DEF K, T, G, N
  <2> QED
    BY <2>1, Zenon
<1> HIDE DEF K, T, G, N
<1> QED
  BY <1>1, <1>2, <1>3, <1>4, <1>5 DEF UsedAt

LEMMA OwnPlaces ==
  ASSUME MemoryTypeOK, NEW p \in MemProcs, Intact(p), NEW f \in Frames
  PROVE  /\ f \in Mine(p) <=> \E x : UsedAt(p, f, x)
         /\ \A x, y : UsedAt(p, f, x) /\ UsedAt(p, f, y) => x = y
<1>1. /\ pages[p] \in Seq(Frames) /\ img[p].pages \in Seq(Frames)
  BY DEF MemoryTypeOK, Images
<1>2. /\ f \in ToSet(pages[p]) <=> \E i \in 1..Len(pages[p]) : pages[p][i] = f
      /\ f \in ToSet(img[p].pages) <=> \E i \in 1..Len(img[p].pages) : img[p].pages[i] = f
  BY <1>1, ToSetIs
<1>3. f \in Stack(p) <=> kstack[p] = f
  BY DEF Stack, Frames
<1>4. f \in Mine(p) <=>
        \/ kstack[p] = f \/ f \in tables[p] \cup img[p].tables
        \/ \E i \in 1..Len(pages[p]) : pages[p][i] = f
        \/ \E i \in 1..Len(img[p].pages) : img[p].pages[i] = f
  BY <1>2, <1>3 DEF Mine, Space, ImageFrames
<1>5. f \in Mine(p) => \E x : UsedAt(p, f, x)
  BY <1>4 DEF UsedAt
<1>6. (\E x : UsedAt(p, f, x)) => f \in Mine(p)
  BY <1>4 DEF UsedAt
<1>7. ASSUME NEW x, NEW y, UsedAt(p, f, x), UsedAt(p, f, y)
      PROVE  x = y
  <2>1. /\ kstack[p] = f => f \notin tables[p] \cup img[p].tables /\ f \notin ToSet(pages[p]) /\ f \notin ToSet(img[p].pages)
        /\ f \in tables[p] \cup img[p].tables => f \notin ToSet(pages[p]) /\ f \notin ToSet(img[p].pages)
        /\ f \in ToSet(pages[p]) => f \notin ToSet(img[p].pages)
    BY <1>3 DEF Intact, Space, ImageFrames
  <2>2. /\ \A i, j \in 1..Len(pages[p]) : pages[p][i] = pages[p][j] => i = j
        /\ \A i, j \in 1..Len(img[p].pages) : img[p].pages[i] = img[p].pages[j] => i = j
    BY DEF Intact, Distinct
  <2>3. CASE kstack[p] = f
    BY <1>2, <1>7, <2>1, <2>3 DEF UsedAt
  <2>4. CASE f \in tables[p] \cup img[p].tables
    BY <1>2, <1>7, <2>1, <2>4 DEF UsedAt
  <2>5. CASE f \in ToSet(pages[p])
    BY <1>2, <1>7, <2>1, <2>2, <2>5 DEF UsedAt
  <2>6. CASE f \in ToSet(img[p].pages)
    BY <1>2, <1>7, <2>1, <2>2, <2>6 DEF UsedAt
  <2> QED
    BY <1>2, <1>7, <2>3, <2>4, <2>5, <2>6 DEF UsedAt
<1> QED
  BY <1>5, <1>6, <1>7

LEMMA PagesAreAccounted ==
  ASSUME MemoryCondition, MemoryInv
  PROVE  PagesAccounted
<1> SUFFICES ASSUME Sound PROVE OneOwner /\ NoLeak
  BY DEF PagesAccounted, Sound
<1>1. MemoryTypeOK /\ LedgerInv /\ Cardinality(LostPages) = lost
  BY DEF MemoryInv
<1>2. \A f \in Frames : Places(f) = {} <=> \A p \in MemProcs : f \notin Mine(p)
  <2> TAKE f \in Frames
  <2>1. \A p \in MemProcs : f \in Mine(p) <=> \E x : UsedAt(p, f, x)
    BY <1>1, OwnPlaces DEF LedgerInv
  <2>2. Places(f) = {} <=> \A x : ~ \E p \in MemProcs : UsedAt(p, f, x)
    BY PlacesAre
  <2> QED
    BY <2>1, <2>2
<1>3. OneOwner
  <2> SUFFICES ASSUME NEW f \in Frames
               PROVE  Cardinality(Places(f)) + (IF f \in free THEN 1 ELSE 0) <= 1
    BY DEF OneOwner
  <2>1. CASE Places(f) = {}
    BY <2>1, FS_EmptySet
  <2>2. CASE Places(f) # {}
    <3>1. f \notin free
      BY <1>1, <1>2, <2>2 DEF LedgerInv
    <3>2. PICK x : x \in Places(f)
      BY <2>2
    <3>3. PICK p \in MemProcs : UsedAt(p, f, x)
      BY <3>2, PlacesAre
    <3>4. ASSUME NEW y \in Places(f) PROVE y = x
      <4>1. PICK q \in MemProcs : UsedAt(q, f, y)
        BY <3>4, PlacesAre
      <4>2. f \in Mine(p) /\ f \in Mine(q)
        BY <1>1, <3>3, <4>1, OwnPlaces DEF LedgerInv
      <4>3. p = q
        BY <1>1, <4>2 DEF LedgerInv
      <4> QED
        BY <1>1, <3>3, <4>1, <4>3, OwnPlaces DEF LedgerInv
    <3>5. Places(f) = {x}
      BY <3>2, <3>4
    <3>6. Cardinality(Places(f)) = 1
      BY <3>5, FS_Singleton
    <3> QED
      BY <3>1, <3>6
  <2> QED
    BY <2>1, <2>2
<1>4. NoLeak
  <2>1. {f \in Frames : f \notin free /\ Places(f) = {}} = LostPages
    BY <1>2 DEF LostPages
  <2> QED
    BY <1>1, <2>1 DEF NoLeak
<1> QED
  BY <1>3, <1>4

\* For any number of processes, pages and segments: through every failure of
\* sbrk, fork and exec a page is on the free list or has one owner, and the
\* pages that have neither are those the failing forks of OS-Lab-5 dropped;
\* until the first shm_close that frees a segment, or until a second shminit takes
\* the lock from a running call, whose only way out is a panic (SoundBefore).
THEOREM EveryPageAccounted == MemorySpec => []PagesAccounted
<1> DEFINE IInv == MemoryInv /\ ClaimInv /\ PointsInv
<1>1. MemoryInit => IInv
  BY MemoryAssumption, MemoryInitInv
<1>2. IInv /\ [MemoryNext]_memoryVars => IInv'
  BY MemoryAssumption, MemoryNextInv, PointsNextInv
<1>3. IInv => PagesAccounted
  BY MemoryAssumption, PagesAreAccounted
<1> QED
  BY <1>1, <1>2, <1>3, PTL DEF MemorySpec

-----------------------------------------------------------------------------
\* The allocator's free list, headers below N: each leads to the next one above it,
\* the last one to base.
After(N, a, c) ==
  /\ c \in N
  /\ IF c > a THEN \A d \in N : ~(a < d /\ d < c) ELSE c = 0 /\ \A d \in N : d <= a

\* A list in order: the blocks do not reach one another, and only base is empty.
Ordered(l) == LET N == Nodes(l) IN
  /\ IsFiniteSet(N) /\ N \subseteq Nat /\ 0 \in N
  /\ l \in [ptr : [N -> N], size : [N -> Nat], freep : N]
  /\ \A a \in N : l.size[a] = 0 <=> a = 0
  /\ \A a \in N : After(N, a, l.ptr[a])
  /\ \A a, c \in N : a < c => a + l.size[a] < c

\* The units of the free blocks, and of a block.
InFree(l, u) == \E a \in Nodes(l) : a <= u /\ u < a + l.size[a]
InBlock(b, u) == b.at <= u /\ u < b.at + b.size

LEMMA MinIs ==
  ASSUME NEW T, T \subseteq Nat, T # {}
  PROVE  Min(T) \in T /\ \A y \in T : Min(T) <= y
BY LeastNat DEF Min

\* The walk along the list that Node takes.
Walk(l, k, g) == g = [i \in 0..k |-> IF i = 0 THEN l.freep ELSE l.ptr[g[i-1]]]

LEMMA WalkExists == ASSUME NEW l PROVE \A k \in Nat : \E g : Walk(l, k, g)
<1> DEFINE B == {k \in Nat : ~\E g : Walk(l, k, g)}
<1> SUFFICES ASSUME B # {} PROVE FALSE
  BY DEF B
<1>1. PICK k \in B : \A j \in B : k <= j
  BY LeastNat
<1>2. CASE k = 0
  <2> DEFINE g == [i \in 0..k |-> l.freep]
  <2>1. Walk(l, k, g)
    BY <1>2 DEF Walk
  <2> QED
    BY <2>1
<1>3. CASE k # 0
  <2>1. k - 1 \in Nat /\ k - 1 \notin B
    BY <1>1, <1>3
  <2>2. PICK h : Walk(l, k - 1, h)
    BY <2>1
  <2> DEFINE g == [i \in 0..k |-> IF i = k THEN l.ptr[h[k-1]] ELSE h[i]]
  <2>3. ASSUME NEW i \in 0..k PROVE g[i] = IF i = 0 THEN l.freep ELSE l.ptr[g[i-1]]
    <3>1. CASE i = k
      BY <1>3, <2>1, <3>1
    <3>2. CASE i # k
      <4>1. i \in 0..k-1 /\ h[i] = IF i = 0 THEN l.freep ELSE l.ptr[h[i-1]]
        BY <2>1, <2>2, <3>2 DEF Walk
      <4>2. i # 0 => i - 1 \in 0..k /\ i - 1 # k
        BY <2>1, <3>2
      <4> QED
        BY <3>2, <4>1, <4>2
    <3> QED
      BY <3>1, <3>2
  <2>4. Walk(l, k, g)
    BY <2>3 DEF Walk
  <2> QED
    BY <2>4
<1> QED
  BY <1>2, <1>3

LEMMA WalkUnique ==
  ASSUME NEW l, NEW j \in Nat, NEW k \in Nat, NEW g, NEW h, Walk(l, j, g), Walk(l, k, h)
  PROVE  \A i \in Nat : i <= j /\ i <= k => g[i] = h[i]
<1> DEFINE B == {i \in Nat : i <= j /\ i <= k /\ g[i] # h[i]}
<1> SUFFICES ASSUME B # {} PROVE FALSE
  BY DEF B
<1>1. PICK i \in B : \A m \in B : i <= m
  BY LeastNat
<1>2. /\ i \in 0..j /\ i \in 0..k
      /\ g[i] = IF i = 0 THEN l.freep ELSE l.ptr[g[i-1]]
      /\ h[i] = IF i = 0 THEN l.freep ELSE l.ptr[h[i-1]]
  BY DEF Walk
<1>3. i # 0
  BY <1>2
<1>4. i - 1 \in Nat /\ i - 1 <= j /\ i - 1 <= k /\ i - 1 \notin B
  BY <1>1, <1>3
<1> QED
  BY <1>2, <1>3, <1>4

LEMMA NodeIs ==
  ASSUME NEW l
  PROVE  /\ Node(l, 0) = l.freep
         /\ \A k \in Nat : Node(l, k + 1) = l.ptr[Node(l, k)]
<1>1. ASSUME NEW k \in Nat PROVE \E g : Walk(l, k, g) /\ Node(l, k) = g[k]
  <2> DEFINE g == CHOOSE g : Walk(l, k, g)
  <2>1. Walk(l, k, g)
    BY WalkExists
  <2>2. Node(l, k) = g[k]
    BY Zenon DEF Node, Walk
  <2> QED
    BY <2>1, <2>2
<1>2. Node(l, 0) = l.freep
  <2>1. PICK g : Walk(l, 0, g) /\ Node(l, 0) = g[0]
    BY <1>1
  <2> QED
    BY <2>1 DEF Walk
<1>3. ASSUME NEW k \in Nat PROVE Node(l, k + 1) = l.ptr[Node(l, k)]
  <2>1. PICK g : Walk(l, k, g) /\ Node(l, k) = g[k]
    BY <1>1
  <2>2. PICK h : Walk(l, k + 1, h) /\ Node(l, k + 1) = h[k + 1]
    BY <1>1
  <2>3. g[k] = h[k]
    BY <2>1, <2>2, WalkUnique
  <2>4. k + 1 \in 0..k + 1 /\ k + 1 # 0 /\ (k + 1) - 1 = k
    OBVIOUS
  <2>5. h[k + 1] = IF k + 1 = 0 THEN l.freep ELSE l.ptr[h[(k + 1) - 1]]
    BY <2>2, <2>4 DEF Walk
  <2> QED
    BY <2>1, <2>2, <2>3, <2>4, <2>5
<1> QED
  BY <1>2, <1>3

\* How many headers lie below a, and how a step along the list changes that.
Lower(N, a) == {d \in N : d < a}
Rank(N, a) == Cardinality(Lower(N, a))

LEMMA RankIs ==
  ASSUME NEW N, IsFiniteSet(N), N \subseteq Nat, 0 \in N
  PROVE  /\ \A a \in N : Rank(N, a) \in Nat /\ Rank(N, a) < Cardinality(N)
         /\ Rank(N, 0) = 0 /\ Cardinality(N) \in Nat
         /\ \A a, c \in N : Rank(N, a) = Rank(N, c) => a = c
         /\ \A a, c \in N : After(N, a, c) =>
              Rank(N, c) = IF Rank(N, a) + 1 = Cardinality(N) THEN 0 ELSE Rank(N, a) + 1
<1>1. ASSUME NEW a \in N
      PROVE  /\ IsFiniteSet(Lower(N, a)) /\ Cardinality(Lower(N, a)) \in Nat
             /\ IsFiniteSet(Lower(N, a) \cup {a})
             /\ Cardinality(Lower(N, a) \cup {a}) = Cardinality(Lower(N, a)) + 1
             /\ Cardinality(Lower(N, a)) + 1 <= Cardinality(N)
  <2>1. Lower(N, a) \subseteq N /\ Lower(N, a) \cup {a} \subseteq N /\ a \notin Lower(N, a)
    BY <1>1 DEF Lower
  <2>2. IsFiniteSet(Lower(N, a)) /\ Cardinality(Lower(N, a)) \in Nat
    BY <2>1, FS_Subset, FS_CardinalityType
  <2>3. /\ IsFiniteSet(Lower(N, a) \cup {a})
        /\ Cardinality(Lower(N, a) \cup {a}) = Cardinality(Lower(N, a)) + 1
    BY <2>1, <2>2, FS_AddElement
  <2>4. Cardinality(Lower(N, a) \cup {a}) <= Cardinality(N)
    BY <2>1, FS_Subset
  <2> QED
    BY <2>2, <2>3, <2>4
<1>2. Cardinality(N) \in Nat
  BY FS_CardinalityType
<1>3. Rank(N, 0) = 0
  <2>1. \A d \in N : ~(d < 0)
    OBVIOUS
  <2>2. Lower(N, 0) = {}
    BY <2>1 DEF Lower
  <2> QED
    BY <2>2, FS_EmptySet DEF Rank
<1>4. ASSUME NEW a \in N, NEW c \in N, a < c
      PROVE  Cardinality(Lower(N, a)) < Cardinality(Lower(N, c))
  <2>1. a < c /\ \A d \in N : d < a => d < c
    BY <1>4
  <2>2. Lower(N, a) \cup {a} \subseteq Lower(N, c)
    BY <2>1 DEF Lower
  <2>3. Cardinality(Lower(N, a) \cup {a}) <= Cardinality(Lower(N, c))
    BY <1>1, <2>2, FS_Subset
  <2>4. Cardinality(Lower(N, a)) \in Nat /\ Cardinality(Lower(N, c)) \in Nat
        /\ Cardinality(Lower(N, a) \cup {a}) = Cardinality(Lower(N, a)) + 1
    BY <1>1
  <2> QED
    BY <2>3, <2>4
<1>5. ASSUME NEW a \in N, NEW c \in N, Rank(N, a) = Rank(N, c) PROVE a = c
  <2>1. Rank(N, a) = Cardinality(Lower(N, a)) /\ Rank(N, c) = Cardinality(Lower(N, c))
    BY DEF Rank
  <2>2. a < c \/ c < a \/ a = c
    OBVIOUS
  <2>3. Cardinality(Lower(N, a)) \in Nat /\ Cardinality(Lower(N, c)) \in Nat
    BY <1>1
  <2>4. ASSUME a < c PROVE FALSE
    <3>1. Cardinality(Lower(N, a)) < Cardinality(Lower(N, c))
      BY <1>4, <2>4
    <3>2. Cardinality(Lower(N, a)) = Cardinality(Lower(N, c))
      BY <1>5, <2>1, Zenon
    <3> QED
      BY <2>3, <3>1, <3>2
  <2>5. ASSUME c < a PROVE FALSE
    <3>1. Cardinality(Lower(N, c)) < Cardinality(Lower(N, a))
      BY <1>4, <2>5
    <3>2. Cardinality(Lower(N, a)) = Cardinality(Lower(N, c))
      BY <1>5, <2>1, Zenon
    <3> QED
      BY <2>3, <3>1, <3>2
  <2> QED
    BY <2>2, <2>4, <2>5
<1>6. ASSUME NEW a \in N, NEW c \in N, After(N, a, c)
      PROVE  Rank(N, c) = IF Rank(N, a) + 1 = Cardinality(N) THEN 0 ELSE Rank(N, a) + 1
  <2>1. Rank(N, a) = Cardinality(Lower(N, a)) /\ Rank(N, c) = Cardinality(Lower(N, c))
    BY DEF Rank
  <2>2. CASE c > a
    <3>0. a < c /\ \A d \in N : ~(a < d /\ d < c)
      BY <1>6, <2>2 DEF After
    <3>4. \A d \in N : d < c <=> d < a \/ d = a
      BY <3>0
    <3>1. Lower(N, c) = Lower(N, a) \cup {a}
      BY <3>4 DEF Lower
    <3>2. Cardinality(Lower(N, c)) = Cardinality(Lower(N, a)) + 1
      BY <1>1, <3>1
    <3>3. Cardinality(Lower(N, c)) + 1 <= Cardinality(N) /\ Cardinality(Lower(N, c)) \in Nat
      BY <1>1
    <3> QED
      BY <1>2, <2>1, <3>2, <3>3
  <2>3. CASE ~(c > a)
    <3>0. c = 0 /\ \A d \in N : d <= a
      BY <1>6, <2>3 DEF After
    <3>4. \A d \in N : d < a \/ d = a
      BY <3>0
    <3>1. c = 0 /\ N = Lower(N, a) \cup {a}
      BY <3>0, <3>4 DEF Lower
    <3>2. Cardinality(N) = Cardinality(Lower(N, a)) + 1
      BY <1>1, <3>1
    <3> QED
      BY <1>3, <2>1, <3>1, <3>2
  <2> QED
    BY <2>2, <2>3
<1>7. ASSUME NEW a \in N PROVE Rank(N, a) \in Nat /\ Rank(N, a) < Cardinality(N)
  <2>1. Rank(N, a) = Cardinality(Lower(N, a))
    BY DEF Rank
  <2>2. Cardinality(Lower(N, a)) \in Nat /\ Cardinality(Lower(N, a)) + 1 <= Cardinality(N)
    BY <1>1
  <2> QED
    BY <1>2, <2>1, <2>2
<1> QED
  BY <1>2, <1>3, <1>5, <1>6, <1>7

LEMMA NodeType ==
  ASSUME NEW l, Ordered(l)
  PROVE  \A k \in Nat : Node(l, k) \in Nodes(l)
<1> DEFINE N == Nodes(l)
           B == {k \in Nat : Node(l, k) \notin N}
<1>1. l.freep \in N /\ \A a \in N : l.ptr[a] \in N
  BY DEF Ordered
<1> SUFFICES ASSUME B # {} PROVE FALSE
  BY DEF B
<1>2. PICK k \in B : \A j \in B : k <= j
  BY LeastNat
<1>3. k # 0
  BY <1>1, NodeIs
<1>4. k - 1 \in Nat /\ (k - 1) + 1 = k /\ k - 1 \notin B
  BY <1>2, <1>3
<1> HIDE DEF N
<1>5. Node(l, k) = l.ptr[Node(l, k - 1)]
  BY <1>4, NodeIs
<1>6. Node(l, k - 1) \in N
  BY <1>4
<1> QED
  BY <1>1, <1>5, <1>6

\* A round from freep reaches every header, and ends where it began.
LEMMA RoundIs ==
  ASSUME NEW l, Ordered(l)
  PROVE  LET N == Nodes(l)
             m == Cardinality(N)
         IN  /\ m \in Nat \ {0}
             /\ \A a \in N : \E k \in 0..m - 1 : Node(l, k) = a
             /\ Node(l, m) = l.freep
<1> DEFINE N == Nodes(l)
           m == Cardinality(N)
           r == Rank(N, l.freep)
           Place(k) == IF r + k < m THEN r + k ELSE r + k - m
           B == {k \in Nat : k <= m /\ Rank(N, Node(l, k)) # Place(k)}
<1>1. /\ IsFiniteSet(N) /\ N \subseteq Nat /\ 0 \in N /\ l.freep \in N
      /\ \A a \in N : l.ptr[a] \in N /\ After(N, a, l.ptr[a])
  BY DEF Ordered
<1>2. \A k \in Nat : Node(l, k) \in N
  BY NodeType
<1> HIDE DEF N
<1>3. /\ \A a \in N : Rank(N, a) \in Nat /\ Rank(N, a) < m
      /\ m \in Nat
      /\ \A a, c \in N : Rank(N, a) = Rank(N, c) => a = c
      /\ \A a \in N : Rank(N, l.ptr[a]) = IF Rank(N, a) + 1 = m THEN 0 ELSE Rank(N, a) + 1
  BY <1>1, RankIs
<1>4. r \in Nat /\ r < m
  BY <1>1, <1>3
<1> HIDE DEF m, r
<1>5. B = {}
  <2> SUFFICES ASSUME B # {} PROVE FALSE
    OBVIOUS
  <2>1. PICK k \in B : \A j \in B : k <= j
    BY LeastNat
  <2>2. k # 0
    BY <1>4, NodeIs DEF r
  <2>3. k - 1 \in Nat /\ (k - 1) + 1 = k /\ k - 1 <= m /\ k - 1 \notin B /\ k <= m
    BY <1>3, <2>1, <2>2
  <2>4. Rank(N, Node(l, k - 1)) = Place(k - 1)
    BY <2>3
  <2>5. Node(l, k) = l.ptr[Node(l, k - 1)] /\ Node(l, k - 1) \in N
    BY <1>2, <2>3, NodeIs
  <2>6. Rank(N, Node(l, k)) = IF Place(k - 1) + 1 = m THEN 0 ELSE Place(k - 1) + 1
    BY <1>3, <2>4, <2>5
  <2>7. Rank(N, Node(l, k)) = Place(k)
    BY <1>3, <1>4, <2>1, <2>2, <2>3, <2>6
  <2> QED
    BY <2>1, <2>7
<1>6. \A k \in Nat : k <= m => Rank(N, Node(l, k)) = Place(k)
  BY <1>5
<1>7. Node(l, m) = l.freep
  <2>1. Rank(N, Node(l, m)) = r
    BY <1>3, <1>4, <1>6
  <2> QED
    BY <1>1, <1>2, <1>3, <2>1 DEF r
<1>8. ASSUME NEW a \in N PROVE \E k \in 0..m - 1 : Node(l, k) = a
  <2> DEFINE s == Rank(N, a)
             k == IF r <= s THEN s - r ELSE s + m - r
  <2>1. s \in Nat /\ s < m
    BY <1>3
  <2> HIDE DEF s
  <2>2. k \in 0..m - 1 /\ Place(k) = s
    BY <1>3, <1>4, <2>1
  <2> HIDE DEF k, Place
  <2>3. k \in Nat /\ k <= m
    BY <1>3, <2>2
  <2>4. Rank(N, Node(l, k)) = s
    BY <1>6, <2>2, <2>3
  <2> QED
    BY <1>2, <1>3, <2>2, <2>3, <2>4 DEF s
<1> QED
  BY <1>3, <1>4, <1>7, <1>8 DEF m, N

-----------------------------------------------------------------------------
\* free: where the block goes.
LEMMA PlaceOfBlock ==
  ASSUME NEW l, Ordered(l), NEW b \in Nat \ {0}, NEW n \in Nat \ {0},
         \A a \in Nodes(l) : b + n <= a \/ a + l.size[a] <= b
  PROVE  LET N == Nodes(l)
         IN  /\ b \notin N
             /\ \E p \in N : Follows(l, p, b)
             /\ \A p \in N : Follows(l, p, b) =>
                  /\ p < b /\ p + l.size[p] <= b
                  /\ \A d \in N : d <= p \/ b + n <= d
                  /\ l.ptr[p] = 0 \/ b + n <= l.ptr[p]
<1> DEFINE N == Nodes(l)
<1>1. /\ N \subseteq Nat /\ 0 \in N /\ IsFiniteSet(N)
      /\ \A a \in N : l.size[a] \in Nat /\ l.ptr[a] \in N /\ After(N, a, l.ptr[a])
      /\ \A a \in N : l.size[a] = 0 <=> a = 0
  BY DEF Ordered
<1>2. \A a \in N : b + n <= a \/ a + l.size[a] <= b
  OBVIOUS
<1> HIDE DEF N
<1>3. b \notin N
  BY <1>1, <1>2
<1>4. \E p \in N : p < b /\ \A d \in N : d <= p \/ b < d
  <2> DEFINE S == {b - d : d \in {d \in N : d < b}}
  <2>1. S \subseteq Nat /\ b - 0 \in S
    BY <1>1
  <2>2. PICK x \in S : \A y \in S : x <= y
    BY <2>1, LeastNat
  <2>3. PICK p \in N : p < b /\ x = b - p
    BY <2>2
  <2>4. ASSUME NEW d \in N PROVE d <= p \/ b < d
    <3>1. d \in Nat /\ p \in Nat /\ d # b
      BY <1>1, <1>3
    <3>2. d < b => b - p <= b - d
      BY <2>2, <2>3
    <3> QED
      BY <3>1, <3>2
  <2> QED
    BY <2>3, <2>4
<1>5. \E p \in N : Follows(l, p, b)
  <2>1. PICK p \in N : p < b /\ \A d \in N : d <= p \/ b < d
    BY <1>4
  <2>2. p \in Nat /\ l.ptr[p] \in Nat /\ (l.ptr[p] <= p \/ b < l.ptr[p])
    BY <1>1, <2>1
  <2>3. Follows(l, p, b)
    BY <2>1, <2>2 DEF Follows
  <2> QED
    BY <2>3
<1>6. ASSUME NEW p \in N, Follows(l, p, b)
      PROVE  /\ p < b /\ p + l.size[p] <= b
             /\ \A d \in N : d <= p \/ b + n <= d
             /\ l.ptr[p] = 0 \/ b + n <= l.ptr[p]
  <2> DEFINE q == l.ptr[p]
  <2>1. p \in Nat /\ q \in Nat /\ q \in N /\ After(N, p, q) /\ l.size[p] \in Nat
    BY <1>1
  <2>2. p < b /\ (q > p => b < q)
    <3>1. (p < b /\ b < q) \/ (p >= q /\ (b > p \/ b < q))
      BY <1>6 DEF Follows
    <3>2. ~(q > p) => q = 0
      BY <2>1 DEF After
    <3> QED
      BY <2>1, <3>1, <3>2
  <2>3. ASSUME NEW d \in N PROVE d <= p \/ b < d
    <3>1. d \in Nat
      BY <1>1
    <3>2. CASE q > p
      <4>1. ~(p < d /\ d < q)
        BY <2>1, <3>2 DEF After
      <4> QED
        BY <2>1, <2>2, <3>1, <3>2, <4>1
    <3>3. CASE ~(q > p)
      BY <2>1, <3>3 DEF After
    <3> QED
      BY <3>2, <3>3
  <2>4. \A d \in N : b < d => b + n <= d
    <3> SUFFICES ASSUME NEW d \in N, b < d PROVE b + n <= d
      OBVIOUS
    <3>1. d \in Nat /\ l.size[d] \in Nat /\ (b + n <= d \/ d + l.size[d] <= b)
      BY <1>1, <1>2
    <3> QED
      BY <3>1
  <2>5. p + l.size[p] <= b
    <3>1. b + n <= p \/ p + l.size[p] <= b
      BY <1>2
    <3> QED
      BY <2>1, <2>2, <3>1
  <2>6. q = 0 \/ b + n <= q
    <3>1. ~(q > p) => q = 0
      BY <2>1 DEF After
    <3> QED
      BY <2>1, <2>2, <2>4, <3>1
  <2> QED
    BY <2>2, <2>3, <2>4, <2>5, <2>6
<1> QED
  BY <1>3, <1>5, <1>6 DEF N

\* free: the header that the search stops at.
LEMMA SearchStops ==
  ASSUME NEW l, Ordered(l), NEW b, \E p \in Nodes(l) : Follows(l, p, b)
  PROVE  LET k == Min({i \in 0..Cardinality(Nodes(l)) - 1 :
                              Follows(l, Node(l, i), b)})
         IN  Node(l, k) \in Nodes(l) /\ Follows(l, Node(l, k), b)
<1> DEFINE S == {i \in 0..Cardinality(Nodes(l)) - 1 : Follows(l, Node(l, i), b)}
<1>1. S \subseteq Nat
  OBVIOUS
<1>2. S # {}
  <2>1. PICK p \in Nodes(l) : Follows(l, p, b)
    OBVIOUS
  <2>2. PICK k \in 0..Cardinality(Nodes(l)) - 1 : Node(l, k) = p
    BY RoundIs
  <2>3. k \in S
    BY <2>1, <2>2
  <2> QED
    BY <2>3
<1>3. Min(S) \in S
  <2> HIDE DEF S
  <2> QED
    BY <1>1, <1>2, MinIs
<1>4. Min(S) \in Nat /\ Follows(l, Node(l, Min(S)), b)
  BY <1>1, <1>3
<1> QED
  BY <1>4, NodeType

\* free: the list with block b of n units behind p, whose next header is q.
Above(l, p, b, n) == b + n = l.ptr[p]
Below(l, p, b) == p + l.size[p] = b
Kept(l, p, b, n) ==
  (Nodes(l) \cup (IF Below(l, p, b) THEN {} ELSE {b}))
    \ (IF Above(l, p, b, n) THEN {l.ptr[p]} ELSE {})
NewSize(l, p, b, n) == IF Above(l, p, b, n) THEN n + l.size[l.ptr[p]] ELSE n
NewPtr(l, p, b, n) == IF Above(l, p, b, n) THEN l.ptr[l.ptr[p]] ELSE l.ptr[p]
Inserted(l, p, b, n) ==
  [freep |-> p,
   ptr |-> [a \in Kept(l, p, b, n) |->
             IF a = p THEN (IF Below(l, p, b) THEN NewPtr(l, p, b, n) ELSE b)
             ELSE IF a = b THEN NewPtr(l, p, b, n) ELSE l.ptr[a]],
   size |-> [a \in Kept(l, p, b, n) |->
              IF a = p /\ Below(l, p, b) THEN l.size[p] + NewSize(l, p, b, n)
              ELSE IF a = b THEN NewSize(l, p, b, n) ELSE l.size[a]]]

LEMMA FreedIs ==
  ASSUME NEW l, NEW b, NEW n
  PROVE  LET k == Min({i \in 0..Cardinality(Nodes(l)) - 1 :
                              Follows(l, Node(l, i), b)})
         IN  Freed(l, b, n) = Inserted(l, Node(l, k), b, n)
BY Zenon DEF Freed, Inserted, Kept, NewSize, NewPtr, Above, Below, Touches

LEMMA InsertOrdered ==
  ASSUME NEW l, Ordered(l), NEW b \in Nat \ {0}, NEW n \in Nat \ {0}, NEW p \in Nodes(l),
         b \notin Nodes(l), p < b, p + l.size[p] <= b,
         \A d \in Nodes(l) : d <= p \/ b + n <= d,
         l.ptr[p] = 0 \/ b + n <= l.ptr[p]
  PROVE  LET w == Inserted(l, p, b, n)
         IN  /\ Ordered(w) /\ \E a \in Nodes(w) : w.size[a] >= n
             /\ \A u \in Int : InFree(w, u) <=> InFree(l, u) \/ (b <= u /\ u < b + n)
<1> DEFINE N == Nodes(l)
           q == l.ptr[p]
           above == Above(l, p, b, n)
           below == Below(l, p, b)
           K == Kept(l, p, b, n)
           z == NewSize(l, p, b, n)
           r == NewPtr(l, p, b, n)
           w == Inserted(l, p, b, n)
<1>1. /\ N \subseteq Nat /\ 0 \in N /\ IsFiniteSet(N) /\ p \in N
      /\ \A a \in N : l.size[a] \in Nat /\ (l.size[a] = 0 <=> a = 0)
      /\ \A a \in N : l.ptr[a] \in N /\ After(N, a, l.ptr[a])
      /\ \A a, c \in N : a < c => a + l.size[a] < c
  BY DEF Ordered
<1>2. /\ b \notin N /\ p < b /\ p + l.size[p] <= b
      /\ \A d \in N : d <= p \/ b + n <= d
      /\ q = 0 \/ b + n <= q
  OBVIOUS
<1>3. /\ Nodes(w) = K /\ w.freep = p
      /\ w = [ptr |-> w.ptr, size |-> w.size, freep |-> p]
      /\ w.ptr = [a \in K |-> IF a = p THEN (IF below THEN r ELSE b) ELSE IF a = b THEN r ELSE l.ptr[a]]
      /\ w.size = [a \in K |-> IF a = p /\ below THEN l.size[p] + z ELSE IF a = b THEN z ELSE l.size[a]]
  BY DEF Inserted, Nodes
<1>4. \A a \in K : /\ w.ptr[a] = IF a = p THEN (IF below THEN r ELSE b) ELSE IF a = b THEN r ELSE l.ptr[a]
                   /\ w.size[a] = IF a = p /\ below THEN l.size[p] + z ELSE IF a = b THEN z ELSE l.size[a]
  <2> HIDE DEF w, K, r, z, below
  <2> QED
    BY <1>3
<1>5. /\ above <=> b + n = q
      /\ below <=> p + l.size[p] = b
      /\ z = IF above THEN n + l.size[q] ELSE n
      /\ r = IF above THEN l.ptr[q] ELSE q
      /\ \A a : a \in K <=> (a \in N \/ (a = b /\ ~below)) /\ ~(above /\ a = q)
      /\ above \in BOOLEAN /\ below \in BOOLEAN
  BY DEF Above, Below, NewSize, NewPtr, Kept
<1>6. IsFiniteSet(K)
  <2>1. IsFiniteSet(N \cup {b})
    BY <1>1, FS_AddElement
  <2>2. K \subseteq N \cup {b}
    BY <1>5
  <2> QED
    BY <2>1, <2>2, FS_Subset
<1> HIDE DEF N, q, above, below, K, z, r, w
<1>7. /\ p \in Nat /\ q \in Nat /\ q \in N /\ l.size[p] \in Nat /\ l.size[q] \in Nat /\ z \in Nat /\ z >= n
  <2>1. p \in N /\ q \in N
    BY <1>1 DEF q
  <2> QED
    BY <1>1, <1>5, <2>1
<1>8. above => q > b /\ q # 0
  BY <1>5, <1>7
<1>9. p # b /\ p \in K /\ 0 \in K /\ K \subseteq Nat /\ (~below => b \in K)
      /\ \A a \in K : a = b => ~below
  <2>1. ~(above /\ p = q) /\ ~(above /\ 0 = q) /\ ~(above /\ b = q)
    BY <1>2, <1>7, <1>8
  <2>2. p # b
    BY <1>1, <1>2
  <2>3. p \in K /\ 0 \in K /\ (~below => b \in K)
    BY <1>1, <1>5, <2>1
  <2>4. K \subseteq Nat
    <3> SUFFICES ASSUME NEW a \in K PROVE a \in Nat
      OBVIOUS
    <3>1. a \in N \/ a = b
      BY <1>5
    <3> QED
      BY ONLY <1>1, <3>1
  <2>5. \A a \in K : a = b => ~below
    BY <1>2, <1>5
  <2> QED
    BY <2>2, <2>3, <2>4, <2>5
<1>10. After(N, p, q)
  BY <1>1 DEF q
<1>11. \A d \in K : d = b \/ (d \in N /\ d # b /\ (d <= p \/ d > b) /\ ~(above /\ d = q))
  <2>1. ASSUME NEW d \in K, d # b PROVE d \in N /\ (d <= p \/ d > b) /\ ~(above /\ d = q)
    <3>1. d \in N /\ ~(above /\ d = q)
      BY <1>5, <2>1
    <3>2. d \in Nat /\ (d <= p \/ b + n <= d)
      BY <1>1, <1>2, <3>1
    <3> QED
      BY <3>1, <3>2
  <2> QED
    BY <2>1
\* What comes after the new block.
<1>12. r \in K /\ r \in Nat /\ r # b /\ (IF r > b THEN \A d \in K : ~(b < d /\ d < r) ELSE r = 0 /\ \A d \in K : d <= b)
  <2>1. CASE above
    <3>1. r \in N /\ After(N, q, r) /\ r = l.ptr[q]
      BY <1>1, <1>5, <1>7, <2>1
    <3>2. r \in Nat /\ r # b /\ r # q
      <4>1. r \in Nat /\ r # b
        BY ONLY <1>1, <1>2, <3>1
      <4>2. r # q
        BY <1>8, <2>1, <3>1 DEF After
      <4> QED
        BY <4>1, <4>2
    <3>3. r \in K
      BY <1>5, <3>1, <3>2
    <3>4. ASSUME NEW d \in K, b < d PROVE d \in Nat /\ d > q
      <4>1. d \in N /\ d # q /\ d \in Nat
        BY <1>9, <1>11, <2>1, <3>4
      <4>2. ~(p < d /\ d < q)
        BY <1>2, <1>7, <1>8, <1>10, <2>1, <4>1 DEF After
      <4> QED
        BY <1>2, <1>7, <3>4, <4>1, <4>2
    <3>5. CASE r > q
      <4>1. \A d \in N : ~(q < d /\ d < r)
        BY <3>1, <3>5 DEF After
      <4>2. \A d \in K : ~(b < d /\ d < r)
        <5> SUFFICES ASSUME NEW d \in K, b < d, d < r PROVE FALSE
          OBVIOUS
        <5>1. d > q /\ d \in Nat /\ d \in N
          BY <1>11, <3>4
        <5> QED
          BY <1>7, <4>1, <5>1
      <4>3. r > b
        BY <1>7, <1>8, <2>1, <3>2, <3>5
      <4> QED
        BY <3>2, <3>3, <4>2, <4>3
    <3>6. CASE ~(r > q)
      <4>1. r = 0 /\ \A d \in N : d <= q
        BY <3>1, <3>6 DEF After
      <4>2. \A d \in K : d <= b
        <5> SUFFICES ASSUME NEW d \in K, ~(d <= b) PROVE FALSE
          OBVIOUS
        <5>1. d \in Nat /\ b < d
          BY <1>9
        <5>2. d > q /\ d \in N
          BY <1>11, <3>4, <5>1
        <5> QED
          BY <1>7, <4>1, <5>1, <5>2
      <4> QED
        BY <3>2, <3>3, <4>1, <4>2
    <3> QED
      BY <3>5, <3>6
  <2>2. CASE ~above
    <3>1. r = q /\ r \in N /\ r # b /\ r \in K /\ r \in Nat
      BY <1>2, <1>5, <1>7, <2>2
    <3>2. CASE q > p
      <4>1. q > b
        BY <1>2, <1>7, <3>2
      <4>2. \A d \in N : ~(p < d /\ d < q)
        BY <1>10, <3>2 DEF After
      <4>3. \A d \in K : ~(b < d /\ d < r)
        <5> SUFFICES ASSUME NEW d \in K, b < d, d < r PROVE FALSE
          OBVIOUS
        <5>1. d \in Nat /\ d \in N
          BY <1>9, <1>11
        <5> QED
          BY <1>2, <1>7, <3>1, <4>2, <5>1
      <4> QED
        BY <3>1, <4>1, <4>3
    <3>3. CASE ~(q > p)
      <4>1. q = 0 /\ \A d \in N : d <= p
        BY <1>10, <3>3 DEF After
      <4>2. \A d \in K : d <= b
        <5> SUFFICES ASSUME NEW d \in K PROVE d <= b
          OBVIOUS
        <5>1. d \in Nat /\ (d = b \/ d <= p)
          BY <1>9, <1>11, <4>1
        <5> QED
          BY <1>2, <1>7, <5>1
      <4> QED
        BY <3>1, <4>1, <4>2
    <3> QED
      BY <3>2, <3>3
  <2> QED
    BY <2>1, <2>2
<1>13. ASSUME NEW a \in K PROVE w.ptr[a] \in K /\ After(K, a, w.ptr[a])
  <2>1. CASE a = b
    <3>1. w.ptr[a] = r
      BY <1>4, <1>9, <2>1
    <3> QED
      BY <1>12, <2>1, <3>1 DEF After
  <2>2. CASE a = p /\ ~below
    <3>1. w.ptr[a] = b /\ b \in K
      BY <1>4, <1>9, <2>2
    <3>2. \A d \in K : ~(p < d /\ d < b)
      <4> SUFFICES ASSUME NEW d \in K, p < d, d < b PROVE FALSE
        OBVIOUS
      <4>1. d \in Nat /\ (d = b \/ d <= p \/ d > b)
        BY <1>9, <1>11
      <4> QED
        BY <1>7, <4>1
    <3> QED
      BY <1>2, <2>2, <3>1, <3>2 DEF After
  <2>3. CASE a = p /\ below
    <3>1. w.ptr[a] = r /\ \A d \in K : d # b
      BY <1>4, <1>9, <2>3
    <3>2. CASE r > b
      <4>1. r > p
        BY <1>2, <1>7, <1>12, <3>2
      <4>2. \A d \in K : ~(p < d /\ d < r)
        <5> SUFFICES ASSUME NEW d \in K, p < d, d < r PROVE FALSE
          OBVIOUS
        <5>1. d \in Nat /\ (d <= p \/ d > b)
          BY <1>9, <1>11, <3>1
        <5> QED
          BY <1>7, <1>12, <3>2, <5>1
      <4> QED
        BY <1>12, <2>3, <3>1, <4>1, <4>2 DEF After
    <3>3. CASE ~(r > b)
      <4>1. r = 0 /\ \A d \in K : d <= b
        BY <1>12, <3>3
      <4>2. \A d \in K : d <= p
        <5> SUFFICES ASSUME NEW d \in K PROVE d <= p
          OBVIOUS
        <5>1. d \in Nat /\ d <= b /\ (d <= p \/ d > b)
          BY <1>9, <1>11, <3>1, <4>1
        <5> QED
          BY <1>7, <5>1
      <4> QED
        BY <1>7, <1>12, <2>3, <3>1, <4>1, <4>2 DEF After
    <3> QED
      BY <3>2, <3>3
  <2>4. CASE a # p /\ a # b
    <3> DEFINE c == l.ptr[a]
    <3>1. w.ptr[a] = c /\ a \in N /\ (a <= p \/ a > b) /\ a \in Nat
      BY <1>4, <1>9, <1>11, <2>4
    <3>2. c \in N /\ After(N, a, c) /\ c \in Nat
      BY <1>1, <3>1
    <3> HIDE DEF c
    <3>3. ~(above /\ c = q)
      <4> SUFFICES ASSUME above, c = q PROVE FALSE
        OBVIOUS
      <4>1. q > a /\ \A d \in N : ~(a < d /\ d < q)
        BY <1>8, <3>2 DEF After
      <4>2. q > p /\ \A d \in N : ~(p < d /\ d < q)
        BY <1>2, <1>7, <1>8, <1>10 DEF After
      <4>3. ~(a < p) /\ ~(p < a)
        BY <1>1, <3>1, <4>1, <4>2
      <4> QED
        BY <1>7, <2>4, <3>1, <4>3
    <3>4. c \in K
      BY <1>5, <3>2, <3>3
    <3>5. CASE c > a
      <4>1. \A d \in N : ~(a < d /\ d < c)
        BY <3>2, <3>5 DEF After
      <4>2. ~(a < b /\ b < c)
        <5>1. ~(a < p /\ p < c)
          BY <1>1, <4>1
        <5> QED
          BY <1>2, <1>7, <2>4, <3>1, <3>2, <5>1
      <4>3. \A d \in K : ~(a < d /\ d < c)
        BY <1>11, <4>1, <4>2
      <4> QED
        BY <3>1, <3>4, <3>5, <4>3 DEF After
    <3>6. CASE ~(c > a)
      <4>1. c = 0 /\ \A d \in N : d <= a
        BY <3>2, <3>6 DEF After
      <4>2. p <= a /\ b < a
        <5>1. p <= a
          BY <1>1, <4>1
        <5> QED
          BY <1>7, <2>4, <3>1, <5>1
      <4>3. \A d \in K : d <= a
        BY <1>11, <3>1, <4>1, <4>2
      <4> QED
        BY <3>1, <3>4, <3>6, <4>1, <4>3 DEF After
    <3> QED
      BY <3>5, <3>6
  <2> QED
    BY <2>1, <2>2, <2>3, <2>4
\* The new block does not reach the one that comes after it.
<1>14. ASSUME NEW c \in K, c > b PROVE b + z < c
  <2>1. c \in N /\ c \in Nat /\ c # b /\ ~(above /\ c = q) /\ b + n <= c
    <3>1. c \in Nat
      BY <1>9
    <3>2. c \in N /\ ~(above /\ c = q)
      BY <1>11, <1>14, <3>1
    <3>3. c <= p \/ b + n <= c
      BY <1>2, <3>2
    <3> QED
      BY <1>2, <1>7, <1>14, <3>1, <3>2, <3>3
  <2>2. q > p /\ q <= c
    <3>1. c > p
      BY <1>2, <1>7, <2>1
    <3>2. q > p
      <4>1. ~(q > p) => c <= p
        BY <1>10, <2>1 DEF After
      <4> QED
        BY <1>7, <2>1, <3>1, <4>1
    <3>3. ~(p < c /\ c < q)
      BY <1>10, <2>1, <3>2 DEF After
    <3> QED
      BY <1>7, <2>1, <3>1, <3>2, <3>3
  <2>3. CASE above
    <3>1. q < c
      BY <1>7, <2>1, <2>2, <2>3
    <3>2. q + l.size[q] < c
      BY <1>1, <1>7, <2>1, <3>1
    <3> QED
      BY <1>5, <1>7, <2>1, <2>3, <3>2
  <2>4. CASE ~above
    <3>1. z = n /\ b + n # q /\ b + n <= q
      BY <1>2, <1>5, <1>7, <2>2, <2>4
    <3> QED
      BY <1>7, <2>1, <2>2, <3>1
  <2> QED
    BY <2>3, <2>4
<1>15. ASSUME NEW a \in K
       PROVE  /\ w.size[a] \in Nat /\ (w.size[a] = 0 <=> a = 0)
              /\ \A c \in K : a < c => a + w.size[a] < c
  <2>0. a \in Nat
    BY <1>9
  <2>1. CASE a = b
    <3>1. w.size[a] = z
      BY <1>4, <1>9, <2>1
    <3>2. ASSUME NEW c \in K, a < c PROVE a + w.size[a] < c
      <4>1. b + z < c
        BY <1>14, <2>1, <3>2, c > b
      <4> QED
        BY <2>1, <3>1, <4>1
    <3>3. w.size[a] \in Nat /\ (w.size[a] = 0 <=> a = 0)
      BY <1>7, <2>1, <3>1
    <3> QED
      BY <3>2, <3>3
  <2>2. CASE a = p /\ below
    <3>1. w.size[a] = l.size[p] + z /\ p + l.size[p] = b /\ \A c \in K : c # b
      BY <1>4, <1>5, <1>9, <2>2
    <3>2. p # 0
      <4>1. p = 0 => l.size[p] = 0
        BY <1>1
      <4> QED
        BY <1>7, <3>1, <4>1
    <3>3. ASSUME NEW c \in K, p < c PROVE p + (l.size[p] + z) < c
      <4>1. c \in Nat /\ c > b
        <5>1. c \in Nat /\ (c <= p \/ c > b)
          BY <1>9, <1>11, <3>1
        <5> QED
          BY <1>7, <3>3, <5>1
      <4>2. b + z < c
        BY <1>14, <4>1
      <4> QED
        BY <1>7, <3>1, <4>1, <4>2
    <3>4. w.size[a] \in Nat /\ w.size[a] # 0
      BY <1>7, <3>1
    <3> QED
      BY <2>2, <3>1, <3>2, <3>3, <3>4
  <2>3. CASE a = p /\ ~below
    <3>1. w.size[a] = l.size[p] /\ p + l.size[p] # b
      BY <1>4, <1>5, <1>9, <2>3
    <3>2. ASSUME NEW c \in K, p < c PROVE p + l.size[p] < c
      <4>1. c \in Nat /\ (c = b \/ c <= p \/ c > b)
        BY <1>9, <1>11
      <4> QED
        BY <1>2, <1>7, <3>1, <3>2, <4>1
    <3>3. l.size[p] \in Nat /\ (l.size[p] = 0 <=> p = 0)
      BY <1>1
    <3> QED
      BY <2>3, <3>1, <3>2, <3>3
  <2>4. CASE a # p /\ a # b
    <3>1. w.size[a] = l.size[a] /\ a \in N /\ (a <= p \/ a > b)
      BY <1>4, <1>11, <2>4
    <3>2. l.size[a] \in Nat /\ (l.size[a] = 0 <=> a = 0)
      BY <1>1, <3>1
    <3>3. ASSUME NEW c \in K, a < c PROVE a + l.size[a] < c
      <4>1. CASE c = b
        <5>1. a < p
          BY <1>7, <2>0, <2>4, <3>1, <3>3, <4>1
        <5>2. a + l.size[a] < p
          BY <1>1, <3>1, <5>1
        <5> QED
          BY <1>2, <1>7, <2>0, <3>2, <4>1, <5>2
      <4>2. CASE c # b
        <5>1. c \in N
          BY <1>11, <4>2
        <5> QED
          BY <1>1, <3>1, <3>3, <5>1
      <4> QED
        BY <4>1, <4>2
    <3> QED
      BY <3>1, <3>2, <3>3
  <2> QED
    BY <2>1, <2>2, <2>3, <2>4
<1>16. Ordered(w)
  <2>1. w.ptr \in [K -> K] /\ w.size \in [K -> Nat]
    <3>1. DOMAIN w.ptr = K /\ DOMAIN w.size = K /\ w.ptr = [a \in K |-> w.ptr[a]] /\ w.size = [a \in K |-> w.size[a]]
      BY <1>3
    <3> QED
      BY <1>13, <1>15, <3>1
  <2>2. w \in [ptr : [K -> K], size : [K -> Nat], freep : K]
    BY <1>3, <1>9, <2>1
  <2> QED
    BY <1>3, <1>6, <1>9, <1>13, <1>15, <2>2 DEF Ordered
<1>17. \E a \in K : w.size[a] >= n
  <2>1. CASE below
    <3>1. w.size[p] = l.size[p] + z
      BY <1>4, <1>9, <2>1
    <3> QED
      BY <1>7, <1>9, <3>1
  <2>2. CASE ~below
    <3>1. b \in K /\ w.size[b] = z
      BY <1>4, <1>9, <2>2
    <3> QED
      BY <1>7, <3>1
  <2> QED
    BY <2>1, <2>2
<1> DEFINE In(u) == \E a \in K : a <= u /\ u < a + w.size[a]
           Was(u) == \E a \in N : a <= u /\ u < a + l.size[a]
<1>18. ASSUME NEW u \in Int PROVE In(u) <=> Was(u) \/ (b <= u /\ u < b + n)
  <2> DEFINE Run == b <= u /\ u < b + z
             Tip == above /\ q <= u /\ u < q + l.size[q]
  <2>1. Run <=> (b <= u /\ u < b + n) \/ Tip
    BY <1>5, <1>7, <1>8
  <2>2. Tip => Was(u)
    BY <1>7
  <2>3. Run => In(u)
    <3>1. CASE below
      <4>1. w.size[p] = l.size[p] + z /\ p + l.size[p] = b
        BY <1>4, <1>5, <1>9, <3>1
      <4> QED
        BY <1>2, <1>7, <1>9, <4>1
    <3>2. CASE ~below
      <4>1. b \in K /\ w.size[b] = z
        BY <1>4, <1>9, <3>2
      <4> QED
        BY <4>1
    <3> QED
      BY <3>1, <3>2
  <2> HIDE DEF Run
  <2>4. Was(u) => In(u)
    <3> SUFFICES ASSUME NEW a \in N, a <= u, u < a + l.size[a] PROVE In(u)
      OBVIOUS
    <3>1. CASE above /\ a = q
      <4>1. Tip
        BY <3>1
      <4> QED
        BY <2>1, <2>3, <4>1
    <3>2. CASE a = p
      <4>1. w.size[p] = l.size[p] \/ w.size[p] = l.size[p] + z
        BY <1>4, <1>9
      <4>2. p <= u /\ u < p + w.size[p]
        BY <1>7, <3>2, <4>1
      <4> QED
        BY <1>9, <4>2
    <3>3. CASE ~(above /\ a = q) /\ a # p
      <4>1. a \in K /\ a # b
        BY <1>2, <1>5, <3>3
      <4>2. w.size[a] = l.size[a]
        BY <1>4, <3>3, <4>1
      <4> QED
        BY <4>1, <4>2
    <3> QED
      BY <3>1, <3>2, <3>3
  <2>5. In(u) => Was(u) \/ Run
    <3> SUFFICES ASSUME NEW a \in K, a <= u, u < a + w.size[a] PROVE Was(u) \/ Run
      OBVIOUS
    <3>1. CASE a = b
      <4>1. w.size[a] = z
        BY <1>4, <1>9, <3>1
      <4> QED
        BY <3>1, <4>1 DEF Run
    <3>2. CASE a = p /\ below
      <4>1. w.size[a] = l.size[p] + z /\ p + l.size[p] = b
        BY <1>4, <1>5, <1>9, <3>2
      <4>2. u < p + l.size[p] \/ (b <= u /\ u < b + z)
        BY <1>7, <3>2, <4>1
      <4> QED
        BY <1>1, <3>2, <4>2 DEF Run
    <3>3. CASE a # b /\ ~(a = p /\ below)
      <4>1. w.size[a] = l.size[a] /\ a \in N
        BY <1>4, <1>11, <3>3
      <4> QED
        BY <4>1
    <3> QED
      BY <3>1, <3>2, <3>3
  <2> HIDE DEF In, Was, Tip
  <2> QED
    BY <2>1, <2>2, <2>3, <2>4, <2>5
<1>19. \A u : (InFree(w, u) <=> In(u)) /\ (InFree(l, u) <=> Was(u))
  BY <1>3 DEF InFree, N
<1> HIDE DEF In, Was
<1>20. \A u \in Int : InFree(w, u) <=> InFree(l, u) \/ (b <= u /\ u < b + n)
  BY <1>18, <1>19
<1>21. \E a \in Nodes(w) : w.size[a] >= n
  BY <1>3, <1>17
<1> QED
  BY <1>16, <1>20, <1>21 DEF w

-----------------------------------------------------------------------------
\* malloc: the header p goes, which prev leads to ...
Unlinked(l, prev, p) ==
  [freep |-> prev, size |-> [a \in Nodes(l) \ {p} |-> l.size[a]],
   ptr |-> [a \in Nodes(l) \ {p} |-> IF a = prev THEN l.ptr[p] ELSE l.ptr[a]]]
\* ... or the upper end of its block.
Shrunk(l, prev, p, n) == [l EXCEPT !.freep = prev, !.size[p] = @ - n]

LEMMA UnlinkOrdered ==
  ASSUME NEW l, Ordered(l), NEW prev \in Nodes(l), NEW p \in Nodes(l),
         l.ptr[prev] = p, p # 0
  PROVE  LET w == Unlinked(l, prev, p)
         IN  /\ Ordered(w)
             /\ \A u \in Int : InFree(l, u) <=> InFree(w, u) \/ (p <= u /\ u < p + l.size[p])
             /\ \A u \in Int : ~(InFree(w, u) /\ p <= u /\ u < p + l.size[p])
<1> DEFINE N == Nodes(l)
           K == N \ {p}
           w == Unlinked(l, prev, p)
           r == l.ptr[p]
<1>1. /\ N \subseteq Nat /\ 0 \in N /\ IsFiniteSet(N) /\ p \in N /\ prev \in N
      /\ \A a \in N : l.size[a] \in Nat /\ (l.size[a] = 0 <=> a = 0)
      /\ \A a \in N : l.ptr[a] \in N /\ After(N, a, l.ptr[a])
      /\ \A a, c \in N : a < c => a + l.size[a] < c
  BY DEF Ordered
<1>2. /\ Nodes(w) = K /\ w.freep = prev
      /\ w = [ptr |-> w.ptr, size |-> w.size, freep |-> prev]
      /\ w.ptr = [a \in K |-> IF a = prev THEN r ELSE l.ptr[a]]
      /\ w.size = [a \in K |-> l.size[a]]
  BY DEF Unlinked, Nodes
<1>3. IsFiniteSet(K)
  BY <1>1, FS_RemoveElement
<1> HIDE DEF N, w, r
<1>4. After(N, prev, p) /\ After(N, p, r) /\ r \in N /\ p \in Nat /\ prev \in Nat /\ r \in Nat
  <2>1. r \in N /\ After(N, p, r)
    BY <1>1 DEF r
  <2> QED
    BY <1>1, <2>1
<1>5. p > prev /\ \A d \in N : ~(prev < d /\ d < p)
  BY <1>4 DEF After
<1>6. prev \in K /\ r # p
  BY <1>1, <1>4, <1>5 DEF After
<1>7. ASSUME NEW a \in K PROVE w.ptr[a] \in K /\ After(K, a, w.ptr[a])
  <2>1. CASE a = prev
    <3>1. w.ptr[a] = r /\ r \in K
      BY <1>2, <1>4, <1>6, <2>1
    <3>2. CASE r > p
      <4>1. \A d \in N : ~(p < d /\ d < r)
        BY <1>4, <3>2 DEF After
      <4>2. \A d \in K : ~(prev < d /\ d < r)
        <5> SUFFICES ASSUME NEW d \in K, prev < d, d < r PROVE FALSE
          OBVIOUS
        <5>1. d \in N /\ d \in Nat /\ d # p
          BY <1>1
        <5>2. ~(d < p) /\ ~(p < d)
          BY <1>5, <4>1, <5>1
        <5> QED
          BY <1>4, <5>1, <5>2
      <4> QED
        BY <1>4, <1>5, <2>1, <3>1, <3>2, <4>2 DEF After
    <3>3. CASE ~(r > p)
      <4>1. r = 0 /\ \A d \in N : d <= p
        BY <1>4, <3>3 DEF After
      <4>2. \A d \in K : d <= prev
        <5> SUFFICES ASSUME NEW d \in K PROVE d <= prev
          OBVIOUS
        <5>1. d \in N /\ d \in Nat /\ d # p /\ d <= p
          BY <1>1, <4>1
        <5> QED
          BY <1>4, <1>5, <5>1
      <4> QED
        BY <1>4, <2>1, <3>1, <4>1, <4>2 DEF After
    <3> QED
      BY <3>2, <3>3
  <2>2. CASE a # prev
    <3> DEFINE c == l.ptr[a]
    <3>1. w.ptr[a] = c /\ a \in N /\ a \in Nat /\ a # p
      BY <1>1, <1>2, <2>2
    <3>2. c \in N /\ After(N, a, c)
      BY <1>1, <3>1
    <3> HIDE DEF c
    <3>3. c # p
      <4> SUFFICES ASSUME c = p PROVE FALSE
        OBVIOUS
      <4>1. p > a /\ \A d \in N : ~(a < d /\ d < p)
        BY <3>2 DEF After
      <4>2. ~(a < prev) /\ ~(prev < a)
        BY <1>1, <1>5, <3>1, <4>1
      <4> QED
        BY <1>4, <2>2, <3>1, <4>2
    <3> QED
      BY <3>1, <3>2, <3>3 DEF After
  <2> QED
    BY <2>1, <2>2
<1>8. \A a \in K : a \in N /\ a # p /\ w.size[a] = l.size[a]
  BY <1>2
<1>9. Ordered(w)
  <2>1. w.ptr \in [K -> K] /\ w.size \in [K -> Nat]
    <3>1. w.ptr = [a \in K |-> w.ptr[a]] /\ w.size = [a \in K |-> w.size[a]]
      BY <1>2
    <3> QED
      BY <1>1, <1>7, <1>8, <3>1
  <2>2. w \in [ptr : [K -> K], size : [K -> Nat], freep : K]
    BY <1>2, <1>6, <2>1
  <2>3. 0 \in K /\ K \subseteq Nat
    BY <1>1
  <2>4. /\ \A a \in K : w.size[a] = 0 <=> a = 0
        /\ \A a, c \in K : a < c => a + w.size[a] < c
    BY <1>1, <1>8
  <2> HIDE DEF K
  <2> QED
    BY <1>2, <1>3, <1>7, <2>2, <2>3, <2>4 DEF Ordered
<1> DEFINE In(u) == \E a \in K : a <= u /\ u < a + w.size[a]
           Was(u) == \E a \in N : a <= u /\ u < a + l.size[a]
<1>10. ASSUME NEW u \in Int PROVE Was(u) <=> In(u) \/ (p <= u /\ u < p + l.size[p])
  BY <1>1, <1>8
<1>11. ASSUME NEW u \in Int PROVE ~(In(u) /\ p <= u /\ u < p + l.size[p])
  <2> SUFFICES ASSUME NEW a \in K, a <= u, u < a + l.size[a], p <= u, u < p + l.size[p] PROVE FALSE
    BY <1>8
  <2>1. a \in N /\ a \in Nat /\ a # p /\ l.size[a] \in Nat /\ l.size[p] \in Nat
    BY <1>1
  <2>2. (a < p => a + l.size[a] < p) /\ (p < a => p + l.size[p] < a)
    BY <1>1, <2>1
  <2> QED
    BY <1>4, <2>1, <2>2
<1>12. \A u : (InFree(w, u) <=> In(u)) /\ (InFree(l, u) <=> Was(u))
  BY <1>2 DEF InFree, N
<1> HIDE DEF In, Was
<1> QED
  BY <1>9, <1>10, <1>11, <1>12 DEF w

LEMMA ShrinkOrdered ==
  ASSUME NEW l, Ordered(l), NEW prev \in Nodes(l), NEW p \in Nodes(l),
         NEW n \in Nat \ {0}, l.size[p] > n
  PROVE  LET w == Shrunk(l, prev, p, n)
             at == p + l.size[p] - n
         IN  /\ Ordered(w) /\ at \in Nat \ {0}
             /\ \A u \in Int : InFree(l, u) <=> InFree(w, u) \/ (at <= u /\ u < at + n)
             /\ \A u \in Int : ~(InFree(w, u) /\ at <= u /\ u < at + n)
<1> DEFINE N == Nodes(l)
           w == Shrunk(l, prev, p, n)
           at == p + l.size[p] - n
<1>1. /\ N \subseteq Nat /\ 0 \in N /\ IsFiniteSet(N) /\ p \in N /\ prev \in N
      /\ l \in [ptr : [N -> N], size : [N -> Nat], freep : N]
      /\ \A a \in N : l.size[a] \in Nat /\ (l.size[a] = 0 <=> a = 0)
      /\ \A a \in N : After(N, a, l.ptr[a])
      /\ \A a, c \in N : a < c => a + l.size[a] < c
  BY DEF Ordered
<1>2. /\ w \in [ptr : [N -> N], size : [N -> Int], freep : N] /\ w.ptr = l.ptr
      /\ w.size[p] = l.size[p] - n
      /\ \A a \in N : a # p => w.size[a] = l.size[a]
  <2> HIDE DEF N
  <2> DEFINE f == [l.size EXCEPT ![p] = @ - n]
  <2>1. w = [l EXCEPT !.freep = prev, !.size = f]
    BY <1>1 DEF Shrunk
  <2>2. l.size \in [N -> Nat] /\ l.size[p] - n \in Int
    BY <1>1
  <2>3. f \in [N -> Int] /\ f[p] = l.size[p] - n /\ \A a \in N : a # p => f[a] = l.size[a]
    BY <1>1, <2>2
  <2>4. l = [ptr |-> l.ptr, size |-> l.size, freep |-> l.freep] /\ l.ptr \in [N -> N]
    BY <1>1
  <2> HIDE DEF f, w
  <2>5. w = [ptr |-> l.ptr, size |-> f, freep |-> prev]
    BY <2>1, <2>4
  <2>6. w.ptr = l.ptr /\ w.size = f
    BY <2>5
  <2>7. w \in [ptr : [N -> N], size : [N -> Int], freep : N]
    BY <1>1, <2>3, <2>4, <2>5
  <2> QED
    BY <2>3, <2>6, <2>7
<1>3. Nodes(w) = N
  BY <1>1, <1>2 DEF Nodes
<1> HIDE DEF N, w
<1>4. p \in Nat /\ l.size[p] \in Nat /\ p # 0 /\ w.size[p] \in Nat \ {0} /\ w.size[p] < l.size[p]
  <2>1. p \in Nat /\ l.size[p] \in Nat /\ (l.size[p] = 0 <=> p = 0)
    BY <1>1
  <2> QED
    BY <1>2, <2>1
<1>5. \A a \in N : /\ w.size[a] \in Nat /\ w.size[a] <= l.size[a] /\ (w.size[a] = 0 <=> a = 0)
  BY <1>1, <1>2, <1>4
<1>6. \A a, c \in N : a < c => a + w.size[a] < c
  <2> SUFFICES ASSUME NEW a \in N, NEW c \in N, a < c PROVE a + w.size[a] < c
    OBVIOUS
  <2>1. a + l.size[a] < c /\ a \in Nat /\ c \in Nat /\ l.size[a] \in Nat
    BY <1>1
  <2>2. w.size[a] \in Nat /\ w.size[a] <= l.size[a]
    BY <1>5
  <2> QED
    BY <2>1, <2>2
<1>7. w \in [ptr : [N -> N], size : [N -> Nat], freep : N]
  <2>1. w.size \in [N -> Nat]
    BY <1>2, <1>5
  <2> QED
    BY <1>2, <2>1
<1>8. Ordered(w)
  BY <1>1, <1>2, <1>3, <1>5, <1>6, <1>7 DEF Ordered
<1>9. at \in Nat \ {0} /\ at = p + w.size[p] /\ at + n = p + l.size[p]
  BY <1>2, <1>4
<1> HIDE DEF at
<1> DEFINE In(u) == \E a \in N : a <= u /\ u < a + w.size[a]
           Was(u) == \E a \in N : a <= u /\ u < a + l.size[a]
<1>10. ASSUME NEW u \in Int PROVE Was(u) <=> In(u) \/ (at <= u /\ u < at + n)
  <2>1. ASSUME NEW a \in N
        PROVE  (a <= u /\ u < a + l.size[a]) <=>
                 \/ a <= u /\ u < a + w.size[a]
                 \/ a = p /\ at <= u /\ u < at + n
    <3>1. a \in Nat /\ l.size[a] \in Nat /\ w.size[a] \in Nat
      BY <1>1, <1>5
    <3>2. a # p => w.size[a] = l.size[a]
      BY <1>2
    <3> QED
      BY <1>4, <1>9, <3>1, <3>2
  <2> QED
    BY <1>1, <2>1
<1>11. ASSUME NEW u \in Int PROVE ~(In(u) /\ at <= u /\ u < at + n)
  <2> SUFFICES ASSUME NEW a \in N, a <= u, u < a + w.size[a], at <= u, u < at + n PROVE FALSE
    OBVIOUS
  <2>1. a \in Nat /\ w.size[a] \in Nat
    BY <1>1, <1>5
  <2>2. a # p
    BY <1>4, <1>9
  <2>3. (a < p => a + w.size[a] < p) /\ (p < a => p + l.size[p] < a)
    BY <1>1, <1>6
  <2> QED
    BY <1>4, <1>9, <2>1, <2>2, <2>3
<1>12. \A u : (InFree(w, u) <=> In(u)) /\ (InFree(l, u) <=> Was(u))
  BY <1>3 DEF InFree, N
<1> HIDE DEF In, Was
<1>13. Shrunk(l, prev, p, n) = w /\ p + l.size[p] - n = at
  BY DEF w, at
<1> QED
  BY <1>8, <1>9, <1>10, <1>11, <1>12, <1>13

\* malloc: a fit is taken from the free units, and the list stays in order.
LEMMA TakenOrdered ==
  ASSUME NEW l, Ordered(l), NEW n \in Nat \ {0}, Fits(l, n) # {}
  PROVE  LET t == Taken(l, n)
         IN  /\ Ordered(t.list) /\ t.at \in Nat \ {0}
             /\ \A u \in Int : InFree(l, u) <=> InFree(t.list, u) \/ (t.at <= u /\ u < t.at + n)
             /\ \A u \in Int : ~(InFree(t.list, u) /\ t.at <= u /\ u < t.at + n)
<1> DEFINE F == Fits(l, n)
           k == Min(F)
           p == Node(l, k)
           prev == Node(l, k - 1)
           t == Taken(l, n)
<1>1. F \subseteq Nat \ {0} /\ \A i \in F : l.size[Node(l, i)] >= n
  <2>1. Cardinality(Nodes(l)) \in Nat
    BY RoundIs
  <2> QED
    BY <2>1 DEF Fits
<1>2. t = IF l.size[p] = n THEN [at |-> p, list |-> Unlinked(l, prev, p)]
          ELSE [at |-> p + l.size[p] - n, list |-> Shrunk(l, prev, p, n)]
  BY Zenon DEF Taken, Unlinked, Shrunk, Cut
<1> HIDE DEF F, t
<1>3. k \in F
  BY <1>1, MinIs DEF F
<1>4. k \in Nat /\ k - 1 \in Nat /\ (k - 1) + 1 = k /\ l.size[p] >= n
  <2>1. k \in Nat \ {0} /\ l.size[p] >= n
    BY <1>1, <1>3
  <2> HIDE DEF k, p
  <2> QED
    BY <2>1
<1> HIDE DEF k
<1>5. p \in Nodes(l) /\ prev \in Nodes(l) /\ l.ptr[prev] = p
  <2>1. Node(l, (k - 1) + 1) = l.ptr[Node(l, k - 1)]
    BY <1>4, NodeIs
  <2> QED
    BY <1>4, <2>1, NodeType
<1> HIDE DEF p, prev
<1>6. l.size[p] \in Nat /\ (l.size[p] = 0 <=> p = 0) /\ p \in Nat
  BY <1>5 DEF Ordered
<1>7. CASE l.size[p] = n
  <2>1. p # 0 /\ t.at = p /\ t.list = Unlinked(l, prev, p)
    BY <1>2, <1>6, <1>7
  <2> QED
    BY <1>5, <1>6, <1>7, <2>1, UnlinkOrdered DEF t
<1>8. CASE l.size[p] # n
  <2>1. t.at = p + l.size[p] - n /\ t.list = Shrunk(l, prev, p, n) /\ l.size[p] > n
    BY <1>2, <1>4, <1>6, <1>8
  <2> QED
    BY <1>5, <2>1, ShrinkOrdered DEF t
<1> QED
  BY <1>7, <1>8

-----------------------------------------------------------------------------
\* The heap below top, for a list l, blocks G handed out and C from sbrk: the units
\* of C are those of l and of G, without overlap.
HeapWhole(l, G, top, C) ==
  /\ Ordered(l) /\ top \in Nat \ {0}
  /\ G \subseteq [at : Nat \ {0}, size : Nat \ {0}] /\ C \subseteq [at : Nat, size : Nat]
  /\ \A u \in Int : InFree(l, u) => u < top
  /\ \A b \in G : \A u \in Int : InBlock(b, u) => u < top /\ ~InFree(l, u)
  /\ \A b, c \in G : b # c => \A u \in Int : ~(InBlock(b, u) /\ InBlock(c, u))
  /\ \A u \in Int : (\E c \in C : InBlock(c, u)) <=> InFree(l, u) \/ \E b \in G : InBlock(b, u)

HeapInv == HeapWhole(list, given, brk, cores)

LEMMA FreedOrdered ==
  ASSUME NEW l, Ordered(l), NEW b \in Nat \ {0}, NEW n \in Nat \ {0},
         \A u \in Int : ~(InFree(l, u) /\ b <= u /\ u < b + n)
  PROVE  LET w == Freed(l, b, n)
         IN  /\ Ordered(w) /\ \E a \in Nodes(w) : w.size[a] >= n
             /\ \A u \in Int : InFree(w, u) <=> InFree(l, u) \/ (b <= u /\ u < b + n)
<1>1. ASSUME NEW a \in Nodes(l) PROVE b + n <= a \/ a + l.size[a] <= b
  <2>1. a \in Nat /\ l.size[a] \in Nat /\ (l.size[a] = 0 <=> a = 0)
    BY DEF Ordered
  <2> SUFFICES ASSUME a < b + n, b < a + l.size[a] PROVE FALSE
    BY <2>1
  <2> DEFINE u == IF a < b THEN b ELSE a
  <2>2. u \in Int /\ b <= u /\ u < b + n /\ a <= u /\ u < a + l.size[a]
    BY <2>1
  <2> HIDE DEF u
  <2> QED
    BY <2>2 DEF InFree
<1> DEFINE k == Min({i \in 0..Cardinality(Nodes(l)) - 1 :
                            Follows(l, Node(l, i), b)})
           p == Node(l, k)
           w == Freed(l, b, n)
<1>2. b \notin Nodes(l) /\ \E x \in Nodes(l) : Follows(l, x, b)
  BY <1>1, PlaceOfBlock
<1>3. p \in Nodes(l) /\ Follows(l, p, b)
  BY <1>2, SearchStops
<1>4. w = Inserted(l, p, b, n)
  BY FreedIs
<1> HIDE DEF p, w
<1>5. /\ p < b /\ p + l.size[p] <= b
      /\ \A d \in Nodes(l) : d <= p \/ b + n <= d
      /\ l.ptr[p] = 0 \/ b + n <= l.ptr[p]
  BY <1>1, <1>3, PlaceOfBlock
<1>6. /\ Ordered(w) /\ \E a \in Nodes(w) : w.size[a] >= n
      /\ \A u \in Int : InFree(w, u) <=> InFree(l, u) \/ (b <= u /\ u < b + n)
  BY <1>2, <1>3, <1>4, <1>5, InsertOrdered
<1> QED
  BY <1>6 DEF w

LEMMA FitFound ==
  ASSUME NEW l, Ordered(l), NEW n, NEW a \in Nodes(l), l.size[a] >= n
  PROVE  Fits(l, n) # {}
<1> DEFINE m == Cardinality(Nodes(l))
<1>1. m \in Nat \ {0} /\ Node(l, m) = l.freep /\ Node(l, 0) = l.freep
  BY RoundIs, NodeIs
<1>2. PICK k \in 0..m - 1 : Node(l, k) = a
  BY RoundIs
<1>3. \E i \in 1..m : Node(l, i) = a
  <2>1. CASE k = 0
    BY <1>1, <1>2, <2>1
  <2>2. CASE k # 0
    BY <1>1, <1>2, <2>2
  <2> QED
    BY <2>1, <2>2
<1> QED
  BY <1>3 DEF Fits

\* malloc of n units, once a block fits.
LEMMA WholeAfterGive ==
  ASSUME NEW l, NEW G, NEW top, NEW C, HeapWhole(l, G, top, C),
         NEW n \in Nat \ {0}, Fits(l, n) # {}
  PROVE  LET t == Taken(l, n)
         IN  HeapWhole(t.list, G \cup {[at |-> t.at, size |-> n]}, top, C)
<1> DEFINE t == Taken(l, n)
           b == [at |-> t.at, size |-> n]
<1>1. /\ Ordered(t.list) /\ t.at \in Nat \ {0}
      /\ \A u \in Int : InFree(l, u) <=> InFree(t.list, u) \/ InBlock(b, u)
      /\ \A u \in Int : ~(InFree(t.list, u) /\ InBlock(b, u))
  <2>1. \A u : InBlock(b, u) <=> t.at <= u /\ u < t.at + n
    BY DEF InBlock
  <2>2. /\ Ordered(t.list) /\ t.at \in Nat \ {0}
        /\ \A u \in Int : InFree(l, u) <=> InFree(t.list, u) \/ (t.at <= u /\ u < t.at + n)
        /\ \A u \in Int : ~(InFree(t.list, u) /\ t.at <= u /\ u < t.at + n)
    BY TakenOrdered DEF HeapWhole
  <2> HIDE DEF t, b
  <2> QED
    BY <2>1, <2>2
<1>2. b \in [at : Nat \ {0}, size : Nat \ {0}]
  BY <1>1
<1> DEFINE w == t.list
           H == G \cup {b}
<1> HIDE DEF t, b, w
<1>3. /\ \A u \in Int : InFree(w, u) => InFree(l, u)
      /\ \A u \in Int : InBlock(b, u) => InFree(l, u) /\ ~InFree(w, u)
      /\ \A u \in Int : InFree(l, u) <=> InFree(w, u) \/ InBlock(b, u)
      /\ Ordered(w)
  BY <1>1 DEF w
<1>4. /\ \A u \in Int : InFree(l, u) => u < top
      /\ \A c \in G : \A u \in Int : InBlock(c, u) => u < top /\ ~InFree(l, u)
      /\ \A c, d \in G : c # d => \A u \in Int : ~(InBlock(c, u) /\ InBlock(d, u))
      /\ \A u \in Int : (\E c \in C : InBlock(c, u)) <=> InFree(l, u) \/ \E c \in G : InBlock(c, u)
      /\ top \in Nat \ {0}
      /\ G \subseteq [at : Nat \ {0}, size : Nat \ {0}] /\ C \subseteq [at : Nat, size : Nat]
  BY DEF HeapWhole
<1>5. \A u \in Int : InFree(w, u) => u < top
  BY <1>3, <1>4
<1>6. \A c \in H : \A u \in Int : InBlock(c, u) => u < top /\ ~InFree(w, u)
  BY <1>3, <1>4
<1>7. \A c, d \in H : c # d => \A u \in Int : ~(InBlock(c, u) /\ InBlock(d, u))
  BY <1>3, <1>4
<1>8. \A u \in Int : (\E c \in C : InBlock(c, u)) <=> InFree(w, u) \/ \E c \in H : InBlock(c, u)
  BY <1>3, <1>4
<1>9. H \subseteq [at : Nat \ {0}, size : Nat \ {0}]
  BY <1>2, <1>4
<1> HIDE DEF H
<1>10. HeapWhole(w, H, top, C)
  BY <1>3, <1>4, <1>5, <1>6, <1>7, <1>8, <1>9 DEF HeapWhole
<1> QED
  BY <1>10 DEF H, w, b, t

\* morecore, which hands its units to free.
LEMMA WholeAfterMore ==
  ASSUME NEW l, NEW G, NEW top, NEW C, HeapWhole(l, G, top, C),
         NEW at \in Nat, NEW n \in Nat \ {0}, top <= at
  PROVE  LET w == Freed(l, at, n)
         IN  /\ HeapWhole(w, G, at + n, C \cup {[at |-> at, size |-> n]})
             /\ \E a \in Nodes(w) : w.size[a] >= n
<1> DEFINE w == Freed(l, at, n)
           b == [at |-> at, size |-> n]
           D == C \cup {b}
<1>1. /\ \A u \in Int : InFree(l, u) => u < top
      /\ \A c \in G : \A u \in Int : InBlock(c, u) => u < top /\ ~InFree(l, u)
      /\ \A c, d \in G : c # d => \A u \in Int : ~(InBlock(c, u) /\ InBlock(d, u))
      /\ \A u \in Int : (\E c \in C : InBlock(c, u)) <=> InFree(l, u) \/ \E c \in G : InBlock(c, u)
      /\ top \in Nat \ {0} /\ Ordered(l)
      /\ G \subseteq [at : Nat \ {0}, size : Nat \ {0}] /\ C \subseteq [at : Nat, size : Nat]
  BY DEF HeapWhole
<1>2. at \in Nat \ {0}
  BY <1>1
<1>3. \A u \in Int : ~(InFree(l, u) /\ at <= u /\ u < at + n)
  BY <1>1
<1>4. /\ Ordered(w) /\ \E a \in Nodes(w) : w.size[a] >= n
      /\ \A u \in Int : InFree(w, u) <=> InFree(l, u) \/ (at <= u /\ u < at + n)
  BY <1>1, <1>2, <1>3, FreedOrdered
<1>5. \A u : InBlock(b, u) <=> at <= u /\ u < at + n
  BY DEF InBlock
<1>6. b \in [at : Nat, size : Nat]
  OBVIOUS
<1> HIDE DEF w, b
<1>7. \A u \in Int : InFree(w, u) <=> InFree(l, u) \/ InBlock(b, u)
  BY <1>4, <1>5
<1>8. \A u \in Int : InFree(w, u) => u < at + n
  BY <1>1, <1>4
<1>9. \A c \in G : \A u \in Int : InBlock(c, u) => u < at + n /\ ~InFree(w, u)
  BY <1>1, <1>4
<1>10. \A u \in Int : (\E c \in D : InBlock(c, u)) <=> InFree(w, u) \/ \E c \in G : InBlock(c, u)
  BY <1>1, <1>7
<1>11. D \subseteq [at : Nat, size : Nat] /\ at + n \in Nat \ {0}
  BY <1>1, <1>6
<1> HIDE DEF D
<1>12. HeapWhole(w, G, at + n, D)
  BY <1>1, <1>4, <1>8, <1>9, <1>10, <1>11 DEF HeapWhole
<1> QED
  BY <1>4, <1>12 DEF w, b, D

\* free of a block that malloc returned.
LEMMA WholeAfterFree ==
  ASSUME NEW l, NEW G, NEW top, NEW C, HeapWhole(l, G, top, C), NEW b \in G
  PROVE  HeapWhole(Freed(l, b.at, b.size), G \ {b}, top, C)
<1> DEFINE w == Freed(l, b.at, b.size)
           H == G \ {b}
<1>1. /\ \A u \in Int : InFree(l, u) => u < top
      /\ \A c \in G : \A u \in Int : InBlock(c, u) => u < top /\ ~InFree(l, u)
      /\ \A c, d \in G : c # d => \A u \in Int : ~(InBlock(c, u) /\ InBlock(d, u))
      /\ \A u \in Int : (\E c \in C : InBlock(c, u)) <=> InFree(l, u) \/ \E c \in G : InBlock(c, u)
      /\ top \in Nat \ {0} /\ Ordered(l)
      /\ G \subseteq [at : Nat \ {0}, size : Nat \ {0}] /\ C \subseteq [at : Nat, size : Nat]
  BY DEF HeapWhole
<1>2. b.at \in Nat \ {0} /\ b.size \in Nat \ {0}
  BY <1>1
<1>3. \A u \in Int : ~(InFree(l, u) /\ b.at <= u /\ u < b.at + b.size)
  BY <1>1 DEF InBlock
<1>4. Ordered(w) /\ \A u \in Int : InFree(w, u) <=> InFree(l, u) \/ InBlock(b, u)
  BY <1>1, <1>2, <1>3, FreedOrdered DEF InBlock
<1> HIDE DEF w
<1>5. \A u \in Int : InFree(w, u) => u < top
  BY <1>1, <1>4
<1>6. \A c \in H : \A u \in Int : InBlock(c, u) => u < top /\ ~InFree(w, u)
  BY <1>1, <1>4
<1>7. \A u \in Int : (\E c \in C : InBlock(c, u)) <=> InFree(w, u) \/ \E c \in H : InBlock(c, u)
  BY <1>1, <1>4
<1>8. HeapWhole(w, H, top, C)
  BY <1>1, <1>4, <1>5, <1>6, <1>7 DEF HeapWhole
<1> QED
  BY <1>8 DEF w

LEMMA HeapInitInv == HeapInit => HeapInv
<1> SUFFICES ASSUME HeapInit PROVE HeapInv
  OBVIOUS
<1> DEFINE f == [a \in {0} |-> 0]
<1>1. list = [ptr |-> f, size |-> f, freep |-> 0] /\ given = {} /\ brk = 1 /\ cores = {}
  BY DEF HeapInit
<1>2. f \in [{0} -> {0}] /\ f \in [{0} -> Nat] /\ DOMAIN f = {0} /\ f[0] = 0
  OBVIOUS
<1> HIDE DEF f
<1>3. Nodes(list) = {0} /\ list.ptr = f /\ list.size = f
  BY <1>1, <1>2 DEF Nodes
<1>4. IsFiniteSet({0})
  BY FS_Singleton
<1>5. Ordered(list)
  <2>1. list \in [ptr : [{0} -> {0}], size : [{0} -> Nat], freep : {0}]
    BY <1>1, <1>2
  <2>2. After({0}, 0, 0)
    BY DEF After
  <2> QED
    BY <1>2, <1>3, <1>4, <2>1, <2>2 DEF Ordered
<1>6. \A u \in Int : ~InFree(list, u)
  BY <1>2, <1>3 DEF InFree
<1> QED
  BY <1>1, <1>5, <1>6 DEF HeapInv, HeapWhole

LEMMA HeapNextInv ==
  ASSUME HeapInv, HeapNext
  PROVE  HeapInv'
<1>0. HeapWhole(list, given, brk, cores)
  BY DEF HeapInv
<1>1. ASSUME NEW n \in 1..MaxUnits, Malloc(n) PROVE HeapInv'
  <2>1. n \in Nat \ {0} /\ Fits(list, n) # {}
    BY <1>1, HeapConstants DEF Malloc
  <2>2. /\ list' = Taken(list, n).list /\ brk' = brk /\ cores' = cores
        /\ given' = given \cup {[at |-> Taken(list, n).at, size |-> n]}
    BY <1>1 DEF Malloc, Give
  <2>3. HeapWhole(list', given', brk', cores')
    BY <1>0, <2>1, <2>2, WholeAfterGive
  <2> QED
    BY <2>3 DEF HeapInv
<1>2. ASSUME NEW n \in 1..MaxUnits, NEW gap \in 0..MaxGap, MallocMore(n, gap) PROVE HeapInv'
  <2> DEFINE nu == IF n < MinCore THEN MinCore ELSE n
             at == brk + gap
             l == Freed(list, at, nu)
  <2>1. n \in Nat \ {0} /\ nu \in Nat \ {0} /\ nu >= n /\ at \in Nat /\ brk <= at
    BY <1>0, HeapConstants DEF HeapWhole
  <2>2. /\ list' = Taken(l, n).list
        /\ given' = given \cup {[at |-> Taken(l, n).at, size |-> n]}
        /\ brk' = at + nu /\ cores' = cores \cup {[at |-> at, size |-> nu]}
    BY <1>2 DEF MallocMore, Give
  <2> HIDE DEF nu, at
  <2>3. /\ HeapWhole(l, given, at + nu, cores \cup {[at |-> at, size |-> nu]})
        /\ \E a \in Nodes(l) : l.size[a] >= nu
    BY <1>0, <2>1, WholeAfterMore
  <2> HIDE DEF l
  <2>4. Fits(l, n) # {}
    <3>1. PICK a \in Nodes(l) : l.size[a] >= nu
      BY <2>3
    <3>2. Ordered(l)
      BY <2>3 DEF HeapWhole
    <3>3. l.size[a] >= n
      <4>1. l.size[a] \in Nat
        BY <3>2 DEF Ordered
      <4> QED
        BY <2>1, <3>1, <4>1
    <3> QED
      BY <3>2, <3>3, FitFound
  <2>5. HeapWhole(list', given', brk', cores')
    BY <2>1, <2>2, <2>3, <2>4, WholeAfterGive
  <2> QED
    BY <2>5 DEF HeapInv
<1>3. ASSUME NEW b \in given, Free(b) PROVE HeapInv'
  <2>1. /\ list' = Freed(list, b.at, b.size) /\ given' = given \ {b}
        /\ brk' = brk /\ cores' = cores
    BY <1>3 DEF Free
  <2>2. HeapWhole(list', given', brk', cores')
    BY <1>0, <2>1, WholeAfterFree
  <2> QED
    BY <2>2 DEF HeapInv
<1> QED
  BY <1>1, <1>2, <1>3 DEF HeapNext

LEMMA InUnits ==
  ASSUME NEW S, S \subseteq [at : Nat, size : Nat]
  PROVE  /\ \A u : u \in UnitsOf(S) => u \in Int
         /\ \A u \in Int : u \in UnitsOf(S) <=> \E b \in S : InBlock(b, u)
<1>1. ASSUME NEW b \in S, NEW u
      PROVE  u \in b.at .. b.at + b.size - 1 <=> u \in Int /\ InBlock(b, u)
  <2>1. b.at \in Nat /\ b.size \in Nat
    OBVIOUS
  <2> QED
    BY <2>1 DEF InBlock
<1>2. \A u : u \in UnitsOf(S) <=> \E b \in S : u \in b.at .. b.at + b.size - 1
  BY DEF UnitsOf
<1> QED
  BY <1>1, <1>2

LEMMA HeapIsPartition == HeapInv => HeapPartition
<1> SUFFICES ASSUME HeapInv PROVE HeapPartition
  OBVIOUS
<1> DEFINE N == Nodes(list)
           F == FreeBlocks
           A == F \cup given
<1>1. /\ Ordered(list)
      /\ given \subseteq [at : Nat \ {0}, size : Nat \ {0}] /\ cores \subseteq [at : Nat, size : Nat]
      /\ \A b \in given : \A u \in Int : InBlock(b, u) => ~InFree(list, u)
      /\ \A b, c \in given : b # c => \A u \in Int : ~(InBlock(b, u) /\ InBlock(c, u))
      /\ \A u \in Int : (\E c \in cores : InBlock(c, u)) <=> InFree(list, u) \/ \E b \in given : InBlock(b, u)
  BY DEF HeapInv, HeapWhole
<1>2. /\ N \subseteq Nat /\ \A a \in N : list.size[a] \in Nat /\ (list.size[a] = 0 <=> a = 0)
      /\ \A a, c \in N : a < c => a + list.size[a] < c
  BY <1>1 DEF Ordered
<1> HIDE DEF N
<1>3. \A b : b \in F <=> \E a \in N \ {0} : b = [at |-> a, size |-> list.size[a]]
  BY DEF FreeBlocks, N
<1> HIDE DEF F
<1>4. F \subseteq [at : Nat, size : Nat \ {0}]
  <2> SUFFICES ASSUME NEW b \in F PROVE b \in [at : Nat, size : Nat \ {0}]
    OBVIOUS
  <2>1. PICK a \in N \ {0} : b = [at |-> a, size |-> list.size[a]]
    BY <1>3
  <2>2. a \in Nat /\ list.size[a] \in Nat \ {0}
    BY <1>2
  <2> QED
    BY <2>1, <2>2
<1>5. ASSUME NEW u \in Int PROVE InFree(list, u) <=> \E b \in F : InBlock(b, u)
  <2>1. ASSUME NEW a \in N, a <= u, u < a + list.size[a] PROVE \E b \in F : InBlock(b, u)
    <3> DEFINE b == [at |-> a, size |-> list.size[a]]
    <3>1. a # 0
      BY <1>2, <2>1
    <3>2. b \in F
      BY <1>3, <3>1
    <3>3. InBlock(b, u)
      BY <2>1 DEF InBlock
    <3> QED
      BY <3>2, <3>3
  <2>2. ASSUME NEW b \in F, InBlock(b, u) PROVE \E a \in N : a <= u /\ u < a + list.size[a]
    <3>1. PICK a \in N \ {0} : b = [at |-> a, size |-> list.size[a]]
      BY <1>3
    <3> QED
      BY <2>2, <3>1 DEF InBlock
  <2> QED
    BY <2>1, <2>2 DEF InFree, N
<1>6. A \subseteq [at : Nat, size : Nat] /\ \A b \in A : b.size > 0
  BY <1>1, <1>4
<1>7. UnitsOf(A) = UnitsOf(cores)
  <2>1. \A u \in Int : u \in UnitsOf(A) <=> u \in UnitsOf(cores)
    <3> SUFFICES ASSUME NEW u \in Int PROVE u \in UnitsOf(A) <=> u \in UnitsOf(cores)
      OBVIOUS
    <3>1. (u \in UnitsOf(A) <=> \E b \in A : InBlock(b, u))
          /\ (u \in UnitsOf(cores) <=> \E b \in cores : InBlock(b, u))
      BY <1>1, <1>6, InUnits
    <3>2. (\E b \in A : InBlock(b, u)) <=> (\E b \in F : InBlock(b, u)) \/ \E b \in given : InBlock(b, u)
      OBVIOUS
    <3> QED
      BY <1>1, <1>5, <3>1, <3>2
  <2>2. \A u : u \in UnitsOf(A) \/ u \in UnitsOf(cores) => u \in Int
    BY <1>1, <1>6, InUnits
  <2> QED
    BY <2>1, <2>2
<1>8. ASSUME NEW b \in A, NEW c \in A, b # c, NEW u \in Int, InBlock(b, u), InBlock(c, u)
      PROVE  FALSE
  <2>1. CASE b \in given /\ c \in given
    BY <1>1, <1>8, <2>1
  <2>2. CASE b \in given /\ c \in F
    BY <1>1, <1>5, <1>8, <2>2
  <2>3. CASE b \in F /\ c \in given
    BY <1>1, <1>5, <1>8, <2>3
  <2>4. CASE b \in F /\ c \in F
    <3>1. PICK a \in N \ {0} : b = [at |-> a, size |-> list.size[a]]
      BY <1>3, <2>4
    <3>2. PICK d \in N \ {0} : c = [at |-> d, size |-> list.size[d]]
      BY <1>3, <2>4
    <3>3. a # d /\ a \in Nat /\ d \in Nat /\ list.size[a] \in Nat /\ list.size[d] \in Nat
      BY <1>2, <1>8, <3>1, <3>2
    <3>4. (a < d => a + list.size[a] < d) /\ (d < a => d + list.size[d] < a)
      BY <1>2
    <3>5. a <= u /\ u < a + list.size[a] /\ d <= u /\ u < d + list.size[d]
      BY <1>8, <3>1, <3>2 DEF InBlock
    <3> QED
      BY <3>3, <3>4, <3>5
  <2> QED
    BY <2>1, <2>2, <2>3, <2>4
<1>9. ASSUME NEW b \in A, NEW c \in A, b # c PROVE UnitsOf({b}) \cap UnitsOf({c}) = {}
  <2> SUFFICES ASSUME NEW u, u \in UnitsOf({b}), u \in UnitsOf({c}) PROVE FALSE
    OBVIOUS
  <2>1. {b} \subseteq [at : Nat, size : Nat] /\ {c} \subseteq [at : Nat, size : Nat]
    BY <1>6
  <2>2. u \in Int /\ InBlock(b, u) /\ InBlock(c, u)
    BY <2>1, InUnits
  <2> QED
    BY <1>8, <1>9, <2>2
<1> QED
  BY <1>6, <1>7, <1>9 DEF HeapPartition, F

LEMMA HeapIsInOrder == HeapInv => ListInOrder
<1> SUFFICES ASSUME HeapInv PROVE ListInOrder
  OBVIOUS
<1> DEFINE N == Nodes(list)
<1>1. /\ N \subseteq Nat /\ 0 \in N
      /\ \A a \in N : list.size[a] \in Nat /\ list.ptr[a] \in N /\ After(N, a, list.ptr[a])
      /\ \A a, c \in N : a < c => a + list.size[a] < c
  BY DEF HeapInv, HeapWhole, Ordered
<1> HIDE DEF N
<1>2. ASSUME NEW a \in N
      PROVE  list.ptr[a] = IF \E c \in N : c > a THEN Min({c \in N : c > a}) ELSE 0
  <2> DEFINE q == list.ptr[a]
             S == {c \in N : c > a}
  <2>1. q \in N /\ After(N, a, q) /\ a \in Nat /\ q \in Nat
    BY <1>1
  <2>2. CASE q > a
    <3>1. q \in S /\ \A c \in S : q <= c
      <4>1. \A d \in N : ~(a < d /\ d < q)
        BY <2>1, <2>2 DEF After
      <4>2. q \in S
        BY <2>1, <2>2
      <4>3. ASSUME NEW c \in S PROVE q <= c
        <5>1. c \in N /\ c > a /\ c \in Nat
          BY <1>1
        <5> QED
          BY <2>1, <4>1, <5>1
      <4> QED
        BY <4>2, <4>3
    <3>2. S \subseteq Nat /\ S # {}
      BY <1>1, <3>1
    <3> HIDE DEF S, q
    <3>3. Min(S) \in S /\ Min(S) <= q
      BY <3>1, <3>2, MinIs
    <3>4. Min(S) = q
      <4>1. Min(S) \in Nat /\ q <= Min(S)
        BY <3>1, <3>2, <3>3
      <4> QED
        BY <2>1, <3>3, <4>1
    <3> QED
      BY <2>1, <2>2, <3>4 DEF S, q
  <2>3. CASE ~(q > a)
    <3>1. q = 0 /\ \A d \in N : d <= a
      BY <2>1, <2>3 DEF After
    <3>2. ~\E c \in N : c > a
      BY <1>1, <2>1, <3>1
    <3> QED
      BY <3>1, <3>2
  <2> QED
    BY <2>2, <2>3
<1>3. ASSUME NEW b \in FreeBlocks, NEW c \in FreeBlocks PROVE b.at + b.size # c.at
  <2>1. PICK a \in N \ {0} : b = [at |-> a, size |-> list.size[a]]
    BY DEF FreeBlocks, N
  <2>2. PICK d \in N \ {0} : c = [at |-> d, size |-> list.size[d]]
    BY DEF FreeBlocks, N
  <2>3. a \in Nat /\ d \in Nat /\ list.size[a] \in Nat /\ (a < d => a + list.size[a] < d)
    BY <1>1
  <2>4. a + list.size[a] # d
    <3>1. a = d => list.size[a] # 0
      BY DEF HeapInv, HeapWhole, Ordered, N
    <3> QED
      BY <2>3, <3>1
  <2> QED
    BY <2>1, <2>2, <2>4
<1> QED
  BY <1>2, <1>3 DEF ListInOrder, N

\* malloc, free and morecore (umalloc.c), for every size of request, of what is asked
\* from sbrk and of the gaps that the program's own sbrk leaves: the blocks are a
\* partition of what sbrk gave, the circular list is in the order of addresses
\* wherever freep stands, and no two free blocks touch.
THEOREM HeapStaysIntact == HeapSpec => []HeapIntact
<1>1. HeapInv /\ [HeapNext]_heapVars => HeapInv'
  <2> SUFFICES ASSUME HeapInv, [HeapNext]_heapVars PROVE HeapInv'
    OBVIOUS
  <2>1. CASE HeapNext
    BY <2>1, HeapNextInv
  <2>2. CASE UNCHANGED heapVars
    <3>1. list' = list /\ given' = given /\ brk' = brk /\ cores' = cores
      BY <2>2 DEF heapVars
    <3> QED
      BY <3>1 DEF HeapInv
  <2> QED
    BY <2>1, <2>2
<1>2. HeapInv => HeapIntact
  BY HeapIsPartition, HeapIsInOrder DEF HeapIntact
<1> QED
  BY <1>1, <1>2, HeapInitInv, PTL DEF HeapSpec
=============================================================================
