------------------------------- MODULE Memory -------------------------------
(***************************************************************************)
(* Who owns each page of memory: the allocator (kalloc.c), the images of   *)
(* processes (vm.c) as sbrk, fork, exec, exit and wait build and free      *)
(* them, and the shared segments of OS-Lab-5 (shm.c).                      *)
(*                                                                         *)
(* fork and exec build an image one kalloc() at a time while others        *)
(* allocate, and a call on a shared segment takes and releases the lock of *)
(* the table, which the first caller of shm_open may reset meanwhile; the  *)
(* rest of each call is one step.  A page directory with the kernel's part *)
(* of the tables counts as one page, and so does the table that the first  *)
(* user page needs.  Sizes are whole pages.                                *)
(***************************************************************************)
EXTENDS Integers, SequencesExt

CONSTANTS MemProcs, Initproc,  \* the slots of the process table; the one of init
          NFRAMES,    \* physical pages, from 1; 0 is the null pointer
          MaxPages,         \* bound on the size that sbrk and exec give an image
          MaxUnder,         \* bound on closes of a segment that has no reference
          NSEG              \* slots of shm_table (64)

\* Slots are numbered from 1, since 0 stands for no one; what main() takes before
\* the first process runs is there.
MemoryCondition ==
  /\ MemProcs \subseteq Nat \ {0} /\ Initproc \in MemProcs
  /\ NFRAMES \in Nat /\ NFRAMES >= 6
  /\ MaxPages \in Nat /\ MaxUnder \in Nat /\ NSEG \in Nat \ {0}
ASSUME MemoryAssumption == MemoryCondition

VARIABLES
  mlab,       \* whose kernel runs: 4, or 5 with shared memory
  mpc,        \* what the process does: "unused", "embryo", "user", "zombie", a call
  free,      \* the pages on kmem.freelist
  kstack,    \* p->kstack
  tables,    \* the pages of p->pgdir
  pages,     \* the user pages that p->pgdir maps, from 0 to p->sz
  img,       \* the image that fork or exec has under way, the page of shm_open
  kid,       \* the slot a fork is filling
  ready,     \* isSharedMemInitilized
  segs,      \* shm_table.shm_pages
  shmlock,   \* whose processor shm_table.lock names, 0 when it is free
  slot,      \* i of shm_open, the slot it has taken
  closed,    \* ghost: shm_close has given a page back
  lost,      \* ghost: pages dropped by the failure path of copyuvm
  mpanicked   \* panic() froze the machine

image == <<kstack, tables, pages>>
building == <<img, kid>>
shm == <<ready, segs, shmlock, slot>>
memoryVars == <<mlab, mpc, free, image, building, shm, closed, lost, mpanicked>>

Frames == 1..NFRAMES
NoImage == [tables |-> {}, pages |-> <<>>, want |-> 0]
EmptySeg == [id |-> 0, frame |-> 0, refcnt |-> 0]
ImageFrames(i) == i.tables \cup ToSet(i.pages)

\* userinit has made the first process, whose exec of /init has given it a page of
\* program, the guard page and the stack.
MemoryInit ==
  /\ mlab \in {4, 5}
  /\ mpc = [p \in MemProcs |-> IF p = Initproc THEN "user" ELSE "unused"]
  /\ kstack = [p \in MemProcs |-> IF p = Initproc THEN 1 ELSE 0]
  /\ tables = [p \in MemProcs |-> IF p = Initproc THEN {2, 3} ELSE {}]
  /\ pages = [p \in MemProcs |-> IF p = Initproc THEN <<4, 5, 6>> ELSE <<>>]
  /\ free = 7..NFRAMES
  /\ img = [p \in MemProcs |-> NoImage] /\ kid = [p \in MemProcs |-> p]
  /\ ready = FALSE /\ segs = [i \in 0..NSEG-1 |-> EmptySeg]
  /\ shmlock = 0 /\ slot = [p \in MemProcs |-> 0]
  /\ closed = FALSE /\ lost = 0 /\ mpanicked = FALSE 

\* What n <= 2 calls of kalloc() return: pages are alike, so any choice will do.
Kalloc(n) == [i \in 1..n |-> IF i = 1 THEN Min(free) ELSE Min(free \ {Min(free)})]

\* kfree() of each page of S: nothing notices a page that is free already.
Kfree(S) == free' = free \cup S

-----------------------------------------------------------------------------
\* growproc: allocuvm for n > 0, which undoes a partial growth; deallocuvm.
Grow(p, n) ==
  /\ mpc[p] = "user" /\ Len(pages[p]) + n <= MaxPages
  /\ Cardinality(free) >= n
  /\ pages' = [pages EXCEPT ![p] = @ \o Kalloc(n)]
  /\ free' = free \ ToSet(Kalloc(n))
  /\ UNCHANGED <<mlab, mpc, kstack, tables, building, shm, closed, lost, mpanicked>>

Shrink(p) ==
  /\ mpc[p] = "user" /\ Len(pages[p]) > 1
  /\ Kfree({pages[p][Len(pages[p])]})
  /\ pages' = [pages EXCEPT ![p] = SubSeq(@, 1, Len(@) - 1)]
  /\ UNCHANGED <<mlab, mpc, kstack, tables, building, shm, closed, lost, mpanicked>>

-----------------------------------------------------------------------------
\* allocproc and setupkvm: with a page too few fork gives the other back.
Fork(p, q) ==
  /\ mpc[p] = "user" /\ mpc[q] = "unused"
  /\ Cardinality(free) >= 2
  /\ LET new == Kalloc(2)
     IN  /\ free' = free \ ToSet(new)
         /\ kstack' = [kstack EXCEPT ![q] = new[1]]
         /\ img' = [img EXCEPT ![p] = [tables |-> {new[2]}, pages |-> <<>>, want |-> Len(pages[p])]]
  /\ kid' = [kid EXCEPT ![p] = q]
  /\ mpc' = [mpc EXCEPT ![p] = "fork", ![q] = "embryo"]
  /\ UNCHANGED <<mlab, tables, pages, shm, closed, lost, mpanicked>>

\* exec: setupkvm, then allocuvm for the program and its stack.
Exec(p, n) ==
  /\ mpc[p] = "user" /\ free # {}
  /\ free' = free \ ToSet(Kalloc(1))
  /\ img' = [img EXCEPT ![p] = [tables |-> ToSet(Kalloc(1)), pages |-> <<>>, want |-> n]]
  /\ mpc' = [mpc EXCEPT ![p] = "exec"]
  /\ UNCHANGED <<mlab, image, kid, shm, closed, lost, mpanicked>>

\* The pages that the next page of an image takes: its own, and the first
\* one's page table.
Needed(p) == IF img[p].pages = <<>> THEN 2 ELSE 1

\* One turn of the loop of copyuvm or allocuvm: kalloc and mappages.
AddPage(p) ==
  /\ mpc[p] \in {"fork", "exec"} /\ Len(img[p].pages) < img[p].want
  /\ Cardinality(free) >= Needed(p)
  /\ LET new == Kalloc(Needed(p))
     IN  /\ img' = [img EXCEPT ![p].pages = Append(@, new[1]),
                               ![p].tables = @ \cup ToSet(Tail(new))]
         /\ free' = free \ ToSet(new)
  /\ UNCHANGED <<mlab, mpc, image, kid, shm, closed, lost, mpanicked>>

\* Out of memory.  When the table is what is missing, copyuvm of OS-Lab-4
\* frees the page it holds and that of OS-Lab-5 forgets it.
Dropped(p) == IF mlab = 5 /\ mpc[p] = "fork" THEN free ELSE {}

\* Faulty variant: freevm is forgotten.
Released_NotImage(p) == IF mpc[p] = "fork" THEN {kstack[kid[p]]} ELSE {}

\* freevm(pgdir), and fork gives back the kernel stack of the child.
Released(p) ==
  ImageFrames(img[p]) \cup IF mpc[p] = "fork" THEN {kstack[kid[p]]} ELSE {}

Abandon(p) ==
  /\ mpc[p] \in {"fork", "exec"} /\ Len(img[p].pages) < img[p].want
  /\ Cardinality(free) < Needed(p)
  /\ free' = (free \ Dropped(p)) \cup Released(p)
  /\ lost' = lost + Cardinality(Dropped(p))
  /\ kstack' = IF mpc[p] = "fork" THEN [kstack EXCEPT ![kid[p]] = 0] ELSE kstack
  /\ mpc' = IF mpc[p] = "fork" THEN [mpc EXCEPT ![p] = "user", ![kid[p]] = "unused"]
           ELSE [mpc EXCEPT ![p] = "user"]
  /\ img' = [img EXCEPT ![p] = NoImage] /\ kid' = [kid EXCEPT ![p] = p]
  /\ UNCHANGED <<mlab, tables, pages, shm, closed, mpanicked>>

ForkDone(p) ==
  /\ mpc[p] = "fork" /\ Len(img[p].pages) = img[p].want
  /\ tables' = [tables EXCEPT ![kid[p]] = img[p].tables]
  /\ pages' = [pages EXCEPT ![kid[p]] = img[p].pages]
  /\ mpc' = [mpc EXCEPT ![p] = "user", ![kid[p]] = "user"]
  /\ img' = [img EXCEPT ![p] = NoImage] /\ kid' = [kid EXCEPT ![p] = p]
  /\ UNCHANGED <<mlab, free, kstack, shm, closed, lost, mpanicked>>

\* Commit to the new image, and free the old one.
ExecDone(p) ==
  /\ mpc[p] = "exec" /\ Len(img[p].pages) = img[p].want
  /\ Kfree(tables[p] \cup ToSet(pages[p]))
  /\ tables' = [tables EXCEPT ![p] = img[p].tables]
  /\ pages' = [pages EXCEPT ![p] = img[p].pages]
  /\ mpc' = [mpc EXCEPT ![p] = "user"] /\ img' = [img EXCEPT ![p] = NoImage]
  /\ UNCHANGED <<mlab, kstack, kid, shm, closed, lost, mpanicked>>

Exit(p) ==
  /\ mpc[p] = "user" /\ p # Initproc
  /\ mpc' = [mpc EXCEPT ![p] = "zombie"]
  /\ UNCHANGED <<mlab, free, image, building, shm, closed, lost, mpanicked>>

\* wait: kfree(p->kstack), freevm(p->pgdir).
Reap(p) ==
  /\ mpc[p] = "zombie"
  /\ Kfree({kstack[p]} \cup tables[p] \cup ToSet(pages[p]))
  /\ kstack' = [kstack EXCEPT ![p] = 0]
  /\ tables' = [tables EXCEPT ![p] = {}] /\ pages' = [pages EXCEPT ![p] = <<>>]
  /\ mpc' = [mpc EXCEPT ![p] = "unused"]
  /\ UNCHANGED <<mlab, building, shm, closed, lost, mpanicked>>

-----------------------------------------------------------------------------
\* Between acquire and release of shm_table.lock, and a call that no longer
\* holds the lock it took.
ShmSection == {"shmclear", "shmopen", "shmmap", "shmclose"}
Doomed == \E p \in MemProcs : mpc[p] \in ShmSection /\ shmlock # p

\* acquire spins until the lock is free, and release panics unless the caller
\* holds it (spinlock.c:48).
ShmAcquire(p, section) ==
  /\ shmlock = 0 /\ shmlock' = p
  /\ mpc' = [mpc EXCEPT ![p] = section]

ShmRelease(p, next) ==
  /\ mpanicked' = (shmlock # p)
  /\ shmlock' = IF shmlock = p THEN 0 ELSE shmlock
  /\ mpc' = [mpc EXCEPT ![p] = next]

\* shm_open reads the flag without a lock ...
ShmTest(p) ==
  /\ mlab = 5 /\ mpc[p] = "user" /\ ~ready /\ Len(pages[p]) < MaxPages
  /\ mpc' = [mpc EXCEPT ![p] = "shminit"]
  /\ UNCHANGED <<mlab, free, image, building, shm, closed, lost, mpanicked>>

\* ... and shminit makes the lock free, though another may be inside: one whose
\* acquire is between its two stores loses it too, as if it had come before ...
ShmInitLock(p) ==
  /\ mpc[p] = "shminit" /\ mpc' = [mpc EXCEPT ![p] = "shmwait"]
  /\ shmlock' = 0
  /\ UNCHANGED <<mlab, free, image, building, ready, segs, slot, closed, lost, mpanicked>>

ShmInitAcquire(p) ==
  /\ mpc[p] = "shmwait" /\ ShmAcquire(p, "shmclear")
  /\ UNCHANGED <<mlab, free, image, building, ready, segs, slot, closed, lost, mpanicked>>

\* ... clears a table that another may be using, and only then is the flag set.
ShmClear(p) ==
  /\ mpc[p] = "shmclear" /\ ShmRelease(p, "shmready")
  /\ segs' = [i \in 0..NSEG-1 |-> EmptySeg]
  /\ UNCHANGED <<mlab, free, image, building, ready, slot, closed, lost>>

ShmReady(p) ==
  /\ mpc[p] = "shmready" /\ mpc' = [mpc EXCEPT ![p] = "shm"]
  /\ ready' = TRUE
  /\ UNCHANGED <<mlab, free, image, building, segs, shmlock, slot, closed, lost, mpanicked>>

ShmEnter(p) ==
  /\ mpc[p] = "shm" \/ (mlab = 5 /\ mpc[p] = "user" /\ ready /\ Len(pages[p]) < MaxPages)
  /\ ShmAcquire(p, "shmopen")
  /\ UNCHANGED <<mlab, free, image, building, ready, segs, slot, closed, lost, mpanicked>>

\* An id out of range, or for shm_close one without a segment.
ShmRefuse(p) ==
  /\ mpc[p] \in {"shmopen", "shmclose"} /\ ShmRelease(p, "user")
  /\ UNCHANGED <<mlab, free, image, building, ready, segs, slot, closed, lost>>

\* Case 1: the page is to be mapped at the address kalloc() returns, where
\* every page table maps the kernel: mappages panics "remap".
ShmAttach(p, id) ==
  /\ mpc[p] = "shmopen" /\ segs[id].id # 0
  /\ IF free = {}
     THEN ShmRelease(p, "user") /\ UNCHANGED free
     ELSE /\ mpanicked' = TRUE /\ free' = free \ ToSet(Kalloc(1))
          /\ UNCHANGED <<mpc, shmlock>>
  /\ UNCHANGED <<mlab, image, building, ready, segs, slot, closed, lost>>

\* Case 2: the first free slot, whatever the id.  An id of 0 leaves it free;
\* without memory it keeps the id and has no page.
ShmClaim(p, id) ==
  /\ mpc[p] = "shmopen" /\ segs[id].id = 0
  /\ slot' = [slot EXCEPT ![p] =
       CHOOSE j \in 0..NSEG-1 : segs[j].id = 0 /\ \A k \in 0..j-1 : segs[k].id # 0]
  /\ IF free = {}
     THEN /\ segs' = [segs EXCEPT ![slot'[p]].id = id, ![slot'[p]].frame = 0]
          /\ ShmRelease(p, "user") /\ UNCHANGED <<free, img>>
     ELSE /\ segs' = [segs EXCEPT ![slot'[p]].id = id, ![slot'[p]].frame = Kalloc(1)[1]]
          /\ img' = [img EXCEPT ![p].pages = Kalloc(1)]
          /\ free' = free \ ToSet(Kalloc(1))
          /\ mpc' = [mpc EXCEPT ![p] = "shmmap"] /\ UNCHANGED <<shmlock, mpanicked>>
  /\ UNCHANGED <<mlab, image, kid, ready, closed, lost>>

\* The frame is read again from the table.
ShmMap(p) ==
  /\ mpc[p] = "shmmap" /\ ShmRelease(p, "user")
  /\ IF segs[slot[p]].frame = 0
     THEN UNCHANGED <<segs, pages>>
     ELSE /\ segs' = [segs EXCEPT ![slot[p]].refcnt = 1]
          /\ pages' = [pages EXCEPT ![p] = Append(@, segs[slot[p]].frame)]
  /\ img' = [img EXCEPT ![p].pages = <<>>] /\ slot' = [slot EXCEPT ![p] = 0]
  /\ UNCHANGED <<mlab, free, kstack, tables, kid, ready, closed, lost>>

ShmCloseEnter(p) ==
  /\ mlab = 5 /\ mpc[p] = "user" /\ ShmAcquire(p, "shmclose")
  /\ UNCHANGED <<mlab, free, image, building, ready, segs, slot, closed, lost, mpanicked>>

\* shm_close: at the last reference the page goes to the free list, mapped or
\* not; kfree(0) panics.
ShmClose(p, id) ==
  /\ mpc[p] = "shmclose" /\ segs[id].id # 0 /\ segs[id].refcnt > -MaxUnder
  /\ IF segs[id].refcnt # 1
     THEN /\ segs' = [segs EXCEPT ![id].refcnt = @ - 1]
          /\ ShmRelease(p, "user") /\ UNCHANGED <<free, closed>>
     ELSE /\ segs' = [segs EXCEPT ![id] = EmptySeg]
          /\ closed' = TRUE
          /\ IF segs[id].frame = 0
             THEN mpanicked' = TRUE /\ UNCHANGED <<mpc, shmlock, free>>
             ELSE ShmRelease(p, "user") /\ Kfree({segs[id].frame})
  /\ UNCHANGED <<mlab, image, building, ready, slot, lost>>

ShmStep(p) ==
  \/ ShmTest(p) \/ ShmInitLock(p) \/ ShmInitAcquire(p) \/ ShmClear(p) \/ ShmReady(p)
  \/ ShmEnter(p) \/ ShmRefuse(p) \/ ShmMap(p) \/ ShmCloseEnter(p)
  \/ \E id \in 0..NSEG-1 : ShmAttach(p, id) \/ ShmClaim(p, id) \/ ShmClose(p, id)

MemoryStep(p) ==
  \/ \E n \in 1..2 : Grow(p, n)
  \/ Shrink(p)
  \/ \E q \in MemProcs : Fork(p, q)
  \/ \E n \in 2..MaxPages : Exec(p, n)
  \/ AddPage(p) \/ Abandon(p) \/ ForkDone(p) \/ ExecDone(p)
  \/ Exit(p) \/ Reap(p)
  \/ ShmStep(p)

MemoryNext == ~mpanicked /\ ~closed /\ \E p \in MemProcs : MemoryStep(p)

MemorySpec == MemoryInit /\ [][MemoryNext]_memoryVars

-----------------------------------------------------------------------------
\* Where a page is in use.
Places(f) ==
  {<<p, "kstack", 0>> : p \in {q \in MemProcs : kstack[q] = f}}
  \cup {<<p, "table", 0>> : p \in {q \in MemProcs : f \in tables[q] \cup img[q].tables}}
  \cup (UNION {{<<p, "page", i>> : i \in {j \in 1..Len(pages[p]) : pages[p][j] = f}} : p \in MemProcs})
  \cup (UNION {{<<p, "new", i>> : i \in {j \in 1..Len(img[p].pages) : img[p].pages[j] = f}} : p \in MemProcs})

\* A page is free or has one owner, and no page is forgotten but for the one
\* that each failing fork of OS-Lab-5 may drop (vm.c: no kfree(mem) when mappages
\* fails).
OneOwner ==
  \A f \in Frames : Cardinality(Places(f)) + (IF f \in free THEN 1 ELSE 0) <= 1

NoLeak == Cardinality({f \in Frames : f \notin free /\ Places(f) = {}}) = lost

\* Through every failure of sbrk, fork and exec, while others allocate, each page
\* is on the free list or has one owner.  In OS-Lab-5 it ends with the first
\* shm_close that frees a segment, since the page stays mapped, and when a second
\* shminit takes the lock from a running call.
PagesAccounted == ~mpanicked /\ ~closed /\ ~Doomed => OneOwner /\ NoLeak
=============================================================================
