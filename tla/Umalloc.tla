------------------------------ MODULE Umalloc ------------------------------
(***************************************************************************)
(* malloc and free of the user library (umalloc.c): a circular list of     *)
(* free blocks in the order of their addresses.  Addresses and sizes count *)
(* headers; the static block `base' of size 0 lies below the heap, at 0.   *)
(* A program calls one function at a time, so a call is a step.            *)
(***************************************************************************)
EXTENDS Integers, FiniteSetsExt

CONSTANTS MaxUnits,  \* the largest request
          MinCore,   \* what morecore asks for at least (4096)
          MaxGap,    \* the largest number of headers the program takes from sbrk itself
          MaxHeap    \* bound on the heap

ASSUME HeapConstants == MaxUnits \in Nat /\ MinCore \in Nat /\ MaxGap \in Nat

VARIABLES list,   \* the free list: ptr and size of each header on it, and freep
          given,  \* blocks that malloc has returned, as [at, size]
          brk,    \* where sbrk will put the next units
          cores   \* what sbrk has returned

heapVars == <<list, given, brk, cores>>

\* The state after the first malloc has set up base.
HeapInit ==
  /\ list = [ptr |-> [a \in {0} |-> 0], size |-> [a \in {0} |-> 0], freep |-> 0]
  /\ given = {} /\ brk = 1 /\ cores = {}

Nodes(l) == DOMAIN l.ptr

\* The header k links behind freep.
Node(l, k) ==
  LET node[i \in 0..k] == IF i = 0 THEN l.freep ELSE l.ptr[node[i-1]] IN node[k]

\* Block b belongs behind header p: between p and the next one, or beyond
\* both at the place where the addresses wrap.
Follows(l, p, b) ==
  \/ p < b /\ b < l.ptr[p]
  \/ p >= l.ptr[p] /\ (b > p \/ b < l.ptr[p])

\* Faulty variant: a block is never joined to the one below it.
Touches_Never(l, p, b) == FALSE

\* p + p->s.size == bp
Touches(l, p, b) == p + l.size[p] = b

\* free: block b of n units goes behind p, joined to the block above it, to
\* the one below it, or to both.
Freed(l, b, n) ==
  LET k == Min({i \in 0..Cardinality(Nodes(l)) - 1 : Follows(l, Node(l, i), b)})
      p == Node(l, k)
      above == b + n = l.ptr[p]
      below == Touches(l, p, b)
      keep == (Nodes(l) \cup (IF below THEN {} ELSE {b})) \ (IF above THEN {l.ptr[p]} ELSE {})
      bsize == IF above THEN n + l.size[l.ptr[p]] ELSE n
      bptr == IF above THEN l.ptr[l.ptr[p]] ELSE l.ptr[p]
  IN  [freep |-> p,
       ptr |-> [a \in keep |->
                 IF a = p THEN (IF below THEN bptr ELSE b) ELSE IF a = b THEN bptr ELSE l.ptr[a]],
       size |-> [a \in keep |->
                 IF a = p /\ below THEN l.size[p] + bsize ELSE IF a = b THEN bsize ELSE l.size[a]]]

\* The first block that is large enough, in a round that ends with freep.
Fits(l, n) == {k \in 1..Cardinality(Nodes(l)) : l.size[Node(l, k)] >= n}

\* Where a block of n units is cut off from header p.
Cut(l, p, n) == p + l.size[p] - n

\* What malloc does with the first fit: unlink it or cut off its upper end.
Taken(l, n) ==
  LET k == Min(Fits(l, n))
      p == Node(l, k)
      prev == Node(l, k - 1)
      rest == Nodes(l) \ {p}
  IN  IF l.size[p] = n
      THEN [at |-> p,
            list |-> [freep |-> prev, size |-> [a \in rest |-> l.size[a]],
                      ptr |-> [a \in rest |-> IF a = prev THEN l.ptr[p] ELSE l.ptr[a]]]]
      ELSE [at |-> Cut(l, p, n),
            list |-> [l EXCEPT !.freep = prev, !.size[p] = @ - n]]

Give(l, n) ==
  /\ list' = Taken(l, n).list
  /\ given' = given \cup {[at |-> Taken(l, n).at, size |-> n]}

Malloc(n) ==
  /\ Fits(list, n) # {} /\ Give(list, n)
  /\ UNCHANGED <<brk, cores>>

\* No block fits: morecore, then another round from freep.  The program may
\* have called sbrk itself, so the new units may lie above a gap.
MallocMore(n, gap) ==
  LET nu == IF n < MinCore THEN MinCore ELSE n
      at == brk + gap
  IN  /\ Fits(list, n) = {} /\ at + nu <= MaxHeap
      /\ Give(Freed(list, at, nu), n)
      /\ brk' = at + nu
      /\ cores' = cores \cup {[at |-> at, size |-> nu]}

Free(b) ==
  /\ b \in given
  /\ list' = Freed(list, b.at, b.size) /\ given' = given \ {b}
  /\ UNCHANGED <<brk, cores>>

HeapNext ==
  \/ \E n \in 1..MaxUnits : Malloc(n) \/ \E gap \in 0..MaxGap : MallocMore(n, gap)
  \/ \E b \in given : Free(b)

HeapSpec == HeapInit /\ [][HeapNext]_heapVars

-----------------------------------------------------------------------------
UnitsOf(S) == UNION {b.at .. b.at + b.size - 1 : b \in S}
FreeBlocks == {[at |-> a, size |-> list.size[a]] : a \in Nodes(list) \ {0}}

\* Every unit that sbrk gave is free or handed out, and never twice: no two
\* blocks overlap and none is lost, through any sequence of calls.
HeapPartition ==
  LET all == FreeBlocks \cup given IN
  /\ UnitsOf(all) = UnitsOf(cores)
  /\ \A b, c \in all : b # c => UnitsOf({b}) \cap UnitsOf({c}) = {}
  /\ \A b \in all : b.size > 0

\* From base the list leads through all free blocks upwards and back, wherever
\* freep stands, so the loop of free() ends and finds the neighbours; and
\* neighbours that touch are always joined.
ListInOrder ==
  /\ \A a \in Nodes(list) :
       list.ptr[a] = IF \E c \in Nodes(list) : c > a
                     THEN Min({c \in Nodes(list) : c > a}) ELSE 0
  /\ \A b, c \in FreeBlocks : b.at + b.size # c.at

\* The heap is whole, and so is the list through its free blocks.
HeapIntact == HeapPartition /\ ListInOrder
=============================================================================
