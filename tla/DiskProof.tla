----------------------------- MODULE DiskProof -----------------------------
(***************************************************************************)
(* Theorems about the buffer cache and the disk driver, for any number of  *)
(* uses, blocks and buffers.                                               *)
(*                                                                         *)
(* The inductive invariant has four layers.  Locks: a buffer is locked by  *)
(* exactly the process that waits for the disk with it or works in it.     *)
(* Queue: idequeue holds no buffer twice, and only buffers that need the   *)
(* disk and whose holder is inside iderw; whoever is inside has its buffer *)
(* queued or done.  References: ref counts the processes that are past     *)
(* bget, so what is queued or held is not recycled.  Data: what was last   *)
(* put into a block is in its valid buffer, and on the disk unless that    *)
(* buffer is dirty.                                                        *)
(***************************************************************************)
EXTENDS Disk, FunctionTheorems, FiniteSetTheorems, TLAPS

Buffers == [blk : Blocks \cup {Unused}, valid : BOOLEAN, dirty : BOOLEAN,
            ref : Nat, data : Contents]
PCs == {"idle", "lock", "sleep", "woken", "hold", "put"}

TypeOK ==
  /\ bufs \in [Bufs -> Buffers]
  /\ holder \in [Bufs -> Clients \cup {Nobody}]
  /\ idequeue \in Seq(Bufs)
  /\ platter \in [Blocks -> Contents] /\ newest \in [Blocks -> Contents]
  /\ dpc \in [Clients -> PCs] /\ mine \in [Clients -> Bufs]
  /\ bad \subseteq Blocks /\ nobuf \in BOOLEAN

\* bcache's list holds every buffer exactly once.
LruInv ==
  /\ lru \in [1..NBUF -> Bufs]
  /\ \A i, j \in 1..NBUF : lru[i] = lru[j] => i = j
  /\ \A b \in Bufs : \E i \in 1..NBUF : lru[i] = b

InIderw(p) == dpc[p] \in {"sleep", "woken"}

LockInv == \A p \in Clients, b \in Bufs :
  holder[b] = p <=> mine[p] = b /\ (InIderw(p) \/ dpc[p] = "hold")

\* What is queued needs the disk, and its holder is in iderw.
Queued == \A i \in 1..Len(idequeue) : LET b == idequeue[i] IN
  ~Synced(bufs[b]) /\ \E p \in Clients : holder[b] = p /\ InIderw(p)

QueuedOnce == \A i, j \in 1..Len(idequeue) : idequeue[i] = idequeue[j] => i = j

\* Whoever was woken, by the interrupt or by a kill, has its answer or is queued.
WokenDone == \A p \in Clients : dpc[p] = "woken" =>
  Contains(idequeue, mine[p]) \/ Synced(bufs[mine[p]])

QueueInv == Queued /\ QueuedOnce /\ WokenDone /\ NoLostRequest

Users(b) == {p \in Clients : dpc[p] # "idle" /\ mine[p] = b}

RefInv ==
  /\ OneBufferPerBlock
  /\ \A b \in Bufs : bufs[b].ref > 0 => bufs[b].blk # Unused

ValidData == \A b \in Bufs : LET f == bufs[b] IN
  f.valid => f.blk # Unused /\ (f.blk \in bad \/ f.data = newest[f.blk])

DirtyValid == \A b \in Bufs : bufs[b].dirty => bufs[b].valid

\* What the disk does not have is in a dirty buffer.
DiskData == \A k \in Blocks :
  \/ k \in bad \/ platter[k] = newest[k]
  \/ \E b \in Bufs : bufs[b].blk = k /\ bufs[b].dirty

HoldValid == \A p \in Clients : dpc[p] = "hold" => bufs[mine[p]].valid

DataInv == ValidData /\ DirtyValid /\ DiskData /\ HoldValid

IInv == TypeOK /\ LruInv /\ LockInv /\ QueueInv /\ RefInv /\ DataInv /\ PanicsOnlyWhenFull

-----------------------------------------------------------------------------
\* In this step only buffer b changes, to these fields.
Changed(b, blk, valid, dirty, ref, data) ==
  /\ bufs' \in [Bufs -> Buffers]
  /\ \A c \in Bufs : c # b => bufs'[c] = bufs[c]
  /\ bufs'[b].blk = blk /\ bufs'[b].valid = valid /\ bufs'[b].dirty = dirty
  /\ bufs'[b].ref = ref /\ bufs'[b].data = data

\* 0, nobody and no block, is neither a process nor a block.
LEMMA BufFacts == Nobody \notin Clients /\ Unused \notin Blocks
BY DiskConstants DEF Nobody, Unused

\* A buffer some process uses is counted, and has a block.
LEMMA InUse ==
  ASSUME TypeOK, RefInv, NEW p \in Clients, dpc[p] # "idle"
  PROVE  mine[p] \in Bufs /\ bufs[mine[p]].ref > 0 /\ bufs[mine[p]].blk \in Blocks
<1> DEFINE b == mine[p]
<1>1. b \in Bufs /\ bufs[b] \in Buffers
  BY DEF TypeOK
<1>2. IsFiniteSet(Users(b)) /\ Users(b) # {}
  BY <1>1, FS_Subset, DiskConstants DEF Users
<1>3. Cardinality(Users(b)) # 0 /\ Cardinality(Users(b)) \in Nat
  BY <1>2, FS_EmptySet, FS_CardinalityType
<1>4. bufs[b].ref > 0
  BY <1>1, <1>3 DEF RefInv, OneBufferPerBlock, Users
<1> QED
  BY <1>1, <1>4 DEF RefInv, Buffers

\* So is one that is queued.
LEMMA QueuedInUse ==
  ASSUME TypeOK, LockInv, QueueInv, RefInv, NEW i \in 1..Len(idequeue)
  PROVE  LET b == idequeue[i] IN
         b \in Bufs /\ bufs[b].ref > 0 /\ bufs[b].blk \in Blocks
<1>1. idequeue[i] \in Bufs
  BY DEF TypeOK
<1>2. PICK p \in Clients : holder[idequeue[i]] = p /\ InIderw(p)
  BY DEF QueueInv, Queued
<1>3. mine[p] = idequeue[i] /\ dpc[p] # "idle"
  BY <1>1, <1>2 DEF LockInv, InIderw
<1> QED
  BY <1>3, InUse

-----------------------------------------------------------------------------
\* What each step does, with the buffer it works on named and its fields spelled
\* out.
HitOn(p, k, b) == LET f == bufs[b] IN
  /\ dpc[p] = "idle" /\ f.blk = k
  /\ Changed(b, f.blk, f.valid, f.dirty, f.ref + 1, f.data)
  /\ mine' = [mine EXCEPT ![p] = b] /\ Goto(p, "lock")
  /\ UNCHANGED <<lru, holder, idequeue, drive, platter, newest, bad, nobuf>>

RecycleOn(p, k, b) == LET f == bufs[b] IN
  /\ dpc[p] = "idle" /\ \A c \in Bufs : bufs[c].blk # k
  /\ f.ref = 0 /\ ~f.dirty
  /\ Changed(b, k, FALSE, FALSE, 1, f.data)
  /\ mine' = [mine EXCEPT ![p] = b] /\ Goto(p, "lock")
  /\ UNCHANGED <<lru, holder, idequeue, drive, platter, newest, bad, nobuf>>

Panics(p) ==
  /\ dpc[p] = "idle" /\ \A c \in Bufs : bufs[c].ref # 0 \/ bufs[c].dirty
  /\ nobuf'
  /\ UNCHANGED <<bufs, lru, holder, idequeue, drive, platter, dpc, mine, newest, bad>>

Queue(p, b) ==
  /\ idequeue' = Append(idequeue, b) /\ Goto(p, "sleep")
  /\ drive' = IF idequeue = <<>> THEN Command(bufs'[b]) ELSE drive

ReadCached(p, b) ==
  /\ mine[p] = b /\ dpc[p] = "lock" /\ holder[b] = Nobody /\ bufs[b].valid
  /\ holder' = [holder EXCEPT ![b] = p] /\ Goto(p, "hold")
  /\ UNCHANGED <<bufs, lru, idequeue, drive, platter, mine, newest, bad, nobuf>>

ReadQueued(p, b) ==
  /\ mine[p] = b /\ dpc[p] = "lock" /\ holder[b] = Nobody /\ ~bufs[b].valid
  /\ holder' = [holder EXCEPT ![b] = p] /\ Queue(p, b)
  /\ UNCHANGED <<bufs, lru, platter, mine, newest, bad, nobuf>>

WriteQueued(p, b, v) == LET f == bufs[b] IN
  /\ mine[p] = b /\ dpc[p] = "hold"
  /\ Changed(b, f.blk, f.valid, TRUE, f.ref, v)
  /\ newest' = [newest EXCEPT ![f.blk] = v] /\ Queue(p, b)
  /\ UNCHANGED <<lru, holder, platter, mine, bad, nobuf>>

Pin(p, b, v) == LET f == bufs[b] IN
  /\ mine[p] = b /\ dpc[p] = "hold"
  /\ b \in Pinned \/ Cardinality(Pinned) < MaxPinned
  /\ Changed(b, f.blk, f.valid, TRUE, f.ref, v)
  /\ newest' = [newest EXCEPT ![f.blk] = v]
  /\ UNCHANGED <<lru, holder, idequeue, drive, platter, dpc, mine, bad, nobuf>>

Served(b, ok) == LET f == bufs[b] IN
  /\ idequeue # <<>> /\ b = Head(idequeue) /\ (~ok => ~f.dirty)
  /\ Changed(b, f.blk, TRUE, FALSE, f.ref, IF ~f.dirty /\ ok THEN platter[f.blk] ELSE f.data)
  /\ platter' = IF f.dirty THEN [platter EXCEPT ![f.blk] = f.data] ELSE platter
  /\ bad' = IF ok THEN bad ELSE bad \cup {f.blk}
  /\ dpc' = [p \in Clients |-> IF dpc[p] = "sleep" /\ mine[p] = b THEN "woken" ELSE dpc[p]]
  /\ idequeue' = Tail(idequeue)
  /\ drive' = IF idequeue' = <<>> THEN Idle ELSE Command(bufs[Head(idequeue')])
  /\ UNCHANGED <<lru, holder, mine, newest, nobuf>>

GivenBack(p, b) == LET f == bufs[b] IN
  /\ mine[p] = b /\ dpc[p] = "put" /\ Goto(p, "idle")
  /\ Changed(b, f.blk, f.valid, f.dirty, f.ref - 1, f.data)
  /\ lru' \in {lru, ToFront(b)}
  /\ UNCHANGED <<holder, idequeue, drive, platter, mine, newest, bad, nobuf>>

Effect ==
  \/ \E p \in Clients, k \in Blocks, b \in Bufs : HitOn(p, k, b) \/ RecycleOn(p, k, b)
  \/ \E p \in Clients : Panics(p) \/ Kill(p) \/ Woken(p) \/ ReleaseBuf(p)
  \/ \E p \in Clients, b \in Bufs : ReadCached(p, b) \/ ReadQueued(p, b) \/ GivenBack(p, b)
  \/ \E p \in Clients, b \in Bufs, v \in Contents : WriteQueued(p, b, v) \/ Pin(p, b, v)
  \/ \E b \in Bufs, ok \in BOOLEAN : Served(b, ok)
  \/ UNCHANGED vars

Frame == <<lru, holder, idequeue, drive, platter, newest, bad>>

\* bget's first scan names the buffer that caches k.
LEMMA HitEffect ==
  ASSUME TypeOK, NEW p \in Clients, NEW k \in Blocks,
         dpc[p] = "idle", Hit(p, k), UNCHANGED Frame
  PROVE  \E b \in Bufs : HitOn(p, k, b)
<1>1. PICK b \in Bufs :
        /\ bufs[b].blk = k
        /\ bufs' = [bufs EXCEPT ![b].ref = bufs[b].ref + 1]
        /\ mine' = [mine EXCEPT ![p] = b]
        /\ Goto(p, "lock")
        /\ UNCHANGED nobuf
  BY DEF Hit
<1>2. bufs[b] \in Buffers /\ bufs[b].ref + 1 \in Nat
  BY DEF TypeOK, Buffers
<1>3. bufs' = [bufs EXCEPT ![b].ref = bufs[b].ref + 1]
  BY <1>1
<1>4. Changed(b, bufs[b].blk, bufs[b].valid, bufs[b].dirty, bufs[b].ref + 1, bufs[b].data)
  BY <1>2, <1>3 DEF TypeOK, Buffers, Changed
<1> QED
  BY <1>1, <1>4 DEF HitOn, Frame

\* bget's second scan names a free buffer.
LEMMA RecycleEffect ==
  ASSUME TypeOK, LruInv, NEW p \in Clients, NEW k \in Blocks,
         dpc[p] = "idle", Recycle(p, k), UNCHANGED Frame
  PROVE  \E b \in Bufs : RecycleOn(p, k, b)
<1>1. PICK i \in 1..NBUF : LET b == lru[i] IN
        /\ \A c \in Bufs : bufs[c].blk # k
        /\ Reusable(bufs[b])
        /\ bufs' = [bufs EXCEPT ![b] = [blk |-> k, valid |-> FALSE, dirty |-> FALSE,
                                        ref |-> 1, data |-> bufs[b].data]]
        /\ mine' = [mine EXCEPT ![p] = b]
        /\ Goto(p, "lock")
        /\ UNCHANGED nobuf
  BY DEF Recycle
<1>2. lru[i] \in Bufs
  BY DEF LruInv
<1>3. Changed(lru[i], k, FALSE, FALSE, 1, bufs[lru[i]].data)
  BY <1>1, <1>2 DEF TypeOK, Buffers, Changed
<1> QED
  BY <1>1, <1>2, <1>3 DEF RecycleOn, Frame, Reusable

\* bget's panic has seen every buffer in use or dirty.
LEMMA PanicEffect ==
  ASSUME NEW p \in Clients, NEW k \in Blocks,
         dpc[p] = "idle", NoBuffer(k), UNCHANGED Frame
  PROVE  Panics(p)
BY DEF NoBuffer, Reusable, Panics, Frame

\* bread returns at once, or queues the buffer.
LEMMA BreadEffect ==
  ASSUME TypeOK, NEW p \in Clients, Bread(p)
  PROVE  \E b \in Bufs : ReadCached(p, b) \/ ReadQueued(p, b)
<1>1. mine[p] \in Bufs
  BY DEF TypeOK
<1>2. ReadCached(p, mine[p]) \/ ReadQueued(p, mine[p])
  BY DEF Bread, Iderw, StartsAtOnce, ReadCached, ReadQueued, Queue
<1> QED
  BY <1>1, <1>2

\* bwrite and log_write mark the buffer; bwrite queues it.
LEMMA WriteEffect ==
  ASSUME TypeOK, NEW p \in Clients, NEW v \in Contents, Bwrite(p, v) \/ LogWrite(p, v)
  PROVE  \E b \in Bufs : WriteQueued(p, b, v) \/ Pin(p, b, v)
<1> DEFINE b == mine[p]
<1>1. b \in Bufs /\ bufs[b] \in Buffers
  BY DEF TypeOK
<1>2. bufs' = [bufs EXCEPT ![b].dirty = TRUE, ![b].data = v]
  BY DEF Bwrite, LogWrite, Iderw
<1>3. Changed(b, bufs[b].blk, bufs[b].valid, TRUE, bufs[b].ref, v)
  BY <1>1, <1>2 DEF TypeOK, Buffers, Changed
<1>4. WriteQueued(p, b, v) \/ Pin(p, b, v)
  BY <1>2, <1>3 DEF Bwrite, LogWrite, Iderw, StartsAtOnce, WriteQueued, Pin, Queue
<1> QED
  BY <1>1, <1>4

\* ideintr completes the head of the queue.
LEMMA IdeintrEffect ==
  ASSUME TypeOK, LockInv, QueueInv, RefInv, NEW ok \in BOOLEAN, Ideintr(ok)
  PROVE  \E b \in Bufs : Served(b, ok)
<1> DEFINE b == Head(idequeue)
<1>1. idequeue # <<>> /\ 1 \in 1..Len(idequeue) /\ b = idequeue[1]
  BY DEF Ideintr, TypeOK
<1>2. b \in Bufs /\ bufs[b] \in Buffers /\ bufs[b].blk \in Blocks
  BY <1>1, QueuedInUse DEF TypeOK
<1>3. bufs' = [bufs EXCEPT ![b] = Completed(bufs[b], ok)]
  BY DEF Ideintr
<1>4. platter[bufs[b].blk] \in Contents
  BY <1>2 DEF TypeOK
<1>5. Changed(b, bufs[b].blk, TRUE, FALSE, bufs[b].ref,
              IF ~bufs[b].dirty /\ ok THEN platter[bufs[b].blk] ELSE bufs[b].data)
  BY <1>2, <1>3, <1>4 DEF Completed, TypeOK, Buffers, Changed
<1>6. Served(b, ok)
  BY <1>1, <1>2, <1>5 DEF Ideintr, Performed, Served
<1> QED
  BY <1>2, <1>6

\* brelse gives the buffer back.
LEMMA PutBufEffect ==
  ASSUME TypeOK, RefInv, NEW p \in Clients, PutBuf(p)
  PROVE  \E b \in Bufs : GivenBack(p, b)
<1> DEFINE b == mine[p]
<1>1. dpc[p] = "put" /\ bufs' = [bufs EXCEPT ![b].ref = bufs[b].ref - 1]
  BY DEF PutBuf, Dropped
<1>2. b \in Bufs /\ bufs[b] \in Buffers /\ bufs[b].ref - 1 \in Nat
  <2>1. b \in Bufs /\ bufs[b].ref > 0
    BY <1>1, InUse
  <2>2. bufs[b] \in Buffers
    BY <2>1 DEF TypeOK
  <2>3. bufs[b].ref \in Nat
    BY <2>2 DEF Buffers
  <2> QED
    BY <2>1, <2>2, <2>3
<1>3. Changed(b, bufs[b].blk, bufs[b].valid, bufs[b].dirty, bufs[b].ref - 1, bufs[b].data)
  BY <1>1, <1>2 DEF TypeOK, Buffers, Changed
<1>4. GivenBack(p, b)
  BY <1>1, <1>3 DEF PutBuf, GivenBack
<1> QED
  BY <1>2, <1>4

\* Every step of the cache or the driver is one of these.
LEMMA StepEffect ==
  ASSUME TypeOK, LruInv, LockInv, QueueInv, RefInv, [Next]_vars
  PROVE  Effect
<1>1. ASSUME NEW p \in Clients, NEW k \in Blocks, Bget(p, k) PROVE Effect
  BY <1>1, HitEffect, RecycleEffect, PanicEffect DEF Bget, Effect, Frame
<1>2. ASSUME NEW p \in Clients, NEW v \in Contents, Bwrite(p, v) \/ LogWrite(p, v)
      PROVE  Effect
  BY <1>2, WriteEffect DEF Effect
<1>3. ASSUME NEW p \in Clients, Bread(p) \/ PutBuf(p) PROVE Effect
  BY <1>3, BreadEffect, PutBufEffect DEF Effect
<1>4. ASSUME NEW p \in Clients, Kill(p) \/ Woken(p) \/ ReleaseBuf(p) PROVE Effect
  BY <1>4 DEF Effect
<1>5. ASSUME NEW ok \in BOOLEAN, Ideintr(ok) PROVE Effect
  BY <1>5, IdeintrEffect DEF Effect
<1> QED
  BY <1>1, <1>2, <1>3, <1>4, <1>5 DEF Next, Effect

-----------------------------------------------------------------------------
\* What is known of a queued buffer b.
LEMMA QueuedFacts ==
  ASSUME TypeOK, LockInv, QueueInv, RefInv, NEW b \in Bufs, Contains(idequeue, b)
  PROVE  /\ ~Synced(bufs[b]) /\ bufs[b].ref > 0 /\ bufs[b].blk \in Blocks
         /\ holder[b] \in Clients /\ InIderw(holder[b]) /\ mine[holder[b]] = b
<1>1. PICK i \in 1..Len(idequeue) : idequeue[i] = b
  BY DEF Contains
<1> QED
  BY <1>1, QueuedInUse DEF QueueInv, Queued, LockInv

\* A step that leaves the queue alone and does not touch what is queued.
LEMMA QueueKept ==
  ASSUME TypeOK, TypeOK', QueueInv, UNCHANGED <<holder, idequeue, drive>>,
         \A c \in Bufs : Contains(idequeue, c) => bufs'[c].blk = bufs[c].blk
           /\ bufs'[c].valid = bufs[c].valid /\ bufs'[c].dirty = bufs[c].dirty,
         \A p \in Clients : InIderw(p) \/ InIderw(p)' =>
           /\ dpc'[p] = dpc[p] /\ mine'[p] = mine[p]
           /\ Synced(bufs[mine[p]]) => Synced(bufs'[mine[p]])
  PROVE  QueueInv'
<1>1. \A i \in 1..Len(idequeue) : idequeue[i] \in Bufs /\ Contains(idequeue, idequeue[i])
  BY DEF TypeOK, Contains
<1>2. ASSUME NEW i \in 1..Len(idequeue)
      PROVE  /\ ~Synced(bufs'[idequeue[i]])
             /\ \E p \in Clients : holder'[idequeue[i]] = p /\ InIderw(p)'
  <2>1. ~Synced(bufs'[idequeue[i]])
    BY <1>1 DEF QueueInv, Queued, Synced
  <2>2. PICK p \in Clients : holder[idequeue[i]] = p /\ InIderw(p)
    BY DEF QueueInv, Queued
  <2> QED
    BY <2>1, <2>2 DEF InIderw
<1>3. \A p \in Clients : dpc'[p] = "woken" =>
        Contains(idequeue, mine'[p]) \/ Synced(bufs'[mine'[p]])
  BY DEF QueueInv, WokenDone, InIderw
<1>4. drive = IF idequeue = <<>> THEN Idle ELSE Command(bufs'[Head(idequeue)])
  <2>1. CASE idequeue # <<>>
    <3>1. Head(idequeue) = idequeue[1] /\ 1 \in 1..Len(idequeue)
      BY <2>1 DEF TypeOK
    <3> QED
      BY <1>1, <2>1, <3>1 DEF QueueInv, NoLostRequest, Command
  <2> QED
    BY <2>1 DEF QueueInv, NoLostRequest
<1>5. \A p \in Clients : dpc'[p] = "sleep" => Contains(idequeue, mine'[p])
  BY DEF QueueInv, NoLostRequest, InIderw
<1> QED
  BY <1>2, <1>3, <1>4, <1>5 DEF QueueInv, Queued, QueuedOnce, WokenDone, NoLostRequest

\* A step that leaves the contents alone.
LEMMA DataKept ==
  ASSUME TypeOK, TypeOK', DataInv, UNCHANGED <<platter, newest, bad>>,
         \A c \in Bufs : /\ bufs'[c].blk = bufs[c].blk /\ bufs'[c].valid = bufs[c].valid
                         /\ bufs'[c].dirty = bufs[c].dirty /\ bufs'[c].data = bufs[c].data,
         \A p \in Clients : dpc'[p] = "hold" => dpc[p] = "hold" /\ mine'[p] = mine[p]
  PROVE  DataInv'
<1>1. ValidData'
  BY DEF DataInv, ValidData
<1>2. DirtyValid'
  BY DEF DataInv, DirtyValid
<1>3. DiskData'
  BY DEF DataInv, DiskData
<1>4. HoldValid'
  BY DEF DataInv, HoldValid, TypeOK
<1> QED
  BY <1>1, <1>2, <1>3, <1>4 DEF DataInv

\* The holder p of buffer b puts v into it and marks it dirty.
LEMMA DataWritten ==
  ASSUME TypeOK, TypeOK', RefInv, DataInv, NEW p \in Clients, NEW v \in Contents,
         NEW b \in Bufs, mine[p] = b, dpc[p] = "hold",
         Changed(b, bufs[b].blk, bufs[b].valid, TRUE, bufs[b].ref, v),
         newest' = [newest EXCEPT ![bufs[b].blk] = v],
         UNCHANGED <<platter, bad, mine>>,
         \A q \in Clients : dpc'[q] = "hold" => dpc[q] = "hold"
  PROVE  DataInv'
<1>1. bufs[b].valid /\ bufs[b].blk \in Blocks
  BY InUse DEF DataInv, HoldValid
<1>2. /\ \A c \in Bufs : bufs'[c].blk = bufs[c].blk /\ bufs'[c].valid = bufs[c].valid
      /\ \A c \in Bufs : c # b => bufs'[c] = bufs[c]
      /\ bufs'[b].dirty /\ bufs'[b].data = v
  BY DEF Changed
<1>3. \A c \in Bufs : c # b => bufs[c].blk # bufs[b].blk
  BY <1>1, BufFacts DEF RefInv, OneBufferPerBlock
<1>4. ASSUME NEW c \in Bufs, bufs'[c].valid
      PROVE  /\ bufs'[c].blk # Unused
             /\ bufs'[c].blk \in bad' \/ bufs'[c].data = newest'[bufs'[c].blk]
  <2>1. CASE c = b
    BY <1>1, <1>2, <2>1, BufFacts DEF TypeOK
  <2>2. CASE c # b
    BY <1>2, <1>3, <1>4, <2>2 DEF DataInv, ValidData, TypeOK
  <2> QED
    BY <2>1, <2>2
<1>5. \A c \in Bufs : bufs'[c].dirty => bufs'[c].valid
  BY <1>1, <1>2 DEF DataInv, DirtyValid
<1>6. ASSUME NEW k \in Blocks
      PROVE  \/ k \in bad' \/ platter'[k] = newest'[k]
             \/ \E c \in Bufs : bufs'[c].blk = k /\ bufs'[c].dirty
  <2>1. CASE k = bufs[b].blk
    BY <1>2, <2>1
  <2>2. CASE k # bufs[b].blk
    BY <1>2, <2>2 DEF DataInv, DiskData, TypeOK
  <2> QED
    BY <2>1, <2>2
<1>7. \A q \in Clients : dpc'[q] = "hold" => bufs'[mine'[q]].valid
  BY <1>2 DEF DataInv, HoldValid, TypeOK
<1> QED
  BY <1>4, <1>5, <1>6, <1>7 DEF DataInv, ValidData, DirtyValid, DiskData, HoldValid

\* Every step keeps the types.
LEMMA TypeStep ==
  ASSUME TypeOK, LruInv, LockInv, QueueInv, RefInv, Effect
  PROVE  TypeOK'
<1> USE BufFacts DEF Goto, Changed, TypeOK, Buffers, PCs, Queue, RefInv
<1>1. ASSUME NEW p \in Clients, NEW k \in Blocks, NEW b \in Bufs, HitOn(p, k, b) PROVE TypeOK'
  BY <1>1 DEF HitOn
<1>2. ASSUME NEW p \in Clients, NEW k \in Blocks, NEW b \in Bufs, RecycleOn(p, k, b) PROVE TypeOK'
  BY <1>2 DEF RecycleOn
<1>3. ASSUME NEW p \in Clients, Panics(p) PROVE TypeOK'
  BY <1>3 DEF Panics
<1>4. ASSUME NEW p \in Clients, NEW b \in Bufs, ReadCached(p, b) PROVE TypeOK'
  BY <1>4 DEF ReadCached
<1>5. ASSUME NEW p \in Clients, NEW b \in Bufs, ReadQueued(p, b) PROVE TypeOK'
  BY <1>5 DEF ReadQueued
<1>6. ASSUME NEW p \in Clients, NEW b \in Bufs, NEW v \in Contents, WriteQueued(p, b, v)
      PROVE  TypeOK'
  <2>1. bufs[b].blk \in Blocks
    BY <1>6, InUse DEF WriteQueued
  <2> QED
    BY <1>6, <2>1 DEF WriteQueued
<1>7. ASSUME NEW p \in Clients, NEW b \in Bufs, NEW v \in Contents, Pin(p, b, v) PROVE TypeOK'
  BY <1>7 DEF Pin
<1>8. ASSUME NEW b \in Bufs, NEW ok \in BOOLEAN, Served(b, ok) PROVE TypeOK'
  <2>1. idequeue # <<>> /\ 1 \in 1..Len(idequeue) /\ b = idequeue[1]
    BY <1>8 DEF Served
  <2>2. bufs[b].blk \in Blocks /\ bufs[b].data \in Contents
    BY <2>1, QueuedInUse
  <2>3. platter' \in [Blocks -> Contents]
    BY <1>8, <2>2 DEF Served
  <2>4. bufs' \in [Bufs -> Buffers] /\ holder' \in [Bufs -> Clients \cup {Nobody}]
    BY <1>8 DEF Served
  <2>5. idequeue' \in Seq(Bufs)
    BY <1>8, <2>1 DEF Served
  <2>6. dpc' \in [Clients -> PCs] /\ mine' \in [Clients -> Bufs]
    BY <1>8 DEF Served
  <2>7. newest' \in [Blocks -> Contents] /\ bad' \subseteq Blocks /\ nobuf' \in BOOLEAN
    BY <1>8, <2>2 DEF Served
  <2> QED
    BY ONLY <2>3, <2>4, <2>5, <2>6, <2>7 DEF TypeOK, PCs
<1>9. ASSUME NEW p \in Clients, Kill(p) PROVE TypeOK'
  BY <1>9 DEF Kill
<1>10. ASSUME NEW p \in Clients, Woken(p) PROVE TypeOK'
  BY <1>10 DEF Woken
<1>11. ASSUME NEW p \in Clients, ReleaseBuf(p) PROVE TypeOK'
  BY <1>11 DEF ReleaseBuf
<1>12. ASSUME NEW p \in Clients, NEW b \in Bufs, GivenBack(p, b) PROVE TypeOK'
  BY <1>12 DEF GivenBack
<1>13. CASE UNCHANGED vars
  BY <1>13 DEF vars
<1> QED
  BY <1>1, <1>2, <1>3, <1>4, <1>5, <1>6, <1>7, <1>8, <1>9, <1>10,
     <1>11, <1>12, <1>13 DEF Effect

\* Every step keeps the locks with the processes that use them.
LEMMA LockStep ==
  ASSUME TypeOK, LockInv, Effect
  PROVE  LockInv'
<1> USE BufFacts DEF Goto, Changed, TypeOK, Buffers, PCs, LockInv, Queue, InIderw
<1>1. ASSUME NEW p \in Clients, NEW k \in Blocks, NEW b \in Bufs, HitOn(p, k, b) PROVE LockInv'
  BY <1>1 DEF HitOn
<1>2. ASSUME NEW p \in Clients, NEW k \in Blocks, NEW b \in Bufs, RecycleOn(p, k, b) PROVE LockInv'
  BY <1>2 DEF RecycleOn
<1>3. ASSUME NEW p \in Clients, Panics(p) PROVE LockInv'
  BY <1>3 DEF Panics
<1>4. ASSUME NEW p \in Clients, NEW b \in Bufs, ReadCached(p, b) PROVE LockInv'
  BY <1>4 DEF ReadCached
<1>5. ASSUME NEW p \in Clients, NEW b \in Bufs, ReadQueued(p, b) PROVE LockInv'
  BY <1>5 DEF ReadQueued
<1>6. ASSUME NEW p \in Clients, NEW b \in Bufs, NEW v \in Contents, WriteQueued(p, b, v)
      PROVE  LockInv'
  BY <1>6 DEF WriteQueued
<1>7. ASSUME NEW p \in Clients, NEW b \in Bufs, NEW v \in Contents, Pin(p, b, v) PROVE LockInv'
  BY <1>7 DEF Pin
<1>8. ASSUME NEW b \in Bufs, NEW ok \in BOOLEAN, Served(b, ok) PROVE LockInv'
  <2>1. UNCHANGED <<holder, mine>>
    BY <1>8 DEF Served
  <2>2. \A p \in Clients : \/ dpc'[p] = dpc[p]
                           \/ dpc[p] = "sleep" /\ dpc'[p] = "woken"
    BY <1>8 DEF Served
  <2> QED
    BY <2>1, <2>2
<1>9. ASSUME NEW p \in Clients, Kill(p) PROVE LockInv'
  BY <1>9 DEF Kill
<1>10. ASSUME NEW p \in Clients, Woken(p) PROVE LockInv'
  BY <1>10 DEF Woken
<1>11. ASSUME NEW p \in Clients, ReleaseBuf(p) PROVE LockInv'
  BY <1>11 DEF ReleaseBuf
<1>12. ASSUME NEW p \in Clients, NEW b \in Bufs, GivenBack(p, b) PROVE LockInv'
  BY <1>12 DEF GivenBack
<1>13. CASE UNCHANGED vars
  BY <1>13 DEF vars
<1> QED
  BY <1>1, <1>2, <1>3, <1>4, <1>5, <1>6, <1>7, <1>8, <1>9, <1>10,
     <1>11, <1>12, <1>13 DEF Effect

\* iderw puts buffer b of p, which was not queued, at the end of the queue.
LEMMA Enqueued ==
  ASSUME TypeOK, TypeOK', QueueInv, NEW p \in Clients, NEW b \in Bufs,
         mine[p] = b, ~InIderw(p), ~Contains(idequeue, b), Queue(p, b),
         \A c \in Bufs : c # b => bufs'[c] = bufs[c] /\ holder'[c] = holder[c],
         ~Synced(bufs'[b]), holder'[b] = p, UNCHANGED mine
  PROVE  QueueInv'
<1>1. /\ idequeue' = Append(idequeue, b) /\ Len(idequeue) \in Nat
      /\ drive' = IF idequeue = <<>> THEN Command(bufs'[b]) ELSE drive
  BY DEF Queue, TypeOK
<1>2. dpc'[p] = "sleep" /\ \A q \in Clients : q # p => dpc'[q] = dpc[q]
  BY DEF Queue, Goto, TypeOK
<1>3. \A i \in 1..Len(idequeue) : idequeue[i] \in Bufs /\ idequeue[i] # b
  BY DEF TypeOK, Contains
<1>4. /\ Len(idequeue') = Len(idequeue) + 1 /\ idequeue'[Len(idequeue')] = b
      /\ \A i \in 1..Len(idequeue) : idequeue'[i] = idequeue[i]
  BY <1>1 DEF TypeOK
<1>5. \A c \in Bufs : Contains(idequeue', c) <=> c = b \/ Contains(idequeue, c)
  BY <1>1, <1>4 DEF Contains
<1>6. Queued'
  <2> SUFFICES ASSUME NEW i \in 1..Len(idequeue')
               PROVE  /\ ~Synced(bufs'[idequeue'[i]])
                      /\ \E q \in Clients : holder'[idequeue'[i]] = q /\ InIderw(q)'
    BY DEF Queued
  <2>1. CASE i = Len(idequeue')
    BY <1>1, <1>2, <1>4, <2>1 DEF InIderw
  <2>2. CASE i # Len(idequeue')
    <3>1. i \in 1..Len(idequeue) /\ idequeue'[i] = idequeue[i]
      BY <1>1, <1>4, <2>2
    <3>2. PICK q \in Clients : holder[idequeue[i]] = q /\ InIderw(q)
      BY <3>1 DEF QueueInv, Queued
    <3>3. InIderw(q)'
      BY <1>1, <1>2, <3>2 DEF InIderw
    <3>4. ~Synced(bufs'[idequeue[i]])
      BY <1>2, <1>3, <3>1 DEF QueueInv, Queued
    <3> QED
      BY <1>3, <3>1, <3>2, <3>3, <3>4
  <2> QED
    BY <2>1, <2>2
<1>7. QueuedOnce'
  BY <1>1, <1>3, <1>4 DEF QueueInv, QueuedOnce
<1>8. WokenDone'
  BY <1>1, <1>2, <1>5 DEF QueueInv, WokenDone, TypeOK
<1>9. drive' = IF idequeue' = <<>> THEN Idle ELSE Command(bufs'[Head(idequeue')])
  <2>1. idequeue' # <<>>
    BY <1>1, <1>4 DEF TypeOK
  <2>2. CASE idequeue = <<>>
    BY <1>1, <2>1, <2>2 DEF TypeOK
  <2>3. CASE idequeue # <<>>
    <3>1. 1 \in 1..Len(idequeue) /\ Head(idequeue) = idequeue[1] /\ Head(idequeue') = idequeue[1]
      BY <1>1, <2>3 DEF TypeOK
    <3> QED
      BY <1>1, <1>2, <1>3, <2>1, <2>3, <3>1 DEF QueueInv, NoLostRequest
  <2> QED
    BY <2>2, <2>3
<1>10. NoLostRequest'
  BY <1>1, <1>2, <1>5, <1>9 DEF QueueInv, NoLostRequest, TypeOK
<1> QED
  BY <1>6, <1>7, <1>8, <1>10 DEF QueueInv

\* Every step keeps the queue, its sleepers and the drive in agreement.
LEMMA QueueStep ==
  ASSUME TypeOK, TypeOK', LockInv, QueueInv, RefInv, Effect
  PROVE  QueueInv'
<1>1. ASSUME NEW p \in Clients, NEW k \in Blocks, NEW b \in Bufs, HitOn(p, k, b) PROVE QueueInv'
  <2>1. UNCHANGED <<holder, idequeue, drive>>
    BY <1>1 DEF HitOn
  <2>2. \A c \in Bufs : bufs'[c].blk = bufs[c].blk
          /\ bufs'[c].valid = bufs[c].valid /\ bufs'[c].dirty = bufs[c].dirty
    BY <1>1 DEF HitOn, Changed
  <2>3. \A q \in Clients : InIderw(q) \/ InIderw(q)' =>
          dpc'[q] = dpc[q] /\ mine'[q] = mine[q]
    BY <1>1 DEF HitOn, InIderw, Goto, TypeOK
  <2>4. \A c \in Bufs : Synced(bufs[c]) => Synced(bufs'[c])
    BY <2>2 DEF Synced
  <2> QED
    BY <2>1, <2>2, <2>3, <2>4, QueueKept DEF TypeOK
<1>2. ASSUME NEW p \in Clients, NEW k \in Blocks, NEW b \in Bufs, RecycleOn(p, k, b) PROVE QueueInv'
  <2>1. UNCHANGED <<holder, idequeue, drive>> /\ bufs[b].ref = 0
    BY <1>2 DEF RecycleOn
  <2>2. ~Contains(idequeue, b)
    BY <2>1, QueuedFacts
  <2>3. ASSUME NEW q \in Clients, InIderw(q) PROVE mine[q] # b
    BY <2>1, <2>3, InUse DEF InIderw
  <2>4. \A c \in Bufs : c # b => bufs'[c] = bufs[c]
    BY <1>2 DEF RecycleOn, Changed
  <2>5. \A q \in Clients : InIderw(q) \/ InIderw(q)' =>
          dpc'[q] = dpc[q] /\ mine'[q] = mine[q]
    BY <1>2 DEF RecycleOn, InIderw, Goto, TypeOK
  <2>6. \A q \in Clients : InIderw(q) \/ InIderw(q)' =>
          InIderw(q) /\ mine[q] # b /\ mine[q] \in Bufs
    BY <2>3, <2>5 DEF InIderw, TypeOK
  <2> QED
    BY <2>1, <2>2, <2>4, <2>5, <2>6, QueueKept
<1>3. ASSUME NEW p \in Clients, Panics(p) PROVE QueueInv'
  BY <1>3 DEF Panics, Goto, TypeOK, QueueInv, Queued, QueuedOnce, WokenDone, NoLostRequest,
              Synced, InIderw
<1>4. ASSUME NEW p \in Clients, NEW b \in Bufs, ReadCached(p, b) PROVE QueueInv'
  <2>1. /\ UNCHANGED <<bufs, idequeue, drive, mine>> /\ holder[b] = Nobody
        /\ holder' = [holder EXCEPT ![b] = p]
        /\ dpc[p] = "lock" /\ dpc'[p] = "hold" /\ \A q \in Clients : q # p => dpc'[q] = dpc[q]
    BY <1>4 DEF ReadCached, Goto, TypeOK
  <2>2. Queued'
    <3> SUFFICES ASSUME NEW i \in 1..Len(idequeue)
                 PROVE  /\ ~Synced(bufs[idequeue[i]])
                        /\ \E q \in Clients : holder'[idequeue[i]] = q /\ InIderw(q)'
      BY <2>1 DEF Queued
    <3>1. PICK q \in Clients : holder[idequeue[i]] = q /\ InIderw(q)
      BY DEF QueueInv, Queued
    <3>2. InIderw(q)' /\ holder'[idequeue[i]] = q
      BY <2>1, <3>1, BufFacts DEF InIderw, TypeOK
    <3> QED
      BY <3>1, <3>2 DEF QueueInv, Queued
  <2>3. QueuedOnce' /\ WokenDone' /\ NoLostRequest'
    BY <2>1 DEF QueueInv, QueuedOnce, WokenDone, NoLostRequest
  <2> QED
    BY <2>2, <2>3 DEF QueueInv
<1>5. ASSUME NEW p \in Clients, NEW b \in Bufs, ReadQueued(p, b) PROVE QueueInv'
  <2>1. /\ mine[p] = b /\ holder[b] = Nobody /\ ~bufs[b].valid /\ Queue(p, b) /\ ~InIderw(p)
        /\ holder' = [holder EXCEPT ![b] = p] /\ UNCHANGED <<bufs, mine>>
    BY <1>5 DEF ReadQueued, InIderw
  <2>2. ~Contains(idequeue, b)
    BY <2>1, QueuedFacts, BufFacts
  <2>3. holder'[b] = p /\ \A c \in Bufs : c # b => holder'[c] = holder[c]
    BY <2>1 DEF TypeOK
  <2> QED
    BY <2>1, <2>2, <2>3, Enqueued DEF Synced
<1>6. ASSUME NEW p \in Clients, NEW b \in Bufs, NEW v \in Contents, WriteQueued(p, b, v)
      PROVE  QueueInv'
  <2>1. /\ mine[p] = b /\ holder[b] = p /\ Queue(p, b) /\ ~InIderw(p)
        /\ UNCHANGED <<holder, mine>>
    BY <1>6 DEF WriteQueued, InIderw, LockInv
  <2>2. ~Contains(idequeue, b)
    BY <2>1, QueuedFacts
  <2>3. ~Synced(bufs'[b]) /\ \A c \in Bufs : c # b => bufs'[c] = bufs[c]
    BY <1>6 DEF WriteQueued, Changed, Synced
  <2> QED
    BY <2>1, <2>2, <2>3, Enqueued
<1>7. ASSUME NEW p \in Clients, NEW b \in Bufs, NEW v \in Contents, Pin(p, b, v) PROVE QueueInv'
  <2>1. UNCHANGED <<holder, idequeue, drive>> /\ holder[b] = p /\ ~InIderw(p)
    BY <1>7 DEF Pin, LockInv, InIderw
  <2>2. ~Contains(idequeue, b)
    BY <2>1, QueuedFacts
  <2>3. ASSUME NEW q \in Clients, InIderw(q) PROVE mine[q] # b
    BY <2>1, <2>3 DEF LockInv, InIderw
  <2>4. \A c \in Bufs : c # b => bufs'[c] = bufs[c]
    BY <1>7 DEF Pin, Changed
  <2>5. \A q \in Clients : InIderw(q) \/ InIderw(q)' =>
          dpc'[q] = dpc[q] /\ mine'[q] = mine[q]
    BY <1>7 DEF Pin, InIderw, Goto, TypeOK
  <2>6. \A q \in Clients : InIderw(q) \/ InIderw(q)' =>
          InIderw(q) /\ mine[q] # b /\ mine[q] \in Bufs
    BY <2>3, <2>5 DEF InIderw, TypeOK
  <2> QED
    BY <2>1, <2>2, <2>4, <2>5, <2>6, QueueKept
<1>8. ASSUME NEW b \in Bufs, NEW ok \in BOOLEAN, Served(b, ok) PROVE QueueInv'
  <2>1. /\ idequeue # <<>> /\ b = Head(idequeue) /\ idequeue' = Tail(idequeue)
        /\ UNCHANGED <<holder, mine>>
        /\ dpc' = [p \in Clients |-> IF dpc[p] = "sleep" /\ mine[p] = b THEN "woken" ELSE dpc[p]]
        /\ drive' = IF idequeue' = <<>> THEN Idle ELSE Command(bufs[Head(idequeue')])
    BY <1>8 DEF Served
  <2>2. /\ \A c \in Bufs : c # b => bufs'[c] = bufs[c]
        /\ Synced(bufs'[b])
    BY <1>8 DEF Served, Changed, Synced
  <2>3. /\ Len(idequeue) \in Nat \ {0} /\ b = idequeue[1]
        /\ \A i \in 1..Len(idequeue) : idequeue[i] \in Bufs
    BY <2>1 DEF TypeOK
  <2>4. /\ Len(idequeue') = Len(idequeue) - 1
        /\ \A i \in 1..Len(idequeue') :
             i + 1 \in 1..Len(idequeue) /\ idequeue'[i] = idequeue[i + 1] /\ idequeue'[i] # b
    BY <2>1, <2>3 DEF TypeOK, QueueInv, QueuedOnce
  <2>5. \A c \in Bufs : c # b /\ Contains(idequeue, c) => Contains(idequeue', c)
    <3> SUFFICES ASSUME NEW c \in Bufs, c # b, NEW i \in 1..Len(idequeue), idequeue[i] = c
                 PROVE  \E j \in 1..Len(idequeue') : idequeue'[j] = c
      BY DEF Contains
    <3>1. i # 1 /\ i - 1 \in 1..Len(idequeue')
      BY <2>3, <2>4
    <3>2. idequeue'[i - 1] = c
      BY <2>4, <3>1
    <3> QED
      BY <3>1, <3>2
  <2>6. Queued'
    <3> SUFFICES ASSUME NEW i \in 1..Len(idequeue')
                 PROVE  /\ ~Synced(bufs'[idequeue'[i]])
                        /\ \E q \in Clients : holder'[idequeue'[i]] = q /\ InIderw(q)'
      BY DEF Queued
    <3>1. i + 1 \in 1..Len(idequeue) /\ idequeue'[i] = idequeue[i + 1] /\ idequeue'[i] # b
      BY <2>4
    <3>2. PICK q \in Clients : holder[idequeue[i + 1]] = q /\ InIderw(q)
      BY <3>1 DEF QueueInv, Queued
    <3>3. InIderw(q)'
      BY <2>1, <3>2 DEF InIderw
    <3>4. ~Synced(bufs'[idequeue[i + 1]])
      BY <2>2, <2>3, <3>1 DEF QueueInv, Queued
    <3> QED
      BY <2>1, <3>1, <3>2, <3>3, <3>4
  <2>7. QueuedOnce'
    BY <2>3, <2>4 DEF QueueInv, QueuedOnce
  <2>8. WokenDone'
    BY <2>1, <2>2, <2>5 DEF QueueInv, WokenDone, NoLostRequest, TypeOK
  <2>9. drive' = IF idequeue' = <<>> THEN Idle ELSE Command(bufs'[Head(idequeue')])
    <3>1. CASE idequeue' # <<>>
      <4>1. 1 \in 1..Len(idequeue') /\ Head(idequeue') = idequeue'[1] /\ idequeue'[1] \in Bufs
        BY <2>1, <2>3, <2>4, <3>1 DEF TypeOK
      <4> QED
        BY <2>1, <2>2, <2>4, <4>1
    <3> QED
      BY <2>1, <3>1
  <2>10. NoLostRequest'
    BY <2>1, <2>5, <2>9 DEF QueueInv, NoLostRequest, TypeOK
  <2> QED
    BY <2>6, <2>7, <2>8, <2>10 DEF QueueInv
<1>9. ASSUME NEW p \in Clients, Kill(p) PROVE QueueInv'
  <2>1. /\ UNCHANGED <<bufs, holder, idequeue, drive, mine>>
        /\ dpc[p] = "sleep" /\ dpc'[p] = "woken" /\ \A q \in Clients : q # p => dpc'[q] = dpc[q]
    BY <1>9 DEF Kill, Goto, TypeOK
  <2>2. \A q \in Clients : InIderw(q) => InIderw(q)'
    BY <2>1 DEF InIderw
  <2>3. Queued' /\ QueuedOnce'
    BY <2>1, <2>2 DEF QueueInv, Queued, QueuedOnce
  <2>4. WokenDone' /\ NoLostRequest'
    BY <2>1 DEF QueueInv, WokenDone, NoLostRequest
  <2> QED
    BY <2>3, <2>4 DEF QueueInv
<1>10. ASSUME NEW p \in Clients, Woken(p) PROVE QueueInv'
  BY <1>10 DEF Woken, Goto, TypeOK, LockInv, QueueInv, Queued, QueuedOnce, WokenDone,
               NoLostRequest, Contains, Synced, InIderw
<1>11. ASSUME NEW p \in Clients, ReleaseBuf(p) PROVE QueueInv'
  <2>1. UNCHANGED <<bufs, idequeue, drive, mine>>
    BY <1>11 DEF ReleaseBuf
  <2>2. \A q \in Clients : q # p => dpc'[q] = dpc[q]
    BY <1>11 DEF ReleaseBuf, Goto, TypeOK
  <2>3. dpc[p] = "hold" /\ dpc'[p] = "put" /\ holder[mine[p]] = p
    BY <1>11 DEF ReleaseBuf, Goto, TypeOK, LockInv
  <2>4. \A i \in 1..Len(idequeue) : idequeue[i] # mine[p]
    BY <2>3 DEF TypeOK, QueueInv, Queued, InIderw
  <2>5. Queued'
    <3> SUFFICES ASSUME NEW i \in 1..Len(idequeue)
                 PROVE  /\ ~Synced(bufs[idequeue[i]])
                        /\ \E q \in Clients : holder'[idequeue[i]] = q /\ InIderw(q)'
      BY <2>1 DEF Queued
    <3>1. PICK q \in Clients : holder[idequeue[i]] = q /\ InIderw(q)
      BY DEF QueueInv, Queued
    <3>2. InIderw(q)' /\ holder'[idequeue[i]] = q
      BY <1>11, <2>2, <2>3, <2>4, <3>1 DEF InIderw, ReleaseBuf, TypeOK
    <3> QED
      BY <3>1, <3>2 DEF QueueInv, Queued
  <2>6. QueuedOnce' /\ WokenDone' /\ NoLostRequest'
    BY <2>1, <2>2, <2>3 DEF QueueInv, QueuedOnce, WokenDone, NoLostRequest
  <2> QED
    BY <2>5, <2>6 DEF QueueInv
<1>12. ASSUME NEW p \in Clients, NEW b \in Bufs, GivenBack(p, b) PROVE QueueInv'
  <2>1. UNCHANGED <<holder, idequeue, drive>>
    BY <1>12 DEF GivenBack
  <2>2. \A c \in Bufs : bufs'[c].blk = bufs[c].blk
          /\ bufs'[c].valid = bufs[c].valid /\ bufs'[c].dirty = bufs[c].dirty
    BY <1>12 DEF GivenBack, Changed
  <2>3. \A q \in Clients : InIderw(q) \/ InIderw(q)' =>
          dpc'[q] = dpc[q] /\ mine'[q] = mine[q]
    BY <1>12 DEF GivenBack, InIderw, Goto, TypeOK
  <2>4. \A c \in Bufs : Synced(bufs[c]) => Synced(bufs'[c])
    BY <2>2 DEF Synced
  <2> QED
    BY <2>1, <2>2, <2>3, <2>4, QueueKept DEF TypeOK
<1>13. CASE UNCHANGED vars
  BY <1>13 DEF vars, Goto, TypeOK, QueueInv, Queued, QueuedOnce, WokenDone, NoLostRequest,
              Synced, InIderw
<1> QED
  BY <1>1, <1>2, <1>3, <1>4, <1>5, <1>6, <1>7, <1>8, <1>9, <1>10,
     <1>11, <1>12, <1>13 DEF Effect

\* Every step keeps the contents in the cache or on the disk.
LEMMA DataStep ==
  ASSUME TypeOK, TypeOK', LockInv, QueueInv, RefInv, DataInv, Effect
  PROVE  DataInv'
<1>1. ASSUME NEW p \in Clients, NEW k \in Blocks, NEW b \in Bufs, HitOn(p, k, b) PROVE DataInv'
  <2>1. UNCHANGED <<platter, newest, bad>>
    BY <1>1 DEF HitOn
  <2>2. \A c \in Bufs : /\ bufs'[c].blk = bufs[c].blk /\ bufs'[c].valid = bufs[c].valid
                        /\ bufs'[c].dirty = bufs[c].dirty /\ bufs'[c].data = bufs[c].data
    BY <1>1 DEF HitOn, Changed
  <2>3. \A q \in Clients : dpc'[q] = "hold" => dpc[q] = "hold" /\ mine'[q] = mine[q]
    BY <1>1 DEF HitOn, Goto, TypeOK
  <2> QED
    BY <2>1, <2>2, <2>3, DataKept
<1>2. ASSUME NEW p \in Clients, NEW k \in Blocks, NEW b \in Bufs, RecycleOn(p, k, b) PROVE DataInv'
  <2>1. /\ \A c \in Bufs : c # b => bufs'[c] = bufs[c]
        /\ ~bufs'[b].valid /\ ~bufs'[b].dirty /\ ~bufs[b].dirty /\ bufs[b].ref = 0
        /\ UNCHANGED <<platter, newest, bad>>
    BY <1>2 DEF RecycleOn, Changed
  <2>2. ASSUME NEW q \in Clients, dpc'[q] = "hold"
        PROVE  dpc[q] = "hold" /\ mine'[q] = mine[q] /\ mine[q] # b
    <3>1. dpc[q] = "hold" /\ mine'[q] = mine[q]
      BY <1>2, <2>2 DEF RecycleOn, Goto, TypeOK
    <3> QED
      BY <2>1, <3>1, InUse
  <2>3. ValidData'
    BY <2>1 DEF DataInv, ValidData
  <2>4. DirtyValid'
    BY <2>1 DEF DataInv, DirtyValid
  <2>5. DiskData'
    BY <2>1 DEF DataInv, DiskData
  <2>6. HoldValid'
    BY <2>1, <2>2 DEF DataInv, HoldValid, TypeOK
  <2> QED
    BY <2>3, <2>4, <2>5, <2>6 DEF DataInv
<1>3. ASSUME NEW p \in Clients, Panics(p) PROVE DataInv'
  BY <1>3 DEF Panics, Goto, Queue, TypeOK, DataInv, ValidData, DirtyValid, DiskData, HoldValid
<1>4. ASSUME NEW p \in Clients, NEW b \in Bufs, ReadCached(p, b) PROVE DataInv'
  BY <1>4 DEF ReadCached, Goto, Queue, TypeOK, DataInv, ValidData, DirtyValid, DiskData, HoldValid
<1>5. ASSUME NEW p \in Clients, NEW b \in Bufs, ReadQueued(p, b) PROVE DataInv'
  BY <1>5 DEF ReadQueued, Goto, Queue, TypeOK, DataInv, ValidData, DirtyValid, DiskData, HoldValid
<1>6. ASSUME NEW p \in Clients, NEW b \in Bufs, NEW v \in Contents, WriteQueued(p, b, v)
      PROVE  DataInv'
  <2>1. \A q \in Clients : dpc'[q] = "hold" => dpc[q] = "hold"
    BY <1>6 DEF WriteQueued, Queue, Goto, TypeOK
  <2> QED
    BY <1>6, <2>1, DataWritten DEF WriteQueued
<1>7. ASSUME NEW p \in Clients, NEW b \in Bufs, NEW v \in Contents, Pin(p, b, v) PROVE DataInv'
  <2>1. \A q \in Clients : dpc'[q] = "hold" => dpc[q] = "hold"
    BY <1>7 DEF Pin, Queue, Goto, TypeOK
  <2> QED
    BY <1>7, <2>1, DataWritten DEF Pin
<1>8. ASSUME NEW b \in Bufs, NEW ok \in BOOLEAN, Served(b, ok) PROVE DataInv'
  <2> DEFINE f == bufs[b]
             j == bufs[b].blk
  <2>1. /\ \A c \in Bufs : c # b => bufs'[c] = bufs[c]
        /\ bufs'[b].blk = j /\ bufs'[b].valid /\ ~bufs'[b].dirty
        /\ bufs'[b].data = IF ~f.dirty /\ ok THEN platter[j] ELSE f.data
    BY <1>8 DEF Served, Changed
  <2>2. /\ f.dirty => platter' = [platter EXCEPT ![j] = f.data]
        /\ ~f.dirty => platter' = platter
        /\ bad' = IF ok THEN bad ELSE bad \cup {j}
        /\ ~ok => ~f.dirty
        /\ UNCHANGED <<newest, mine>>
    BY <1>8 DEF Served
  <2>3. j \in Blocks /\ j # Unused
    <3>1. 1 \in 1..Len(idequeue) /\ b = idequeue[1]
      BY <1>8 DEF Served, TypeOK
    <3> QED
      BY <3>1, QueuedInUse, BufFacts
  <2>4. \A c \in Bufs : c # b => bufs[c].blk # j
    BY <2>3 DEF RefInv, OneBufferPerBlock
  <2>5. j \in bad' \/ (bufs'[b].data = newest[j] /\ platter'[j] = newest[j])
    <3>1. CASE f.dirty
      <4>1. j \in bad \/ f.data = newest[j]
        BY <3>1 DEF DataInv, DirtyValid, ValidData
      <4> QED
        BY <2>1, <2>2, <2>3, <3>1, <4>1 DEF TypeOK, Buffers
    <3>2. CASE ~f.dirty
      <4>1. j \in bad \/ platter[j] = newest[j]
        BY <2>3, <2>4, <3>2 DEF DataInv, DiskData
      <4> QED
        BY <2>1, <2>2, <3>2, <4>1
    <3> QED
      BY <3>1, <3>2
  <2>6. \A i \in Blocks : i # j => platter'[i] = platter[i] /\ (i \in bad' <=> i \in bad)
    BY <2>2 DEF TypeOK
  <2>7. ASSUME NEW c \in Bufs, bufs'[c].valid
        PROVE  /\ bufs'[c].blk # Unused
               /\ bufs'[c].blk \in bad' \/ bufs'[c].data = newest'[bufs'[c].blk]
    <3>1. CASE c = b
      BY <2>1, <2>2, <2>3, <2>5, <3>1
    <3>2. CASE c # b
      BY <2>1, <2>2, <2>7, <3>2 DEF DataInv, ValidData
    <3> QED
      BY <3>1, <3>2
  <2>8. DirtyValid'
    BY <2>1 DEF DataInv, DirtyValid
  <2>9. ASSUME NEW i \in Blocks
        PROVE  \/ i \in bad' \/ platter'[i] = newest'[i]
               \/ \E c \in Bufs : bufs'[c].blk = i /\ bufs'[c].dirty
    <3>1. CASE i = j
      BY <2>2, <2>5, <3>1
    <3>2. CASE i # j
      BY <2>1, <2>2, <2>6, <3>2 DEF DataInv, DiskData
    <3> QED
      BY <3>1, <3>2
  <2>10. HoldValid'
    <3>1. ASSUME NEW q \in Clients, dpc'[q] = "hold" PROVE bufs'[mine'[q]].valid
      <4>1. dpc'[q] = IF dpc[q] = "sleep" /\ mine[q] = b THEN "woken" ELSE dpc[q]
        BY <1>8 DEF Served
      <4>2. dpc[q] = "hold"
        BY ONLY <3>1, <4>1
      <4>3. mine'[q] = mine[q] /\ mine[q] \in Bufs
        BY <2>2 DEF TypeOK
      <4>4. bufs[mine[q]].valid
        BY <4>2 DEF DataInv, HoldValid
      <4>5. CASE mine[q] = b
        BY <2>1, <4>3, <4>5
      <4>6. CASE mine[q] # b
        BY <2>1, <4>3, <4>4, <4>6
      <4> QED
        BY <4>5, <4>6
    <3> QED
      BY <3>1 DEF HoldValid
  <2> QED
    BY <2>7, <2>8, <2>9, <2>10 DEF DataInv, ValidData, DiskData
<1>9. ASSUME NEW p \in Clients, Kill(p) PROVE DataInv'
  BY <1>9 DEF Kill, Goto, Queue, TypeOK, DataInv, ValidData, DirtyValid, DiskData, HoldValid
<1>10. ASSUME NEW p \in Clients, Woken(p) PROVE DataInv'
  BY <1>10 DEF Woken, Goto, TypeOK, Synced, DataInv, ValidData, DirtyValid, DiskData, HoldValid
<1>11. ASSUME NEW p \in Clients, ReleaseBuf(p) PROVE DataInv'
  BY <1>11 DEF ReleaseBuf, Goto, Queue, TypeOK, DataInv, ValidData, DirtyValid, DiskData, HoldValid
<1>12. ASSUME NEW p \in Clients, NEW b \in Bufs, GivenBack(p, b) PROVE DataInv'
  <2>1. UNCHANGED <<platter, newest, bad>>
    BY <1>12 DEF GivenBack
  <2>2. \A c \in Bufs : /\ bufs'[c].blk = bufs[c].blk /\ bufs'[c].valid = bufs[c].valid
                        /\ bufs'[c].dirty = bufs[c].dirty /\ bufs'[c].data = bufs[c].data
    BY <1>12 DEF GivenBack, Changed
  <2>3. \A q \in Clients : dpc'[q] = "hold" => dpc[q] = "hold" /\ mine'[q] = mine[q]
    BY <1>12 DEF GivenBack, Goto, TypeOK
  <2> QED
    BY <2>1, <2>2, <2>3, DataKept
<1>13. CASE UNCHANGED vars
  BY <1>13 DEF vars, DataInv, ValidData, DirtyValid, DiskData, HoldValid
<1> QED
  BY <1>1, <1>2, <1>3, <1>4, <1>5, <1>6, <1>7, <1>8, <1>9, <1>10,
     <1>11, <1>12, <1>13 DEF Effect

\* bget's reference counts follow the processes that use a buffer.
LEMMA RefStep ==
  ASSUME TypeOK, TypeOK', RefInv, Effect
  PROVE  RefInv'
<1>1. ASSUME \A c \in Bufs : bufs'[c].blk = bufs[c].blk /\ bufs'[c].ref = bufs[c].ref,
             \A c \in Bufs : Users(c)' = Users(c)
      PROVE  RefInv'
  BY <1>1 DEF RefInv, OneBufferPerBlock, Users
\* p starts to use b
<1>2. ASSUME NEW p \in Clients, NEW b \in Bufs, dpc[p] = "idle",
             mine' = [mine EXCEPT ![p] = b], Goto(p, "lock"),
             \A c \in Bufs : c # b => bufs'[c] = bufs[c],
             bufs'[b].ref = bufs[b].ref + 1,
             bufs'[b].blk = bufs[b].blk \/ \A c \in Bufs : bufs[c].blk # bufs'[b].blk,
             bufs'[b].blk # Unused
      PROVE  RefInv'
  <2>1. Users(b)' = Users(b) \cup {p} /\ p \notin Users(b)
    BY <1>2 DEF Users, Goto, TypeOK
  <2>2. \A c \in Bufs : c # b => Users(c)' = Users(c)
    BY <1>2 DEF Users, Goto, TypeOK
  <2>3. IsFiniteSet(Users(b))
    BY FS_Subset, DiskConstants DEF Users
  <2>4. Cardinality(Users(b)') = Cardinality(Users(b)) + 1
    BY <2>1, <2>3, FS_AddElement
  <2>5. bufs'[b].ref = Cardinality(Users(b)')
    BY <1>2, <2>4 DEF RefInv, OneBufferPerBlock, Users
  <2>6. \A c \in Bufs : bufs'[c].ref = Cardinality(Users(c)')
    BY <1>2, <2>2, <2>5 DEF RefInv, OneBufferPerBlock, Users
  <2>7. \A c \in Bufs : bufs'[c].ref > 0 => bufs'[c].blk # Unused
    BY <1>2 DEF RefInv
  <2>8. \A c, d \in Bufs : c # d /\ bufs'[c].blk = bufs'[d].blk => bufs'[c].blk = Unused
    BY <1>2 DEF RefInv, OneBufferPerBlock
  <2> QED
    BY <2>6, <2>7, <2>8 DEF RefInv, OneBufferPerBlock, Users
<1>3. ASSUME NEW p \in Clients, NEW k \in Blocks, NEW b \in Bufs,
             HitOn(p, k, b) \/ RecycleOn(p, k, b)
      PROVE  RefInv'
  BY <1>2, <1>3, BufFacts DEF HitOn, RecycleOn, Changed
<1>4. ASSUME NEW p \in Clients, NEW b \in Bufs, GivenBack(p, b) PROVE RefInv'
  <2>1. /\ mine[p] = b /\ dpc[p] = "put" /\ Goto(p, "idle") /\ UNCHANGED mine
        /\ \A c \in Bufs : c # b => bufs'[c] = bufs[c]
        /\ bufs'[b].ref = bufs[b].ref - 1 /\ bufs'[b].blk = bufs[b].blk
    BY <1>4 DEF GivenBack, Changed
  <2>2. Users(b)' = Users(b) \ {p} /\ p \in Users(b)
    BY <2>1 DEF Users, Goto, TypeOK
  <2>3. \A c \in Bufs : c # b => Users(c)' = Users(c)
    BY <2>1 DEF Users, Goto, TypeOK
  <2>4. IsFiniteSet(Users(b))
    BY FS_Subset, DiskConstants DEF Users
  <2>5. Cardinality(Users(b)') = Cardinality(Users(b)) - 1
    BY <2>2, <2>4, FS_RemoveElement
  <2>6. bufs[b].blk # Unused
    BY <2>1, InUse, BufFacts
  <2>7. \A c \in Bufs : bufs'[c].ref = Cardinality(Users(c)')
    <3>1. \A c \in Bufs : bufs[c].ref = Cardinality(Users(c))
      BY DEF RefInv, OneBufferPerBlock, Users
    <3>2. bufs'[b].ref = Cardinality(Users(b)')
      BY ONLY <2>1, <2>5, <3>1
    <3>3. ASSUME NEW c \in Bufs, c # b PROVE bufs'[c].ref = Cardinality(Users(c)')
      <4>1. bufs'[c] = bufs[c] /\ Users(c)' = Users(c) /\ bufs[c].ref = Cardinality(Users(c))
        BY <2>1, <2>3, <3>1, <3>3
      <4> QED
        BY ONLY <4>1
    <3> QED
      BY <3>2, <3>3
  <2>8. \A c \in Bufs : bufs'[c].blk = bufs[c].blk
    BY <2>1
  <2>9. \A c \in Bufs : bufs'[c].ref > 0 => bufs'[c].blk # Unused
    BY <2>1, <2>6 DEF RefInv
  <2> QED
    BY <2>7, <2>8, <2>9 DEF RefInv, OneBufferPerBlock, Users
<1>5. ASSUME NEW p \in Clients, Panics(p) \/ Kill(p) \/ Woken(p) \/ ReleaseBuf(p) PROVE RefInv'
  <2>1. UNCHANGED <<bufs, mine>> /\ \A q \in Clients : dpc'[q] = "idle" <=> dpc[q] = "idle"
    BY <1>5 DEF Panics, Kill, Woken, ReleaseBuf, Goto, TypeOK
  <2> QED
    BY <1>1, <2>1 DEF Users
<1>6. ASSUME NEW p \in Clients, NEW b \in Bufs, ReadCached(p, b) \/ ReadQueued(p, b) PROVE RefInv'
  <2>1. UNCHANGED <<bufs, mine>> /\ \A q \in Clients : dpc'[q] = "idle" <=> dpc[q] = "idle"
    BY <1>6 DEF ReadCached, ReadQueued, Queue, Goto, TypeOK
  <2> QED
    BY <1>1, <2>1 DEF Users
<1>7. ASSUME NEW p \in Clients, NEW b \in Bufs, NEW v \in Contents,
             WriteQueued(p, b, v) \/ Pin(p, b, v)
      PROVE  RefInv'
  <2>1. UNCHANGED mine /\ \A q \in Clients : dpc'[q] = "idle" <=> dpc[q] = "idle"
    BY <1>7 DEF WriteQueued, Pin, Queue, Goto, TypeOK
  <2>2. \A c \in Bufs : bufs'[c].blk = bufs[c].blk /\ bufs'[c].ref = bufs[c].ref
    BY <1>7 DEF WriteQueued, Pin, Changed
  <2> QED
    BY <1>1, <2>1, <2>2 DEF Users
<1>8. ASSUME NEW b \in Bufs, NEW ok \in BOOLEAN, Served(b, ok) PROVE RefInv'
  <2>1. UNCHANGED mine /\ \A q \in Clients : dpc'[q] = "idle" <=> dpc[q] = "idle"
    BY <1>8 DEF Served
  <2>2. \A c \in Bufs : bufs'[c].blk = bufs[c].blk /\ bufs'[c].ref = bufs[c].ref
    BY <1>8 DEF Served, Changed
  <2> QED
    BY <1>1, <2>1, <2>2 DEF Users
<1>9. CASE UNCHANGED vars
  BY <1>9 DEF vars, RefInv, OneBufferPerBlock
<1> QED
  BY <1>3, <1>4, <1>5, <1>6, <1>7, <1>8, <1>9 DEF Effect

\* Moving a buffer to the front keeps the list a permutation of the buffers.
LEMMA LruStep ==
  ASSUME LruInv, Effect
  PROVE  LruInv'
<1>1. ASSUME NEW b \in Bufs, lru' = ToFront(b) PROVE LruInv'
  <2> DEFINE i == CHOOSE x \in 1..NBUF : lru[x] = b
  <2>1. i \in 1..NBUF /\ lru[i] = b
    BY DEF LruInv
  <2>2. lru' = [j \in 1..NBUF |-> IF j = 1 THEN b ELSE IF j <= i THEN lru[j - 1] ELSE lru[j]]
    BY <1>1 DEF ToFront
  <2> HIDE DEF i
  <2>3. \A j \in 1..NBUF : \/ j = 1 /\ lru'[j] = b
                           \/ j > 1 /\ j <= i /\ lru'[j] = lru[j - 1]
                           \/ j > i /\ lru'[j] = lru[j]
    BY <2>1, <2>2, DiskConstants
  <2>4. lru' \in [1..NBUF -> Bufs]
    <3>1. \A j \in 1..NBUF : j > 1 => j - 1 \in 1..NBUF
      BY DiskConstants
    <3>2. \A j \in 1..NBUF : lru'[j] \in Bufs
      BY <2>3, <3>1 DEF LruInv
    <3> QED
      BY <2>2, <3>2
  <2>5. ASSUME NEW j \in 1..NBUF, NEW k \in 1..NBUF, lru'[j] = lru'[k] PROVE j = k
    <3>1. /\ j > 1 => j - 1 \in 1..NBUF
          /\ k > 1 => k - 1 \in 1..NBUF
      BY DiskConstants
    <3>2. \A x, y \in 1..NBUF : lru[x] = lru[y] => x = y
      BY DEF LruInv
    <3>3. CASE j = 1
      BY <2>1, <2>3, <2>5, <3>1, <3>2, <3>3
    <3>4. CASE j > 1 /\ j <= i
      BY <2>1, <2>3, <2>5, <3>1, <3>2, <3>4
    <3>5. CASE j > i
      BY <2>1, <2>3, <2>5, <3>1, <3>2, <3>5
    <3> QED
      BY <2>1, <3>3, <3>4, <3>5
  <2>6. ASSUME NEW c \in Bufs PROVE \E j \in 1..NBUF : lru'[j] = c
    <3>1. PICK x \in 1..NBUF : lru[x] = c
      BY DEF LruInv
    <3>2. CASE x < i
      <4>1. x + 1 \in 1..NBUF /\ x + 1 > 1 /\ x + 1 <= i /\ (x + 1) - 1 = x
        BY <2>1, <3>2, DiskConstants
      <4>2. lru'[x + 1] = c
        BY <2>1, <2>3, <3>1, <4>1
      <4> QED
        BY <4>1, <4>2
    <3>3. CASE x = i
      BY <2>1, <2>2, <3>1, <3>3, DiskConstants
    <3>4. CASE x > i
      BY <2>1, <2>2, <3>1, <3>4
    <3> QED
      BY <2>1, <3>2, <3>3, <3>4
  <2> QED
    BY <2>4, <2>5, <2>6 DEF LruInv
<1>2. lru' = lru \/ \E b \in Bufs : lru' = ToFront(b)
  BY DEF Effect, HitOn, RecycleOn, Panics, ReadCached, ReadQueued, WriteQueued, Pin, Served,
         Kill, Woken, ReleaseBuf, GivenBack, vars
<1> QED
  BY <1>1, <1>2 DEF LruInv

\* There are NBUF buffers; the pinned ones can be counted.
LEMMA BufsFinite ==
  /\ IsFiniteSet(Bufs) /\ Cardinality(Bufs) = NBUF
  /\ IsFiniteSet(Pinned) /\ Cardinality(Pinned) \in Nat
<1>1. IsFiniteSet(Bufs) /\ Cardinality(Bufs) = NBUF
  BY DiskConstants, FS_Interval DEF Bufs
<1>2. IsFiniteSet(Pinned)
  BY <1>1, FS_Subset DEF Pinned
<1> QED
  BY <1>1, <1>2, FS_CardinalityType

\* Clients in the middle of a use are at least as many as the buffers in use.
Busy == {q \in Clients : dpc[q] # "idle"}

LEMMA UsedBufs ==
  ASSUME RefInv
  PROVE  LET U == {c \in Bufs : bufs[c].ref # 0}
         IN  IsFiniteSet(U) /\ IsFiniteSet(Busy) /\ Cardinality(U) <= Cardinality(Busy)
<1> DEFINE U == {c \in Bufs : bufs[c].ref # 0}
           user == [c \in U |-> CHOOSE q \in Clients : q \in Users(c)]
<1>1. ASSUME NEW c \in U PROVE user[c] \in Busy /\ mine[user[c]] = c
  <2>1. Users(c) # {}
    BY FS_EmptySet DEF RefInv, OneBufferPerBlock, Users
  <2>2. user[c] \in Users(c)
    BY <2>1 DEF Users
  <2> QED
    BY <2>2 DEF Users, Busy
<1>2. user \in [U -> Busy]
  BY <1>1
<1>3. \A c, d \in U : user[c] = user[d] => c = d
  BY <1>1
<1>4. user \in Injection(U, Busy)
  BY <1>2, <1>3 DEF Injection, IsInjective
<1>5. IsFiniteSet(Busy)
  BY DiskConstants, FS_Subset DEF Busy
<1> QED
  BY <1>4, <1>5, FS_Injection

\* Who finds no buffer has met as many clients and pinned buffers as there are
\* buffers.
LEMMA PanicMeetsAll ==
  ASSUME TypeOK, LockInv, QueueInv, RefInv, NEW p \in Clients, Panics(p)
  PROVE  NBUF <= Cardinality(Pinned) + Cardinality(Busy)
<1> DEFINE U == {c \in Bufs : bufs[c].ref # 0}
           V == Bufs \ U
<1>1. IsFiniteSet(U) /\ IsFiniteSet(Busy) /\ Cardinality(U) <= Cardinality(Busy)
  BY UsedBufs
<1>2. V \subseteq Pinned
  <2> SUFFICES ASSUME NEW c \in Bufs, bufs[c].ref = 0
               PROVE  bufs[c].dirty /\ ~Contains(idequeue, c)
    BY DEF Pinned
  <2> QED
    BY QueuedFacts DEF Panics
<1>3. IsFiniteSet(V) /\ Cardinality(V) <= Cardinality(Pinned)
  BY <1>2, BufsFinite, FS_Subset
<1>4. U \cup V = Bufs /\ U \cap V = {}
  OBVIOUS
<1>5. Cardinality(Bufs) = Cardinality(U) + Cardinality(V) - Cardinality({})
  BY <1>1, <1>3, <1>4, FS_Union
<1>6. Cardinality(U) \in Nat /\ Cardinality(V) \in Nat /\ Cardinality(Busy) \in Nat
  BY <1>1, <1>3, FS_CardinalityType
<1> QED
  BY <1>1, <1>3, <1>5, <1>6, BufsFinite, FS_EmptySet, DiskConstants

\* A panic is the last step, and it changes no buffer.
LEMMA PanicStep ==
  ASSUME TypeOK, LockInv, QueueInv, RefInv, PanicsOnlyWhenFull, Effect, [Next]_vars
  PROVE  PanicsOnlyWhenFull'
<1>1. CASE UNCHANGED vars
  <2>1. Pinned' = Pinned /\ Busy' = Busy
    BY <1>1 DEF vars, Pinned, Busy
  <2> QED
    BY <1>1, <2>1 DEF vars, PanicsOnlyWhenFull, Busy
<1>2. ASSUME NEW p \in Clients, Panics(p) PROVE PanicsOnlyWhenFull'
  <2>1. NBUF <= Cardinality(Pinned) + Cardinality(Busy)
    BY <1>2, PanicMeetsAll
  <2>2. Pinned' = Pinned /\ Busy' = Busy
    BY <1>2 DEF Panics, Pinned, Busy
  <2> QED
    BY <2>1, <2>2 DEF PanicsOnlyWhenFull, Busy
<1>3. CASE nobuf' = nobuf /\ Next
  BY <1>3 DEF Next, PanicsOnlyWhenFull
<1>4. \/ UNCHANGED vars
      \/ \E p \in Clients : Panics(p)
      \/ nobuf' = nobuf
  <2>1. ASSUME NEW p \in Clients, NEW k \in Blocks, NEW b \in Bufs,
               HitOn(p, k, b) \/ RecycleOn(p, k, b)
        PROVE  nobuf' = nobuf
    BY <2>1 DEF HitOn, RecycleOn
  <2>2. ASSUME NEW p \in Clients, Kill(p) \/ Woken(p) \/ ReleaseBuf(p) PROVE nobuf' = nobuf
    BY <2>2 DEF Kill, Woken, ReleaseBuf
  <2>3. ASSUME NEW p \in Clients, NEW b \in Bufs,
               ReadCached(p, b) \/ ReadQueued(p, b) \/ GivenBack(p, b)
        PROVE  nobuf' = nobuf
    BY <2>3 DEF ReadCached, ReadQueued, GivenBack
  <2>4. ASSUME NEW p \in Clients, NEW b \in Bufs, NEW v \in Contents,
               WriteQueued(p, b, v) \/ Pin(p, b, v)
        PROVE  nobuf' = nobuf
    BY <2>4 DEF WriteQueued, Pin
  <2>5. ASSUME NEW b \in Bufs, NEW ok \in BOOLEAN, Served(b, ok) PROVE nobuf' = nobuf
    BY <2>5 DEF Served
  <2> QED
    BY <2>1, <2>2, <2>3, <2>4, <2>5 DEF Effect
<1> QED
  BY <1>1, <1>2, <1>3, <1>4

\* Every step keeps the invariant.
LEMMA StepInv == IInv /\ [Next]_vars => IInv'
<1> SUFFICES ASSUME IInv, [Next]_vars PROVE IInv'
  OBVIOUS
<1>1. Effect
  BY StepEffect DEF IInv
<1>2. TypeOK'
  BY <1>1, TypeStep DEF IInv
<1>3. LockInv' /\ LruInv' /\ RefInv'
  BY <1>1, <1>2, LockStep, LruStep, RefStep DEF IInv
<1>4. QueueInv' /\ DataInv' /\ PanicsOnlyWhenFull'
  BY <1>1, <1>2, QueueStep, DataStep, PanicStep DEF IInv
<1> QED
  BY <1>2, <1>3, <1>4 DEF IInv

\* binit's empty cache and an idle driver satisfy the invariant.
LEMMA InitInv == Init => IInv
<1> SUFFICES ASSUME Init PROVE IInv
  OBVIOUS
<1>1. TypeOK
  <2>1. bufs \in [Bufs -> Buffers]
    BY DEF Init, Buffers, Contents
  <2>2. idequeue \in Seq(Bufs) /\ holder \in [Bufs -> Clients \cup {Nobody}]
    BY DEF Init
  <2>3. platter \in [Blocks -> Contents] /\ newest \in [Blocks -> Contents]
    BY DEF Init, Contents
  <2>4. dpc \in [Clients -> PCs] /\ mine \in [Clients -> Bufs]
    BY DiskConstants DEF Init, PCs, Bufs
  <2> QED
    BY <2>1, <2>2, <2>3, <2>4 DEF Init, TypeOK
<1>2. LruInv
  <2>1. \A i \in 1..NBUF : lru[i] = NBUF + 1 - i
    BY DEF Init
  <2>2. \A b \in Bufs : NBUF + 1 - b \in 1..NBUF /\ lru[NBUF + 1 - b] = b
    BY <2>1, DiskConstants DEF Bufs
  <2> QED
    BY <2>1, <2>2, DiskConstants DEF Init, LruInv, Bufs
<1>3. LockInv
  BY BufFacts DEF Init, LockInv, InIderw
<1>4. QueueInv
  BY DEF Init, QueueInv, Queued, QueuedOnce, WokenDone, NoLostRequest
<1>5. RefInv
  <2>1. \A b \in Bufs : Users(b) = {}
    BY DEF Init, Users
  <2>2. \A b \in Bufs : bufs[b].ref = 0 /\ bufs[b].blk = Unused
    BY DEF Init
  <2> QED
    BY <2>1, <2>2, FS_EmptySet DEF RefInv, OneBufferPerBlock, Users
<1>6. DataInv
  BY DEF Init, DataInv, ValidData, DirtyValid, DiskData, HoldValid
<1>7. PanicsOnlyWhenFull
  BY DEF Init, PanicsOnlyWhenFull
<1> QED
  BY <1>1, <1>2, <1>3, <1>4, <1>5, <1>6, <1>7 DEF IInv

-----------------------------------------------------------------------------
\* The invariant holds throughout.
LEMMA Invariance == Spec => []IInv
BY InitInv, StepInv, PTL DEF Spec

\* iderw and ideintr lose no request and no answer: the drive works on the
\* head of idequeue with the command its buffer asks for, and whoever sleeps in
\* iderw is queued.
THEOREM RequestsServed == Spec => []NoLostRequest
<1>1. IInv => NoLostRequest
  BY DEF IInv, QueueInv
<1> QED
  BY Invariance, <1>1, PTL

\* bget never gives a block two buffers, and a buffer's count is the number of
\* processes past bget with it: what is queued or held is never recycled.
THEOREM CacheIsCoherent == Spec => []OneBufferPerBlock
<1>1. IInv => OneBufferPerBlock
  BY DEF IInv, RefInv
<1> QED
  BY Invariance, <1>1, PTL

\* Between bread or bwrite and brelse a process has the buffer for itself and
\* sees in it what was last put into the block, unless the drive failed to
\* read that block.
THEOREM HoldersSeeLatest == Spec => []HolderSeesLatest
<1>1. ASSUME IInv, NEW p \in Clients, dpc[p] = "hold"
      PROVE  LET f == bufs[mine[p]] IN
             /\ holder[mine[p]] = p /\ f.valid /\ f.ref > 0
             /\ f.blk \in bad \/ f.data = newest[f.blk]
  <2>1. mine[p] \in Bufs /\ holder[mine[p]] = p
    BY <1>1 DEF IInv, TypeOK, LockInv
  <2>2. bufs[mine[p]].ref > 0
    BY <1>1, InUse DEF IInv
  <2> QED
    BY <1>1, <2>1, <2>2 DEF IInv, DataInv, HoldValid, ValidData
<1>2. IInv => HolderSeesLatest
  BY <1>1 DEF HolderSeesLatest, Holding
<1> QED
  BY Invariance, <1>2, PTL

\* A valid buffer without B_DIRTY agrees with the disk, but for a failed read:
\* log.c may forget the log once install_trans has written the home blocks.
THEOREM CleanBuffersAreOnDisk == Spec => []CleanIsOnDisk
<1>1. ASSUME IInv, NEW b \in Bufs, bufs[b].valid, ~bufs[b].dirty, bufs[b].blk \notin bad
      PROVE  platter[bufs[b].blk] = bufs[b].data
  <2>1. bufs[b].blk # Unused /\ bufs[b].data = newest[bufs[b].blk]
    BY <1>1 DEF IInv, DataInv, ValidData
  <2>2. bufs[b].blk \in Blocks
    <3>1. bufs[b] \in Buffers
      BY <1>1 DEF IInv, TypeOK
    <3> QED
      BY <2>1, <3>1 DEF Buffers
  <2>3. ASSUME NEW c \in Bufs, bufs[c].blk = bufs[b].blk PROVE c = b
    <3>1. OneBufferPerBlock
      BY <1>1 DEF IInv, RefInv
    <3> QED
      BY <2>1, <2>3, <3>1 DEF OneBufferPerBlock
  <2> QED
    BY <1>1, <2>1, <2>2, <2>3 DEF IInv, DataInv, DiskData
<1>2. IInv => CleanIsOnDisk
  BY <1>1 DEF CleanIsOnDisk, Synced
<1> QED
  BY Invariance, <1>2, PTL

\* However the uses interleave, bget finds no buffer only when each one is pinned
\* or in somebody's use: none is lost by a reference or a dirty mark that stays.
THEOREM PoolIsNotLost == Spec => []PanicsOnlyWhenFull
<1>1. IInv => PanicsOnlyWhenFull
  BY DEF IInv
<1> QED
  BY Invariance, <1>1, PTL
=============================================================================
