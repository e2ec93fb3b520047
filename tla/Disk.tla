-------------------------------- MODULE Disk --------------------------------
(***************************************************************************)
(* The buffer cache (bio.c) over the disk driver (ide.c).  Processes read, *)
(* change and release blocks; the log pins a buffer by marking it dirty    *)
(* without queueing it (log_write); the drive works on the head of         *)
(* idequeue and its interrupt completes it.  A step runs between two       *)
(* points at which another process or the interrupt can interfere.         *)
(*                                                                         *)
(* A client is one use of a buffer, from bread() to brelse(), and not a    *)
(* process: who holds two buffers at once, as write_log and install_trans  *)
(* hold from and to (log.c:76, 181) and bmap the indirect block while      *)
(* balloc reads the bitmap (fs.c:389), is two clients.  That the uses of   *)
(* one process take turns is left out, which only adds interleavings.      *)
(***************************************************************************)
EXTENDS Integers, SequencesExt

CONSTANTS Clients,     \* the uses of buffers that can be under way at once
          Blocks, NBUF,
          MaxPinned,   \* bound on the buffers log_write keeps dirty
          MaxErrs      \* bound on the reads the drive fails

ASSUME DiskConstants ==
  /\ 0 \notin Clients \cup Blocks /\ IsFiniteSet(Clients) /\ NBUF \in Nat \ {0}
  /\ MaxPinned \in Nat /\ MaxErrs \in Nat

Bufs == 1..NBUF
Nobody == 0
Unused == 0     \* the block of a buffer that never held one
Contents == {0, 1}
Idle == [op |-> "idle", blk |-> Unused]

VARIABLES
  bufs,      \* struct buf: blk, valid, dirty, ref, data
  lru,       \* the list bcache.head, most recently used first
  holder,    \* who holds each buffer's sleep lock
  idequeue,
  drive,     \* the command the drive is executing
  platter,   \* what the disk holds
  dpc, mine, \* where each use is, and its buffer
  newest,    \* ghost: what was last put into each block
  bad,       \* ghost: blocks whose read the drive failed
  nobuf      \* panic("bget: no buffers")

vars == <<bufs, lru, holder, idequeue, drive, platter, dpc, mine, newest, bad, nobuf>>

Init ==
  /\ bufs = [b \in Bufs |-> [blk |-> Unused, valid |-> FALSE, dirty |-> FALSE,
                             ref |-> 0, data |-> 0]]
  /\ lru = [i \in 1..NBUF |-> NBUF + 1 - i]
  /\ holder = [b \in Bufs |-> Nobody]
  /\ idequeue = <<>> /\ drive = Idle
  /\ platter = [k \in Blocks |-> 0] /\ newest = platter
  /\ dpc = [p \in Clients |-> "idle"] /\ mine = [p \in Clients |-> 1]
  /\ bad = {} /\ nobuf = FALSE

Goto(p, at) == dpc' = [dpc EXCEPT ![p] = at]
Pinned == {b \in Bufs : bufs[b].dirty /\ ~Contains(idequeue, b)}

\* A buffer bget may recycle.  Faulty variant: a pinned one too.
Reusable_Dirty(f) == f.ref = 0
Reusable(f) == f.ref = 0 /\ ~f.dirty

\* bget, under bcache.lock: the block is cached ...
Hit(p, k) == \E b \in Bufs :
  /\ bufs[b].blk = k
  /\ bufs' = [bufs EXCEPT ![b].ref = @ + 1]
  /\ mine' = [mine EXCEPT ![p] = b]
  /\ Goto(p, "lock")
  /\ UNCHANGED nobuf

\* ... or the least recently used buffer that is free takes it ...
Recycle(p, k) == \E i \in 1..NBUF : LET b == lru[i] IN
  /\ \A c \in Bufs : bufs[c].blk # k
  /\ Reusable(bufs[b]) /\ \A j \in i+1..NBUF : ~Reusable(bufs[lru[j]])
  /\ bufs' = [bufs EXCEPT ![b] = [blk |-> k, valid |-> FALSE, dirty |-> FALSE,
                                  ref |-> 1, data |-> @.data]]
  /\ mine' = [mine EXCEPT ![p] = b]
  /\ Goto(p, "lock")
  /\ UNCHANGED nobuf

\* ... or there is none.
NoBuffer(k) ==
  /\ \A c \in Bufs : bufs[c].blk # k /\ ~Reusable(bufs[c])
  /\ nobuf' = TRUE
  /\ UNCHANGED <<bufs, mine, dpc>>

Bget(p, k) ==
  /\ dpc[p] = "idle"
  /\ Hit(p, k) \/ Recycle(p, k) \/ NoBuffer(k)
  /\ UNCHANGED <<lru, holder, idequeue, drive, platter, newest, bad>>

-----------------------------------------------------------------------------
\* idestart: the command follows B_DIRTY; a write hands the data over at once.
Command(f) == [op |-> IF f.dirty THEN "write" ELSE "read", blk |-> f.blk]
Performed(f) == IF f.dirty THEN [platter EXCEPT ![f.blk] = f.data] ELSE platter

\* Faulty variant: iderw starts the drive whatever it is doing.
StartsAtOnce_Always == TRUE
\* iderw starts the drive only when its buffer came to the head.
StartsAtOnce == idequeue = <<>>

\* iderw, under idelock, up to sleep(): g is the table in which b needs the disk.
Iderw(p, b, g) ==
  /\ bufs' = g
  /\ idequeue' = Append(idequeue, b)
  /\ IF StartsAtOnce THEN drive' = Command(g[b]) ELSE UNCHANGED drive
  /\ Goto(p, "sleep")

Synced(f) == f.valid /\ ~f.dirty

\* acquiresleep in bget, then bread reads a buffer that is not valid.
Bread(p) == LET b == mine[p] IN
  /\ dpc[p] = "lock" /\ holder[b] = Nobody
  /\ holder' = [holder EXCEPT ![b] = p]
  /\ \/ bufs[b].valid /\ Goto(p, "hold") /\ UNCHANGED <<bufs, idequeue, drive>>
     \/ ~bufs[b].valid /\ Iderw(p, b, bufs)
  /\ UNCHANGED <<lru, platter, mine, newest, bad, nobuf>>

\* bwrite of contents v.
Bwrite(p, v) == LET b == mine[p] IN
  /\ dpc[p] = "hold"
  /\ newest' = [newest EXCEPT ![bufs[b].blk] = v]
  /\ Iderw(p, b, [bufs EXCEPT ![b].dirty = TRUE, ![b].data = v])
  /\ UNCHANGED <<lru, holder, platter, mine, bad, nobuf>>

\* log_write of contents v: B_DIRTY keeps the buffer, nothing is queued.
LogWrite(p, v) == LET b == mine[p] IN
  /\ dpc[p] = "hold" /\ (b \in Pinned \/ Cardinality(Pinned) < MaxPinned)
  /\ newest' = [newest EXCEPT ![bufs[b].blk] = v]
  /\ bufs' = [bufs EXCEPT ![b].dirty = TRUE, ![b].data = v]
  /\ UNCHANGED <<lru, holder, idequeue, drive, platter, dpc, mine, bad, nobuf>>

-----------------------------------------------------------------------------
\* What ideintr leaves in the buffer at the head; ok: the drive had no error.
\* Faulty variant: a read leaves the buffer as it was.
Completed_NoData(f, ok) == [f EXCEPT !.valid = TRUE, !.dirty = FALSE]
Completed(f, ok) ==
  [f EXCEPT !.valid = TRUE, !.dirty = FALSE,
            !.data = IF ~f.dirty /\ ok THEN platter[f.blk] ELSE @]

\* ideintr, under idelock: the drive did what it was told; complete the head,
\* wake whoever sleeps on it, start the next.  A failed read is not reported.
Ideintr(ok) == LET b == Head(idequeue) f == bufs[b] IN
  /\ idequeue # <<>> /\ drive # Idle
  /\ ~ok => ~f.dirty /\ Cardinality(bad) < MaxErrs
  /\ platter' = Performed(f)
  /\ bufs' = [bufs EXCEPT ![b] = Completed(f, ok)]
  /\ bad' = IF ok THEN bad ELSE bad \cup {f.blk}
  /\ dpc' = [p \in Clients |-> IF dpc[p] = "sleep" /\ mine[p] = b THEN "woken" ELSE dpc[p]]
  /\ idequeue' = Tail(idequeue)
  /\ drive' = IF idequeue' = <<>> THEN Idle ELSE Command(bufs[Head(idequeue')])
  /\ UNCHANGED <<lru, holder, mine, newest, nobuf>>

\* kill() makes a sleeper runnable; iderw does not look at p->killed.
Kill(p) ==
  /\ dpc[p] = "sleep" /\ Goto(p, "woken")
  /\ UNCHANGED <<bufs, lru, holder, idequeue, drive, platter, mine, newest, bad, nobuf>>

\* sleep() returns: the loop of iderw tests the flags again.
Woken(p) ==
  /\ dpc[p] = "woken"
  /\ Goto(p, IF Synced(bufs[mine[p]]) THEN "hold" ELSE "sleep")
  /\ UNCHANGED <<bufs, lru, holder, idequeue, drive, platter, mine, newest, bad, nobuf>>

-----------------------------------------------------------------------------
\* brelse: releasesleep ...
ReleaseBuf(p) ==
  /\ dpc[p] = "hold" /\ Goto(p, "put")
  /\ holder' = [holder EXCEPT ![mine[p]] = Nobody]
  /\ UNCHANGED <<bufs, lru, idequeue, drive, platter, mine, newest, bad, nobuf>>

\* Faulty variants of Dropped: the count is cleared, or left, instead of lowered.
Dropped_Zero(f) == [f EXCEPT !.ref = 0]
Dropped_Not(f) == f
Dropped(f) == [f EXCEPT !.ref = @ - 1]

\* b unlinked and put in at bcache.head.next.
ToFront(b) ==
  LET i == CHOOSE i \in 1..NBUF : lru[i] = b
  IN  [j \in 1..NBUF |-> IF j = 1 THEN b ELSE IF j <= i THEN lru[j - 1] ELSE lru[j]]

\* ... then, under bcache.lock, one reference less; the last one moves the
\* buffer to the front of the list.
PutBuf(p) == LET b == mine[p] IN
  /\ dpc[p] = "put" /\ Goto(p, "idle")
  /\ bufs' = [bufs EXCEPT ![b] = Dropped(@)]
  /\ lru' = IF bufs'[b].ref = 0 THEN ToFront(b) ELSE lru
  /\ UNCHANGED <<holder, idequeue, drive, platter, mine, newest, bad, nobuf>>

Next ==
  /\ ~nobuf
  /\ \/ \E p \in Clients, k \in Blocks : Bget(p, k)
     \/ \E p \in Clients, v \in Contents : Bwrite(p, v) \/ LogWrite(p, v)
     \/ \E p \in Clients : Bread(p) \/ Kill(p) \/ Woken(p) \/ ReleaseBuf(p) \/ PutBuf(p)
     \/ \E ok \in BOOLEAN : Ideintr(ok)

Spec == Init /\ [][Next]_vars

-----------------------------------------------------------------------------
Holding(p) == dpc[p] = "hold"

\* "Only one process at a time can use a buffer" (bio.c:14) and sees in it what
\* was last put into the block, whoever put it there and however often the
\* buffer was recycled since, unless the drive failed a read of the block.
HolderSeesLatest == \A p \in Clients : Holding(p) =>
  LET f == bufs[mine[p]] IN
  /\ holder[mine[p]] = p /\ f.valid /\ f.ref > 0
  /\ f.blk \in bad \/ f.data = newest[f.blk]

\* bget's two scans are one critical section: no block has two buffers, and a
\* buffer that is queued or held is not given to another block.
OneBufferPerBlock ==
  /\ \A a, b \in Bufs : a # b /\ bufs[a].blk = bufs[b].blk => bufs[a].blk = Unused
  /\ \A b \in Bufs : bufs[b].ref = Cardinality({p \in Clients : dpc[p] # "idle" /\ mine[p] = b})

\* iderw and ideintr keep the drive at work on the head of the queue with the
\* command the buffer asks for, and whoever sleeps is still in the queue: no
\* request is forgotten and no answer is missed.
NoLostRequest ==
  /\ drive = IF idequeue = <<>> THEN Idle ELSE Command(bufs[Head(idequeue)])
  /\ \A p \in Clients : dpc[p] = "sleep" => Contains(idequeue, mine[p])

\* B_DIRTY clear means the disk has the contents (log.c relies on it when it
\* erases the log after install_trans), but for a failed read.
CleanIsOnDisk == \A b \in Bufs : LET f == bufs[b] IN
  Synced(f) => f.blk \in bad \/ platter[f.blk] = f.data

\* bget panics only when each of the NBUF buffers is pinned by the log or in use
\* by a different client: no reference and no dirty mark outlives its use.
PanicsOnlyWhenFull ==
  nobuf => NBUF <= Cardinality(Pinned) + Cardinality({p \in Clients : dpc[p] # "idle"})
=============================================================================
