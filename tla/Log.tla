-------------------------------- MODULE Log --------------------------------
(***************************************************************************)
(* The redo log of xv6 (log.c) with the part of the buffer cache it relies *)
(* on (bio.c): begin_op/end_op group the writes of concurrent file-system  *)
(* calls into one transaction, log_write pins a modified buffer, the last  *)
(* end_op copies the transaction to the on-disk log, writes the header     *)
(* (the commit point), installs the blocks and erases the header, and      *)
(* recover_from_log replays a committed transaction after a crash.         *)
(*                                                                         *)
(* Each critical section under log.lock is one step.  The checks at the    *)
(* head of log_write run before acquire(&log.lock), so they are a step of  *)
(* their own; each bwrite is a step, since a crash may fall between two.   *)
(***************************************************************************)
EXTENDS Integers, Sequences, FiniteSets

CONSTANTS Procs,        \* processes making file-system calls
          Blocks,       \* home blocks that operations write
          Values,       \* block contents
          Absent,       \* "no valid buffer caches this block"
          LOGSIZE,      \* param.h: capacity of struct logheader
          LogSize,      \* sb.nlog: blocks of the on-disk log, header included
          MAXOPBLOCKS,  \* param.h: log space begin_op reserves for one call
          OpBlocks,     \* blocks an operation really adds to the log, at most
          CanCrash      \* whether the machine may lose power

ASSUME LogConstants ==
  /\ LOGSIZE \in Nat /\ LogSize \in Nat \ {0}
  /\ MAXOPBLOCKS \in Nat /\ OpBlocks \in Nat
  /\ IsFiniteSet(Procs)
  /\ Absent \notin Values
  /\ CanCrash \in BOOLEAN

VARIABLES
  pc,           \* where each process is in its file-system call
  blk,          \* the buffer a process holds locked between bread and brelse
  used,         \* ghost: log entries the running operation has added
  lh,           \* log.lh.block[0 .. log.lh.n-1]
  outstanding,  \* log.outstanding
  committing,   \* log.committing
  tail,         \* loop index of write_log and install_trans
  cache,        \* contents of the valid buffers
  dirty,        \* blocks whose buffer has B_DIRTY
  disk,         \* home blocks on the disk
  dlog,         \* log blocks on the disk
  dhead,        \* the on-disk header
  boot,         \* progress of recover_from_log
  panicked      \* panic() froze the machine

memory == <<pc, blk, used, lh, outstanding, committing, tail>>
buffers == <<cache, dirty>>
platter == <<disk, dlog, dhead>>
machine == <<boot, panicked>>
vars == <<memory, buffers, platter, machine>>

InOp == {"inop", "check", "append"}
Committing == {"writelog", "commit", "install", "erase", "finish"}
PCs == {"idle", "sleeping", "woken"} \cup InOp \cup Committing

Up == boot = "up" /\ ~panicked
Logged == {lh[i] : i \in 1..Len(lh)}
Active == {p \in Procs : pc[p] \in InOp}
Locked == {blk[p] : p \in {q \in Procs : pc[q] \in {"check", "append"}}}

\* What bread returns: the valid buffer, or else the block on the disk.
BreadData(b) == IF cache[b] = Absent THEN disk[b] ELSE cache[b]

\* wakeup(&log): every process sleeping on the log is made runnable.
Wakeup(f) == [p \in Procs |-> IF f[p] = "sleeping" THEN "woken" ELSE f[p]]

-----------------------------------------------------------------------------
\* The first boot of a disk that mkfs wrote: an empty header.
Init ==
  /\ pc = [p \in Procs |-> "idle"]
  /\ blk \in [Procs -> Blocks]
  /\ used = [p \in Procs |-> 0]
  /\ lh = <<>> /\ outstanding = 0 /\ committing = FALSE /\ tail = 0
  /\ cache = [b \in Blocks |-> Absent] /\ dirty = {}
  /\ disk \in [Blocks -> Values]
  /\ \E v \in Values : dlog = [i \in 1..LogSize-1 |-> v]
  /\ dhead = <<>>
  /\ boot = "readhead" /\ panicked = FALSE

-----------------------------------------------------------------------------
\* recover_from_log, one step per disk write
ReadHead ==
  /\ boot = "readhead"
  /\ lh' = dhead /\ tail' = 0 /\ boot' = "install"
  /\ UNCHANGED <<pc, blk, used, outstanding, committing, buffers, platter, panicked>>

\* One turn of the loop of install_trans: log block to home block.
InstallOne ==
  /\ disk' = [disk EXCEPT ![lh[tail+1]] = dlog[tail+1]]
  /\ cache' = [cache EXCEPT ![lh[tail+1]] = dlog[tail+1]]
  /\ dirty' = dirty \ {lh[tail+1]}
  /\ tail' = tail + 1

RecoverInstall ==
  /\ boot = "install" /\ tail < Len(lh)
  /\ InstallOne
  /\ UNCHANGED <<pc, blk, used, lh, outstanding, committing, dlog, dhead, machine>>

\* Faulty variant: the header is erased without waiting for every install.
RecoverErase_Early ==
  /\ boot = "install"
  /\ lh' = <<>> /\ dhead' = <<>> /\ boot' = "up"
  /\ UNCHANGED <<pc, blk, used, outstanding, committing, tail, buffers, disk, dlog, panicked>>

RecoverErase ==
  /\ boot = "install" /\ tail = Len(lh)
  /\ lh' = <<>> /\ dhead' = <<>> /\ boot' = "up"
  /\ UNCHANGED <<pc, blk, used, outstanding, committing, tail, buffers, disk, dlog, panicked>>

-----------------------------------------------------------------------------
\* Faulty variant: the caller's own reservation is not counted.
MustWait_Others == committing \/ Len(lh) + outstanding * MAXOPBLOCKS > LOGSIZE

\* This operation might exhaust the log space: wait.
MustWait == committing \/ Len(lh) + (outstanding + 1) * MAXOPBLOCKS > LOGSIZE

BeginOpSleep(p) ==
  /\ Up /\ pc[p] \in {"idle", "woken"}
  /\ MustWait
  /\ pc' = [pc EXCEPT ![p] = "sleeping"]
  /\ UNCHANGED <<blk, used, lh, outstanding, committing, tail, buffers, platter, machine>>

\* Faulty variant: outstanding is not incremented.
BeginOpAdmit_NotCounted(p) ==
  /\ Up /\ pc[p] \in {"idle", "woken"}
  /\ ~MustWait
  /\ pc' = [pc EXCEPT ![p] = "inop"]
  /\ used' = [used EXCEPT ![p] = 0]
  /\ UNCHANGED <<blk, lh, outstanding, committing, tail, buffers, platter, machine>>

BeginOpAdmit(p) ==
  /\ Up /\ pc[p] \in {"idle", "woken"}
  /\ ~MustWait
  /\ outstanding' = outstanding + 1
  /\ pc' = [pc EXCEPT ![p] = "inop"]
  /\ used' = [used EXCEPT ![p] = 0]
  /\ UNCHANGED <<blk, lh, committing, tail, buffers, platter, machine>>

\* kill() makes a sleeping process runnable whatever it waits for.
KillWakeup(p) ==
  /\ Up /\ pc[p] = "sleeping"
  /\ pc' = [pc EXCEPT ![p] = "woken"]
  /\ UNCHANGED <<blk, used, lh, outstanding, committing, tail, buffers, platter, machine>>

\* The caller of log_write: bread(b), then modify the locked buffer.
Modify(p, b, v) ==
  /\ Up /\ pc[p] = "inop"
  /\ b \notin Locked
  /\ b \in Logged \/ used[p] < OpBlocks
  /\ blk' = [blk EXCEPT ![p] = b]
  /\ cache' = [cache EXCEPT ![b] = v]
  /\ pc' = [pc EXCEPT ![p] = "check"]
  /\ UNCHANGED <<used, lh, outstanding, committing, tail, dirty, platter, machine>>

\* The two panics of log_write, evaluated without log.lock.
LogWriteCheck(p) ==
  /\ Up /\ pc[p] = "check"
  /\ panicked' = (Len(lh) >= LOGSIZE \/ Len(lh) >= LogSize - 1 \/ outstanding < 1)
  /\ pc' = [pc EXCEPT ![p] = "append"]
  /\ UNCHANGED <<blk, used, lh, outstanding, committing, tail, buffers, platter, boot>>

\* The rest of log_write, and the caller's brelse.
LogWriteAppend(p) ==
  /\ Up /\ pc[p] = "append"
  /\ LET new == blk[p] \notin Logged
     IN  /\ lh' = IF new THEN Append(lh, blk[p]) ELSE lh
         /\ used' = IF new THEN [used EXCEPT ![p] = @ + 1] ELSE used
  /\ dirty' = dirty \cup {blk[p]}
  /\ pc' = [pc EXCEPT ![p] = "inop"]
  /\ UNCHANGED <<blk, outstanding, committing, tail, cache, platter, machine>>

\* Faulty variant: no wakeup(&log) when others are still outstanding.
EndOp_NoWakeup(p) ==
  /\ Up /\ pc[p] = "inop"
  /\ outstanding' = outstanding - 1
  /\ panicked' = committing
  /\ IF outstanding' = 0
     THEN /\ committing' = TRUE
          /\ pc' = [pc EXCEPT ![p] = IF lh = <<>> THEN "finish" ELSE "writelog"]
     ELSE /\ pc' = [pc EXCEPT ![p] = "idle"]
          /\ UNCHANGED committing
  /\ tail' = 0
  /\ UNCHANGED <<blk, used, lh, buffers, platter, boot>>

EndOp(p) ==
  /\ Up /\ pc[p] = "inop"
  /\ outstanding' = outstanding - 1
  /\ panicked' = committing
  /\ IF outstanding' = 0
     THEN /\ committing' = TRUE
          /\ pc' = [pc EXCEPT ![p] = IF lh = <<>> THEN "finish" ELSE "writelog"]
     ELSE /\ pc' = Wakeup([pc EXCEPT ![p] = "idle"])
          /\ UNCHANGED committing
  /\ tail' = 0
  /\ UNCHANGED <<blk, used, lh, buffers, platter, boot>>

-----------------------------------------------------------------------------
\* commit(), run by the process whose end_op was the last
WriteLog(p) ==
  /\ Up /\ pc[p] = "writelog" /\ tail < Len(lh)
  /\ dlog' = [dlog EXCEPT ![tail+1] = BreadData(lh[tail+1])]
  /\ cache' = [cache EXCEPT ![lh[tail+1]] = BreadData(lh[tail+1])]
  /\ tail' = tail + 1
  /\ pc' = [pc EXCEPT ![p] = IF tail' = Len(lh) THEN "commit" ELSE "writelog"]
  /\ UNCHANGED <<blk, used, lh, outstanding, committing, dirty, disk, dhead, machine>>

WriteHead(p) ==
  /\ Up /\ pc[p] = "commit"
  /\ dhead' = lh /\ tail' = 0
  /\ pc' = [pc EXCEPT ![p] = "install"]
  /\ UNCHANGED <<blk, used, lh, outstanding, committing, buffers, disk, dlog, machine>>

Install(p) ==
  /\ Up /\ pc[p] = "install" /\ tail < Len(lh)
  /\ InstallOne
  /\ pc' = [pc EXCEPT ![p] = IF tail' = Len(lh) THEN "erase" ELSE "install"]
  /\ UNCHANGED <<blk, used, lh, outstanding, committing, dlog, dhead, machine>>

EraseHead(p) ==
  /\ Up /\ pc[p] = "erase"
  /\ lh' = <<>> /\ dhead' = <<>>
  /\ pc' = [pc EXCEPT ![p] = "finish"]
  /\ UNCHANGED <<blk, used, outstanding, committing, tail, buffers, disk, dlog, machine>>

\* Faulty variant: no wakeup(&log) after the commit.
Finish_NoWakeup(p) ==
  /\ Up /\ pc[p] = "finish"
  /\ committing' = FALSE
  /\ pc' = [pc EXCEPT ![p] = "idle"]
  /\ UNCHANGED <<blk, used, lh, outstanding, tail, buffers, platter, machine>>

\* The critical section that ends end_op.
Finish(p) ==
  /\ Up /\ pc[p] = "finish"
  /\ committing' = FALSE
  /\ pc' = Wakeup([pc EXCEPT ![p] = "idle"])
  /\ UNCHANGED <<blk, used, lh, outstanding, tail, buffers, platter, machine>>

-----------------------------------------------------------------------------
\* A reader loads a block; bget recycles a clean buffer nobody holds.
CacheRead(b) ==
  /\ Up /\ cache[b] = Absent
  /\ cache' = [cache EXCEPT ![b] = disk[b]]
  /\ UNCHANGED <<memory, dirty, platter, machine>>

\* Faulty variant: bget recycles a buffer without looking at B_DIRTY.
Evict_Dirty(b) ==
  /\ Up /\ cache[b] # Absent
  /\ b \notin Locked
  /\ cache' = [cache EXCEPT ![b] = Absent]
  /\ UNCHANGED <<memory, dirty, platter, machine>>

Evict(b) ==
  /\ Up /\ cache[b] # Absent
  /\ b \notin dirty /\ b \notin Locked
  /\ cache' = [cache EXCEPT ![b] = Absent]
  /\ UNCHANGED <<memory, dirty, platter, machine>>

\* Power fails: memory is lost, the disk keeps every completed bwrite.
Crash ==
  /\ CanCrash
  /\ pc' = [p \in Procs |-> "idle"]
  /\ used' = [p \in Procs |-> 0]
  /\ lh' = <<>> /\ outstanding' = 0 /\ committing' = FALSE /\ tail' = 0
  /\ cache' = [b \in Blocks |-> Absent] /\ dirty' = {}
  /\ boot' = "readhead" /\ panicked' = FALSE
  /\ UNCHANGED <<blk, platter>>

-----------------------------------------------------------------------------
Recover == ReadHead \/ RecoverInstall \/ RecoverErase

BeginOp(p) == BeginOpSleep(p) \/ BeginOpAdmit(p)
LogWrite(p) == LogWriteCheck(p) \/ LogWriteAppend(p)
CommitStep(p) == WriteLog(p) \/ WriteHead(p) \/ Install(p) \/ EraseHead(p) \/ Finish(p)

Proc(p) ==
  \/ BeginOp(p)
  \/ KillWakeup(p)
  \/ \E b \in Blocks, v \in Values : Modify(p, b, v)
  \/ LogWrite(p)
  \/ EndOp(p)
  \/ CommitStep(p)

Next ==
  \/ \E p \in Procs : Proc(p)
  \/ \E b \in Blocks : CacheRead(b) \/ Evict(b)
  \/ Recover
  \/ Crash

Spec == Init /\ [][Next]_vars

\* A process that is not asleep keeps running.  An operation issues finitely
\* many writes, so it reaches its end_op: strong fairness, because the model
\* lets it rewrite logged blocks forever.
Fairness ==
  /\ WF_vars(Recover)
  /\ \A p \in Procs : /\ WF_vars(LogWrite(p))
                      /\ WF_vars(CommitStep(p))
                      /\ SF_vars(EndOp(p))

LiveSpec == Spec /\ Fairness

-----------------------------------------------------------------------------
\* Type invariant of the model's variables.
TypeOK ==
  /\ pc \in [Procs -> PCs]
  /\ blk \in [Procs -> Blocks]
  /\ used \in [Procs -> Nat]
  /\ lh \in Seq(Blocks)
  /\ outstanding \in Nat
  /\ committing \in BOOLEAN
  /\ tail \in Nat
  /\ cache \in [Blocks -> Values \cup {Absent}]
  /\ dirty \subseteq Blocks
  /\ disk \in [Blocks -> Values]
  /\ dlog \in [1..LogSize-1 -> Values]
  /\ dhead \in Seq(Blocks)
  /\ boot \in {"readhead", "install", "up"}
  /\ panicked \in BOOLEAN

\* None of the panics of log_write and end_op is ever reached.
NoPanic == ~panicked

\* begin_op's reservation keeps the transaction within struct logheader and
\* within the log area of the disk, whatever calls run together and although
\* log_write looks at log.lh.n before it takes the lock; and not even the last
\* entry is one that log_write refuses with a panic.
LogFits == Len(lh) <= LOGSIZE /\ Len(lh) <= LogSize - 1 /\ NoPanic

\* A process asleep in begin_op is never forgotten: somebody is inside an
\* operation or committing, and will call wakeup(&log).
NoStrandedSleeper ==
  \A p \in Procs : pc[p] = "sleeping" =>
     \E q \in Procs : pc[q] \in InOp \cup Committing

\* B_DIRTY keeps every modified block in the cache until its contents are at
\* home on the disk: what commit copies is what the operations wrote.
PinnedUntilInstalled ==
  boot = "up" => \A b \in Blocks :
    /\ b \in dirty => cache[b] # Absent
    /\ cache[b] \notin {Absent, disk[b]} => b \in dirty \cup Locked

\* The contents a crash leaves: the committed log laid over the home blocks.
Stable ==
  [b \in Blocks |->
     IF \E i \in 1..Len(dhead) : dhead[i] = b
     THEN dlog[CHOOSE i \in 1..Len(dhead) : dhead[i] = b]
     ELSE disk[b]]

Current == IF boot = "up" THEN [b \in Blocks |-> BreadData(b)] ELSE Stable

AD == INSTANCE AtomicDisk
        WITH stable <- Stable, current <- Current, writers <- Active

\* The log implements the atomic disk: operations become permanent together,
\* at the write of the header, and a crash anywhere, recovery included, leaves
\* the state of the last commit.
ImplementsAtomicDisk == AD!ASpec

\* A process asleep in begin_op is woken again.
SleeperWakes == \A p \in Procs : pc[p] = "sleeping" ~> pc[p] # "sleeping"
=============================================================================
