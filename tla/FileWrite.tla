----------------------------- MODULE FileWrite -----------------------------
(***************************************************************************)
(* Writing to a file (filewrite in file.c, writei, bmap, balloc and        *)
(* iupdate in fs.c) against the space of the log: filewrite cuts a request *)
(* into chunks, each a transaction of its own, so that no transaction      *)
(* writes more blocks than begin_op reserved for it.                       *)
(*                                                                         *)
(* The sizes are the program's own.  The log is seen from outside: what it *)
(* holds, who is inside, and a commit that empties it (module Log has its  *)
(* inner workings).  Processes of one file share its struct file, as after *)
(* a fork.  A step is one turn of writei's loop.                           *)
(***************************************************************************)
EXTENDS Integers, FiniteSets

CONSTANTS Procs, None,
          FileOf,        \* the file each process writes to
          Counts,        \* byte counts passed to write()
          Starts,        \* bytes the files have at first, and their offsets
          MaxSize,       \* MAXFILE*BSIZE, the largest file
          BSIZE, NDIRECT, MAXOPBLOCKS, LOGSIZE,
          ChunkBlocks    \* what the chunk size is computed from: MAXOPBLOCKS
                         \* in OS-Lab-1 and OS-Lab-4, LOGSIZE in OS-Lab-5

Files == {FileOf[p] : p \in Procs}

VARIABLES
  off,       \* f->off, with the size of a file that is only appended to
  ilocked,   \* the process that holds the inode's sleep lock, or none
  logged,    \* blocks in the current transaction: log.lh
  outstanding,
  panicked,
  wpc,
  todo,      \* bytes of the request not yet written: n - i
  tot,       \* bytes of the chunk written: writei's tot
  touched,   \* ghost: blocks the running transaction of a process has logged
  end        \* ghost: where the bytes written to each file so far end

writeVars == <<off, ilocked, logged, outstanding, panicked, wpc, todo, tot, touched, end>>

\* mkfs makes the on-disk log as long as LOGSIZE, its header included.
LogSize == LOGSIZE

\* int max = ((MAXOPBLOCKS-1-1-2) / 2) * 512;
MaxChunk == ((ChunkBlocks - 1 - 1 - 2) \div 2) * BSIZE
Chunk(p) == IF todo[p] > MaxChunk THEN MaxChunk ELSE todo[p]

Smaller(a, b) == IF a < b THEN a ELSE b

WriteInit ==
  /\ off \in [Files -> Starts]
  /\ ilocked = [f \in Files |-> None]
  /\ logged = {} /\ outstanding = 0 /\ panicked = FALSE
  /\ wpc = [p \in Procs |-> "idle"]
  /\ todo = [p \in Procs |-> 0] /\ tot = [p \in Procs |-> 0]
  /\ touched = [p \in Procs |-> {}]
  /\ end = off

Write(p, n) ==
  /\ ~panicked /\ wpc[p] = "idle"
  /\ todo' = [todo EXCEPT ![p] = n]
  /\ wpc' = [wpc EXCEPT ![p] = "begin"]
  /\ UNCHANGED <<off, ilocked, logged, outstanding, panicked, tot, touched, end>>

\* begin_op: enough room for one more full reservation.
BeginOp(p) ==
  /\ ~panicked /\ wpc[p] = "begin"
  /\ Cardinality(logged) + (outstanding + 1) * MAXOPBLOCKS <= LOGSIZE
  /\ outstanding' = outstanding + 1
  /\ wpc' = [wpc EXCEPT ![p] = "ilock"]
  /\ UNCHANGED <<off, ilocked, logged, panicked, todo, tot, touched, end>>

\* Faulty variant of Ilock: the inode is not locked against other writers.
Ilock_NoWait(p) ==
  /\ ~panicked /\ wpc[p] = "ilock"
  /\ ilocked' = [ilocked EXCEPT ![FileOf[p]] = p]
  /\ wpc' = [wpc EXCEPT ![p] = "writei"]
  /\ UNCHANGED <<off, logged, outstanding, panicked, todo, tot, touched, end>>

Ilock(p) ==
  /\ ~panicked /\ wpc[p] = "ilock"
  /\ ilocked[FileOf[p]] = None
  /\ ilocked' = [ilocked EXCEPT ![FileOf[p]] = p]
  /\ wpc' = [wpc EXCEPT ![p] = "writei"]
  /\ UNCHANGED <<off, logged, outstanding, panicked, todo, tot, touched, end>>

\* log_write of the blocks of S, the panic included: it looks at the number of
\* entries before the last of these writes, which adds one if fresh is TRUE.
LogWrites(p, S, fresh) ==
  /\ logged' = logged \cup S
  /\ touched' = [touched EXCEPT ![p] = @ \cup S]
  /\ panicked' = (Cardinality(IF fresh THEN logged ELSE logged') >= LogSize - 1)

\* Faulty variant of BlocksFor: log_write absorbs nothing, so the bitmap and the
\* indirect block count once for each new block, and its data twice, with bzero's.
BlocksFor_NotAbsorbed(f, bn, isNew) ==
  {<<"data", f, bn>>} \cup
  (IF ~isNew THEN {} ELSE {<<"zeroed", f, bn>>, <<"bitmap", f, bn>>} \cup
     (IF bn < NDIRECT THEN {} ELSE {<<"indirect", f, bn>>}))

\* The blocks bmap and writei log for block bn of file f: the block itself; if
\* it is new, the free-block bitmap, and beyond NDIRECT the indirect block.
BlocksFor(f, bn, isNew) ==
  {<<"data", f, bn>>} \cup
  (IF ~isNew THEN {} ELSE {<<"bitmap", 0, 0>>} \cup
     (IF bn < NDIRECT THEN {} ELSE {<<"indirect", f, 0>>}))

\* One turn of writei's loop.  A block is new unless the file reaches into it;
\* the log_write of a new block's data finds it logged by bzero.
WriteBlock(p) ==
  LET f == FileOf[p]
      at == off[f] + tot[p]
      m == Smaller(Chunk(p) - tot[p], BSIZE - (at % BSIZE))
      isNew == at % BSIZE = 0
      S == BlocksFor(f, at \div BSIZE, isNew)
  IN  /\ ~panicked /\ wpc[p] = "writei" /\ tot[p] < Chunk(p)
      /\ off[f] + Chunk(p) <= MaxSize
      /\ LogWrites(p, S, ~isNew /\ S \cap logged = {})
      /\ tot' = [tot EXCEPT ![p] = @ + m]
      /\ end' = [end EXCEPT ![f] = at + m]
      /\ UNCHANGED <<off, ilocked, outstanding, wpc, todo>>

\* writei refuses a chunk that would make the file too large, before it writes
\* anything; filewrite gives up.
WriteTooLarge(p) ==
  LET f == FileOf[p]
  IN  /\ ~panicked /\ wpc[p] = "writei" /\ tot[p] = 0
      /\ off[f] + Chunk(p) > MaxSize
      /\ todo' = [todo EXCEPT ![p] = 0]
      /\ ilocked' = [ilocked EXCEPT ![f] = None]
      /\ wpc' = [wpc EXCEPT ![p] = "end"]
      /\ UNCHANGED <<off, logged, outstanding, panicked, tot, touched, end>>

\* The end of writei: the size grows, iupdate; then f->off += r and iunlock.
Iupdate(p) ==
  LET f == FileOf[p]
      inode == <<"inode", f, 0>>
  IN  /\ ~panicked /\ wpc[p] = "writei" /\ tot[p] = Chunk(p)
      /\ LogWrites(p, {inode}, inode \notin logged)
      /\ off' = [off EXCEPT ![f] = @ + tot[p]]
      /\ todo' = [todo EXCEPT ![p] = @ - tot[p]]
      /\ ilocked' = [ilocked EXCEPT ![f] = None]
      /\ wpc' = [wpc EXCEPT ![p] = "end"]
      /\ UNCHANGED <<outstanding, tot, end>>

\* end_op; the last one out commits.
EndOp(p) ==
  /\ ~panicked /\ wpc[p] = "end"
  /\ outstanding' = outstanding - 1
  /\ logged' = IF outstanding' = 0 THEN {} ELSE logged
  /\ touched' = [touched EXCEPT ![p] = {}]
  /\ tot' = [tot EXCEPT ![p] = 0]
  /\ wpc' = [wpc EXCEPT ![p] = IF todo[p] > 0 THEN "begin" ELSE "idle"]
  /\ UNCHANGED <<off, ilocked, panicked, todo, end>>

WriteNext == \E p \in Procs :
  \/ \E n \in Counts : Write(p, n)
  \/ BeginOp(p) \/ Ilock(p) \/ WriteBlock(p) \/ WriteTooLarge(p) \/ Iupdate(p) \/ EndOp(p)

WriteSpec == WriteInit /\ [][WriteNext]_writeVars

-----------------------------------------------------------------------------
\* No transaction writes more blocks than were reserved for it (param.h:
\* "max # of blocks any FS op writes"), wherever in the file it falls.
WithinReservation == \A p \in Procs : Cardinality(touched[p]) <= MAXOPBLOCKS

\* Cutting the request up does what the comment in filewrite says it is for:
\* concurrent writers never exceed the maximum log transaction size.
NoPanic == ~panicked

\* The two together: the log has room for every write, however calls interleave.
LogHoldsWrites == WithinReservation /\ NoPanic

\* Processes that share an open file append one after the other: the next byte
\* a process inside writei puts down lies where all bytes written so far end,
\* on nobody else's bytes and leaving no hole.
AppendsInTurn ==
  \A p \in Procs : wpc[p] = "writei" => off[FileOf[p]] + tot[p] = end[FileOf[p]]
=============================================================================
