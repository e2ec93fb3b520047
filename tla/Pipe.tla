-------------------------------- MODULE Pipe --------------------------------
(***************************************************************************)
(* Pipes (pipe.c): a ring buffer between processes that hold the read end  *)
(* and processes that hold the write end, with sleep and wakeup on         *)
(* &p->nread and &p->nwrite.                                               *)
(*                                                                         *)
(* Everything runs under p->lock, so a step is one critical section, cut   *)
(* where the code looks at p->killed and then sleeps: kill() does not take *)
(* p->lock and may come in between ("wgap", "rgap").                       *)
(***************************************************************************)
EXTENDS Integers, Sequences, FiniteSets

CONSTANTS Readers, Writers,   \* processes that hold an end of the pipe
          Bytes,
          PIPESIZE,
          Wrap,               \* the uint counters count modulo Wrap (2^32)
          MaxCount            \* bound on the length of a read or a write

Users == Readers \cup Writers

VARIABLES
  data, nread, nwrite, readopen, writeopen,   \* struct pipe
  freed,    \* the page of the pipe has been given back to kalloc
  pc,
  left,     \* bytes the running read or write still asks for, else 0
  killed

pipe == <<data, nread, nwrite, readopen, writeopen, freed>>
pipeVars == <<pipe, pc, left, killed>>

Min2(a, b) == IF a < b THEN a ELSE b
Used == (nwrite - nread) % Wrap
Full == nwrite = (nread + PIPESIZE) % Wrap
Empty == nread = nwrite

\* p->lock is held across the gap between the check of killed and the sleep.
LockFree == \A p \in Users : pc[p] \notin {"wgap", "rgap"}

\* wakeup(&p->nread) and wakeup(&p->nwrite)
WakeReaders(f) == [q \in Users |-> IF f[q] = "rasleep" THEN "read" ELSE f[q]]
WakeWriters(f) == [q \in Users |-> IF f[q] = "wasleep" THEN "write" ELSE f[q]]

-----------------------------------------------------------------------------
\* pipealloc has made the pipe and fork has handed its ends out.
PipeInit ==
  /\ data \in [0..PIPESIZE-1 -> Bytes]
  /\ nread = 0 /\ nwrite = 0
  /\ readopen = TRUE /\ writeopen = TRUE /\ freed = FALSE
  /\ pc = [p \in Users |-> "idle"]
  /\ left = [p \in Users |-> 0]
  /\ killed = [p \in Users |-> FALSE]

\* The page comes back from kalloc for another pipe.
PipeAlloc ==
  /\ freed
  /\ nread' = 0 /\ nwrite' = 0
  /\ readopen' = TRUE /\ writeopen' = TRUE /\ freed' = FALSE
  /\ pc' = [p \in Users |-> "idle"]
  /\ killed' = [p \in Users |-> FALSE]
  /\ UNCHANGED <<data, left>>

-----------------------------------------------------------------------------
Call(p, n) ==
  /\ pc[p] = "idle" /\ ~killed[p]
  /\ pc' = [pc EXCEPT ![p] = IF p \in Writers THEN "write" ELSE "read"]
  /\ left' = [left EXCEPT ![p] = n]
  /\ UNCHANGED <<pipe, killed>>

\* data[nwrite++ % PIPESIZE], for each byte of s.
Put(s) ==
  /\ nwrite' = (nwrite + Len(s)) % Wrap
  /\ data' = [i \in 0..PIPESIZE-1 |->
       IF \E j \in 1..Len(s) : (nwrite + j - 1) % PIPESIZE = i
       THEN s[CHOOSE j \in 1..Len(s) : (nwrite + j - 1) % PIPESIZE = i]
       ELSE data[i]]

\* Faulty variant of PipeWrite: a writer that fills the buffer sleeps without
\* waking the readers.
PipeWrite_NoFullWakeup(p) ==
  /\ pc[p] = "write" /\ LockFree
  /\ LET k == Min2(left[p], PIPESIZE - Used)
     IN  /\ \E s \in [1..k -> Bytes] : Put(s)
         /\ pc' = IF k = left[p] THEN WakeReaders([pc EXCEPT ![p] = "idle"])
                  ELSE IF ~readopen \/ killed[p] THEN [pc EXCEPT ![p] = "idle"]
                  ELSE [pc EXCEPT ![p] = "wgap"]
         /\ left' = [left EXCEPT ![p] = IF pc'[p] = "idle" THEN 0 ELSE @ - k]
  /\ UNCHANGED <<nread, readopen, writeopen, freed, killed>>

\* pipewrite from one lock acquisition to the next release or sleep: bytes go
\* in until all are in, or the buffer is full.
PipeWrite(p) ==
  /\ pc[p] = "write" /\ LockFree
  /\ LET k == Min2(left[p], PIPESIZE - Used)
     IN  /\ \E s \in [1..k -> Bytes] : Put(s)
         /\ pc' = IF k = left[p] THEN WakeReaders([pc EXCEPT ![p] = "idle"])
                  ELSE IF ~readopen \/ killed[p] THEN [pc EXCEPT ![p] = "idle"]
                  ELSE WakeReaders([pc EXCEPT ![p] = "wgap"])
         /\ left' = [left EXCEPT ![p] = IF pc'[p] = "idle" THEN 0 ELSE @ - k]
  /\ UNCHANGED <<nread, readopen, writeopen, freed, killed>>

PipeWriteSleep(p) ==
  /\ pc[p] = "wgap"
  /\ pc' = [pc EXCEPT ![p] = "wasleep"]
  /\ UNCHANGED <<pipe, left, killed>>

\* piperead, empty pipe: end of file, killed, or sleep.
PipeReadEmpty(p) ==
  /\ pc[p] = "read" /\ LockFree
  /\ Empty
  /\ pc' = IF ~writeopen THEN WakeWriters([pc EXCEPT ![p] = "idle"])
           ELSE [pc EXCEPT ![p] = IF killed[p] THEN "idle" ELSE "rgap"]
  /\ left' = [left EXCEPT ![p] = IF pc'[p] = "idle" THEN 0 ELSE @]
  /\ UNCHANGED <<pipe, killed>>

PipeReadSleep(p) ==
  /\ pc[p] = "rgap"
  /\ pc' = [pc EXCEPT ![p] = "rasleep"]
  /\ UNCHANGED <<pipe, left, killed>>

\* Faulty variant of PipeReadCopy: no break at an empty pipe.
PipeReadCopy_NoBound(p) ==
  /\ pc[p] = "read" /\ LockFree
  /\ ~Empty
  /\ nread' = (nread + left[p]) % Wrap
  /\ left' = [left EXCEPT ![p] = 0]
  /\ pc' = WakeWriters([pc EXCEPT ![p] = "idle"])
  /\ UNCHANGED <<data, nwrite, readopen, writeopen, freed, killed>>

\* Bytes are there: up to n of them are copied out and the writers woken.
PipeReadCopy(p) ==
  /\ pc[p] = "read" /\ LockFree
  /\ ~Empty
  /\ nread' = (nread + Min2(left[p], Used)) % Wrap
  /\ left' = [left EXCEPT ![p] = 0]
  /\ pc' = WakeWriters([pc EXCEPT ![p] = "idle"])
  /\ UNCHANGED <<data, nwrite, readopen, writeopen, freed, killed>>

\* Faulty variant of Close: the page goes when one of the two sides is closed.
Close_FreeOnEither(p) ==
  /\ pc[p] = "idle" /\ LockFree
  /\ LET side == IF p \in Writers THEN Writers ELSE Readers
         last == \A q \in side \ {p} : pc[q] = "closed"
         gone == [pc EXCEPT ![p] = "closed"]
     IN  /\ pc' = IF ~last THEN gone
                  ELSE IF p \in Writers THEN WakeReaders(gone) ELSE WakeWriters(gone)
         /\ writeopen' = (writeopen /\ ~(last /\ p \in Writers))
         /\ readopen' = (readopen /\ ~(last /\ p \in Readers))
         /\ freed' = (~readopen' \/ ~writeopen')
  /\ UNCHANGED <<data, nread, nwrite, left, killed>>

\* The process closes its descriptor; the last one of a side is pipeclose.
Close(p) ==
  /\ pc[p] = "idle" /\ LockFree
  /\ LET side == IF p \in Writers THEN Writers ELSE Readers
         last == \A q \in side \ {p} : pc[q] = "closed"
         gone == [pc EXCEPT ![p] = "closed"]
     IN  /\ pc' = IF ~last THEN gone
                  ELSE IF p \in Writers THEN WakeReaders(gone) ELSE WakeWriters(gone)
         /\ writeopen' = (writeopen /\ ~(last /\ p \in Writers))
         /\ readopen' = (readopen /\ ~(last /\ p \in Readers))
         /\ freed' = (~readopen' /\ ~writeopen')
  /\ UNCHANGED <<data, nread, nwrite, left, killed>>

\* kill(): a sleeper is made runnable and finds out in the loop.
Kill(p) ==
  /\ pc[p] # "closed" /\ ~killed[p]
  /\ killed' = [killed EXCEPT ![p] = TRUE]
  /\ pc' = [pc EXCEPT ![p] = IF @ = "wasleep" THEN "write"
                             ELSE IF @ = "rasleep" THEN "read" ELSE @]
  /\ UNCHANGED <<pipe, left>>

PipeNext ==
  \/ PipeAlloc
  \/ \E p \in Users :
       \/ \E n \in 1..MaxCount : Call(p, n)
       \/ PipeWrite(p) \/ PipeWriteSleep(p)
       \/ PipeReadEmpty(p) \/ PipeReadSleep(p) \/ PipeReadCopy(p)
       \/ Close(p)
       \/ Kill(p)

PipeSpec == PipeInit /\ [][PipeNext]_pipeVars

-----------------------------------------------------------------------------
\* An end counts as open as long as one process has it, and the page is freed
\* only when nobody is left who could touch it.
FreedWhenClosed ==
  /\ writeopen <=> \E p \in Writers : pc[p] # "closed"
  /\ readopen <=> \E p \in Readers : pc[p] # "closed"
  /\ freed => \A p \in Users : pc[p] = "closed"

\* A writer asleep waits for room that somebody can still make: the buffer is
\* full and the read end open.
WriterSleepsOnFull == \A p \in Writers : pc[p] \in {"wgap", "wasleep"} => Full /\ readopen

\* A reader asleep waits for bytes that somebody can still write: the pipe is
\* empty and the write end open.  The exception is a writer that was killed: it
\* returns -1 from a full buffer without wakeup(&p->nread), and whoever went to
\* sleep before it wrote stays asleep.
ReaderSleepsOnEmpty ==
  (\A w \in Writers : ~killed[w]) =>
     \A p \in Readers : pc[p] \in {"rgap", "rasleep"} => Empty /\ writeopen

\* Nobody sleeps on the pipe for what nobody would have to tell it.
SleepersHaveCause == WriterSleepsOnFull /\ ReaderSleepsOnEmpty

\* The bytes in the ring, oldest first.
Content == IF freed THEN <<>> ELSE [i \in 1..Used |-> data[(nread + i - 1) % PIPESIZE]]

B == INSTANCE ByteStream WITH Capacity <- PIPESIZE, stream <- Content

\* The ring buffer with its wrapping counters implements the byte stream.
ImplementsByteStream == B!Spec
=============================================================================
