----------------------------- MODULE AtomicDisk -----------------------------
(***************************************************************************)
(* What the log of xv6 promises to the file system (the header comment of  *)
(* log.c): system calls write blocks, every reader sees the newest         *)
(* contents, and what a crash leaves behind is the contents of the disk at *)
(* one moment at which no system call was in progress.                     *)
(***************************************************************************)
CONSTANTS Procs, Blocks, Values

VARIABLES stable,   \* the contents a crash would leave behind
          current,  \* the contents a reader sees
          writers   \* the processes inside a file-system operation

avars == <<stable, current, writers>>

AInit == /\ current \in [Blocks -> Values]
         /\ stable = current
         /\ writers = {}

Begin(p) == /\ p \notin writers
            /\ writers' = writers \cup {p}
            /\ UNCHANGED <<stable, current>>

Write(p, b, v) == /\ p \in writers
                  /\ current' = [current EXCEPT ![b] = v]
                  /\ UNCHANGED <<stable, writers>>

End(p) == /\ p \in writers
          /\ writers' = writers \ {p}
          /\ UNCHANGED <<stable, current>>

\* Everything written so far becomes permanent in one step, and only while
\* no operation is half done.
Commit == /\ writers = {}
          /\ stable' = current
          /\ UNCHANGED <<current, writers>>

Crash == /\ current' = stable
         /\ writers' = {}
         /\ UNCHANGED stable

ANext == \/ \E p \in Procs : Begin(p) \/ End(p)
         \/ \E p \in Procs, b \in Blocks, v \in Values : Write(p, b, v)
         \/ Commit
         \/ Crash

ASpec == AInit /\ [][ANext]_avars
=============================================================================
