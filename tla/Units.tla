------------------------------- MODULE Units -------------------------------
(***************************************************************************)
(* Seven units of the labs side by side: the console, the priority lock,   *)
(* memory with the shared segments, the user library's allocator, pipes,   *)
(* file writes against the log's reservations, and the shell.              *)
(* They share no state and call none of each other's operations modelled   *)
(* here, so what each does alone is all that it can do; a behaviour        *)
(* chooses one unit and runs it.  The properties of the modules extended,  *)
(* which their initial states satisfy, hold throughout.                    *)
(***************************************************************************)
EXTENDS Pipe, FileWrite, PriorityLock, Memory, Umalloc, Console

CONSTANTS Words, MAXARGS, Lines, NPROC, NOFILE, MaxFails

ASSUME UnitConstants ==
  /\ ConsoleWrap % INPUT_BUF = 0 /\ ConsoleWrap > NCMD * INPUT_BUF  \* as 2^32, 128 and 10
  /\ Pids \subseteq Nat \ {0} /\ MaxLeaked \in Nat /\ MaxKills \in Nat
  /\ Readers \cap Writers = {} /\ MaxCount \in Nat \ {0}
  /\ PIPESIZE \in 1..Wrap-1 /\ Wrap % PIPESIZE = 0
  /\ \A p \in Procs : FileOf[p] \in Nat
  /\ Counts \subseteq Nat \ {0} /\ Starts \subseteq Nat /\ MaxSize \in Nat
  /\ BSIZE \in Nat \ {0} /\ NDIRECT \in Nat
  /\ MAXOPBLOCKS \in Nat \ {0} /\ LOGSIZE \in Nat /\ ChunkBlocks \in Nat
  /\ MAXARGS \in Nat \ {0} /\ NPROC \in Nat \ {0} /\ NOFILE > 4 /\ MaxFails \in Nat

\* Besides the variables of the modules extended.
VARIABLES
  unit,
  typed, mode, tree, proc, fails

Sh == INSTANCE Shell WITH line <- typed

shell == <<typed, mode, tree, proc, fails>>
vars == <<unit, consoleVars, lockVars, memoryVars, heapVars, pipeVars, writeVars, shell>>

\* The units that are not run start in one of their initial states.
Init ==
  /\ unit \in {"console", "lock", "memory", "heap", "pipe", "files", "shell"}
  /\ ConsoleInit /\ LockInit /\ MemoryInit /\ HeapInit /\ PipeInit /\ WriteInit /\ Sh!Init
  /\ unit # "console" => clab = 4
  /\ unit # "memory" => mlab = 4
  /\ unit # "pipe" => \A i \in DOMAIN data : data[i] = CHOOSE b \in Bytes : TRUE
  /\ unit # "files" => \A f \in DOMAIN off : off[f] = CHOOSE n \in Starts : TRUE
  /\ unit # "shell" => typed = <<>> /\ mode = "drain"

Next ==
  /\ UNCHANGED unit
  /\ \/ unit = "console" /\ ConsoleNext /\ UNCHANGED <<lockVars, memoryVars, heapVars, pipeVars, writeVars, shell>>
     \/ unit = "lock" /\ LockNext /\ UNCHANGED <<consoleVars, memoryVars, heapVars, pipeVars, writeVars, shell>>
     \/ unit = "memory" /\ MemoryNext /\ UNCHANGED <<consoleVars, lockVars, heapVars, pipeVars, writeVars, shell>>
     \/ unit = "heap" /\ HeapNext /\ UNCHANGED <<consoleVars, lockVars, memoryVars, pipeVars, writeVars, shell>>
     \/ unit = "pipe" /\ PipeNext /\ UNCHANGED <<consoleVars, lockVars, memoryVars, heapVars, writeVars, shell>>
     \/ unit = "files" /\ WriteNext /\ UNCHANGED <<consoleVars, lockVars, memoryVars, heapVars, pipeVars, shell>>
     \/ unit = "shell" /\ Sh!Next /\ UNCHANGED <<consoleVars, lockVars, memoryVars, heapVars, pipeVars, writeVars>>

Spec == Init /\ [][Next]_vars

-----------------------------------------------------------------------------
\* Shell: the recursive descent accepts the lines of its grammar, as their trees.
ParsesAsGrammar == unit = "shell" => Sh!ParsesAsGrammar

\* Shell: a program has the descriptors that the line gives it, and no others.
Plumbing == unit = "shell" => Sh!Plumbing

\* Shell: a line is carried out in its order and to its end.
RunsToTheEnd == unit = "shell" => Sh!RunsToTheEnd
=============================================================================
