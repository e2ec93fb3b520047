----------------------------- MODULE Processors -----------------------------
(***************************************************************************)
(* Two views of the processors side by side: the process table that the    *)
(* schedulers share, a critical section of ptable.lock at a time (Proc),   *)
(* and below it the steps of the locks, of the interrupts and of swtch     *)
(* (SpinLock).  A behaviour is one of the two; the properties of Proc,     *)
(* which its initial states satisfy, hold in both.                         *)
(***************************************************************************)
EXTENDS Proc

CONSTANTS LockCpus, Boot, None, Threads, MaxCalls, TickWrap

ASSUME SpinLockConstants ==
  /\ IsFiniteSet(LockCpus) /\ Boot \in LockCpus
  /\ None \notin LockCpus /\ "all" \notin LockCpus /\ LockCpus \cap (1..Threads) = {}
  /\ Threads \in Nat /\ MaxCalls \in Nat /\ TickWrap > 1

\* Besides the variables of Proc.
VARIABLES
  view,
  held, holder, iflag, ncli, intena, on, tstate, todo, ticks, counter, calls, panicked

Spin == INSTANCE SpinLock WITH Cpus <- LockCpus, NPROC <- Threads, state <- tstate

spin == <<held, holder, iflag, ncli, intena, on, tstate, todo, ticks, counter, calls, panicked>>
bothVars == <<view, vars, spin>>

InitBoth == view \in {"table", "spin"} /\ Init /\ Spin!Init

NextBoth ==
  /\ UNCHANGED view
  /\ \/ view = "table" /\ Next /\ UNCHANGED spin
     \/ view = "spin" /\ Spin!Next /\ UNCHANGED vars

SpecBoth == InitBoth /\ [][NextBoth]_bothVars

-----------------------------------------------------------------------------
\* Spin locks: they exclude, without a panic, and nobody spins for ever.
LocksExclude == view = "spin" => Spin!LocksExclude

\* Spin locks: interrupts are off under a lock and in a handler, and on
\* elsewhere, whichever processor the thread has been moved to.
IntenaFollowsThread == view = "spin" => Spin!IntenaFollowsThread
=============================================================================
