----------------------------- MODULE LogProof -----------------------------
(***************************************************************************)
(* Proofs about Log, whatever the number of processes, blocks and values,  *)
(* with a crash at any moment: type correctness; that begin_op's           *)
(* reservation keeps every transaction inside the log, so that no panic of *)
(* log_write or end_op is reached; that no process is left asleep in       *)
(* begin_op; that B_DIRTY pins every modified buffer until its contents    *)
(* are at home; that the log implements AtomicDisk.                        *)
(***************************************************************************)
EXTENDS Log, FiniteSetTheorems, TLAPS

\* What an operation may add, what begin_op reserves for it, and the room in
\* the log must fit together.  The "+ 2" is the header block, and the strict
\* comparison of log_write, which refuses even a write that adds no entry
\* when the log holds log.size-1 blocks.
CapacityCondition ==
  /\ OpBlocks < MAXOPBLOCKS
  /\ MAXOPBLOCKS <= LOGSIZE
  /\ OpBlocks + 2 + LOGSIZE <= MAXOPBLOCKS + LogSize

MaxLen == LOGSIZE - MAXOPBLOCKS + OpBlocks

\* One token for each log entry reserved by a running operation and not yet
\* used by it.
Tokens == {t \in Procs \X (1..MAXOPBLOCKS) : pc[t[1]] \in InOp /\ t[2] > used[t[1]]}

CountInv == outstanding = Cardinality(Active)

CommitInv ==
  /\ committing <=> \E p \in Procs : pc[p] \in Committing
  /\ \A p, q \in Procs : pc[p] \in Committing /\ pc[q] \in Committing => p = q
  /\ \A p \in Procs : pc[p] \in Committing => \A q \in Procs : pc[q] \notin InOp
  /\ \A p \in Procs : pc[p] = "finish" => lh = <<>>

BootInv == boot # "up" => /\ \A p \in Procs : pc[p] = "idle"

DrainedInv ==
  boot = "up" /\ (\A p \in Procs : pc[p] \notin InOp \cup Committing) =>
     /\ lh = <<>>
     /\ \A p \in Procs : pc[p] # "sleeping"

OpInv ==
  \A p \in Procs :
     /\ used[p] <= OpBlocks
     /\ pc[p] \in {"check", "append"} => blk[p] \in Logged \/ used[p] < OpBlocks

ReserveInv ==
  /\ Len(lh) + Cardinality(Tokens) <= LOGSIZE
  /\ Len(lh) <= MaxLen
  /\ Len(dhead) <= MaxLen

LogInv ==
  /\ TypeOK
  /\ CountInv
  /\ CommitInv
  /\ BootInv
  /\ DrainedInv
  /\ OpInv
  /\ ReserveInv
  /\ NoPanic

-----------------------------------------------------------------------------
\* What the bounds of the log come to, in the form the steps use them.
LEMMA MaxLenBounds ==
  ASSUME CapacityCondition
  PROVE  /\ MaxLen \in Nat /\ MaxLen < LOGSIZE /\ MaxLen < LogSize - 1
         /\ OpBlocks \in Nat /\ MAXOPBLOCKS \in Nat /\ LOGSIZE \in Nat /\ LogSize \in Nat
BY LogConstants DEF CapacityCondition, MaxLen

\* bread returns the contents of a block.
LEMMA BreadDataType ==
  ASSUME TypeOK, NEW b \in Blocks
  PROVE  BreadData(b) \in Values
BY DEF TypeOK, BreadData

LEMMA WakeupType ==
  ASSUME NEW f \in [Procs -> PCs]
  PROVE  Wakeup(f) \in [Procs -> PCs]
BY DEF Wakeup, PCs, InOp, Committing

\* The blocks install_trans and write_log address are in range.
LEMMA TailInRange ==
  ASSUME CapacityCondition, LogInv, tail < Len(lh)
  PROVE  tail + 1 \in 1..LogSize-1 /\ lh[tail + 1] \in Blocks /\ tail + 1 \in Nat
<1>1. Len(lh) <= MaxLen /\ lh \in Seq(Blocks) /\ tail \in Nat
  BY DEF LogInv, ReserveInv, TypeOK
<1>2. Len(lh) \in Nat /\ tail + 1 \in 1..Len(lh)
  BY <1>1
<1> QED
  BY <1>1, <1>2, MaxLenBounds

LEMMA InstallOneType ==
  ASSUME CapacityCondition, LogInv, tail < Len(lh), InstallOne
  PROVE  /\ disk' \in [Blocks -> Values]
         /\ cache' \in [Blocks -> Values \cup {Absent}]
         /\ dirty' \subseteq Blocks
         /\ tail' \in Nat
<1>1. dlog[tail + 1] \in Values
  BY TailInRange DEF LogInv, TypeOK
<1> QED
  BY <1>1, TailInRange DEF InstallOne, LogInv, TypeOK

\* Every step keeps every variable in its type.  The steps that address the
\* on-disk log do so because the transaction fits (ReserveInv).
LEMMA TypeStep ==
  ASSUME CapacityCondition, LogInv, [Next]_vars
  PROVE  TypeOK'
<1> USE DEF memory, buffers, platter, machine
<1>t. TypeOK
  BY DEF LogInv
<1>1. ASSUME NEW p \in Procs, BeginOp(p) \/ KillWakeup(p)
      PROVE  TypeOK'
  <2>1. pc' \in [Procs -> PCs]
    BY <1>1, <1>t DEF BeginOp, BeginOpSleep, BeginOpAdmit, KillWakeup, TypeOK, PCs, InOp
  <2>2. used' \in [Procs -> Nat]
    BY <1>1, <1>t DEF BeginOp, BeginOpSleep, BeginOpAdmit, KillWakeup, TypeOK
  <2>3. outstanding' \in Nat
    BY <1>1, <1>t DEF BeginOp, BeginOpSleep, BeginOpAdmit, KillWakeup, TypeOK
  <2> QED
    BY <1>1, <1>t, <2>1, <2>2, <2>3 DEF BeginOp, BeginOpSleep, BeginOpAdmit, KillWakeup, TypeOK
<1>2. CASE \E p \in Procs, b \in Blocks, v \in Values : Modify(p, b, v)
  BY <1>2, <1>t DEF Modify, TypeOK, PCs, InOp
<1>3. CASE \E p \in Procs : LogWriteCheck(p)
  BY <1>3, <1>t DEF LogWriteCheck, TypeOK, PCs, InOp
<1>4. ASSUME NEW p \in Procs, LogWriteAppend(p)
      PROVE  TypeOK'
  <2>1. lh' \in Seq(Blocks)
    BY <1>4, <1>t DEF LogWriteAppend, TypeOK
  <2>2. used' \in [Procs -> Nat]
    BY <1>4, <1>t DEF LogWriteAppend, TypeOK
  <2>3. pc' \in [Procs -> PCs] /\ dirty' \subseteq Blocks
    BY <1>4, <1>t DEF LogWriteAppend, TypeOK, PCs, InOp
  <2> QED
    BY <1>4, <1>t, <2>1, <2>2, <2>3 DEF LogWriteAppend, TypeOK
<1>5. ASSUME NEW p \in Procs, EndOp(p)
      PROVE  TypeOK'
  <2>1. outstanding' \in Nat
    <3>1. p \in Active /\ Active \subseteq Procs
      BY <1>5 DEF EndOp, Active, InOp
    <3>2. outstanding = Cardinality(Active) /\ IsFiniteSet(Active) /\ outstanding # 0
      BY <3>1, FS_Subset, FS_EmptySet, LogConstants DEF LogInv, CountInv
    <3> QED
      BY <1>5, <1>t, <3>2 DEF EndOp, TypeOK
  <2>2. pc' \in [Procs -> PCs]
    BY <1>5, <1>t, WakeupType DEF EndOp, TypeOK, PCs, Committing
  <2>3. committing' \in BOOLEAN /\ panicked' \in BOOLEAN /\ tail' \in Nat
    BY <1>5, <1>t DEF EndOp, TypeOK
  <2> QED
    BY <1>5, <1>t, <2>1, <2>2, <2>3 DEF EndOp, TypeOK
<1>6. ASSUME NEW p \in Procs, WriteLog(p)
      PROVE  TypeOK'
  <2>1. lh[tail + 1] \in Blocks /\ BreadData(lh[tail + 1]) \in Values /\ tail' \in Nat
    BY <1>6, <1>t, TailInRange, BreadDataType DEF WriteLog
  <2>2. dlog' \in [1..LogSize-1 -> Values] /\ cache' \in [Blocks -> Values \cup {Absent}]
    BY <1>6, <1>t, <2>1 DEF WriteLog, TypeOK
  <2>3. pc' \in [Procs -> PCs]
    BY <1>6, <1>t DEF WriteLog, TypeOK, PCs, Committing
  <2> QED
    BY <1>6, <1>t, <2>1, <2>2, <2>3 DEF WriteLog, TypeOK
<1>7. CASE \E p \in Procs : WriteHead(p)
  BY <1>7, <1>t DEF WriteHead, TypeOK, PCs, Committing
<1>8. ASSUME NEW p \in Procs, Install(p)
      PROVE  TypeOK'
  <2>1. pc' \in [Procs -> PCs]
    BY <1>8, <1>t DEF Install, TypeOK, PCs, Committing
  <2> QED
    BY <1>8, <1>t, <2>1, InstallOneType DEF Install, TypeOK
<1>9. CASE \E p \in Procs : EraseHead(p)
  BY <1>9, <1>t DEF EraseHead, TypeOK, PCs, Committing
<1>10. ASSUME NEW p \in Procs, Finish(p)
       PROVE  TypeOK'
  <2>1. pc' \in [Procs -> PCs]
    BY <1>10, <1>t, WakeupType DEF Finish, TypeOK, PCs
  <2> QED
    BY <1>10, <1>t, <2>1 DEF Finish, TypeOK
<1>11. ASSUME NEW b \in Blocks, CacheRead(b) \/ Evict(b)
       PROVE  TypeOK'
  <2>1. cache' \in [Blocks -> Values \cup {Absent}]
    BY <1>11, <1>t DEF CacheRead, Evict, TypeOK
  <2> QED
    BY <1>11, <1>t, <2>1 DEF CacheRead, Evict, TypeOK
<1>12. CASE ReadHead
  BY <1>12, <1>t DEF ReadHead, TypeOK
<1>13. CASE RecoverInstall
  BY <1>13, <1>t, InstallOneType DEF RecoverInstall, TypeOK
<1>14. CASE RecoverErase
  BY <1>14, <1>t DEF RecoverErase, TypeOK
<1>15. CASE Crash
  <2>1. pc' \in [Procs -> PCs] /\ used' \in [Procs -> Nat]
    BY <1>15 DEF Crash, PCs
  <2>2. cache' \in [Blocks -> Values \cup {Absent}] /\ lh' \in Seq(Blocks)
    BY <1>15 DEF Crash
  <2> QED
    BY <1>15, <1>t, <2>1, <2>2 DEF Crash, TypeOK
<1>16. CASE UNCHANGED vars
  BY <1>16, <1>t DEF vars, TypeOK
<1> QED
  BY <1>1, <1>2, <1>3, <1>4, <1>5, <1>6, <1>7, <1>8, <1>9, <1>10, <1>11, <1>12,
     <1>13, <1>14, <1>15, <1>16 DEF Next, Proc, LogWrite, CommitStep, Recover

-----------------------------------------------------------------------------
\* The steps that touch neither the transaction nor anybody's place in it.
Quiet == UNCHANGED <<pc, blk, used, lh, outstanding, committing, dhead, machine>>

LEMMA QuietSteps ==
  ASSUME \/ \E b \in Blocks : CacheRead(b) \/ Evict(b)
         \/ RecoverInstall
         \/ UNCHANGED vars
  PROVE  Quiet
BY DEF Quiet, CacheRead, Evict, RecoverInstall, vars, memory, platter, machine

\* log.outstanding counts the processes between begin_op and end_op.
LEMMA CountStep ==
  ASSUME CapacityCondition, LogInv, [Next]_vars
  PROVE  CountInv'
<1> USE DEF memory, buffers, platter, machine
<1>t. TypeOK /\ CountInv
  BY DEF LogInv
<1>f. IsFiniteSet(Active) /\ Active \subseteq Procs
  BY FS_Subset, LogConstants DEF Active
<1>same. ASSUME Active' = Active, outstanding' = outstanding
         PROVE  CountInv'
  BY <1>same, <1>t DEF CountInv
<1>1. ASSUME NEW p \in Procs, BeginOpSleep(p) \/ KillWakeup(p)
      PROVE  CountInv'
  BY <1>1, <1>t, <1>same DEF BeginOpSleep, KillWakeup, Active, InOp, TypeOK
<1>2. ASSUME NEW p \in Procs, BeginOpAdmit(p)
      PROVE  CountInv'
  <2>1. Active' = Active \cup {p} /\ p \notin Active
    BY <1>2, <1>t DEF BeginOpAdmit, Active, InOp, TypeOK
  <2> QED
    BY <1>2, <1>t, <1>f, <2>1, FS_AddElement DEF BeginOpAdmit, CountInv
<1>3. ASSUME NEW p \in Procs, \/ \E b \in Blocks, v \in Values : Modify(p, b, v)
                              \/ LogWrite(p)
      PROVE  CountInv'
  BY <1>3, <1>t, <1>same DEF Modify, LogWrite, LogWriteCheck, LogWriteAppend, Active, InOp, TypeOK
<1>4. ASSUME NEW p \in Procs, EndOp(p)
      PROVE  CountInv'
  <2>1. Active' = Active \ {p} /\ p \in Active
    BY <1>4, <1>t DEF EndOp, Active, InOp, TypeOK, Wakeup, Committing
  <2>2. Cardinality(Active') = Cardinality(Active) - 1
    BY <1>f, <2>1, FS_RemoveElement
  <2> QED
    BY <1>4, <1>t, <2>2 DEF EndOp, CountInv
<1>5. ASSUME NEW p \in Procs, CommitStep(p)
      PROVE  CountInv'
  BY <1>5, <1>t, <1>same
     DEF CommitStep, WriteLog, WriteHead, Install, EraseHead, Finish, Active, InOp, TypeOK, Wakeup
<1>6. CASE ReadHead \/ RecoverErase
  BY <1>6, <1>same DEF ReadHead, RecoverErase, Active
<1>7. CASE Crash
  <2>1. Active' = {} /\ outstanding' = 0
    BY <1>7 DEF Crash, Active, InOp
  <2> QED
    BY <2>1, FS_EmptySet DEF CountInv
<1>8. CASE Quiet
  BY <1>8, <1>same DEF Quiet, Active
<1> QED
  BY <1>1, <1>2, <1>3, <1>4, <1>5, <1>6, <1>7, <1>8, QuietSteps DEF Next, Proc, BeginOp, Recover

\* What CountInv says at both ends of its range.
LEMMA NobodyIn ==
  ASSUME NEW f, NEW n, n = Cardinality({p \in Procs : f[p] \in InOp})
  PROVE  n = 0 <=> \A p \in Procs : f[p] \notin InOp
<1>1. IsFiniteSet({p \in Procs : f[p] \in InOp})
  BY FS_Subset, LogConstants
<1> QED
  BY <1>1, FS_EmptySet

LEMMA NobodyActive ==
  /\ CountInv => (outstanding = 0 <=> \A p \in Procs : pc[p] \notin InOp)
  /\ CountInv' => (outstanding' = 0 <=> \A p \in Procs : pc'[p] \notin InOp)
BY NobodyIn DEF CountInv, Active

-----------------------------------------------------------------------------
\* At most one process commits, alone: nobody is inside an operation then.
LEMMA CommitStepInv ==
  ASSUME CapacityCondition, LogInv, [Next]_vars
  PROVE  CommitInv'
<1> USE DEF memory, buffers, platter, machine
<1>t. TypeOK /\ CountInv /\ CommitInv
  BY DEF LogInv
<1>0. outstanding = 0 <=> \A p \in Procs : pc[p] \notin InOp
  BY <1>t, NobodyActive
<1>1. ASSUME NEW p \in Procs, BeginOp(p) \/ KillWakeup(p)
      PROVE  CommitInv'
  <2>1. /\ committing' = committing /\ lh' = lh
        /\ \A q \in Procs : pc'[q] \in Committing <=> pc[q] \in Committing
        /\ \A q \in Procs : pc[q] \in Committing => pc'[q] = pc[q]
    BY <1>1, <1>t DEF BeginOp, BeginOpSleep, BeginOpAdmit, KillWakeup, Committing, TypeOK
  <2>2. pc'[p] \in InOp => ~committing
    BY <1>1, <1>t DEF BeginOp, BeginOpSleep, BeginOpAdmit, KillWakeup, MustWait, InOp, TypeOK
  <2>3. \A q \in Procs : q # p => pc'[q] = pc[q]
    BY <1>1, <1>t DEF BeginOp, BeginOpSleep, BeginOpAdmit, KillWakeup, TypeOK
  <2> QED
    BY <1>t, <2>1, <2>2, <2>3 DEF CommitInv, Committing
<1>2. ASSUME NEW p \in Procs, \/ \E b \in Blocks, v \in Values : Modify(p, b, v)
                              \/ LogWrite(p)
      PROVE  CommitInv'
  <2>1. /\ pc[p] \in InOp /\ committing' = committing
        /\ pc' = [pc EXCEPT ![p] = pc'[p]] /\ pc'[p] \in InOp
    BY <1>2, <1>t DEF Modify, LogWrite, LogWriteCheck, LogWriteAppend, InOp, TypeOK
  <2>2. \A q \in Procs : pc[q] \notin Committing /\ pc'[q] \notin Committing
    BY <1>t, <2>1 DEF CommitInv, TypeOK, InOp, Committing
  <2> QED
    BY <1>t, <2>1, <2>2 DEF CommitInv, Committing
<1>3. ASSUME NEW p \in Procs, EndOp(p)
      PROVE  CommitInv'
  <2>1. pc[p] \in InOp
    BY <1>3 DEF EndOp, InOp
  <2>2. ~committing /\ \A q \in Procs : pc[q] \notin Committing
    BY <1>t, <2>1 DEF CommitInv
  <2>3. CASE outstanding' = 0
    <3>1. CountInv'
      BY CountStep
    <3>2. \A q \in Procs : pc'[q] \notin InOp
      BY <2>3, <3>1, NobodyActive
    <3>3. pc'[p] \in Committing /\ \A q \in Procs : q # p => pc'[q] \notin Committing
      BY <1>3, <1>t, <2>2, <2>3 DEF EndOp, TypeOK, Committing
    <3>4. pc'[p] = "finish" => lh' = <<>>
      BY <1>3, <1>t, <2>3 DEF EndOp, TypeOK
    <3>5. committing'
      BY <1>3, <2>3 DEF EndOp
    <3> QED
      BY <3>2, <3>3, <3>4, <3>5 DEF CommitInv, Committing
  <2>4. CASE outstanding' # 0
    <3>1. committing' = committing /\ \A q \in Procs : pc'[q] \notin Committing
      BY <1>3, <1>t, <2>2, <2>4 DEF EndOp, Wakeup, TypeOK, Committing
    <3> QED
      BY <2>2, <3>1 DEF CommitInv, Committing
  <2> QED
    BY <2>3, <2>4
<1>4. ASSUME NEW p \in Procs, CommitStep(p), ~Finish(p)
      PROVE  CommitInv'
  <2> DEFINE Goes(a, b) == pc[p] = a /\ pc' = [pc EXCEPT ![p] = b]
  <2>1. /\ committing' = committing
        /\ \/ \E b \in {"writelog", "commit"} : Goes("writelog", b)
           \/ Goes("commit", "install")
           \/ \E b \in {"install", "erase"} : Goes("install", b)
           \/ Goes("erase", "finish") /\ lh' = <<>>
    <3>1. CASE WriteLog(p)
      BY ONLY <3>1 DEF WriteLog
    <3>2. CASE WriteHead(p)
      BY ONLY <3>2 DEF WriteHead
    <3>3. CASE Install(p)
      BY ONLY <3>3 DEF Install
    <3>4. CASE EraseHead(p)
      BY ONLY <3>4 DEF EraseHead
    <3> QED
      BY ONLY <1>4, <3>1, <3>2, <3>3, <3>4 DEF CommitStep
  <2>2. pc \in [Procs -> PCs]
    BY <1>t DEF TypeOK
  <2>3. /\ pc[p] \in Committing /\ pc'[p] \in Committing
        /\ \A q \in Procs : q # p => pc'[q] = pc[q]
        /\ pc'[p] = "finish" => lh' = <<>>
    BY ONLY <2>1, <2>2 DEF Committing
  <2>4. committing /\ \A q \in Procs : (q # p => pc[q] \notin Committing) /\ pc[q] \notin InOp
    BY <1>t, <2>3 DEF CommitInv
  <2>5. \A q \in Procs : q # p => pc'[q] \notin Committing /\ pc'[q] \notin InOp
    BY ONLY <2>3, <2>4
  <2>6. pc'[p] \notin InOp
    BY <2>3 DEF Committing, InOp
  <2> QED
    BY <2>1, <2>3, <2>4, <2>5, <2>6 DEF CommitInv, Committing
<1>5. ASSUME NEW p \in Procs, Finish(p)
      PROVE  CommitInv'
  <2>1. ~committing' /\ \A q \in Procs : pc'[q] \notin Committing
    BY <1>5, <1>t DEF Finish, CommitInv, Wakeup, TypeOK, Committing
  <2> QED
    BY <2>1 DEF CommitInv, Committing
<1>6. CASE ReadHead \/ RecoverErase
  <2>1. \A p \in Procs : pc[p] = "idle"
    BY <1>6 DEF LogInv, BootInv, ReadHead, RecoverErase
  <2> QED
    BY <1>6, <1>t, <2>1 DEF ReadHead, RecoverErase, CommitInv, Committing
<1>7. CASE Crash
  BY <1>7 DEF Crash, CommitInv, Committing
<1>8. CASE Quiet
  BY <1>8, <1>t DEF Quiet, CommitInv
<1> QED
  BY <1>1, <1>2, <1>3, <1>4, <1>5, <1>6, <1>7, <1>8, QuietSteps
     DEF Next, Proc, CommitStep, Recover

\* Nobody runs before recovery is over.
LEMMA BootStep ==
  ASSUME LogInv, [Next]_vars
  PROVE  BootInv'
<1> USE DEF memory, buffers, platter, machine
<1>t. TypeOK /\ BootInv
  BY DEF LogInv
<1>1. ASSUME NEW p \in Procs, Proc(p)
      PROVE  BootInv'
  BY <1>1 DEF Proc, BeginOp, BeginOpSleep, BeginOpAdmit, KillWakeup, Modify, LogWrite,
              LogWriteCheck, LogWriteAppend, EndOp, CommitStep, WriteLog, WriteHead,
              Install, EraseHead, Finish, Up, BootInv
<1>2. CASE ReadHead \/ RecoverErase \/ Crash
  BY <1>2, <1>t DEF ReadHead, RecoverErase, Crash, BootInv
<1>3. CASE Quiet
  BY <1>3, <1>t DEF Quiet, BootInv
<1> QED
  BY <1>1, <1>2, <1>3, QuietSteps DEF Next, Recover

-----------------------------------------------------------------------------
\* When nobody is in an operation and nobody commits, the log is empty and
\* nobody sleeps: there would be nobody left to wake him.
LEMMA DrainedStep ==
  ASSUME CapacityCondition, LogInv, [Next]_vars
  PROVE  DrainedInv'
<1> USE DEF memory, buffers, platter, machine
<1>t. TypeOK /\ CountInv /\ CommitInv /\ DrainedInv /\ BootInv
  BY DEF LogInv
<1>1. ASSUME NEW p \in Procs, BeginOpSleep(p)
      PROVE  DrainedInv'
  <2>1. SUFFICES ASSUME \A q \in Procs : pc[q] \notin InOp \cup Committing
                 PROVE  FALSE
    BY <1>1, <1>t DEF BeginOpSleep, DrainedInv, TypeOK, InOp, Committing
  <2>2. ~committing /\ outstanding = 0
    BY <1>t, <2>1, NobodyActive DEF CommitInv
  <2>3. lh = <<>>
    BY <1>1, <1>t, <2>1 DEF DrainedInv, BeginOpSleep, Up
  <2>4. Len(lh) + (outstanding + 1) * MAXOPBLOCKS <= LOGSIZE
    BY <2>2, <2>3, MaxLenBounds DEF CapacityCondition
  <2> QED
    BY <1>1, <2>2, <2>4, MaxLenBounds DEF BeginOpSleep, MustWait
<1>2. ASSUME NEW p \in Procs, BeginOpAdmit(p)
      PROVE  DrainedInv'
  BY <1>2, <1>t DEF BeginOpAdmit, DrainedInv, TypeOK, InOp
<1>3. ASSUME NEW p \in Procs, KillWakeup(p)
      PROVE  DrainedInv'
  BY <1>3, <1>t DEF KillWakeup, DrainedInv, TypeOK, InOp, Committing
<1>4. ASSUME NEW p \in Procs, \/ \E b \in Blocks, v \in Values : Modify(p, b, v)
                              \/ LogWrite(p)
      PROVE  DrainedInv'
  <2>1. pc'[p] \in InOp
    BY <1>4, <1>t DEF Modify, LogWrite, LogWriteCheck, LogWriteAppend, InOp, TypeOK
  <2> QED
    BY <2>1 DEF DrainedInv
<1>5. ASSUME NEW p \in Procs, EndOp(p)
      PROVE  DrainedInv'
  <2>1. CASE outstanding' = 0
    <3>1. pc'[p] \in Committing
      BY <1>5, <1>t, <2>1 DEF EndOp, TypeOK, Committing
    <3> QED
      BY <3>1 DEF DrainedInv
  <2>2. CASE outstanding' # 0
    <3>1. \E q \in Procs : pc'[q] \in InOp
      BY <2>2, CountStep, NobodyActive
    <3> QED
      BY <3>1 DEF DrainedInv
  <2> QED
    BY <2>1, <2>2
<1>6. ASSUME NEW p \in Procs, CommitStep(p), ~Finish(p)
      PROVE  DrainedInv'
  <2>1. pc'[p] \in Committing
    BY <1>6, <1>t DEF CommitStep, WriteLog, WriteHead, Install, EraseHead, Committing, TypeOK
  <2> QED
    BY <2>1 DEF DrainedInv
<1>7. ASSUME NEW p \in Procs, Finish(p)
      PROVE  DrainedInv'
  BY <1>7, <1>t DEF Finish, CommitInv, DrainedInv, Wakeup, TypeOK
<1>8. CASE ReadHead \/ Crash
  BY <1>8 DEF ReadHead, Crash, DrainedInv
<1>9. CASE RecoverErase
  BY <1>9, <1>t DEF RecoverErase, BootInv, DrainedInv
<1>10. CASE Quiet
  BY <1>10, <1>t DEF Quiet, DrainedInv
<1> QED
  BY <1>1, <1>2, <1>3, <1>4, <1>5, <1>6, <1>7, <1>8, <1>9, <1>10, QuietSteps
     DEF Next, Proc, BeginOp, CommitStep, Recover

\* The allowance of an operation: what it adds to the log stays within
\* OpBlocks, also across the unlocked check of log_write.
LEMMA OpStep ==
  ASSUME CapacityCondition, LogInv, [Next]_vars
  PROVE  OpInv'
<1> USE DEF memory, buffers, platter, machine
<1>t. TypeOK /\ CommitInv /\ BootInv /\ OpInv
  BY DEF LogInv
<1>z. OpBlocks \in Nat
  BY LogConstants
<1>1. ASSUME NEW p \in Procs, BeginOp(p) \/ KillWakeup(p)
      PROVE  OpInv'
  <2>1. \A q \in Procs : pc'[q] \in {"check", "append"} => pc[q] = pc'[q] /\ used'[q] = used[q]
    BY <1>1, <1>t DEF BeginOp, BeginOpSleep, BeginOpAdmit, KillWakeup, TypeOK
  <2>2. \A q \in Procs : used'[q] = used[q] \/ used'[q] = 0
    BY <1>1, <1>t DEF BeginOp, BeginOpSleep, BeginOpAdmit, KillWakeup, TypeOK
  <2>3. blk' = blk /\ lh' = lh
    BY <1>1 DEF BeginOp, BeginOpSleep, BeginOpAdmit, KillWakeup
  <2> QED
    BY <1>t, <1>z, <2>1, <2>2, <2>3 DEF OpInv, Logged
<1>2. ASSUME NEW p \in Procs, NEW b \in Blocks, NEW v \in Values, Modify(p, b, v)
      PROVE  OpInv'
  BY <1>2, <1>t DEF Modify, OpInv, Logged, TypeOK
<1>3. ASSUME NEW p \in Procs, LogWriteCheck(p)
      PROVE  OpInv'
  BY <1>3, <1>t DEF LogWriteCheck, OpInv, Logged, TypeOK
<1>4. ASSUME NEW p \in Procs, LogWriteAppend(p)
      PROVE  OpInv'
  <2>1. Logged \subseteq Logged'
    BY <1>4, <1>t DEF LogWriteAppend, Logged, TypeOK
  <2>2. \A q \in Procs : q # p => pc'[q] = pc[q] /\ used'[q] = used[q] /\ blk'[q] = blk[q]
    BY <1>4, <1>t DEF LogWriteAppend, TypeOK
  <2>3. used'[p] <= OpBlocks /\ pc'[p] = "inop"
    BY <1>4, <1>t, <1>z DEF LogWriteAppend, OpInv, TypeOK
  <2> QED
    BY <1>t, <2>1, <2>2, <2>3 DEF OpInv
<1>5. ASSUME NEW p \in Procs, EndOp(p)
      PROVE  OpInv'
  <2>1. \A q \in Procs : pc'[q] \in {"check", "append"} => pc[q] = pc'[q]
    BY <1>5, <1>t DEF EndOp, Wakeup, TypeOK
  <2> QED
    BY <1>5, <1>t, <2>1 DEF EndOp, OpInv, Logged
<1>6. ASSUME NEW p \in Procs, CommitStep(p)
      PROVE  OpInv'
  <2>1. \A q \in Procs : pc[q] \notin InOp
    BY <1>6, <1>t DEF CommitInv, CommitStep, WriteLog, WriteHead, Install, EraseHead, Finish,
                      Committing
  <2>2. used' = used /\ \A q \in Procs : pc'[q] \notin {"check", "append"}
    BY <1>6, <1>t, <2>1 DEF CommitStep, WriteLog, WriteHead, Install, EraseHead, Finish,
                            InOp, Wakeup, TypeOK
  <2> QED
    BY <1>t, <2>2 DEF OpInv
<1>7. CASE ReadHead \/ RecoverErase \/ Crash
  <2>1. \A q \in Procs : pc'[q] = "idle" /\ (used'[q] = used[q] \/ used'[q] = 0)
    BY <1>7, <1>t DEF ReadHead, RecoverErase, Crash, BootInv
  <2> QED
    BY <1>t, <1>z, <2>1 DEF OpInv
<1>8. CASE Quiet
  BY <1>8, <1>t DEF Quiet, OpInv, Logged
<1> QED
  BY <1>1, <1>2, <1>3, <1>4, <1>5, <1>6, <1>7, <1>8, QuietSteps DEF Next, Proc, LogWrite, Recover

-----------------------------------------------------------------------------
\* Tokens are finite in number, and an operation holds at least as many as
\* its reservation leaves it.
LEMMA TokensFinite ==
  ASSUME CapacityCondition
  PROVE  /\ IsFiniteSet(Procs \X (1..MAXOPBLOCKS))
         /\ IsFiniteSet(Tokens) /\ Cardinality(Tokens) \in Nat
         /\ IsFiniteSet(Tokens') /\ Cardinality(Tokens') \in Nat
<1>1. IsFiniteSet(1..MAXOPBLOCKS)
  BY FS_Interval, MaxLenBounds
<1>2. IsFiniteSet(Procs \X (1..MAXOPBLOCKS))
  BY <1>1, FS_Product, LogConstants
<1>3. Tokens \subseteq Procs \X (1..MAXOPBLOCKS) /\ Tokens' \subseteq Procs \X (1..MAXOPBLOCKS)
  BY DEF Tokens
<1> QED
  BY <1>2, <1>3, FS_Subset, FS_CardinalityType

LEMMA TokensOf ==
  ASSUME CapacityCondition, TypeOK, OpInv, NEW p \in Procs, pc[p] \in InOp
  PROVE  MAXOPBLOCKS - used[p] <= Cardinality(Tokens)
<1> DEFINE Mine == {p} \X (used[p]+1..MAXOPBLOCKS)
<1>1. used[p] \in Nat /\ used[p] < MAXOPBLOCKS
  BY MaxLenBounds DEF TypeOK, OpInv, CapacityCondition
<1>2. /\ IsFiniteSet(used[p]+1..MAXOPBLOCKS)
      /\ Cardinality(used[p]+1..MAXOPBLOCKS) = MAXOPBLOCKS - used[p]
  <2>1. used[p]+1 \in Int /\ MAXOPBLOCKS \in Int /\ ~(used[p]+1 > MAXOPBLOCKS)
    BY <1>1, MaxLenBounds
  <2>2. /\ IsFiniteSet(used[p]+1..MAXOPBLOCKS)
        /\ Cardinality(used[p]+1..MAXOPBLOCKS) = MAXOPBLOCKS - (used[p]+1) + 1
    BY <2>1, FS_Interval
  <2> QED
    BY <1>1, <2>2, MaxLenBounds
<1>3. IsFiniteSet({p}) /\ Cardinality({p}) = 1
  BY FS_Singleton
<1>4. Cardinality(Mine) = 1 * (MAXOPBLOCKS - used[p])
  <2> DEFINE I == used[p]+1..MAXOPBLOCKS
  <2>1. IsFiniteSet(I) /\ Cardinality(I) = MAXOPBLOCKS - used[p]
    BY <1>2
  <2> HIDE DEF I
  <2>2. Cardinality({p} \X I) = Cardinality({p}) * Cardinality(I)
    BY ONLY <1>3, <2>1, FS_Product
  <2>3. Cardinality({p} \X I) = 1 * (MAXOPBLOCKS - used[p])
    BY ONLY <1>3, <2>1, <2>2
  <2> QED
    BY <2>3 DEF I
<1>5. Mine \subseteq Tokens
  BY <1>1, MaxLenBounds DEF Tokens
<1>6. Cardinality(Mine) <= Cardinality(Tokens)
  BY <1>5, TokensFinite, FS_Subset
<1> QED
  BY <1>1, <1>4, <1>6, MaxLenBounds

\* No step but an append uses a token up, and only begin_op makes new ones.
LEMMA FewerTokens ==
  ASSUME CapacityCondition, LogInv, Tokens' \subseteq Tokens,
         Len(lh') <= Len(lh), lh' \in Seq(Blocks), Len(dhead') <= MaxLen
  PROVE  ReserveInv'
<1>1. Cardinality(Tokens') <= Cardinality(Tokens)
  BY TokensFinite, FS_Subset
<1> QED
  BY <1>1, TokensFinite, MaxLenBounds DEF LogInv, ReserveInv, TypeOK, MaxLen

\* begin_op admits an operation only when the log has room for the full
\* reservation of every operation then running.
LEMMA AdmitReserves ==
  ASSUME CapacityCondition, LogInv, NEW p \in Procs, BeginOpAdmit(p), CountInv'
  PROVE  ReserveInv'
<1>1. Len(lh) + (outstanding + 1) * MAXOPBLOCKS <= LOGSIZE
  BY MaxLenBounds DEF BeginOpAdmit, MustWait, LogInv, TypeOK
<1>2. Tokens' \subseteq Active' \X (1..MAXOPBLOCKS)
  BY DEF Tokens, Active
<1>3. IsFiniteSet(Active') /\ IsFiniteSet(1..MAXOPBLOCKS) /\ Cardinality(1..MAXOPBLOCKS) = MAXOPBLOCKS
  <2>1. Active' \subseteq Procs
    BY DEF Active
  <2>2. IsFiniteSet(Active')
    BY <2>1, FS_Subset, LogConstants
  <2>3. /\ IsFiniteSet(1..MAXOPBLOCKS)
        /\ Cardinality(1..MAXOPBLOCKS) = IF 1 > MAXOPBLOCKS THEN 0 ELSE MAXOPBLOCKS - 1 + 1
    <3>1. 1 \in Int /\ MAXOPBLOCKS \in Int
      BY MaxLenBounds
    <3> QED
      BY <3>1, FS_Interval
  <2>4. ~(1 > MAXOPBLOCKS)
    BY MaxLenBounds DEF CapacityCondition
  <2> QED
    BY <2>2, <2>3, <2>4, MaxLenBounds
<1>4. /\ IsFiniteSet(Active' \X (1..MAXOPBLOCKS))
      /\ Cardinality(Active' \X (1..MAXOPBLOCKS)) = (outstanding + 1) * MAXOPBLOCKS
  <2>1. /\ IsFiniteSet(Active' \X (1..MAXOPBLOCKS))
        /\ Cardinality(Active' \X (1..MAXOPBLOCKS)) = Cardinality(Active') * Cardinality(1..MAXOPBLOCKS)
    BY <1>3, FS_Product
  <2>2. Cardinality(Active') = outstanding + 1
    BY DEF CountInv, BeginOpAdmit
  <2> QED
    BY <1>3, <2>1, <2>2
<1>5. Cardinality(Tokens') <= Cardinality(Active' \X (1..MAXOPBLOCKS))
  BY <1>2, <1>4, FS_Subset
<1>6. Cardinality(Tokens') <= (outstanding + 1) * MAXOPBLOCKS
  BY <1>4, <1>5
<1>7. lh' = lh /\ dhead' = dhead /\ Len(lh) \in Nat /\ outstanding \in Nat
  BY DEF BeginOpAdmit, LogInv, TypeOK, platter
<1>8. (outstanding + 1) * MAXOPBLOCKS \in Nat
  BY <1>7, MaxLenBounds
<1>9. Len(lh) + Cardinality(Tokens') <= LOGSIZE
  BY <1>1, <1>6, <1>7, <1>8, TokensFinite, MaxLenBounds
<1> QED
  BY <1>7, <1>9 DEF ReserveInv, LogInv

\* An append uses up one token of its operation.
LEMMA AppendReserves ==
  ASSUME CapacityCondition, LogInv, NEW p \in Procs, LogWriteAppend(p)
  PROVE  ReserveInv'
<1>t. TypeOK /\ OpInv /\ ReserveInv
  BY DEF LogInv
<1>1. pc[p] = "append" /\ pc[p] \in InOp /\ dhead' = dhead
  BY DEF LogWriteAppend, InOp, platter
<1>2. CASE blk[p] \in Logged
  <2>1. lh' = lh /\ used' = used
    BY <1>2 DEF LogWriteAppend
  <2>2. Tokens' \subseteq Tokens
    BY <1>1, <1>t, <2>1 DEF LogWriteAppend, Tokens, TypeOK, InOp
  <2> QED
    BY <1>t, <1>1, <2>1, <2>2, FewerTokens DEF TypeOK, ReserveInv
<1>3. CASE blk[p] \notin Logged
  <2>1. lh' = Append(lh, blk[p]) /\ used' = [used EXCEPT ![p] = @ + 1]
    BY <1>3 DEF LogWriteAppend
  <2>2. Len(lh') = Len(lh) + 1 /\ Len(lh) \in Nat
    BY <1>t, <2>1 DEF TypeOK
  <2>3. used[p] \in Nat /\ used[p] + 1 <= OpBlocks
    BY <1>t, <1>1, <1>3, MaxLenBounds DEF TypeOK, OpInv
  <2> DEFINE tok == <<p, used[p] + 1>>
  <2>4. tok \in Tokens
    BY <1>1, <2>3, MaxLenBounds DEF Tokens, CapacityCondition
  <2>5. Tokens' \subseteq Tokens \ {tok}
    <3>1. used'[p] = used[p] + 1 /\ \A q \in Procs : q # p => used'[q] = used[q]
      BY <1>t, <2>1 DEF TypeOK
    <3>2. \A q \in Procs : pc'[q] \in InOp => pc[q] \in InOp
      BY <1>1, <1>t DEF LogWriteAppend, TypeOK
    <3> QED
      BY <2>3, <3>1, <3>2, MaxLenBounds DEF Tokens, TypeOK
  <2>6. IsFiniteSet(Tokens \ {tok}) /\ Cardinality(Tokens \ {tok}) = Cardinality(Tokens) - 1
    BY <2>4, TokensFinite, FS_RemoveElement
  <2>7. Cardinality(Tokens') <= Cardinality(Tokens) - 1
    BY <2>5, <2>6, FS_Subset
  <2>8. MAXOPBLOCKS - used[p] <= Cardinality(Tokens)
    BY <1>t, <1>1, TokensOf
  <2>9. Len(lh) + Cardinality(Tokens) <= LOGSIZE
    BY <1>t DEF ReserveInv
  <2> HIDE DEF tok
  <2>10. Len(lh') + Cardinality(Tokens') <= LOGSIZE
    BY <2>2, <2>7, <2>9, TokensFinite, MaxLenBounds
  <2>11. Len(lh') <= MaxLen
    <3>1. Cardinality(Tokens) \in Nat /\ MAXOPBLOCKS \in Nat /\ OpBlocks \in Nat /\ LOGSIZE \in Nat
      BY TokensFinite, MaxLenBounds
    <3>2. Len(lh) + MAXOPBLOCKS - used[p] <= LOGSIZE
      BY ONLY <2>2, <2>3, <2>8, <2>9, <3>1
    <3> QED
      BY ONLY <2>2, <2>3, <3>1, <3>2 DEF MaxLen
  <2> QED
    BY <1>t, <1>1, <2>10, <2>11 DEF ReserveInv
<1> QED
  BY <1>2, <1>3

\* The transaction and the unused reservations fit in the log.
LEMMA ReserveStep ==
  ASSUME CapacityCondition, LogInv, [Next]_vars
  PROVE  ReserveInv'
<1> USE DEF memory, buffers, platter, machine
<1>t. TypeOK /\ BootInv /\ ReserveInv /\ lh \in Seq(Blocks)
  BY DEF LogInv, TypeOK
<1>n. Len(<<>>) = 0 /\ Len(lh) \in Nat /\ Len(dhead) \in Nat /\ <<>> \in Seq(Blocks)
  BY <1>t DEF TypeOK
<1>1. ASSUME NEW p \in Procs, BeginOpSleep(p) \/ KillWakeup(p)
      PROVE  ReserveInv'
  <2>1. Tokens' \subseteq Tokens
    BY <1>1, <1>t DEF BeginOpSleep, KillWakeup, Tokens, TypeOK, InOp
  <2> QED
    BY <1>1, <1>t, <1>n, <2>1, FewerTokens DEF BeginOpSleep, KillWakeup, ReserveInv
<1>2. ASSUME NEW p \in Procs, BeginOpAdmit(p)
      PROVE  ReserveInv'
  BY <1>2, CountStep, AdmitReserves
<1>3. ASSUME NEW p \in Procs, \/ \E b \in Blocks, v \in Values : Modify(p, b, v)
                              \/ LogWriteCheck(p)
      PROVE  ReserveInv'
  <2>1. Tokens' \subseteq Tokens
    BY <1>3, <1>t DEF Modify, LogWriteCheck, Tokens, TypeOK, InOp
  <2> QED
    BY <1>3, <1>t, <1>n, <2>1, FewerTokens DEF Modify, LogWriteCheck, ReserveInv
<1>4. ASSUME NEW p \in Procs, LogWriteAppend(p)
      PROVE  ReserveInv'
  BY <1>4, AppendReserves
<1>5. ASSUME NEW p \in Procs, EndOp(p)
      PROVE  ReserveInv'
  <2>1. Tokens' \subseteq Tokens
    BY <1>5, <1>t DEF EndOp, Tokens, TypeOK, InOp, Wakeup
  <2> QED
    BY <1>5, <1>t, <1>n, <2>1, FewerTokens DEF EndOp, ReserveInv
<1>6. ASSUME NEW p \in Procs, CommitStep(p)
      PROVE  ReserveInv'
  <2>1. Tokens' \subseteq Tokens
    BY <1>6, <1>t DEF CommitStep, WriteLog, WriteHead, Install, EraseHead, Finish, Tokens,
                      TypeOK, InOp, Wakeup
  <2>2. (lh' = lh \/ lh' = <<>>) /\ (dhead' = dhead \/ dhead' = lh \/ dhead' = <<>>)
    BY <1>6 DEF CommitStep, WriteLog, WriteHead, Install, EraseHead, Finish
  <2>3. Len(lh') <= Len(lh) /\ lh' \in Seq(Blocks)
    <3>1. CASE lh' = lh
      BY <3>1, <1>t, <1>n
    <3>2. CASE lh' = <<>>
      BY <3>2, <1>n
    <3> QED
      BY <2>2, <3>1, <3>2
  <2>4. Len(dhead') <= MaxLen
    BY <1>t, <1>n, <2>2, MaxLenBounds DEF ReserveInv
  <2> QED
    BY <2>1, <2>3, <2>4, FewerTokens
<1>7. CASE ReadHead \/ RecoverErase \/ Crash
  <2>1. Tokens' = {}
    BY <1>7, <1>t DEF ReadHead, RecoverErase, Crash, Tokens, BootInv, InOp
  <2>2. Cardinality(Tokens') = 0
    BY <2>1, FS_EmptySet
  <2>3. (lh' = dhead \/ lh' = <<>>) /\ (dhead' = dhead \/ dhead' = <<>>)
    BY <1>7 DEF ReadHead, RecoverErase, Crash
  <2> QED
    BY <1>t, <1>n, <2>2, <2>3, MaxLenBounds DEF ReserveInv
<1>8. CASE Quiet
  <2>1. Tokens' \subseteq Tokens
    BY <1>8 DEF Quiet, Tokens
  <2> QED
    BY <1>8, <1>t, <1>n, <2>1, FewerTokens DEF Quiet, ReserveInv
<1> QED
  BY <1>1, <1>2, <1>3, <1>4, <1>5, <1>6, <1>7, <1>8, QuietSteps
     DEF Next, Proc, BeginOp, LogWrite, Recover

\* No check of log_write or end_op fails.
LEMMA PanicStep ==
  ASSUME CapacityCondition, LogInv, [Next]_vars
  PROVE  NoPanic'
<1> USE DEF memory, buffers, platter, machine
<1>t. TypeOK /\ CountInv /\ CommitInv /\ ReserveInv /\ ~panicked
  BY DEF LogInv, NoPanic
<1>1. ASSUME NEW p \in Procs, LogWriteCheck(p)
      PROVE  NoPanic'
  <2>1. outstanding \in Nat /\ outstanding # 0
    BY <1>1, <1>t, NobodyActive DEF LogWriteCheck, InOp, TypeOK
  <2>2. Len(lh) < LOGSIZE /\ Len(lh) < LogSize - 1
    BY <1>t, MaxLenBounds DEF ReserveInv, TypeOK
  <2>3. Len(lh) \in Nat
    BY <1>t DEF TypeOK
  <2>4. panicked' = (Len(lh) >= LOGSIZE \/ Len(lh) >= LogSize - 1 \/ outstanding < 1)
    BY <1>1 DEF LogWriteCheck
  <2>5. ~(Len(lh) >= LOGSIZE) /\ ~(Len(lh) >= LogSize - 1) /\ ~(outstanding < 1)
    BY <2>1, <2>2, <2>3, MaxLenBounds
  <2> QED
    BY <2>4, <2>5 DEF NoPanic
<1>2. ASSUME NEW p \in Procs, EndOp(p)
      PROVE  NoPanic'
  BY <1>2, <1>t DEF EndOp, CommitInv, NoPanic, InOp
<1>3. panicked' = panicked \/ panicked' = FALSE \/ \E p \in Procs : LogWriteCheck(p) \/ EndOp(p)
  BY DEF Next, Proc, BeginOp, BeginOpSleep, BeginOpAdmit, KillWakeup, Modify, LogWrite,
         LogWriteAppend, CommitStep, WriteLog, WriteHead, Install, EraseHead, Finish,
         CacheRead, Evict, Recover, ReadHead, RecoverInstall, RecoverErase, Crash, vars
<1> QED
  BY <1>1, <1>2, <1>3, <1>t DEF NoPanic

-----------------------------------------------------------------------------
LEMMA InitLogInv ==
  ASSUME CapacityCondition, Init
  PROVE  LogInv
<1>1. Active = {} /\ Tokens = {}
  BY DEF Init, Active, Tokens, InOp
<1>2. CountInv /\ Cardinality(Tokens) = 0
  BY <1>1, FS_EmptySet DEF Init, CountInv
<1>3. Len(<<>>) = 0 /\ <<>> \in Seq(Blocks)
  OBVIOUS
<1>4. pc \in [Procs -> PCs] /\ used \in [Procs -> Nat] /\ cache \in [Blocks -> Values \cup {Absent}]
  BY DEF Init, PCs
<1>5. dlog \in [1..LogSize-1 -> Values]
  BY DEF Init
<1>6. TypeOK
  BY <1>3, <1>4, <1>5 DEF Init, TypeOK
<1>7. CommitInv /\ BootInv /\ DrainedInv /\ NoPanic
  BY DEF Init, CommitInv, BootInv, DrainedInv, NoPanic, Committing
<1>8. OpInv /\ ReserveInv
  BY <1>2, <1>3, MaxLenBounds DEF Init, OpInv, ReserveInv
<1> QED
  BY <1>2, <1>6, <1>7, <1>8 DEF LogInv

LEMMA NextLogInv ==
  ASSUME CapacityCondition, LogInv, [Next]_vars
  PROVE  LogInv'
BY TypeStep, CountStep, CommitStepInv, BootStep, DrainedStep, OpStep, ReserveStep, PanicStep
   DEF LogInv

\* The inductive invariant.
THEOREM LogInvariant == CapacityCondition => (Spec => []LogInv)
<1> SUFFICES ASSUME CapacityCondition PROVE Spec => []LogInv
  OBVIOUS
<1>1. Init => LogInv
  BY InitLogInv
<1>2. LogInv /\ [Next]_vars => LogInv'
  BY NextLogInv
<1> QED
  BY <1>1, <1>2, PTL DEF Spec

\* Type correctness, and the invariants TLC checks on small instances.
THEOREM LogTypeCorrect == CapacityCondition => (Spec => []TypeOK)
BY LogInvariant, PTL DEF LogInv

\* No transaction outgrows the log, however the operations of any number of
\* processes interleave, and no panic of log_write or end_op is reached.
THEOREM LogNeverOverflows == CapacityCondition => (Spec => []LogFits)
<1> SUFFICES ASSUME CapacityCondition PROVE Spec => []LogFits
  OBVIOUS
<1>1. LogInv => LogFits
  BY MaxLenBounds DEF LogInv, ReserveInv, LogFits, TypeOK
<1> QED
  BY <1>1, LogInvariant, PTL

\* Whoever sleeps in begin_op has somebody left to wake him.
THEOREM LogNoStrandedSleeper == CapacityCondition => (Spec => []NoStrandedSleeper)
<1> SUFFICES ASSUME CapacityCondition PROVE Spec => []NoStrandedSleeper
  OBVIOUS
<1>1. LogInv => NoStrandedSleeper
  BY DEF LogInv, DrainedInv, BootInv, NoStrandedSleeper
<1> QED
  BY <1>1, LogInvariant, PTL

-----------------------------------------------------------------------------
\* The redo log proper: what each copy of a block holds, and the refinement.

\* A process in commit() that has written the header and not yet erased it.
Installing == \E p \in Procs : pc[p] \in {"install", "erase"}

\* No block is twice in the transaction.
NoDuplicates(s) == \A i, j \in 1..Len(s) : s[i] = s[j] => i = j

\* A block enters the transaction once, and so the on-disk header.
DistinctInv == NoDuplicates(lh) /\ NoDuplicates(dhead)

\* The header on the disk is the transaction from the write of the header to
\* its erasure, and is empty otherwise, unless the machine has not recovered.
HeaderInv ==
  /\ boot = "up" /\ ~Installing => dhead = <<>>
  /\ Installing \/ boot = "install" => dhead = lh

\* How far the copies to the log and to the home blocks have come.
CopyInv ==
  /\ \A p \in Procs :
       /\ pc[p] \in {"writelog", "install"} => tail < Len(lh)
       /\ pc[p] = "writelog" => \A i \in 1..tail : dlog[i] = BreadData(lh[i])
       /\ pc[p] \in {"commit", "install", "erase"} =>
            \A i \in 1..Len(lh) : dlog[i] = BreadData(lh[i])
       /\ pc[p] = "erase" => tail = Len(lh)
       /\ pc[p] = "commit" => 0 < Len(lh)
  /\ boot = "install" => tail <= Len(lh)
  /\ Installing \/ boot = "install" => \A i \in 1..tail : disk[lh[i]] = dlog[i]

\* B_DIRTY marks the blocks of the transaction that are not yet at home.
DirtyInv ==
  /\ boot # "up" => dirty = {}
  /\ boot = "up" /\ ~Installing => dirty = Logged
  /\ boot = "up" /\ Installing => dirty = {lh[i] : i \in tail+1..Len(lh)}

\* A buffer that differs from its home block is in the transaction, or is
\* about to be; a buffer that is either is not recycled.
BufferInv ==
  \A b \in Blocks :
    /\ cache[b] \notin {Absent, disk[b]} => b \in dirty \cup Locked
    /\ b \in dirty \cup Locked => cache[b] # Absent

RedoInv ==
  /\ DistinctInv
  /\ HeaderInv
  /\ CopyInv
  /\ DirtyInv
  /\ BufferInv

-----------------------------------------------------------------------------
\* What the steps below keep using of LogInv.
LEMMA Setting ==
  ASSUME LogInv
  PROVE  /\ TypeOK
         /\ lh \in Seq(Blocks) /\ Len(lh) \in Nat /\ tail \in Nat
         /\ dhead \in Seq(Blocks) /\ Len(dhead) \in Nat
         /\ \A i \in 1..Len(lh) : lh[i] \in Blocks
         /\ \A i \in 1..Len(dhead) : dhead[i] \in Blocks
         /\ Locked \subseteq Blocks /\ Logged \subseteq Blocks
BY DEF LogInv, TypeOK, Locked, Logged

\* While somebody commits, nobody else does and no buffer is locked.
LEMMA Alone ==
  ASSUME LogInv, NEW p \in Procs, pc[p] \in Committing
  PROVE  /\ \A q \in Procs : q # p => pc[q] \notin Committing
         /\ Locked = {} /\ Active = {}
         /\ boot = "up"
<1>1. \A q \in Procs : pc[q] \notin InOp
  BY DEF LogInv, CommitInv
<1>2. Locked = {} /\ Active = {}
  BY <1>1 DEF Locked, Active, InOp
<1>3. boot = "up"
  BY DEF LogInv, BootInv, Committing
<1> QED
  BY <1>2, <1>3 DEF LogInv, CommitInv

\* During recovery nobody runs and memory holds nothing that the disk does not.
LEMMA Recovering ==
  ASSUME LogInv, RedoInv, boot # "up"
  PROVE  /\ \A p \in Procs : pc[p] = "idle"
         /\ Locked = {} /\ Active = {} /\ dirty = {} /\ ~Installing
         /\ \A b \in Blocks : cache[b] \in {Absent, disk[b]}
<1>1. \A p \in Procs : pc[p] = "idle"
  BY DEF LogInv, BootInv
<1>2. Locked = {} /\ Active = {} /\ ~Installing
  BY <1>1 DEF Locked, Active, Installing, InOp
<1>3. dirty = {}
  BY DEF RedoInv, DirtyInv
<1> QED
  BY <1>1, <1>2, <1>3 DEF RedoInv, BufferInv

\* An operation that runs excludes every step of commit().
LEMMA NotInstalling ==
  ASSUME LogInv, NEW p \in Procs, pc[p] \in InOp
  PROVE  /\ \A q \in Procs : pc[q] \notin Committing
         /\ ~Installing
BY DEF LogInv, CommitInv, Installing, Committing

-----------------------------------------------------------------------------
\* The steps that move no data: begin_op, kill, the checks of log_write,
\* end_op and the end of the commit.
Calm ==
  /\ UNCHANGED <<lh, cache, dirty, disk, dlog, dhead, boot>>
  /\ Locked' = Locked
  /\ Installing' = Installing
  /\ \A p \in Procs : pc'[p] \in {"commit", "install", "erase"} => pc'[p] = pc[p]
  /\ \A p \in Procs : pc'[p] = "writelog" =>
        (pc[p] = "writelog" /\ tail' = tail) \/ (tail' = 0 /\ lh # <<>>)
  /\ \/ tail' = tail
     \/ boot = "up" /\ \A p \in Procs : pc'[p] \notin {"commit", "install", "erase"}

LEMMA CalmSteps ==
  ASSUME LogInv,
         \/ \E p \in Procs : BeginOp(p) \/ KillWakeup(p) \/ LogWriteCheck(p) \/ EndOp(p) \/ Finish(p)
         \/ UNCHANGED vars
  PROVE  Calm
<1> USE DEF memory, buffers, platter, machine
<1>t. TypeOK
  BY DEF LogInv
<1>1. ASSUME NEW p \in Procs, BeginOp(p) \/ KillWakeup(p)
      PROVE  Calm
  <2>1. /\ UNCHANGED <<blk, lh, cache, dirty, disk, dlog, dhead, boot, tail>>
        /\ pc[p] \in {"idle", "sleeping", "woken"} /\ pc'[p] \in {"sleeping", "woken", "inop"}
        /\ \A q \in Procs : q # p => pc'[q] = pc[q]
    BY <1>1, <1>t DEF BeginOp, BeginOpSleep, BeginOpAdmit, KillWakeup, TypeOK
  <2> QED
    BY <2>1 DEF Calm, Locked, Installing
<1>2. ASSUME NEW p \in Procs, LogWriteCheck(p)
      PROVE  Calm
  <2>1. /\ UNCHANGED <<blk, lh, cache, dirty, disk, dlog, dhead, boot, tail>>
        /\ pc[p] = "check" /\ pc'[p] = "append"
        /\ \A q \in Procs : q # p => pc'[q] = pc[q]
    BY <1>2, <1>t DEF LogWriteCheck, TypeOK
  <2> QED
    BY <2>1 DEF Calm, Locked, Installing
<1>3. ASSUME NEW p \in Procs, EndOp(p)
      PROVE  Calm
  <2>1. /\ UNCHANGED <<blk, lh, cache, dirty, disk, dlog, dhead, boot>> /\ tail' = 0
        /\ pc[p] = "inop" /\ boot = "up"
        /\ pc'[p] \in {"idle", "finish", "writelog"} /\ (pc'[p] = "writelog" => lh # <<>>)
        /\ \A q \in Procs : q # p => pc'[q] = pc[q] \/ (pc[q] = "sleeping" /\ pc'[q] = "woken")
    BY <1>3, <1>t DEF EndOp, TypeOK, Wakeup, Up
  <2>2. \A q \in Procs : pc[q] \notin Committing
    BY <1>3, NotInstalling DEF EndOp, InOp
  <2> QED
    BY <2>1, <2>2 DEF Calm, Locked, Installing, Committing
<1>4. ASSUME NEW p \in Procs, Finish(p)
      PROVE  Calm
  <2>1. /\ UNCHANGED <<blk, lh, cache, dirty, disk, dlog, dhead, boot, tail>>
        /\ pc[p] = "finish" /\ pc'[p] = "idle"
        /\ \A q \in Procs : q # p => pc'[q] = pc[q] \/ (pc[q] = "sleeping" /\ pc'[q] = "woken")
    BY <1>4, <1>t DEF Finish, TypeOK, Wakeup
  <2> QED
    BY <2>1 DEF Calm, Locked, Installing
<1>5. CASE UNCHANGED vars
  BY <1>5 DEF vars, Calm, Locked, Installing
<1> QED
  BY <1>1, <1>2, <1>3, <1>4, <1>5

LEMMA CalmRedo ==
  ASSUME LogInv, RedoInv, Calm
  PROVE  RedoInv'
<1>1. \A b \in Blocks : BreadData(b)' = BreadData(b)
  BY DEF Calm, BreadData
<1>2. Logged' = Logged
  BY DEF Calm, Logged
<1>3. DistinctInv' /\ HeaderInv'
  BY DEF Calm, RedoInv, DistinctInv, HeaderInv, NoDuplicates
<1>4. BufferInv'
  BY DEF Calm, RedoInv, BufferInv
<1>5. Installing' => tail' = tail
  BY DEF Calm, Installing
<1>6. DirtyInv'
  BY <1>2, <1>5, Setting DEF Calm, RedoInv, DirtyInv
<1>7. CopyInv'
  <2>1. \A i \in 1..Len(lh) : BreadData(lh[i])' = BreadData(lh[i])
    BY Setting DEF Calm, BreadData
  <2>2. boot' = "install" => tail' = tail
    BY DEF Calm
  <2>3. \A p \in Procs :
          /\ pc'[p] = "install" => tail' < Len(lh')
          /\ pc'[p] \in {"commit", "install", "erase"} =>
               \A i \in 1..Len(lh') : dlog'[i] = BreadData(lh[i])'
          /\ pc'[p] = "erase" => tail' = Len(lh')
          /\ pc'[p] = "commit" => 0 < Len(lh')
    BY <1>5, <2>1 DEF Calm, RedoInv, CopyInv, Installing
  <2>4. \A p \in Procs : pc'[p] = "writelog" =>
          tail' < Len(lh') /\ \A i \in 1..tail' : dlog'[i] = BreadData(lh[i])'
    <3> SUFFICES ASSUME NEW p \in Procs, pc'[p] = "writelog"
                 PROVE  tail' < Len(lh') /\ \A i \in 1..tail' : dlog'[i] = BreadData(lh[i])'
      OBVIOUS
    <3>1. CASE pc[p] = "writelog" /\ tail' = tail
      BY <3>1, <2>1, Setting DEF Calm, RedoInv, CopyInv
    <3>2. CASE tail' = 0 /\ lh # <<>>
      BY <3>2, Setting DEF Calm
    <3> QED
      BY <3>1, <3>2 DEF Calm
  <2>5. /\ boot' = "install" => tail' <= Len(lh')
        /\ Installing' \/ boot' = "install" => \A i \in 1..tail' : disk'[lh'[i]] = dlog'[i]
    BY <1>5, <2>2 DEF Calm, RedoInv, CopyInv
  <2> QED
    BY <2>3, <2>4, <2>5 DEF CopyInv
<1> QED
  BY <1>3, <1>4, <1>6, <1>7 DEF RedoInv

-----------------------------------------------------------------------------
\* The two steps that write a block on behalf of an operation.
LEMMA ModifyRedo ==
  ASSUME LogInv, RedoInv, NEW p \in Procs, NEW b \in Blocks, NEW v \in Values, Modify(p, b, v)
  PROVE  RedoInv'
<1> USE DEF memory, buffers, platter, machine
<1>1. /\ UNCHANGED <<lh, dirty, disk, dlog, dhead, boot, tail>>
      /\ boot = "up" /\ pc[p] = "inop" /\ pc'[p] = "check"
      /\ \A q \in Procs : q # p => pc'[q] = pc[q] /\ blk'[q] = blk[q]
      /\ blk'[p] = b
      /\ \A c \in Blocks : cache'[c] = IF c = b THEN v ELSE cache[c]
  BY Setting DEF Modify, Up, TypeOK
<1>2. /\ \A q \in Procs : pc[q] \notin Committing
      /\ ~Installing
  BY <1>1, NotInstalling DEF InOp
<1>3. \A q \in Procs : pc'[q] \notin Committing
  BY <1>1, <1>2 DEF Committing
<1>4. ~Installing'
  BY <1>3 DEF Installing, Committing
<1>5. Locked \subseteq Locked' /\ b \in Locked' /\ Locked' \subseteq Locked \cup {b}
  BY <1>1 DEF Locked
<1>6. DistinctInv' /\ HeaderInv'
  BY <1>1, <1>2, <1>4 DEF RedoInv, DistinctInv, HeaderInv, NoDuplicates
<1>7. CopyInv'
  BY <1>1, <1>3, <1>4 DEF CopyInv, Committing
<1>8. DirtyInv'
  BY <1>1, <1>2, <1>4 DEF RedoInv, DirtyInv, Logged
<1>9. BufferInv'
  <2>1. v # Absent
    BY LogConstants
  <2> QED
    BY <1>1, <1>5, <2>1 DEF RedoInv, BufferInv
<1> QED
  BY <1>6, <1>7, <1>8, <1>9 DEF RedoInv

LEMMA AppendRedo ==
  ASSUME LogInv, RedoInv, NEW p \in Procs, LogWriteAppend(p)
  PROVE  RedoInv'
<1> USE DEF memory, buffers, platter, machine
<1>1. /\ UNCHANGED <<cache, disk, dlog, dhead, boot, tail>>
      /\ boot = "up" /\ pc[p] = "append" /\ pc'[p] = "inop"
      /\ \A q \in Procs : (q # p => pc'[q] = pc[q]) /\ blk'[q] = blk[q]
      /\ lh' = IF blk[p] \notin Logged THEN Append(lh, blk[p]) ELSE lh
      /\ dirty' = dirty \cup {blk[p]}
      /\ blk[p] \in Blocks
  BY Setting DEF LogWriteAppend, Up, TypeOK
<1>2. /\ \A q \in Procs : pc[q] \notin Committing
      /\ ~Installing
  BY <1>1, NotInstalling DEF InOp
<1>3. \A q \in Procs : pc'[q] \notin Committing
  BY <1>1, <1>2 DEF Committing
<1>4. ~Installing'
  BY <1>3 DEF Installing, Committing
<1>5. Locked' \subseteq Locked /\ Locked \subseteq Locked' \cup {blk[p]} /\ blk[p] \in Locked
  BY <1>1 DEF Locked
<1>6. NoDuplicates(lh') /\ Logged' = Logged \cup {blk[p]}
  <2>1. CASE blk[p] \in Logged
    BY <2>1, <1>1 DEF RedoInv, DistinctInv, NoDuplicates, Logged
  <2>2. CASE blk[p] \notin Logged
    <3>1. /\ Len(lh') = Len(lh) + 1
          /\ \A i \in 1..Len(lh) : lh'[i] = lh[i]
          /\ lh'[Len(lh) + 1] = blk[p]
      BY <2>2, <1>1, Setting
    <3>2. \A i \in 1..Len(lh) : lh[i] # blk[p]
      BY <2>2 DEF Logged
    <3>3. Len(lh) \in Nat /\ \A i, j \in 1..Len(lh) : lh[i] = lh[j] => i = j
      BY Setting DEF RedoInv, DistinctInv, NoDuplicates
    <3>4. \A i \in 1..Len(lh') : i \in 1..Len(lh) \/ i = Len(lh) + 1
      BY ONLY <3>1, <3>3
    <3>5. NoDuplicates(lh')
      <4>1. ASSUME NEW i \in 1..Len(lh'), NEW j \in 1..Len(lh'), lh'[i] = lh'[j]
            PROVE  i = j
        BY ONLY <3>1, <3>2, <3>3, <3>4, <4>1
      <4> QED
        BY <4>1 DEF NoDuplicates
    <3>6. \A i \in 1..Len(lh) : i \in 1..Len(lh')
      BY ONLY <3>1, <3>3
    <3>7. Len(lh) + 1 \in 1..Len(lh')
      BY ONLY <3>1, <3>3
    <3>8. Logged = {lh[i] : i \in 1..Len(lh)} /\ Logged' = {lh'[i] : i \in 1..Len(lh')}
      BY DEF Logged
    <3>9. Logged' = Logged \cup {blk[p]}
      BY ONLY <3>1, <3>4, <3>6, <3>7, <3>8
    <3> QED
      BY <3>5, <3>9
  <2> QED
    BY <2>1, <2>2
<1>7. DistinctInv' /\ HeaderInv'
  BY <1>1, <1>2, <1>4, <1>6 DEF RedoInv, DistinctInv, HeaderInv, NoDuplicates
<1>8. CopyInv'
  BY <1>1, <1>3, <1>4 DEF CopyInv, Committing
<1>9. DirtyInv'
  BY <1>1, <1>2, <1>4, <1>6 DEF RedoInv, DirtyInv
<1>10. BufferInv'
  BY <1>1, <1>5 DEF RedoInv, BufferInv
<1> QED
  BY <1>7, <1>8, <1>9, <1>10 DEF RedoInv

-----------------------------------------------------------------------------
\* The steps of commit()
LEMMA WriteLogRedo ==
  ASSUME CapacityCondition, LogInv, RedoInv, NEW p \in Procs, WriteLog(p)
  PROVE  RedoInv'
<1> USE DEF memory, buffers, platter, machine
<1> DEFINE c == lh[tail + 1]
<1>0. tail + 1 \in 1..LogSize-1 /\ c \in Blocks /\ tail + 1 \in 1..Len(lh) /\ tail < Len(lh)
  BY TailInRange, Setting DEF WriteLog
<1>1. /\ UNCHANGED <<blk, lh, dirty, disk, dhead, boot>>
      /\ boot = "up" /\ pc[p] = "writelog" /\ tail' = tail + 1
      /\ pc'[p] = IF tail + 1 = Len(lh) THEN "commit" ELSE "writelog"
      /\ \A q \in Procs : q # p => pc'[q] = pc[q]
      /\ \A b \in Blocks : cache'[b] = IF b = c THEN BreadData(c) ELSE cache[b]
      /\ \A i \in 1..LogSize-1 : dlog'[i] = IF i = tail + 1 THEN BreadData(c) ELSE dlog[i]
  BY <1>0, Setting DEF WriteLog, Up, TypeOK
<1>2. /\ \A q \in Procs : q # p => pc[q] \notin Committing
      /\ Locked = {}
  BY <1>1, Alone DEF Committing
<1>3. ~Installing /\ ~Installing'
  BY <1>1, <1>2 DEF Installing, Committing
<1>4. Locked' = {}
  BY <1>1, <1>2 DEF Locked
<1>5. BreadData(c) \in Values
  BY <1>0, BreadDataType, Setting
<1>6. \A b \in Blocks : BreadData(b)' = BreadData(b)
  <2>1. BreadData(c) # Absent
    BY <1>5, LogConstants
  <2> QED
    BY <1>0, <1>1, <2>1 DEF BreadData
<1> HIDE DEF c
<1>7. DistinctInv' /\ HeaderInv'
  BY <1>1, <1>3 DEF RedoInv, DistinctInv, HeaderInv, NoDuplicates
<1>8. DirtyInv'
  BY <1>1, <1>3 DEF RedoInv, DirtyInv, Logged
<1>9. BufferInv'
  <2>1. Logged = dirty /\ c \in Logged
    BY <1>0, <1>1, <1>3 DEF RedoInv, DirtyInv, Logged, c
  <2>2. BreadData(c) # Absent
    BY <1>5, LogConstants
  <2> QED
    BY <1>1, <1>2, <1>4, <2>1, <2>2 DEF RedoInv, BufferInv
<1>10. CopyInv'
  <2>1. \A i \in 1..tail : dlog[i] = BreadData(lh[i])
    BY <1>1 DEF RedoInv, CopyInv
  <2>2. Len(lh) <= LogSize - 1 /\ Len(lh) \in Nat /\ LogSize \in Nat
    BY MaxLenBounds, Setting DEF LogInv, ReserveInv
  <2>3. \A i \in 1..tail + 1 : dlog'[i] = BreadData(lh[i])
    BY <1>0, <1>1, <2>1, <2>2, Setting DEF c
  <2>4. \A i \in 1..tail' : dlog'[i] = BreadData(lh[i])'
    <3>1. \A i \in 1..Len(lh) : BreadData(lh[i])' = BreadData(lh[i])
      BY <1>1, <1>6, Setting DEF BreadData
    <3> QED
      BY <1>0, <1>1, <2>3, <3>1, Setting
  <2>5. pc'[p] = "writelog" => tail' < Len(lh')
    BY <1>0, <1>1, Setting
  <2>6. 0 < Len(lh')
    BY <1>0, <1>1, Setting
  <2>7. \A q \in Procs : q # p => pc'[q] \notin Committing
    BY <1>1, <1>2
  <2> QED
    BY <1>1, <1>3, <2>4, <2>5, <2>6, <2>7 DEF CopyInv, Committing
<1> QED
  BY <1>7, <1>8, <1>9, <1>10 DEF RedoInv

LEMMA WriteHeadRedo ==
  ASSUME LogInv, RedoInv, NEW p \in Procs, WriteHead(p)
  PROVE  RedoInv'
<1> USE DEF memory, buffers, platter, machine
<1>1. /\ UNCHANGED <<blk, lh, cache, dirty, disk, dlog, boot>>
      /\ boot = "up" /\ pc[p] = "commit" /\ tail' = 0 /\ dhead' = lh
      /\ pc'[p] = "install"
      /\ \A q \in Procs : q # p => pc'[q] = pc[q]
  BY Setting DEF WriteHead, Up, TypeOK
<1>2. /\ \A q \in Procs : q # p => pc[q] \notin Committing
      /\ Locked = {}
  BY <1>1, Alone DEF Committing
<1>3. ~Installing /\ Installing'
  BY <1>1, <1>2 DEF Installing, Committing
<1>4. Locked' = {}
  BY <1>1, <1>2 DEF Locked
<1>5. DistinctInv' /\ HeaderInv'
  BY <1>1, <1>3 DEF RedoInv, DistinctInv, HeaderInv, NoDuplicates
<1>6. DirtyInv'
  BY <1>1, <1>3 DEF RedoInv, DirtyInv, Logged
<1>7. BufferInv'
  BY <1>1, <1>2, <1>4 DEF RedoInv, BufferInv
<1>8. CopyInv'
  <2>1. \A i \in 1..Len(lh) : dlog[i] = BreadData(lh[i])
    BY <1>1 DEF RedoInv, CopyInv
  <2>2. \A i \in 1..Len(lh) : BreadData(lh[i])' = BreadData(lh[i])
    BY <1>1 DEF BreadData
  <2>3. 0 < Len(lh)
    BY <1>1 DEF RedoInv, CopyInv
  <2>4. \A q \in Procs : q # p => pc'[q] \notin Committing
    BY <1>1, <1>2
  <2>5. \A i \in 1..tail' : disk'[lh'[i]] = dlog'[i]
    BY <1>1
  <2> QED
    BY <1>1, <2>1, <2>2, <2>3, <2>4, <2>5 DEF CopyInv, Committing
<1> QED
  BY <1>5, <1>6, <1>7, <1>8 DEF RedoInv

\* One turn of the loop of install_trans, at the commit or at recovery: the
\* block that goes home is what a reader saw already.
LEMMA InstallRedo ==
  ASSUME CapacityCondition, LogInv, RedoInv, NEW p \in Procs, Install(p)
  PROVE  RedoInv'
<1> USE DEF memory, buffers, platter, machine
<1> DEFINE c == lh[tail + 1]
           d == dlog[tail + 1]
<1>0. tail + 1 \in 1..LogSize-1 /\ c \in Blocks /\ tail + 1 \in 1..Len(lh) /\ tail < Len(lh)
  BY TailInRange, Setting DEF Install
<1>1. /\ UNCHANGED <<blk, lh, dlog, dhead, boot>>
      /\ boot = "up" /\ pc[p] = "install" /\ tail' = tail + 1
      /\ pc'[p] = IF tail + 1 = Len(lh) THEN "erase" ELSE "install"
      /\ \A q \in Procs : q # p => pc'[q] = pc[q]
      /\ \A b \in Blocks : cache'[b] = IF b = c THEN d ELSE cache[b]
      /\ \A b \in Blocks : disk'[b] = IF b = c THEN d ELSE disk[b]
      /\ dirty' = dirty \ {c}
  BY <1>0, Setting DEF Install, InstallOne, Up, TypeOK
<1>2. /\ \A q \in Procs : q # p => pc[q] \notin Committing
      /\ Locked = {}
  BY <1>1, Alone DEF Committing
<1>3. Installing /\ Installing'
  BY <1>1, <1>2 DEF Installing, Committing
<1>4. Locked' = {}
  BY <1>1, <1>2 DEF Locked
<1>5. d \in Values /\ d # Absent /\ d = BreadData(c)
  <2>1. d \in Values
    BY <1>0, Setting DEF TypeOK
  <2>2. d = BreadData(c)
    BY <1>0, <1>1 DEF RedoInv, CopyInv
  <2> QED
    BY <2>1, <2>2, LogConstants
<1>6. \A b \in Blocks : BreadData(b)' = BreadData(b)
  BY <1>0, <1>1, <1>5 DEF BreadData
<1>7. \A i, j \in 1..Len(lh) : lh[i] = lh[j] => i = j
  BY DEF RedoInv, DistinctInv, NoDuplicates
<1> HIDE DEF d
<1>8. DistinctInv' /\ HeaderInv'
  BY <1>1, <1>3 DEF RedoInv, DistinctInv, HeaderInv, NoDuplicates
<1>9. DirtyInv'
  <2>1. dirty = {lh[i] : i \in tail+1..Len(lh)}
    BY <1>1, <1>3 DEF RedoInv, DirtyInv
  <2>2. dirty' = {lh[i] : i \in tail+1+1..Len(lh)}
    BY <1>0, <1>1, <1>7, <2>1, Setting
  <2> QED
    BY <1>1, <1>3, <2>2 DEF DirtyInv
<1>10. BufferInv'
  BY <1>1, <1>2, <1>4, <1>5 DEF RedoInv, BufferInv
<1>11. CopyInv'
  <2>1. \A i \in 1..Len(lh) : dlog[i] = BreadData(lh[i])
    BY <1>1 DEF RedoInv, CopyInv
  <2>2. \A i \in 1..Len(lh) : BreadData(lh[i])' = BreadData(lh[i])
    BY <1>1, <1>6, Setting DEF BreadData
  <2>3. \A i \in 1..tail : disk[lh[i]] = dlog[i]
    BY <1>3 DEF RedoInv, CopyInv
  <2>4. \A i \in 1..tail' : disk'[lh'[i]] = dlog'[i]
    <3>1. \A i \in 1..tail : i \in 1..Len(lh) /\ lh[i] \in Blocks
      BY <1>0, Setting
    <3>2. d = dlog[tail + 1]
      BY DEF d
    <3>3. \A i \in 1..tail + 1 : i \in 1..tail \/ i = tail + 1
      BY Setting
    <3> QED
      BY <1>0, <1>1, <1>7, <2>3, <3>1, <3>2, <3>3
  <2>5. /\ pc'[p] = "install" => tail' < Len(lh')
        /\ pc'[p] = "erase" => tail' = Len(lh')
    BY <1>0, <1>1, Setting
  <2>6. pc'[p] \in {"install", "erase"} /\ boot' # "install"
    BY <1>1
  <2>7. \A q \in Procs : q # p => pc'[q] \notin Committing
    BY <1>1, <1>2
  <2>8. lh' = lh /\ dlog' = dlog
    BY <1>1
  <2> QED
    BY <2>1, <2>2, <2>4, <2>5, <2>6, <2>7, <2>8 DEF CopyInv, Committing
<1> QED
  BY <1>8, <1>9, <1>10, <1>11 DEF RedoInv

LEMMA EraseHeadRedo ==
  ASSUME LogInv, RedoInv, NEW p \in Procs, EraseHead(p)
  PROVE  RedoInv'
<1> USE DEF memory, buffers, platter, machine
<1>1. /\ UNCHANGED <<blk, cache, dirty, disk, dlog, boot, tail>>
      /\ boot = "up" /\ pc[p] = "erase" /\ lh' = <<>> /\ dhead' = <<>>
      /\ pc'[p] = "finish"
      /\ \A q \in Procs : q # p => pc'[q] = pc[q]
  BY Setting DEF EraseHead, Up, TypeOK
<1>2. /\ \A q \in Procs : q # p => pc[q] \notin Committing
      /\ Locked = {}
  BY <1>1, Alone DEF Committing
<1>3. Installing /\ ~Installing'
  BY <1>1, <1>2 DEF Installing, Committing
<1>4. Locked' = {}
  BY <1>1, <1>2 DEF Locked
<1>5. DistinctInv' /\ HeaderInv'
  BY <1>1, <1>3 DEF DistinctInv, HeaderInv, NoDuplicates
<1>6. DirtyInv'
  <2>1. tail = Len(lh) /\ dirty = {lh[i] : i \in tail+1..Len(lh)}
    BY <1>1, <1>3 DEF RedoInv, CopyInv, DirtyInv
  <2>2. dirty = {}
    BY <2>1, Setting
  <2>3. Logged' = {}
    BY <1>1 DEF Logged
  <2> QED
    BY <1>1, <1>3, <2>2, <2>3 DEF DirtyInv
<1>7. BufferInv'
  BY <1>1, <1>2, <1>4 DEF RedoInv, BufferInv
<1>8. CopyInv'
  BY <1>1, <1>2, <1>3 DEF CopyInv, Committing
<1> QED
  BY <1>5, <1>6, <1>7, <1>8 DEF RedoInv

-----------------------------------------------------------------------------
\* Readers and bget fill and recycle clean buffers.
LEMMA BufferRedo ==
  ASSUME LogInv, RedoInv, NEW b \in Blocks, CacheRead(b) \/ Evict(b)
  PROVE  RedoInv'
<1> USE DEF memory, buffers, platter, machine
<1>1. /\ UNCHANGED <<pc, blk, lh, dirty, disk, dlog, dhead, boot, tail>>
      /\ \A c \in Blocks : c # b => cache'[c] = cache[c]
      /\ \/ cache[b] = Absent /\ cache'[b] = disk[b]
         \/ cache[b] # Absent /\ b \notin dirty /\ b \notin Locked /\ cache'[b] = Absent
      /\ disk[b] \in Values
  BY Setting DEF CacheRead, Evict, TypeOK
<1>2. \A c \in Blocks : BreadData(c)' = BreadData(c)
  BY <1>1, LogConstants DEF RedoInv, BufferInv, BreadData
<1>3. Locked' = Locked /\ (Installing' <=> Installing)
  BY <1>1 DEF Locked, Installing
<1>4. DistinctInv' /\ HeaderInv'
  BY <1>1, <1>3 DEF RedoInv, DistinctInv, HeaderInv, NoDuplicates
<1>5. DirtyInv'
  BY <1>1, <1>3 DEF RedoInv, DirtyInv, Logged
<1>6. BufferInv'
  BY <1>1, <1>3, LogConstants DEF RedoInv, BufferInv
<1>7. CopyInv'
  <2>1. \A i \in 1..Len(lh) : BreadData(lh[i])' = BreadData(lh[i])
    BY <1>1, <1>2, Setting DEF BreadData
  <2>2. \A q \in Procs : pc[q] = "writelog" => tail < Len(lh)
    BY DEF RedoInv, CopyInv
  <2>3. \A q \in Procs : pc[q] = "writelog" => \A i \in 1..tail : i \in 1..Len(lh)
    BY <2>2, Setting
  <2> QED
    BY <1>1, <1>3, <2>1, <2>3 DEF RedoInv, CopyInv
<1> QED
  BY <1>4, <1>5, <1>6, <1>7 DEF RedoInv

-----------------------------------------------------------------------------
\* A crash, and the steps of recover_from_log
LEMMA CrashRedo ==
  ASSUME Crash
  PROVE  NoDuplicates(dhead) => RedoInv'
<1> USE DEF memory, buffers, platter, machine
<1>1. /\ UNCHANGED <<disk, dlog, dhead>>
      /\ \A q \in Procs : pc'[q] = "idle"
      /\ lh' = <<>> /\ tail' = 0 /\ dirty' = {} /\ boot' = "readhead"
      /\ \A b \in Blocks : cache'[b] = Absent
  BY DEF Crash
<1>2. Locked' = {} /\ ~Installing'
  BY <1>1 DEF Locked, Installing
<1> QED
  BY <1>1, <1>2 DEF RedoInv, DistinctInv, HeaderInv, CopyInv, DirtyInv, BufferInv, NoDuplicates

LEMMA RecoverRedo ==
  ASSUME CapacityCondition, LogInv, RedoInv, Recover
  PROVE  RedoInv'
<1> USE DEF memory, buffers, platter, machine
<1>0. boot # "up" /\ pc' = pc /\ blk' = blk /\ dlog' = dlog
  BY DEF Recover, ReadHead, RecoverInstall, RecoverErase
<1>1. /\ \A q \in Procs : pc[q] = "idle"
      /\ dirty = {} /\ \A b \in Blocks : cache[b] \in {Absent, disk[b]}
  BY <1>0, Recovering
<1>2. Locked' = {} /\ ~Installing'
  BY <1>0, <1>1 DEF Locked, Installing
<1>3. CASE ReadHead
  <2>1. UNCHANGED <<cache, dirty, disk, dlog, dhead>> /\ lh' = dhead /\ tail' = 0 /\ boot' = "install"
    BY <1>3 DEF ReadHead
  <2> QED
    BY <1>0, <1>1, <1>2, <2>1, Setting
       DEF RedoInv, DistinctInv, HeaderInv, CopyInv, DirtyInv, BufferInv, NoDuplicates
<1>4. CASE RecoverInstall
  <2> DEFINE c == lh[tail + 1]
             d == dlog[tail + 1]
  <2>0. tail + 1 \in 1..LogSize-1 /\ c \in Blocks /\ tail + 1 \in 1..Len(lh)
    BY <1>4, TailInRange, Setting DEF RecoverInstall
  <2>1. /\ UNCHANGED <<lh, dhead, boot>> /\ boot = "install" /\ tail' = tail + 1
        /\ \A b \in Blocks : cache'[b] = IF b = c THEN d ELSE cache[b]
        /\ \A b \in Blocks : disk'[b] = IF b = c THEN d ELSE disk[b]
        /\ dirty' = {}
    BY <1>1, <1>4, <2>0, Setting DEF RecoverInstall, InstallOne, TypeOK
  <2>2. \A b \in Blocks : cache'[b] \in {Absent, disk'[b]}
    BY <1>1, <2>1
  <2>3. \A i \in 1..tail' : disk'[lh'[i]] = dlog'[i]
    <3>1. \A i \in 1..tail : i \in 1..Len(lh) /\ lh[i] \in Blocks
      BY <2>0, Setting
    <3>2. \A i \in 1..tail : disk[lh[i]] = dlog[i]
      BY <2>1 DEF RedoInv, CopyInv
    <3>3. \A i, j \in 1..Len(lh) : lh[i] = lh[j] => i = j
      BY DEF RedoInv, DistinctInv, NoDuplicates
    <3>4. \A i \in 1..tail + 1 : i \in 1..tail \/ i = tail + 1
      BY Setting
    <3> QED
      BY <1>0, <2>0, <2>1, <3>1, <3>2, <3>3, <3>4
  <2>4. tail' <= Len(lh')
    BY <2>0, <2>1, Setting
  <2>5. DistinctInv' /\ HeaderInv'
    BY <1>2, <2>1 DEF RedoInv, DistinctInv, HeaderInv, NoDuplicates
  <2>6. CopyInv'
    BY <1>0, <1>1, <2>3, <2>4 DEF CopyInv
  <2>7. DirtyInv'
    BY <1>2, <2>1 DEF DirtyInv
  <2>8. BufferInv'
    BY <1>2, <2>1, <2>2 DEF BufferInv
  <2> QED
    BY <2>5, <2>6, <2>7, <2>8 DEF RedoInv
<1>5. CASE RecoverErase
  <2>1. UNCHANGED <<cache, dirty, disk>> /\ lh' = <<>> /\ dhead' = <<>> /\ boot' = "up"
    BY <1>5 DEF RecoverErase
  <2>2. Logged' = {}
    BY <2>1 DEF Logged
  <2> QED
    BY <1>0, <1>1, <1>2, <2>1, <2>2
       DEF RedoInv, DistinctInv, HeaderInv, CopyInv, DirtyInv, BufferInv, NoDuplicates
<1> QED
  BY <1>3, <1>4, <1>5 DEF Recover

LEMMA InitRedo ==
  ASSUME Init
  PROVE  RedoInv
<1>1. Len(lh) = 0 /\ Len(dhead) = 0 /\ Locked = {} /\ ~Installing
  BY DEF Init, Locked, Installing
<1> QED
  BY <1>1 DEF Init, RedoInv, DistinctInv, HeaderInv, CopyInv, DirtyInv, BufferInv, NoDuplicates

LEMMA NextRedo ==
  ASSUME CapacityCondition, LogInv, RedoInv, [Next]_vars
  PROVE  RedoInv'
<1>1. NoDuplicates(dhead)
  BY DEF RedoInv, DistinctInv
<1> QED
  BY <1>1, CalmSteps, CalmRedo, ModifyRedo, AppendRedo, WriteLogRedo, WriteHeadRedo, InstallRedo,
     EraseHeadRedo, BufferRedo, CrashRedo, RecoverRedo
     DEF Next, Proc, LogWrite, CommitStep

\* The inductive invariant of the redo log.
THEOREM RedoInvariant == CapacityCondition => (Spec => [](LogInv /\ RedoInv))
<1> SUFFICES ASSUME CapacityCondition PROVE Spec => [](LogInv /\ RedoInv)
  OBVIOUS
<1>1. Init => RedoInv
  BY InitRedo
<1>2. LogInv /\ RedoInv /\ [Next]_vars => RedoInv'
  BY NextRedo
<1> QED
  BY <1>1, <1>2, LogInvariant, PTL DEF Spec

\* No buffer is recycled, and none is taken for clean, before what an
\* operation wrote into it is at home on the disk.
THEOREM LogPinsBuffers == CapacityCondition => (Spec => []PinnedUntilInstalled)
<1> SUFFICES ASSUME CapacityCondition PROVE Spec => []PinnedUntilInstalled
  OBVIOUS
<1>1. RedoInv => PinnedUntilInstalled
  BY DEF RedoInv, BufferInv, PinnedUntilInstalled
<1> QED
  BY <1>1, RedoInvariant, PTL

-----------------------------------------------------------------------------
\* The refinement: every step of the log is a step of the atomic disk, or
\* leaves its three variables alone.
AStep == [AD!ANext]_(AD!avars)

\* What a crash would leave, block by block.
LEMMA StableCases ==
  /\ DOMAIN Stable = Blocks /\ Stable = [b \in Blocks |-> Stable[b]]
  /\ \A b \in Blocks : (\A i \in 1..Len(dhead) : dhead[i] # b) => Stable[b] = disk[b]
  /\ \A b \in Blocks : (\E i \in 1..Len(dhead) : dhead[i] = b) =>
        \E i \in 1..Len(dhead) : dhead[i] = b /\ Stable[b] = dlog[i]
BY DEF Stable

LEMMA StableCasesNext ==
  /\ DOMAIN Stable' = Blocks /\ Stable' = [b \in Blocks |-> Stable'[b]]
  /\ \A b \in Blocks : (\A i \in 1..Len(dhead') : dhead'[i] # b) => Stable'[b] = disk'[b]
  /\ \A b \in Blocks : (\E i \in 1..Len(dhead') : dhead'[i] = b) =>
        \E i \in 1..Len(dhead') : dhead'[i] = b /\ Stable'[b] = dlog'[i]
BY DEF Stable

\* A step that keeps the header, the log blocks it names and the home blocks
\* it does not name leaves the same contents for a crash.
LEMMA StableKept ==
  ASSUME NoDuplicates(dhead), dhead' = dhead,
         \A i \in 1..Len(dhead) : dlog'[i] = dlog[i],
         \A b \in Blocks : (\A i \in 1..Len(dhead) : dhead[i] # b) => disk'[b] = disk[b]
  PROVE  Stable' = Stable
<1>1. \A b \in Blocks : Stable'[b] = Stable[b]
  BY StableCases, StableCasesNext DEF NoDuplicates
<1> QED
  BY <1>1, StableCases, StableCasesNext

LEMMA CurrentKept ==
  ASSUME boot = "up", boot' = "up", \A b \in Blocks : BreadData(b)' = BreadData(b)
  PROVE  Current' = Current
BY DEF Current, BreadData

LEMMA RefinesQuietly ==
  ASSUME Stable' = Stable, Current' = Current, Active' = Active
  PROVE  AStep
BY DEF AStep, AD!avars

\* begin_op, end_op and the steps of the log that move no data.
LEMMA CalmRefines ==
  ASSUME LogInv, RedoInv,
         \/ \E p \in Procs : BeginOp(p) \/ KillWakeup(p) \/ LogWriteCheck(p) \/ EndOp(p) \/ Finish(p)
         \/ UNCHANGED vars
  PROVE  AStep
<1> USE DEF memory, buffers, platter, machine
<1>t. TypeOK
  BY DEF LogInv
<1>1. Calm /\ NoDuplicates(dhead)
  BY CalmSteps DEF RedoInv, DistinctInv
<1>2. Stable' = Stable
  BY <1>1, StableKept DEF Calm
<1>3. Current' = Current
  BY <1>1, <1>2 DEF Calm, Current, BreadData
<1>4. CASE \E p \in Procs : BeginOpSleep(p) \/ KillWakeup(p) \/ LogWriteCheck(p) \/ Finish(p)
  <2>1. Active' = Active
    BY <1>4, <1>t DEF BeginOpSleep, KillWakeup, LogWriteCheck, Finish, Active, Wakeup, InOp, TypeOK
  <2> QED
    BY <1>2, <1>3, <2>1, RefinesQuietly
<1>5. ASSUME NEW p \in Procs, BeginOpAdmit(p)
      PROVE  AStep
  <2>1. p \notin Active /\ Active' = Active \cup {p}
    BY <1>5, <1>t DEF BeginOpAdmit, Active, InOp, TypeOK
  <2> QED
    BY <1>2, <1>3, <2>1 DEF AStep, AD!ANext, AD!Begin
<1>6. ASSUME NEW p \in Procs, EndOp(p)
      PROVE  AStep
  <2>1. p \in Active /\ Active' = Active \ {p}
    BY <1>6, <1>t DEF EndOp, Active, InOp, TypeOK, Wakeup, Committing
  <2> QED
    BY <1>2, <1>3, <2>1 DEF AStep, AD!ANext, AD!End
<1>7. CASE UNCHANGED vars
  <2>1. Active' = Active
    BY <1>7 DEF vars, Active
  <2> QED
    BY <1>2, <1>3, <2>1, RefinesQuietly
<1> QED
  BY <1>4, <1>5, <1>6, <1>7 DEF BeginOp

\* The buffer an operation modifies is what every reader sees.
LEMMA ModifyRefines ==
  ASSUME LogInv, RedoInv, NEW p \in Procs, NEW b \in Blocks, NEW v \in Values, Modify(p, b, v)
  PROVE  AStep
<1> USE DEF memory, buffers, platter, machine
<1>1. /\ UNCHANGED <<disk, dlog, dhead, boot>>
      /\ boot = "up" /\ pc[p] = "inop" /\ pc'[p] = "check"
      /\ \A q \in Procs : q # p => pc'[q] = pc[q]
      /\ \A c \in Blocks : cache'[c] = IF c = b THEN v ELSE cache[c]
  BY Setting DEF Modify, Up, TypeOK
<1>2. Stable' = Stable
  BY <1>1, StableKept DEF RedoInv, DistinctInv
<1>3. p \in Active /\ Active' = Active
  BY <1>1 DEF Active, InOp
<1>4. Current' = [Current EXCEPT ![b] = v]
  <2>1. v # Absent
    BY LogConstants
  <2> QED
    BY <1>1, <2>1 DEF Current, BreadData
<1> QED
  BY <1>2, <1>3, <1>4 DEF AStep, AD!ANext, AD!Write

\* The steps of commit() but the write of the header, and those of bget.
LEMMA CopyRefines ==
  ASSUME CapacityCondition, LogInv, RedoInv,
         \/ \E p \in Procs : LogWriteAppend(p) \/ WriteLog(p) \/ Install(p) \/ EraseHead(p)
         \/ \E b \in Blocks : CacheRead(b) \/ Evict(b)
  PROVE  AStep
<1> USE DEF memory, buffers, platter, machine
<1>t. TypeOK /\ NoDuplicates(dhead)
  BY DEF LogInv, RedoInv, DistinctInv
<1>1. ASSUME NEW p \in Procs, LogWriteAppend(p)
      PROVE  AStep
  <2>1. /\ UNCHANGED <<cache, disk, dlog, dhead, boot>>
        /\ Active' = Active
    BY <1>1, <1>t DEF LogWriteAppend, Active, InOp, TypeOK
  <2>2. Stable' = Stable
    BY <2>1, <1>t, StableKept
  <2>3. Current' = Current
    BY <2>1, <2>2 DEF Current, BreadData
  <2> QED
    BY <2>1, <2>2, <2>3, RefinesQuietly
<1>2. ASSUME NEW p \in Procs, WriteLog(p)
      PROVE  AStep
  <2> DEFINE c == lh[tail + 1]
  <2>0. c \in Blocks
    BY <1>2, TailInRange DEF WriteLog
  <2>1. /\ UNCHANGED <<disk, dhead, boot>> /\ boot = "up" /\ pc[p] = "writelog"
        /\ cache' = [cache EXCEPT ![c] = BreadData(c)]
    BY <1>2 DEF WriteLog, Up
  <2>2. Active' = Active
    BY <1>2, <1>t DEF WriteLog, Active, InOp, TypeOK
  <2>3. dhead = <<>>
    <3>1. ~Installing
      BY <2>1, Alone DEF Installing, Committing
    <3> QED
      BY <2>1, <3>1 DEF RedoInv, HeaderInv
  <2>4. Stable' = Stable
    BY <2>1, <2>3, <1>t, StableKept
  <2>5. \A b \in Blocks : BreadData(b)' = BreadData(b)
    <3>1. BreadData(c) \in Values
      BY <2>0, <1>t, BreadDataType
    <3>2. BreadData(c) # Absent
      BY <3>1, LogConstants
    <3> QED
      BY <2>0, <2>1, <3>2, <1>t DEF BreadData, TypeOK
  <2> QED
    BY <2>1, <2>2, <2>4, <2>5, CurrentKept, RefinesQuietly
<1>3. ASSUME NEW p \in Procs, Install(p)
      PROVE  AStep
  <2> DEFINE c == lh[tail + 1]
             d == dlog[tail + 1]
  <2>0. c \in Blocks /\ tail + 1 \in 1..Len(lh) /\ tail + 1 \in 1..LogSize-1
    BY <1>3, TailInRange, Setting DEF Install
  <2>1. /\ UNCHANGED <<dlog, dhead, boot>> /\ boot = "up" /\ pc[p] = "install"
        /\ \A b \in Blocks : cache'[b] = IF b = c THEN d ELSE cache[b]
        /\ \A b \in Blocks : disk'[b] = IF b = c THEN d ELSE disk[b]
    BY <1>3, <1>t, <2>0 DEF Install, InstallOne, Up, TypeOK
  <2>2. Active' = Active
    BY <1>3, <1>t DEF Install, Active, InOp, TypeOK
  <2>3. d = BreadData(c) /\ d # Absent
    BY <2>0, <2>1, <1>t, LogConstants DEF RedoInv, CopyInv, TypeOK
  <2>4. \E i \in 1..Len(dhead) : dhead[i] = c
    <3>1. dhead = lh
      BY <2>1 DEF RedoInv, HeaderInv, Installing
    <3> QED
      BY <2>0, <3>1
  <2> HIDE DEF c, d
  <2>5. Stable' = Stable
    BY <2>1, <2>4, <1>t, StableKept
  <2>6. \A b \in Blocks : BreadData(b)' = BreadData(b)
    BY <2>0, <2>1, <2>3 DEF BreadData
  <2> QED
    BY <2>1, <2>2, <2>5, <2>6, CurrentKept, RefinesQuietly
<1>4. ASSUME NEW p \in Procs, EraseHead(p)
      PROVE  AStep
  <2>1. /\ UNCHANGED <<disk, dlog, boot, cache>> /\ boot = "up" /\ pc[p] = "erase" /\ dhead' = <<>>
    BY <1>4 DEF EraseHead, Up
  <2>2. Active' = Active
    BY <1>4, <1>t DEF EraseHead, Active, InOp, TypeOK
  <2>3. Installing /\ dhead = lh /\ tail = Len(lh)
    BY <2>1 DEF RedoInv, HeaderInv, CopyInv, Installing
  <2>4. \A i \in 1..Len(dhead) : disk[dhead[i]] = dlog[i]
    BY <2>3 DEF RedoInv, CopyInv
  <2>5. \A b \in Blocks : Stable[b] = disk[b]
    BY <2>4, StableCases
  <2>6. \A b \in Blocks : Stable'[b] = disk[b]
    BY <2>1, StableCasesNext
  <2>7. Stable' = Stable
    BY <2>5, <2>6, StableCases, StableCasesNext
  <2>8. Current' = Current
    BY <2>1, CurrentKept DEF BreadData
  <2> QED
    BY <2>2, <2>7, <2>8, RefinesQuietly
<1>5. ASSUME NEW b \in Blocks, CacheRead(b) \/ Evict(b)
      PROVE  AStep
  <2>1. /\ UNCHANGED <<pc, disk, dlog, dhead, boot>> /\ boot = "up"
        /\ \A c \in Blocks : c # b => cache'[c] = cache[c]
        /\ \/ cache[b] = Absent /\ cache'[b] = disk[b]
           \/ cache[b] # Absent /\ b \notin dirty /\ b \notin Locked /\ cache'[b] = Absent
        /\ disk[b] \in Values
    BY <1>5, <1>t DEF CacheRead, Evict, TypeOK, Up
  <2>2. \A c \in Blocks : BreadData(c)' = BreadData(c)
    BY <2>1, LogConstants DEF RedoInv, BufferInv, BreadData
  <2>3. Stable' = Stable
    BY <2>1, <1>t, StableKept
  <2>4. Active' = Active
    BY <2>1 DEF Active
  <2> QED
    BY <2>1, <2>2, <2>3, <2>4, CurrentKept, RefinesQuietly
<1> QED
  BY <1>1, <1>2, <1>3, <1>4, <1>5

\* The write of the header makes everything written so far permanent, while
\* nobody is inside an operation.
LEMMA CommitRefines ==
  ASSUME LogInv, RedoInv, NEW p \in Procs, WriteHead(p)
  PROVE  AStep
<1> USE DEF memory, buffers, platter, machine
<1>1. /\ UNCHANGED <<cache, disk, dlog, boot>> /\ boot = "up" /\ pc[p] = "commit" /\ dhead' = lh
      /\ pc' = [pc EXCEPT ![p] = "install"]
  BY DEF WriteHead, Up
<1>2. Active = {} /\ Active' = {} /\ Locked = {} /\ ~Installing
  <2>1. Active = {} /\ Locked = {} /\ ~Installing
    BY <1>1, Alone DEF Committing, Installing
  <2> QED
    BY <1>1, <2>1, Setting DEF Active, InOp, TypeOK
<1>3. \A b \in Blocks : Stable'[b] = BreadData(b)
  <2> SUFFICES ASSUME NEW b \in Blocks PROVE Stable'[b] = BreadData(b)
    OBVIOUS
  <2>1. CASE \E i \in 1..Len(lh) : lh[i] = b
    <3>1. PICK i \in 1..Len(lh) : lh[i] = b /\ Stable'[b] = dlog[i]
      BY <1>1, <2>1, StableCasesNext
    <3> QED
      BY <1>1, <3>1 DEF RedoInv, CopyInv
  <2>2. CASE \A i \in 1..Len(lh) : lh[i] # b
    <3>1. b \notin dirty \cup Locked
      BY <1>1, <1>2, <2>2 DEF RedoInv, DirtyInv, Logged
    <3>2. Stable'[b] = disk[b]
      BY <1>1, <2>2, StableCasesNext
    <3> QED
      BY <3>1, <3>2 DEF RedoInv, BufferInv, BreadData
  <2> QED
    BY <2>1, <2>2
<1>4. Stable' = Current /\ Current' = Current
  <2>1. Current = [b \in Blocks |-> BreadData(b)]
    BY <1>1 DEF Current
  <2>2. Current' = Current
    BY <1>1, CurrentKept DEF BreadData
  <2> QED
    BY <1>3, <2>1, <2>2, StableCasesNext
<1> QED
  BY <1>2, <1>4 DEF AStep, AD!ANext, AD!Commit

LEMMA CrashRefines ==
  ASSUME RedoInv, Crash
  PROVE  AStep
<1>1. Stable' = Stable
  BY StableKept DEF Crash, platter, RedoInv, DistinctInv
<1>2. Current' = Stable /\ Active' = {}
  BY <1>1 DEF Crash, Current, Active, InOp
<1> QED
  BY <1>1, <1>2 DEF AStep, AD!ANext, AD!Crash

\* Recovery, which a crash may interrupt, changes nothing that a crash keeps.
LEMMA RecoverRefines ==
  ASSUME CapacityCondition, LogInv, RedoInv, Recover
  PROVE  AStep
<1> USE DEF memory, buffers, platter, machine
<1>t. TypeOK /\ NoDuplicates(dhead)
  BY DEF LogInv, RedoInv, DistinctInv
<1>0. boot # "up" /\ pc' = pc /\ dlog' = dlog
  BY DEF Recover, ReadHead, RecoverInstall, RecoverErase
<1>1. \A b \in Blocks : cache[b] \in {Absent, disk[b]}
  BY <1>0, Recovering
<1>2. Active' = Active
  BY <1>0 DEF Active
<1>3. CASE ReadHead
  <2>1. Stable' = Stable
    BY <1>3, <1>t, StableKept DEF ReadHead
  <2> QED
    BY <1>0, <1>2, <1>3, <2>1, RefinesQuietly DEF ReadHead, Current
<1>4. CASE RecoverInstall
  <2> DEFINE c == lh[tail + 1]
             d == dlog[tail + 1]
  <2>0. c \in Blocks /\ tail + 1 \in 1..Len(lh)
    BY <1>4, TailInRange, Setting DEF RecoverInstall
  <2>1. /\ UNCHANGED <<dlog, dhead, boot>> /\ boot = "install"
        /\ \A b \in Blocks : disk'[b] = IF b = c THEN d ELSE disk[b]
    BY <1>4, <1>t, <2>0 DEF RecoverInstall, InstallOne, TypeOK
  <2>2. \E i \in 1..Len(dhead) : dhead[i] = c
    <3>1. dhead = lh
      BY <2>1 DEF RedoInv, HeaderInv
    <3> QED
      BY <2>0, <3>1
  <2> HIDE DEF c, d
  <2>3. Stable' = Stable
    BY <2>1, <2>2, <1>t, StableKept
  <2> QED
    BY <1>0, <1>2, <2>1, <2>3, RefinesQuietly DEF Current
<1>5. CASE RecoverErase
  <2>1. /\ UNCHANGED <<cache, disk, dlog>> /\ boot = "install" /\ boot' = "up" /\ dhead' = <<>>
        /\ tail = Len(lh)
    BY <1>5 DEF RecoverErase
  <2>2. \A i \in 1..Len(dhead) : disk[dhead[i]] = dlog[i]
    BY <2>1 DEF RedoInv, CopyInv, HeaderInv
  <2>3. \A b \in Blocks : Stable[b] = disk[b]
    BY <2>2, StableCases
  <2>4. \A b \in Blocks : Stable'[b] = disk[b]
    BY <2>1, StableCasesNext
  <2>5. Stable' = Stable
    BY <2>3, <2>4, StableCases, StableCasesNext
  <2>6. Current' = Current
    <3>1. Current = Stable
      BY <2>1 DEF Current
    <3>2. Current' = [b \in Blocks |-> BreadData(b)']
      BY <2>1 DEF Current, BreadData
    <3>3. \A b \in Blocks : BreadData(b)' = disk[b]
      BY <1>1, <2>1 DEF BreadData
    <3>4. Current' = [b \in Blocks |-> disk[b]]
      BY <3>2, <3>3
    <3>5. Stable = [b \in Blocks |-> disk[b]]
      BY <2>3, StableCases
    <3> QED
      BY <3>1, <3>4, <3>5
  <2> QED
    BY <1>2, <2>5, <2>6, RefinesQuietly
<1> QED
  BY <1>3, <1>4, <1>5 DEF Recover

LEMMA InitRefines ==
  ASSUME Init
  PROVE  AD!AInit
<1>1. Len(dhead) = 0 /\ boot # "up" /\ disk \in [Blocks -> Values]
  BY DEF Init
<1>2. Stable \in [Blocks -> Values]
  BY <1>1, StableCases
<1>3. Current = Stable
  BY <1>1 DEF Current
<1>4. Active = {}
  BY DEF Init, Active, InOp
<1> QED
  BY <1>2, <1>3, <1>4 DEF AD!AInit

LEMMA NextRefines ==
  ASSUME CapacityCondition, LogInv, RedoInv, [Next]_vars
  PROVE  AStep
BY CalmRefines, ModifyRefines, CopyRefines, CommitRefines, CrashRefines, RecoverRefines
   DEF Next, Proc, LogWrite, CommitStep

\* The file system sees an atomic disk: whatever operations interleave and
\* wherever power fails, recovery included, what survives is the disk as it
\* was at one commit, a moment at which nobody was inside an operation.
THEOREM LogIsAtomicDisk == CapacityCondition => (Spec => ImplementsAtomicDisk)
<1> SUFFICES ASSUME CapacityCondition PROVE Spec => ImplementsAtomicDisk
  OBVIOUS
<1>1. Init => AD!AInit
  BY InitRefines
<1>2. LogInv /\ RedoInv /\ [Next]_vars => [AD!ANext]_(AD!avars)
  BY NextRefines DEF AStep
<1> QED
  BY <1>1, <1>2, RedoInvariant, PTL DEF Spec, ImplementsAtomicDisk, AD!ASpec

=============================================================================
