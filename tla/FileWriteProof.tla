--------------------------- MODULE FileWriteProof ---------------------------
(***************************************************************************)
(* Proofs about FileWrite: processes that share an open file append one    *)
(* after the other, and the chunks of filewrite keep every transaction     *)
(* inside the log, for all sizes under ReservationCondition.               *)
(***************************************************************************)
EXTENDS FileWrite, FiniteSetTheorems, TLAPS

\* The sizes are numbers, and None is not a process.
FileWriteConstants ==
  /\ IsFiniteSet(Procs) /\ None \notin Procs
  /\ Counts \subseteq Nat /\ Starts \subseteq Nat
  /\ MaxSize \in Nat /\ BSIZE \in Nat \ {0} /\ NDIRECT \in Nat
  /\ MAXOPBLOCKS \in Nat /\ LOGSIZE \in Nat /\ ChunkBlocks \in Nat

\* Whole blocks in a chunk.
ChunkLen == (ChunkBlocks - 1 - 1 - 2) \div 2

\* A chunk has a block at least; its blocks, one more when it is not aligned,
\* the bitmap, the indirect block and the inode fit the reservation, with one
\* entry to spare for log_write's strict comparison.
ReservationCondition ==
  /\ ChunkBlocks >= 6
  /\ ChunkLen + 5 <= MAXOPBLOCKS

-----------------------------------------------------------------------------
\* Appending in turn.
PCs == {"idle", "begin", "ilock", "writei", "end"}

WriteTypeOK ==
  /\ off \in [Files -> Nat] /\ end \in [Files -> Nat]
  /\ ilocked \in [Files -> Procs \cup {None}]
  /\ outstanding \in Int /\ panicked \in BOOLEAN
  /\ wpc \in [Procs -> PCs]
  /\ todo \in [Procs -> Nat] /\ tot \in [Procs -> Nat]

\* The holder of an inode's lock is inside writei, where its chunk ends at end;
\* a file nobody has locked ends at its offset.
TurnInv ==
  /\ \A p \in Procs : wpc[p] \in {"idle", "begin", "ilock"} => tot[p] = 0
  /\ \A p \in Procs : wpc[p] = "writei" => /\ ilocked[FileOf[p]] = p
                                           /\ off[FileOf[p]] + tot[p] = end[FileOf[p]]
                                           /\ tot[p] <= Chunk(p) \/ tot[p] = 0
  /\ \A f \in Files : ilocked[f] = None => off[f] = end[f]

AppendInv == WriteTypeOK /\ TurnInv

-----------------------------------------------------------------------------
\* The space of the log.
Inside == {p \in Procs : wpc[p] \in {"ilock", "writei", "end"}}

\* Where the chunk of a process in writei may put data, and the bitmap and the
\* indirect block.
DataBlocks(p) ==
  LET lo == off[FileOf[p]] \div BSIZE
  IN  {<<"data", FileOf[p], bn>> : bn \in lo..lo + ChunkLen}
Reach(p) == DataBlocks(p) \cup {<<"bitmap", 0, 0>>, <<"indirect", FileOf[p], 0>>}

TouchedInv ==
  /\ touched \in [Procs -> SUBSET logged]
  /\ \A p \in Procs : wpc[p] \in {"idle", "begin", "ilock"} => touched[p] = {}
  /\ \A p \in Procs : wpc[p] = "writei" => touched[p] \subseteq Reach(p)
  /\ \A p \in Procs : wpc[p] = "end" => Cardinality(touched[p]) <= ChunkLen + 4

\* One token for each log entry reserved by a process inside and not yet used.
Tokens == {t \in Procs \X (1..MAXOPBLOCKS) : t[1] \in Inside /\ t[2] > Cardinality(touched[t[1]])}

SpaceInv ==
  /\ IsFiniteSet(logged)
  /\ outstanding = Cardinality(Inside)
  /\ Cardinality(logged) + Cardinality(Tokens) <= LOGSIZE
  /\ ~panicked

WriteInv == AppendInv /\ TouchedInv /\ SpaceInv

-----------------------------------------------------------------------------
\* Division, as writei uses it to find the block and the place in it.
LEMMA DivMod ==
  ASSUME NEW a \in Int, NEW w \in Nat \ {0}
  PROVE  /\ a \div w \in Int /\ a % w \in 0..w-1
         /\ a = w * (a \div w) + (a % w)
<1>1. w \in Int /\ w > 0
  OBVIOUS
<1> QED
  BY <1>1, Z3

LEMMA ChunkFacts ==
  ASSUME FileWriteConstants, WriteTypeOK, NEW p \in Procs
  PROVE  /\ ChunkLen \in Int /\ MaxChunk = ChunkLen * BSIZE /\ MaxChunk \in Int
         /\ Chunk(p) \in Int /\ Chunk(p) <= todo[p] /\ Chunk(p) <= MaxChunk
<1>1. ChunkLen \in Int
  BY DivMod DEF ChunkLen, FileWriteConstants
<1>2. MaxChunk = ChunkLen * BSIZE
  BY DEF MaxChunk, ChunkLen
<1>3. MaxChunk \in Int
  BY <1>1, <1>2 DEF FileWriteConstants
<1>4. todo[p] \in Nat
  BY DEF WriteTypeOK
<1> QED
  BY <1>1, <1>2, <1>3, <1>4 DEF Chunk

\* A turn of writei's loop writes at least a byte and ends within the chunk and
\* within the block.
LEMMA TurnLength ==
  ASSUME NEW at \in Nat, NEW w \in Nat \ {0}, NEW t \in Nat, NEW c \in Int, t < c
  PROVE  LET m == Smaller(c - t, w - (at % w)) IN m \in Nat \ {0} /\ t + m <= c
<1>1. at % w \in 0..w-1
  BY DivMod
<1> DEFINE r == at % w
<1>2. r \in Nat /\ r < w
  BY <1>1
<1> HIDE DEF r
<1>3. Smaller(c - t, w - r) \in Nat \ {0} /\ t + Smaller(c - t, w - r) <= c
  BY <1>2 DEF Smaller
<1> QED
  BY <1>3 DEF r

LEMMA FileOfType ==
  ASSUME NEW p \in Procs
  PROVE  FileOf[p] \in Files
BY DEF Files

LEMMA InitAppend ==
  ASSUME FileWriteConstants, WriteInit
  PROVE  AppendInv
<1>1. WriteTypeOK
  <2>1. off \in [Files -> Nat] /\ end = off
    BY DEF WriteInit, FileWriteConstants
  <2>2. panicked \in BOOLEAN
    BY DEF WriteInit
  <2>3. wpc \in [Procs -> PCs] /\ todo \in [Procs -> Nat] /\ tot \in [Procs -> Nat]
    BY DEF WriteInit, PCs
  <2>4. ilocked \in [Files -> Procs \cup {None}]
    BY DEF WriteInit
  <2>5. outstanding \in Int
    BY DEF WriteInit
  <2> QED
    BY <2>1, <2>2, <2>3, <2>4, <2>5 DEF WriteTypeOK
<1>2. TurnInv
  BY FileOfType DEF WriteInit, TurnInv, FileWriteConstants
<1> QED
  BY <1>1, <1>2 DEF AppendInv

LEMMA AppendStep ==
  ASSUME FileWriteConstants, AppendInv, [WriteNext]_writeVars
  PROVE  AppendInv'
<1>t. WriteTypeOK /\ TurnInv
  BY DEF AppendInv
<1>s. Counts \subseteq Nat /\ None \notin Procs
  BY DEF FileWriteConstants
<1>1. ASSUME NEW p \in Procs, NEW n \in Counts, Write(p, n)
      PROVE  AppendInv'
  <2>1. WriteTypeOK'
    BY <1>1, <1>t, <1>s DEF Write, WriteTypeOK, PCs
  <2>2. TurnInv'
    BY <1>1, <1>t DEF Write, WriteTypeOK, TurnInv, Chunk, MaxChunk
  <2> QED
    BY <2>1, <2>2 DEF AppendInv
<1>2. ASSUME NEW p \in Procs, BeginOp(p)
      PROVE  AppendInv'
  <2>1. WriteTypeOK'
    BY <1>2, <1>t DEF BeginOp, WriteTypeOK, PCs
  <2>2. TurnInv'
    BY <1>2, <1>t DEF BeginOp, WriteTypeOK, TurnInv, Chunk, MaxChunk
  <2> QED
    BY <2>1, <2>2 DEF AppendInv
<1>3. ASSUME NEW p \in Procs, Ilock(p)
      PROVE  AppendInv'
  <2>1. WriteTypeOK'
    BY <1>3, <1>t, FileOfType DEF Ilock, WriteTypeOK, PCs
  <2>2. TurnInv'
    BY <1>3, <1>t, <1>s, FileOfType DEF Ilock, WriteTypeOK, TurnInv, Chunk, MaxChunk
  <2> QED
    BY <2>1, <2>2 DEF AppendInv
<1>4. ASSUME NEW p \in Procs, WriteBlock(p)
      PROVE  AppendInv'
  <2> DEFINE f == FileOf[p]
             at == off[f] + tot[p]
             m == Smaller(Chunk(p) - tot[p], BSIZE - (at % BSIZE))
  <2>1. f \in Files /\ off[f] \in Nat /\ tot[p] \in Nat /\ at \in Nat
    BY <1>t, FileOfType DEF WriteTypeOK
  <2>2. Chunk(p) \in Int /\ tot[p] < Chunk(p) /\ BSIZE \in Nat \ {0}
    BY <1>4, <1>t, ChunkFacts DEF WriteBlock, FileWriteConstants
  <2>3. m \in Nat \ {0} /\ tot[p] + m <= Chunk(p)
    BY <2>1, <2>2, TurnLength
  <2>4. /\ tot' = [tot EXCEPT ![p] = @ + m]
        /\ end' = [end EXCEPT ![f] = at + m]
        /\ UNCHANGED <<off, ilocked, outstanding, wpc, todo>>
        /\ wpc[p] = "writei" /\ panicked' \in BOOLEAN
    BY <1>4 DEF WriteBlock, LogWrites
  <2> HIDE DEF at, m
  <2>5. WriteTypeOK'
    BY <2>1, <2>3, <2>4, <1>t DEF WriteTypeOK
  <2>6. at + m = off[f] + (tot[p] + m)
    BY <2>1, <2>3 DEF at
  <2>7. ilocked[f] = p
    BY <2>4, <1>t DEF TurnInv
  <2>8. Chunk(p)' = Chunk(p)
    BY <2>4 DEF Chunk, MaxChunk
  <2>9. TurnInv'
    <3>1. ASSUME NEW q \in Procs, wpc'[q] \in {"idle", "begin", "ilock"}
          PROVE  tot'[q] = 0
      BY <3>1, <2>4, <1>t DEF TurnInv, WriteTypeOK
    <3>2. ASSUME NEW q \in Procs, wpc'[q] = "writei"
          PROVE  /\ ilocked'[FileOf[q]] = q
                 /\ off'[FileOf[q]] + tot'[q] = end'[FileOf[q]]
                 /\ tot'[q] <= Chunk(q)' \/ tot'[q] = 0
      <4>1. CASE q = p
        BY <4>1, <2>1, <2>3, <2>4, <2>6, <2>7, <2>8, <1>t DEF WriteTypeOK
      <4>2. CASE q # p
        <5>1. ilocked[FileOf[q]] = q /\ FileOf[q] # f
          BY <4>2, <3>2, <2>4, <2>7, <1>t DEF TurnInv
        <5>2. Chunk(q)' = Chunk(q)
          BY <2>4 DEF Chunk, MaxChunk
        <5> QED
          BY <5>1, <5>2, <4>2, <3>2, <2>4, <1>t, FileOfType DEF TurnInv, WriteTypeOK
      <4> QED
        BY <4>1, <4>2
    <3>3. ASSUME NEW g \in Files, ilocked'[g] = None
          PROVE  off'[g] = end'[g]
      <4>1. g # f
        BY <3>3, <2>4, <2>7, <1>s
      <4> QED
        BY <4>1, <3>3, <2>4, <1>t DEF TurnInv, WriteTypeOK
    <3> QED
      BY <3>1, <3>2, <3>3 DEF TurnInv
  <2> QED
    BY <2>5, <2>9 DEF AppendInv
<1>5. ASSUME NEW p \in Procs, WriteTooLarge(p)
      PROVE  AppendInv'
  <2> DEFINE f == FileOf[p]
  <2>1. /\ todo' = [todo EXCEPT ![p] = 0]
        /\ ilocked' = [ilocked EXCEPT ![f] = None]
        /\ wpc' = [wpc EXCEPT ![p] = "end"]
        /\ UNCHANGED <<off, logged, outstanding, panicked, tot, touched, end>>
        /\ wpc[p] = "writei" /\ tot[p] = 0
    BY <1>5 DEF WriteTooLarge
  <2>2. f \in Files /\ ilocked[f] = p /\ off[f] = end[f]
    BY <2>1, <1>t, FileOfType DEF TurnInv, WriteTypeOK
  <2>3. WriteTypeOK'
    BY <2>1, <2>2, <1>t DEF WriteTypeOK, PCs
  <2>4. \A q \in Procs : q # p => Chunk(q)' = Chunk(q)
    BY <2>1, <1>t DEF Chunk, MaxChunk, WriteTypeOK
  <2>5. TurnInv'
    BY <2>1, <2>2, <2>4, <1>t, FileOfType DEF TurnInv, WriteTypeOK
  <2> QED
    BY <2>3, <2>5 DEF AppendInv
<1>6. ASSUME NEW p \in Procs, Iupdate(p)
      PROVE  AppendInv'
  <2> DEFINE f == FileOf[p]
  <2>1. /\ off' = [off EXCEPT ![f] = @ + tot[p]]
        /\ todo' = [todo EXCEPT ![p] = @ - tot[p]]
        /\ ilocked' = [ilocked EXCEPT ![f] = None]
        /\ wpc' = [wpc EXCEPT ![p] = "end"]
        /\ UNCHANGED <<outstanding, tot, end>>
        /\ wpc[p] = "writei" /\ tot[p] = Chunk(p) /\ panicked' \in BOOLEAN
    BY <1>6 DEF Iupdate, LogWrites
  <2>2. f \in Files /\ ilocked[f] = p /\ off[f] + tot[p] = end[f]
    BY <2>1, <1>t, FileOfType DEF TurnInv, WriteTypeOK
  <2>3. tot[p] \in Nat /\ todo[p] \in Nat /\ tot[p] <= todo[p] /\ off[f] \in Nat
    BY <2>1, <2>2, <1>t, ChunkFacts DEF WriteTypeOK
  <2>4. WriteTypeOK'
    BY <2>1, <2>2, <2>3, <1>t DEF WriteTypeOK, PCs
  <2>5. \A q \in Procs : q # p => Chunk(q)' = Chunk(q)
    BY <2>1, <1>t DEF Chunk, MaxChunk, WriteTypeOK
  <2>6. \A q \in Procs : wpc[q] = "writei" /\ q # p => FileOf[q] # f
    BY <2>2, <1>t DEF TurnInv
  <2>7. TurnInv'
    BY <2>1, <2>2, <2>3, <2>5, <2>6, <1>t, FileOfType DEF TurnInv, WriteTypeOK
  <2> QED
    BY <2>4, <2>7 DEF AppendInv
<1>7. ASSUME NEW p \in Procs, EndOp(p)
      PROVE  AppendInv'
  <2>1. WriteTypeOK'
    BY <1>7, <1>t DEF EndOp, WriteTypeOK, PCs
  <2>2. TurnInv'
    BY <1>7, <1>t DEF EndOp, WriteTypeOK, TurnInv, Chunk, MaxChunk
  <2> QED
    BY <2>1, <2>2 DEF AppendInv
<1>8. CASE UNCHANGED writeVars
  <2>1. WriteTypeOK'
    BY <1>8, <1>t DEF writeVars, WriteTypeOK
  <2>2. TurnInv'
    BY <1>8, <1>t DEF writeVars, TurnInv, Chunk, MaxChunk
  <2> QED
    BY <2>1, <2>2 DEF AppendInv
<1> QED
  BY <1>1, <1>2, <1>3, <1>4, <1>5, <1>6, <1>7, <1>8 DEF WriteNext

\* Processes that share an open file append one after the other: in writei, the
\* inode lock keeps f->off still and the next byte goes where all others end.
THEOREM AppendsDoNotOverlap == FileWriteConstants => (WriteSpec => []AppendsInTurn)
<1> SUFFICES ASSUME FileWriteConstants PROVE WriteSpec => []AppendsInTurn
  OBVIOUS
<1>1. AppendInv /\ [WriteNext]_writeVars => AppendInv'
  BY AppendStep
<1>2. AppendInv => AppendsInTurn
  BY DEF AppendInv, TurnInv, AppendsInTurn
<1>3. WriteInit => AppendInv
  BY InitAppend
<1> QED
  BY <1>1, <1>2, <1>3, PTL DEF WriteSpec

-----------------------------------------------------------------------------
\* Counting.
LEMMA ReservationFacts ==
  ASSUME FileWriteConstants, ReservationCondition
  PROVE  /\ ChunkLen \in Nat \ {0} /\ ChunkLen + 5 <= MAXOPBLOCKS
         /\ MAXOPBLOCKS \in Nat /\ LOGSIZE \in Nat
<1>1. ChunkBlocks - 1 - 1 - 2 \in Nat /\ ChunkBlocks - 1 - 1 - 2 >= 2
  BY DEF FileWriteConstants, ReservationCondition
<1> DEFINE a == ChunkBlocks - 1 - 1 - 2
<1>a. a \in Int /\ a >= 2 /\ 2 \in Nat \ {0}
  BY <1>1
<1> HIDE DEF a
<1>2. a \div 2 \in Int /\ a % 2 \in 0..2-1 /\ a = 2 * (a \div 2) + (a % 2)
  BY <1>a, DivMod
<1>3. a \div 2 >= 1
  BY <1>a, <1>2
<1> QED
  BY <1>2, <1>3 DEF a, ChunkLen, FileWriteConstants, ReservationCondition

LEMMA UnionCount ==
  ASSUME NEW A, NEW S, IsFiniteSet(A), IsFiniteSet(S)
  PROVE  /\ IsFiniteSet(A \cup S) /\ IsFiniteSet(S \ A)
         /\ Cardinality(A \cup S) = Cardinality(A) + Cardinality(S \ A)
         /\ Cardinality(A) \in Nat /\ Cardinality(S \ A) \in Nat /\ Cardinality(A \cup S) \in Nat
<1> DEFINE D == S \ A
<1>1. IsFiniteSet(D) /\ Cardinality(A) \in Nat /\ Cardinality(D) \in Nat
  BY FS_Difference, FS_CardinalityType
<1>2. A \cup D = A \cup S /\ A \cap D = {}
  OBVIOUS
<1> HIDE DEF D
<1>3. IsFiniteSet(A \cup D) /\ Cardinality(A \cup D) = Cardinality(A) + Cardinality(D) - Cardinality({})
  BY <1>1, <1>2, FS_Union
<1>4. IsFiniteSet(A \cup S) /\ Cardinality(A \cup S) = Cardinality(A) + Cardinality(D)
  BY <1>1, <1>2, <1>3, FS_EmptySet
<1> QED
  BY <1>1, <1>4 DEF D

\* As many tokens as there are numbers from one to the other.
LEMMA Span ==
  ASSUME NEW p, NEW a \in Nat, NEW b \in Nat, a <= b
  PROVE  IsFiniteSet({p} \X (a+1..b)) /\ Cardinality({p} \X (a+1..b)) = b - a
<1>1. IsFiniteSet({p}) /\ Cardinality({p}) = 1
  BY FS_Singleton
<1>2. IsFiniteSet(a+1..b) /\ Cardinality(a+1..b) = IF a + 1 > b THEN 0 ELSE b - (a + 1) + 1
  BY FS_Interval
<1>3. Cardinality(a+1..b) = b - a
  BY <1>2
<1>4. /\ IsFiniteSet({p} \X (a+1..b))
      /\ Cardinality({p} \X (a+1..b)) = Cardinality({p}) * Cardinality(a+1..b)
  BY <1>1, <1>2, FS_Product
<1> QED
  BY <1>1, <1>3, <1>4

LEMMA TokensFinite ==
  ASSUME FileWriteConstants
  PROVE  /\ IsFiniteSet(Tokens) /\ Cardinality(Tokens) \in Nat
         /\ IsFiniteSet(Tokens') /\ Cardinality(Tokens') \in Nat
         /\ IsFiniteSet(Inside) /\ IsFiniteSet(Inside')
<1>1. IsFiniteSet(1..MAXOPBLOCKS)
  BY FS_Interval DEF FileWriteConstants
<1>2. IsFiniteSet(Procs \X (1..MAXOPBLOCKS)) /\ IsFiniteSet(Procs)
  BY <1>1, FS_Product DEF FileWriteConstants
<1>3. /\ Tokens \subseteq Procs \X (1..MAXOPBLOCKS) /\ Tokens' \subseteq Procs \X (1..MAXOPBLOCKS)
      /\ Inside \subseteq Procs /\ Inside' \subseteq Procs
  BY DEF Tokens, Inside
<1> QED
  BY <1>2, <1>3, FS_Subset, FS_CardinalityType

\* Whoever is inside holds the tokens that its reservation leaves it.
LEMMA TokensOf ==
  ASSUME NEW T, IsFiniteSet(T), NEW p, NEW c \in Nat, NEW max \in Nat, c <= max,
         {p} \X (c+1..max) \subseteq T
  PROVE  max - c <= Cardinality(T)
<1>1. Cardinality({p} \X (c+1..max)) = max - c
  BY Span
<1>2. Cardinality({p} \X (c+1..max)) <= Cardinality(T)
  BY FS_Subset
<1> QED
  BY <1>1, <1>2

-----------------------------------------------------------------------------
\* The blocks of a chunk.
LEMMA MultLess ==
  ASSUME NEW a \in Int, NEW b \in Int, NEW w \in Nat \ {0}, w * a < w * b
  PROVE  a < b
<1>1. w \in Int /\ w > 0
  OBVIOUS
<1> QED
  BY <1>1, Z3

LEMMA BlockInReach ==
  ASSUME NEW o \in Nat, NEW t \in Nat, NEW n \in Nat, NEW w \in Nat \ {0}, t < n * w
  PROVE  (o + t) \div w \in (o \div w)..(o \div w) + n
<1> DEFINE q == o \div w
           r == (o + t) \div w
<1>0. o \in Int /\ o + t \in Int
  OBVIOUS
<1>1. q \in Int /\ o % w \in 0..w-1 /\ o = w * q + (o % w)
  BY <1>0, DivMod
<1>2. r \in Int /\ (o + t) % w \in 0..w-1 /\ o + t = w * r + ((o + t) % w)
  <2> DEFINE a == o + t
  <2>1. a \in Int
    BY <1>0
  <2> HIDE DEF a
  <2>2. a \div w \in Int /\ a % w \in 0..w-1 /\ a = w * (a \div w) + (a % w)
    BY <2>1, DivMod
  <2> QED
    BY <2>2 DEF a
<1> HIDE DEF q, r
<1>3. w * q <= o /\ o < w * q + w /\ w * r <= o + t /\ o + t < w * r + w
  BY <1>1, <1>2
<1>4. w * (r + 1) = w * r + w /\ w * (q + 1 + n) = w * q + w + n * w
  BY <1>1, <1>2
<1>5. w * q \in Int /\ w * r \in Int /\ n * w \in Int
  BY <1>1, <1>2
<1>6. w * q < w * (r + 1) /\ w * r < w * (q + 1 + n)
  BY <1>3, <1>4, <1>5
<1>7. q < r + 1 /\ r < q + 1 + n
  BY <1>1, <1>2, <1>6, MultLess
<1>8. r \in q..q + n
  BY <1>1, <1>2, <1>7
<1> QED
  BY <1>8 DEF q, r

LEMMA DataCount ==
  ASSUME NEW f, NEW lo \in Int, NEW n \in Nat
  PROVE  LET D == {<<"data", f, bn>> : bn \in lo..lo + n}
         IN  IsFiniteSet(D) /\ Cardinality(D) <= n + 1
<1> DEFINE D == {<<"data", f, bn>> : bn \in lo..lo + n}
           g == [bn \in lo..lo + n |-> <<"data", f, bn>>]
<1>1. IsFiniteSet(lo..lo + n) /\ Cardinality(lo..lo + n) = n + 1
  <2>1. lo + n \in Int /\ ~(lo > lo + n) /\ lo + n - lo + 1 = n + 1
    OBVIOUS
  <2>2. /\ IsFiniteSet(lo..lo + n)
        /\ Cardinality(lo..lo + n) = IF lo > lo + n THEN 0 ELSE lo + n - lo + 1
    BY <2>1, FS_Interval
  <2> QED
    BY <2>1, <2>2
<1>2. g \in Surjection(lo..lo + n, D)
  BY DEF Surjection
<1>3. IsFiniteSet(D) /\ Cardinality(D) <= Cardinality(lo..lo + n)
  BY <1>1, <1>2, FS_Surjection
<1> QED
  BY <1>1, <1>3

LEMMA ReachCount ==
  ASSUME FileWriteConstants, ReservationCondition, WriteTypeOK, NEW p \in Procs
  PROVE  IsFiniteSet(Reach(p)) /\ Cardinality(Reach(p)) <= ChunkLen + 3
<1>1. off[FileOf[p]] \div BSIZE \in Int /\ ChunkLen \in Nat
  <2>1. off[FileOf[p]] \in Int /\ BSIZE \in Nat \ {0}
    BY FileOfType DEF WriteTypeOK, FileWriteConstants
  <2> QED
    BY <2>1, DivMod, ReservationFacts
<1>2. IsFiniteSet(DataBlocks(p)) /\ Cardinality(DataBlocks(p)) <= ChunkLen + 1
  BY <1>1, DataCount DEF DataBlocks
<1> DEFINE b == <<"bitmap", 0, 0>>
           i == <<"indirect", FileOf[p], 0>>
<1>3. Reach(p) = (DataBlocks(p) \cup {b}) \cup {i}
  BY DEF Reach
<1> HIDE DEF b, i
<1>4. Cardinality(DataBlocks(p)) \in Nat
  BY <1>2, FS_CardinalityType
<1>5. /\ IsFiniteSet(DataBlocks(p) \cup {b}) /\ Cardinality(DataBlocks(p) \cup {b}) \in Nat
      /\ Cardinality(DataBlocks(p) \cup {b}) <= ChunkLen + 2
  BY <1>1, <1>2, <1>4, FS_AddElement, FS_CardinalityType
<1>6. /\ IsFiniteSet((DataBlocks(p) \cup {b}) \cup {i})
      /\ Cardinality((DataBlocks(p) \cup {b}) \cup {i}) <= ChunkLen + 3
  BY <1>1, <1>5, FS_AddElement
<1> QED
  BY <1>3, <1>6

\* What a turn of the loop logs lies within reach.
LEMMA TurnInReach ==
  ASSUME FileWriteConstants, ReservationCondition, AppendInv, NEW p \in Procs, NEW isNew,
         wpc[p] = "writei", tot[p] < Chunk(p)
  PROVE  BlocksFor(FileOf[p], (off[FileOf[p]] + tot[p]) \div BSIZE, isNew) \subseteq Reach(p)
<1> DEFINE f == FileOf[p]
           bn == (off[f] + tot[p]) \div BSIZE
<1>1. off[f] \in Nat /\ tot[p] \in Nat /\ BSIZE \in Nat \ {0} /\ ChunkLen \in Nat
  BY FileOfType, ReservationFacts DEF AppendInv, WriteTypeOK, FileWriteConstants
<1>2. tot[p] < ChunkLen * BSIZE
  BY <1>1, ChunkFacts DEF AppendInv
<1>3. bn \in (off[f] \div BSIZE)..(off[f] \div BSIZE) + ChunkLen
  BY <1>1, <1>2, BlockInReach
<1> HIDE DEF bn
<1>4. <<"data", f, bn>> \in Reach(p)
  BY <1>3 DEF Reach, DataBlocks
<1>5. BlocksFor(f, bn, isNew) \subseteq {<<"data", f, bn>>, <<"bitmap", 0, 0>>, <<"indirect", f, 0>>}
  BY DEF BlocksFor
<1>6. <<"bitmap", 0, 0>> \in Reach(p) /\ <<"indirect", f, 0>> \in Reach(p)
  BY DEF Reach
<1>7. BlocksFor(f, bn, isNew) \subseteq Reach(p)
  BY <1>4, <1>5, <1>6
<1> QED
  BY <1>7 DEF bn

-----------------------------------------------------------------------------
\* Taking n tokens away, when n blocks are new to the process.
LEMMA LogWritesReserve ==
  ASSUME FileWriteConstants, ReservationCondition, WriteInv,
         NEW p \in Procs, p \in Inside, Inside' = Inside,
         NEW S, IsFiniteSet(S), NEW fresh, LogWrites(p, S, fresh),
         Cardinality(touched[p] \cup S) <= MAXOPBLOCKS
  PROVE  /\ IsFiniteSet(logged')
         /\ touched' \in [Procs -> SUBSET logged']
         /\ Cardinality(logged') + Cardinality(Tokens') <= LOGSIZE
         /\ MAXOPBLOCKS - Cardinality(touched[p]) <= Cardinality(Tokens)
         /\ MAXOPBLOCKS - Cardinality(touched[p] \cup S) <= Cardinality(Tokens')
<1> DEFINE A == touched[p]
           c == Cardinality(A)
           d == Cardinality(A \cup S)
<1>1. /\ IsFiniteSet(logged) /\ A \subseteq logged /\ MAXOPBLOCKS \in Nat /\ LOGSIZE \in Nat
      /\ touched \in [Procs -> SUBSET logged]
      /\ Cardinality(logged) + Cardinality(Tokens) <= LOGSIZE
  BY ReservationFacts DEF WriteInv, TouchedInv, SpaceInv
<1>2. IsFiniteSet(A)
  BY <1>1, FS_Subset
<1>3. /\ logged' = logged \cup S
      /\ touched' = [touched EXCEPT ![p] = A \cup S]
  BY DEF LogWrites
<1>4. touched'[p] = A \cup S /\ \A q \in Procs : q # p => touched'[q] = touched[q]
  BY <1>1, <1>3
<1>5. touched' \in [Procs -> SUBSET logged']
  BY <1>1, <1>3
<1>6. /\ IsFiniteSet(A \cup S) /\ IsFiniteSet(S \ A) /\ c \in Nat /\ d \in Nat
      /\ Cardinality(S \ A) \in Nat /\ d = c + Cardinality(S \ A)
  BY <1>2, UnionCount
<1>7. /\ IsFiniteSet(logged \cup S) /\ Cardinality(logged) \in Nat /\ Cardinality(S \ logged) \in Nat
      /\ Cardinality(logged \cup S) = Cardinality(logged) + Cardinality(S \ logged)
  BY <1>1, UnionCount
<1>8. Cardinality(S \ logged) <= Cardinality(S \ A)
  <2>1. S \ logged \subseteq S \ A
    BY <1>1
  <2> QED
    BY <2>1, <1>6, FS_Subset
<1> HIDE DEF A, c, d
<1>9. c <= d /\ d <= MAXOPBLOCKS
  BY <1>6 DEF A, d
<1> DEFINE Used == {p} \X (c+1..d)
<1>10. IsFiniteSet(Used) /\ Cardinality(Used) = d - c
  BY <1>6, <1>9, Span
<1>11. Used \subseteq Tokens
  <2>1. \A t \in Used : t[1] = p /\ t[2] \in c+1..d /\ t = <<p, t[2]>>
    OBVIOUS
  <2>2. \A i \in c+1..d : i \in 1..MAXOPBLOCKS /\ i > c
    BY <1>1, <1>6, <1>9
  <2> HIDE DEF Used
  <2>3. \A t \in Used : t \in Procs \X (1..MAXOPBLOCKS)
    BY <2>1, <2>2
  <2> QED
    BY <2>1, <2>2, <2>3 DEF Tokens, c, A
<1>12. Tokens' \subseteq Tokens \ Used
  <2> SUFFICES ASSUME NEW t \in Tokens' PROVE t \in Tokens /\ t \notin Used
    OBVIOUS
  <2>1. /\ t \in Procs \X (1..MAXOPBLOCKS) /\ t[1] \in Inside
        /\ t[2] > Cardinality(touched'[t[1]])
    BY DEF Tokens
  <2>2. CASE t[1] = p
    <3>1. t[2] > d /\ t[2] \in Int
      BY <2>1, <2>2, <1>4 DEF d
    <3>2. t[2] > c
      BY <3>1, <1>6, <1>9
    <3>3. t \in Tokens
      BY <2>1, <2>2, <3>2 DEF Tokens, c, A
    <3>4. t \notin Used
      BY <3>1, <1>6
    <3> QED
      BY <3>3, <3>4
  <2>3. CASE t[1] # p
    <3>1. t \in Tokens
      BY <2>1, <2>3, <1>4 DEF Tokens
    <3>2. t \notin Used
      BY <2>3
    <3> QED
      BY <3>1, <3>2
  <2> QED
    BY <2>2, <2>3
<1>13. Cardinality(Tokens') <= Cardinality(Tokens) - (d - c)
  <2> HIDE DEF Used
  <2>1. Tokens \cap Used = Used
    BY <1>11
  <2>2. /\ IsFiniteSet(Tokens \ Used)
        /\ Cardinality(Tokens \ Used) = Cardinality(Tokens) - Cardinality(Tokens \cap Used)
    BY TokensFinite, FS_Difference
  <2>3. Cardinality(Tokens') <= Cardinality(Tokens \ Used)
    BY <2>2, <1>12, FS_Subset
  <2> QED
    BY <2>1, <2>2, <2>3, <1>10
<1> HIDE DEF Used
<1>14. Cardinality(logged') + Cardinality(Tokens') <= LOGSIZE
  BY <1>1, <1>3, <1>6, <1>7, <1>8, <1>13, TokensFinite
<1>15. MAXOPBLOCKS - c <= Cardinality(Tokens)
  <2>1. {p} \X (c+1..MAXOPBLOCKS) \subseteq Tokens
    BY <1>1, <1>6 DEF Tokens, c, A
  <2>2. c <= MAXOPBLOCKS
    BY <1>1, <1>6, <1>9
  <2> QED
    BY <2>1, <2>2, <1>1, <1>6, TokensFinite, TokensOf
<1>16. MAXOPBLOCKS - d <= Cardinality(Tokens')
  <2>1. {p} \X (d+1..MAXOPBLOCKS) \subseteq Tokens'
    <3>1. \A i \in d+1..MAXOPBLOCKS : i \in 1..MAXOPBLOCKS /\ i > d
      BY <1>1, <1>6
    <3>2. Cardinality(touched'[p]) = d
      BY <1>4 DEF d
    <3> QED
      BY <3>1, <3>2 DEF Tokens
  <2> QED
    BY <2>1, <1>1, <1>6, <1>9, TokensFinite, TokensOf
<1> QED
  BY <1>3, <1>5, <1>7, <1>14, <1>15, <1>16 DEF A, c, d

-----------------------------------------------------------------------------
\* Where a process may write depends on the offset of its file alone.
LEMMA ReachSame ==
  ASSUME NEW p \in Procs, off'[FileOf[p]] = off[FileOf[p]]
  PROVE  Reach(p)' = Reach(p)
BY DEF Reach, DataBlocks

\* The log is as full as before, and the same processes are inside.
LEMMA QuietSpace ==
  ASSUME WriteInv, UNCHANGED <<logged, touched, outstanding, panicked>>, Inside' = Inside
  PROVE  SpaceInv'
<1>1. Tokens' = Tokens
  BY DEF Tokens
<1> QED
  BY <1>1 DEF WriteInv, SpaceInv

LEMMA AdmitSpace ==
  ASSUME FileWriteConstants, ReservationCondition, WriteInv, NEW p \in Procs, BeginOp(p)
  PROVE  SpaceInv'
<1>1. /\ IsFiniteSet(logged) /\ outstanding = Cardinality(Inside) /\ ~panicked
      /\ wpc \in [Procs -> PCs] /\ MAXOPBLOCKS \in Nat \ {0} /\ LOGSIZE \in Nat
  BY ReservationFacts DEF WriteInv, SpaceInv, AppendInv, WriteTypeOK
<1>2. /\ Cardinality(logged) + (outstanding + 1) * MAXOPBLOCKS <= LOGSIZE
      /\ outstanding' = outstanding + 1 /\ logged' = logged /\ panicked' = panicked
      /\ wpc[p] = "begin" /\ wpc' = [wpc EXCEPT ![p] = "ilock"]
  BY DEF BeginOp
<1>3. Inside' = Inside \cup {p} /\ p \notin Inside
  BY <1>1, <1>2 DEF Inside
<1>4. IsFiniteSet(Inside) /\ IsFiniteSet(Inside') /\ Cardinality(Inside) \in Nat
  BY TokensFinite, FS_CardinalityType
<1>5. Cardinality(Inside') = outstanding + 1
  BY <1>1, <1>3, <1>4, FS_AddElement
<1>6. IsFiniteSet(1..MAXOPBLOCKS) /\ Cardinality(1..MAXOPBLOCKS) = MAXOPBLOCKS
  <2>1. /\ IsFiniteSet(1..MAXOPBLOCKS)
        /\ Cardinality(1..MAXOPBLOCKS) = IF 1 > MAXOPBLOCKS THEN 0 ELSE MAXOPBLOCKS - 1 + 1
    BY <1>1, FS_Interval
  <2> QED
    BY <1>1, <2>1
<1>7. /\ IsFiniteSet(Inside' \X (1..MAXOPBLOCKS))
      /\ Cardinality(Inside' \X (1..MAXOPBLOCKS)) = (outstanding + 1) * MAXOPBLOCKS
  <2>1. /\ IsFiniteSet(Inside' \X (1..MAXOPBLOCKS))
        /\ Cardinality(Inside' \X (1..MAXOPBLOCKS)) = Cardinality(Inside') * Cardinality(1..MAXOPBLOCKS)
    BY <1>4, <1>6, FS_Product
  <2> QED
    BY <1>5, <1>6, <2>1
<1>8. Tokens' \subseteq Inside' \X (1..MAXOPBLOCKS)
  BY DEF Tokens
<1>9. Cardinality(Tokens') <= (outstanding + 1) * MAXOPBLOCKS
  BY <1>7, <1>8, FS_Subset
<1>10. Cardinality(logged) \in Nat /\ (outstanding + 1) * MAXOPBLOCKS \in Nat
  BY <1>1, <1>4, FS_CardinalityType
<1>11. Cardinality(logged') + Cardinality(Tokens') <= LOGSIZE
  BY <1>1, <1>2, <1>9, <1>10, TokensFinite
<1> QED
  BY <1>1, <1>2, <1>5, <1>11 DEF SpaceInv

LEMMA EndSpace ==
  ASSUME FileWriteConstants, ReservationCondition, WriteInv, NEW p \in Procs, EndOp(p)
  PROVE  TouchedInv' /\ SpaceInv'
<1>1. /\ IsFiniteSet(logged) /\ outstanding = Cardinality(Inside) /\ ~panicked
      /\ Cardinality(logged) + Cardinality(Tokens) <= LOGSIZE
      /\ touched \in [Procs -> SUBSET logged] /\ tot \in [Procs -> Nat]
      /\ wpc \in [Procs -> PCs] /\ MAXOPBLOCKS \in Nat \ {0} /\ LOGSIZE \in Nat
  BY ReservationFacts DEF WriteInv, SpaceInv, TouchedInv, AppendInv, WriteTypeOK
<1>2. /\ outstanding' = outstanding - 1 /\ panicked' = panicked /\ off' = off
      /\ logged' = IF outstanding' = 0 THEN {} ELSE logged
      /\ touched' = [touched EXCEPT ![p] = {}]
      /\ wpc[p] = "end" /\ (wpc' = [wpc EXCEPT ![p] = "begin"] \/ wpc' = [wpc EXCEPT ![p] = "idle"])
  BY DEF EndOp
<1>3. Inside' = Inside \ {p} /\ p \in Inside
  BY <1>1, <1>2 DEF Inside
<1>4. IsFiniteSet(Inside) /\ IsFiniteSet(Inside') /\ Cardinality(Inside) \in Nat
  BY TokensFinite, FS_CardinalityType
<1>5. Cardinality(Inside') = outstanding'
  BY <1>1, <1>2, <1>3, <1>4, FS_RemoveElement
<1>6. outstanding' = 0 => Inside' = {}
  BY <1>4, <1>5, FS_EmptySet
<1>7. \A q \in Procs : q \notin Inside' => touched'[q] = {}
  BY <1>1, <1>2, <1>3 DEF WriteInv, TouchedInv, Inside, PCs
<1>8. touched' \in [Procs -> SUBSET logged']
  <2>1. ASSUME NEW q \in Procs
        PROVE  touched'[q] \subseteq logged'
    <3>1. CASE q \in Inside'
      BY <3>1, <1>1, <1>2, <1>3, <1>6
    <3>2. CASE q \notin Inside'
      BY <3>2, <1>7
    <3> QED
      BY <3>1, <3>2
  <2>2. touched' = [q \in Procs |-> touched'[q]]
    BY <1>1, <1>2
  <2> QED
    BY <2>1, <2>2
<1>9. \A q \in Procs : Reach(q)' = Reach(q)
  BY <1>2, ReachSame
<1>10. TouchedInv'
  <2>1. \A q \in Procs : q # p => wpc'[q] = wpc[q] /\ touched'[q] = touched[q]
    BY <1>1, <1>2
  <2>2. touched'[p] = {} /\ wpc'[p] \in {"idle", "begin"}
    BY <1>1, <1>2
  <2> QED
    BY <1>8, <1>9, <2>1, <2>2 DEF WriteInv, TouchedInv
<1>11. Tokens' \subseteq Tokens
  BY <1>1, <1>2, <1>3 DEF Tokens
<1>12. Cardinality(Tokens') <= Cardinality(Tokens)
  BY <1>11, TokensFinite, FS_Subset
<1>13. IsFiniteSet(logged') /\ Cardinality(logged') <= Cardinality(logged)
       /\ Cardinality(logged) \in Nat /\ Cardinality(logged') \in Nat
  <2>1. logged' \subseteq logged
    BY <1>2
  <2> QED
    BY <1>1, <2>1, FS_Subset, FS_CardinalityType
<1>14. Cardinality(logged') + Cardinality(Tokens') <= LOGSIZE
  BY <1>1, <1>12, <1>13, TokensFinite
<1> QED
  BY <1>1, <1>2, <1>5, <1>10, <1>13, <1>14 DEF SpaceInv

\* A turn of writei's loop stays within reach, so it keeps the reservation, and
\* with it the log, from the last entry.
LEMMA BlockSpace ==
  ASSUME FileWriteConstants, ReservationCondition, WriteInv, NEW p \in Procs, WriteBlock(p)
  PROVE  TouchedInv' /\ SpaceInv'
<1>a. AppendInv /\ WriteTypeOK /\ TouchedInv /\ SpaceInv
  BY DEF WriteInv, AppendInv
<1> DEFINE isNew == (off[FileOf[p]] + tot[p]) % BSIZE = 0
           S == BlocksFor(FileOf[p], (off[FileOf[p]] + tot[p]) \div BSIZE, isNew)
           fresh == ~isNew /\ S \cap logged = {}
<1>1. /\ wpc[p] = "writei" /\ tot[p] < Chunk(p)
      /\ LogWrites(p, S, fresh)
      /\ UNCHANGED <<off, outstanding, wpc>>
  BY DEF WriteBlock
<1>2. S \subseteq Reach(p) /\ touched[p] \subseteq Reach(p)
  BY <1>a, <1>1, TurnInReach DEF TouchedInv
<1> HIDE DEF S, fresh
<1>3. ChunkLen \in Nat /\ ChunkLen + 5 <= MAXOPBLOCKS /\ MAXOPBLOCKS \in Nat /\ LOGSIZE \in Nat
  BY ReservationFacts
<1>4. IsFiniteSet(Reach(p)) /\ Cardinality(Reach(p)) <= ChunkLen + 3 /\ Cardinality(Reach(p)) \in Nat
  BY <1>a, ReachCount, FS_CardinalityType
<1>5. /\ IsFiniteSet(S)
      /\ Cardinality(touched[p] \cup S) <= ChunkLen + 3 /\ Cardinality(touched[p] \cup S) \in Nat
      /\ Cardinality(touched[p]) <= ChunkLen + 3 /\ Cardinality(touched[p]) \in Nat
  <2>1. touched[p] \cup S \subseteq Reach(p)
    BY <1>2
  <2>2. /\ IsFiniteSet(S) /\ IsFiniteSet(touched[p]) /\ IsFiniteSet(touched[p] \cup S)
        /\ Cardinality(touched[p] \cup S) <= Cardinality(Reach(p))
        /\ Cardinality(touched[p]) <= Cardinality(Reach(p))
    BY <1>2, <1>4, <2>1, FS_Subset
  <2>3. Cardinality(touched[p] \cup S) \in Nat /\ Cardinality(touched[p]) \in Nat
    BY <2>2, FS_CardinalityType
  <2> QED
    BY <1>3, <1>4, <2>2, <2>3
<1>6. p \in Inside /\ Inside' = Inside
  BY <1>1 DEF Inside
<1>7. /\ IsFiniteSet(logged') /\ touched' \in [Procs -> SUBSET logged']
      /\ Cardinality(logged') + Cardinality(Tokens') <= LOGSIZE
      /\ MAXOPBLOCKS - Cardinality(touched[p]) <= Cardinality(Tokens)
      /\ MAXOPBLOCKS - Cardinality(touched[p] \cup S) <= Cardinality(Tokens')
  <2>1. Cardinality(touched[p] \cup S) <= MAXOPBLOCKS
    BY <1>3, <1>5
  <2> QED
    BY <2>1, <1>1, <1>5, <1>6, LogWritesReserve
<1>8. Cardinality(logged) \in Nat /\ Cardinality(logged') \in Nat
  BY <1>a, <1>7, FS_CardinalityType DEF SpaceInv
<1>9. ~panicked'
  <2>1. Cardinality(logged) + Cardinality(Tokens) <= LOGSIZE
    BY <1>a DEF SpaceInv
  <2>2. Cardinality(logged) < LogSize - 1 /\ Cardinality(logged') < LogSize - 1
    BY <1>3, <1>5, <1>7, <1>8, <2>1, TokensFinite DEF LogSize
  <2>3. panicked' = (Cardinality(IF fresh THEN logged ELSE logged') >= LogSize - 1)
    BY <1>1 DEF LogWrites
  <2>4. LogSize \in Int
    BY <1>3 DEF LogSize
  <2>5. ~(Cardinality(IF fresh THEN logged ELSE logged') >= LogSize - 1)
    BY <1>8, <2>2, <2>4
  <2> QED
    BY <2>3, <2>5
<1>10. SpaceInv'
  BY <1>a, <1>1, <1>6, <1>7, <1>9 DEF SpaceInv
<1>11. TouchedInv'
  <2>1. \A q \in Procs : q # p => touched'[q] = touched[q]
    BY <1>a, <1>1 DEF TouchedInv, LogWrites
  <2>2. touched'[p] = touched[p] \cup S
    BY <1>a, <1>1 DEF TouchedInv, LogWrites
  <2>3. \A q \in Procs : Reach(q)' = Reach(q)
    BY <1>1, ReachSame
  <2> QED
    BY <1>a, <1>1, <1>2, <1>7, <2>1, <2>2, <2>3 DEF TouchedInv
<1> QED
  BY <1>10, <1>11

\* The inode is the last block of a transaction.
LEMMA InodeSpace ==
  ASSUME FileWriteConstants, ReservationCondition, WriteInv, NEW p \in Procs, Iupdate(p)
  PROVE  TouchedInv' /\ SpaceInv'
<1>a. AppendInv /\ WriteTypeOK /\ TurnInv /\ TouchedInv /\ SpaceInv
  BY DEF WriteInv, AppendInv
<1> DEFINE i == <<"inode", FileOf[p], 0>>
<1>1. /\ wpc[p] = "writei" /\ wpc' = [wpc EXCEPT ![p] = "end"] /\ outstanding' = outstanding
      /\ LogWrites(p, {i}, i \notin logged)
      /\ off' = [off EXCEPT ![FileOf[p]] = @ + tot[p]]
  BY DEF Iupdate
<1> HIDE DEF i
<1>2. touched[p] \subseteq Reach(p)
  BY <1>a, <1>1 DEF TouchedInv
<1>3. ChunkLen \in Nat /\ ChunkLen + 5 <= MAXOPBLOCKS /\ MAXOPBLOCKS \in Nat /\ LOGSIZE \in Nat
  BY ReservationFacts
<1>4. /\ IsFiniteSet(touched[p]) /\ Cardinality(touched[p]) <= ChunkLen + 3
      /\ Cardinality(touched[p]) \in Nat
  <2>1. IsFiniteSet(Reach(p)) /\ Cardinality(Reach(p)) <= ChunkLen + 3 /\ Cardinality(Reach(p)) \in Nat
    BY <1>a, ReachCount, FS_CardinalityType
  <2>2. IsFiniteSet(touched[p]) /\ Cardinality(touched[p]) <= Cardinality(Reach(p))
    BY <2>1, <1>2, FS_Subset
  <2> QED
    BY <1>3, <2>1, <2>2, FS_CardinalityType
<1>5. /\ IsFiniteSet({i}) /\ Cardinality(touched[p] \cup {i}) \in Nat
      /\ Cardinality(touched[p] \cup {i}) <= ChunkLen + 4
  <2>1. IsFiniteSet({i})
    BY FS_Singleton
  <2>2. /\ IsFiniteSet(touched[p] \cup {i})
        /\ Cardinality(touched[p] \cup {i}) = IF i \in touched[p] THEN Cardinality(touched[p])
                                                                ELSE Cardinality(touched[p]) + 1
    BY <1>4, FS_AddElement
  <2> QED
    BY <1>3, <1>4, <2>1, <2>2
<1>6. p \in Inside /\ Inside' = Inside
  BY <1>1, <1>a DEF Inside, WriteTypeOK
<1>7. /\ IsFiniteSet(logged') /\ touched' \in [Procs -> SUBSET logged']
      /\ Cardinality(logged') + Cardinality(Tokens') <= LOGSIZE
      /\ MAXOPBLOCKS - Cardinality(touched[p]) <= Cardinality(Tokens)
  <2>1. Cardinality(touched[p] \cup {i}) <= MAXOPBLOCKS
    BY <1>3, <1>5
  <2> QED
    BY <2>1, <1>1, <1>5, <1>6, LogWritesReserve
<1>8. ~panicked'
  <2>1. Cardinality(logged) + Cardinality(Tokens) <= LOGSIZE /\ Cardinality(logged) \in Nat
    BY <1>a, FS_CardinalityType DEF SpaceInv
  <2>2. Cardinality(logged) < LogSize - 1 /\ LogSize \in Int
    BY <1>3, <1>4, <1>7, <2>1, TokensFinite DEF LogSize
  <2>3. /\ panicked' = (Cardinality(IF i \notin logged THEN logged ELSE logged') >= LogSize - 1)
        /\ logged' = logged \cup {i}
    BY <1>1 DEF LogWrites
  <2>4. (IF i \notin logged THEN logged ELSE logged') = logged
    BY <2>3
  <2>5. ~(Cardinality(logged) >= LogSize - 1)
    BY <2>1, <2>2
  <2> QED
    BY <2>3, <2>4, <2>5
<1>9. SpaceInv'
  BY <1>a, <1>1, <1>6, <1>7, <1>8 DEF SpaceInv
<1>10. TouchedInv'
  <2>1. \A q \in Procs : q # p => touched'[q] = touched[q] /\ wpc'[q] = wpc[q]
    BY <1>a, <1>1 DEF TouchedInv, LogWrites, WriteTypeOK
  <2>2. touched'[p] = touched[p] \cup {i} /\ wpc'[p] = "end"
    BY <1>a, <1>1 DEF TouchedInv, LogWrites, WriteTypeOK
  <2>3. ASSUME NEW q \in Procs, q # p, wpc[q] = "writei"
        PROVE  Reach(q)' = Reach(q)
    <3>1. FileOf[q] # FileOf[p]
      BY <2>3, <1>a, <1>1 DEF TurnInv
    <3>2. off'[FileOf[q]] = off[FileOf[q]]
      BY <3>1, <1>1, <1>a, FileOfType DEF WriteTypeOK
    <3> QED
      BY <3>2, ReachSame
  <2>4. \A q \in Procs : wpc'[q] = "writei" => touched'[q] \subseteq Reach(q)'
    BY <1>a, <2>1, <2>2, <2>3 DEF TouchedInv
  <2>5. \A q \in Procs : wpc'[q] = "end" => Cardinality(touched'[q]) <= ChunkLen + 4
    BY <1>a, <1>5, <2>1, <2>2 DEF TouchedInv
  <2>6. \A q \in Procs : wpc'[q] \in {"idle", "begin", "ilock"} => touched'[q] = {}
    BY <1>a, <2>1, <2>2 DEF TouchedInv
  <2> QED
    BY <1>7, <2>4, <2>5, <2>6 DEF TouchedInv
<1> QED
  BY <1>9, <1>10

LEMMA SpaceStep ==
  ASSUME FileWriteConstants, ReservationCondition, WriteInv, [WriteNext]_writeVars
  PROVE  TouchedInv' /\ SpaceInv'
<1>a. AppendInv /\ WriteTypeOK /\ TouchedInv
  BY DEF WriteInv, AppendInv
<1>1. ASSUME NEW p \in Procs, NEW n \in Counts, Write(p, n)
      PROVE  TouchedInv' /\ SpaceInv'
  <2>1. Inside' = Inside /\ UNCHANGED <<logged, touched, outstanding, panicked, off>>
    BY <1>1, <1>a DEF Write, Inside, WriteTypeOK
  <2>2. \A q \in Procs : Reach(q)' = Reach(q)
    BY <2>1, ReachSame
  <2>3. TouchedInv'
    BY <1>1, <1>a, <2>1, <2>2 DEF Write, TouchedInv, WriteTypeOK
  <2> QED
    BY <2>1, <2>3, QuietSpace
<1>2. ASSUME NEW p \in Procs, BeginOp(p)
      PROVE  TouchedInv' /\ SpaceInv'
  <2>1. \A q \in Procs : Reach(q)' = Reach(q)
    BY <1>2, ReachSame DEF BeginOp
  <2>2. TouchedInv'
    BY <1>2, <1>a, <2>1 DEF BeginOp, TouchedInv, WriteTypeOK
  <2> QED
    BY <1>2, <2>2, AdmitSpace
<1>3. ASSUME NEW p \in Procs, Ilock(p)
      PROVE  TouchedInv' /\ SpaceInv'
  <2>1. Inside' = Inside /\ UNCHANGED <<logged, touched, outstanding, panicked, off>>
    BY <1>3, <1>a DEF Ilock, Inside, WriteTypeOK
  <2>2. \A q \in Procs : Reach(q)' = Reach(q)
    BY <2>1, ReachSame
  <2>3. touched[p] = {} /\ wpc' = [wpc EXCEPT ![p] = "writei"]
    BY <1>3, <1>a DEF Ilock, TouchedInv
  <2>4. TouchedInv'
    BY <1>a, <2>1, <2>2, <2>3 DEF TouchedInv, WriteTypeOK
  <2> QED
    BY <2>1, <2>4, QuietSpace
<1>4. ASSUME NEW p \in Procs, WriteTooLarge(p)
      PROVE  TouchedInv' /\ SpaceInv'
  <2>1. Inside' = Inside /\ UNCHANGED <<logged, touched, outstanding, panicked, off>>
    BY <1>4, <1>a DEF WriteTooLarge, Inside, WriteTypeOK
  <2>2. \A q \in Procs : Reach(q)' = Reach(q)
    BY <2>1, ReachSame
  <2>3. touched[p] \subseteq Reach(p) /\ wpc' = [wpc EXCEPT ![p] = "end"]
    BY <1>4, <1>a DEF WriteTooLarge, TouchedInv
  <2>4. Cardinality(touched[p]) <= ChunkLen + 4
    <3>1. IsFiniteSet(Reach(p)) /\ Cardinality(Reach(p)) <= ChunkLen + 3 /\ Cardinality(Reach(p)) \in Nat
      BY <1>a, ReachCount, FS_CardinalityType
    <3>2. IsFiniteSet(touched[p]) /\ Cardinality(touched[p]) <= Cardinality(Reach(p))
      BY <3>1, <2>3, FS_Subset
    <3> QED
      BY <3>1, <3>2, ReservationFacts, FS_CardinalityType
  <2>5. TouchedInv'
    BY <1>a, <2>1, <2>2, <2>3, <2>4 DEF TouchedInv, WriteTypeOK
  <2> QED
    BY <2>1, <2>5, QuietSpace
<1>5. CASE UNCHANGED writeVars
  <2>1. Inside' = Inside /\ UNCHANGED <<logged, touched, outstanding, panicked, off, wpc>>
    BY <1>5 DEF writeVars, Inside
  <2>2. \A q \in Procs : Reach(q)' = Reach(q)
    BY <2>1, ReachSame
  <2>3. TouchedInv'
    BY <1>a, <2>1, <2>2 DEF TouchedInv
  <2> QED
    BY <2>1, <2>3, QuietSpace
<1> QED
  BY <1>1, <1>2, <1>3, <1>4, <1>5, BlockSpace, InodeSpace, EndSpace DEF WriteNext

LEMMA InitSpace ==
  ASSUME FileWriteConstants, WriteInit
  PROVE  TouchedInv /\ SpaceInv
<1>1. TouchedInv
  BY DEF WriteInit, TouchedInv
<1>2. Inside = {} /\ Tokens = {}
  BY DEF WriteInit, Inside, Tokens
<1>3. SpaceInv
  BY <1>2, FS_EmptySet DEF WriteInit, SpaceInv, FileWriteConstants
<1> QED
  BY <1>1, <1>3

\* The chunks of filewrite keep the promise of its comment, for every size that
\* meets ReservationCondition, every number of writers and every interleaving:
\* no transaction writes more than it reserved, and the log never overflows.
THEOREM ChunksFitLog == FileWriteConstants /\ ReservationCondition => (WriteSpec => []LogHoldsWrites)
<1> SUFFICES ASSUME FileWriteConstants, ReservationCondition PROVE WriteSpec => []LogHoldsWrites
  OBVIOUS
<1>1. WriteInv /\ [WriteNext]_writeVars => WriteInv'
  BY AppendStep, SpaceStep DEF WriteInv
<1>2. WriteInit => WriteInv
  BY InitAppend, InitSpace DEF WriteInv
<1>3. ASSUME WriteInv
      PROVE  LogHoldsWrites
  <2>1. ASSUME NEW p \in Procs
        PROVE  Cardinality(touched[p]) <= MAXOPBLOCKS
    <3>1. ChunkLen \in Nat /\ ChunkLen + 5 <= MAXOPBLOCKS /\ MAXOPBLOCKS \in Nat
      BY ReservationFacts
    <3>2. IsFiniteSet(touched[p]) /\ Cardinality(touched[p]) \in Nat
      BY <1>3, FS_Subset, FS_CardinalityType DEF WriteInv, TouchedInv, SpaceInv
    <3>3. CASE wpc[p] = "writei"
      <4>1. /\ IsFiniteSet(Reach(p)) /\ Cardinality(Reach(p)) <= ChunkLen + 3
            /\ Cardinality(Reach(p)) \in Nat
        BY <1>3, ReachCount, FS_CardinalityType DEF WriteInv, AppendInv
      <4>2. Cardinality(touched[p]) <= Cardinality(Reach(p))
        BY <1>3, <3>3, <4>1, FS_Subset DEF WriteInv, TouchedInv
      <4> QED
        BY <3>1, <3>2, <4>1, <4>2
    <3>4. CASE wpc[p] = "end"
      BY <1>3, <3>1, <3>2, <3>4 DEF WriteInv, TouchedInv
    <3>5. CASE wpc[p] \notin {"writei", "end"}
      <4>1. touched[p] = {}
        BY <1>3, <3>5 DEF WriteInv, TouchedInv, AppendInv, WriteTypeOK, PCs
      <4> QED
        BY <3>1, <4>1, FS_EmptySet
    <3> QED
      BY <3>3, <3>4, <3>5
  <2> QED
    BY <1>3, <2>1 DEF LogHoldsWrites, WithinReservation, NoPanic, WriteInv, SpaceInv
<1> QED
  BY <1>1, <1>2, <1>3, PTL DEF WriteSpec

\* Labs 1 and 4 compute the chunk from MAXOPBLOCKS itself; then a reservation of
\* six blocks or more is enough.
LEMMA OwnReservation ==
  ASSUME MAXOPBLOCKS \in Nat, MAXOPBLOCKS >= 6, ChunkBlocks = MAXOPBLOCKS
  PROVE  ReservationCondition
<1> DEFINE a == ChunkBlocks - 1 - 1 - 2
<1>1. a \in Int /\ 2 \in Nat \ {0} /\ a = MAXOPBLOCKS - 4
  OBVIOUS
<1> HIDE DEF a
<1>2. a \div 2 \in Int /\ a % 2 \in 0..2-1 /\ a = 2 * (a \div 2) + (a % 2)
  BY <1>1, DivMod
<1>3. a \div 2 + 5 <= MAXOPBLOCKS
  BY <1>1, <1>2
<1> QED
  BY <1>3 DEF a, ReservationCondition, ChunkLen
=============================================================================
