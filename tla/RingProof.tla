----------------------------- MODULE RingProof -----------------------------
(***************************************************************************)
(* Proofs about the two ring buffers, Pipe and Console.  A pipe: the page  *)
(* is freed with the last end and not before; whoever sleeps has somebody  *)
(* who will wake him; the wrapping counters implement ByteStream, for any  *)
(* number of readers and writers and any size of buffer.  The console: the *)
(* lines come out as they were typed, a reader of a full or a finished     *)
(* line is awake, and the history stays on its rows.                       *)
(***************************************************************************)
EXTENDS Pipe, Console, SequenceTheorems, WellFoundedInduction, FiniteSetTheorems, TLAPS

\* What the counters of pipe.c rely on: 512 divides 2^32, and is smaller.  A
\* process holds one of the two ends.
PipeConstants ==
  /\ Readers \cap Writers = {} /\ Readers # {} /\ Writers # {}
  /\ MaxCount \in Nat
  /\ Wrap \in Nat /\ PIPESIZE \in 1..Wrap-1 /\ Wrap % PIPESIZE = 0

-----------------------------------------------------------------------------
\* Division with remainder
LEMMA DivMod ==
  ASSUME NEW v \in Int, NEW x \in Int, v > 0
  PROVE  x % v \in 0..v-1 /\ x \div v \in Int /\ x = v * (x \div v) + (x % v)
<1>1. x % v \in 0..v-1 /\ x \div v \in Int
  OBVIOUS
<1>2. x = v * (x \div v) + (x % v)
  BY Z3
<1> QED
  BY <1>1, <1>2

LEMMA UniqueQuotient ==
  ASSUME NEW v \in Nat \ {0}, NEW q \in Int, NEW s \in Int,
         NEW g \in 0..v-1, NEW t \in 0..v-1, v * q + g = v * s + t
  PROVE  q = s /\ g = t
<1>1. ASSUME NEW a \in Int, NEW b \in Int, NEW c \in 0..v-1, NEW d \in 0..v-1,
             v * a + c = v * b + d
      PROVE  ~(a < b)
  <2> SUFFICES ASSUME a < b PROVE FALSE
    OBVIOUS
  <2>1. b = a + 1 + (b - a - 1) /\ b - a - 1 \in Nat
    OBVIOUS
  <2>2. v * b = v * a + v + v * (b - a - 1) /\ v * (b - a - 1) >= 0
    BY <2>1
  <2> QED
    BY <1>1, <2>2
<1>2. ~(q < s) /\ ~(s < q)
  BY <1>1
<1> QED
  BY <1>2

LEMMA ModIs ==
  ASSUME NEW v \in Nat \ {0}, NEW q \in Int, NEW g \in 0..v-1
  PROVE  (v * q + g) % v = g
<1> DEFINE x == v * q + g
<1>1. x \in Int
  OBVIOUS
<1> HIDE DEF x
<1>2. x = v * (x \div v) + (x % v) /\ x % v \in 0..v-1 /\ x \div v \in Int
  BY <1>1, DivMod
<1>3. v * q + g = v * (x \div v) + (x % v)
  BY <1>2 DEF x
<1>4. x % v = g
  BY <1>2, <1>3, UniqueQuotient
<1> QED
  BY <1>4 DEF x

\* Multiples of the modulus do not count.
LEMMA ModPlus ==
  ASSUME NEW v \in Nat \ {0}, NEW x \in Int, NEW q \in Int
  PROVE  (x + v * q) % v = x % v
<1> DEFINE d == x \div v
           m == x % v
<1>1. x = v * d + m /\ m \in 0..v-1 /\ d \in Int
  BY DivMod
<1> HIDE DEF d, m
<1>2. d + q \in Int /\ v * (d + q) = v * d + v * q /\ v * d \in Int /\ v * q \in Int
  BY <1>1
<1>3. x + v * q = v * (d + q) + m
  BY <1>1, <1>2
<1>4. (v * (d + q) + m) % v = m
  BY <1>1, <1>2, ModIs
<1> QED
  BY <1>3, <1>4 DEF m

\* Less than one turn apart, two places of the ring differ.
LEMMA ModWindow ==
  ASSUME NEW v \in Nat \ {0}, NEW x \in Int, NEW y \in Int, x < y, y < x + v
  PROVE  x % v # y % v
<1> SUFFICES ASSUME x % v = y % v PROVE FALSE
  OBVIOUS
<1> DEFINE a == x \div v
           b == y \div v
           m == x % v
<1>1. x = v * a + m /\ y = v * b + m /\ m \in 0..v-1 /\ a \in Int /\ b \in Int
  BY DivMod
<1> HIDE DEF a, b, m
<1>2. v * b + 0 = v * a + (y - x)
  BY <1>1
<1>3. y - x \in 0..v-1 /\ 0 \in 0..v-1
  OBVIOUS
<1>4. y - x = 0
  BY <1>1, <1>2, <1>3, UniqueQuotient
<1> QED
  BY <1>4

-----------------------------------------------------------------------------
\* The counters, which wrap at 2^32
LEMMA SizeFacts ==
  ASSUME PipeConstants
  PROVE  PIPESIZE \in Nat \ {0} /\ Wrap \in Nat \ {0} /\ PIPESIZE < Wrap
BY DEF PipeConstants

LEMMA CountForward ==
  ASSUME PipeConstants, NEW a \in 0..Wrap-1, NEW k \in 0..PIPESIZE
  PROVE  (a + k) % Wrap = IF a + k < Wrap THEN a + k ELSE a + k - Wrap
<1>1. CASE a + k < Wrap
  <2>1. (Wrap * 0 + (a + k)) % Wrap = a + k
    <3>1. Wrap \in Nat \ {0} /\ 0 \in Int /\ a + k \in 0..Wrap-1
      BY <1>1, SizeFacts
    <3> QED
      BY ONLY <3>1, ModIs
  <2> QED
    BY <1>1, <2>1, SizeFacts
<1>2. CASE ~(a + k < Wrap)
  <2>1. a + k - Wrap \in 0..Wrap-1
    BY <1>2, SizeFacts
  <2>2. (Wrap * 1 + (a + k - Wrap)) % Wrap = a + k - Wrap
    BY <2>1, SizeFacts, ModIs
  <2> QED
    BY <1>2, <2>2, SizeFacts
<1> QED
  BY <1>1, <1>2

LEMMA CountBetween ==
  ASSUME PipeConstants, NEW a \in 0..Wrap-1, NEW b \in 0..Wrap-1
  PROVE  (b - a) % Wrap = IF a <= b THEN b - a ELSE b - a + Wrap
<1>1. CASE a <= b
  <2>1. (Wrap * 0 + (b - a)) % Wrap = b - a
    BY <1>1, SizeFacts, ModIs
  <2> QED
    BY <1>1, <2>1, SizeFacts
<1>2. CASE ~(a <= b)
  <2>1. b - a + Wrap \in 0..Wrap-1
    BY <1>2, SizeFacts
  <2>2. (Wrap * (-1) + (b - a + Wrap)) % Wrap = b - a + Wrap
    BY <2>1, SizeFacts, ModIs
  <2> QED
    BY <1>2, <2>2, SizeFacts
<1> QED
  BY <1>1, <1>2

\* The wrapping of a counter does not show in the ring.
LEMMA WrapHidden ==
  ASSUME PipeConstants, NEW a \in 0..Wrap-1, NEW k \in 0..PIPESIZE, NEW i \in Int
  PROVE  (((a + k) % Wrap) + i) % PIPESIZE = (a + k + i) % PIPESIZE
<1>1. CASE a + k < Wrap
  BY <1>1, CountForward
<1>2. CASE ~(a + k < Wrap)
  <2> DEFINE m == Wrap \div PIPESIZE
  <2>1. Wrap = PIPESIZE * m /\ m \in Int
    BY SizeFacts, DivMod DEF PipeConstants
  <2> HIDE DEF m
  <2>2. ((a + k) % Wrap) + i = a + k + i + PIPESIZE * (-m)
    <3>1. (a + k) % Wrap = a + k - Wrap
      BY <1>2, CountForward
    <3>2. PIPESIZE * (-m) = 0 - Wrap
      BY <2>1, SizeFacts
    <3> QED
      BY <2>1, <3>1, <3>2, SizeFacts
  <2>3. (a + k + i + PIPESIZE * (-m)) % PIPESIZE = (a + k + i) % PIPESIZE
    <3>1. PIPESIZE \in Nat \ {0} /\ a + k + i \in Int /\ -m \in Int
      BY <2>1, SizeFacts
    <3> QED
      BY <3>1, ModPlus
  <2> QED
    BY <2>2, <2>3
<1> QED
  BY <1>1, <1>2

-----------------------------------------------------------------------------
\* The inductive invariant
Places == {"idle", "closed", "write", "wgap", "wasleep", "read", "rgap", "rasleep"}

PipeTypeOK ==
  /\ data \in [0..PIPESIZE-1 -> Bytes]
  /\ nread \in 0..Wrap-1 /\ nwrite \in 0..Wrap-1
  /\ readopen \in BOOLEAN /\ writeopen \in BOOLEAN /\ freed \in BOOLEAN
  /\ pc \in [Users -> Places]
  /\ left \in [Users -> 0..MaxCount]
  /\ killed \in [Users -> BOOLEAN]

\* Who is in pipewrite has the write end, who is in piperead the read end, and
\* both have bytes left to move.
SideInv ==
  \A p \in Users :
    /\ pc[p] \in {"write", "wgap", "wasleep"} => p \in Writers /\ left[p] > 0
    /\ pc[p] \in {"read", "rgap", "rasleep"} => p \in Readers /\ left[p] > 0

\* No byte is overwritten before it is read.
RingInv == Used <= PIPESIZE

PipeInv ==
  /\ PipeTypeOK
  /\ SideInv
  /\ RingInv
  /\ FreedWhenClosed
  /\ SleepersHaveCause

LEMMA TurnFull ==
  ASSUME NEW v \in Nat, NEW size \in Nat, size < v, NEW g \in 0..v-1, NEW u \in Int, u >= 0,
         u <= size, NEW a \in Int, a = IF g + u < v THEN g + u ELSE g + u - v
  PROVE  a = (IF g + size < v THEN g + size ELSE g + size - v) <=> u = size
<1>1. CASE g + u < v
  BY <1>1
<1>2. CASE ~(g + u < v)
  BY <1>2
<1> QED
  BY <1>1, <1>2

USE DEF Places

\* How the counters, the flags and the sleepers see the same ring.
LEMMA RingFacts ==
  ASSUME PipeConstants, PipeTypeOK
  PROVE  /\ Used \in 0..Wrap-1
         /\ nwrite = IF nread + Used < Wrap THEN nread + Used ELSE nread + Used - Wrap
         /\ Empty <=> Used = 0
         /\ RingInv => (Full <=> Used = PIPESIZE)
<1>1. nread \in 0..Wrap-1 /\ nwrite \in 0..Wrap-1
  BY DEF PipeTypeOK
<1>2. Used = IF nread <= nwrite THEN nwrite - nread ELSE nwrite - nread + Wrap
  BY <1>1, CountBetween DEF Used
<1>3. PIPESIZE \in 0..PIPESIZE
  BY SizeFacts
<1>4. (nread + PIPESIZE) % Wrap =
        IF nread + PIPESIZE < Wrap THEN nread + PIPESIZE ELSE nread + PIPESIZE - Wrap
  BY <1>1, <1>3, CountForward
<1>5. Empty <=> Used = 0
  BY <1>1, <1>2, SizeFacts DEF Empty
<1>6. Used \in 0..Wrap-1
  BY <1>1, <1>2, SizeFacts
<1>7. nwrite = IF nread + Used < Wrap THEN nread + Used ELSE nread + Used - Wrap
  BY <1>1, <1>2, SizeFacts
<1>8. RingInv => (Full <=> Used = PIPESIZE)
  <2>1. Used \in Int /\ Used >= 0 /\ nwrite \in Int
    BY <1>1, <1>6, SizeFacts
  <2>2. PIPESIZE \in Nat /\ Wrap \in Nat /\ PIPESIZE < Wrap
    BY SizeFacts
  <2>3. Used <= PIPESIZE => (nwrite = (nread + PIPESIZE) % Wrap <=> Used = PIPESIZE)
    BY <1>1, <1>4, <1>7, <2>1, <2>2, TurnFull
  <2> QED
    BY <2>3 DEF Full, RingInv
<1> QED
  BY <1>5, <1>6, <1>7, <1>8

LEMMA TurnForward ==
  ASSUME NEW v \in Nat, NEW size \in Nat, size < v, NEW g \in 0..v-1, NEW u \in Int, u >= 0,
         NEW k \in Int, k >= 0, u + k <= size, NEW a \in Int, NEW b \in Int,
         a = IF g + u < v THEN g + u ELSE g + u - v,
         b = IF a + k < v THEN a + k ELSE a + k - v
  PROVE  u + k = IF g <= b THEN b - g ELSE b - g + v
<1>1. CASE g + u < v
  BY <1>1
<1>2. CASE ~(g + u < v)
  BY <1>2
<1> QED
  BY <1>1, <1>2

LEMMA TurnAfter ==
  ASSUME NEW v \in Nat, NEW size \in Nat, size < v, NEW g \in 0..v-1, NEW u \in Int, u <= size,
         NEW k \in Int, k >= 0, k <= u, NEW a \in Int, NEW b \in Int,
         a = IF g + u < v THEN g + u ELSE g + u - v,
         b = IF g + k < v THEN g + k ELSE g + k - v
  PROVE  u - k = IF b <= a THEN a - b ELSE a - b + v
<1>1. CASE g + u < v
  BY <1>1
<1>2. CASE ~(g + u < v)
  BY <1>2
<1> QED
  BY <1>1, <1>2

\* The same of the state after a step.
LEMMA RingFactsNext ==
  PipeConstants => (PipeTypeOK' =>
    /\ Used' \in 0..Wrap-1
    /\ Empty' <=> Used' = 0
    /\ RingInv' => (Full' <=> Used' = PIPESIZE))
<1> DEFINE Facts == /\ Used \in 0..Wrap-1
                    /\ Empty <=> Used = 0
                    /\ RingInv => (Full <=> Used = PIPESIZE)
<1> SUFFICES ASSUME PipeConstants PROVE PipeTypeOK' => Facts'
  OBVIOUS
<1>1. PipeTypeOK => Facts
  BY RingFacts
<1> HIDE DEF Facts
<1>2. PipeTypeOK' => Facts'
  BY <1>1, PTL
<1> QED
  BY <1>2 DEF Facts

\* nwrite goes forward over free places, nread over bytes.
LEMMA UsedMore ==
  ASSUME PipeConstants, PipeTypeOK, RingInv, NEW k \in 0..PIPESIZE-Used,
         nread' = nread, nwrite' = (nwrite + k) % Wrap
  PROVE  nwrite' \in 0..Wrap-1 /\ Used' = Used + k
<1>1. nread \in 0..Wrap-1 /\ nwrite \in 0..Wrap-1
  BY DEF PipeTypeOK
<1>2. /\ Used \in 0..Wrap-1 /\ Used <= PIPESIZE
      /\ nwrite = IF nread + Used < Wrap THEN nread + Used ELSE nread + Used - Wrap
  BY RingFacts DEF RingInv
<1>3. k \in 0..PIPESIZE
  BY <1>2, SizeFacts
<1>4. nwrite' = IF nwrite + k < Wrap THEN nwrite + k ELSE nwrite + k - Wrap
  BY <1>1, <1>3, CountForward
<1>5. nwrite' \in 0..Wrap-1
  BY <1>1, <1>3, <1>4, SizeFacts
<1>6. Used' = IF nread <= nwrite' THEN nwrite' - nread ELSE nwrite' - nread + Wrap
  <2>1. Used' = (nwrite' - nread) % Wrap
    BY DEF Used
  <2> QED
    BY <1>1, <1>5, <2>1, CountBetween
<1>7. Used + k <= PIPESIZE /\ Used >= 0 /\ k >= 0 /\ Used \in Int /\ k \in Int
  BY <1>2, SizeFacts
<1>8. nwrite \in Int /\ nwrite' \in Int /\ PIPESIZE \in Nat /\ Wrap \in Nat /\ PIPESIZE < Wrap
  BY <1>1, <1>5, SizeFacts
<1>9. Used + k = IF nread <= nwrite' THEN nwrite' - nread ELSE nwrite' - nread + Wrap
  BY <1>1, <1>2, <1>4, <1>7, <1>8, TurnForward
<1> QED
  BY <1>5, <1>6, <1>9

LEMMA UsedLess ==
  ASSUME PipeConstants, PipeTypeOK, RingInv, NEW k \in 0..Used,
         nwrite' = nwrite, nread' = (nread + k) % Wrap
  PROVE  nread' \in 0..Wrap-1 /\ Used' = Used - k
<1>1. nread \in 0..Wrap-1 /\ nwrite \in 0..Wrap-1
  BY DEF PipeTypeOK
<1>2. /\ Used \in 0..Wrap-1 /\ Used <= PIPESIZE
      /\ nwrite = IF nread + Used < Wrap THEN nread + Used ELSE nread + Used - Wrap
  BY RingFacts DEF RingInv
<1>3. k \in 0..PIPESIZE
  BY <1>2, SizeFacts
<1>4. nread' = IF nread + k < Wrap THEN nread + k ELSE nread + k - Wrap
  BY <1>1, <1>3, CountForward
<1>5. nread' \in 0..Wrap-1
  BY <1>1, <1>3, <1>4, SizeFacts
<1>6. Used' = IF nread' <= nwrite THEN nwrite - nread' ELSE nwrite - nread' + Wrap
  <2>1. Used' = (nwrite - nread') % Wrap
    BY DEF Used
  <2> QED
    BY <1>1, <1>5, <2>1, CountBetween
<1>7. Used <= PIPESIZE /\ k <= Used /\ k >= 0 /\ Used \in Int /\ k \in Int
  BY <1>2, SizeFacts
<1>8. nwrite \in Int /\ nread' \in Int /\ PIPESIZE \in Nat /\ Wrap \in Nat /\ PIPESIZE < Wrap
  BY <1>1, <1>5, SizeFacts
<1>9. Used - k = IF nread' <= nwrite THEN nwrite - nread' ELSE nwrite - nread' + Wrap
  BY <1>1, <1>2, <1>4, <1>7, <1>8, TurnAfter
<1> QED
  BY <1>5, <1>6, <1>9

\* The steps that do not touch the pipe keep what is said of it.
LEMMA PipeSame ==
  ASSUME UNCHANGED pipe
  PROVE  /\ UNCHANGED <<data, nread, nwrite, readopen, writeopen, freed>>
         /\ Used' = Used /\ (Full' <=> Full) /\ (Empty' <=> Empty) /\ (RingInv' <=> RingInv)
BY DEF pipe, Used, Full, Empty, RingInv

-----------------------------------------------------------------------------
LEMMA InitPipeInv ==
  ASSUME PipeConstants, PipeInit
  PROVE  PipeInv
<1>1. PipeTypeOK
  <2>1. left \in [Users -> 0..MaxCount] /\ 0 \in 0..Wrap-1
    BY SizeFacts DEF PipeInit, PipeConstants
  <2>2. /\ pc \in [Users -> Places]
        /\ killed \in [Users -> BOOLEAN]
    BY DEF PipeInit
  <2> QED
    BY <2>1, <2>2 DEF PipeInit, PipeTypeOK
<1>2. Used = 0
  BY <1>1, RingFacts DEF PipeInit, Empty
<1>3. RingInv
  BY <1>2, SizeFacts DEF RingInv
<1>4. SideInv /\ SleepersHaveCause
  BY DEF PipeInit, SideInv, SleepersHaveCause, WriterSleepsOnFull, ReaderSleepsOnEmpty, Users
<1>5. FreedWhenClosed
  BY DEF PipeInit, FreedWhenClosed, PipeConstants, Users
<1> QED
  BY <1>1, <1>3, <1>4, <1>5 DEF PipeInv

\* kalloc gives the page out again, as pipealloc leaves it.
LEMMA AllocInv ==
  ASSUME PipeConstants, PipeInv, PipeAlloc
  PROVE  PipeInv'
<1>1. PipeTypeOK'
  <2>1. left' \in [Users -> 0..MaxCount] /\ 0 \in 0..Wrap-1
    BY SizeFacts DEF PipeInv, PipeTypeOK, PipeAlloc
  <2>2. /\ pc' \in [Users -> Places]
        /\ killed' \in [Users -> BOOLEAN]
    BY DEF PipeAlloc
  <2> QED
    BY <2>1, <2>2 DEF PipeInv, PipeTypeOK, PipeAlloc
<1>2. Used' = 0
  <2>1. Used' = (0 - 0) % Wrap
    BY DEF PipeAlloc, Used
  <2>2. 0 \in 0..Wrap-1
    BY SizeFacts
  <2> QED
    BY <2>1, <2>2, CountBetween
<1>3. RingInv'
  BY <1>2, SizeFacts DEF RingInv
<1>4. \A p \in Users : pc'[p] = "idle"
  BY DEF PipeAlloc
<1>5. SideInv' /\ SleepersHaveCause'
  BY <1>4 DEF SideInv, SleepersHaveCause, WriterSleepsOnFull, ReaderSleepsOnEmpty, Users
<1>6. FreedWhenClosed'
  BY <1>4 DEF PipeAlloc, FreedWhenClosed, PipeConstants, Users
<1> QED
  BY <1>1, <1>3, <1>5, <1>6 DEF PipeInv

\* A call of read or write, the sleep after the test of p->killed, a kill.
LEMMA QuietInv ==
  ASSUME PipeConstants, PipeInv, NEW p \in Users,
         \/ \E n \in 1..MaxCount : Call(p, n)
         \/ PipeWriteSleep(p) \/ PipeReadSleep(p) \/ Kill(p)
  PROVE  PipeInv'
<1>1. UNCHANGED pipe
  BY DEF Call, PipeWriteSleep, PipeReadSleep, Kill
<1>2. PipeTypeOK' /\ RingInv'
  <2>1. left' \in [Users -> 0..MaxCount]
    BY DEF PipeInv, PipeTypeOK, Call, PipeWriteSleep, PipeReadSleep, Kill, PipeConstants
  <2>2. /\ pc' \in [Users -> Places]
        /\ killed' \in [Users -> BOOLEAN]
    BY DEF PipeInv, PipeTypeOK, Call, PipeWriteSleep, PipeReadSleep, Kill
  <2> QED
    BY <1>1, <2>1, <2>2, PipeSame DEF PipeInv, PipeTypeOK
<1>3. \A q \in Users : pc'[q] = "closed" <=> pc[q] = "closed"
  BY DEF PipeInv, PipeTypeOK, Call, PipeWriteSleep, PipeReadSleep, Kill
<1>4. FreedWhenClosed'
  BY <1>1, <1>3, PipeSame DEF PipeInv, FreedWhenClosed, Users
<1>5. /\ \A q \in Users : pc'[q] \in {"wgap", "wasleep"} => pc[q] \in {"wgap", "wasleep"}
      /\ \A q \in Users : pc'[q] \in {"rgap", "rasleep"} => pc[q] \in {"rgap", "rasleep"}
      /\ \A q \in Users : killed[q] => killed'[q]
  BY DEF PipeInv, PipeTypeOK, Call, PipeWriteSleep, PipeReadSleep, Kill
<1>6. SleepersHaveCause'
  BY <1>1, <1>5, PipeSame
     DEF PipeInv, SleepersHaveCause, WriterSleepsOnFull, ReaderSleepsOnEmpty, Users
<1>7. SideInv'
  BY DEF PipeInv, PipeTypeOK, SideInv, Call, PipeWriteSleep, PipeReadSleep, Kill, Users,
         PipeConstants
<1> QED
  BY <1>2, <1>4, <1>6, <1>7 DEF PipeInv

-----------------------------------------------------------------------------
\* pipewrite puts the k bytes of s into the ring and then returns, or goes to
\* sleep on a full one; readers asleep are woken, unless it gives up.
Wrote(p, k, s) ==
  /\ p \in Writers /\ pc[p] = "write" /\ LockFree
  /\ UNCHANGED <<nread, readopen, writeopen, freed, killed>>
  /\ Put(s) /\ s \in [1..k -> Bytes] /\ Len(s) = k
  /\ nwrite' = (nwrite + k) % Wrap
  /\ left' \in [Users -> 0..MaxCount] /\ \A q \in Users : q # p => left'[q] = left[q]
  /\ pc' \in [Users -> Places]
  /\ \A q \in Users : q # p => pc'[q] = pc[q] \/ (pc[q] = "rasleep" /\ pc'[q] = "read")
  /\ \/ pc'[p] = "idle" /\ \A q \in Users : pc'[q] # "rasleep"
     \/ pc'[p] = "idle" /\ (~readopen \/ killed[p])
     \/ /\ pc'[p] = "wgap" /\ readopen /\ k = PIPESIZE - Used /\ left'[p] > 0
        /\ \A q \in Users : pc'[q] # "rasleep"

LEMMA WriteEffect ==
  ASSUME PipeConstants, PipeInv, NEW p \in Users, PipeWrite(p)
  PROVE  \E k \in 0..PIPESIZE-Used : \E s \in [1..k -> Bytes] : Wrote(p, k, s)
<1> DEFINE k == Min2(left[p], PIPESIZE - Used)
<1>1. /\ pc[p] = "write" /\ LockFree
      /\ UNCHANGED <<nread, readopen, writeopen, freed, killed>>
      /\ pc' = IF k = left[p] THEN WakeReaders([pc EXCEPT ![p] = "idle"])
               ELSE IF ~readopen \/ killed[p] THEN [pc EXCEPT ![p] = "idle"]
               ELSE WakeReaders([pc EXCEPT ![p] = "wgap"])
      /\ left' = [left EXCEPT ![p] = IF pc'[p] = "idle" THEN 0 ELSE @ - k]
      /\ \E s \in [1..k -> Bytes] : Put(s)
  BY DEF PipeWrite
<1>2. PICK s \in [1..k -> Bytes] : Put(s)
  BY <1>1
<1>3. /\ left[p] \in 0..MaxCount /\ MaxCount \in Nat
      /\ left \in [Users -> 0..MaxCount]
      /\ pc \in [Users -> Places]
      /\ p \in Writers /\ left[p] > 0
  BY <1>1 DEF PipeInv, PipeTypeOK, SideInv, PipeConstants
<1>4. PIPESIZE - Used \in Nat
  BY RingFacts, SizeFacts DEF PipeInv, RingInv
<1>5. k \in 0..PIPESIZE-Used /\ k <= left[p] /\ (k = left[p] \/ k = PIPESIZE - Used)
  BY <1>3, <1>4 DEF Min2
<1> HIDE DEF k
<1>6. Len(s) = k
  BY <1>2, <1>5
<1>7. nwrite' = (nwrite + k) % Wrap
  BY <1>2, <1>6 DEF Put
<1>8. left' \in [Users -> 0..MaxCount] /\ \A q \in Users : q # p => left'[q] = left[q]
  BY <1>1, <1>3, <1>5
<1>9. /\ pc' \in [Users -> Places]
      /\ \A q \in Users : q # p => pc'[q] = pc[q] \/ (pc[q] = "rasleep" /\ pc'[q] = "read")
  BY <1>1, <1>3 DEF WakeReaders
<1>10. \/ pc'[p] = "idle" /\ \A q \in Users : pc'[q] # "rasleep"
       \/ pc'[p] = "idle" /\ (~readopen \/ killed[p])
       \/ /\ pc'[p] = "wgap" /\ readopen /\ k = PIPESIZE - Used /\ left'[p] > 0
          /\ \A q \in Users : pc'[q] # "rasleep"
  <2>1. CASE k = left[p]
    BY <1>1, <1>3, <2>1 DEF WakeReaders
  <2>2. CASE k # left[p] /\ (~readopen \/ killed[p])
    BY <1>1, <1>3, <2>2
  <2>3. CASE k # left[p] /\ ~(~readopen \/ killed[p])
    <3>1. pc' = WakeReaders([pc EXCEPT ![p] = "wgap"])
      BY <1>1, <2>3
    <3>2. pc'[p] = "wgap" /\ \A q \in Users : pc'[q] # "rasleep"
      BY <1>3, <3>1 DEF WakeReaders
    <3>3. left'[p] = left[p] - k
      BY <1>1, <1>3, <3>2
    <3>4. left'[p] > 0
      BY <1>3, <1>4, <1>5, <2>3, <3>3
    <3> QED
      BY <1>5, <2>3, <3>2, <3>4
  <2> QED
    BY <2>1, <2>2, <2>3
<1>11. Wrote(p, k, s)
  BY <1>1, <1>2, <1>3, <1>6, <1>7, <1>8, <1>9, <1>10 DEF Wrote
<1> QED
  BY <1>2, <1>5, <1>11

LEMMA WriteInv ==
  ASSUME PipeConstants, PipeInv, NEW p \in Users,
         NEW k \in 0..PIPESIZE-Used, NEW s \in [1..k -> Bytes], Wrote(p, k, s)
  PROVE  PipeInv' /\ Used' = Used + k
<1>t. PipeTypeOK /\ RingInv /\ Used \in 0..Wrap-1 /\ PIPESIZE \in Nat /\ p \in Writers /\ pc[p] = "write"
  BY RingFacts, SizeFacts DEF PipeInv, Wrote
<1>1. nwrite' \in 0..Wrap-1 /\ Used' = Used + k
  BY <1>t, UsedMore DEF Wrote
<1>2. RingInv'
  BY <1>t, <1>1 DEF RingInv
<1>3. data' \in [0..PIPESIZE-1 -> Bytes]
  BY <1>t DEF Wrote, Put, PipeTypeOK
<1>4. PipeTypeOK'
  BY <1>1, <1>3, <1>t DEF PipeTypeOK, Wrote
<1>5. SideInv'
  BY <1>t DEF PipeInv, SideInv, Wrote
<1>6. FreedWhenClosed'
  <2>1. \A q \in Users : pc'[q] = "closed" <=> pc[q] = "closed"
    BY <1>t DEF Wrote
  <2> QED
    BY <2>1 DEF PipeInv, FreedWhenClosed, Wrote, Users
<1>7. Full' <=> Used' = PIPESIZE
  BY <1>2, <1>4, RingFactsNext
<1>8. WriterSleepsOnFull'
  <2> SUFFICES ASSUME NEW q \in Writers, pc'[q] \in {"wgap", "wasleep"}
               PROVE  Full' /\ readopen'
    BY DEF WriterSleepsOnFull
  <2>1. CASE q = p
    BY <1>t, <1>1, <1>7, <2>1 DEF Wrote
  <2>2. CASE q # p
    <3>1. pc[q] \in {"wgap", "wasleep"}
      BY <2>2 DEF Wrote, Users
    <3>2. Full /\ readopen
      BY <3>1 DEF PipeInv, SleepersHaveCause, WriterSleepsOnFull
    <3>3. Used = PIPESIZE
      BY <1>t, <3>2, RingFacts
    <3> QED
      BY <1>t, <1>1, <1>2, <1>7, <3>2, <3>3 DEF Wrote
  <2> QED
    BY <2>1, <2>2
<1>9. ReaderSleepsOnEmpty'
  <2> SUFFICES ASSUME \A v \in Writers : ~killed'[v],
                      NEW q \in Readers, pc'[q] \in {"rgap", "rasleep"}
               PROVE  FALSE
    BY DEF ReaderSleepsOnEmpty
  <2>1. q # p /\ q \in Users
    BY <1>t DEF PipeConstants, Users
  <2>2. pc[q] = pc'[q] /\ pc'[q] = "rasleep"
    BY <2>1 DEF Wrote, LockFree
  <2>3. ~readopen
    BY <1>t, <2>1, <2>2 DEF Wrote
  <2>4. pc[q] = "closed"
    BY <2>3 DEF PipeInv, FreedWhenClosed
  <2> QED
    BY <2>2, <2>4
<1> QED
  BY <1>1, <1>2, <1>4, <1>5, <1>6, <1>8, <1>9 DEF PipeInv, SleepersHaveCause

-----------------------------------------------------------------------------
\* piperead on an empty pipe returns or goes to sleep on it.
LEMMA ReadEmptyInv ==
  ASSUME PipeConstants, PipeInv, NEW p \in Users, PipeReadEmpty(p)
  PROVE  PipeInv'
<1>t. PipeTypeOK /\ RingInv
  BY DEF PipeInv
<1>0. UNCHANGED pipe /\ killed' = killed /\ Empty /\ pc[p] = "read"
  BY DEF PipeReadEmpty
<1>1. UNCHANGED <<data, nread, nwrite, readopen, writeopen, freed>> /\ (Full' <=> Full) /\ Empty'
  BY <1>0, PipeSame
<1>2. /\ pc' \in [Users -> Places]
      /\ pc'[p] \in {"idle", "rgap"} /\ (pc'[p] = "rgap" => writeopen)
      /\ \A q \in Users : q # p => pc'[q] = pc[q] \/ (pc[q] = "wasleep" /\ pc'[q] = "write")
  BY <1>t DEF PipeReadEmpty, PipeTypeOK, WakeWriters
<1>3. /\ left' \in [Users -> 0..MaxCount] /\ \A q \in Users : q # p => left'[q] = left[q]
      /\ pc'[p] = "rgap" => left'[p] = left[p]
  BY <1>t DEF PipeReadEmpty, PipeTypeOK, PipeConstants
<1>4. PipeTypeOK' /\ RingInv'
  BY <1>t, <1>0, <1>1, <1>2, <1>3, PipeSame DEF PipeTypeOK
<1>5. SideInv'
  BY <1>0, <1>2, <1>3 DEF PipeInv, SideInv
<1>6. FreedWhenClosed'
  <2>1. \A q \in Users : pc'[q] = "closed" <=> pc[q] = "closed"
    BY <1>0, <1>2
  <2> QED
    BY <1>1, <2>1 DEF PipeInv, FreedWhenClosed, Users
<1>7. WriterSleepsOnFull'
  <2>1. \A q \in Users : pc'[q] \in {"wgap", "wasleep"} => pc[q] \in {"wgap", "wasleep"}
    BY <1>2
  <2> QED
    BY <1>1, <2>1 DEF PipeInv, SleepersHaveCause, WriterSleepsOnFull, Users
<1>8. ReaderSleepsOnEmpty'
  <2>1. \A q \in Users : pc'[q] \in {"rgap", "rasleep"} =>
          (q = p /\ writeopen) \/ pc[q] \in {"rgap", "rasleep"}
    BY <1>2
  <2> QED
    BY <1>0, <1>1, <2>1 DEF PipeInv, SleepersHaveCause, ReaderSleepsOnEmpty, Users
<1> QED
  BY <1>4, <1>5, <1>6, <1>7, <1>8 DEF PipeInv, SleepersHaveCause

\* piperead takes k bytes, as many as there are or as were asked for, wakes the
\* writers and returns.
LEMMA ReadCopyInv ==
  ASSUME PipeConstants, PipeInv, NEW p \in Users, PipeReadCopy(p)
  PROVE  /\ PipeInv'
         /\ \E k \in 1..Used : nread' = (nread + k) % Wrap /\ Used' = Used - k
<1> DEFINE k == Min2(left[p], Used)
<1>t. PipeTypeOK /\ RingInv /\ Used \in 0..Wrap-1 /\ Used <= PIPESIZE /\ PIPESIZE \in Nat
  BY RingFacts, SizeFacts DEF PipeInv, RingInv
<1>0. /\ UNCHANGED <<data, nwrite, readopen, writeopen, freed, killed>>
      /\ pc[p] = "read" /\ LockFree /\ ~Empty
      /\ nread' = (nread + k) % Wrap
      /\ left' = [left EXCEPT ![p] = 0]
      /\ pc' = WakeWriters([pc EXCEPT ![p] = "idle"])
  BY DEF PipeReadCopy
<1>1. /\ pc' \in [Users -> Places]
      /\ pc'[p] = "idle"
      /\ \A q \in Users : q # p => pc'[q] = pc[q] \/ (pc[q] = "wasleep" /\ pc'[q] = "write")
      /\ \A q \in Users : pc'[q] # "wasleep"
  BY <1>0, <1>t DEF PipeTypeOK, WakeWriters
<1>2. k \in 1..Used
  <2>1. left[p] \in Nat /\ left[p] > 0
    BY <1>0 DEF PipeInv, PipeTypeOK, SideInv, PipeConstants
  <2>2. Used # 0
    BY <1>0, <1>t, RingFacts
  <2> QED
    BY <1>t, <2>1, <2>2, SizeFacts DEF Min2
<1> HIDE DEF k
<1>3. nread' \in 0..Wrap-1 /\ Used' = Used - k
  <2>1. k \in 0..Used
    BY <1>2, <1>t
  <2> QED
    BY <1>0, <1>t, <2>1, UsedLess
<1>4. RingInv'
  BY <1>t, <1>2, <1>3, SizeFacts DEF RingInv
<1>5. left' \in [Users -> 0..MaxCount] /\ \A q \in Users : q # p => left'[q] = left[q]
  BY <1>0, <1>t DEF PipeTypeOK, PipeConstants
<1>6. PipeTypeOK'
  BY <1>0, <1>t, <1>1, <1>3, <1>5 DEF PipeTypeOK
<1>7. SideInv'
  BY <1>1, <1>5 DEF PipeInv, SideInv
<1>8. FreedWhenClosed'
  <2>1. \A q \in Users : pc'[q] = "closed" <=> pc[q] = "closed"
    BY <1>0, <1>1
  <2> QED
    BY <1>0, <2>1 DEF PipeInv, FreedWhenClosed, Users
<1>9. WriterSleepsOnFull'
  <2>1. \A q \in Users : pc'[q] \notin {"wgap", "wasleep"}
    BY <1>0, <1>1 DEF LockFree
  <2> QED
    BY <2>1 DEF WriterSleepsOnFull, Users
<1>10. ReaderSleepsOnEmpty'
  <2>1. \A q \in Users : pc'[q] \in {"rgap", "rasleep"} => pc[q] \in {"rgap", "rasleep"}
    BY <1>1
  <2> QED
    BY <1>0, <2>1 DEF PipeInv, SleepersHaveCause, ReaderSleepsOnEmpty, Users
<1> QED
  BY <1>0, <1>2, <1>3, <1>4, <1>6, <1>7, <1>8, <1>9, <1>10 DEF PipeInv, SleepersHaveCause

\* pipeclose: the last end of a side wakes the other side, and the last end of
\* both frees the page.
LEMMA CloseInv ==
  ASSUME PipeConstants, PipeInv, NEW p \in Users, Close(p)
  PROVE  PipeInv'
<1>t. PipeTypeOK /\ RingInv
  BY DEF PipeInv
<1> DEFINE side == IF p \in Writers THEN Writers ELSE Readers
           final == \A q \in side \ {p} : pc[q] = "closed"
           gone == [pc EXCEPT ![p] = "closed"]
<1>0. /\ UNCHANGED <<data, nread, nwrite, left, killed>>
      /\ pc[p] = "idle" /\ LockFree
      /\ pc' = IF ~final THEN gone
               ELSE IF p \in Writers THEN WakeReaders(gone) ELSE WakeWriters(gone)
      /\ writeopen' = (writeopen /\ ~(final /\ p \in Writers))
      /\ readopen' = (readopen /\ ~(final /\ p \in Readers))
      /\ freed' = (~readopen' /\ ~writeopen')
  BY DEF Close
<1>1. Used' = Used /\ (Full' <=> Full) /\ (Empty' <=> Empty) /\ (RingInv' <=> RingInv)
  BY <1>0 DEF Used, Full, Empty, RingInv
<1>2. /\ pc' \in [Users -> Places]
      /\ pc'[p] = "closed"
      /\ \A q \in Users : q # p => \/ pc'[q] = pc[q]
                                   \/ pc[q] = "wasleep" /\ pc'[q] = "write"
                                   \/ pc[q] = "rasleep" /\ pc'[q] = "read"
  BY <1>0, <1>t DEF PipeTypeOK, WakeReaders, WakeWriters
<1>3. /\ final /\ p \in Writers => \A q \in Users : pc'[q] # "rasleep"
      /\ final /\ p \notin Writers => \A q \in Users : pc'[q] # "wasleep"
  BY <1>0, <1>t DEF PipeTypeOK, WakeReaders, WakeWriters
<1> HIDE DEF gone
<1>4. PipeTypeOK' /\ RingInv'
  BY <1>0, <1>t, <1>1, <1>2 DEF PipeTypeOK
<1>5. SideInv'
  BY <1>0, <1>2 DEF PipeInv, SideInv
<1>6. FreedWhenClosed'
  <2>1. \A q \in Users : pc'[q] = "closed" <=> pc[q] = "closed" \/ q = p
    BY <1>0, <1>2
  <2>2. p \in Writers => p \notin Readers
    BY DEF PipeConstants
  <2>3. writeopen' <=> \E q \in Writers : pc'[q] # "closed"
    <3>1. CASE p \in Writers
      BY <1>0, <2>1, <3>1 DEF PipeInv, FreedWhenClosed, Users
    <3>2. CASE p \notin Writers
      BY <1>0, <2>1, <3>2 DEF PipeInv, FreedWhenClosed, Users
    <3> QED
      BY <3>1, <3>2
  <2>4. readopen' <=> \E q \in Readers : pc'[q] # "closed"
    <3>1. CASE p \in Writers
      BY <1>0, <2>1, <2>2, <3>1 DEF PipeInv, FreedWhenClosed, Users
    <3>2. CASE p \notin Writers
      <4>1. p \in Readers
        BY <3>2 DEF Users
      <4> QED
        BY <1>0, <2>1, <3>2, <4>1 DEF PipeInv, FreedWhenClosed, Users
    <3> QED
      BY <3>1, <3>2
  <2>5. freed' => \A q \in Users : pc'[q] = "closed"
    BY <1>0, <2>3, <2>4 DEF Users
  <2> QED
    BY <2>3, <2>4, <2>5 DEF FreedWhenClosed
<1>7. WriterSleepsOnFull'
  <2> SUFFICES ASSUME NEW q \in Writers, pc'[q] \in {"wgap", "wasleep"}
               PROVE  Full' /\ readopen'
    BY DEF WriterSleepsOnFull
  <2>1. q \in Users /\ pc[q] \in {"wgap", "wasleep"} /\ pc[q] = "wasleep" /\ pc'[q] = "wasleep"
    BY <1>0, <1>2 DEF Users, LockFree
  <2>2. Full /\ readopen
    BY <2>1 DEF PipeInv, SleepersHaveCause, WriterSleepsOnFull
  <2>3. ~(final /\ p \in Readers)
    BY <1>3, <2>1 DEF PipeConstants
  <2> QED
    BY <1>0, <1>1, <2>2, <2>3
<1>8. ReaderSleepsOnEmpty'
  <2> SUFFICES ASSUME \A v \in Writers : ~killed'[v],
                      NEW q \in Readers, pc'[q] \in {"rgap", "rasleep"}
               PROVE  Empty' /\ writeopen'
    BY DEF ReaderSleepsOnEmpty
  <2>1. q \in Users /\ pc[q] = "rasleep" /\ pc'[q] = "rasleep"
    BY <1>0, <1>2 DEF Users, LockFree
  <2>2. Empty /\ writeopen
    BY <1>0, <2>1 DEF PipeInv, SleepersHaveCause, ReaderSleepsOnEmpty
  <2>3. ~(final /\ p \in Writers)
    BY <1>3, <2>1
  <2> QED
    BY <1>0, <1>1, <2>2, <2>3
<1> QED
  BY <1>4, <1>5, <1>6, <1>7, <1>8 DEF PipeInv, SleepersHaveCause

LEMMA NextPipeInv ==
  ASSUME PipeConstants, PipeInv, [PipeNext]_pipeVars
  PROVE  PipeInv'
<1>1. ASSUME NEW p \in Users, PipeWrite(p)
      PROVE  PipeInv'
  BY <1>1, WriteEffect, WriteInv
<1>2. CASE UNCHANGED pipeVars
  <2>1. UNCHANGED pipe /\ UNCHANGED <<pc, left, killed>>
    BY <1>2 DEF pipeVars
  <2> QED
    BY <2>1, PipeSame
       DEF PipeInv, PipeTypeOK, SideInv, FreedWhenClosed, SleepersHaveCause,
           WriterSleepsOnFull, ReaderSleepsOnEmpty
<1> QED
  BY <1>1, <1>2, AllocInv, QuietInv, ReadEmptyInv, ReadCopyInv, CloseInv DEF PipeNext

\* The inductive invariant of the pipe.
THEOREM PipeInvariant == PipeConstants => (PipeSpec => []PipeInv)
<1> SUFFICES ASSUME PipeConstants PROVE PipeSpec => []PipeInv
  OBVIOUS
<1>1. PipeInit => PipeInv
  BY InitPipeInv
<1>2. PipeInv /\ [PipeNext]_pipeVars => PipeInv'
  BY NextPipeInv
<1> QED
  BY <1>1, <1>2, PTL DEF PipeSpec

\* An end is open exactly as long as a process has it, and the page goes back
\* to kalloc only when no process could touch it.
THEOREM PipeFreedWhenClosed == PipeConstants => (PipeSpec => []FreedWhenClosed)
BY PipeInvariant, PTL DEF PipeInv

\* No wakeup is missed between the test and the sleep of pipewrite or piperead,
\* whatever kill() does in between: who sleeps waits for what can still come.
THEOREM PipeSleepersHaveCause == PipeConstants => (PipeSpec => []SleepersHaveCause)
BY PipeInvariant, PTL DEF PipeInv

-----------------------------------------------------------------------------
\* The refinement: the u bytes of ring d from counter g on, as a sequence
RingText(d, g, u) == [i \in 1..u |-> d[(g + i - 1) % PIPESIZE]]

LEMMA ContentIs ==
  /\ Content = IF freed THEN <<>> ELSE RingText(data, nread, Used)
  /\ Content' = IF freed' THEN <<>> ELSE RingText(data', nread', Used')
BY DEF Content, RingText

LEMMA FunctionIsSeq ==
  ASSUME NEW S, NEW n \in Nat, NEW f \in [1..n -> S]
  PROVE  f \in Seq(S) /\ Len(f) = n
OBVIOUS

LEMMA RingSeq ==
  ASSUME PipeConstants, NEW d \in [0..PIPESIZE-1 -> Bytes], NEW g \in 0..Wrap-1, NEW u \in Nat
  PROVE  /\ RingText(d, g, u) \in Seq(Bytes)
         /\ Len(RingText(d, g, u)) = u
         /\ \A i \in 1..u : RingText(d, g, u)[i] = d[(g + i - 1) % PIPESIZE]
<1>1. \A i \in 1..u : (g + i - 1) % PIPESIZE \in 0..PIPESIZE-1
  BY SizeFacts
<1>2. RingText(d, g, u) \in [1..u -> Bytes]
  BY <1>1 DEF RingText
<1>3. RingText(d, g, u) \in Seq(Bytes) /\ Len(RingText(d, g, u)) = u
  BY <1>2, FunctionIsSeq
<1>4. \A i \in 1..u : RingText(d, g, u)[i] = d[(g + i - 1) % PIPESIZE]
  BY DEF RingText
<1> QED
  BY <1>3, <1>4

\* Where the j-th byte of a write goes, seen from the read end.
LEMMA WritePlace ==
  ASSUME PipeConstants, PipeTypeOK, RingInv, NEW j \in Int
  PROVE  (nwrite + j - 1) % PIPESIZE = (nread + Used + j - 1) % PIPESIZE
<1>1. nread \in 0..Wrap-1 /\ Used \in 0..PIPESIZE
  BY RingFacts, SizeFacts DEF PipeTypeOK, RingInv
<1>2. (nread + Used) % Wrap = nwrite
  BY <1>1, CountForward, RingFacts
<1>3. (((nread + Used) % Wrap) + (j - 1)) % PIPESIZE = (nread + Used + (j - 1)) % PIPESIZE
  BY <1>1, WrapHidden
<1>4. /\ nwrite \in Int /\ nwrite + (j - 1) = nwrite + j - 1
      /\ nread + Used + (j - 1) = nread + Used + j - 1
  BY <1>1 DEF PipeTypeOK
<1> QED
  BY <1>2, <1>3, <1>4

\* A write appends its bytes and disturbs none that is waiting.
LEMMA WriteAppends ==
  ASSUME PipeConstants, PipeTypeOK, RingInv,
         NEW k \in 0..PIPESIZE-Used, NEW s \in [1..k -> Bytes], Put(s), Len(s) = k,
         data' \in [0..PIPESIZE-1 -> Bytes]
  PROVE  RingText(data', nread, Used + k) = RingText(data, nread, Used) \o s
<1>0. /\ nread \in 0..Wrap-1 /\ Used \in Nat /\ Used + k \in Nat /\ k \in Nat
      /\ data \in [0..PIPESIZE-1 -> Bytes] /\ Used + k <= PIPESIZE
  BY RingFacts, SizeFacts DEF PipeTypeOK, RingInv
<1> DEFINE a == RingText(data, nread, Used)
           b == RingText(data', nread, Used + k)
<1>1. /\ a \in Seq(Bytes) /\ Len(a) = Used
      /\ \A i \in 1..Used : a[i] = data[(nread + i - 1) % PIPESIZE]
  BY <1>0, RingSeq
<1>2. /\ b \in Seq(Bytes) /\ Len(b) = Used + k
      /\ \A i \in 1..Used + k : b[i] = data'[(nread + i - 1) % PIPESIZE]
  BY <1>0, RingSeq
<1> HIDE DEF a, b
<1>3. s \in Seq(Bytes)
  BY <1>0
<1>4. /\ a \o s \in Seq(Bytes) /\ Len(a \o s) = Used + k
      /\ \A i \in 1..Used + k : (a \o s)[i] = IF i <= Used THEN a[i] ELSE s[i - Used]
  BY <1>1, <1>3, ConcatProperties
<1>5. \A j \in 1..k : (nwrite + j - 1) % PIPESIZE = (nread + Used + j - 1) % PIPESIZE
  BY WritePlace
<1>6. \A x, y \in Int : x < y /\ y < x + PIPESIZE => x % PIPESIZE # y % PIPESIZE
  BY SizeFacts, ModWindow
<1>7. ASSUME NEW i \in 1..Used + k
      PROVE  b[i] = (a \o s)[i]
  <2> DEFINE place == (nread + i - 1) % PIPESIZE
  <2>0. place \in 0..PIPESIZE-1
    BY <1>0, SizeFacts
  <2>1. data'[place] = IF \E j \in 1..k : (nwrite + j - 1) % PIPESIZE = place
                       THEN s[CHOOSE j \in 1..k : (nwrite + j - 1) % PIPESIZE = place]
                       ELSE data[place]
    BY <2>0 DEF Put
  <2>2. CASE i <= Used
    <3>1. ASSUME NEW j \in 1..k PROVE (nwrite + j - 1) % PIPESIZE # place
      <4>1. /\ nread + i - 1 \in Int /\ nread + Used + j - 1 \in Int
            /\ nread + i - 1 < nread + Used + j - 1
            /\ nread + Used + j - 1 < nread + i - 1 + PIPESIZE
        BY <1>0, <2>2, SizeFacts
      <4> QED
        BY <1>5, <1>6, <4>1
    <3>2. data'[place] = data[place]
      BY <2>1, <3>1
    <3> QED
      BY <1>0, <1>1, <1>2, <1>4, <2>2, <3>2
  <2>3. CASE ~(i <= Used)
    <3>1. i - Used \in 1..k
      BY <1>0, <2>3
    <3>2. (nwrite + (i - Used) - 1) % PIPESIZE = place
      <4>1. nread + Used + (i - Used) - 1 = nread + i - 1
        BY <1>0
      <4> QED
        BY <1>5, <3>1, <4>1
    <3>3. ASSUME NEW j \in 1..k, (nwrite + j - 1) % PIPESIZE = place
          PROVE  j = i - Used
      <4>1. (nread + Used + j - 1) % PIPESIZE = (nread + i - 1) % PIPESIZE
        BY <1>5, <3>3
      <4>2. /\ nread + i - 1 \in Int /\ nread + Used + j - 1 \in Int /\ j \in Int
            /\ nread + i - 1 < nread + Used + j - 1 + PIPESIZE
            /\ nread + Used + j - 1 < nread + i - 1 + PIPESIZE
        BY <1>0, <2>3, <3>1, SizeFacts
      <4>3. nread + i - 1 = nread + Used + j - 1
        BY <1>6, <4>1, <4>2
      <4> QED
        BY <1>0, <4>2, <4>3
    <3>4. data'[place] = s[i - Used]
      BY <2>1, <3>1, <3>2, <3>3
    <3> QED
      BY <1>0, <1>2, <1>4, <2>3, <3>4
  <2> QED
    BY <2>2, <2>3
<1>8. b = a \o s
  BY <1>2, <1>4, <1>7, SeqEqual
<1> QED
  BY <1>8 DEF a, b

\* A read removes the oldest bytes.
LEMMA ReadRemoves ==
  ASSUME PipeConstants, PipeTypeOK, RingInv, NEW k \in 1..Used
  PROVE  /\ RingText(data, (nread + k) % Wrap, Used - k) =
              SubSeq(RingText(data, nread, Used), k + 1, Len(RingText(data, nread, Used)))
         /\ Len(RingText(data, nread, Used)) = Used
<1>0. /\ nread \in 0..Wrap-1 /\ Used \in Nat /\ Used - k \in Nat /\ k \in 0..PIPESIZE
      /\ data \in [0..PIPESIZE-1 -> Bytes]
  BY RingFacts, SizeFacts DEF PipeTypeOK, RingInv
<1>r. (nread + k) % Wrap \in 0..Wrap-1
  <2>1. nread + k \in Int /\ Wrap \in Int /\ Wrap > 0
    BY <1>0, SizeFacts
  <2> QED
    BY <2>1, DivMod
<1> DEFINE a == RingText(data, nread, Used)
           b == RingText(data, (nread + k) % Wrap, Used - k)
           c == SubSeq(a, k + 1, Used)
<1>1. /\ a \in Seq(Bytes) /\ Len(a) = Used
      /\ \A i \in 1..Used : a[i] = data[(nread + i - 1) % PIPESIZE]
  BY <1>0, RingSeq
<1>2. /\ b \in Seq(Bytes) /\ Len(b) = Used - k
      /\ \A i \in 1..Used - k : b[i] = data[(((nread + k) % Wrap) + i - 1) % PIPESIZE]
  BY <1>0, <1>r, RingSeq
<1> HIDE DEF a, b
<1>3. /\ c \in Seq(Bytes) /\ Len(c) = Used - k
      /\ \A i \in 1..Used - k : c[i] = a[k + i]
  <2>1. k + 1 \in Int /\ Used \in Int /\ \A i \in k + 1..Used : a[i] \in Bytes
    BY <1>0, <1>1
  <2>2. /\ SubSeq(a, k + 1, Used) \in Seq(Bytes)
        /\ Len(SubSeq(a, k + 1, Used)) = IF k + 1 <= Used THEN Used - (k + 1) + 1 ELSE 0
        /\ \A i \in 1..Used - (k + 1) + 1 : SubSeq(a, k + 1, Used)[i] = a[k + 1 + i - 1]
    BY <2>1, SubSeqProperties
  <2>3. Used - (k + 1) + 1 = Used - k /\ (~(k + 1 <= Used) => Used - k = 0)
    BY <1>0
  <2>4. \A i \in 1..Used - k : k + 1 + i - 1 = k + i
    BY <1>0
  <2> QED
    BY <2>2, <2>3, <2>4
<1> HIDE DEF c
<1>4. ASSUME NEW i \in 1..Used - k
      PROVE  b[i] = c[i]
  <2>1. (((nread + k) % Wrap) + (i - 1)) % PIPESIZE = (nread + k + (i - 1)) % PIPESIZE
    BY <1>0, WrapHidden
  <2>2. /\ ((nread + k) % Wrap) + (i - 1) = ((nread + k) % Wrap) + i - 1
        /\ nread + k + (i - 1) = nread + (k + i) - 1
        /\ k + i \in 1..Used
    BY <1>0, <1>r
  <2>3. b[i] = data[(nread + (k + i) - 1) % PIPESIZE]
    BY <1>2, <2>1, <2>2
  <2> QED
    BY <1>1, <1>3, <2>2, <2>3
<1>5. b = c
  BY <1>2, <1>3, <1>4, SeqEqual
<1> QED
  BY <1>1, <1>5 DEF a, b, c

-----------------------------------------------------------------------------
PStep == [B!Next]_Content

LEMMA InitStreams ==
  ASSUME PipeConstants, PipeInit
  PROVE  B!Init
<1>1. PipeTypeOK
  BY InitPipeInv DEF PipeInv
<1>2. Used = 0 /\ ~freed
  BY <1>1, RingFacts DEF PipeInit, Empty
<1>3. RingText(data, nread, 0) \in Seq(Bytes) /\ Len(RingText(data, nread, 0)) = 0
  BY <1>1, RingSeq DEF PipeTypeOK
<1>4. Content = <<>>
  BY <1>2, <1>3, ContentIs
<1> QED
  BY <1>4 DEF B!Init

\* pipewrite sends the bytes it puts into the ring; with a full one it stutters.
LEMMA WriteStreams ==
  ASSUME PipeConstants, PipeInv, NEW p \in Users, PipeWrite(p)
  PROVE  PStep
<1>1. PICK k \in 0..PIPESIZE-Used : \E s \in [1..k -> Bytes] : Wrote(p, k, s)
  BY WriteEffect
<1>2. PICK s \in [1..k -> Bytes] : Wrote(p, k, s)
  BY <1>1
<1>3. PipeInv' /\ Used' = Used + k
  BY <1>2, WriteInv
<1>t. PipeTypeOK /\ RingInv /\ PipeTypeOK'
  BY <1>3 DEF PipeInv
<1>4. ~freed /\ ~freed' /\ nread' = nread
  BY <1>2 DEF Wrote, PipeInv, FreedWhenClosed
<1>5. Content' = Content \o s
  <2>1. RingText(data', nread, Used + k) = RingText(data, nread, Used) \o s
    BY <1>2, <1>t, WriteAppends DEF Wrote, PipeTypeOK
  <2> QED
    BY <1>3, <1>4, <2>1, ContentIs
<1>6. /\ Content \in Seq(Bytes) /\ Len(Content) = Used
      /\ Used \in Nat /\ k \in Nat /\ Used + k <= PIPESIZE /\ PIPESIZE \in Nat
  <2>1. Used \in Nat /\ PIPESIZE - Used \in Nat /\ PIPESIZE \in Nat
    BY <1>t, RingFacts, SizeFacts DEF RingInv
  <2>2. RingText(data, nread, Used) \in Seq(Bytes) /\ Len(RingText(data, nread, Used)) = Used
    BY <1>t, <2>1, RingSeq DEF PipeTypeOK
  <2> QED
    BY <1>4, <2>1, <2>2, ContentIs
<1>7. CASE k = 0
  <2>1. s = <<>>
    BY <1>7
  <2>2. Content' = Content
    BY <1>5, <1>6, <2>1, ConcatEmptySeq
  <2> QED
    BY <2>2 DEF PStep
<1>8. CASE k # 0
  <2>1. k \in 1..PIPESIZE
    BY <1>6, <1>8
  <2>2. Len(Content) + k <= PIPESIZE
    BY <1>6
  <2> QED
    BY <1>5, <2>1, <2>2 DEF PStep, B!Next, B!Send
<1> QED
  BY <1>7, <1>8

LEMMA ReadStreams ==
  ASSUME PipeConstants, PipeInv, NEW p \in Users, PipeReadCopy(p)
  PROVE  PStep
<1>t. PipeTypeOK /\ RingInv
  BY DEF PipeInv
<1>1. PICK k \in 1..Used : nread' = (nread + k) % Wrap /\ Used' = Used - k
  BY ReadCopyInv
<1>2. ~freed /\ ~freed' /\ data' = data
  BY DEF PipeReadCopy, PipeInv, FreedWhenClosed
<1>3. /\ Content' = SubSeq(Content, k + 1, Len(Content))
      /\ Len(Content) = Used
  BY <1>t, <1>1, <1>2, ReadRemoves, ContentIs
<1>4. \E n \in 1..Len(Content) : Content' = SubSeq(Content, n + 1, Len(Content))
  BY <1>1, <1>3
<1> QED
  BY <1>4 DEF PStep, B!Next, B!Receive

\* The other steps leave the stream alone, but for the last close.
LEMMA OtherStreams ==
  ASSUME PipeConstants, PipeInv,
         \/ PipeAlloc
         \/ \E p \in Users :
              \/ \E n \in 1..MaxCount : Call(p, n)
              \/ PipeWriteSleep(p) \/ PipeReadSleep(p) \/ Kill(p) \/ PipeReadEmpty(p) \/ Close(p)
         \/ UNCHANGED pipeVars
  PROVE  PStep
<1>t. PipeTypeOK
  BY DEF PipeInv
<1>1. CASE PipeAlloc
  <2>1. Used' = 0
    <3>1. Used' = (0 - 0) % Wrap
      BY <1>1 DEF PipeAlloc, Used
    <3>2. 0 \in 0..Wrap-1
      BY SizeFacts
    <3> QED
      BY <3>1, <3>2, CountBetween
  <2>2. freed /\ ~freed' /\ nread' \in 0..Wrap-1 /\ data' \in [0..PIPESIZE-1 -> Bytes]
    BY <1>1, <1>t, SizeFacts DEF PipeAlloc, PipeTypeOK
  <2>3. RingText(data', nread', 0) \in Seq(Bytes) /\ Len(RingText(data', nread', 0)) = 0
    BY <2>2, RingSeq
  <2>4. Content' = Content
    BY <2>1, <2>2, <2>3, ContentIs
  <2> QED
    BY <2>4 DEF PStep
<1>2. CASE \/ \E p \in Users :
               \/ \E n \in 1..MaxCount : Call(p, n)
               \/ PipeWriteSleep(p) \/ PipeReadSleep(p) \/ Kill(p) \/ PipeReadEmpty(p)
           \/ UNCHANGED pipeVars
  <2>1. UNCHANGED pipe
    BY <1>2 DEF Call, PipeWriteSleep, PipeReadSleep, Kill, PipeReadEmpty, pipeVars
  <2>2. Content' = Content
    BY <2>1, PipeSame, ContentIs
  <2> QED
    BY <2>2 DEF PStep
<1>3. ASSUME NEW p \in Users, Close(p)
      PROVE  PStep
  <2>1. UNCHANGED <<data, nread, nwrite>> /\ pc[p] = "idle"
    BY <1>3 DEF Close
  <2>2. Used' = Used /\ ~freed
    BY <2>1 DEF Used, PipeInv, FreedWhenClosed
  <2>3. CASE freed'
    BY <2>3, ContentIs DEF PStep, B!Next, B!Close
  <2>4. CASE ~freed'
    <3>1. Content' = Content
      BY <2>1, <2>2, <2>4, ContentIs
    <3> QED
      BY <3>1 DEF PStep
  <2> QED
    BY <2>3, <2>4
<1> QED
  BY <1>1, <1>2, <1>3

\* The ring buffer is a stream of bytes: whatever the readers and writers do
\* together, and however often the counters wrap, what comes out is what went
\* in, in its order, with nothing lost and nothing twice.
THEOREM PipeIsByteStream == PipeConstants => (PipeSpec => ImplementsByteStream)
<1> SUFFICES ASSUME PipeConstants PROVE PipeSpec => ImplementsByteStream
  OBVIOUS
<1>1. PipeInit => B!Init
  BY InitStreams
<1>2. PipeInv /\ [PipeNext]_pipeVars => [B!Next]_Content
  <2> SUFFICES ASSUME PipeInv, [PipeNext]_pipeVars PROVE PStep
    BY DEF PStep
  <2> QED
    BY WriteStreams, ReadStreams, OtherStreams DEF PipeNext
<1> QED
  BY <1>1, <1>2, PipeInvariant, PTL DEF PipeSpec, ImplementsByteStream, B!Spec
-----------------------------------------------------------------------------
\* The console.  128 divides 2^32, and is smaller.
ConsoleConstants ==
  /\ INPUT_BUF \in Nat \ {0} /\ NCMD \in Nat \ {0} /\ MaxRead \in Nat
  /\ ConsoleWrap \in Nat /\ INPUT_BUF < ConsoleWrap /\ ConsoleWrap % INPUT_BUF = 0

Chars == Letters \cup {Newline, EOF, Nul}

\* What waits to be read and the line under way fit the buffer, and a full
\* buffer has been handed over.
IndexInv ==
  /\ {r, w, e} \subseteq 0..ConsoleWrap-1 /\ back \in Int
  /\ ~erased /\ ~recalled =>
       /\ Distance(r, e) = Distance(r, w) + Distance(w, e)
       /\ Distance(r, e) <= INPUT_BUF
       /\ Distance(r, e) = INPUT_BUF => w = e

ReadersInv ==
  /\ cpc \in [ConsoleReaders -> {"out", "asleep", "ready", "killed"}]
  /\ want \in [ConsoleReaders -> Nat]
  /\ SleepsOnEmpty

\* The rows in use, in the order of the ring.
RowsInv ==
  /\ {first, last, current} \subseteq 0..NCMD-1
  /\ (first = 0 /\ current <= last) \/ first = (last + 1) % NCMD
  /\ DOMAIN cmd = 0..NCMD*INPUT_BUF-1
  /\ wild => erased \/ recalled

\* The buffer from r on is the finished text and then the line, which has no
\* newline.
TextInv ==
  Known =>
    /\ buf \in [0..INPUT_BUF-1 -> Chars] /\ due \in Seq(Chars) /\ line \in Seq(Chars)
    /\ Len(due) = Distance(r, w) /\ Len(line) = Distance(w, e)
    /\ \A k \in 1..Len(due) : due[k] = buf[Ring(r + k - 1)]
    /\ \A k \in 1..Len(line) : line[k] = buf[Ring(r + Len(due) + k - 1)]
    /\ Newline \notin ToSet(line)

ConsoleInv == IndexInv /\ ReadersInv /\ RowsInv /\ TextInv

-----------------------------------------------------------------------------
\* Indices that wrap at a modulus z.
LEMMA GoForward ==
  ASSUME NEW z \in Nat \ {0}, NEW a \in 0..z-1, NEW k \in 0..z
  PROVE  /\ (a + k) % z = IF a + k < z THEN a + k ELSE a + k - z
         /\ (a + k) % z \in 0..z-1
<1>1. CASE a + k < z
  <2>1. (z * 0 + (a + k)) % z = a + k
    BY <1>1, ModIs
  <2> QED
    BY <1>1, <2>1
<1>2. CASE ~(a + k < z)
  <2>1. a + k - z \in 0..z-1
    BY <1>2
  <2>2. (z * 1 + (a + k - z)) % z = a + k - z
    BY <2>1, ModIs
  <2> QED
    BY <1>2, <2>1, <2>2
<1> QED
  BY <1>1, <1>2

LEMMA GoBetween ==
  ASSUME NEW z \in Nat \ {0}, NEW a \in 0..z-1, NEW b \in 0..z-1
  PROVE  (b - a) % z = IF a <= b THEN b - a ELSE b - a + z
<1>1. CASE a <= b
  <2>1. (z * 0 + (b - a)) % z = b - a
    BY <1>1, ModIs
  <2> QED
    BY <1>1, <2>1
<1>2. CASE ~(a <= b)
  <2>1. b - a + z \in 0..z-1
    BY <1>2
  <2>2. (z * (-1) + (b - a + z)) % z = b - a + z
    BY <2>1, ModIs
  <2> QED
    BY <1>2, <2>2
<1> QED
  BY <1>1, <1>2

LEMMA ConsoleSizes ==
  ASSUME ConsoleConstants
  PROVE  INPUT_BUF \in Nat \ {0} /\ ConsoleWrap \in Nat \ {0} /\ INPUT_BUF < ConsoleWrap
BY DEF ConsoleConstants

Index == 0..ConsoleWrap-1

LEMMA IndexForward ==
  ASSUME ConsoleConstants, NEW a \in Index, NEW k \in 0..ConsoleWrap
  PROVE  /\ (a + k) % ConsoleWrap = IF a + k < ConsoleWrap THEN a + k ELSE a + k - ConsoleWrap
         /\ (a + k) % ConsoleWrap \in Index
<1>1. ConsoleWrap \in Nat \ {0} /\ a \in 0..ConsoleWrap-1
  BY ConsoleSizes DEF Index
<1> QED
  BY <1>1, GoForward DEF Index

\* The distance of two indices, and the index at a distance.
LEMMA DistanceIs ==
  ASSUME ConsoleConstants, NEW a \in Index, NEW b \in Index
  PROVE  /\ Distance(a, b) \in Index
         /\ Distance(a, b) = IF a <= b THEN b - a ELSE b - a + ConsoleWrap
         /\ b = (a + Distance(a, b)) % ConsoleWrap
         /\ Distance(a, b) = 0 <=> a = b
<1>1. Distance(a, b) = IF a <= b THEN b - a ELSE b - a + ConsoleWrap
  BY ConsoleSizes, GoBetween DEF Distance, Index
<1>2. Distance(a, b) \in Index
  BY <1>1, ConsoleSizes DEF Index
<1>3. Distance(a, b) \in 0..ConsoleWrap
  BY <1>2, ConsoleSizes DEF Index
<1>4. (a + Distance(a, b)) % ConsoleWrap =
        IF a + Distance(a, b) < ConsoleWrap THEN a + Distance(a, b) ELSE a + Distance(a, b) - ConsoleWrap
  BY <1>3, IndexForward
<1> QED
  BY <1>1, <1>2, <1>4, ConsoleSizes DEF Index

LEMMA DistanceAhead ==
  ASSUME ConsoleConstants, NEW a \in Index, NEW k \in Index
  PROVE  (a + k) % ConsoleWrap \in Index /\ Distance(a, (a + k) % ConsoleWrap) = k
<1> DEFINE b == (a + k) % ConsoleWrap
<1>1. b \in Index /\ b = IF a + k < ConsoleWrap THEN a + k ELSE a + k - ConsoleWrap
  <2>1. k \in 0..ConsoleWrap
    BY ConsoleSizes DEF Index
  <2> QED
    BY <2>1, IndexForward
<1> HIDE DEF b
<1>2. Distance(a, b) = IF a <= b THEN b - a ELSE b - a + ConsoleWrap
  BY <1>1, DistanceIs
<1>3. Distance(a, b) = k
  BY <1>1, <1>2, ConsoleSizes DEF Index
<1> QED
  BY <1>1, <1>3 DEF b

LEMMA DistanceAdds ==
  ASSUME ConsoleConstants, NEW a \in Index, NEW b \in Index, NEW c \in Index,
         Distance(a, b) + Distance(b, c) < ConsoleWrap
  PROVE  Distance(a, c) = Distance(a, b) + Distance(b, c)
<1>1. /\ Distance(a, b) = IF a <= b THEN b - a ELSE b - a + ConsoleWrap
      /\ Distance(b, c) = IF b <= c THEN c - b ELSE c - b + ConsoleWrap
      /\ Distance(a, c) = IF a <= c THEN c - a ELSE c - a + ConsoleWrap
  BY DistanceIs
<1> QED
  BY <1>1, ConsoleSizes DEF Index

\* Wrapping does not show in the ring.
LEMMA RingWrap ==
  ASSUME ConsoleConstants, NEW a \in Index, NEW k \in 0..ConsoleWrap, NEW i \in Int
  PROVE  Ring(((a + k) % ConsoleWrap) + i) = Ring(a + k + i)
<1> DEFINE b == (a + k) % ConsoleWrap
<1>1. b = (IF a + k < ConsoleWrap THEN a + k ELSE a + k - ConsoleWrap) /\ a + k \in Int
  BY ConsoleSizes, IndexForward DEF Index
<1> HIDE DEF b
<1>2. CASE a + k < ConsoleWrap
  BY <1>1, <1>2 DEF b
<1>3. CASE ~(a + k < ConsoleWrap)
  <2> DEFINE m == ConsoleWrap \div INPUT_BUF
  <2>1. ConsoleWrap = INPUT_BUF * m /\ m \in Int
    BY ConsoleSizes, DivMod DEF ConsoleConstants
  <2> HIDE DEF m
  <2>2. b + i = a + k + i + INPUT_BUF * (-m)
    <3>1. INPUT_BUF * (-m) = 0 - ConsoleWrap
      BY <2>1, ConsoleSizes
    <3>2. b = a + k - ConsoleWrap
      BY <1>1, <1>3
    <3> QED
      BY <1>1, <3>1, <3>2, ConsoleSizes DEF Index
  <2>3. (a + k + i + INPUT_BUF * (-m)) % INPUT_BUF = (a + k + i) % INPUT_BUF
    <3>1. INPUT_BUF \in Nat \ {0} /\ a + k + i \in Int /\ -m \in Int
      BY <1>1, <2>1, ConsoleSizes
    <3> QED
      BY <3>1, ModPlus
  <2>4. Ring(b + i) = Ring(a + k + i)
    BY <2>2, <2>3 DEF Ring
  <2> QED
    BY <2>4 DEF b
<1> QED
  BY <1>2, <1>3

LEMMA RingRange ==
  ASSUME ConsoleConstants, NEW i \in Int
  PROVE  Ring(i) \in 0..INPUT_BUF-1 /\ (i \in 0..INPUT_BUF-1 => Ring(i) = i)
<1>1. Ring(i) \in 0..INPUT_BUF-1
  BY ConsoleSizes DEF Ring
<1>2. ASSUME i \in 0..INPUT_BUF-1 PROVE Ring(i) = i
  <2>1. (INPUT_BUF * 0 + i) % INPUT_BUF = i
    BY <1>2, ConsoleSizes, ModIs
  <2> QED
    BY <2>1, ConsoleSizes DEF Ring
<1> QED
  BY <1>1, <1>2

\* Two places less than a buffer apart are different bytes of it.
LEMMA RingApart ==
  ASSUME ConsoleConstants, NEW i \in Int, NEW j \in Int, i # j, i - j < INPUT_BUF, j - i < INPUT_BUF
  PROVE  Ring(i) # Ring(j)
<1>1. CASE i < j
  <2>1. i < j /\ j < i + INPUT_BUF
    BY <1>1, ConsoleSizes
  <2> QED
    BY <2>1, ConsoleSizes, ModWindow DEF Ring
<1>2. CASE j < i
  <2>1. j < i /\ i < j + INPUT_BUF
    BY <1>2, ConsoleSizes
  <2> QED
    BY <2>1, ConsoleSizes, ModWindow DEF Ring
<1> QED
  BY <1>1, <1>2

\* The least and the greatest of a set of numbers.
LEMMA LeastIn ==
  ASSUME NEW S \in SUBSET Nat, S # {}
  PROVE  Min(S) \in S /\ \A y \in S : Min(S) <= y
<1>1. PICK x \in S : \A y \in S : ~(<<y, x>> \in OpToRel(<, Nat))
  BY NatLessThanWellFounded, WFMin
<1>2. ASSUME NEW y \in S, ~(x <= y) PROVE FALSE
  <2>1. y < x /\ <<y, x>> \in Nat \X Nat
    BY <1>2
  <2>2. <<y, x>> \in OpToRel(<, Nat)
    BY <2>1 DEF OpToRel
  <2> QED
    BY <1>1, <2>2
<1>3. \E q \in S : \A y \in S : q <= y
  BY <1>2
<1> QED
  BY <1>3 DEF Min

LEMMA GreatestIn ==
  ASSUME NEW n \in Nat, NEW S \in SUBSET (1..n), S # {}
  PROVE  Max(S) \in S
<1> DEFINE T == {n - y : y \in S}
<1>1. T \in SUBSET Nat /\ T # {}
  <2>1. \A y \in S : n - y \in Nat
    OBVIOUS
  <2> QED
    BY <2>1
<1>2. Min(T) \in T /\ \A y \in T : Min(T) <= y
  BY <1>1, LeastIn
<1>3. PICK x \in S : Min(T) = n - x
  BY <1>2
<1>4. \A y \in S : n - y \in T
  OBVIOUS
<1> HIDE DEF T
<1>5. \A y \in S : n - x <= n - y
  BY <1>2, <1>3, <1>4
<1>6. \A y \in S : x >= y
  BY <1>5
<1> QED
  BY <1>3, <1>6 DEF Max

-----------------------------------------------------------------------------
\* How far the line under way reaches.
LEMMA LineFits ==
  ASSUME ConsoleConstants, IndexInv, ~erased, ~recalled
  PROVE  Unfinished \in 0..INPUT_BUF-1 /\ Distance(r, w) \in 0..INPUT_BUF
<1>1. r \in Index /\ w \in Index /\ e \in Index
  BY DEF IndexInv, Index
<1>2. Distance(r, w) \in Index /\ Distance(w, e) \in Index /\ (w = e => Distance(w, e) = 0)
  BY <1>1, DistanceIs
<1>3. /\ Distance(r, e) = Distance(r, w) + Distance(w, e)
      /\ Distance(r, e) <= INPUT_BUF
      /\ Distance(r, e) = INPUT_BUF => w = e
  BY DEF IndexInv
<1> QED
  BY <1>2, <1>3, ConsoleSizes DEF Unfinished, Index

LEMMA InRows ==
  ASSUME NEW m \in Nat \ {0}, NEW n \in Nat \ {0}, NEW i \in 0..m-1, NEW j \in 0..n-1
  PROVE  i * n + j \in 0..m*n-1
<1>1. m - 1 - i \in Nat /\ m - 1 - i >= 0
  OBVIOUS
<1>2. m * n = i * n + n + (m - 1 - i) * n /\ (m - 1 - i) * n >= 0 /\ i * n >= 0
  BY <1>1
<1>3. i * n \in Int /\ m * n \in Int
  OBVIOUS
<1> QED
  BY <1>2, <1>3

\* sync_cmd stays inside prevcmd as long as the line fits the buffer.
LEMMA SavedInside ==
  ASSUME ConsoleConstants, IndexInv, RowsInv
  PROVE  /\ DOMAIN Saved = DOMAIN cmd
         /\ SavedOutside => erased \/ recalled
<1>1. DOMAIN Saved = DOMAIN cmd
  BY DEF Saved
<1>2. ASSUME ~erased, ~recalled PROVE ~SavedOutside
  <2>1. Unfinished \in 0..INPUT_BUF-1
    BY <1>2, LineFits
  <2>2. current \in 0..NCMD-1 /\ DOMAIN cmd = 0..NCMD*INPUT_BUF-1
    BY DEF RowsInv
  <2>3. current * INPUT_BUF + Unfinished \in 0..NCMD*INPUT_BUF-1
    BY <2>1, <2>2, InRows DEF ConsoleConstants
  <2> QED
    BY <2>2, <2>3 DEF SavedOutside, Row
<1> QED
  BY <1>1, <1>2

\* The steps that edit the line leave the rows alone.
LEMMA RowsSame ==
  ASSUME ConsoleConstants, IndexInv, RowsInv, UNCHANGED <<first, last, current>>,
         cmd' = Saved \/ cmd' = cmd, wild' = SavedOutside \/ wild' = wild,
         erased => erased', recalled => recalled'
  PROVE  RowsInv'
<1>1. DOMAIN cmd' = DOMAIN cmd /\ (SavedOutside => erased \/ recalled)
  BY SavedInside
<1> QED
  BY <1>1 DEF RowsInv

\* ... and the readers.
LEMMA ReadersSame ==
  ASSUME ReadersInv, UNCHANGED <<cpc, want>>, erased => erased', erased' \/ UNCHANGED <<r, w>>
  PROVE  ReadersInv'
BY DEF ReadersInv, SleepsOnEmpty

\* Where ^U and the arrows leave e.
LEMMA LineStartIs ==
  ASSUME ConsoleConstants, IndexInv
  PROVE  /\ LineStart \in Index
         /\ Distance(w, LineStart) <= Unfinished
         /\ (\A k \in 1..Unfinished : buf[Ring(w + k - 1)] # Newline) => LineStart = w
<1> DEFINE nl == {k \in 1..Unfinished : buf[Ring(w + k - 1)] = Newline}
           m == IF nl = {} THEN 0 ELSE Max(nl)
<1>1. w \in Index /\ e \in Index
  BY DEF IndexInv, Index
<1>2. Unfinished \in Index
  BY <1>1, DistanceIs DEF Unfinished
<1>3. m \in 0..Unfinished
  <2>1. CASE nl = {}
    BY <1>2, <2>1, ConsoleSizes DEF Index
  <2>2. CASE nl # {}
    <3>1. nl \in SUBSET (1..Unfinished) /\ Unfinished \in Nat
      BY <1>2 DEF Index
    <3> HIDE DEF nl
    <3>2. Max(nl) \in nl
      BY <2>2, <3>1, GreatestIn
    <3>3. m = Max(nl)
      BY <2>2
    <3>4. Max(nl) \in 1..Unfinished
      BY <3>1, <3>2
    <3>5. Max(nl) \in 0..Unfinished
      BY <3>1, <3>4
    <3> HIDE DEF m
    <3> QED
      BY <3>3, <3>5
  <2> QED
    BY <2>1, <2>2
<1>4. LineStart = (w + m) % ConsoleWrap
  BY DEF LineStart
<1> HIDE DEF m
<1>5. m \in Index
  BY <1>2, <1>3, ConsoleSizes DEF Index
<1>6. LineStart \in Index /\ Distance(w, LineStart) = m
  BY <1>1, <1>4, <1>5, DistanceAhead
<1>7. ASSUME \A k \in 1..Unfinished : buf[Ring(w + k - 1)] # Newline PROVE LineStart = w
  <2>1. nl = {}
    BY <1>7
  <2>2. m = 0
    BY <2>1 DEF m
  <2> QED
    BY <1>1, <1>6, <2>2, DistanceIs
<1> QED
  BY <1>2, <1>3, <1>6, <1>7 DEF Index

\* The line as it is read from w.
LEMMA LineFromW ==
  ASSUME ConsoleConstants, IndexInv, TextInv, Known
  PROVE  /\ \A k \in 1..Unfinished : line[k] = buf[Ring(w + k - 1)] /\ buf[Ring(w + k - 1)] # Newline
         /\ Len(line) = Unfinished
<1>1. r \in Index /\ w \in Index
  BY DEF IndexInv, Index
<1>2. w = (r + Distance(r, w)) % ConsoleWrap /\ Distance(r, w) \in Index /\ Distance(r, w) \in 0..ConsoleWrap
  BY <1>1, DistanceIs, ConsoleSizes DEF Index
<1>3. /\ Len(due) = Distance(r, w) /\ Len(line) = Unfinished /\ Unfinished \in Nat
      /\ \A k \in 1..Len(line) : line[k] = buf[Ring(r + Len(due) + k - 1)] /\ line[k] # Newline
  BY DEF TextInv, ToSet, Unfinished
<1>4. ASSUME NEW k \in 1..Unfinished PROVE Ring(w + k - 1) = Ring(r + Len(due) + k - 1)
  <2> DEFINE i == k - 1
  <2>1. i \in Int
    BY <1>3
  <2> HIDE DEF i
  <2>2. Ring(((r + Distance(r, w)) % ConsoleWrap) + i) = Ring(r + Distance(r, w) + i)
    BY <1>1, <1>2, <2>1, RingWrap
  <2>3. Ring(w + i) = Ring(r + Len(due) + i)
    BY <1>2, <1>3, <2>2
  <2>4. w + k - 1 = w + i /\ r + Len(due) + k - 1 = r + Len(due) + i
    BY <1>1, <1>2, <1>3 DEF i, Index
  <2> QED
    BY <2>3, <2>4
<1> QED
  BY <1>3, <1>4

LEMMA KillLineInv ==
  ASSUME ConsoleConstants, ConsoleInv, KillLine
  PROVE  ConsoleInv'
<1> USE DEF ConsoleInv
<1>1. /\ e' = LineStart /\ line' = <<>> /\ cmd' = Saved /\ wild' = SavedOutside
      /\ UNCHANGED <<buf, r, w, back, first, last, current, cpc, want, due, erased, recalled, strayed>>
  BY DEF KillLine, readers
<1>2. ReadersInv' /\ RowsInv'
  BY <1>1, RowsSame, ReadersSame
<1>3. r \in Index /\ w \in Index /\ e \in Index /\ e' \in Index
  BY <1>1, LineStartIs DEF IndexInv, Index
<1>4. IndexInv'
  <2>1. ASSUME ~erased, ~recalled
        PROVE  /\ Distance(r, e') = Distance(r, w) + Distance(w, e')
               /\ Distance(r, e') <= INPUT_BUF
               /\ Distance(r, e') = INPUT_BUF => w = e'
    <3>1. /\ Distance(r, e) = Distance(r, w) + Distance(w, e)
          /\ Distance(r, e) <= INPUT_BUF
          /\ Distance(r, e) = INPUT_BUF => w = e
      BY <2>1 DEF IndexInv
    <3>2. Distance(w, e') <= Distance(w, e)
      BY <1>1, LineStartIs DEF Unfinished
    <3>3. /\ Distance(r, w) \in Index /\ Distance(w, e) \in Index /\ Distance(w, e') \in Index
          /\ (w = e => Distance(w, e) = 0) /\ (Distance(w, e') = 0 => w = e')
      BY <1>3, DistanceIs
    <3>4. Distance(r, w) + Distance(w, e') < ConsoleWrap
      BY <3>1, <3>2, <3>3, ConsoleSizes DEF Index
    <3>5. Distance(r, e') = Distance(r, w) + Distance(w, e')
      BY <1>3, <3>4, DistanceAdds
    <3> QED
      BY <3>1, <3>2, <3>3, <3>5, ConsoleSizes DEF Index
  <2>2. /\ Distance(r, w)' = Distance(r, w) /\ Distance(r, e)' = Distance(r, e') /\ Distance(w, e)' = Distance(w, e')
    BY <1>1 DEF Distance
  <2> QED
    BY <1>1, <1>3, <2>1, <2>2 DEF IndexInv, Index
<1>5. TextInv'
  <2> SUFFICES ASSUME Known' PROVE TextInv'
    BY DEF TextInv
  <2>1. Known
    BY <1>1 DEF Known
  <2>2. e' = w
    BY <1>1, <2>1, LineFromW, LineStartIs
  <2>3. Distance(w, e)' = 0 /\ Distance(r, w)' = Distance(r, w)
    <3>1. Distance(w, w) = 0
      BY <1>3, DistanceIs
    <3> QED
      BY <1>1, <2>2, <3>1 DEF Distance
  <2>4. <<>> \in Seq(Chars) /\ Newline \notin ToSet(<<>>) /\ Len(<<>>) = 0
    BY DEF ToSet
  <2> QED
    BY <1>1, <2>1, <2>3, <2>4 DEF TextInv, Ring
<1> QED
  BY <1>2, <1>4, <1>5

\* In OS-Lab-4 Backspace shortens the line by its last character; in OS-Lab-1
\* it moves w, and what is promised ends.
LEMMA BackspaceInv ==
  ASSUME ConsoleConstants, ConsoleInv, Backspace
  PROVE  ConsoleInv'
<1> USE DEF ConsoleInv
<1>1. /\ e # w /\ cmd' = Saved /\ wild' = SavedOutside
      /\ UNCHANGED <<buf, r, back, first, last, current, cpc, want, recalled, strayed>>
  BY DEF Backspace, readers
<1>2. r \in Index /\ w \in Index /\ e \in Index
  BY DEF IndexInv, Index
<1>3. CASE clab = 4
  <2>1. e' = (e - 1) % ConsoleWrap /\ line' = Front(line) /\ UNCHANGED <<w, due, erased>>
    BY <1>3 DEF Backspace
  <2>2. ReadersInv' /\ RowsInv'
    BY <1>1, <2>1, RowsSame, ReadersSame
  <2>3. e' \in Index /\ e' = IF e = 0 THEN ConsoleWrap - 1 ELSE e - 1
    <3>1. (e - 1) % ConsoleWrap = IF 1 <= e THEN e - 1 ELSE e - 1 + ConsoleWrap
      <4>1. 1 \in 0..ConsoleWrap-1 /\ e \in 0..ConsoleWrap-1 /\ ConsoleWrap \in Nat \ {0}
        BY <1>2, ConsoleSizes DEF Index
      <4> QED
        BY <4>1, GoBetween
    <3> QED
      BY <1>2, <2>1, <3>1, ConsoleSizes DEF Index
  <2>4. Distance(w, e') = Distance(w, e) - 1 /\ Distance(w, e) \in Nat
    <3>1. /\ Distance(w, e) = IF w <= e THEN e - w ELSE e - w + ConsoleWrap
          /\ Distance(w, e') = IF w <= e' THEN e' - w ELSE e' - w + ConsoleWrap
          /\ Distance(w, e) \in Index
      BY <1>2, <2>3, DistanceIs
    <3> QED
      BY <1>1, <1>2, <2>3, <3>1, ConsoleSizes DEF Index
  <2>5. IndexInv'
    <3>1. ASSUME ~erased, ~recalled
          PROVE  /\ Distance(r, e') = Distance(r, w) + Distance(w, e')
                 /\ Distance(r, e') < INPUT_BUF
      <4>1. Distance(r, e) = Distance(r, w) + Distance(w, e) /\ Distance(r, e) <= INPUT_BUF
        BY <3>1 DEF IndexInv
      <4>2. Distance(r, w) \in Index /\ Distance(w, e) \in Index
        BY <1>2, DistanceIs
      <4>3. Distance(r, w) + Distance(w, e') < ConsoleWrap
        BY <2>4, <4>1, <4>2, ConsoleSizes DEF Index
      <4>4. Distance(r, e') = Distance(r, w) + Distance(w, e')
        BY <1>2, <2>3, <4>3, DistanceAdds
      <4> QED
        BY <2>4, <4>1, <4>2, <4>4, ConsoleSizes DEF Index
    <3>2. /\ Distance(r, w)' = Distance(r, w) /\ Distance(r, e)' = Distance(r, e') /\ Distance(w, e)' = Distance(w, e')
      BY <1>1, <2>1 DEF Distance
    <3>3. ~erased /\ ~recalled => Distance(r, e') # INPUT_BUF /\ Distance(r, e') <= INPUT_BUF
      <4>1. Distance(r, e') \in Index
        BY <1>2, <2>3, DistanceIs
      <4> QED
        BY <3>1, <4>1, ConsoleSizes DEF Index
    <3> QED
      BY <1>1, <1>2, <2>1, <2>3, <3>1, <3>2, <3>3 DEF IndexInv, Index
  <2>6. TextInv'
    <3> SUFFICES ASSUME Known' PROVE TextInv'
      BY DEF TextInv
    <3>1. Known
      BY <1>1, <2>1 DEF Known
    <3>2. /\ line \in Seq(Chars) /\ Len(line) = Distance(w, e) /\ Len(line) > 0
          /\ \A k \in 1..Len(line) : line[k] = buf[Ring(r + Len(due) + k - 1)] /\ line[k] # Newline
      <4>1. Distance(w, e) \in Index /\ Distance(w, e) # 0
        BY <1>1, <1>2, DistanceIs
      <4>2. Newline \notin ToSet(line)
        BY <3>1 DEF TextInv
      <4>3. \A k \in 1..Len(line) : line[k] # Newline
        BY <4>2 DEF ToSet
      <4> QED
        BY <3>1, <4>1, <4>3, ConsoleSizes DEF TextInv, Index
    <3>3. /\ line' \in Seq(Chars) /\ Len(line') = Len(line) - 1
          /\ \A k \in 1..Len(line') : line'[k] = line[k]
      <4>1. Front(line) = SubSeq(line, 1, Len(line) - 1)
        BY DEF Front
      <4>2. SubSeq(line, 1, Len(line) - 1) = [k \in 1..(Len(line) - 1) |-> line[k]]
        BY <3>2
      <4>3. \A k \in 1..(Len(line) - 1) : line[k] \in Chars
        BY <3>2
      <4> QED
        BY <2>1, <3>2, <4>1, <4>2, <4>3
    <3>4. Newline \notin ToSet(line')
      BY <3>2, <3>3 DEF ToSet
    <3>5. Distance(w, e)' = Distance(w, e) - 1 /\ Distance(r, w)' = Distance(r, w)
      BY <1>1, <2>1, <2>4 DEF Distance
    <3>6. \A k \in 1..Len(line') : line'[k] = buf[Ring(r + Len(due) + k - 1)]
      <4>1. Len(line) \in Nat
        BY <3>2
      <4>2. \A k \in 1..Len(line') : k \in 1..Len(line)
        BY <3>3, <4>1
      <4>3. \A k \in 1..Len(line) : line[k] = buf[Ring(r + Len(due) + k - 1)]
        BY <3>2
      <4> QED
        BY ONLY <3>3, <4>2, <4>3
    <3>7. /\ buf' = buf /\ due' = due /\ r' = r
          /\ buf \in [0..INPUT_BUF-1 -> Chars] /\ due \in Seq(Chars) /\ Len(due) = Distance(r, w)
          /\ \A k \in 1..Len(due) : due[k] = buf[Ring(r + k - 1)]
      BY <1>1, <2>1, <3>1 DEF TextInv
    <3>8. \A j : Ring(j)' = Ring(j)
      BY DEF Ring
    <3>9. /\ Len(due') = Distance(r, w)' /\ Len(line') = Distance(w, e)'
          /\ buf' \in [0..INPUT_BUF-1 -> Chars] /\ due' \in Seq(Chars)
      BY <3>2, <3>3, <3>5, <3>7
    <3>10. /\ \A k \in 1..Len(due') : due'[k] = buf'[Ring(r' + k - 1)]
           /\ \A k \in 1..Len(line') : line'[k] = buf'[Ring(r' + Len(due') + k - 1)]
      BY ONLY <3>6, <3>7
    <3> QED
      BY <3>3, <3>4, <3>8, <3>9, <3>10 DEF TextInv
  <2> QED
    BY <2>2, <2>5, <2>6
<1>4. CASE clab # 4
  <2>1. w' = (w - 1) % ConsoleWrap /\ erased' /\ e' = e
    BY <1>4 DEF Backspace
  <2>2. w' \in Index
    <3>1. (w - 1) % ConsoleWrap = IF 1 <= w THEN w - 1 ELSE w - 1 + ConsoleWrap
      <4>1. 1 \in 0..ConsoleWrap-1 /\ w \in 0..ConsoleWrap-1 /\ ConsoleWrap \in Nat \ {0}
        BY <1>2, ConsoleSizes DEF Index
      <4> QED
        BY <4>1, GoBetween
    <3> QED
      BY <1>2, <2>1, <3>1, ConsoleSizes DEF Index
  <2>3. RowsInv'
    BY <1>1, <2>1, RowsSame
  <2>4. IndexInv' /\ TextInv'
    BY <1>1, <1>2, <2>1, <2>2 DEF IndexInv, TextInv, Known, Index
  <2>5. ReadersInv'
    BY <1>1, <2>1 DEF ReadersInv, SleepsOnEmpty
  <2> QED
    BY <2>3, <2>4, <2>5
<1> QED
  BY <1>3, <1>4

LEMMA SameInput ==
  ASSUME ConsoleInv, UNCHANGED <<buf, r, w, e, erased, recalled, strayed, line, due>>, back' \in Int
  PROVE  IndexInv' /\ TextInv'
BY DEF ConsoleInv, IndexInv, TextInv, Known, Distance, Ring

LEMMA MoveCursorInv ==
  ASSUME ConsoleConstants, ConsoleInv, NEW d \in {1, -1}, MoveCursor(d)
  PROVE  ConsoleInv'
<1> USE DEF ConsoleInv
<1>1. /\ UNCHANGED <<buf, r, w, e, erased, recalled, strayed, line, due>> /\ back' = back + d
      /\ cmd' = Saved /\ wild' = SavedOutside
      /\ UNCHANGED <<first, last, current, cpc, want>>
  BY DEF MoveCursor, input, readers, ghosts
<1>2. back' \in Int
  BY <1>1 DEF IndexInv
<1>3. ReadersInv' /\ RowsInv'
  BY <1>1, RowsSame, ReadersSame
<1> QED
  BY <1>1, <1>2, <1>3, SameInput

\* An arrow leaves a row in use, and the same when there is no other.
LEMMA RecallInv ==
  ASSUME ConsoleConstants, ConsoleInv, NEW next \in {Older, Newer}, Recall(next)
  PROVE  ConsoleInv'
<1> USE DEF ConsoleInv
<1>1. /\ current' = next /\ cmd' = Saved
      /\ UNCHANGED <<r, w, back, first, last, cpc, want, erased, strayed>>
  BY DEF Recall, readers
<1>2. ReadersInv'
  BY <1>1, ReadersSame
<1>3. /\ next \in 0..NCMD-1
      /\ (first = 0 /\ next <= last) \/ first = (last + 1) % NCMD
  <2>1. /\ {first, last, current} \subseteq 0..NCMD-1 /\ NCMD \in Nat \ {0}
        /\ (first = 0 /\ current <= last) \/ first = (last + 1) % NCMD
    BY DEF RowsInv, ConsoleConstants
  <2>2. (current + 1) % NCMD \in 0..NCMD-1
    BY <2>1
  <2>3. Older \in 0..NCMD-1 /\ (first = 0 /\ current <= last => Older <= last)
    BY <2>1 DEF Older
  <2>4. Newer \in 0..NCMD-1 /\ (first = 0 /\ current <= last => Newer <= last)
    BY <2>1, <2>2 DEF Newer
  <2> QED
    BY <2>1, <2>3, <2>4
<1>4. DOMAIN cmd' = 0..NCMD*INPUT_BUF-1
  BY <1>1, SavedInside DEF RowsInv
<1>5. CASE next = current
  <2>1. wild' = SavedOutside /\ UNCHANGED <<buf, e, line, due, recalled>>
    BY <1>5 DEF Recall
  <2>2. IndexInv' /\ TextInv'
    BY <1>1, <2>1, SameInput DEF IndexInv
  <2>3. RowsInv'
    BY <1>1, <1>5, <2>1, RowsSame
  <2> QED
    BY <1>2, <2>2, <2>3
<1>6. CASE next # current
  <2> DEFINE ends == {n \in 0..NCMD*INPUT_BUF - 1 - next*INPUT_BUF : Saved[next*INPUT_BUF + n] = Newline}
             n == IF ends = {} THEN 0 ELSE Min(ends)
  <2>1. recalled' /\ e' = (LineStart + n) % ConsoleWrap
    BY <1>6 DEF Recall
  <2>2. n \in Int
    <3>1. ends \in SUBSET Nat
      <4>1. NCMD * INPUT_BUF - 1 - next * INPUT_BUF \in Int
        BY <1>3 DEF ConsoleConstants
      <4> QED
        BY <4>1
    <3>2. ends # {} => Min(ends) \in ends
      BY <3>1, LeastIn
    <3>3. CASE ends = {}
      BY <3>3
    <3>4. CASE ends # {}
      <4>1. n = Min(ends)
        BY <3>4
      <4> HIDE DEF ends, n
      <4>2. Min(ends) \in Nat
        BY <3>1, <3>2, <3>4
      <4> QED
        BY <4>1, <4>2
    <3> QED
      BY <3>3, <3>4
  <2> HIDE DEF n
  <2>3. e' \in Index
    <3>1. LineStart \in Int
      BY LineStartIs, ConsoleSizes DEF Index
    <3>2. LineStart + n \in Int /\ ConsoleWrap \in Nat \ {0}
      BY <2>2, <3>1, ConsoleSizes
    <3> QED
      BY <2>1, <3>2 DEF Index
  <2>4. IndexInv' /\ TextInv'
    BY <1>1, <2>1, <2>3 DEF IndexInv, TextInv, Known, Index
  <2>5. RowsInv'
    BY <1>1, <1>3, <1>4, <2>1 DEF RowsInv
  <2> QED
    BY <1>2, <2>4, <2>5
<1> QED
  BY <1>5, <1>6

LEMMA KillReaderInv ==
  ASSUME ConsoleConstants, ConsoleInv, NEW p \in ConsoleReaders, KillReader(p)
  PROVE  ConsoleInv'
<1> USE DEF ConsoleInv
<1>1. /\ UNCHANGED <<buf, r, w, e, back, erased, recalled, strayed, line, due>>
      /\ UNCHANGED <<cmd, first, last, current, wild, want>>
      /\ cpc' = [cpc EXCEPT ![p] = "killed"]
  BY DEF KillReader, input, history, ghosts
<1>2. IndexInv' /\ TextInv'
  BY <1>1, SameInput DEF IndexInv
<1>3. RowsInv'
  BY <1>1, RowsSame
<1>4. ReadersInv'
  BY <1>1 DEF ReadersInv, SleepsOnEmpty
<1> QED
  BY <1>2, <1>3, <1>4

-----------------------------------------------------------------------------
\* Reading moves r towards w.
LEMMA DistanceBehind ==
  ASSUME ConsoleConstants, NEW a \in Index, NEW b \in Index, NEW k \in 0..Distance(a, b)
  PROVE  /\ (a + k) % ConsoleWrap \in Index
         /\ Distance((a + k) % ConsoleWrap, b) = Distance(a, b) - k
<1> DEFINE x == (a + k) % ConsoleWrap
<1>1. Distance(a, b) \in Index /\ Distance(a, b) = IF a <= b THEN b - a ELSE b - a + ConsoleWrap
  BY DistanceIs
<1>2. k \in 0..ConsoleWrap
  BY <1>1, ConsoleSizes DEF Index
<1>3. x \in Index /\ x = IF a + k < ConsoleWrap THEN a + k ELSE a + k - ConsoleWrap
  BY <1>2, IndexForward
<1> HIDE DEF x
<1>4. Distance(x, b) = IF x <= b THEN b - x ELSE b - x + ConsoleWrap
  BY <1>3, DistanceIs
<1>5. Distance(x, b) = Distance(a, b) - k
  BY <1>1, <1>2, <1>3, <1>4, ConsoleSizes DEF Index
<1> QED
  BY <1>3, <1>5 DEF x

\* What a turn of consoleread takes: all there is before it sleeps.
LEMMA ReadTakes ==
  ASSUME ConsoleConstants, ConsoleInv, NEW p \in ConsoleReaders, NEW n \in Nat, NEW g, ReadOn(p, n, g)
  PROVE  \E taken \in 0..Distance(r, w) :
           /\ r' = (r + taken) % ConsoleWrap /\ taken <= n
           /\ due' = IF Known THEN SubSeq(due, taken + 1, Len(due)) ELSE due
           /\ \/ cpc' = [cpc EXCEPT ![p] = "out"] /\ want' = [want EXCEPT ![p] = 0]
              \/ /\ cpc' = [cpc EXCEPT ![p] = IF cpc[p] = "killed" THEN "out" ELSE "asleep"]
                 /\ want' = [want EXCEPT ![p] = IF cpc[p] = "killed" THEN 0 ELSE n - taken]
                 /\ taken = Distance(r, w)
<1> DEFINE ready == Distance(r, w)
           most == IF n < ready THEN n ELSE ready
           ends == {k \in 1..most : buf[Ring(r + k - 1)] \in {Newline, EOF}}
           k == IF ends = {} THEN most ELSE Min(ends)
           taken == IF ends # {} /\ buf[Ring(r + k - 1)] = EOF /\ g + k > 1 THEN k - 1 ELSE k
<1>1. r \in Index /\ w \in Index
  BY DEF ConsoleInv, IndexInv, Index
<1>2. ready \in Nat /\ most \in 0..ready /\ most <= n /\ (most # n => most = ready)
  <2>1. ready \in Nat
    BY <1>1, DistanceIs, ConsoleSizes DEF Index
  <2> HIDE DEF ready
  <2> QED
    BY <2>1
<1>3. /\ r' = (r + taken) % ConsoleWrap
      /\ due' = IF Known THEN SubSeq(due, taken + 1, Len(due)) ELSE due
      /\ \/ cpc' = [cpc EXCEPT ![p] = "out"] /\ want' = [want EXCEPT ![p] = 0]
         \/ /\ cpc' = [cpc EXCEPT ![p] = IF cpc[p] = "killed" THEN "out" ELSE "asleep"]
            /\ want' = [want EXCEPT ![p] = IF cpc[p] = "killed" THEN 0 ELSE n - taken]
            /\ ends = {} /\ most # n
  BY DEF ReadOn
<1>4. taken \in 0..most /\ (ends = {} => taken = most)
  <2>1. CASE ends = {}
    BY <1>2, <2>1
  <2>2. CASE ends # {}
    <3>1. ends \in SUBSET Nat
      OBVIOUS
    <3>2. Min(ends) \in ends
      BY <2>2, <3>1, LeastIn
    <3>3. Min(ends) \in 1..most /\ k = Min(ends)
      BY <2>2, <3>2
    <3>4. taken = k \/ taken = k - 1
      OBVIOUS
    <3> HIDE DEF ends, k, taken, most
    <3>5. taken \in 0..most
      BY <1>2, <3>3, <3>4
    <3> QED
      BY <2>2, <3>5
  <2> QED
    BY <2>1, <2>2
<1> HIDE DEF ready, most, ends, k, taken
<1>5. taken \in 0..ready /\ taken <= n /\ (ends = {} /\ most # n => taken = ready)
  BY <1>2, <1>4
<1>6. taken \in 0..Distance(r, w) /\ (ends = {} /\ most # n => taken = Distance(r, w))
  BY <1>5 DEF ready
<1> QED
  BY <1>3, <1>5, <1>6

LEMMA ReadOnInv ==
  ASSUME ConsoleConstants, ConsoleInv, NEW p \in ConsoleReaders, NEW n \in Nat, NEW g, ReadOn(p, n, g)
  PROVE  ConsoleInv'
<1> USE DEF ConsoleInv
<1>1. UNCHANGED <<buf, w, e, back, cmd, first, last, current, line, erased, recalled, strayed, wild>>
  BY DEF ReadOn, history
<1>2. PICK taken \in 0..Distance(r, w) :
           /\ r' = (r + taken) % ConsoleWrap /\ taken <= n
           /\ due' = IF Known THEN SubSeq(due, taken + 1, Len(due)) ELSE due
           /\ \/ cpc' = [cpc EXCEPT ![p] = "out"] /\ want' = [want EXCEPT ![p] = 0]
              \/ /\ cpc' = [cpc EXCEPT ![p] = IF cpc[p] = "killed" THEN "out" ELSE "asleep"]
                 /\ want' = [want EXCEPT ![p] = IF cpc[p] = "killed" THEN 0 ELSE n - taken]
                 /\ taken = Distance(r, w)
  BY ReadTakes
<1>3. r \in Index /\ w \in Index /\ e \in Index
  BY DEF IndexInv, Index
<1>4. /\ r' \in Index /\ Distance(r', w) = Distance(r, w) - taken
      /\ Distance(r, w) \in Nat /\ Distance(w, e) \in Nat /\ taken \in Nat
  <2>1. Distance(r, w) \in Nat /\ Distance(w, e) \in Nat
    BY <1>3, DistanceIs, ConsoleSizes DEF Index
  <2> QED
    BY <1>2, <1>3, <2>1, DistanceBehind
<1>5. /\ Distance(r, w)' = Distance(r', w) /\ Distance(r, e)' = Distance(r', e) /\ Distance(w, e)' = Distance(w, e)
  BY <1>1 DEF Distance
<1>6. IndexInv'
  <2>1. ASSUME ~erased, ~recalled
        PROVE  /\ Distance(r', e) = Distance(r', w) + Distance(w, e)
               /\ Distance(r', e) <= INPUT_BUF
               /\ Distance(r', e) = INPUT_BUF => w = e
    <3>1. /\ Distance(r, e) = Distance(r, w) + Distance(w, e)
          /\ Distance(r, e) <= INPUT_BUF
          /\ Distance(r, e) = INPUT_BUF => w = e
      BY <2>1 DEF IndexInv
    <3>2. taken \in 0..Distance(r, e)
      BY <1>2, <1>4, <3>1
    <3>3. Distance(r', e) = Distance(r, e) - taken
      BY <1>2, <1>3, <3>2, DistanceBehind
    <3> QED
      BY <1>4, <3>1, <3>3, ConsoleSizes
  <2> QED
    BY <1>1, <1>3, <1>4, <1>5, <2>1 DEF IndexInv, Index
<1>7. ReadersInv'
  <2>1. cpc' \in [ConsoleReaders -> {"out", "asleep", "ready", "killed"}]
    BY <1>2 DEF ReadersInv
  <2>2. want' \in [ConsoleReaders -> Nat]
    <3>1. n - taken \in Nat /\ 0 \in Nat
      BY <1>2, <1>4
    <3> QED
      BY <1>2, <3>1 DEF ReadersInv
  <2>3. ASSUME ~erased, NEW q \in ConsoleReaders, cpc'[q] = "asleep" PROVE r' = w
    <3>1. taken = Distance(r, w)
      <4>1. CASE q = p
        BY <1>2, <2>3, <4>1 DEF ReadersInv
      <4>2. CASE q # p
        <5>1. cpc[q] = "asleep"
          BY <1>2, <2>3, <4>2 DEF ReadersInv
        <5>2. r = w
          BY <2>3, <5>1 DEF ReadersInv, SleepsOnEmpty
        <5>3. Distance(r, w) = 0
          BY <1>3, <5>2, DistanceIs
        <5> QED
          BY <1>2, <1>4, <5>3
      <4> QED
        BY <4>1, <4>2
    <3> QED
      BY <1>2, <1>3, <3>1, DistanceIs
  <2> QED
    BY <1>1, <2>1, <2>2, <2>3 DEF ReadersInv, SleepsOnEmpty
<1>8. RowsInv'
  BY <1>1, RowsSame
<1>9. TextInv'
  <2> SUFFICES ASSUME Known' PROVE TextInv'
    BY DEF TextInv
  <2>1. Known
    BY <1>1 DEF Known
  <2>2. /\ due \in Seq(Chars) /\ Len(due) = Distance(r, w) /\ Len(line) \in Nat
        /\ line \in Seq(Chars)
        /\ \A k \in 1..Len(due) : due[k] = buf[Ring(r + k - 1)]
        /\ \A k \in 1..Len(line) : line[k] = buf[Ring(r + Len(due) + k - 1)]
    BY <2>1 DEF TextInv
  <2>3. /\ due' \in Seq(Chars) /\ Len(due') = Len(due) - taken
        /\ \A k \in 1..Len(due') : due'[k] = due[taken + k]
    <3>1. due' = SubSeq(due, taken + 1, Len(due))
      BY <1>2, <2>1
    <3>2. taken + 1 \in Int /\ Len(due) \in Nat /\ taken <= Len(due) /\ taken \in Nat
      BY <1>2, <1>4, <2>2
    <3>3. SubSeq(due, taken + 1, Len(due)) = [k \in 1..(Len(due) - taken) |-> due[taken + k]]
      BY <2>2, <3>2
    <3>4. \A k \in 1..(Len(due) - taken) : due[taken + k] \in Chars
      BY <2>2, <3>2
    <3> DEFINE m == Len(due) - taken
    <3>5. m \in Nat
      BY <3>2
    <3> HIDE DEF m
    <3>6. due' = [k \in 1..m |-> due[taken + k]] /\ \A k \in 1..m : due[taken + k] \in Chars
      BY <3>1, <3>3, <3>4 DEF m
    <3>7. due' \in Seq(Chars) /\ Len(due') = m /\ \A k \in 1..m : due'[k] = due[taken + k]
      BY <3>5, <3>6
    <3> QED
      BY <3>7 DEF m
  <2>4. \A i \in Int : Ring(r' + i) = Ring(r + taken + i)
    <3>1. taken \in 0..ConsoleWrap
      BY <1>2, <1>3, <1>4, DistanceIs, ConsoleSizes DEF Index
    <3> QED
      BY <1>2, <1>3, <3>1, RingWrap
  <2>5. ASSUME NEW k \in 1..Len(due') PROVE due'[k] = buf[Ring(r' + k - 1)]
    <3> DEFINE i == k - 1
    <3>1. k \in Int /\ i \in Int /\ r \in Int /\ r' \in Int
      BY <1>3, <1>4, <2>2, <2>3, ConsoleSizes DEF Index
    <3>2. r' + i = r' + k - 1 /\ r + taken + i = r + (taken + k) - 1
      BY <1>4, <3>1
    <3> HIDE DEF i
    <3>3. Ring(r' + k - 1) = Ring(r + (taken + k) - 1)
      BY <2>4, <3>1, <3>2
    <3>4. taken + k \in 1..Len(due)
      BY <1>4, <2>2, <2>3
    <3> QED
      BY <2>2, <2>3, <3>3, <3>4
  <2>6. ASSUME NEW k \in 1..Len(line) PROVE line[k] = buf[Ring(r' + Len(due') + k - 1)]
    <3> DEFINE i == Len(due') + k - 1
    <3>1. k \in Int /\ i \in Int /\ r \in Int /\ r' \in Int /\ Len(due') = Len(due) - taken /\ Len(due) \in Int
      BY ONLY <1>3, <1>4, <2>2, <2>3, ConsoleSizes DEF Index
    <3>2. r' + i = r' + Len(due') + k - 1 /\ r + taken + i = r + Len(due) + k - 1
      BY <1>4, <3>1
    <3> HIDE DEF i
    <3>3. Ring(r' + Len(due') + k - 1) = Ring(r + Len(due) + k - 1)
      BY <2>4, <3>1, <3>2
    <3> QED
      BY <2>2, <3>3
  <2>7. Len(due') = Distance(r', w)
    BY <1>4, <2>2, <2>3
  <2> QED
    BY <1>1, <1>5, <2>1, <2>2, <2>3, <2>5, <2>6, <2>7 DEF TextInv, Ring
<1> QED
  BY <1>6, <1>7, <1>8, <1>9

-----------------------------------------------------------------------------
\* What a key at the end of the line, or inside it, leaves: the finished text,
\* and behind it the line s with the key c.
Edited(s, c) ==
  /\ s \in Seq(Chars) /\ Len(s) = Len(line) + 1
  /\ buf' \in [0..INPUT_BUF-1 -> Chars]
  /\ \A k \in 1..Len(due) : due[k] = buf'[Ring(r + k - 1)]
  /\ \A k \in 1..Len(s) : s[k] = buf'[Ring(r + Len(due) + k - 1)]
  /\ c # Newline => Newline \notin ToSet(s)

\* Places of the finished text and the line are different bytes.
LEMMA TextApart ==
  ASSUME ConsoleConstants, NEW n \in Nat, n < INPUT_BUF, NEW x \in Index,
         NEW i \in 0..n, NEW j \in 0..n, i # j
  PROVE  Ring(x + i) # Ring(x + j)
<1>1. x + i \in Int /\ x + j \in Int /\ x + i # x + j
  BY ConsoleSizes DEF Index
<1>2. (x + i) - (x + j) < INPUT_BUF /\ (x + j) - (x + i) < INPUT_BUF
  BY ConsoleSizes DEF Index
<1> QED
  BY <1>1, <1>2, RingApart

\* The text as one, from r on.
LEMMA TextFacts ==
  ASSUME ConsoleConstants, ConsoleInv, Known
  PROVE  /\ r \in Index /\ w \in Index /\ e \in Index
         /\ buf \in [0..INPUT_BUF-1 -> Chars] /\ due \in Seq(Chars) /\ line \in Seq(Chars)
         /\ Len(due) \in Nat /\ Len(line) \in Nat
         /\ Len(due) = Distance(r, w) /\ Len(line) = Distance(w, e)
         /\ Distance(r, e) = Len(due) + Len(line)
         /\ \A k \in 1..Len(due) : due[k] = buf[Ring(r + k - 1)]
         /\ \A k \in 1..Len(line) : line[k] = buf[Ring(r + Len(due) + k - 1)]
         /\ \A k \in 1..Len(line) : line[k] # Newline
<1>1. /\ buf \in [0..INPUT_BUF-1 -> Chars] /\ due \in Seq(Chars) /\ line \in Seq(Chars)
      /\ Len(due) = Distance(r, w) /\ Len(line) = Distance(w, e)
      /\ \A k \in 1..Len(due) : due[k] = buf[Ring(r + k - 1)]
      /\ \A k \in 1..Len(line) : line[k] = buf[Ring(r + Len(due) + k - 1)]
      /\ Newline \notin ToSet(line)
  BY DEF ConsoleInv, TextInv
<1>2. r \in Index /\ w \in Index /\ e \in Index /\ Distance(r, e) = Distance(r, w) + Distance(w, e)
  BY DEF ConsoleInv, IndexInv, Index, Known
<1>3. \A k \in 1..Len(line) : line[k] # Newline
  BY <1>1 DEF ToSet
<1> QED
  BY <1>1, <1>2, <1>3

LEMMA PutOne ==
  ASSUME NEW i \in Int, NEW c
  PROVE  PutText(i, <<c>>) = [j \in DOMAIN buf |-> IF Ring(i) = j THEN c ELSE buf[j]]
<1> DEFINE ks(j) == {k \in 1..Len(<<c>>) : Ring(i + k - 1) = j}
<1>1. Len(<<c>>) = 1 /\ <<c>>[1] = c
  OBVIOUS
<1>2. \A j : ks(j) \in SUBSET (1..1) /\ (1 \in ks(j) <=> Ring(i) = j)
  <2>1. i + 1 - 1 = i /\ 1 \in 1..1
    OBVIOUS
  <2> QED
    BY <1>1, <2>1
<1>3. \A j : ks(j) # {} => Ring(i) = j /\ Max(ks(j)) = 1
  <2> TAKE j
  <2> SUFFICES ASSUME ks(j) # {} PROVE Ring(i) = j /\ Max(ks(j)) = 1
    OBVIOUS
  <2>1. ks(j) \in SUBSET (1..1) /\ ks(j) # {} /\ 1 \in Nat
    BY <1>2
  <2> HIDE DEF ks
  <2>2. Max(ks(j)) \in ks(j)
    BY <2>1, GreatestIn
  <2>3. Max(ks(j)) = 1
    BY <2>1, <2>2
  <2> QED
    BY <1>2, <2>2, <2>3
<1>4. PutText(i, <<c>>) = [j \in DOMAIN buf |-> IF ks(j) = {} THEN buf[j] ELSE <<c>>[Max(ks(j))]]
  BY DEF PutText
<1> HIDE DEF ks
<1>5. ASSUME NEW j PROVE (IF ks(j) = {} THEN buf[j] ELSE <<c>>[Max(ks(j))]) = IF Ring(i) = j THEN c ELSE buf[j]
  <2>1. CASE ks(j) = {}
    BY <1>2, <2>1
  <2>2. CASE ks(j) # {}
    BY <1>1, <1>3, <2>2
  <2> QED
    BY <2>1, <2>2
<1> QED
  BY <1>4, <1>5

LEMMA TypedAtEnd ==
  ASSUME ConsoleConstants, ConsoleInv, Known, NEW c \in Chars, Distance(r, e) < INPUT_BUF,
         buf' = PutText(e, <<c>>)
  PROVE  Edited(Append(line, c), c)
<1> DEFINE s == Append(line, c)
           n == Len(due) + Len(line)
<1>1. /\ r \in Index /\ e \in Index
      /\ buf \in [0..INPUT_BUF-1 -> Chars] /\ line \in Seq(Chars)
      /\ Len(due) \in Nat /\ Len(line) \in Nat /\ Distance(r, e) = n
      /\ \A k \in 1..Len(due) : due[k] = buf[Ring(r + k - 1)]
      /\ \A k \in 1..Len(line) : line[k] = buf[Ring(r + Len(due) + k - 1)] /\ line[k] # Newline
  BY TextFacts
<1>2. n \in Nat /\ n < INPUT_BUF
  BY <1>1
<1>3. Ring(e) = Ring(r + n) /\ r \in Int /\ e \in Int
  <2>1. e = (r + n) % ConsoleWrap /\ n \in 0..ConsoleWrap
    BY <1>1, <1>2, DistanceIs, ConsoleSizes
  <2>2. Ring(((r + n) % ConsoleWrap) + 0) = Ring(r + n + 0)
    BY <1>1, <2>1, RingWrap
  <2>3. e + 0 = e /\ r + n + 0 = r + n /\ r \in Int /\ e \in Int
    BY <1>1, <1>2, ConsoleSizes DEF Index
  <2> QED
    BY <2>1, <2>2, <2>3
<1>4. buf' = [j \in 0..INPUT_BUF-1 |-> IF Ring(r + n) = j THEN c ELSE buf[j]]
  BY <1>1, <1>3, PutOne
<1>5. buf' \in [0..INPUT_BUF-1 -> Chars]
  BY <1>1, <1>4
<1>6. ASSUME NEW i \in 0..n
      PROVE  buf'[Ring(r + i)] = IF i = n THEN c ELSE buf[Ring(r + i)]
  <2>1. r + i \in Int /\ Ring(r + i) \in 0..INPUT_BUF-1
    BY <1>2, <1>3, RingRange
  <2>2. i # n => Ring(r + n) # Ring(r + i)
    <3>1. n \in 0..n
      BY <1>2
    <3> HIDE DEF n
    <3> QED
      BY <1>1, <1>2, <3>1, TextApart
  <2> QED
    BY <1>4, <2>1, <2>2
<1>7. /\ s \in Seq(Chars) /\ Len(s) = Len(line) + 1
      /\ s[Len(line) + 1] = c /\ \A k \in 1..Len(line) : s[k] = line[k]
  BY <1>1
<1>8. ASSUME NEW k \in 1..Len(due) PROVE due[k] = buf'[Ring(r + k - 1)]
  <2> DEFINE i == k - 1
  <2>1. i \in 0..n /\ i # n /\ r + k - 1 = r + i
    BY <1>1, <1>3
  <2> HIDE DEF i, n
  <2> QED
    BY <1>1, <1>6, <2>1
<1>9. ASSUME NEW k \in 1..Len(s) PROVE s[k] = buf'[Ring(r + Len(due) + k - 1)]
  <2> DEFINE i == Len(due) + k - 1
  <2>0. k \in 1..Len(line) + 1 /\ Len(due) \in Nat /\ Len(line) \in Nat /\ r \in Int
    BY <1>1, <1>3, <1>7
  <2>1. /\ i \in 0..n /\ r + Len(due) + k - 1 = r + i /\ (i = n <=> k = Len(line) + 1)
        /\ k \in 1..Len(line) \/ k = Len(line) + 1
    BY <2>0
  <2> HIDE DEF i, n, s
  <2> QED
    BY <1>1, <1>6, <1>7, <2>1
<1>10. ASSUME c # Newline PROVE Newline \notin ToSet(s)
  <2>1. \A k \in 1..Len(s) : k \in 1..Len(line) \/ k = Len(line) + 1
    BY <1>1, <1>7
  <2>2. \A k \in 1..Len(s) : s[k] # Newline
    BY <1>1, <1>7, <1>10, <2>1
  <2> HIDE DEF s
  <2> QED
    BY <2>2 DEF ToSet
<1> HIDE DEF s
<1>11. Edited(s, c)
  BY <1>5, <1>7, <1>8, <1>9, <1>10 DEF Edited
<1> QED
  BY <1>11 DEF s

LEMMA ConcatIs ==
  ASSUME NEW S, NEW s \in Seq(S), NEW t \in Seq(S)
  PROVE  /\ s \o t \in Seq(S) /\ Len(s \o t) = Len(s) + Len(t)
         /\ \A k \in 1..Len(s) : (s \o t)[k] = s[k]
         /\ \A k \in 1..Len(t) : (s \o t)[Len(s) + k] = t[k]
OBVIOUS

LongerBy(S, s, i, x, t) ==
  /\ t \in Seq(S) /\ Len(t) = Len(s) + 1
  /\ \A k \in 1..Len(s) + 1 : t[k] = IF k < i THEN s[k] ELSE IF k = i THEN x ELSE s[k - 1]

LEMMA InsertIs ==
  ASSUME NEW S, NEW s \in Seq(S), NEW x \in S, NEW i \in 1..Len(s)
  PROVE  LongerBy(S, s, i, x, InsertAt(s, i, x))
<1> DEFINE a == SubSeq(s, 1, i - 1)
           b == SubSeq(s, i, Len(s))
           m == i - 1
           n == Len(s) - i + 1
<1>1. Len(s) \in Nat /\ m \in Nat /\ n \in Nat /\ i \in Int
  OBVIOUS
<1>2. a = [k \in 1..m |-> s[k]]
  OBVIOUS
<1>3. b = [k \in 1..n |-> s[i + k - 1]]
  OBVIOUS
<1>4. (\A k \in 1..m : s[k] \in S) /\ (\A k \in 1..n : s[i + k - 1] \in S)
  BY <1>1
<1>5. InsertAt(s, i, x) = (a \o <<x>>) \o b
  BY DEF InsertAt
<1> HIDE DEF a, b
<1>6. a \in Seq(S) /\ Len(a) = m /\ \A k \in 1..m : a[k] = s[k]
  <2> HIDE DEF m
  <2> QED
    BY <1>1, <1>2, <1>4
<1>7. b \in Seq(S) /\ Len(b) = n /\ \A k \in 1..n : b[k] = s[i + k - 1]
  <2> HIDE DEF n
  <2> QED
    BY <1>1, <1>3, <1>4
<1> DEFINE t == a \o <<x>>
<1>8. /\ t \in Seq(S) /\ Len(t) = m + 1 /\ t[m + 1] = x /\ \A k \in 1..m : t[k] = s[k]
  BY <1>1, <1>6
<1> HIDE DEF t
<1> HIDE DEF m, n
<1> DEFINE v == t \o b
<1>9. /\ v \in Seq(S) /\ Len(v) = m + 1 + n
      /\ \A k \in 1..m + 1 : v[k] = t[k]
      /\ \A k \in 1..n : v[m + 1 + k] = b[k]
  <2>1. /\ t \o b \in Seq(S) /\ Len(t \o b) = Len(t) + Len(b)
        /\ \A k \in 1..Len(t) : (t \o b)[k] = t[k]
        /\ \A k \in 1..Len(b) : (t \o b)[Len(t) + k] = b[k]
    <3>1. t \in Seq(S) /\ b \in Seq(S)
      BY <1>7, <1>8
    <3> QED
      BY ONLY <3>1, ConcatIs
  <2>2. Len(t) = m + 1 /\ Len(b) = n
    BY <1>7, <1>8
  <2> QED
    BY <2>1, <2>2
<1> HIDE DEF v
<1> USE DEF m, n
<1>10. ASSUME NEW k \in 1..Len(s) + 1
       PROVE  v[k] = IF k < i THEN s[k] ELSE IF k = i THEN x ELSE s[k - 1]
  <2>1. CASE k < i
    BY <1>1, <1>8, <1>9, <2>1
  <2>2. CASE k = i
    BY <1>1, <1>8, <1>9, <2>2
  <2>3. CASE k > i
    <3> DEFINE j == k - i
    <3>1. j \in 1..n /\ k = m + 1 + j /\ i + j - 1 = k - 1
      BY <1>1, <2>3
    <3> HIDE DEF j, n, m
    <3>2. v[k] = s[k - 1]
      BY <1>7, <1>9, <3>1
    <3> QED
      BY <1>1, <2>3, <3>2
  <2> QED
    BY <1>1, <2>1, <2>2, <2>3
<1>11. m + 1 + n = Len(s) + 1
  BY <1>1
<1>12. InsertAt(s, i, x) = v
  BY <1>5 DEF v, t
<1> QED
  BY <1>9, <1>10, <1>11, <1>12 DEF LongerBy

\* addCharAtIndex, with the cursor on the line and the line unbroken in the ring.
LEMMA TypedInside ==
  ASSUME ConsoleConstants, ConsoleInv, Known, NEW c \in Chars, Distance(r, e) < INPUT_BUF,
         OnLine, buf' = Inserted(c)
  PROVE  Edited(InsertAt(line, Len(line) - back + 1, c), c)
<1> DEFINE x == Len(line) - back + 1
           s == InsertAt(line, x, c)
           d == Len(due)
           i == e - back
<1>1. /\ r \in Index /\ w \in Index /\ e \in Index
      /\ buf \in [0..INPUT_BUF-1 -> Chars] /\ line \in Seq(Chars)
      /\ d \in Nat /\ Len(line) \in Nat /\ Distance(r, e) = d + Len(line)
      /\ d = Distance(r, w) /\ Len(line) = Distance(w, e)
      /\ \A k \in 1..Len(due) : due[k] = buf[Ring(r + k - 1)]
      /\ \A k \in 1..Len(line) : line[k] = buf[Ring(r + Len(due) + k - 1)] /\ line[k] # Newline
  BY TextFacts
<1>2. /\ back \in Int /\ 0 < back /\ back <= Len(line) /\ w <= e /\ e < INPUT_BUF
  BY DEF OnLine, ConsoleInv, IndexInv
<1>3. r \in Int /\ w \in Int /\ e \in Int /\ 0 <= w
  BY <1>1, ConsoleSizes DEF Index
<1>4. Len(line) = e - w
  BY <1>1, <1>2, <1>3, DistanceIs
<1>5. x \in 1..Len(line) /\ i = w + x - 1 /\ i \in 0..e /\ Ring(e) = e
  <2>1. x \in 1..Len(line) /\ i = w + x - 1 /\ i \in 0..e
    BY <1>2, <1>3, <1>4
  <2>2. Ring(e) = e
    <3>1. e \in Int /\ e \in 0..INPUT_BUF-1
      BY <1>2, <1>3, ConsoleSizes
    <3>2. \A m \in Int : m \in 0..INPUT_BUF-1 => Ring(m) = m
      BY ONLY ConsoleConstants, RingRange
    <3> QED
      BY ONLY <3>1, <3>2
  <2> QED
    BY <2>1, <2>2
<1>6. buf' = [j \in 0..INPUT_BUF-1 |-> IF j = i THEN c ELSE IF j \in i+1..e THEN buf[j-1] ELSE buf[j]]
  BY <1>1, <1>5 DEF Inserted
<1>7. /\ s \in Seq(Chars) /\ Len(s) = Len(line) + 1
      /\ \A k \in 1..Len(line) + 1 : s[k] = IF k < x THEN line[k] ELSE IF k = x THEN c ELSE line[k - 1]
  <2> HIDE DEF x
  <2>1. line \in Seq(Chars) /\ x \in 1..Len(line)
    BY <1>1, <1>5
  <2> HIDE DEF s
  <2>2. LongerBy(Chars, line, x, c, InsertAt(line, x, c))
    BY ONLY <2>1, c \in Chars, InsertIs
  <2>3. LongerBy(Chars, line, x, c, s)
    BY <2>2 DEF s
  <2> QED
    BY ONLY <2>3 DEF LongerBy
<1> HIDE DEF s, x
<1>8. ASSUME NEW m \in 0..Len(line) PROVE Ring(r + d + m) = w + m /\ w + m \in 0..INPUT_BUF-1
  <2>1. w = (r + d) % ConsoleWrap /\ d \in 0..ConsoleWrap
    BY <1>1, DistanceIs, ConsoleSizes DEF Index
  <2>2. Ring(((r + d) % ConsoleWrap) + m) = Ring(r + d + m)
    BY <1>1, <2>1, RingWrap
  <2>3. w + m \in 0..INPUT_BUF-1
    BY <1>2, <1>3, <1>4, ConsoleSizes
  <2>4. Ring(w + m) = w + m
    BY <2>3, RingRange
  <2> QED
    BY <2>1, <2>2, <2>3, <2>4
<1>9. \A k \in 1..Len(line) : line[k] = buf[w + k - 1]
  <2> TAKE k \in 1..Len(line)
  <2> DEFINE m == k - 1
  <2>1. m \in 0..Len(line) /\ r + Len(due) + k - 1 = r + d + m /\ w + k - 1 = w + m
    BY <1>1, <1>3
  <2> HIDE DEF m
  <2> QED
    BY <1>1, <1>8, <2>1
<1>10. buf' \in [0..INPUT_BUF-1 -> Chars]
  <2>1. ASSUME NEW j \in 0..INPUT_BUF-1, j \in i+1..e PROVE buf[j-1] \in Chars
    <3>1. j - 1 \in 0..INPUT_BUF-1
      BY <1>2, <1>3, <1>5, <2>1, ConsoleSizes
    <3> QED
      BY <1>1, <3>1
  <2>2. ASSUME NEW j \in 0..INPUT_BUF-1
        PROVE (IF j = i THEN c ELSE IF j \in i+1..e THEN buf[j-1] ELSE buf[j]) \in Chars
    BY <1>1, <2>1
  <2> HIDE DEF i
  <2> QED
    BY <1>6, <2>2
<1>11. ASSUME NEW k \in 1..Len(due) PROVE due[k] = buf'[Ring(r + k - 1)]
  <2> DEFINE j == Ring(r + k - 1)
  <2>1. j \in 0..INPUT_BUF-1
    <3>1. r + k - 1 \in Int
      BY <1>3
    <3> HIDE DEF j
    <3>2. \A m \in Int : Ring(m) \in 0..INPUT_BUF-1
      BY ONLY ConsoleConstants, RingRange
    <3> QED
      BY <3>1, <3>2 DEF j
  <2>2. ASSUME NEW m \in 0..Len(line) PROVE j # w + m
    <3> DEFINE n == d + Len(line)
               a == k - 1
               b == d + m
    <3>1. n \in Nat /\ n < INPUT_BUF /\ a \in 0..n /\ b \in 0..n /\ a # b
          /\ r + k - 1 = r + a /\ r + d + m = r + b
      BY <1>1, <1>3
    <3> HIDE DEF n, a, b
    <3>2. Ring(r + a) # Ring(r + b)
      BY <1>1, <3>1, TextApart
    <3> QED
      BY <1>8, <3>1, <3>2
  <2>3. j # i /\ j \notin i+1..e
    <3>1. ASSUME NEW y \in i..e PROVE j # y
      <4>1. y - w \in 0..Len(line) /\ w + (y - w) = y
        BY <1>2, <1>3, <1>4, <1>5
      <4> DEFINE m == y - w
      <4>2. m \in 0..Len(line) /\ w + m = y
        BY <4>1
      <4> HIDE DEF m, j
      <4> QED
        BY <2>2, <4>2
    <3>2. i \in i..e /\ i+1..e \subseteq i..e
      BY <1>3, <1>5
    <3> HIDE DEF j, i
    <3> QED
      BY <3>1, <3>2
  <2>4. buf'[j] = buf[j]
    <3> HIDE DEF j, i
    <3> QED
      BY <1>6, <2>1, <2>3
  <2> QED
    BY <1>1, <2>4
<1>12. ASSUME NEW k \in 1..Len(s) PROVE s[k] = buf'[Ring(r + Len(due) + k - 1)]
  <2> DEFINE m == k - 1
             j == w + m
  <2>1. k \in 1..Len(line) + 1 /\ m \in 0..Len(line) /\ r + Len(due) + k - 1 = r + d + m /\ j = w + k - 1
    BY <1>1, <1>3, <1>7
  <2>2. Ring(r + Len(due) + k - 1) = j /\ j \in 0..INPUT_BUF-1
    <3> HIDE DEF m
    <3> QED
      BY <1>8, <2>1
  <2>3. buf'[j] = IF j = i THEN c ELSE IF j \in i+1..e THEN buf[j-1] ELSE buf[j]
    <3> HIDE DEF j, i
    <3> QED
      BY <1>6, <2>2
  <2>4. CASE k < x
    <3>1. j # i /\ j \notin i+1..e /\ k \in 1..Len(line)
      BY <1>3, <1>5, <2>1, <2>4
    <3> QED
      BY <1>7, <1>9, <2>1, <2>2, <2>3, <2>4, <3>1
  <2>5. CASE k = x
    <3>1. j = i
      BY <1>3, <1>5, <2>1, <2>5
    <3> QED
      BY <1>3, <1>5, <1>7, <2>1, <2>2, <2>3, <2>5, <3>1
  <2>6. CASE k > x
    <3>1. j # i /\ j \in i+1..e /\ k - 1 \in 1..Len(line) /\ j - 1 = w + (k - 1) - 1
      BY <1>3, <1>4, <1>5, <2>1, <2>6
    <3>2. line[k - 1] = buf[j - 1]
      <4> HIDE DEF j
      <4> QED
        BY <1>9, <3>1
    <3>3. s[k] = line[k - 1]
      BY <1>3, <1>5, <1>7, <2>1, <2>6
    <3> QED
      BY <2>2, <2>3, <3>1, <3>2, <3>3
  <2> QED
    BY <1>5, <2>1, <2>4, <2>5, <2>6
<1>13. ASSUME c # Newline PROVE Newline \notin ToSet(s)
  <2>1. \A k \in 1..Len(s) : s[k] # Newline
    <3> TAKE k \in 1..Len(s)
    <3>1. k \in 1..Len(line) + 1
      BY <1>7
    <3>2. k < x => k \in 1..Len(line)
      BY <1>5, <3>1
    <3>3. k > x => k - 1 \in 1..Len(line)
      BY <1>5, <3>1
    <3> QED
      BY <1>1, <1>5, <1>7, <1>13, <3>1, <3>2, <3>3
  <2> QED
    BY <2>1 DEF ToSet
<1>14. Edited(s, c)
  BY <1>7, <1>10, <1>11, <1>12, <1>13 DEF Edited
<1> QED
  BY <1>14 DEF s, x

\* A typed key moves e by one place, or not at all.
LEMMA TypeIndex ==
  ASSUME ConsoleConstants, ConsoleInv, NEW c, Type(c)
  PROVE  IndexInv'
<1> USE DEF ConsoleInv
<1>1. /\ UNCHANGED <<r, erased, recalled>> /\ Distance(r, e) < INPUT_BUF
      /\ e' = (e + 1) % ConsoleWrap \/ e' = e
      /\ back' = 0 \/ back' = back
      /\ IF LineDone(c, e') THEN w' = e' ELSE w' = w
  BY DEF Type
<1>2. r \in Index /\ w \in Index /\ e \in Index /\ back' \in Int
  BY <1>1 DEF IndexInv, Index
<1>3. e' \in Index /\ Distance(e, e') \in {0, 1}
  <2>1. 1 \in Index
    BY ConsoleSizes DEF Index
  <2>2. (e + 1) % ConsoleWrap \in Index /\ Distance(e, (e + 1) % ConsoleWrap) = 1
    BY <1>2, <2>1, DistanceAhead
  <2>3. Distance(e, e) = 0
    BY <1>2, DistanceIs
  <2> QED
    BY <1>1, <1>2, <2>2, <2>3
<1>4. w' \in Index
  BY <1>1, <1>2, <1>3
<1>5. ASSUME ~erased, ~recalled
      PROVE  /\ Distance(r, e') = Distance(r, w') + Distance(w', e')
             /\ Distance(r, e') <= INPUT_BUF
             /\ Distance(r, e') = INPUT_BUF => w' = e'
  <2> DEFINE a == Distance(r, w)
             b == Distance(w, e)
             c1 == Distance(e, e')
  <2>1. Distance(r, e) = a + b /\ a \in Nat /\ b \in Nat
    BY <1>2, <1>5, DistanceIs, ConsoleSizes DEF IndexInv, Index
  <2>2. Distance(r, e) + c1 < ConsoleWrap /\ b + c1 < ConsoleWrap /\ c1 \in 0..1
    BY <1>1, <1>3, <2>1, ConsoleSizes
  <2>3. Distance(r, e') = Distance(r, e) + c1 /\ Distance(w, e') = b + c1
    BY <1>2, <1>3, <2>2, DistanceAdds
  <2>4. Distance(r, e') = a + Distance(w, e') /\ Distance(r, e') <= INPUT_BUF
    BY <1>1, <2>1, <2>2, <2>3, ConsoleSizes
  <2>5. CASE LineDone(c, e')
    <3>1. w' = e' /\ Distance(e', e') = 0
      BY <1>1, <1>3, <2>5, DistanceIs
    <3>2. Distance(r, e') \in Nat
      BY <1>2, <1>3, DistanceIs, ConsoleSizes DEF Index
    <3> QED
      BY <2>4, <3>1, <3>2
  <2>6. CASE ~LineDone(c, e')
    <3>1. w' = w
      BY <1>1, <2>6
    <3>2. Distance(r, e') # INPUT_BUF
      <4>1. e' = (r + Distance(r, e')) % ConsoleWrap
        BY <1>2, <1>3, DistanceIs
      <4> QED
        BY <2>6, <4>1 DEF LineDone
    <3> QED
      BY <2>4, <3>1, <3>2
  <2> QED
    BY <2>5, <2>6
<1>6. /\ Distance(r, w)' = Distance(r, w') /\ Distance(r, e)' = Distance(r, e') /\ Distance(w, e)' = Distance(w', e')
  BY <1>1 DEF Distance
<1> QED
  BY <1>1, <1>2, <1>3, <1>4, <1>5, <1>6 DEF IndexInv, Index

LEMMA TypeRows ==
  ASSUME ConsoleConstants, ConsoleInv, NEW c, Type(c)
  PROVE  RowsInv' /\ ReadersInv'
<1> USE DEF ConsoleInv
<1>1. UNCHANGED <<r, want, erased, recalled>> /\ wild' = SavedOutside
  BY DEF Type
<1>2. CASE LineDone(c, e')
  <2>1. WakeConsole
    BY <1>2 DEF Type
  <2>2. ReadersInv'
    BY <1>1, <2>1 DEF ReadersInv, SleepsOnEmpty, WakeConsole
  <2>3. \/ UNCHANGED <<cmd, first, last, current>>
        \/ /\ first' = (IF NewRow = first THEN (first + 1) % NCMD ELSE first)
           /\ last' = NewRow /\ current' = NewRow
           /\ DOMAIN cmd' = DOMAIN Saved
    BY <1>2 DEF Type, history
  <2>4. CASE UNCHANGED <<cmd, first, last, current>>
    BY <1>1, <2>2, <2>4, RowsSame
  <2>5. CASE /\ first' = (IF NewRow = first THEN (first + 1) % NCMD ELSE first)
             /\ last' = NewRow /\ current' = NewRow
             /\ DOMAIN cmd' = DOMAIN Saved
    <3>1. DOMAIN cmd' = 0..NCMD*INPUT_BUF-1 /\ (wild' => erased \/ recalled)
      BY <1>1, <2>5, SavedInside DEF RowsInv
    <3>2. /\ first \in 0..NCMD-1 /\ last \in 0..NCMD-1 /\ NCMD \in Nat \ {0}
          /\ first = 0 \/ first = (last + 1) % NCMD
      BY DEF RowsInv, ConsoleConstants
    <3>3. (last + 1) % NCMD = IF last + 1 < NCMD THEN last + 1 ELSE 0
      <4>1. CASE last + 1 < NCMD
        <5>1. (NCMD * 0 + (last + 1)) % NCMD = last + 1
          BY <3>2, <4>1, ModIs
        <5> QED
          BY <3>2, <4>1, <5>1
      <4>2. CASE ~(last + 1 < NCMD)
        <5>1. (NCMD * 1 + 0) % NCMD = 0 /\ NCMD * 1 + 0 = last + 1
          BY <3>2, <4>2, ModIs
        <5> QED
          BY <3>2, <4>2, <5>1
      <4> QED
        BY <4>1, <4>2
    <3>4. CASE first = (last + 1) % NCMD
      <4>1. NewRow = first
        BY <3>2, <3>3, <3>4 DEF NewRow
      <4>2. first' = (NewRow + 1) % NCMD /\ first' \in 0..NCMD-1
        BY <2>5, <3>2, <4>1
      <4>3. RowsInv'
        BY <1>1, <2>5, <3>1, <3>2, <4>1, <4>2 DEF RowsInv
      <4> QED
        BY <2>2, <4>3
    <3>5. CASE first # (last + 1) % NCMD
      <4>1. first = 0 /\ NewRow = last + 1 /\ last + 1 < NCMD
        BY <3>2, <3>3, <3>5 DEF NewRow
      <4>2. first' = 0
        BY <2>5, <3>2, <4>1
      <4>3. RowsInv'
        BY <1>1, <2>5, <3>1, <3>2, <4>1, <4>2 DEF RowsInv
      <4> QED
        BY <2>2, <4>3
    <3> QED
      BY <3>4, <3>5
  <2> QED
    BY <2>2, <2>3, <2>4, <2>5
<1>3. CASE ~LineDone(c, e')
  <2>1. cmd' = Saved /\ UNCHANGED <<w, cpc, first, last, current>>
    BY <1>3 DEF Type
  <2> QED
    BY <1>1, <2>1, RowsSame, ReadersSame
<1> QED
  BY <1>2, <1>3

LEMMA TypeText ==
  ASSUME ConsoleConstants, ConsoleInv, NEW c \in Letters \cup {Newline, EOF}, Type(c)
  PROVE  TextInv'
<1> SUFFICES ASSUME Known' PROVE TextInv'
  BY DEF TextInv
<1> USE DEF ConsoleInv
<1>1. /\ Known /\ ~strayed' /\ Distance(r, e) < INPUT_BUF
      /\ UNCHANGED <<r, erased, recalled>> /\ c \in Chars /\ back \in Int
  BY DEF Type, Known, Chars, IndexInv
<1>2. AtEnd(c) \/ OnLine
  BY <1>1 DEF Type
<1> DEFINE s == IF AtEnd(c) THEN Append(line, c) ELSE InsertAt(line, Len(line) - back + 1, c)
<1>3. Edited(s, c) /\ e' = (e + 1) % ConsoleWrap
  <2>1. CASE AtEnd(c)
    <3>1. buf' = PutText(e, <<c>>) /\ e' = (e + 1) % ConsoleWrap
      BY <2>1 DEF Type
    <3>2. Edited(Append(line, c), c)
      BY <1>1, <3>1, TypedAtEnd
    <3> QED
      BY <2>1, <3>1, <3>2
  <2>2. CASE ~AtEnd(c)
    <3>1. OnLine /\ back > 0
      BY <1>1, <1>2, <2>2 DEF OnLine
    <3>2. buf' = Inserted(c) /\ e' = (e + 1) % ConsoleWrap
      BY <2>2, <3>1 DEF Type
    <3>3. Edited(InsertAt(line, Len(line) - back + 1, c), c)
      BY <1>1, <3>1, <3>2, TypedInside
    <3> QED
      BY <2>2, <3>2, <3>3
  <2> QED
    BY <2>1, <2>2
<1>4. /\ LineDone(c, e') => w' = e' /\ line' = <<>> /\ due' = due \o s
      /\ ~LineDone(c, e') => w' = w /\ line' = s /\ due' = due
  <2> DEFINE edited == IF ~Known \/ strayed' THEN <<>>
                       ELSE IF AtEnd(c) THEN Append(line, c)
                       ELSE InsertAt(line, Len(line) - back + 1, c)
  <2>1. edited = s
    BY <1>1
  <2>2. /\ LineDone(c, e') => w' = e' /\ line' = <<>> /\ due' = (IF strayed' THEN <<>> ELSE due \o edited)
        /\ ~LineDone(c, e') => w' = w /\ line' = edited /\ due' = (IF strayed' THEN <<>> ELSE due)
    BY DEF Type
  <2> HIDE DEF edited, s
  <2> QED
    BY <1>1, <2>1, <2>2
<1> HIDE DEF s
<1>5. /\ r \in Index /\ w \in Index /\ e \in Index
      /\ due \in Seq(Chars) /\ Len(due) \in Nat /\ Len(line) \in Nat
      /\ Len(due) = Distance(r, w) /\ Len(line) = Distance(w, e)
      /\ Distance(r, e) = Len(due) + Len(line)
  BY <1>1, TextFacts
<1>6. /\ s \in Seq(Chars) /\ Len(s) = Len(line) + 1
      /\ buf' \in [0..INPUT_BUF-1 -> Chars]
      /\ \A k \in 1..Len(due) : due[k] = buf'[Ring(r + k - 1)]
      /\ \A k \in 1..Len(s) : s[k] = buf'[Ring(r + Len(due) + k - 1)]
      /\ c # Newline => Newline \notin ToSet(s)
  BY <1>3 DEF Edited
<1>7. /\ e' \in Index /\ Distance(w, e') = Len(s) /\ Distance(r, e') = Len(due) + Len(s)
  <2>1. 1 \in Index /\ Len(line) + 1 < ConsoleWrap /\ Len(due) + Len(line) + 1 < ConsoleWrap
    BY <1>1, <1>5, ConsoleSizes DEF Index
  <2>2. e' \in Index /\ Distance(e, e') = 1
    BY <1>3, <1>5, <2>1, DistanceAhead
  <2>3. Distance(w, e') = Distance(w, e) + 1
    BY <1>5, <2>1, <2>2, DistanceAdds
  <2>4. Distance(r, e') = Distance(r, e) + 1
    BY <1>5, <2>1, <2>2, DistanceAdds
  <2> QED
    BY <1>5, <1>6, <2>2, <2>3, <2>4
<1>8. /\ Distance(r, w)' = Distance(r, w') /\ Distance(w, e)' = Distance(w', e')
      /\ \A i : Ring(i)' = Ring(i)
  BY <1>1 DEF Distance, Ring
<1>9. CASE LineDone(c, e')
  <2>1. w' = e' /\ line' = <<>> /\ due' = due \o s /\ Distance(e', e') = 0
    BY <1>4, <1>7, <1>9, DistanceIs
  <2>2. /\ due' \in Seq(Chars) /\ Len(due') = Len(due) + Len(s)
        /\ \A k \in 1..Len(due) : due'[k] = due[k]
        /\ \A k \in 1..Len(s) : due'[Len(due) + k] = s[k]
    <3>1. due \in Seq(Chars) /\ s \in Seq(Chars)
      BY <1>5, <1>6
    <3>2. /\ due \o s \in Seq(Chars) /\ Len(due \o s) = Len(due) + Len(s)
          /\ \A k \in 1..Len(due) : (due \o s)[k] = due[k]
          /\ \A k \in 1..Len(s) : (due \o s)[Len(due) + k] = s[k]
      BY ONLY <3>1, ConcatIs
    <3>3. due' = due \o s
      BY <2>1
    <3> QED
      BY ONLY <3>2, <3>3
  <2>3. ASSUME NEW k \in 1..Len(due') PROVE due'[k] = buf'[Ring(r + k - 1)]
    <3>1. CASE k \in 1..Len(due)
      BY <1>6, <2>2, <3>1
    <3>2. CASE k \notin 1..Len(due)
      <4> DEFINE m == k - Len(due)
      <4>1. m \in 1..Len(s) /\ k = Len(due) + m /\ r + Len(due) + m - 1 = r + k - 1
        <5>1. Len(due) \in Nat /\ Len(s) \in Nat /\ r \in Int
          BY <1>5, <1>6, ConsoleSizes DEF Index
        <5>2. Len(due') = Len(due) + Len(s) /\ k \in 1..Len(due')
          BY <2>2
        <5>3. k \in Int /\ ~(k <= Len(due)) /\ k <= Len(due) + Len(s)
          BY ONLY <3>2, <5>1, <5>2
        <5>4. m \in 1..Len(s) /\ k = Len(due) + m
          BY ONLY <5>1, <5>3
        <5> QED
          BY ONLY <5>1, <5>3, <5>4
      <4> HIDE DEF m
      <4> QED
        BY <1>6, <2>2, <4>1
    <3> QED
      BY <3>1, <3>2
  <2>4. <<>> \in Seq(Chars) /\ Newline \notin ToSet(<<>>) /\ Len(<<>>) = 0
    BY DEF ToSet
  <2>5. Len(due') = Distance(r, w)' /\ Len(line') = Distance(w, e)'
    BY <1>7, <1>8, <2>1, <2>2, <2>4
  <2>6. \A k \in 1..Len(line') : line'[k] = buf'[Ring(r + Len(due') + k - 1)]
    BY <2>1, <2>4
  <2>7. Newline \notin ToSet(line') /\ line' \in Seq(Chars)
    BY <2>1, <2>4
  <2> QED
    BY <1>1, <1>6, <1>8, <2>2, <2>3, <2>5, <2>6, <2>7 DEF TextInv, Ring
<1>10. CASE ~LineDone(c, e')
  <2>1. w' = w /\ line' = s /\ due' = due /\ c # Newline
    BY <1>4, <1>10 DEF LineDone
  <2> QED
    BY <1>1, <1>5, <1>6, <1>7, <1>8, <2>1 DEF TextInv, Ring
<1> QED
  BY <1>9, <1>10

-----------------------------------------------------------------------------
LEMMA ConsoleInitInv ==
  ASSUME ConsoleConstants, ConsoleInit
  PROVE  ConsoleInv
<1>1. r = 0 /\ w = 0 /\ e = 0 /\ 0 \in Index /\ Distance(0, 0) = 0
  <2>1. 0 \in Index
    BY ConsoleSizes DEF Index
  <2> QED
    BY <2>1, DistanceIs DEF ConsoleInit
<1>2. IndexInv
  BY <1>1, ConsoleSizes DEF ConsoleInit, IndexInv, Index
<1>3. ReadersInv
  BY DEF ConsoleInit, ReadersInv, SleepsOnEmpty
<1>4. RowsInv
  BY DEF ConsoleInit, RowsInv, ConsoleConstants
<1>5. TextInv
  <2>1. buf \in [0..INPUT_BUF-1 -> Chars] /\ due = <<>> /\ line = <<>>
    BY DEF ConsoleInit, Chars
  <2>2. <<>> \in Seq(Chars) /\ Newline \notin ToSet(<<>>) /\ Len(<<>>) = 0
    BY DEF ToSet
  <2> QED
    BY <1>1, <2>1, <2>2 DEF TextInv
<1> QED
  BY <1>2, <1>3, <1>4, <1>5 DEF ConsoleInv

LEMMA ConsoleNextInv ==
  ASSUME ConsoleConstants, ConsoleInv, [ConsoleNext]_consoleVars
  PROVE  ConsoleInv'
<1>1. CASE UNCHANGED consoleVars
  BY <1>1 DEF consoleVars, input, history, readers, ghosts, ConsoleInv, IndexInv, ReadersInv,
     SleepsOnEmpty, RowsInv, TextInv, Known, Distance, Ring
<1>2. CASE KillLine
  BY <1>2, KillLineInv
<1>3. CASE Backspace
  BY <1>3, BackspaceInv
<1>4. CASE ArrowUp
  BY <1>4, RecallInv DEF ArrowUp
<1>5. CASE ArrowDown
  BY <1>5, RecallInv DEF ArrowDown
<1>6. CASE \E d \in {1, -1} : MoveCursor(d)
  BY <1>6, MoveCursorInv
<1>7. ASSUME NEW c \in Letters \cup {Newline, EOF}, Type(c) PROVE ConsoleInv'
  BY <1>7, TypeIndex, TypeRows, TypeText DEF ConsoleInv
<1>8. ASSUME NEW p \in ConsoleReaders, ReadResume(p) PROVE ConsoleInv'
  <2>1. want[p] \in Nat /\ ReadOn(p, want[p], got[p])
    BY <1>8 DEF ReadResume, ConsoleInv, ReadersInv
  <2> QED
    BY <2>1, ReadOnInv
<1>9. ASSUME NEW p \in ConsoleReaders, KillReader(p) PROVE ConsoleInv'
  BY <1>9, KillReaderInv
<1>10. ASSUME NEW p \in ConsoleReaders, NEW n \in 1..MaxRead, ConsoleRead(p, n) PROVE ConsoleInv'
  <2>1. n \in Nat /\ ReadOn(p, n, 0)
    BY <1>10 DEF ConsoleRead, ConsoleConstants
  <2> QED
    BY <2>1, ReadOnInv
<1> QED
  BY <1>1, <1>2, <1>3, <1>4, <1>5, <1>6, <1>7, <1>8, <1>9, <1>10 DEF ConsoleNext

LEMMA ConsoleInvariant == ConsoleConstants => (ConsoleSpec => []ConsoleInv)
<1> SUFFICES ASSUME ConsoleConstants PROVE ConsoleSpec => []ConsoleInv
  OBVIOUS
<1>1. ConsoleInit => ConsoleInv
  BY ConsoleInitInv
<1>2. ConsoleInv /\ [ConsoleNext]_consoleVars => ConsoleInv'
  BY ConsoleNextInv
<1> QED
  BY <1>1, <1>2, PTL DEF ConsoleSpec

\* For any size of buffer, number of readers and indices that wrap: the
\* finished text waits as it was typed and edited, and behind it the line under
\* way, with the cursor of OS-Lab-1 inside the line as well.
THEOREM ConsoleKeepsLines == ConsoleConstants => (ConsoleSpec => []LinesIntact)
<1> SUFFICES ASSUME ConsoleConstants PROVE ConsoleSpec => []LinesIntact
  OBVIOUS
<1>1. ConsoleInv => LinesIntact
  <2> SUFFICES ASSUME ConsoleInv, Known PROVE Text(r, w) = due /\ Text(w, e) = line
    BY DEF LinesIntact
  <2>1. /\ due \in Seq(Chars) /\ line \in Seq(Chars)
        /\ Len(due) = Distance(r, w) /\ Len(line) = Distance(w, e)
        /\ \A k \in 1..Len(due) : due[k] = buf[Ring(r + k - 1)]
    BY TextFacts
  <2>2. \A k \in 1..Len(line) : line[k] = buf[Ring(w + k - 1)]
    BY LineFromW DEF ConsoleInv
  <2>3. due = [k \in 1..Len(due) |-> due[k]] /\ line = [k \in 1..Len(line) |-> line[k]]
    BY <2>1
  <2>4. Text(r, w) = [k \in 1..Len(due) |-> due[k]]
    BY <2>1 DEF Text
  <2>5. Text(w, e) = [k \in 1..Len(line) |-> line[k]]
    BY <2>1, <2>2 DEF Text
  <2> QED
    BY <2>3, <2>4, <2>5
<1> QED
  BY <1>1, ConsoleInvariant, PTL

\* Nobody sleeps in consoleread while there is text, and a full buffer has text
\* to read, until Backspace or an arrow of OS-Lab-1 moves an index: neither the
\* interrupt nor the readers wait for the other.
THEOREM ConsoleServesReaders == ConsoleConstants => (ConsoleSpec => []ReaderServed)
<1> SUFFICES ASSUME ConsoleConstants PROVE ConsoleSpec => []ReaderServed
  OBVIOUS
<1>1. ConsoleInv => ReaderServed
  <2> SUFFICES ASSUME ConsoleInv PROVE ReaderServed
    OBVIOUS
  <2>1. SleepsOnEmpty
    BY DEF ConsoleInv, ReadersInv
  <2>2. ASSUME ~erased, ~recalled, Distance(r, e) >= INPUT_BUF PROVE r # w
    <3>1. r \in Index /\ w \in Index /\ e \in Index
      BY DEF ConsoleInv, IndexInv, Index
    <3>2. Distance(r, e) \in Nat /\ Distance(r, e) <= INPUT_BUF /\ (Distance(r, e) = INPUT_BUF => w = e)
      BY <2>2, <3>1, DistanceIs, ConsoleSizes DEF ConsoleInv, IndexInv, Index
    <3>3. w = e /\ Distance(r, e) # 0
      BY <2>2, <3>2, ConsoleSizes
    <3> QED
      BY <3>1, <3>3, DistanceIs
  <2> QED
    BY <2>1, <2>2 DEF ReaderServed, FullIsReadable
<1> QED
  BY <1>1, ConsoleInvariant, PTL

\* The arrows stay on rows between the oldest and the newest command, for any
\* number of rows, and nothing outside prevcmd is touched before a recall or a
\* Backspace.
THEOREM ConsoleHistoryInRange == ConsoleConstants => (ConsoleSpec => []HistoryInRange)
<1> SUFFICES ASSUME ConsoleConstants PROVE ConsoleSpec => []HistoryInRange
  OBVIOUS
<1>1. ConsoleInv => HistoryInRange
  <2> SUFFICES ASSUME ConsoleInv PROVE HistoryInRange
    OBVIOUS
  <2>1. /\ first \in 0..NCMD-1 /\ last \in 0..NCMD-1 /\ current \in 0..NCMD-1 /\ NCMD \in Nat \ {0}
        /\ (first = 0 /\ current <= last) \/ first = (last + 1) % NCMD
        /\ wild => erased \/ recalled
    BY DEF ConsoleInv, RowsInv, ConsoleConstants
  <2>2. /\ (current - first) % NCMD = IF first <= current THEN current - first ELSE current - first + NCMD
        /\ (last - first) % NCMD = IF first <= last THEN last - first ELSE last - first + NCMD
    BY <2>1, GoBetween
  <2>3. (last + 1) % NCMD = IF last + 1 < NCMD THEN last + 1 ELSE last + 1 - NCMD
    <3>1. NCMD = 1 \/ 1 \in 0..NCMD
      BY <2>1
    <3>2. 1 \in 0..NCMD
      BY <2>1
    <3> QED
      BY <2>1, <3>2, GoForward
  <2>4. (current - first) % NCMD <= (last - first) % NCMD
    BY <2>1, <2>2, <2>3
  <2> QED
    BY <2>1, <2>4 DEF HistoryInRange
<1> QED
  BY <1>1, ConsoleInvariant, PTL
=============================================================================
