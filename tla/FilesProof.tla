----------------------------- MODULE FilesProof -----------------------------
(***************************************************************************)
(* Proofs about Files, on every way through the system calls on names:     *)
(* ip->ref and f->ref count the pointers in memory; link counts on the disk *)
(* are those of a tree, wherever a crash falls; an inode in use stays      *)
(* allocated, so that ilock() does not panic.                              *)
(***************************************************************************)
EXTENDS Files, FiniteSetTheorems, SequenceTheorems, WellFoundedInduction, TLAPS

Types == {"free", "dir", "file"}
Inode == [type : Types, nlink : Int, ents : [Dots -> Inums \cup {0}]]
CacheEntry == [ref : Int, valid : BOOLEAN, lock : Procs \cup {0}, type : Types, nlink : Int]
File == [ref : Int, ip : Inums \cup {0}]

\* Processes are finite in number, what is found at boot is a file system, and
\* a slash is the first element of a path or none (skipelem skips the others).
FilesCondition ==
  /\ IsFiniteSet(Procs)
  /\ Trees \subseteq [Inums -> Inode]
  /\ \A path \in Paths : Elements(path) \in Seq(Dots)
  /\ \A l \in Links : Elements(l[1]) \in Seq(Dots) /\ Elements(l[2]) \in Seq(Dots)

CallOps == {"open", "creat", "mkdir", "unlink", "chdir", "link"}
Iputs == {"iput", "free", "drop"}
Thens == {"walk", "exists", "openfile", "made", "nlink", "bad", "linkbad", "end"}
IpPoints == {"walk", "open", "create", "created", "unlink", "unlinkip", "link", "linkentry",
             "chdir", "bad"}
TgtPoints == {"created", "unlinkip", "exists", "openfile", "made", "nlink", "linkbad"}
Points == Iputs \cup Thens \cup IpPoints \cup TgtPoints \cup {"user", "exit", "closing"}

Locals == [op : CallOps \cup {"none", "exit"}, path : Seq(Dots), parent : BOOLEAN,
           ip : Inums \cup {0}, tgt : Inums \cup {0}, new : Seq(Names \cup {"..", "/"}),
           put : Seq(Inums), then : Thens]

FilesTypeOK ==
  /\ dino \in [Inums -> Inode] /\ stable \in [Inums -> Inode]
  /\ icache \in [Inums -> CacheEntry]
  /\ ftable \in [Fds -> File]
  /\ ofile \in [Procs -> Fds \cup {0}] /\ cwd \in [Procs -> Inums \cup {0}]
  /\ pc \in [Procs -> Points] /\ r \in [Procs -> Locals]

\* Where a process is, or will go on from when iput has dropped its references.
Place(q, at) == IF at \in Iputs THEN q.then ELSE at
SecondHalf(q, place) == q.op = "link" /\ q.parent /\ place # "end"
UsesTgt(q, place) == place \in TgtPoints \/ SecondHalf(q, place)

\* What the locals are good for at a place: PlaceFit looks neither at put nor at
\* then, which only say how a process gets to its place.
PlaceFit(q, place) ==
  /\ place \in IpPoints => q.ip \in Inums
  /\ UsesTgt(q, place) => q.tgt \in Inums
  /\ place \in {"create", "unlink", "created", "unlinkip", "linkentry"} => Len(q.path) = 1
  /\ place = "walk" => /\ q.op \in CallOps
                       /\ q.op \in {"creat", "mkdir", "unlink"} => q.parent
  /\ place = "link" => q.op = "link" /\ ~q.parent
  /\ place \in {"linkentry", "linkbad"} => q.op = "link" /\ q.parent
  /\ place \in (IpPoints \cup TgtPoints) \ {"walk", "link", "linkentry", "linkbad", "bad"} =>
       q.op \in CallOps \ {"link"}
  /\ place \in {"walk", "link"} /\ q.op = "link" /\ ~q.parent => Elements(q.new) \in Seq(Dots)

LocalsFit(q, at) ==
  /\ q.put = <<>> <=> at \notin Iputs \cup {"closing"}
  /\ at \in {"closing", "exit"} => q.then = "end"
  /\ at \in {"user", "closing"} => q.op \in {"none", "exit"}
  /\ at = "exit" => q.op = "exit"
  /\ PlaceFit(q, Place(q, at))

\* A process has a current directory from fork to the end of exit.
Alive(q, at, dir, fd) ==
  dir = 0 => fd = 0 /\ (at = "user" \/ (q.op = "exit" /\ Place(q, at) = "end"))

ShapeInv ==
  /\ \A p \in Procs : LocalsFit(r[p], pc[p]) /\ Alive(r[p], pc[p], cwd[p], ofile[p])
  /\ \A f \in Fds : ftable[f].ip = 0 <=> ftable[f].ref = 0

\* The pointers that a process holds in its local variables.
HeldSeq(q, at) ==
  LET place == Place(q, at) IN
  (q.put \o (IF place \in IpPoints THEN <<q.ip>> ELSE <<>>))
         \o (IF UsesTgt(q, place) THEN <<q.tgt>> ELSE <<>>)

\* How often i occurs in a sequence; once or not at all.
Where(s, i) == {k \in DOMAIN s : s[k] = i}
Occ(s, i) == Cardinality(Where(s, i))
One(x, i) == IF x = i THEN 1 ELSE 0

PlaceCount(q, place, i) ==
  (IF place \in IpPoints THEN One(q.ip, i) ELSE 0) + (IF UsesTgt(q, place) THEN One(q.tgt, i) ELSE 0)
HeldCount(q, at, i) == Occ(q.put, i) + PlaceCount(q, Place(q, at), i)

FilesInv == FilesTypeOK /\ ShapeInv /\ RefsArePointers

-----------------------------------------------------------------------------
\* Counting.
LEMMA OneType ==
  ASSUME NEW x, NEW i
  PROVE  One(x, i) \in Nat
BY DEF One

LEMMA WhereFinite ==
  ASSUME NEW S, NEW s \in Seq(S), NEW i
  PROVE  IsFiniteSet(Where(s, i)) /\ Occ(s, i) \in Nat
<1>1. IsFiniteSet(1..Len(s)) /\ Where(s, i) \in SUBSET (1..Len(s))
  <2>1. 1 \in Int /\ Len(s) \in Int /\ DOMAIN s = 1..Len(s)
    OBVIOUS
  <2> QED
    BY <2>1, FS_Interval DEF Where
<1> QED
  BY <1>1, FS_Subset, FS_CardinalityType DEF Occ

LEMMA OccEmpty ==
  ASSUME NEW i
  PROVE  Occ(<<>>, i) = 0
<1>1. Where(<<>>, i) = {}
  BY DEF Where
<1> QED
  BY <1>1, FS_EmptySet DEF Occ

LEMMA OccAppend ==
  ASSUME NEW S, NEW s \in Seq(S), NEW x \in S, NEW i
  PROVE  s \o <<x>> \in Seq(S) /\ Occ(s \o <<x>>, i) = Occ(s, i) + One(x, i)
<1> DEFINE t == s \o <<x>>
           n == Len(s) + 1
<1>1. t \in Seq(S) /\ Len(t) = n /\ t[n] = x /\ \A k \in 1..Len(s) : t[k] = s[k]
  OBVIOUS
<1>2. n \notin Where(s, i) /\ DOMAIN t = 1..n /\ DOMAIN s = 1..Len(s) /\ Len(s) \in Nat
  BY <1>1 DEF Where
<1> HIDE DEF t
<1>3. IsFiniteSet(Where(s, i)) /\ Occ(s, i) \in Nat
  BY WhereFinite
<1>4. CASE x = i
  <2>1. Where(t, i) = Where(s, i) \cup {n}
    BY <1>1, <1>2, <1>4 DEF Where
  <2> HIDE DEF n
  <2>2. Cardinality(Where(s, i) \cup {n}) = Cardinality(Where(s, i)) + 1
    BY <1>2, <1>3, FS_AddElement
  <2> QED
    BY <1>1, <2>1, <2>2, <1>4 DEF Occ, One, t
<1>5. CASE x # i
  <2>1. Where(t, i) = Where(s, i)
    BY <1>1, <1>2, <1>5 DEF Where
  <2> QED
    BY <1>1, <1>3, <2>1, <1>5 DEF Occ, One, t
<1> QED
  BY <1>4, <1>5

LEMMA OccOne ==
  ASSUME NEW S, NEW x \in S, NEW i
  PROVE  <<x>> \in Seq(S) /\ Occ(<<x>>, i) = One(x, i)
<1>1. <<>> \in Seq(S) /\ <<x>> \in Seq(S)
  OBVIOUS
<1>2. <<>> \o <<x>> = <<x>>
  BY <1>1, ConcatEmptySeq
<1>3. Occ(<<>> \o <<x>>, i) = Occ(<<>>, i) + One(x, i)
  BY <1>1, OccAppend
<1> QED
  BY <1>1, <1>2, <1>3, OccEmpty, OneType

LEMMA OccTwo ==
  ASSUME NEW S, NEW x \in S, NEW y \in S, NEW i
  PROVE  <<x, y>> \in Seq(S) /\ Occ(<<x, y>>, i) = One(x, i) + One(y, i)
<1> DEFINE s == <<x>>
           t == <<y>>
           u == <<x, y>>
<1>1. s \in Seq(S) /\ t \in Seq(S) /\ u \in Seq(S)
  OBVIOUS
<1>2. s \o t = u
  <2>1. Len(s) = 1 /\ Len(t) = 1 /\ Len(u) = 2 /\ s[1] = x /\ t[1] = y /\ u[1] = x /\ u[2] = y
    OBVIOUS
  <2> HIDE DEF s, t, u
  <2>2. s \o t \in Seq(S) /\ Len(s \o t) = 2 /\ \A k \in 1..2 : (s \o t)[k] = u[k]
    BY <1>1, <2>1 DEF s, t, u
  <2> QED
    BY <1>1, <2>1, <2>2, SeqEqual
<1>3. Occ(s \o t, i) = Occ(s, i) + One(y, i)
  BY <1>1, OccAppend
<1>4. Occ(s, i) = One(x, i)
  BY OccOne
<1> QED
  BY <1>1, <1>2, <1>3, <1>4

LEMMA OccTail ==
  ASSUME NEW S, NEW s \in Seq(S), s # <<>>, NEW i
  PROVE  /\ Head(s) \in S /\ Tail(s) \in Seq(S)
         /\ Occ(s, i) = Occ(Tail(s), i) + One(Head(s), i)
<1> DEFINE t == Tail(s)
           n == Len(s)
           g == [k \in Where(t, i) |-> k + 1]
<1>1. /\ t \in Seq(S) /\ n \in Nat /\ n >= 1 /\ Len(t) = n - 1 /\ Head(s) = s[1] /\ s[1] \in S
      /\ \A k \in 1..n-1 : t[k] = s[k+1]
  OBVIOUS
<1>2. DOMAIN t = 1..n-1 /\ DOMAIN s = 1..n
  BY <1>1
<1> HIDE DEF t, n
<1>3. Where(s, i) \ {1} = {k + 1 : k \in Where(t, i)}
  <2>1. ASSUME NEW k \in Where(s, i) \ {1}
        PROVE  k \in {j + 1 : j \in Where(t, i)}
    <3>1. k \in 2..n /\ s[k] = i
      BY <1>1, <1>2 DEF Where
    <3>2. k - 1 \in 1..n-1 /\ k = (k - 1) + 1
      BY <1>1, <3>1
    <3>3. t[k - 1] = i
      BY <1>1, <3>1, <3>2
    <3>4. k - 1 \in Where(t, i)
      BY <1>2, <3>2, <3>3 DEF Where
    <3> QED
      BY <3>2, <3>4
  <2>2. ASSUME NEW j \in Where(t, i)
        PROVE  j + 1 \in Where(s, i) \ {1}
    <3>1. j \in 1..n-1 /\ t[j] = i
      BY <1>2 DEF Where
    <3>2. j + 1 \in 1..n /\ j + 1 # 1 /\ s[j + 1] = i
      BY <1>1, <3>1
    <3> QED
      BY <1>2, <3>2 DEF Where
  <2> QED
    BY <2>1, <2>2
<1>4. IsFiniteSet(Where(t, i)) /\ Occ(t, i) \in Nat /\ IsFiniteSet(Where(s, i))
  BY <1>1, WhereFinite
<1>5. Where(t, i) \subseteq Nat
  BY <1>1, <1>2 DEF Where
<1>6. g \in Bijection(Where(t, i), Where(s, i) \ {1})
  <2>1. g \in Surjection(Where(t, i), Where(s, i) \ {1})
    BY <1>3 DEF Surjection
  <2>2. g \in Injection(Where(t, i), Where(s, i) \ {1})
    <3>1. g \in [Where(t, i) -> Where(s, i) \ {1}]
      BY <1>3
    <3>2. ASSUME NEW a \in Where(t, i), NEW b \in Where(t, i), g[a] = g[b]
          PROVE  a = b
      BY <3>2, <1>5
    <3> QED
      BY <3>1, <3>2 DEF Injection, IsInjective
  <2> QED
    BY <2>1, <2>2 DEF Bijection
<1>7. Cardinality(Where(s, i) \ {1}) = Occ(t, i)
  <2> HIDE DEF g
  <2> QED
    BY <1>4, <1>6, FS_Bijection DEF Occ, ExistsBijection
<1>8. Cardinality(Where(s, i) \ {1}) = IF 1 \in Where(s, i) THEN Occ(s, i) - 1 ELSE Occ(s, i)
  BY <1>4, FS_RemoveElement DEF Occ
<1>9. 1 \in Where(s, i) <=> Head(s) = i
  BY <1>1, <1>2 DEF Where
<1>10. Occ(s, i) \in Nat
  BY WhereFinite
<1>11. Occ(s, i) = Occ(t, i) + One(Head(s), i)
  BY <1>4, <1>7, <1>8, <1>9, <1>10 DEF One
<1> QED
  BY <1>1, <1>11 DEF t

LEMMA HeldSeqCount ==
  ASSUME NEW q \in Locals, NEW at, LocalsFit(q, at), NEW i
  PROVE  /\ HeldSeq(q, at) \in Seq(Inums)
         /\ Occ(HeldSeq(q, at), i) = HeldCount(q, at, i)
<1> DEFINE place == Place(q, at)
           s == q.put
           t == s \o (IF place \in IpPoints THEN <<q.ip>> ELSE <<>>)
           u == t \o (IF UsesTgt(q, place) THEN <<q.tgt>> ELSE <<>>)
<1>1. s \in Seq(Inums)
  BY DEF Locals
<1>2. (place \in IpPoints => q.ip \in Inums) /\ (UsesTgt(q, place) => q.tgt \in Inums)
  BY DEF LocalsFit, PlaceFit
<1>3. HeldSeq(q, at) = u
  BY DEF HeldSeq
<1> HIDE DEF place, s
<1>4. t \in Seq(Inums) /\ Occ(t, i) = Occ(s, i) + (IF place \in IpPoints THEN One(q.ip, i) ELSE 0)
  <2>1. CASE place \in IpPoints
    BY <2>1, <1>1, <1>2, OccAppend
  <2>2. CASE place \notin IpPoints
    <3>1. t = s
      BY <2>2, <1>1, ConcatEmptySeq
    <3> QED
      BY <3>1, <2>2, <1>1, WhereFinite
  <2> QED
    BY <2>1, <2>2
<1> HIDE DEF t
<1>5. u \in Seq(Inums) /\ Occ(u, i) = Occ(t, i) + (IF UsesTgt(q, place) THEN One(q.tgt, i) ELSE 0)
  <2>1. CASE UsesTgt(q, place)
    BY <2>1, <1>2, <1>4, OccAppend
  <2>2. CASE ~UsesTgt(q, place)
    <3>1. u = t
      BY <2>2, <1>4, ConcatEmptySeq
    <3> QED
      BY <3>1, <2>2, <1>4, WhereFinite
  <2> QED
    BY <2>1, <2>2
<1> HIDE DEF u
<1> QED
  BY <1>3, <1>4, <1>5, WhereFinite, <1>1, OneType DEF HeldCount, PlaceCount, place, s

LEMMA HeldCountType ==
  ASSUME NEW q \in Locals, NEW at, NEW i
  PROVE  HeldCount(q, at, i) \in Nat /\ Occ(q.put, i) \in Nat
<1>1. Occ(q.put, i) \in Nat
  BY WhereFinite DEF Locals
<1> QED
  BY <1>1, OneType DEF HeldCount, PlaceCount

\* One entry of a function changes: so do the counts of its two values.
CountOf(f, S, x) == Cardinality({s \in S : f[s] = x})

LEMMA CountType ==
  ASSUME NEW S, IsFiniteSet(S), NEW f, NEW x
  PROVE  CountOf(f, S, x) \in Nat
BY FS_Subset, FS_CardinalityType DEF CountOf

OnlyAt(f, g, S, a) == IsFiniteSet(S) /\ a \in S /\ \A s \in S \ {a} : g[s] = f[s]

LEMMA CountChange ==
  ASSUME NEW S, NEW f, NEW g, NEW a, OnlyAt(f, g, S, a), NEW x
  PROVE  CountOf(g, S, x) = CountOf(f, S, x) - One(f[a], x) + One(g[a], x)
<1> DEFINE F == {s \in S : f[s] = x}
           G == {s \in S : g[s] = x}
<1>1. IsFiniteSet(F) /\ Cardinality(F) \in Nat /\ IsFiniteSet(G) /\ Cardinality(G) \in Nat
  BY FS_Subset, FS_CardinalityType DEF OnlyAt
<1>2. F \ {a} = G \ {a} /\ (a \in F <=> f[a] = x) /\ (a \in G <=> g[a] = x)
  BY DEF OnlyAt
<1>5. CountOf(f, S, x) = Cardinality(F) /\ CountOf(g, S, x) = Cardinality(G)
  BY DEF CountOf
<1> HIDE DEF F, G
<1>3. /\ Cardinality(F \ {a}) = IF a \in F THEN Cardinality(F) - 1 ELSE Cardinality(F)
      /\ Cardinality(G \ {a}) = IF a \in G THEN Cardinality(G) - 1 ELSE Cardinality(G)
  BY <1>1, FS_RemoveElement
<1>4. Cardinality(G) = Cardinality(F) - One(f[a], x) + One(g[a], x)
  <2>1. /\ Cardinality(F \ {a}) = Cardinality(F) - One(f[a], x)
        /\ Cardinality(G \ {a}) = Cardinality(G) - One(g[a], x)
    BY <1>1, <1>2, <1>3 DEF One
  <2>2. Cardinality(F \ {a}) = Cardinality(G \ {a})
    BY <1>2
  <2>3. One(f[a], x) \in Nat /\ One(g[a], x) \in Nat
    BY OneType
  <2> QED
    BY <1>1, <2>1, <2>2, <2>3
<1> QED
  BY <1>1, <1>4, <1>5

\* The places of i in the sequences of the processes of S.
At(h, S, i) == UNION {{<<p, k>> : k \in {k \in DOMAIN h[p] : h[p][k] = i}} : p \in S}

LEMMA AtIs ==
  ASSUME NEW h, NEW S, NEW i
  PROVE  \A t : t \in At(h, S, i) <=> \E p \in S : \E k \in Where(h[p], i) : t = <<p, k>>
BY DEF At, Where

LEMMA AtFinite ==
  ASSUME NEW S, NEW T, IsFiniteSet(T), NEW h, \A p \in T : h[p] \in Seq(S), NEW i
  PROVE  IsFiniteSet(At(h, T, i)) /\ Cardinality(At(h, T, i)) \in Nat
<1> DEFINE Mine(p) == {<<p, k>> : k \in {k \in DOMAIN h[p] : h[p][k] = i}}
           All == {Mine(p) : p \in T}
           f == [p \in T |-> Mine(p)]
<1>1. f \in Surjection(T, All)
  BY DEF Surjection
<1>2. IsFiniteSet(All)
  BY <1>1, FS_Surjection
<1>3. ASSUME NEW p \in T
      PROVE  IsFiniteSet(Mine(p))
  <2>1. IsFiniteSet(Where(h[p], i))
    BY WhereFinite
  <2>2. IsFiniteSet({p})
    BY FS_Singleton
  <2>3. IsFiniteSet({p} \X Where(h[p], i))
    BY <2>1, <2>2, FS_Product
  <2>4. Mine(p) \subseteq {p} \X Where(h[p], i)
    BY DEF Where
  <2> QED
    BY <2>3, <2>4, FS_Subset
<1>4. \A M \in All : IsFiniteSet(M)
  BY <1>3
<1>5. IsFiniteSet(UNION All)
  <2> HIDE DEF All
  <2> QED
    BY <1>2, <1>4, FS_UNION
<1> QED
  BY <1>5, FS_CardinalityType DEF At

\* One sequence changes: what it holds is exchanged.
Exchanged(S, T, g, h, p) ==
  /\ IsFiniteSet(T) /\ p \in T
  /\ \A q \in T : g[q] \in Seq(S) /\ h[q] \in Seq(S)
  /\ \A q \in T \ {p} : g[q] = h[q]

LEMMA AtChange ==
  ASSUME NEW S, NEW T, NEW g, NEW h, NEW p, Exchanged(S, T, g, h, p), NEW i
  PROVE  /\ Cardinality(At(h, T, i)) \in Nat
         /\ Cardinality(At(g, T, i)) = Cardinality(At(h, T, i)) - Occ(h[p], i) + Occ(g[p], i)
<1>a. /\ IsFiniteSet(T) /\ p \in T
      /\ \A q \in T : g[q] \in Seq(S) /\ h[q] \in Seq(S)
      /\ \A q \in T \ {p} : g[q] = h[q]
  BY DEF Exchanged
<1> USE <1>a
<1> DEFINE Rest == At(h, T \ {p}, i)
<1>1. IsFiniteSet(T \ {p})
  BY FS_RemoveElement
<1>2. IsFiniteSet(Rest) /\ Cardinality(Rest) \in Nat
  BY <1>1, AtFinite
<1>3. ASSUME NEW f, \A q \in T : f[q] \in Seq(S), \A q \in T \ {p} : f[q] = h[q]
      PROVE  /\ Cardinality(At(f, T, i)) = Cardinality(Rest) + Occ(f[p], i)
             /\ Occ(f[p], i) \in Nat
  <2> DEFINE Mine == {p} \X Where(f[p], i)
  <2>1. IsFiniteSet(Where(f[p], i)) /\ Occ(f[p], i) \in Nat
    BY <1>3, WhereFinite
  <2>2. IsFiniteSet(Mine) /\ Cardinality(Mine) = Occ(f[p], i)
    <3>1. IsFiniteSet({p}) /\ Cardinality({p}) = 1
      BY FS_Singleton
    <3>2. IsFiniteSet(Mine) /\ Cardinality(Mine) = 1 * Occ(f[p], i)
      BY <3>1, <2>1, FS_Product DEF Occ
    <3> QED
      BY <3>2, <2>1
  <2>3. At(f, T, i) = Rest \cup Mine
    <3>1. \A t : t \in Rest <=> \E q \in T \ {p} : \E k \in Where(h[q], i) : t = <<q, k>>
      BY AtIs
    <3>2. \A t : t \in At(f, T, i) <=> \E q \in T : \E k \in Where(f[q], i) : t = <<q, k>>
      BY AtIs
    <3>3. \A t : t \in Mine <=> \E k \in Where(f[p], i) : t = <<p, k>>
      OBVIOUS
    <3>4. \A q \in T \ {p} : Where(f[q], i) = Where(h[q], i)
      BY <1>3
    <3> HIDE DEF Rest, Mine
    <3> QED
      BY <3>1, <3>2, <3>3, <3>4
  <2>4. Rest \cap Mine = {}
    <3>1. \A t \in Rest : \E q \in T \ {p} : \E k \in Where(h[q], i) : t = <<q, k>>
      BY AtIs
    <3> HIDE DEF Rest
    <3> QED
      BY <3>1
  <2> HIDE DEF Rest, Mine
  <2>5. Cardinality(Rest \cup Mine) = Cardinality(Rest) + Cardinality(Mine) - Cardinality({})
    BY <1>2, <2>2, <2>4, FS_Union
  <2> QED
    BY <1>2, <2>1, <2>2, <2>3, <2>5, FS_EmptySet
<1> HIDE DEF Rest
<1>4. Cardinality(At(h, T, i)) = Cardinality(Rest) + Occ(h[p], i) /\ Occ(h[p], i) \in Nat
  BY <1>3
<1>5. Cardinality(At(g, T, i)) = Cardinality(Rest) + Occ(g[p], i) /\ Occ(g[p], i) \in Nat
  BY <1>3
<1> QED
  BY <1>2, <1>4, <1>5
-----------------------------------------------------------------------------
\* The reference counts of the inode cache, and the parts of a step.
LEMMA Basics ==
  ASSUME FilesTypeOK
  PROVE  /\ 1 \in Inums /\ 1 \in Procs /\ 0 \notin Inums /\ 0 \notin Procs /\ 0 \notin Fds
         /\ Inums \subseteq Nat /\ Fds # {} /\ Fds \subseteq Nat /\ IsFiniteSet(Fds)
         /\ Free \in Inode /\ Uncached \in CacheEntry /\ NoLocals \in Locals
<1>1. 1 \in Inums /\ 1 \in Procs /\ 0 \notin Inums /\ 0 \notin Procs /\ Inums \subseteq Nat
  BY FilesConstants
<1>2. Fds # {} /\ Fds \subseteq Nat /\ IsFiniteSet(Fds) /\ 0 \notin Fds
  <2>1. NFILE \in Nat /\ NFILE >= 1
    BY FilesConstants
  <2>2. 1 \in Fds /\ Fds \subseteq Nat /\ 0 \notin Fds
    BY <2>1 DEF Fds
  <2>3. IsFiniteSet(1..NFILE)
    BY <2>1, FS_Interval
  <2> QED
    BY <2>2, <2>3 DEF Fds
<1>3. Free \in Inode
  BY DEF Free, Inode, Types
<1>4. Uncached \in CacheEntry
  BY DEF Uncached, CacheEntry, Types
<1>5. NoLocals \in Locals
  BY DEF NoLocals, Locals, Thens
<1> QED
  BY <1>1, <1>2, <1>3, <1>4, <1>5

LEMMA LowestIn ==
  ASSUME NEW S \in SUBSET Nat, S # {}
  PROVE  Lowest(S) \in S
<1>1. PICK x \in S : \A y \in S : ~(<<y, x>> \in OpToRel(<, Nat))
  BY NatLessThanWellFounded, WFMin
<1>2. ASSUME NEW y \in S, ~(x <= y) PROVE FALSE
  <2>1. y < x /\ <<y, x>> \in Nat \X Nat
    BY <1>2
  <2>2. <<y, x>> \in OpToRel(<, Nat)
    BY <2>1 DEF OpToRel
  <2> QED
    BY <1>1, <2>2
<1>3. \E z \in S : \A y \in S : z <= y
  BY <1>2
<1> QED
  BY <1>3 DEF Lowest

\* d is the cache c with the same references.
Alike(c, d) == d \in [Inums -> CacheEntry] /\ \A i \in Inums : d[i].ref = c[i].ref

LEMMA CacheSet ==
  ASSUME NEW c \in [Inums -> CacheEntry], NEW i, NEW x \in CacheEntry,
         i \in Inums => x.ref = c[i].ref
  PROVE  Alike(c, [c EXCEPT ![i] = x])
BY DEF Alike

LEMMA EntrySet ==
  ASSUME NEW x \in CacheEntry
  PROVE  /\ x.ref \in Int
         /\ \A v \in BOOLEAN : [x EXCEPT !.valid = v] \in CacheEntry /\ [x EXCEPT !.valid = v].ref = x.ref
         /\ \A v \in Procs \cup {0} : /\ [x EXCEPT !.lock = v] \in CacheEntry
                                      /\ [x EXCEPT !.lock = v].ref = x.ref
         /\ \A v \in Types : [x EXCEPT !.type = v] \in CacheEntry /\ [x EXCEPT !.type = v].ref = x.ref
         /\ \A v \in Int : /\ [x EXCEPT !.nlink = v] \in CacheEntry
                           /\ [x EXCEPT !.nlink = v].ref = x.ref
         /\ \A v \in Int : [x EXCEPT !.ref = v] \in CacheEntry /\ [x EXCEPT !.ref = v].ref = v
BY DEF CacheEntry

LEMMA LoadedIs ==
  ASSUME FilesTypeOK, NEW i \in Inums
  PROVE  Loaded(i) \in CacheEntry /\ Loaded(i).ref = icache[i].ref
<1>1. icache[i] \in CacheEntry /\ dino[i] \in Inode
  BY DEF FilesTypeOK
<1>2. dino[i].type \in Types /\ dino[i].nlink \in Int
  BY <1>1 DEF Inode
<1> QED
  BY <1>1, <1>2 DEF Loaded, CacheEntry

LEMMA IgetIs ==
  ASSUME NEW c \in [Inums -> CacheEntry], NEW i \in Inums
  PROVE  /\ Iget(c, i) \in [Inums -> CacheEntry]
         /\ \A j \in Inums : Iget(c, i)[j].ref = c[j].ref + One(i, j)
<1> DEFINE x == IF c[i].ref = 0 THEN [Uncached EXCEPT !.ref = 1] ELSE [c[i] EXCEPT !.ref = @ + 1]
<1>1. Uncached \in CacheEntry /\ c[i] \in CacheEntry
  BY DEF Uncached, CacheEntry, Types
<1>2. x \in CacheEntry /\ x.ref = c[i].ref + 1
  <2>1. CASE c[i].ref = 0
    BY <2>1, <1>1, EntrySet
  <2>2. CASE c[i].ref # 0
    BY <2>2, <1>1, EntrySet
  <2> QED
    BY <2>1, <2>2
<1>3. Iget(c, i) = [c EXCEPT ![i] = x]
  BY DEF Iget
<1> HIDE DEF x
<1>4. \A j \in Inums : c[j].ref \in Int
  BY DEF CacheEntry
<1> QED
  BY <1>2, <1>3, <1>4 DEF One
-----------------------------------------------------------------------------
\* Where a step leaves its process, and the others where they were.
Moves(p) ==
  /\ r' \in [Procs -> Locals] /\ pc' \in [Procs -> Points]
  /\ \A q \in Procs \ {p} : r'[q] = r[q] /\ pc'[q] = pc[q]
  /\ LocalsFit(r'[p], pc'[p])

LEMMA Going ==
  ASSUME FilesTypeOK, NEW p \in Procs, NEW at \in Points, NEW locals \in Locals,
         LocalsFit(locals, at), Goto(p, at, locals)
  PROVE  Moves(p) /\ r'[p] = locals /\ pc'[p] = at
BY DEF Moves, Goto, FilesTypeOK

\* A place only looks at some of the locals.
LEMMA SamePlace ==
  ASSUME NEW q, NEW s, NEW place,
         /\ s.op = q.op /\ s.path = q.path /\ s.parent = q.parent
         /\ s.ip = q.ip /\ s.tgt = q.tgt /\ s.new = q.new
  PROVE  /\ PlaceFit(q, place) => PlaceFit(s, place)
         /\ \A i : PlaceCount(s, place, i) = PlaceCount(q, place, i)
<1>1. UsesTgt(q, place) <=> UsesTgt(s, place)
  BY DEF UsesTgt, SecondHalf
<1>2. PlaceFit(q, place) => PlaceFit(s, place)
  BY <1>1 DEF PlaceFit
<1>3. \A i : PlaceCount(s, place, i) = PlaceCount(q, place, i)
  BY <1>1 DEF PlaceCount
<1> QED
  BY <1>2, <1>3

LEMMA PlaceCountType ==
  ASSUME NEW q, NEW place, NEW i
  PROVE  PlaceCount(q, place, i) \in Nat
BY OneType DEF PlaceCount

\* At the end of a call, or outside one, nothing is in use.
LEMMA EndPlace ==
  ASSUME NEW q, NEW place \in {"end", "user", "exit", "closing"},
         place # "end" => q.op \in {"none", "exit"}
  PROVE  PlaceFit(q, place) /\ \A i : PlaceCount(q, place, i) = 0
<1>1. ~UsesTgt(q, place) /\ place \notin IpPoints /\ place \notin TgtPoints
  BY DEF UsesTgt, SecondHalf, IpPoints, TgtPoints
<1> QED
  BY <1>1 DEF PlaceFit, PlaceCount

LEMMA Putting ==
  ASSUME FilesTypeOK, NEW p \in Procs, NEW s \in Seq(Inums), s # <<>>,
         NEW then \in Thens, PlaceFit(r[p], then), Put(p, s, then)
  PROVE  /\ Moves(p) /\ pc'[p] = "iput" /\ r'[p].op = r[p].op /\ r'[p].then = then
         /\ \A i : HeldCount(r'[p], pc'[p], i) = Occ(s, i) + PlaceCount(r[p], then, i)
<1> DEFINE q == IF then = "end" THEN [NoLocals EXCEPT !.op = r[p].op] ELSE r[p]
           t == [q EXCEPT !.put = s, !.then = then]
<1>1. r[p] \in Locals /\ NoLocals \in Locals
  BY Basics DEF FilesTypeOK
<1>2. q \in Locals /\ q.op = r[p].op
  <2>1. [NoLocals EXCEPT !.op = r[p].op] \in Locals /\ [NoLocals EXCEPT !.op = r[p].op].op = r[p].op
    BY <1>1 DEF Locals
  <2> QED
    BY <2>1, <1>1
<1>3. then # "end" => q = r[p]
  OBVIOUS
<1>4. Goto(p, "iput", t)
  BY DEF Put
<1> HIDE DEF q
<1>5. /\ t \in Locals /\ t.put = s /\ t.then = then /\ t.op = q.op /\ t.path = q.path
      /\ t.parent = q.parent /\ t.ip = q.ip /\ t.tgt = q.tgt /\ t.new = q.new
  BY <1>2 DEF Locals
<1> HIDE DEF t
<1>6. PlaceFit(t, then) /\ \A i : PlaceCount(t, then, i) = PlaceCount(r[p], then, i)
  <2>1. CASE then = "end"
    BY <2>1, EndPlace
  <2>2. CASE then # "end"
    BY <2>2, <1>3, <1>5, SamePlace
  <2> QED
    BY <2>1, <2>2
<1>7. Place(t, "iput") = then
  BY <1>5 DEF Place, Iputs
<1>8. LocalsFit(t, "iput")
  BY <1>5, <1>6, <1>7 DEF LocalsFit, Iputs
<1>9. Moves(p) /\ r'[p] = t /\ pc'[p] = "iput"
  BY <1>4, <1>5, <1>8, Going DEF Points, Iputs
<1> QED
  BY <1>2, <1>5, <1>6, <1>7, <1>9 DEF HeldCount

\* Before a step at a point outside iput.
LEMMA HeldAtPoint ==
  ASSUME FilesTypeOK, ShapeInv, NEW p \in Procs, pc[p] \notin Iputs \cup {"closing"}
  PROVE  /\ r[p] \in Locals /\ r[p].put = <<>> /\ PlaceFit(r[p], pc[p])
         /\ \A i : HeldCount(r[p], pc[p], i) = PlaceCount(r[p], pc[p], i)
         /\ pc[p] \notin {"user", "end"} => cwd[p] \in Inums
<1>1. r[p] \in Locals /\ LocalsFit(r[p], pc[p]) /\ Alive(r[p], pc[p], cwd[p], ofile[p])
  BY DEF FilesTypeOK, ShapeInv
<1>2. Place(r[p], pc[p]) = pc[p]
  BY DEF Place
<1>3. r[p].put = <<>> /\ PlaceFit(r[p], pc[p])
  BY <1>1, <1>2 DEF LocalsFit
<1>4. \A i : HeldCount(r[p], pc[p], i) = PlaceCount(r[p], pc[p], i)
  <2>1. \A i : PlaceCount(r[p], pc[p], i) \in Nat
    BY PlaceCountType
  <2> QED
    BY <1>2, <1>3, <2>1, OccEmpty DEF HeldCount
<1>5. pc[p] \notin {"user", "end"} => cwd[p] \in Inums
  BY <1>1, <1>2 DEF Alive, FilesTypeOK
<1> QED
  BY <1>1, <1>3, <1>4, <1>5
-----------------------------------------------------------------------------
\* What a step of p must do to keep the counts: every reference that it gains
\* or loses, in its locals, as its directory, or as a struct file g, is counted.
Balanced(p, g, i) ==
  icache'[i].ref = icache[i].ref
                     + HeldCount(r'[p], pc'[p], i) - HeldCount(r[p], pc[p], i)
                     + One(cwd'[p], i) - One(cwd[p], i)
                     + One(ftable'[g].ip, i) - One(ftable[g].ip, i)

Sound(p) ==
  /\ FilesTypeOK'
  /\ Moves(p)
  /\ \A q \in Procs \ {p} : cwd'[q] = cwd[q] /\ ofile'[q] = ofile[q]
  /\ Alive(r'[p], pc'[p], cwd'[p], ofile'[p])
  /\ \A f \in Fds : /\ ftable'[f].ip = 0 <=> ftable'[f].ref = 0
                    /\ ftable'[f].ref = ftable[f].ref + One(ofile'[p], f) - One(ofile[p], f)
  /\ \E g \in Fds : /\ \A f \in Fds \ {g} : ftable'[f].ip = ftable[f].ip
                    /\ \A i \in Inums : Balanced(p, g, i)

\* The usual step touches neither the open files nor the current directories.
Quiet(p) ==
  /\ Moves(p)
  /\ Alive(r'[p], pc'[p], cwd[p], ofile[p])
  /\ UNCHANGED <<ftable, ofile, cwd>>
  /\ dino' \in [Inums -> Inode] /\ stable' \in [Inums -> Inode]
  /\ icache' \in [Inums -> CacheEntry]
  /\ \A i \in Inums :
       icache'[i].ref + HeldCount(r[p], pc[p], i) = icache[i].ref + HeldCount(r'[p], pc'[p], i)

LEMMA QuietIsSound ==
  ASSUME FilesTypeOK, ShapeInv, NEW p \in Procs, Quiet(p)
  PROVE  Sound(p)
<1>1. FilesTypeOK'
  BY DEF FilesTypeOK, Quiet, Moves
<1>2. \A q \in Procs \ {p} : cwd'[q] = cwd[q] /\ ofile'[q] = ofile[q]
  BY DEF Quiet
<1>3. Moves(p) /\ Alive(r'[p], pc'[p], cwd'[p], ofile'[p])
  BY DEF Quiet
<1>4. \A f \in Fds : /\ ftable'[f].ip = 0 <=> ftable'[f].ref = 0
                     /\ ftable'[f].ref = ftable[f].ref + One(ofile'[p], f) - One(ofile[p], f)
  <2>1. \A f \in Fds : (ftable[f].ip = 0 <=> ftable[f].ref = 0) /\ ftable[f].ref \in Int
    BY DEF ShapeInv, FilesTypeOK, File
  <2>2. ftable' = ftable /\ ofile' = ofile
    BY DEF Quiet
  <2>3. \A f : One(ofile[p], f) \in Nat
    BY OneType
  <2> QED
    BY <2>1, <2>2, <2>3
<1>5. PICK g \in Fds : TRUE
  BY Basics
<1>6. ASSUME NEW i \in Inums PROVE Balanced(p, g, i)
  <2>1. One(cwd[p], i) \in Nat /\ One(ftable[g].ip, i) \in Nat
    BY OneType
  <2>2. HeldCount(r[p], pc[p], i) \in Nat /\ HeldCount(r'[p], pc'[p], i) \in Nat
    BY HeldCountType DEF FilesTypeOK, Quiet, Moves
  <2>3. icache[i].ref \in Int /\ icache'[i].ref \in Int
    BY DEF FilesTypeOK, CacheEntry, Quiet
  <2>4. icache'[i].ref + HeldCount(r[p], pc[p], i) = icache[i].ref + HeldCount(r'[p], pc'[p], i)
    BY DEF Quiet
  <2>5. cwd' = cwd /\ ftable' = ftable
    BY DEF Quiet
  <2> QED
    BY <2>1, <2>2, <2>3, <2>4, <2>5 DEF Balanced
<1>7. \A f \in Fds \ {g} : ftable'[f].ip = ftable[f].ip
  BY DEF Quiet
<1> QED
  BY <1>1, <1>2, <1>3, <1>4, <1>6, <1>7 DEF Sound

\* The pointers that RefsArePointers counts.
LEMMA HeldIs ==
  ASSUME NEW p \in Procs
  PROVE  Held(p) = HeldSeq(r[p], pc[p])
BY DEF Held, HeldSeq, InIput, Iputs, Place, UsesTgt, SecondHalf, IpPoints, TgtPoints

LEMMA HeldIsNext ==
  ASSUME NEW p \in Procs
  PROVE  Held(p)' = HeldSeq(r'[p], pc'[p])
BY DEF Held, HeldSeq, InIput, Iputs, Place, UsesTgt, SecondHalf, IpPoints, TgtPoints

Seqs == [p \in Procs |-> HeldSeq(r[p], pc[p])]

LEMMA Pointers ==
  ASSUME NEW i
  PROVE  UNION {{<<p, k>> : k \in {k \in DOMAIN Held(p) : Held(p)[k] = i}} : p \in Procs}
           = At(Seqs, Procs, i)
<1>1. \A p \in Procs : Seqs[p] = Held(p)
  BY HeldIs DEF Seqs
<1>2. \A p \in Procs : {<<p, k>> : k \in {k \in DOMAIN Held(p) : Held(p)[k] = i}}
                         = {<<p, k>> : k \in {k \in DOMAIN Seqs[p] : Seqs[p][k] = i}}
  BY <1>1
<1> QED
  BY <1>2 DEF At

LEMMA PointersNext ==
  ASSUME NEW i
  PROVE  UNION {{<<p, k>> : k \in {k \in DOMAIN Held(p)' : Held(p)'[k] = i}} : p \in Procs}
           = At(Seqs', Procs, i)
<1>1. \A p \in Procs : Seqs'[p] = Held(p)'
  BY HeldIsNext DEF Seqs
<1>2. \A p \in Procs : {<<p, k>> : k \in {k \in DOMAIN Held(p)' : Held(p)'[k] = i}}
                         = {<<p, k>> : k \in {k \in DOMAIN Seqs'[p] : Seqs'[p][k] = i}}
  BY <1>1
<1> QED
  BY <1>2 DEF At

\* The locals of the others are as they were.
LEMMA ShapeStep ==
  ASSUME FilesTypeOK, ShapeInv, NEW p \in Procs, Sound(p)
  PROVE  ShapeInv'
<1>1. \A q \in Procs : LocalsFit(r'[q], pc'[q])
  BY DEF ShapeInv, Sound, Moves
<1>2. ASSUME NEW q \in Procs PROVE Alive(r'[q], pc'[q], cwd'[q], ofile'[q])
  <2>1. CASE q = p
    BY <2>1 DEF Sound
  <2>2. CASE q # p
    BY <2>2 DEF ShapeInv, Sound, Moves
  <2> QED
    BY <2>1, <2>2
<1>3. \A f \in Fds : ftable'[f].ip = 0 <=> ftable'[f].ref = 0
  BY DEF Sound
<1> QED
  BY <1>1, <1>2, <1>3 DEF ShapeInv

LEMMA HeldStep ==
  ASSUME FilesCondition, FilesTypeOK, ShapeInv, NEW p \in Procs, Sound(p), NEW i
  PROVE  /\ Cardinality(At(Seqs, Procs, i)) \in Nat
         /\ Cardinality(At(Seqs', Procs, i)) = Cardinality(At(Seqs, Procs, i))
              - HeldCount(r[p], pc[p], i) + HeldCount(r'[p], pc'[p], i)
<1>1. ShapeInv' /\ FilesTypeOK'
  BY ShapeStep DEF Sound
<1>2. ASSUME NEW q \in Procs
      PROVE  /\ Seqs[q] \in Seq(Inums) /\ Occ(Seqs[q], i) = HeldCount(r[q], pc[q], i)
             /\ Seqs'[q] \in Seq(Inums) /\ Occ(Seqs'[q], i) = HeldCount(r'[q], pc'[q], i)
  <2>1. r[q] \in Locals /\ LocalsFit(r[q], pc[q]) /\ r'[q] \in Locals /\ LocalsFit(r'[q], pc'[q])
    BY <1>1 DEF FilesTypeOK, ShapeInv
  <2>2. Seqs[q] = HeldSeq(r[q], pc[q]) /\ Seqs'[q] = HeldSeq(r'[q], pc'[q])
    BY DEF Seqs
  <2> QED
    BY <2>1, <2>2, HeldSeqCount
<1>3. \A q \in Procs \ {p} : Seqs'[q] = Seqs[q]
  BY DEF Seqs, Sound, Moves
<1>4. IsFiniteSet(Procs)
  BY DEF FilesCondition
<1> DEFINE g == Seqs'
           h == Seqs
<1> HIDE DEF g, h
<1>5. /\ Cardinality(At(h, Procs, i)) \in Nat
      /\ Cardinality(At(g, Procs, i)) = Cardinality(At(h, Procs, i)) - Occ(h[p], i) + Occ(g[p], i)
  <2>1. \A q \in Procs : g[q] \in Seq(Inums) /\ h[q] \in Seq(Inums)
    BY <1>2 DEF g, h
  <2>2. \A q \in Procs \ {p} : g[q] = h[q]
    BY <1>3 DEF g, h
  <2>3. Exchanged(Inums, Procs, g, h, p)
    BY <1>4, <2>1, <2>2 DEF Exchanged
  <2> QED
    BY ONLY <2>3, AtChange
<1> QED
  BY <1>2, <1>5 DEF g, h

\* The arithmetic of a step: what the counts of a reference gain and lose.
LEMMA Sums ==
  ASSUME NEW ref \in Int, NEW new \in Int, NEW d \in Nat, NEW f \in Nat, NEW h \in Nat,
         NEW d0 \in Nat, NEW d1 \in Nat, NEW f0 \in Nat, NEW f1 \in Nat, NEW h0 \in Nat, NEW h1 \in Nat,
         ref = d + f + h, new = ref + h1 - h0 + d1 - d0 + f1 - f0
  PROVE  new = (d - d0 + d1) + (f - f0 + f1) + (h - h0 + h1)
OBVIOUS

LEMMA SoundStep ==
  ASSUME FilesCondition, FilesInv, NEW p \in Procs, Sound(p)
  PROVE  FilesInv'
<1>1. FilesTypeOK /\ ShapeInv /\ RefsArePointers
  BY DEF FilesInv
<1>2. FilesTypeOK' /\ ShapeInv'
  BY <1>1, ShapeStep DEF Sound
<1>3. PICK g \in Fds : /\ \A f \in Fds \ {g} : ftable'[f].ip = ftable[f].ip
                       /\ \A i \in Inums : Balanced(p, g, i)
  BY DEF Sound
<1>4. IsFiniteSet(Procs) /\ IsFiniteSet(Fds)
  BY <1>1, Basics DEF FilesCondition
<1>8. OnlyAt(cwd, cwd', Procs, p) /\ OnlyAt(ofile, ofile', Procs, p)
  BY <1>4 DEF OnlyAt, Sound
<1>5. ASSUME NEW i \in Inums
      PROVE  icache'[i].ref = CountOf(cwd', Procs, i)
                              + Cardinality({f \in Fds : ftable'[f].ip = i})
                              + Cardinality(At(Seqs', Procs, i))
  <2> DEFINE D == CountOf(cwd, Procs, i)
             F == Cardinality({f \in Fds : ftable[f].ip = i})
             H == Cardinality(At(Seqs, Procs, i))
             D1 == CountOf(cwd', Procs, i)
             F1 == Cardinality({f \in Fds : ftable'[f].ip = i})
             H1 == Cardinality(At(Seqs', Procs, i))
  <2>1. icache[i].ref = D + F + H
    BY <1>1, Pointers DEF RefsArePointers, CountOf
  <2>2. D \in Nat /\ D1 = D - One(cwd[p], i) + One(cwd'[p], i)
    BY <1>4, <1>8, CountType, CountChange
  <2>3. F \in Nat /\ F1 = F - One(ftable[g].ip, i) + One(ftable'[g].ip, i)
    <3> DEFINE u == [f \in Fds |-> ftable[f].ip]
               v == [f \in Fds |-> ftable'[f].ip]
    <3>1. OnlyAt(u, v, Fds, g)
      BY <1>3, <1>4 DEF OnlyAt
    <3>2. F = CountOf(u, Fds, i) /\ F1 = CountOf(v, Fds, i)
      <4>1. /\ {f \in Fds : u[f] = i} = {f \in Fds : ftable[f].ip = i}
            /\ {f \in Fds : v[f] = i} = {f \in Fds : ftable'[f].ip = i}
        OBVIOUS
      <4> QED
        BY <4>1 DEF CountOf
    <3>3. u[g] = ftable[g].ip /\ v[g] = ftable'[g].ip
      BY <1>3
    <3> HIDE DEF u, v, F, F1
    <3>4. CountOf(u, Fds, i) \in Nat /\ CountOf(v, Fds, i) = CountOf(u, Fds, i) - One(u[g], i) + One(v[g], i)
      BY <3>1, <1>4, CountType, CountChange
    <3> QED
      BY <3>2, <3>3, <3>4
  <2>4. H \in Nat /\ H1 = H - HeldCount(r[p], pc[p], i) + HeldCount(r'[p], pc'[p], i)
    BY <1>1, HeldStep
  <2>5. icache[i].ref \in Int /\ icache'[i].ref \in Int
    BY <1>1, <1>2 DEF FilesTypeOK, CacheEntry
  <2>6. /\ One(cwd[p], i) \in Nat /\ One(cwd'[p], i) \in Nat
        /\ One(ftable[g].ip, i) \in Nat /\ One(ftable'[g].ip, i) \in Nat
        /\ HeldCount(r[p], pc[p], i) \in Nat /\ HeldCount(r'[p], pc'[p], i) \in Nat
    BY <1>1, <1>2, OneType, HeldCountType DEF FilesTypeOK
  <2>7. Balanced(p, g, i)
    BY <1>3
  <2> HIDE DEF D, F, H, D1, F1, H1
  <2>8. icache'[i].ref = (D - One(cwd[p], i) + One(cwd'[p], i))
                         + (F - One(ftable[g].ip, i) + One(ftable'[g].ip, i))
                         + (H - HeldCount(r[p], pc[p], i) + HeldCount(r'[p], pc'[p], i))
    BY <2>1, <2>2, <2>3, <2>4, <2>5, <2>6, <2>7, Sums DEF Balanced
  <2>9. icache'[i].ref = D1 + F1 + H1
    BY <2>2, <2>3, <2>4, <2>8
  <2> QED
    BY <2>9 DEF D1, F1, H1
<1>6. ASSUME NEW f \in Fds
      PROVE  ftable'[f].ref = CountOf(ofile', Procs, f)
  <2>1. ftable[f].ref = CountOf(ofile, Procs, f)
    BY <1>1 DEF RefsArePointers, CountOf
  <2>3. /\ CountOf(ofile, Procs, f) \in Nat
        /\ CountOf(ofile', Procs, f) = CountOf(ofile, Procs, f) - One(ofile[p], f) + One(ofile'[p], f)
    BY <1>4, <1>8, CountType, CountChange
  <2>4. ftable'[f].ref = ftable[f].ref + One(ofile'[p], f) - One(ofile[p], f)
    BY DEF Sound
  <2>5. One(ofile[p], f) \in Nat /\ One(ofile'[p], f) \in Nat
    BY OneType
  <2> QED
    BY <2>1, <2>3, <2>4, <2>5
<1>7. RefsArePointers'
  BY <1>5, <1>6, PointersNext DEF RefsArePointers, CountOf
<1> QED
  BY <1>2, <1>7 DEF FilesInv
-----------------------------------------------------------------------------
\* iput.
LEMMA InIputs ==
  ASSUME FilesTypeOK, ShapeInv, NEW p \in Procs, pc[p] \in Iputs
  PROVE  /\ r[p] \in Locals /\ r[p].put \in Seq(Inums) /\ r[p].put # <<>>
         /\ Head(r[p].put) \in Inums /\ Tail(r[p].put) \in Seq(Inums)
         /\ r[p].then \in Thens /\ PlaceFit(r[p], r[p].then)
         /\ \A at \in Iputs :
              /\ LocalsFit(r[p], at) /\ Alive(r[p], at, cwd[p], ofile[p])
              /\ \A i : HeldCount(r[p], at, i) = Occ(r[p].put, i) + PlaceCount(r[p], r[p].then, i)
<1>1. r[p] \in Locals /\ LocalsFit(r[p], pc[p]) /\ Alive(r[p], pc[p], cwd[p], ofile[p])
  BY DEF FilesTypeOK, ShapeInv
<1>2. r[p].put \in Seq(Inums) /\ r[p].then \in Thens
  BY <1>1 DEF Locals
<1>3. r[p].put # <<>>
  BY <1>1 DEF LocalsFit
<1>4. Head(r[p].put) \in Inums /\ Tail(r[p].put) \in Seq(Inums)
  BY <1>2, <1>3
<1>5. \A at \in Iputs : Place(r[p], at) = r[p].then
  BY DEF Place
<1>6. PlaceFit(r[p], r[p].then)
  BY <1>1, <1>5 DEF LocalsFit
<1>7. ASSUME NEW at \in Iputs
      PROVE  /\ LocalsFit(r[p], at) /\ Alive(r[p], at, cwd[p], ofile[p])
             /\ \A i : HeldCount(r[p], at, i) = Occ(r[p].put, i) + PlaceCount(r[p], r[p].then, i)
  <2>1. Place(r[p], at) = r[p].then /\ Place(r[p], pc[p]) = r[p].then
    BY <1>5
  <2>2. at \notin {"closing", "exit", "user"} /\ pc[p] \notin {"closing", "exit", "user"}
    BY DEF Iputs
  <2>3. LocalsFit(r[p], at)
    BY <1>3, <1>6, <2>1, <2>2 DEF LocalsFit
  <2>4. Alive(r[p], at, cwd[p], ofile[p])
    BY <1>1, <2>1, <2>2 DEF Alive
  <2> QED
    BY <2>1, <2>3, <2>4 DEF HeldCount
<1> QED
  BY <1>1, <1>2, <1>3, <1>4, <1>6, <1>7

\* From one step of iput to the next, the process keeps what it has.
LEMMA StillInIput ==
  ASSUME FilesTypeOK, ShapeInv, NEW p \in Procs, pc[p] \in Iputs, r'[p] = r[p], pc'[p] \in Iputs
  PROVE  /\ \A j : HeldCount(r'[p], pc'[p], j) = HeldCount(r[p], pc[p], j)
         /\ Alive(r'[p], pc'[p], cwd[p], ofile[p])
<1>1. \A at \in Iputs : Alive(r[p], at, cwd[p], ofile[p])
  BY InIputs
<1>2. \A at \in Iputs : \A j : HeldCount(r[p], at, j) = Occ(r[p].put, j) + PlaceCount(r[p], r[p].then, j)
  BY InIputs
<1>3. r'[p] = r[p] /\ pc[p] \in Iputs /\ pc'[p] \in Iputs
  OBVIOUS
<1>4. ASSUME NEW j PROVE HeldCount(r'[p], pc'[p], j) = HeldCount(r[p], pc[p], j)
  BY ONLY <1>2, <1>3
<1>5. Alive(r'[p], pc'[p], cwd[p], ofile[p])
  BY ONLY <1>1, <1>3
<1> QED
  BY ONLY <1>4, <1>5

LEMMA IputLookSound ==
  ASSUME FilesTypeOK, ShapeInv, NEW p \in Procs, IputLook(p)
  PROVE  Sound(p)
<1> DEFINE i == Head(r[p].put)
<1>1. pc[p] \in Iputs
  BY DEF IputLook, Iputs
<1>2. r[p] \in Locals /\ i \in Inums
  BY <1>1, InIputs
<1>3. PICK at \in Iputs : Goto(p, at, r[p])
  BY DEF IputLook, Iputs
<1>4. Moves(p) /\ r'[p] = r[p] /\ pc'[p] = at
  BY <1>1, <1>2, <1>3, InIputs, Going DEF Points
<1>5. Alike(icache, icache')
  <2>1. icache[i] \in CacheEntry
    BY <1>2 DEF FilesTypeOK
  <2>2. [icache[i] EXCEPT !.lock = p] \in CacheEntry /\ [icache[i] EXCEPT !.lock = p].ref = icache[i].ref
    BY <2>1, EntrySet
  <2>3. icache' = icache \/ icache' = [icache EXCEPT ![i] = [icache[i] EXCEPT !.lock = p]]
    BY DEF IputLook
  <2>4. Alike(icache, icache)
    BY DEF Alike, FilesTypeOK
  <2>5. Alike(icache, [icache EXCEPT ![i] = [icache[i] EXCEPT !.lock = p]])
    <3> DEFINE x == [icache[i] EXCEPT !.lock = p]
    <3>1. icache \in [Inums -> CacheEntry] /\ i \in Inums /\ x \in CacheEntry /\ x.ref = icache[i].ref
      BY <1>2, <2>2 DEF FilesTypeOK
    <3> HIDE DEF x, i
    <3>2. Alike(icache, [icache EXCEPT ![i] = x])
      BY ONLY <3>1, CacheSet
    <3> QED
      BY <3>2 DEF x
  <2> QED
    BY <2>3, <2>4, <2>5
<1>6. \A j : HeldCount(r'[p], pc'[p], j) = HeldCount(r[p], pc[p], j)
  BY <1>1, <1>4, StillInIput
<1>7. Alive(r'[p], pc'[p], cwd[p], ofile[p])
  BY <1>1, <1>4, StillInIput
<1>8. Quiet(p)
  BY <1>4, <1>5, <1>6, <1>7 DEF Quiet, Alike, IputLook, FSame, FilesTypeOK
<1> QED
  BY <1>8, QuietIsSound

LEMMA IputFreeSound ==
  ASSUME FilesTypeOK, ShapeInv, NEW p \in Procs, IputFree(p)
  PROVE  Sound(p)
<1> DEFINE i == Head(r[p].put)
<1>1. pc[p] \in Iputs /\ "drop" \in Iputs
  BY DEF IputFree, Iputs
<1>2. r[p] \in Locals /\ i \in Inums
  BY <1>1, InIputs
<1>4. Moves(p) /\ r'[p] = r[p] /\ pc'[p] = "drop"
  BY <1>1, <1>2, InIputs, Going DEF Points, IputFree
<1>5. Alike(icache, icache')
  <2>1. Freed(icache[i]) \in CacheEntry /\ Freed(icache[i]).ref = icache[i].ref
    <3>1. icache[i] \in CacheEntry
      BY <1>2 DEF FilesTypeOK
    <3> QED
      BY <3>1 DEF Freed, CacheEntry, Types
  <2>2. icache' = [icache EXCEPT ![i] = Freed(icache[i])]
    BY DEF IputFree
  <2> QED
    BY <2>1, <2>2, CacheSet DEF FilesTypeOK
<1>6. \A j : HeldCount(r'[p], pc'[p], j) = HeldCount(r[p], pc[p], j)
  BY <1>1, <1>4, StillInIput
<1>7. Alive(r'[p], pc'[p], cwd[p], ofile[p])
  BY <1>1, <1>4, StillInIput
<1>8. dino' \in [Inums -> Inode]
  BY Basics DEF IputFree, FilesTypeOK
<1>9. Quiet(p)
  BY <1>4, <1>5, <1>6, <1>7, <1>8 DEF Quiet, Alike, IputFree, FSame, FilesTypeOK
<1> QED
  BY <1>9, QuietIsSound

LEMMA IputDropSound ==
  ASSUME FilesTypeOK, ShapeInv, NEW p \in Procs, IputDrop(p)
  PROVE  Sound(p)
<1> DEFINE i == Head(r[p].put)
           rest == Tail(r[p].put)
           at == IF rest = <<>> THEN r[p].then ELSE "iput"
           s == [r[p] EXCEPT !.put = rest]
<1>1. pc[p] \in Iputs /\ "iput" \in Iputs /\ Thens \subseteq Points /\ Iputs \subseteq Points
  BY DEF IputDrop, Iputs, Points
<1>2. /\ r[p] \in Locals /\ i \in Inums /\ rest \in Seq(Inums) /\ r[p].then \in Thens
      /\ PlaceFit(r[p], r[p].then) /\ r[p].put # <<>> /\ r[p].put \in Seq(Inums)
  BY <1>1, InIputs
<1>3. Goto(p, at, s)
  BY DEF IputDrop
<1>4. /\ s \in Locals /\ s.put = rest /\ s.then = r[p].then /\ s.op = r[p].op /\ s.path = r[p].path
      /\ s.parent = r[p].parent /\ s.ip = r[p].ip /\ s.tgt = r[p].tgt /\ s.new = r[p].new
  BY <1>2 DEF Locals
<1>5. r[p].then \notin Iputs \cup {"closing", "user", "exit"}
  BY <1>2 DEF Thens, Iputs
<1>6. Place(s, at) = r[p].then /\ at \in Points
  BY <1>1, <1>2, <1>4, <1>5 DEF Place
<1>7. PlaceFit(s, r[p].then) /\ \A j : PlaceCount(s, r[p].then, j) = PlaceCount(r[p], r[p].then, j)
  <2> HIDE DEF s
  <2> QED
    BY <1>2, <1>4, SamePlace
<1>8. LocalsFit(s, at)
  <2>1. rest = <<>> <=> at \notin Iputs \cup {"closing"}
    BY <1>1, <1>5
  <2>2. at \notin {"closing", "exit", "user"}
    BY <1>5
  <2> QED
    BY <1>4, <1>6, <1>7, <2>1, <2>2 DEF LocalsFit
<1>a. Alive(r[p], pc[p], cwd[p], ofile[p]) /\ Place(r[p], pc[p]) = r[p].then /\ pc[p] # "user"
  BY <1>1, InIputs DEF Place, Iputs
<1>9. Alive(s, at, cwd[p], ofile[p])
  BY <1>4, <1>6, <1>a DEF Alive
<1>10. Moves(p) /\ r'[p] = s /\ pc'[p] = at
  <2> HIDE DEF s, at
  <2> QED
    BY <1>3, <1>4, <1>6, <1>8, Going
<1>11. ASSUME NEW j
       PROVE  HeldCount(r[p], pc[p], j) = HeldCount(s, at, j) + One(i, j)
  <2>1. HeldCount(r[p], pc[p], j) = Occ(r[p].put, j) + PlaceCount(r[p], r[p].then, j)
    BY <1>1, InIputs
  <2>2. HeldCount(s, at, j) = Occ(rest, j) + PlaceCount(r[p], r[p].then, j)
    BY <1>4, <1>6, <1>7 DEF HeldCount
  <2>3. Occ(r[p].put, j) = Occ(rest, j) + One(i, j)
    BY <1>2, OccTail
  <2>4. Occ(rest, j) \in Nat /\ One(i, j) \in Nat /\ PlaceCount(r[p], r[p].then, j) \in Nat
    BY <1>2, WhereFinite, OneType, PlaceCountType
  <2> HIDE DEF rest, i, at, s
  <2> QED
    BY <2>1, <2>2, <2>3, <2>4
<1>12. /\ icache' \in [Inums -> CacheEntry]
       /\ \A j \in Inums : icache'[j].ref = icache[j].ref - One(i, j)
  <2>1. icache[i] \in CacheEntry /\ icache[i].ref - 1 \in Int
    BY <1>2 DEF FilesTypeOK, CacheEntry
  <2> DEFINE x == [icache[i] EXCEPT !.ref = icache[i].ref - 1]
  <2>2. x \in CacheEntry /\ x.ref = icache[i].ref - 1
    BY <2>1, EntrySet
  <2>3. icache' = [icache EXCEPT ![i] = x]
    BY DEF IputDrop
  <2>4. \A j \in Inums : icache[j].ref \in Int
    BY DEF FilesTypeOK, CacheEntry
  <2>5. icache \in [Inums -> CacheEntry]
    BY DEF FilesTypeOK
  <2> HIDE DEF x, i
  <2> QED
    BY <1>2, <2>2, <2>3, <2>4, <2>5 DEF One
<1>13. \A j \in Inums :
         icache'[j].ref + HeldCount(r[p], pc[p], j) = icache[j].ref + HeldCount(r'[p], pc'[p], j)
  <2>1. \A j : HeldCount(s, at, j) \in Nat /\ One(i, j) \in Nat
    BY <1>4, HeldCountType, OneType
  <2>2. \A j \in Inums : icache[j].ref \in Int
    BY DEF FilesTypeOK, CacheEntry
  <2> HIDE DEF s, at
  <2> QED
    BY <1>10, <1>11, <1>12, <2>1, <2>2
<1>14. Quiet(p)
  BY <1>9, <1>10, <1>12, <1>13 DEF Quiet, IputDrop, FSame, FilesTypeOK
<1> QED
  BY <1>14, QuietIsSound
-----------------------------------------------------------------------------
\* Steps from a point outside iput.  At such a point the process has a directory.
Inside(p) == pc[p] \notin Iputs \cup {"closing", "user", "end"}
DiskKept == dino' \in [Inums -> Inode] /\ UNCHANGED <<stable, ftable, ofile, cwd>>

LEMMA GoingStep ==
  ASSUME FilesTypeOK, ShapeInv, NEW p \in Procs, Inside(p), DiskKept,
         NEW at \in Points, NEW locals \in Locals, LocalsFit(locals, at), Goto(p, at, locals),
         icache' \in [Inums -> CacheEntry],
         \A i \in Inums :
           icache'[i].ref + PlaceCount(r[p], pc[p], i) = icache[i].ref + HeldCount(locals, at, i)
  PROVE  Sound(p)
<1>1. /\ cwd[p] \in Inums
      /\ \A i : HeldCount(r[p], pc[p], i) = PlaceCount(r[p], pc[p], i)
  BY HeldAtPoint DEF Inside
<1>2. Moves(p) /\ r'[p] = locals /\ pc'[p] = at
  BY Going
<1>3. Alive(r'[p], pc'[p], cwd[p], ofile[p])
  BY <1>1, Basics DEF Alive
<1>4. Quiet(p)
  BY <1>1, <1>2, <1>3 DEF Quiet, DiskKept, FilesTypeOK
<1> QED
  BY <1>4, QuietIsSound

LEMMA PuttingStep ==
  ASSUME FilesTypeOK, ShapeInv, NEW p \in Procs, Inside(p), DiskKept,
         NEW s \in Seq(Inums), s # <<>>, NEW then \in Thens, PlaceFit(r[p], then), Put(p, s, then),
         icache' \in [Inums -> CacheEntry],
         \A i \in Inums : icache'[i].ref + PlaceCount(r[p], pc[p], i)
                            = icache[i].ref + (Occ(s, i) + PlaceCount(r[p], then, i))
  PROVE  Sound(p)
<1>1. /\ cwd[p] \in Inums
      /\ \A i : HeldCount(r[p], pc[p], i) = PlaceCount(r[p], pc[p], i)
  BY HeldAtPoint DEF Inside
<1>2. /\ Moves(p)
      /\ \A i : HeldCount(r'[p], pc'[p], i) = Occ(s, i) + PlaceCount(r[p], then, i)
  BY Putting
<1>3. Alive(r'[p], pc'[p], cwd[p], ofile[p])
  BY <1>1, Basics DEF Alive
<1>4. Quiet(p)
  BY <1>1, <1>2, <1>3 DEF Quiet, DiskKept, FilesTypeOK
<1> QED
  BY <1>4, QuietIsSound

\* The most frequent: a reference from the locals goes to iput, no count changes.
LEMMA DroppingStep ==
  ASSUME FilesTypeOK, ShapeInv, NEW p \in Procs, Inside(p), DiskKept,
         NEW x \in Inums, NEW then \in Thens, PlaceFit(r[p], then), Put(p, <<x>>, then),
         Alike(icache, icache'),
         \A i : PlaceCount(r[p], pc[p], i) = One(x, i) + PlaceCount(r[p], then, i)
  PROVE  Sound(p)
<1> DEFINE s == <<x>>
<1>1. s \in Seq(Inums) /\ s # <<>> /\ Put(p, s, then)
  OBVIOUS
<1>2. \A i : Occ(s, i) = One(x, i)
  BY OccOne
<1> HIDE DEF s
<1>3. /\ icache' \in [Inums -> CacheEntry]
      /\ \A i \in Inums : icache'[i].ref + PlaceCount(r[p], pc[p], i)
                            = icache[i].ref + (Occ(s, i) + PlaceCount(r[p], then, i))
  BY <1>2 DEF Alike
<1> QED
  BY <1>1, <1>3, PuttingStep

\* The counts at each place, for a call other than link and for link's second half.
LEMMA Counts ==
  ASSUME NEW q, NEW i
  PROVE  /\ PlaceCount(q, "end", i) = 0
         /\ q.op # "link" =>
              /\ \A at \in {"walk", "open", "create", "unlink", "chdir", "bad"} :
                   PlaceCount(q, at, i) = One(q.ip, i)
              /\ \A at \in {"exists", "openfile", "made", "nlink"} :
                   PlaceCount(q, at, i) = One(q.tgt, i)
              /\ \A at \in {"created", "unlinkip"} :
                   PlaceCount(q, at, i) = One(q.ip, i) + One(q.tgt, i)
         /\ q.op = "link" /\ ~q.parent =>
              \A at \in {"walk", "link", "bad"} : PlaceCount(q, at, i) = One(q.ip, i)
         /\ q.op = "link" /\ q.parent =>
              /\ \A at \in {"walk", "linkentry", "bad"} :
                   PlaceCount(q, at, i) = One(q.ip, i) + One(q.tgt, i)
              /\ PlaceCount(q, "linkbad", i) = One(q.tgt, i)
<1>1. One(q.ip, i) \in Nat /\ One(q.tgt, i) \in Nat
  BY OneType
<1> QED
  BY <1>1 DEF PlaceCount, UsesTgt, SecondHalf, IpPoints, TgtPoints

\* Locals with nothing for iput to drop.
LEMMA AtPoint ==
  ASSUME NEW q, NEW at \in IpPoints \cup TgtPoints, q.put = <<>>, PlaceFit(q, at)
  PROVE  /\ LocalsFit(q, at) /\ at \in Points
         /\ \A i : HeldCount(q, at, i) = PlaceCount(q, at, i)
<1>1. /\ Place(q, at) = at /\ at \notin Iputs \cup {"closing", "exit", "user"} /\ at \in Points
  BY DEF Place, Iputs, Points, IpPoints, TgtPoints
<1>2. LocalsFit(q, at)
  BY <1>1 DEF LocalsFit
<1>3. \A i : HeldCount(q, at, i) = PlaceCount(q, at, i)
  BY <1>1, OccEmpty, PlaceCountType DEF HeldCount
<1> QED
  BY <1>1, <1>2, <1>3

LEMMA MissedFits ==
  ASSUME NEW q, NEW at \in {"walk", "bad"}, PlaceFit(q, at), q.parent \in BOOLEAN
  PROVE  /\ Missed(q) \in Thens /\ PlaceFit(q, Missed(q)) /\ q.ip \in Inums
         /\ \A i : PlaceCount(q, at, i) = One(q.ip, i) + PlaceCount(q, Missed(q), i)
<1>1. q.ip \in Inums /\ Missed(q) \in Thens
  BY DEF PlaceFit, IpPoints, Missed, Thens
<1>2. CASE q.op = "link" /\ q.parent
  <2>1. Missed(q) = "linkbad" /\ q.tgt \in Inums
    BY <1>2 DEF Missed, PlaceFit, UsesTgt, SecondHalf
  <2>2. PlaceFit(q, "linkbad")
    BY <1>2, <2>1 DEF PlaceFit, UsesTgt, SecondHalf, IpPoints, TgtPoints
  <2> QED
    BY <1>1, <1>2, <2>1, <2>2, Counts
<1>3. CASE ~(q.op = "link" /\ q.parent)
  <2>1. Missed(q) = "end"
    BY <1>3 DEF Missed
  <2>2. PlaceFit(q, "end")
    BY EndPlace
  <2>3. \A i : One(q.ip, i) \in Nat
    BY OneType
  <2>4. \A i : PlaceCount(q, at, i) = One(q.ip, i) /\ PlaceCount(q, "end", i) = 0
    BY <1>3, Counts
  <2> QED
    BY <1>1, <2>1, <2>2, <2>3, <2>4
<1> QED
  BY <1>2, <1>3
-----------------------------------------------------------------------------
\* namex.
LEMMA WalkEndSound ==
  ASSUME FilesTypeOK, ShapeInv, NEW p \in Procs, WalkEnd(p)
  PROVE  Sound(p)
<1> DEFINE q == r[p]
<1>1. pc[p] = "walk" /\ Inside(p) /\ pc[p] \notin Iputs \cup {"closing"}
  BY DEF WalkEnd, Inside, Iputs
<1>2. q \in Locals /\ q.put = <<>> /\ PlaceFit(q, "walk") /\ q.parent \in BOOLEAN
  BY <1>1, HeldAtPoint DEF Locals
<1>3. DiskKept /\ icache' = icache
  BY DEF DiskKept, WalkEnd, FSame, FilesTypeOK
<1>4. Alike(icache, icache')
  BY <1>3 DEF Alike, FilesTypeOK
<1>5. CASE q.parent
  <2>1. Put(p, <<q.ip>>, Missed(q))
    BY <1>5 DEF WalkEnd
  <2> QED
    BY <1>1, <1>2, <1>3, <1>4, <2>1, MissedFits, DroppingStep
<1>6. CASE ~q.parent
  <2>1. Goto(p, Arrived(q), q)
    BY <1>6 DEF WalkEnd
  <2>2. q.op \in {"open", "chdir", "link"}
    BY <1>2, <1>6 DEF PlaceFit, CallOps
  <2>3. Arrived(q) = q.op
    BY <1>6, <2>2 DEF Arrived
  <2>4. PlaceFit(q, q.op) /\ q.op \in IpPoints
    BY <1>2, <1>6, <2>2 DEF PlaceFit, UsesTgt, SecondHalf, IpPoints, TgtPoints, CallOps
  <2>5. \A i : PlaceCount(q, q.op, i) = PlaceCount(q, "walk", i)
    BY <2>2, <1>6, Counts
  <2>6. icache' \in [Inums -> CacheEntry]
    BY <1>4 DEF Alike
  <2> HIDE DEF q
  <2> QED
    BY <1>1, <1>2, <1>3, <2>1, <2>3, <2>4, <2>5, <2>6, AtPoint, GoingStep DEF q
<1> QED
  BY <1>2, <1>5, <1>6

\* Where a walk begins, and the inode that the first element names.
LEMMA EntryIs ==
  ASSUME FilesTypeOK, NEW d \in Inums, NEW path \in Seq(Dots), path # <<>>
  PROVE  Head(path) \in Dots /\ dino[d].ents[Head(path)] \in Inums \cup {0}
         /\ Tail(path) \in Seq(Dots)
<1>1. dino[d].ents \in [Dots -> Inums \cup {0}]
  BY DEF FilesTypeOK, Inode
<1>2. Head(path) \in Dots /\ Tail(path) \in Seq(Dots)
  OBVIOUS
<1> QED
  BY <1>1, <1>2

LEMMA LoadedAlike ==
  ASSUME FilesTypeOK, NEW i \in Inums
  PROVE  /\ Loaded(i) \in CacheEntry /\ Loaded(i).ref = icache[i].ref
         /\ Alike(icache, [icache EXCEPT ![i] = Loaded(i)])
         /\ \A l \in Procs \cup {0} : Alike(icache, [icache EXCEPT ![i] = [Loaded(i) EXCEPT !.lock = l]])
         /\ \A n \in Int : Alike(icache, [icache EXCEPT ![i] = [Loaded(i) EXCEPT !.nlink = n]])
<1> DEFINE x == Loaded(i)
<1>1. x \in CacheEntry /\ x.ref = icache[i].ref
  BY LoadedIs
<1>2. icache \in [Inums -> CacheEntry]
  BY DEF FilesTypeOK
<1> HIDE DEF x
<1>3. Alike(icache, [icache EXCEPT ![i] = x])
  BY <1>1, <1>2, CacheSet
<1>4. ASSUME NEW l \in Procs \cup {0}
      PROVE  Alike(icache, [icache EXCEPT ![i] = [x EXCEPT !.lock = l]])
  <2> DEFINE y == [x EXCEPT !.lock = l]
  <2>1. y \in CacheEntry /\ y.ref = icache[i].ref
    BY <1>1, EntrySet
  <2> HIDE DEF y
  <2>2. Alike(icache, [icache EXCEPT ![i] = y])
    BY <1>2, <2>1, CacheSet
  <2> QED
    BY <2>2 DEF y
<1>5. ASSUME NEW n \in Int
      PROVE  Alike(icache, [icache EXCEPT ![i] = [x EXCEPT !.nlink = n]])
  <2> DEFINE y == [x EXCEPT !.nlink = n]
  <2>1. y \in CacheEntry /\ y.ref = icache[i].ref
    BY <1>1, EntrySet
  <2> HIDE DEF y
  <2>2. Alike(icache, [icache EXCEPT ![i] = y])
    BY <1>2, <2>1, CacheSet
  <2> QED
    BY <2>2 DEF y
<1> QED
  BY <1>1, <1>3, <1>4, <1>5 DEF x

\* The cache after iget, of a cache with the same references.
LEMMA AlikeIget ==
  ASSUME FilesTypeOK, NEW c, Alike(icache, c), NEW i \in Inums
  PROVE  /\ Iget(c, i) \in [Inums -> CacheEntry]
         /\ \A j \in Inums : Iget(c, i)[j].ref = icache[j].ref + One(i, j)
<1>1. c \in [Inums -> CacheEntry] /\ \A j \in Inums : c[j].ref = icache[j].ref
  BY DEF Alike
<1>2. /\ Iget(c, i) \in [Inums -> CacheEntry]
      /\ \A j \in Inums : Iget(c, i)[j].ref = c[j].ref + One(i, j)
  BY <1>1, IgetIs
<1>3. ASSUME NEW j \in Inums PROVE Iget(c, i)[j].ref = icache[j].ref + One(i, j)
  <2>1. Iget(c, i)[j].ref = c[j].ref + One(i, j) /\ c[j].ref = icache[j].ref
    BY <1>1, <1>2
  <2> QED
    BY ONLY <2>1
<1> QED
  BY <1>2, <1>3

LEMMA WalkSound ==
  ASSUME FilesTypeOK, ShapeInv, NEW p \in Procs, Walk(p)
  PROVE  Sound(p)
<1> DEFINE q == r[p]
           dp == q.ip
           c == [icache EXCEPT ![dp] = Loaded(dp)]
           next == dino[dp].ents[Head(q.path)]
           t == [q EXCEPT !.path = Tail(q.path), !.ip = next, !.put = <<dp>>, !.then = "walk"]
<1>1. pc[p] = "walk" /\ Inside(p) /\ pc[p] \notin Iputs \cup {"closing"} /\ q.path # <<>>
  BY DEF Walk, Ilock, Inside, Iputs
<1>2. /\ q \in Locals /\ q.put = <<>> /\ PlaceFit(q, "walk") /\ q.parent \in BOOLEAN
      /\ q.path \in Seq(Dots) /\ dp \in Inums
  BY <1>1, HeldAtPoint DEF Locals, PlaceFit, IpPoints
<1>3. DiskKept
  BY DEF DiskKept, Walk, FSame, FilesTypeOK
<1>4. Alike(icache, c)
  BY <1>2, LoadedAlike
<1>5. CASE icache' = c /\ Put(p, <<dp>>, Missed(q))
  BY <1>1, <1>2, <1>3, <1>4, <1>5, MissedFits, DroppingStep
<1>6. CASE icache' = c /\ q.parent /\ Len(q.path) = 1 /\ Goto(p, Arrived(q), q)
  <2> DEFINE at == Arrived(q)
  <2>2. q.op \in CallOps
    BY <1>2 DEF PlaceFit
  <2>3. /\ at \in {"linkentry", "create", "unlink", "open", "chdir"}
        /\ at = "linkentry" <=> q.op = "link"
    BY <1>6, <2>2 DEF Arrived, CallOps
  <2>4. PlaceFit(q, at)
    BY <1>2, <1>6, <2>2, <2>3 DEF PlaceFit, UsesTgt, SecondHalf, IpPoints, TgtPoints
  <2>7. \A i : PlaceCount(q, at, i) = PlaceCount(q, "walk", i)
    BY <1>6, <2>2, <2>3, Counts DEF CallOps
  <2> HIDE DEF q, at
  <2> QED
    BY <1>1, <1>2, <1>3, <1>4, <1>6, <2>3, <2>4, <2>7, AtPoint, GoingStep DEF q, at, Alike, IpPoints
<1>7. CASE icache' = Iget(c, next) /\ next # 0 /\ Goto(p, "iput", t)
  <2>1. next \in Inums /\ Tail(q.path) \in Seq(Dots)
    BY <1>1, <1>2, <1>7, EntryIs
  <2>2. <<dp>> \in Seq(Inums) /\ <<dp>> # <<>> /\ \A i : Occ(<<dp>>, i) = One(dp, i)
    BY <1>2, OccOne
  <2>3. /\ t \in Locals /\ t.put = <<dp>> /\ t.then = "walk" /\ t.op = q.op /\ t.new = q.new
        /\ t.parent = q.parent /\ t.ip = next /\ t.tgt = q.tgt
    BY <1>2, <2>1, <2>2 DEF Locals, Thens
  <2>4. icache' \in [Inums -> CacheEntry] /\ \A i \in Inums : icache'[i].ref = icache[i].ref + One(next, i)
    BY <1>4, <1>7, <2>1, AlikeIget
  <2> HIDE DEF t, next, c
  <2>5. PlaceFit(t, "walk")
    BY <1>2, <2>1, <2>3 DEF PlaceFit, UsesTgt, SecondHalf, IpPoints, TgtPoints
  <2>6. Place(t, "iput") = "walk" /\ "iput" \in Points
    BY <2>3 DEF Place, Iputs, Points
  <2>7. LocalsFit(t, "iput")
    BY <2>2, <2>3, <2>5, <2>6 DEF LocalsFit, Iputs
  <2>8. \A i : PlaceCount(t, "walk", i) + One(dp, i) = PlaceCount(q, "walk", i) + One(next, i)
    <3>1. \A i : One(dp, i) \in Nat /\ One(next, i) \in Nat /\ One(q.tgt, i) \in Nat
      BY OneType
    <3>2. UsesTgt(t, "walk") <=> UsesTgt(q, "walk")
      BY <2>3 DEF UsesTgt, SecondHalf
    <3> QED
      BY <3>1, <3>2, <2>3 DEF PlaceCount, IpPoints
  <2>9. ASSUME NEW i \in Inums
        PROVE  icache'[i].ref + PlaceCount(r[p], pc[p], i) = icache[i].ref + HeldCount(t, "iput", i)
    <3>1. HeldCount(t, "iput", i) = One(dp, i) + PlaceCount(t, "walk", i)
      BY <2>2, <2>3, <2>6 DEF HeldCount
    <3>2. One(dp, i) \in Nat /\ One(next, i) \in Nat /\ PlaceCount(t, "walk", i) \in Nat
          /\ PlaceCount(q, "walk", i) \in Nat /\ icache[i].ref \in Int
      BY OneType, PlaceCountType DEF FilesTypeOK, CacheEntry
    <3>3. /\ icache'[i].ref = icache[i].ref + One(next, i)
          /\ PlaceCount(t, "walk", i) + One(dp, i) = PlaceCount(q, "walk", i) + One(next, i)
      BY <2>4, <2>8
    <3>4. PlaceCount(r[p], pc[p], i) = PlaceCount(q, "walk", i)
      BY <1>1
    <3> QED
      BY <3>1, <3>2, <3>3, <3>4
  <2> QED
    BY <1>1, <1>3, <1>7, <2>3, <2>4, <2>6, <2>7, <2>9, GoingStep
<1>8. \/ icache' = c /\ Put(p, <<dp>>, Missed(q))
      \/ icache' = c /\ q.parent /\ Len(q.path) = 1 /\ Goto(p, Arrived(q), q)
      \/ icache' = Iget(c, next) /\ next # 0 /\ Goto(p, "iput", t)
  BY DEF Walk
<1> QED
  BY <1>5, <1>6, <1>7, <1>8
-----------------------------------------------------------------------------
\* open and create.
\* The step of an ilock that leaves the entry unlocked or locked by l.
LEMMA LoadsAlike ==
  ASSUME FilesTypeOK, NEW i \in Inums, NEW l \in Procs,
         \/ icache' = [icache EXCEPT ![i] = Loaded(i)]
         \/ icache' = [icache EXCEPT ![i] = [Loaded(i) EXCEPT !.lock = l]]
  PROVE  Alike(icache, icache')
<1>1. /\ Alike(icache, [icache EXCEPT ![i] = Loaded(i)])
      /\ \A m \in Procs \cup {0} : Alike(icache, [icache EXCEPT ![i] = [Loaded(i) EXCEPT !.lock = m]])
  BY LoadedAlike
<1>2. l \in Procs \cup {0}
  OBVIOUS
<1>3. CASE icache' = [icache EXCEPT ![i] = Loaded(i)]
  BY ONLY <1>1, <1>3
<1>4. CASE icache' = [icache EXCEPT ![i] = [Loaded(i) EXCEPT !.lock = l]]
  BY ONLY <1>1, <1>2, <1>4
<1> QED
  BY <1>3, <1>4

LEMMA OpenFoundSound ==
  ASSUME FilesTypeOK, ShapeInv, NEW p \in Procs, OpenFound(p)
  PROVE  Sound(p)
<1> DEFINE q == r[p]
           ip == q.ip
           t == [q EXCEPT !.tgt = ip]
<1>1. pc[p] = "open" /\ Inside(p) /\ pc[p] \notin Iputs \cup {"closing"}
  BY DEF OpenFound, Ilock, Inside, Iputs
<1>2. q \in Locals /\ q.put = <<>> /\ PlaceFit(q, "open") /\ ip \in Inums /\ q.op \in CallOps \ {"link"}
  BY <1>1, HeldAtPoint DEF PlaceFit, IpPoints
<1>3. DiskKept
  BY DEF DiskKept, OpenFound, FSame, FilesTypeOK
<1>4. \A i : PlaceCount(q, "open", i) = One(ip, i)
  BY <1>2, Counts
<1>5. \/ icache' = [icache EXCEPT ![ip] = Loaded(ip)] /\ Put(p, <<ip>>, "end")
      \/ /\ icache' = [icache EXCEPT ![ip] = [Loaded(ip) EXCEPT !.lock = p]]
         /\ Goto(p, "openfile", t)
  BY DEF OpenFound
<1>6. Alike(icache, icache')
  <2>1. FilesTypeOK /\ ip \in Inums /\ p \in Procs
    BY <1>2
  <2>2. \/ icache' = [icache EXCEPT ![ip] = Loaded(ip)]
        \/ icache' = [icache EXCEPT ![ip] = [Loaded(ip) EXCEPT !.lock = p]]
    BY <1>5
  <2> HIDE DEF ip
  <2> QED
    BY ONLY <2>1, <2>2, LoadsAlike
<1>7. CASE Put(p, <<ip>>, "end")
  <2>1. PlaceFit(q, "end") /\ \A i : One(ip, i) = One(ip, i) + PlaceCount(q, "end", i)
    BY EndPlace, OneType
  <2> QED
    BY <1>1, <1>2, <1>3, <1>4, <1>6, <1>7, <2>1, DroppingStep DEF Thens
<1>8. CASE Goto(p, "openfile", t)
  <2>1. t \in Locals /\ t.put = <<>> /\ t.op = q.op /\ t.tgt = ip
    BY <1>2 DEF Locals
  <2> HIDE DEF t
  <2>2. PlaceFit(t, "openfile") /\ "openfile" \in TgtPoints
    BY <1>2, <2>1 DEF PlaceFit, UsesTgt, IpPoints, TgtPoints
  <2>3. \A i : PlaceCount(t, "openfile", i) = One(ip, i)
    BY <1>2, <2>1, Counts
  <2> QED
    BY <1>1, <1>2, <1>3, <1>4, <1>6, <1>8, <2>1, <2>2, <2>3, AtPoint, GoingStep DEF Alike
<1> QED
  BY <1>5, <1>7, <1>8

\* The file keeps the reference that open had.
LEMMA OpenFileSound ==
  ASSUME FilesTypeOK, ShapeInv, NEW p \in Procs, OpenFile(p)
  PROVE  Sound(p)
<1> DEFINE q == r[p]
           ip == q.tgt
           slots == {f \in Fds : ftable[f].ref = 0}
           g == Lowest(slots)
<1>1. pc[p] = "openfile" /\ Inside(p) /\ pc[p] \notin Iputs \cup {"closing", "user", "end"}
  BY DEF OpenFile, Inside, Iputs
<1>2. /\ q \in Locals /\ q.put = <<>> /\ PlaceFit(q, "openfile") /\ ip \in Inums
      /\ q.op \in CallOps \ {"link"} /\ cwd[p] \in Inums
      /\ \A i : HeldCount(q, pc[p], i) = PlaceCount(q, "openfile", i)
  BY <1>1, HeldAtPoint DEF PlaceFit, UsesTgt, IpPoints, TgtPoints
<1>3. \A i : PlaceCount(q, "openfile", i) = One(ip, i)
  BY <1>2, Counts
<1>4. Alike(icache, icache')
  <2> DEFINE x == [icache[ip] EXCEPT !.lock = 0]
  <2>1. x \in CacheEntry /\ x.ref = icache[ip].ref
    BY <1>2, EntrySet DEF FilesTypeOK
  <2>2. icache' = [icache EXCEPT ![ip] = x]
    BY DEF OpenFile
  <2> HIDE DEF x
  <2> QED
    BY <2>1, <2>2, CacheSet DEF FilesTypeOK
<1>5. CASE Put(p, <<ip>>, "end") /\ UNCHANGED <<ftable, ofile>>
  <2>1. PlaceFit(q, "end") /\ \A i : One(ip, i) = One(ip, i) + PlaceCount(q, "end", i)
    BY EndPlace, OneType
  <2>2. DiskKept
    BY <1>5 DEF DiskKept, OpenFile, FilesTypeOK
  <2> QED
    BY <1>1, <1>2, <1>3, <1>4, <1>5, <2>1, <2>2, DroppingStep DEF Thens
<1>6. CASE /\ slots # {} /\ ofile[p] = 0 /\ Goto(p, "end", q)
           /\ ftable' = [ftable EXCEPT ![g] = [ref |-> 1, ip |-> ip]]
           /\ ofile' = [ofile EXCEPT ![p] = g]
  <2>1. g \in Fds /\ ftable[g].ref = 0 /\ ftable[g].ip = 0
    <3>1. slots \subseteq Nat /\ slots # {}
      BY <1>6, Basics
    <3>2. g \in slots
      BY <3>1, LowestIn
    <3> QED
      BY <3>2 DEF ShapeInv
  <2>2. LocalsFit(q, "end") /\ \A i : HeldCount(q, "end", i) = 0
    <3>1. Place(q, "end") = "end" /\ PlaceFit(q, "end") /\ \A i : PlaceCount(q, "end", i) = 0
      BY EndPlace DEF Place, Iputs
    <3> QED
      BY <3>1, <1>2, OccEmpty DEF LocalsFit, Iputs, HeldCount
  <2>3. Moves(p) /\ r'[p] = q /\ pc'[p] = "end"
    BY <1>2, <1>6, <2>2, Going DEF Points, Thens
  <2> DEFINE new == [ref |-> 1, ip |-> ip]
  <2>4. new \in File /\ new.ref = 1 /\ new.ip = ip /\ ip # 0
    BY <1>2, Basics DEF File
  <2> HIDE DEF new
  <2>5. ftable'[g] = new /\ \A f \in Fds \ {g} : ftable'[f] = ftable[f]
    BY <1>6, <2>1 DEF FilesTypeOK, new
  <2>6. ftable' \in [Fds -> File]
    BY <1>6, <2>1, <2>4 DEF FilesTypeOK, new
  <2>7. ofile' \in [Procs -> Fds \cup {0}] /\ ofile'[p] = g /\ \A s \in Procs \ {p} : ofile'[s] = ofile[s]
    BY <1>6, <2>1 DEF FilesTypeOK
  <2>8. FilesTypeOK' /\ cwd' = cwd
    BY <1>4, <2>3, <2>6, <2>7 DEF FilesTypeOK, OpenFile, Moves, Alike
  <2>9. Alive(r'[p], pc'[p], cwd'[p], ofile'[p])
    BY <1>2, <2>8, Basics DEF Alive
  <2>10. ASSUME NEW f \in Fds
         PROVE  /\ ftable'[f].ip = 0 <=> ftable'[f].ref = 0
                /\ ftable'[f].ref = ftable[f].ref + One(ofile'[p], f) - One(ofile[p], f)
    <3>1. One(ofile[p], f) = 0
      BY <1>6, Basics DEF One
    <3>2. ftable[f].ref \in Int /\ (ftable[f].ip = 0 <=> ftable[f].ref = 0)
      BY DEF FilesTypeOK, File, ShapeInv
    <3>3. CASE f = g
      BY <3>1, <3>3, <2>1, <2>4, <2>5, <2>7 DEF One
    <3>4. CASE f # g
      BY <3>1, <3>2, <3>4, <2>5, <2>7 DEF One
    <3> QED
      BY <3>3, <3>4
  <2>11. ASSUME NEW i \in Inums PROVE Balanced(p, g, i)
    <3>1. One(ftable[g].ip, i) = 0 /\ One(ftable'[g].ip, i) = One(ip, i)
      BY <2>1, <2>4, <2>5, Basics DEF One
    <3>2. HeldCount(r'[p], pc'[p], i) = 0 /\ HeldCount(r[p], pc[p], i) = One(ip, i)
      BY <1>2, <1>3, <2>2, <2>3
    <3>3. icache'[i].ref = icache[i].ref /\ icache[i].ref \in Int
      BY <1>4 DEF Alike, FilesTypeOK, CacheEntry
    <3>4. One(ip, i) \in Nat /\ One(cwd[p], i) \in Nat
      BY OneType
    <3> QED
      BY <3>1, <3>2, <3>3, <3>4, <2>8 DEF Balanced
  <2> QED
    BY <2>1, <2>3, <2>5, <2>7, <2>8, <2>9, <2>10, <2>11 DEF Sound
<1>7. \/ Put(p, <<ip>>, "end") /\ UNCHANGED <<ftable, ofile>>
      \/ /\ slots # {} /\ ofile[p] = 0 /\ Goto(p, "end", q)
         /\ ftable' = [ftable EXCEPT ![g] = [ref |-> 1, ip |-> ip]]
         /\ ofile' = [ofile EXCEPT ![p] = g]
  BY DEF OpenFile
<1> QED
  BY <1>5, <1>6, <1>7

\* iget, dropping nothing yet: one pointer more in the locals.
LEMMA IgetStep ==
  ASSUME FilesTypeOK, ShapeInv, NEW p \in Procs, Inside(p), DiskKept,
         NEW c, Alike(icache, c), NEW x \in Inums, icache' = Iget(c, x),
         NEW at \in Points, NEW locals \in Locals, LocalsFit(locals, at), Goto(p, at, locals),
         \A i : HeldCount(locals, at, i) = PlaceCount(r[p], pc[p], i) + One(x, i)
  PROVE  Sound(p)
<1>1. icache' \in [Inums -> CacheEntry] /\ \A i \in Inums : icache'[i].ref = icache[i].ref + One(x, i)
  BY AlikeIget
<1>2. ASSUME NEW i \in Inums
      PROVE  icache'[i].ref + PlaceCount(r[p], pc[p], i) = icache[i].ref + HeldCount(locals, at, i)
  <2>1. /\ One(x, i) \in Nat /\ PlaceCount(r[p], pc[p], i) \in Nat /\ icache[i].ref \in Int
        /\ icache'[i].ref = icache[i].ref + One(x, i)
        /\ HeldCount(locals, at, i) = PlaceCount(r[p], pc[p], i) + One(x, i)
    BY <1>1, OneType, PlaceCountType DEF FilesTypeOK, CacheEntry
  <2> QED
    BY <2>1
<1> QED
  BY <1>1, <1>2, GoingStep

LEMMA CreateSound ==
  ASSUME FilesTypeOK, ShapeInv, NEW p \in Procs, Create(p)
  PROVE  Sound(p)
<1> DEFINE q == r[p]
           dp == q.ip
           found == dino[dp].ents[Head(q.path)]
           unused == {i \in Inums : dino[i].type = "free"}
           c == [icache EXCEPT ![dp] = Loaded(dp)]
           d == [c EXCEPT ![dp].lock = p]
           t == [q EXCEPT !.tgt = found, !.put = <<dp>>, !.then = "exists"]
           node == [Free EXCEPT !.type = IF q.op = "mkdir" THEN "dir" ELSE "file"]
<1>1. pc[p] = "create" /\ Inside(p) /\ pc[p] \notin Iputs \cup {"closing"}
  BY DEF Create, Ilock, Inside, Iputs
<1>2. /\ q \in Locals /\ q.put = <<>> /\ PlaceFit(q, "create") /\ dp \in Inums
      /\ q.op \in CallOps \ {"link"} /\ Len(q.path) = 1 /\ q.path \in Seq(Dots)
  BY <1>1, HeldAtPoint DEF PlaceFit, IpPoints, Locals
<1>a. q.path # <<>>
  <2> DEFINE path == q.path
  <2>1. path \in Seq(Dots) /\ Len(path) = 1
    BY <1>2
  <2> HIDE DEF path
  <2>2. path # <<>>
    BY <2>1
  <2> QED
    BY <2>2 DEF path
<1>3. \A i : PlaceCount(q, "create", i) = One(dp, i)
  BY <1>2, Counts
<1>4. Alike(icache, c)
  BY <1>2, LoadedAlike
<1>5. UNCHANGED <<stable, ftable, ofile, cwd>>
  BY DEF Create, FSame
<1>6. CASE found # 0 /\ icache' = Iget(c, found) /\ Goto(p, "iput", t) /\ UNCHANGED dino
  <2>1. found \in Inums
    BY <1>2, <1>a, <1>6, EntryIs
  <2>2. <<dp>> \in Seq(Inums) /\ <<dp>> # <<>> /\ \A i : Occ(<<dp>>, i) = One(dp, i)
    BY <1>2, OccOne
  <2>3. /\ t \in Locals /\ t.put = <<dp>> /\ t.then = "exists" /\ t.op = q.op /\ t.tgt = found
    BY <1>2, <2>1, <2>2 DEF Locals, Thens
  <2> HIDE DEF t, found, c
  <2>4. PlaceFit(t, "exists") /\ \A i : PlaceCount(t, "exists", i) = One(found, i)
    BY <1>2, <2>1, <2>3, Counts DEF PlaceFit, UsesTgt, IpPoints, TgtPoints
  <2>5. Place(t, "iput") = "exists" /\ "iput" \in Points
    BY <2>3 DEF Place, Iputs, Points
  <2>6. LocalsFit(t, "iput")
    BY <2>2, <2>3, <2>4, <2>5 DEF LocalsFit, Iputs
  <2>7. \A i : HeldCount(t, "iput", i) = PlaceCount(r[p], pc[p], i) + One(found, i)
    BY <1>1, <1>3, <2>2, <2>3, <2>4, <2>5 DEF HeldCount
  <2>8. DiskKept
    BY <1>5, <1>6 DEF DiskKept, FilesTypeOK
  <2> QED
    BY <1>1, <1>4, <1>6, <2>1, <2>3, <2>5, <2>6, <2>7, <2>8, IgetStep
<1>7. ASSUME NEW ip \in unused, icache' = Iget(d, ip), Goto(p, "created", [q EXCEPT !.tgt = ip]),
             dino' = [dino EXCEPT ![ip] = node]
      PROVE  Sound(p)
  <2> DEFINE u == [q EXCEPT !.tgt = ip]
  <2>1. ip \in Inums
    OBVIOUS
  <2>2. node \in Inode
    BY Basics DEF Inode, Types
  <2> HIDE DEF node
  <2>3. DiskKept
    BY <1>5, <1>7, <2>1, <2>2 DEF DiskKept, FilesTypeOK
  <2>4. u \in Locals /\ u.put = <<>> /\ u.op = q.op /\ u.tgt = ip /\ u.ip = dp /\ u.path = q.path
    BY <1>2, <2>1 DEF Locals
  <2>a. Goto(p, "created", u)
    BY <1>7
  <2> HIDE DEF u
  <2>5. PlaceFit(u, "created") /\ "created" \in IpPoints
    BY <1>2, <2>1, <2>4 DEF PlaceFit, UsesTgt, IpPoints, TgtPoints
  <2>6. \A i : PlaceCount(u, "created", i) = One(dp, i) + One(ip, i)
    BY <1>2, <2>4, Counts
  <2>7. Alike(icache, d)
    <3> DEFINE x == Loaded(dp)
               y == [x EXCEPT !.lock = p]
    <3>1. x \in CacheEntry /\ x.ref = icache[dp].ref
      BY <1>2, LoadedIs
    <3>2. y \in CacheEntry /\ y.ref = icache[dp].ref
      BY <3>1, EntrySet
    <3>3. d = [icache EXCEPT ![dp] = y]
      BY <1>2 DEF FilesTypeOK
    <3> HIDE DEF y, d
    <3> QED
      BY <3>2, <3>3, CacheSet DEF FilesTypeOK
  <2> HIDE DEF d
  <2>8. LocalsFit(u, "created") /\ "created" \in Points /\ \A i : HeldCount(u, "created", i) = PlaceCount(u, "created", i)
    BY <2>4, <2>5, AtPoint
  <2>9. \A i : HeldCount(u, "created", i) = PlaceCount(r[p], pc[p], i) + One(ip, i)
    BY <1>1, <1>3, <2>6, <2>8
  <2> QED
    BY <1>1, <1>7, <2>1, <2>3, <2>4, <2>7, <2>8, <2>9, <2>a, IgetStep
<1>8. \/ found # 0 /\ icache' = Iget(c, found) /\ Goto(p, "iput", t) /\ UNCHANGED dino
      \/ \E ip \in unused : /\ icache' = Iget(d, ip) /\ Goto(p, "created", [q EXCEPT !.tgt = ip])
                            /\ dino' = [dino EXCEPT ![ip] = node]
  BY DEF Create
<1> QED
  BY <1>6, <1>7, <1>8

LEMMA CreateExistsSound ==
  ASSUME FilesTypeOK, ShapeInv, NEW p \in Procs, CreateExists(p)
  PROVE  Sound(p)
<1> DEFINE q == r[p]
           ip == q.tgt
<1>1. pc[p] = "exists" /\ Inside(p) /\ pc[p] \notin Iputs \cup {"closing"}
  BY DEF CreateExists, Ilock, Inside, Iputs
<1>2. q \in Locals /\ q.put = <<>> /\ PlaceFit(q, "exists") /\ ip \in Inums /\ q.op \in CallOps \ {"link"}
  BY <1>1, HeldAtPoint DEF PlaceFit, UsesTgt, IpPoints, TgtPoints
<1>3. DiskKept
  BY DEF DiskKept, CreateExists, FSame, FilesTypeOK
<1>4. \A i : PlaceCount(q, "exists", i) = One(ip, i) /\ PlaceCount(q, "openfile", i) = One(ip, i)
  BY <1>2, Counts
<1>5. \/ icache' = [icache EXCEPT ![ip] = Loaded(ip)] /\ Put(p, <<ip>>, "end")
      \/ icache' = [icache EXCEPT ![ip] = [Loaded(ip) EXCEPT !.lock = p]] /\ Goto(p, "openfile", q)
  BY DEF CreateExists
<1>6. Alike(icache, icache')
  <2>1. FilesTypeOK /\ ip \in Inums /\ p \in Procs
    BY <1>2
  <2>2. \/ icache' = [icache EXCEPT ![ip] = Loaded(ip)]
        \/ icache' = [icache EXCEPT ![ip] = [Loaded(ip) EXCEPT !.lock = p]]
    BY <1>5
  <2> HIDE DEF ip
  <2> QED
    BY ONLY <2>1, <2>2, LoadsAlike
<1>7. CASE Put(p, <<ip>>, "end")
  <2>1. PlaceFit(q, "end") /\ \A i : One(ip, i) = One(ip, i) + PlaceCount(q, "end", i)
    BY EndPlace, OneType
  <2> QED
    BY <1>1, <1>2, <1>3, <1>4, <1>6, <1>7, <2>1, DroppingStep DEF Thens
<1>8. CASE Goto(p, "openfile", q)
  <2>1. PlaceFit(q, "openfile") /\ "openfile" \in TgtPoints
    BY <1>2 DEF PlaceFit, UsesTgt, IpPoints, TgtPoints
  <2> QED
    BY <1>1, <1>2, <1>3, <1>4, <1>6, <1>8, <2>1, AtPoint, GoingStep DEF Alike
<1> QED
  BY <1>5, <1>7, <1>8

Locked(c, n, l) == [c EXCEPT !.nlink = n, !.lock = l]

LEMMA LockedIs ==
  ASSUME NEW c \in CacheEntry, NEW n \in Int, NEW l \in Procs \cup {0}
  PROVE  Locked(c, n, l) \in CacheEntry /\ Locked(c, n, l).ref = c.ref
<1>1. Locked(c, n, l) \in CacheEntry
  BY DEF CacheEntry, Locked
<1>2. Locked(c, n, l).ref = c.ref
  BY DEF CacheEntry, Locked
<1> QED
  BY <1>1, <1>2

LEMMA UnlockedIs ==
  ASSUME NEW c \in CacheEntry, NEW n \in Int
  PROVE  Unlocked(c, n) \in CacheEntry /\ Unlocked(c, n).ref = c.ref
<1> DEFINE m == c.nlink + n
<1>1. m \in Int
  BY DEF CacheEntry
<1>2. Unlocked(c, n) = Locked(c, m, 0)
  BY DEF Unlocked, Locked
<1> QED
  BY <1>1, <1>2, LockedIs

LEMMA EntSet ==
  ASSUME NEW d \in [Inums -> Inode], NEW i \in Inums, NEW name \in Dots, NEW v \in Inums \cup {0}
  PROVE  [d EXCEPT ![i].ents[name] = v] \in [Inums -> Inode]
BY DEF Inode

LEMMA NlinkSet ==
  ASSUME NEW d \in [Inums -> Inode], NEW i \in Inums, NEW n \in Int
  PROVE  [d EXCEPT ![i].nlink = n] \in [Inums -> Inode]
<1> DEFINE x == [d[i] EXCEPT !.nlink = n]
<1>1. d[i] \in Inode
  OBVIOUS
<1>2. x \in Inode
  BY <1>1 DEF Inode
<1> HIDE DEF x
<1>3. [d EXCEPT ![i] = x] \in [Inums -> Inode]
  BY <1>2
<1> QED
  BY <1>3 DEF x

LEMMA InodeSets ==
  ASSUME NEW d \in [Inums -> Inode], NEW i \in Inums, NEW name \in Dots,
         NEW v \in Inums \cup {0}, NEW n \in Int
  PROVE  [d EXCEPT ![i].ents[name] = v, ![i].nlink = n] \in [Inums -> Inode]
BY DEF Inode

\* Two entries of a cache change, neither its references.
LEMMA CacheSets ==
  ASSUME FilesTypeOK, NEW i \in Inums, NEW j \in Inums, NEW x \in CacheEntry, NEW y \in CacheEntry,
         x.ref = icache[i].ref, y.ref = icache[j].ref
  PROVE  Alike(icache, [icache EXCEPT ![i] = x, ![j] = y])
BY DEF Alike, FilesTypeOK

LEMMA CreateEntrySound ==
  ASSUME FilesTypeOK, ShapeInv, NEW p \in Procs, CreateEntry(p)
  PROVE  Sound(p)
<1> DEFINE q == r[p]
           dp == q.ip
           ip == q.tgt
           dir == q.op = "mkdir"
           name == Head(q.path)
           x == [Loaded(ip) EXCEPT !.nlink = 1, !.lock = p]
           y == Unlocked(icache[dp], IF dir THEN 1 ELSE 0)
           n == IF dir THEN icache[dp].nlink + 1 ELSE dino[dp].nlink
           ents == [dino[ip].ents EXCEPT ![".."] = IF dir THEN dp ELSE 0]
           node == [type |-> Loaded(ip).type, nlink |-> 1, ents |-> ents]
           then == IF dir THEN "made" ELSE "openfile"
<1>1. pc[p] = "created" /\ Inside(p) /\ pc[p] \notin Iputs \cup {"closing"}
  BY DEF CreateEntry, Ilock, Inside, Iputs
<1>2. /\ q \in Locals /\ PlaceFit(q, "created") /\ dp \in Inums /\ ip \in Inums
      /\ q.op \in CallOps \ {"link"} /\ Len(q.path) = 1 /\ q.path \in Seq(Dots)
  BY <1>1, HeldAtPoint DEF PlaceFit, UsesTgt, IpPoints, TgtPoints, Locals
<1>4. /\ then \in Thens /\ PlaceFit(q, then)
      /\ \A i : PlaceCount(q, "created", i) = One(dp, i) + PlaceCount(q, then, i)
  BY <1>2, Counts DEF PlaceFit, UsesTgt, IpPoints, TgtPoints, Thens
<1>5. Put(p, <<dp>>, then) /\ UNCHANGED <<stable, ftable, ofile, cwd>>
  BY DEF CreateEntry, FSame
<1>6. icache' = [icache EXCEPT ![ip] = x, ![dp] = y]
  BY DEF CreateEntry
<1>7. dino' = [dino EXCEPT ![ip] = node, ![dp].nlink = n, ![dp].ents[name] = ip]
  BY DEF CreateEntry
<1>8. Alike(icache, icache')
  <2>1. x \in CacheEntry /\ x.ref = icache[ip].ref
    <3>1. Loaded(ip) \in CacheEntry /\ Loaded(ip).ref = icache[ip].ref
      BY <1>2, LoadedIs
    <3>2. x = Locked(Loaded(ip), 1, p)
      BY DEF Locked
    <3> HIDE DEF x, ip
    <3>3. /\ Locked(Loaded(ip), 1, p) \in CacheEntry
          /\ Locked(Loaded(ip), 1, p).ref = Loaded(ip).ref
      BY <3>1, LockedIs
    <3> QED
      BY <3>1, <3>2, <3>3
  <2>2. y \in CacheEntry /\ y.ref = icache[dp].ref
    <3> DEFINE m == IF dir THEN 1 ELSE 0
    <3>1. icache[dp] \in CacheEntry /\ m \in Int
      BY <1>2 DEF FilesTypeOK
    <3> HIDE DEF m, dp
    <3>2. Unlocked(icache[dp], m) \in CacheEntry /\ Unlocked(icache[dp], m).ref = icache[dp].ref
      BY ONLY <3>1, UnlockedIs
    <3> QED
      BY <3>2 DEF m
  <2> HIDE DEF x, y
  <2> QED
    BY <1>2, <1>6, <2>1, <2>2, CacheSets
<1>9. DiskKept
  <2>1. n \in Int /\ Loaded(ip).type \in Types /\ dino[ip] \in Inode
    <3>1. Loaded(ip) \in CacheEntry /\ dino[ip] \in Inode /\ dino[dp] \in Inode /\ icache[dp] \in CacheEntry
      BY <1>2, LoadedIs DEF FilesTypeOK
    <3>2. Loaded(ip).type \in Types
      BY <3>1 DEF CacheEntry
    <3>3. icache[dp].nlink \in Int /\ dino[dp].nlink \in Int
      BY <3>1 DEF CacheEntry, Inode
    <3> QED
      BY <3>1, <3>2, <3>3
  <2>2. ents \in [Dots -> Inums \cup {0}]
    BY <1>2, <2>1 DEF Inode
  <2> HIDE DEF ents, n
  <2>3. node \in Inode
    BY <2>1, <2>2 DEF Inode
  <2> HIDE DEF node
  <2>4. dino' \in [Inums -> Inode]
    <3> DEFINE d == [dino EXCEPT ![ip] = node]
               e == [d EXCEPT ![dp].nlink = n]
    <3>1. ip \in Inums /\ dp \in Inums /\ name \in Dots /\ dino \in [Inums -> Inode]
      BY <1>2 DEF FilesTypeOK
    <3>2. dino' = [e EXCEPT ![dp].ents[name] = ip]
      BY <1>7, <3>1
    <3> HIDE DEF ip, dp, name
    <3>3. d \in [Inums -> Inode]
      BY ONLY <2>3, <3>1
    <3> HIDE DEF d
    <3>4. e \in [Inums -> Inode]
      BY ONLY <2>1, <3>1, <3>3, NlinkSet
    <3> HIDE DEF e
    <3>5. ip \in Inums \cup {0}
      BY <3>1
    <3>6. [e EXCEPT ![dp].ents[name] = ip] \in [Inums -> Inode]
      BY ONLY <3>1, <3>4, <3>5, EntSet
    <3> QED
      BY <3>2, <3>6
  <2> QED
    BY <1>5, <2>4 DEF DiskKept, FilesTypeOK
<1> HIDE DEF then
<1> QED
  BY <1>1, <1>2, <1>4, <1>5, <1>8, <1>9, DroppingStep

LEMMA MadeSound ==
  ASSUME FilesTypeOK, ShapeInv, NEW p \in Procs, Made(p)
  PROVE  Sound(p)
<1> DEFINE q == r[p]
           ip == q.tgt
           x == [icache[ip] EXCEPT !.lock = 0]
<1>1. pc[p] = "made" /\ Inside(p) /\ pc[p] \notin Iputs \cup {"closing"}
  BY DEF Made, Inside, Iputs
<1>2. PlaceFit(q, "made") /\ ip \in Inums /\ q.op \in CallOps \ {"link"}
  BY <1>1, HeldAtPoint DEF PlaceFit, UsesTgt, IpPoints, TgtPoints
<1>3. DiskKept /\ Put(p, <<ip>>, "end") /\ icache' = [icache EXCEPT ![ip] = x]
  BY DEF DiskKept, Made, FSame, FilesTypeOK
<1>4. x \in CacheEntry /\ x.ref = icache[ip].ref
  BY <1>2, EntrySet DEF FilesTypeOK
<1> HIDE DEF x
<1>5. Alike(icache, icache')
  BY <1>3, <1>4, CacheSet DEF FilesTypeOK
<1>6. PlaceFit(q, "end") /\ \A i : PlaceCount(q, "made", i) = One(ip, i) + PlaceCount(q, "end", i)
  <2>1. \A i : PlaceCount(q, "made", i) = One(ip, i) /\ One(ip, i) \in Nat /\ PlaceCount(q, "end", i) = 0
    BY <1>2, Counts, OneType
  <2> QED
    BY <2>1, EndPlace
<1> QED
  BY <1>1, <1>2, <1>3, <1>5, <1>6, DroppingStep DEF Thens
-----------------------------------------------------------------------------
\* unlink.
LEMMA UnlinkSound ==
  ASSUME FilesTypeOK, ShapeInv, NEW p \in Procs, Unlink(p)
  PROVE  Sound(p)
<1> DEFINE q == r[p]
           dp == q.ip
           ip == dino[dp].ents[Head(q.path)]
           c == [icache EXCEPT ![dp] = [Loaded(dp) EXCEPT !.lock = p]]
           t == [q EXCEPT !.tgt = ip]
<1>1. pc[p] = "unlink" /\ Inside(p) /\ pc[p] \notin Iputs \cup {"closing"}
  BY DEF Unlink, Ilock, Inside, Iputs
<1>2. /\ q \in Locals /\ q.put = <<>> /\ PlaceFit(q, "unlink") /\ dp \in Inums
      /\ q.op \in CallOps \ {"link"} /\ Len(q.path) = 1 /\ q.path \in Seq(Dots)
  BY <1>1, HeldAtPoint DEF PlaceFit, IpPoints, Locals
<1>3. DiskKept
  BY DEF DiskKept, Unlink, FSame, FilesTypeOK
<1>4. \A i : PlaceCount(q, "unlink", i) = One(dp, i)
  BY <1>2, Counts
<1>5. CASE icache' = [icache EXCEPT ![dp] = Loaded(dp)] /\ Put(p, <<dp>>, "end")
  <2>1. PlaceFit(q, "end") /\ \A i : One(dp, i) = One(dp, i) + PlaceCount(q, "end", i)
    BY EndPlace, OneType
  <2>2. Alike(icache, icache')
    BY <1>2, <1>5, LoadedAlike
  <2> QED
    BY <1>1, <1>2, <1>3, <1>4, <1>5, <2>1, <2>2, DroppingStep DEF Thens
<1>6. CASE ip # 0 /\ icache' = Iget(c, ip) /\ Goto(p, "unlinkip", t)
  <2>1. ip \in Inums
    <3> DEFINE path == q.path
    <3>1. path \in Seq(Dots) /\ Len(path) = 1
      BY <1>2
    <3> HIDE DEF path
    <3>2. path # <<>>
      BY <3>1
    <3> QED
      BY <1>2, <1>6, <3>1, <3>2, EntryIs DEF path
  <2>2. Alike(icache, c)
    BY <1>2, LoadedAlike
  <2>3. t \in Locals /\ t.put = <<>> /\ t.op = q.op /\ t.tgt = ip /\ t.ip = dp /\ t.path = q.path
    BY <1>2, <2>1 DEF Locals
  <2> HIDE DEF t, ip, c
  <2>4. PlaceFit(t, "unlinkip") /\ "unlinkip" \in IpPoints
    BY <1>2, <2>1, <2>3 DEF PlaceFit, UsesTgt, IpPoints, TgtPoints
  <2>5. \A i : PlaceCount(t, "unlinkip", i) = One(dp, i) + One(ip, i)
    BY <1>2, <2>3, Counts
  <2>6. /\ LocalsFit(t, "unlinkip") /\ "unlinkip" \in Points
        /\ \A i : HeldCount(t, "unlinkip", i) = PlaceCount(t, "unlinkip", i)
    BY <2>3, <2>4, AtPoint
  <2>7. \A i : HeldCount(t, "unlinkip", i) = PlaceCount(r[p], pc[p], i) + One(ip, i)
    BY <1>1, <1>4, <2>5, <2>6
  <2> QED
    BY <1>1, <1>3, <1>6, <2>1, <2>2, <2>3, <2>6, <2>7, IgetStep
<1>7. \/ icache' = [icache EXCEPT ![dp] = Loaded(dp)] /\ Put(p, <<dp>>, "end")
      \/ ip # 0 /\ icache' = Iget(c, ip) /\ Goto(p, "unlinkip", t)
  BY DEF Unlink
<1> QED
  BY <1>5, <1>6, <1>7

LEMMA UnlinkEntrySound ==
  ASSUME FilesTypeOK, ShapeInv, NEW p \in Procs, UnlinkEntry(p)
  PROVE  Sound(p)
<1> DEFINE q == r[p]
           dp == q.ip
           ip == q.tgt
           dir == Loaded(ip).type = "dir"
           name == Head(q.path)
           x == [Loaded(ip) EXCEPT !.lock = p]
           y == Unlocked(icache[dp], IF dir THEN -1 ELSE 0)
           n == IF dir THEN icache[dp].nlink - 1 ELSE dino[dp].nlink
<1>1. pc[p] = "unlinkip" /\ Inside(p) /\ pc[p] \notin Iputs \cup {"closing"}
  BY DEF UnlinkEntry, Ilock, Inside, Iputs
<1>2. /\ q \in Locals /\ PlaceFit(q, "unlinkip") /\ dp \in Inums /\ ip \in Inums
      /\ q.op \in CallOps \ {"link"} /\ Len(q.path) = 1 /\ q.path \in Seq(Dots)
  BY <1>1, HeldAtPoint DEF PlaceFit, UsesTgt, IpPoints, TgtPoints, Locals
<1>3. UNCHANGED <<stable, ftable, ofile, cwd>>
  BY DEF UnlinkEntry, FSame
<1>4. /\ PlaceFit(q, "bad") /\ \A i : PlaceCount(q, "unlinkip", i) = One(ip, i) + PlaceCount(q, "bad", i)
      /\ PlaceFit(q, "nlink") /\ \A i : PlaceCount(q, "unlinkip", i) = One(dp, i) + PlaceCount(q, "nlink", i)
  <2>1. PlaceFit(q, "bad") /\ PlaceFit(q, "nlink")
    BY <1>2 DEF PlaceFit, UsesTgt, SecondHalf, IpPoints, TgtPoints
  <2>2. \A i : /\ PlaceCount(q, "unlinkip", i) = One(dp, i) + One(ip, i)
               /\ PlaceCount(q, "bad", i) = One(dp, i) /\ PlaceCount(q, "nlink", i) = One(ip, i)
               /\ One(dp, i) \in Nat /\ One(ip, i) \in Nat
    BY <1>2, Counts, OneType
  <2> QED
    BY <2>1, <2>2
<1>5. CASE icache' = [icache EXCEPT ![ip] = Loaded(ip)] /\ Put(p, <<ip>>, "bad") /\ UNCHANGED dino
  <2>1. Alike(icache, icache')
    BY <1>2, <1>5, LoadedAlike
  <2>2. DiskKept
    BY <1>3, <1>5 DEF DiskKept, FilesTypeOK
  <2> QED
    BY <1>1, <1>2, <1>4, <1>5, <2>1, <2>2, DroppingStep DEF Thens
<1>6. CASE /\ icache' = [icache EXCEPT ![ip] = x, ![dp] = y] /\ Put(p, <<dp>>, "nlink")
           /\ dino' = [dino EXCEPT ![dp].ents[name] = 0, ![dp].nlink = n]
  <2>1. x \in CacheEntry /\ x.ref = icache[ip].ref
    <3>1. Loaded(ip) \in CacheEntry /\ Loaded(ip).ref = icache[ip].ref
      BY <1>2, LoadedIs
    <3> QED
      BY <3>1, EntrySet
  <2>2. y \in CacheEntry /\ y.ref = icache[dp].ref
    <3> DEFINE m == IF dir THEN -1 ELSE 0
    <3>1. m \in Int /\ icache[dp] \in CacheEntry
      BY <1>2 DEF FilesTypeOK
    <3> HIDE DEF m
    <3>2. Unlocked(icache[dp], m) \in CacheEntry /\ Unlocked(icache[dp], m).ref = icache[dp].ref
      BY <3>1, UnlockedIs
    <3> QED
      BY <3>2 DEF m
  <2>3. n \in Int
    BY <1>2 DEF FilesTypeOK, CacheEntry, Inode
  <2>a. name \in Dots
    BY <1>2
  <2> HIDE DEF x, y, n, name
  <2>4. Alike(icache, icache')
    BY <1>2, <1>6, <2>1, <2>2, CacheSets
  <2>5. dino' \in [Inums -> Inode]
    BY <1>2, <1>6, <2>3, <2>a, InodeSets DEF FilesTypeOK
  <2>6. DiskKept
    BY <1>3, <2>5 DEF DiskKept, FilesTypeOK
  <2> QED
    BY <1>1, <1>2, <1>4, <1>6, <2>4, <2>6, DroppingStep DEF Thens
<1>7. \/ icache' = [icache EXCEPT ![ip] = Loaded(ip)] /\ Put(p, <<ip>>, "bad") /\ UNCHANGED dino
      \/ /\ icache' = [icache EXCEPT ![ip] = x, ![dp] = y] /\ Put(p, <<dp>>, "nlink")
         /\ dino' = [dino EXCEPT ![dp].ents[name] = 0, ![dp].nlink = n]
  BY DEF UnlinkEntry
<1> QED
  BY <1>5, <1>6, <1>7

LEMMA UnlinkInodeSound ==
  ASSUME FilesTypeOK, ShapeInv, NEW p \in Procs, UnlinkInode(p)
  PROVE  Sound(p)
<1> DEFINE q == r[p]
           ip == q.tgt
<1>1. pc[p] = "nlink" /\ Inside(p) /\ pc[p] \notin Iputs \cup {"closing"}
  BY DEF UnlinkInode, Inside, Iputs
<1>2. PlaceFit(q, "nlink") /\ ip \in Inums /\ q.op \in CallOps \ {"link"}
  BY <1>1, HeldAtPoint DEF PlaceFit, UsesTgt, IpPoints, TgtPoints
<1>3. /\ UNCHANGED <<stable, ftable, ofile, cwd>> /\ Put(p, <<ip>>, "end")
      /\ icache' = [icache EXCEPT ![ip] = Unlocked(icache[ip], -1)]
      /\ dino' = [dino EXCEPT ![ip].nlink = icache[ip].nlink - 1]
  BY DEF UnlinkInode, FSame
<1>4. Alike(icache, icache')
  <2>1. icache[ip] \in CacheEntry
    BY <1>2 DEF FilesTypeOK
  <2>2. Unlocked(icache[ip], -1) \in CacheEntry /\ Unlocked(icache[ip], -1).ref = icache[ip].ref
    BY <2>1, UnlockedIs
  <2> QED
    BY <1>3, <2>2, CacheSet DEF FilesTypeOK
<1>5. DiskKept
  <2> DEFINE n == icache[ip].nlink - 1
  <2>1. n \in Int
    BY <1>2 DEF FilesTypeOK, CacheEntry
  <2>2. dino' = [dino EXCEPT ![ip].nlink = n]
    BY <1>3
  <2> HIDE DEF n
  <2>3. dino' \in [Inums -> Inode]
    <3>1. dino \in [Inums -> Inode] /\ ip \in Inums
      BY <1>2 DEF FilesTypeOK
    <3> HIDE DEF ip
    <3> QED
      BY ONLY <2>1, <2>2, <3>1, NlinkSet
  <2> QED
    BY <1>3, <2>3 DEF DiskKept, FilesTypeOK
<1>6. PlaceFit(q, "end") /\ \A i : PlaceCount(q, "nlink", i) = One(ip, i) + PlaceCount(q, "end", i)
  <2>1. \A i : PlaceCount(q, "nlink", i) = One(ip, i) /\ One(ip, i) \in Nat /\ PlaceCount(q, "end", i) = 0
    BY <1>2, Counts, OneType
  <2> QED
    BY <2>1, EndPlace
<1> QED
  BY <1>1, <1>2, <1>3, <1>4, <1>5, <1>6, DroppingStep DEF Thens

LEMMA BadSound ==
  ASSUME FilesTypeOK, ShapeInv, NEW p \in Procs, Bad(p)
  PROVE  Sound(p)
<1> DEFINE q == r[p]
           dp == q.ip
           x == [icache[dp] EXCEPT !.lock = 0]
<1>1. pc[p] = "bad" /\ Inside(p) /\ pc[p] \notin Iputs \cup {"closing"}
  BY DEF Bad, Inside, Iputs
<1>2. q \in Locals /\ PlaceFit(q, "bad") /\ q.parent \in BOOLEAN
  BY <1>1, HeldAtPoint DEF Locals
<1>3. DiskKept /\ Put(p, <<dp>>, Missed(q)) /\ icache' = [icache EXCEPT ![dp] = x]
  BY DEF DiskKept, Bad, FSame, FilesTypeOK
<1>4. /\ Missed(q) \in Thens /\ PlaceFit(q, Missed(q)) /\ dp \in Inums
      /\ \A i : PlaceCount(q, "bad", i) = One(dp, i) + PlaceCount(q, Missed(q), i)
  BY <1>2, MissedFits
<1>5. x \in CacheEntry /\ x.ref = icache[dp].ref
  BY <1>4, EntrySet DEF FilesTypeOK
<1> HIDE DEF x
<1>6. Alike(icache, icache')
  BY <1>3, <1>5, CacheSet DEF FilesTypeOK
<1> QED
  BY <1>1, <1>3, <1>4, <1>6, DroppingStep
-----------------------------------------------------------------------------
\* link.
LEMMA StartIs ==
  ASSUME FilesTypeOK, NEW p \in Procs, cwd[p] \in Inums, NEW path
  PROVE  Start(p, path) \in Inums
BY Basics DEF Start, ROOTINO

\* The beginning of a walk: what the caller's locals must provide.
CanWalk(l, path, parent) ==
  /\ l \in Locals /\ l.put = <<>> /\ l.op \in CallOps
  /\ Elements(path) \in Seq(Dots) /\ parent \in BOOLEAN
  /\ l.op \in {"creat", "mkdir", "unlink"} => parent
  /\ l.op = "link" => IF parent THEN l.tgt \in Inums ELSE Elements(l.new) \in Seq(Dots)

WalkCount(p, l, path, parent, i) ==
  One(Start(p, path), i) + IF l.op = "link" /\ parent THEN One(l.tgt, i) ELSE 0

LEMMA Walking ==
  ASSUME FilesTypeOK, NEW p \in Procs, cwd[p] \in Inums, NEW l, NEW path, NEW parent,
         CanWalk(l, path, parent), WalkFrom(p, l, path, parent)
  PROVE  \E w \in Locals : /\ Goto(p, "walk", w) /\ LocalsFit(w, "walk")
                           /\ \A i : HeldCount(w, "walk", i) = WalkCount(p, l, path, parent, i)
<1> DEFINE x == Start(p, path)
           e == Elements(path)
           w == [l EXCEPT !.path = e, !.parent = parent, !.ip = x]
<1>1. x \in Inums /\ e \in Seq(Dots) /\ l \in Locals /\ parent \in BOOLEAN
  BY StartIs DEF CanWalk
<1>2. Goto(p, "walk", w)
  BY DEF WalkFrom
<1> HIDE DEF x, e
<1>3. w \in Locals
  BY <1>1 DEF Locals
<1>4. /\ w.ip = x /\ w.op = l.op /\ w.tgt = l.tgt /\ w.new = l.new /\ w.put = l.put
  BY <1>1 DEF Locals
<1>5. w.parent = parent
  BY <1>1 DEF Locals
<1> HIDE DEF w
<1>6. PlaceFit(w, "walk") /\ "walk" \in IpPoints
  BY <1>1, <1>4, <1>5 DEF CanWalk, PlaceFit, UsesTgt, SecondHalf, IpPoints, TgtPoints
<1>7. /\ LocalsFit(w, "walk")
      /\ \A i : HeldCount(w, "walk", i) = PlaceCount(w, "walk", i)
  BY <1>4, <1>6, AtPoint DEF CanWalk
<1>8. ASSUME NEW i PROVE PlaceCount(w, "walk", i) = WalkCount(p, l, path, parent, i)
  BY <1>4, <1>5, OneType DEF WalkCount, PlaceCount, UsesTgt, SecondHalf, IpPoints, TgtPoints, x
<1> QED
  BY <1>2, <1>3, <1>7, <1>8

LEMMA LinkSound ==
  ASSUME FilesTypeOK, ShapeInv, NEW p \in Procs, Link(p)
  PROVE  Sound(p)
<1> DEFINE q == r[p]
           ip == q.ip
           n == Loaded(ip).nlink + 1
           c == [icache EXCEPT ![ip] = [Loaded(ip) EXCEPT !.nlink = n]]
           x == Start(p, q.new)
           l == [q EXCEPT !.tgt = ip]
<1>1. pc[p] = "link" /\ Inside(p) /\ pc[p] \notin Iputs \cup {"closing", "user", "end"}
  BY DEF Link, Ilock, Inside, Iputs
<1>2. /\ q \in Locals /\ q.put = <<>> /\ PlaceFit(q, "link") /\ ip \in Inums /\ cwd[p] \in Inums
      /\ q.op = "link" /\ ~q.parent /\ Elements(q.new) \in Seq(Dots)
  BY <1>1, HeldAtPoint DEF PlaceFit, IpPoints
<1>3. UNCHANGED <<stable, ftable, ofile, cwd>>
  BY DEF Link, FSame
<1>4. \A i : PlaceCount(q, "link", i) = One(ip, i)
  BY <1>2, Counts
<1>5. CASE icache' = [icache EXCEPT ![ip] = Loaded(ip)] /\ Put(p, <<ip>>, "end") /\ UNCHANGED dino
  <2>1. PlaceFit(q, "end") /\ \A i : One(ip, i) = One(ip, i) + PlaceCount(q, "end", i)
    BY EndPlace, OneType
  <2>2. Alike(icache, icache')
    BY <1>2, <1>5, LoadedAlike
  <2>3. DiskKept
    BY <1>3, <1>5 DEF DiskKept, FilesTypeOK
  <2> QED
    BY <1>1, <1>2, <1>4, <1>5, <2>1, <2>2, <2>3, DroppingStep DEF Thens
<1>6. CASE icache' = Iget(c, x) /\ dino' = [dino EXCEPT ![ip].nlink = n] /\ WalkFrom(p, l, q.new, TRUE)
  <2>1. n \in Int
    BY <1>2, LoadedIs DEF CacheEntry
  <2>2. l \in Locals /\ l.put = <<>> /\ l.op = "link" /\ l.tgt = ip /\ l.new = q.new
    BY <1>2 DEF Locals
  <2> HIDE DEF n, l
  <2>3. Alike(icache, c)
    BY <1>2, <2>1, LoadedAlike
  <2>4. DiskKept
    <3>1. dino' \in [Inums -> Inode]
      <4>1. dino \in [Inums -> Inode] /\ ip \in Inums /\ n \in Int
        BY <1>2, <2>1 DEF FilesTypeOK
      <4>2. dino' = [dino EXCEPT ![ip].nlink = n]
        BY <1>6
      <4> HIDE DEF ip
      <4> QED
        BY ONLY <4>1, <4>2, NlinkSet
    <3> QED
      BY <1>3, <3>1 DEF DiskKept, FilesTypeOK
  <2>5. CanWalk(l, q.new, TRUE)
    BY <1>2, <2>2 DEF CanWalk, CallOps
  <2>6. PICK w \in Locals : /\ Goto(p, "walk", w) /\ LocalsFit(w, "walk")
                            /\ \A i : HeldCount(w, "walk", i) = WalkCount(p, l, q.new, TRUE, i)
    BY <1>2, <1>6, <2>5, Walking
  <2>7. x \in Inums /\ "walk" \in Points
    BY <1>2, StartIs DEF Points, IpPoints
  <2>8. ASSUME NEW i PROVE HeldCount(w, "walk", i) = PlaceCount(r[p], pc[p], i) + One(x, i)
    <3>1. One(x, i) \in Nat /\ One(ip, i) \in Nat
      BY OneType
    <3>2. HeldCount(w, "walk", i) = One(x, i) + One(ip, i)
      BY <2>2, <2>6 DEF WalkCount
    <3>3. PlaceCount(r[p], pc[p], i) = One(ip, i)
      BY <1>1, <1>4
    <3> HIDE DEF x, q, ip
    <3> QED
      BY <3>1, <3>2, <3>3
  <2> HIDE DEF x, c
  <2> QED
    BY <1>1, <1>6, <2>3, <2>4, <2>6, <2>7, <2>8, IgetStep
<1>7. \/ icache' = [icache EXCEPT ![ip] = Loaded(ip)] /\ Put(p, <<ip>>, "end") /\ UNCHANGED dino
      \/ icache' = Iget(c, x) /\ dino' = [dino EXCEPT ![ip].nlink = n] /\ WalkFrom(p, l, q.new, TRUE)
  BY DEF Link
<1> QED
  BY <1>5, <1>6, <1>7

LEMMA LinkEntrySound ==
  ASSUME FilesTypeOK, ShapeInv, NEW p \in Procs, LinkEntry(p)
  PROVE  Sound(p)
<1> DEFINE q == r[p]
           dp == q.ip
           name == Head(q.path)
           found == dino[dp].ents[name]
           c == [icache EXCEPT ![dp] = [Loaded(dp) EXCEPT !.lock = p]]
<1>1. pc[p] = "linkentry" /\ Inside(p) /\ pc[p] \notin Iputs \cup {"closing"}
  BY DEF LinkEntry, Ilock, Inside, Iputs
<1>2. /\ q \in Locals /\ q.put = <<>> /\ PlaceFit(q, "linkentry") /\ dp \in Inums /\ q.tgt \in Inums
      /\ q.op = "link" /\ q.parent /\ Len(q.path) = 1 /\ q.path \in Seq(Dots)
  BY <1>1, HeldAtPoint DEF PlaceFit, UsesTgt, SecondHalf, IpPoints, Locals
<1>3. UNCHANGED <<stable, ftable, ofile, cwd>>
  BY DEF LinkEntry, FSame
<1>4. \A i : /\ PlaceCount(q, "linkentry", i) = One(dp, i) + One(q.tgt, i)
             /\ PlaceCount(q, "bad", i) = One(dp, i) + One(q.tgt, i) /\ PlaceCount(q, "end", i) = 0
             /\ One(dp, i) \in Nat /\ One(q.tgt, i) \in Nat
  BY <1>2, Counts, OneType
<1>5. name \in Dots /\ found \in Inums \cup {0}
  <2> DEFINE path == q.path
  <2>1. path \in Seq(Dots) /\ Len(path) = 1
    BY <1>2
  <2> HIDE DEF path
  <2>2. path # <<>>
    BY <2>1
  <2> QED
    BY <1>2, <2>1, <2>2, EntryIs DEF path
<1> HIDE DEF name
<1>6. CASE found # 0 /\ icache' = Iget(c, found) /\ Put(p, <<found>>, "bad") /\ UNCHANGED dino
  <2> DEFINE s == <<found>>
  <2>1. found \in Inums
    BY <1>5, <1>6
  <2>2. s \in Seq(Inums) /\ s # <<>> /\ \A i : Occ(s, i) = One(found, i)
    BY <2>1, OccOne
  <2>3. PlaceFit(q, "bad")
    BY <1>2 DEF PlaceFit, UsesTgt, SecondHalf, IpPoints, TgtPoints
  <2>4. Alike(icache, c)
    BY <1>2, LoadedAlike
  <2> HIDE DEF c, found
  <2>5. /\ icache' \in [Inums -> CacheEntry]
        /\ \A i \in Inums : icache'[i].ref = icache[i].ref + One(found, i)
    BY <1>6, <2>1, <2>4, AlikeIget
  <2>6. DiskKept
    BY <1>3, <1>6 DEF DiskKept, FilesTypeOK
  <2>7. Put(p, s, "bad")
    BY <1>6
  <2> HIDE DEF s
  <2>8. ASSUME NEW i \in Inums
        PROVE  icache'[i].ref + PlaceCount(r[p], pc[p], i)
                 = icache[i].ref + (Occ(s, i) + PlaceCount(r[p], "bad", i))
    <3>1. /\ icache'[i].ref = icache[i].ref + One(found, i) /\ Occ(s, i) = One(found, i)
          /\ PlaceCount(r[p], pc[p], i) = PlaceCount(r[p], "bad", i)
      BY <1>1, <1>4, <2>2, <2>5
    <3>2. /\ icache[i].ref \in Int /\ One(found, i) \in Nat /\ PlaceCount(r[p], "bad", i) \in Nat
      BY OneType, PlaceCountType DEF FilesTypeOK, CacheEntry
    <3> QED
      BY <3>1, <3>2
  <2> QED
    BY <1>1, <2>2, <2>3, <2>5, <2>6, <2>7, <2>8, PuttingStep DEF Thens
<1>7. CASE /\ icache' = [icache EXCEPT ![dp] = Loaded(dp)] /\ Put(p, <<dp, q.tgt>>, "end")
           /\ dino' = [dino EXCEPT ![dp].ents[name] = q.tgt]
  <2> DEFINE s == <<dp, q.tgt>>
  <2>1. s \in Seq(Inums) /\ s # <<>> /\ \A i : Occ(s, i) = One(dp, i) + One(q.tgt, i)
    BY <1>2, OccTwo
  <2>2. Alike(icache, icache')
    BY <1>2, <1>7, LoadedAlike
  <2>3. PlaceFit(q, "end")
    BY EndPlace
  <2>4. DiskKept
    <3>1. dino' \in [Inums -> Inode]
      BY <1>2, <1>5, <1>7, EntSet DEF FilesTypeOK
    <3> QED
      BY <1>3, <3>1 DEF DiskKept, FilesTypeOK
  <2>5. Put(p, s, "end")
    BY <1>7
  <2> HIDE DEF s
  <2>6. ASSUME NEW i \in Inums
        PROVE  icache'[i].ref + PlaceCount(r[p], pc[p], i)
                 = icache[i].ref + (Occ(s, i) + PlaceCount(r[p], "end", i))
    BY <1>1, <1>4, <2>1, <2>2 DEF Alike
  <2> QED
    BY <1>1, <2>1, <2>2, <2>3, <2>4, <2>5, <2>6, PuttingStep DEF Thens, Alike
<1>8. \/ found # 0 /\ icache' = Iget(c, found) /\ Put(p, <<found>>, "bad") /\ UNCHANGED dino
      \/ /\ icache' = [icache EXCEPT ![dp] = Loaded(dp)] /\ Put(p, <<dp, q.tgt>>, "end")
         /\ dino' = [dino EXCEPT ![dp].ents[name] = q.tgt]
  BY DEF LinkEntry, name
<1> QED
  BY <1>6, <1>7, <1>8

LEMMA LinkBadSound ==
  ASSUME FilesTypeOK, ShapeInv, NEW p \in Procs, LinkBad(p)
  PROVE  Sound(p)
<1> DEFINE q == r[p]
           ip == q.tgt
           n == Loaded(ip).nlink - 1
<1>1. pc[p] = "linkbad" /\ Inside(p) /\ pc[p] \notin Iputs \cup {"closing"}
  BY DEF LinkBad, Ilock, Inside, Iputs
<1>2. PlaceFit(q, "linkbad") /\ ip \in Inums /\ q.op = "link" /\ q.parent
  BY <1>1, HeldAtPoint DEF PlaceFit, UsesTgt, IpPoints, TgtPoints
<1>3. /\ UNCHANGED <<stable, ftable, ofile, cwd>> /\ Put(p, <<ip>>, "end")
      /\ icache' = [icache EXCEPT ![ip] = [Loaded(ip) EXCEPT !.nlink = n]]
      /\ dino' = [dino EXCEPT ![ip].nlink = n]
  BY DEF LinkBad, FSame
<1>4. n \in Int
  BY <1>2, LoadedIs DEF CacheEntry
<1> HIDE DEF n
<1>5. Alike(icache, icache')
  BY <1>2, <1>3, <1>4, LoadedAlike
<1>6. DiskKept
  <2>1. dino' \in [Inums -> Inode]
    <3>1. dino \in [Inums -> Inode] /\ ip \in Inums /\ n \in Int
      BY <1>2, <1>4 DEF FilesTypeOK
    <3>2. dino' = [dino EXCEPT ![ip].nlink = n]
      BY <1>3
    <3> HIDE DEF ip
    <3> QED
      BY ONLY <3>1, <3>2, NlinkSet
  <2> QED
    BY <1>3, <2>1 DEF DiskKept, FilesTypeOK
<1>7. PlaceFit(q, "end") /\ \A i : PlaceCount(q, "linkbad", i) = One(ip, i) + PlaceCount(q, "end", i)
  <2>1. \A i : PlaceCount(q, "linkbad", i) = One(ip, i) /\ One(ip, i) \in Nat /\ PlaceCount(q, "end", i) = 0
    BY <1>2, Counts, OneType
  <2> QED
    BY <2>1, EndPlace
<1> QED
  BY <1>1, <1>2, <1>3, <1>5, <1>6, <1>7, DroppingStep DEF Thens
-----------------------------------------------------------------------------
\* chdir, close, exit, fork: the directories and open files of a process.
LEMMA ChdirSound ==
  ASSUME FilesTypeOK, ShapeInv, NEW p \in Procs, Chdir(p)
  PROVE  Sound(p)
<1> DEFINE q == r[p]
           ip == q.ip
           s == <<cwd[p]>>
<1>1. pc[p] = "chdir" /\ Inside(p) /\ pc[p] \notin Iputs \cup {"closing", "user", "end"}
  BY DEF Chdir, Ilock, Inside, Iputs
<1>2. /\ PlaceFit(q, "chdir") /\ ip \in Inums /\ q.op \in CallOps \ {"link"} /\ cwd[p] \in Inums
      /\ \A i : HeldCount(q, pc[p], i) = PlaceCount(q, "chdir", i)
  BY <1>1, HeldAtPoint DEF PlaceFit, IpPoints
<1>3. UNCHANGED <<dino, stable, ftable, ofile>> /\ icache' = [icache EXCEPT ![ip] = Loaded(ip)]
  BY DEF Chdir
<1>4. Alike(icache, icache')
  BY <1>2, <1>3, LoadedAlike
<1>5. PlaceFit(q, "end") /\ \A i : /\ PlaceCount(q, "chdir", i) = One(ip, i) /\ PlaceCount(q, "end", i) = 0
                                   /\ One(ip, i) \in Nat
  BY <1>2, Counts, OneType, EndPlace
<1>6. CASE Put(p, <<ip>>, "end") /\ UNCHANGED cwd
  <2>1. \A i : PlaceCount(q, pc[p], i) = One(ip, i) + PlaceCount(q, "end", i)
    BY <1>1, <1>5
  <2>2. DiskKept
    BY <1>3, <1>6 DEF DiskKept, FilesTypeOK
  <2> QED
    BY <1>1, <1>2, <1>4, <1>5, <1>6, <2>1, <2>2, DroppingStep DEF Thens
<1>7. CASE Put(p, s, "end") /\ cwd' = [cwd EXCEPT ![p] = ip]
  <2>1. s \in Seq(Inums) /\ s # <<>> /\ \A i : Occ(s, i) = One(cwd[p], i)
    BY <1>2, OccOne
  <2> HIDE DEF s
  <2>2. Moves(p) /\ \A i : HeldCount(r'[p], pc'[p], i) = Occ(s, i) + PlaceCount(q, "end", i)
    BY <1>5, <1>7, <2>1, Putting DEF Thens
  <2>3. cwd' \in [Procs -> Inums \cup {0}] /\ cwd'[p] = ip /\ \A t \in Procs \ {p} : cwd'[t] = cwd[t]
    BY <1>2, <1>7 DEF FilesTypeOK
  <2>4. FilesTypeOK'
    BY <1>3, <1>4, <2>2, <2>3 DEF FilesTypeOK, Moves, Alike
  <2>5. Alive(r'[p], pc'[p], cwd'[p], ofile'[p])
    BY <1>2, <2>3, Basics DEF Alive
  <2>6. \A f \in Fds : /\ ftable'[f].ip = 0 <=> ftable'[f].ref = 0
                       /\ ftable'[f].ref = ftable[f].ref + One(ofile'[p], f) - One(ofile[p], f)
    <3>1. \A f \in Fds : (ftable[f].ip = 0 <=> ftable[f].ref = 0) /\ ftable[f].ref \in Int
      BY DEF ShapeInv, FilesTypeOK, File
    <3>2. \A f : One(ofile[p], f) \in Nat
      BY OneType
    <3> QED
      BY <1>3, <3>1, <3>2
  <2>7. PICK g \in Fds : TRUE
    BY Basics
  <2>8. ASSUME NEW i \in Inums PROVE Balanced(p, g, i)
    <3>1. HeldCount(r'[p], pc'[p], i) = One(cwd[p], i) /\ HeldCount(r[p], pc[p], i) = One(ip, i)
      <4>1. One(cwd[p], i) \in Nat
        BY OneType
      <4>2. HeldCount(r'[p], pc'[p], i) = Occ(s, i) + 0 /\ Occ(s, i) = One(cwd[p], i)
        BY <1>5, <2>1, <2>2
      <4>3. HeldCount(r[p], pc[p], i) = One(ip, i)
        BY <1>2, <1>5
      <4> QED
        BY <4>1, <4>2, <4>3
    <3>2. /\ icache'[i].ref = icache[i].ref /\ icache[i].ref \in Int /\ cwd'[p] = ip
          /\ ftable'[g].ip = ftable[g].ip
      BY <1>3, <1>4, <2>3 DEF Alike, FilesTypeOK, CacheEntry
    <3>3. One(ip, i) \in Nat /\ One(cwd[p], i) \in Nat /\ One(ftable[g].ip, i) \in Nat
      BY OneType
    <3> HIDE DEF ip, q
    <3> QED
      BY <3>1, <3>2, <3>3 DEF Balanced
  <2> QED
    BY <1>3, <2>2, <2>3, <2>4, <2>5, <2>6, <2>7, <2>8 DEF Sound
<1>8. \/ Put(p, s, "end") /\ cwd' = [cwd EXCEPT ![p] = ip]
      \/ Put(p, <<ip>>, "end") /\ UNCHANGED cwd
  BY DEF Chdir
<1> QED
  BY <1>6, <1>7, <1>8

\* A file that a process has open is counted.
LEMMA FdRef ==
  ASSUME FilesCondition, FilesTypeOK, RefsArePointers, NEW p \in Procs, ofile[p] # 0
  PROVE  ofile[p] \in Fds /\ ftable[ofile[p]].ref \in Nat \ {0}
<1> DEFINE f == ofile[p]
           S == {s \in Procs : ofile[s] = f}
<1>1. f \in Fds
  BY DEF FilesTypeOK
<1>2. ftable[f].ref = Cardinality(S)
  BY <1>1 DEF RefsArePointers
<1>3. p \in S /\ S \subseteq Procs
  OBVIOUS
<1> HIDE DEF S
<1>4. IsFiniteSet(S) /\ Cardinality(S) \in Nat
  BY <1>3, FS_Subset, FS_CardinalityType DEF FilesCondition
<1>5. Cardinality(S) # 0
  BY <1>3, <1>4, FS_EmptySet
<1> QED
  BY <1>1, <1>2, <1>4, <1>5

\* Outside a call nothing is held.
LEMMA AtRest ==
  ASSUME NEW q, NEW at \in {"user", "exit", "end"}, q.put = <<>>,
         at = "user" => q.op \in {"none", "exit"}, at = "exit" => q.op = "exit" /\ q.then = "end"
  PROVE  /\ LocalsFit(q, at) /\ at \in Points
         /\ \A i : HeldCount(q, at, i) = 0
<1>1. /\ Place(q, at) = at /\ at \notin Iputs \cup {"closing"} /\ at \in Points
  BY DEF Place, Iputs, Points, Thens
<1>2. PlaceFit(q, at) /\ \A i : PlaceCount(q, at, i) = 0
  BY EndPlace
<1>3. LocalsFit(q, at)
  BY <1>1, <1>2 DEF LocalsFit
<1>4. \A i : HeldCount(q, at, i) = 0
  BY <1>1, <1>2, OccEmpty DEF HeldCount
<1> QED
  BY <1>1, <1>3, <1>4

LEMMA Resting ==
  ASSUME FilesTypeOK, ShapeInv, NEW p \in Procs, pc[p] \in {"user", "exit", "end"}
  PROVE  /\ r[p] \in Locals /\ r[p].put = <<>> /\ \A i : HeldCount(r[p], pc[p], i) = 0
         /\ pc[p] = "user" => r[p].op \in {"none", "exit"}
         /\ pc[p] = "exit" => r[p].op = "exit" /\ r[p].then = "end"
         /\ cwd[p] = 0 => ofile[p] = 0
         /\ pc[p] = "exit" => cwd[p] \in Inums
<1>1. r[p] \in Locals /\ LocalsFit(r[p], pc[p]) /\ Alive(r[p], pc[p], cwd[p], ofile[p])
  BY DEF FilesTypeOK, ShapeInv
<1>2. pc[p] \notin Iputs \cup {"closing"} /\ Place(r[p], pc[p]) = pc[p]
  BY DEF Iputs, Place
<1>3. /\ r[p].put = <<>> /\ (pc[p] = "user" => r[p].op \in {"none", "exit"})
      /\ pc[p] = "exit" => r[p].op = "exit" /\ r[p].then = "end"
  BY <1>1, <1>2 DEF LocalsFit
<1>4. \A i : HeldCount(r[p], pc[p], i) = 0
  BY <1>3, AtRest
<1>5. (cwd[p] = 0 => ofile[p] = 0) /\ (pc[p] = "exit" => cwd[p] \in Inums)
  BY <1>1, <1>2 DEF Alive, FilesTypeOK
<1> QED
  BY <1>1, <1>3, <1>4, <1>5

LEMMA FilecloseSound ==
  ASSUME FilesCondition, FilesInv, NEW p \in Procs, pc[p] \in {"user", "exit"}, ofile[p] # 0,
         NEW locals \in Locals, locals.put = <<>>, locals.then = "end", locals.op \in {"none", "exit"},
         Fileclose(p, locals), UNCHANGED <<dino, stable, icache, cwd>>
  PROVE  Sound(p)
<1> DEFINE g == ofile[p]
           ip == ftable[g].ip
<1>1. FilesTypeOK /\ ShapeInv /\ RefsArePointers
  BY DEF FilesInv
<1>2. g \in Fds /\ ftable[g].ref \in Nat \ {0} /\ ip \in Inums
  <2>1. g \in Fds /\ ftable[g].ref \in Nat \ {0}
    BY <1>1, FdRef
  <2>2. ip # 0 /\ ip \in Inums \cup {0}
    BY <1>1, <2>1 DEF ShapeInv, FilesTypeOK, File
  <2> QED
    BY <2>1, <2>2
<1>3. cwd[p] \in Inums /\ cwd[p] # 0 /\ \A i : HeldCount(r[p], pc[p], i) = 0
  BY <1>1, Resting, Basics DEF FilesTypeOK
<1>4. /\ ofile' \in [Procs -> Fds \cup {0}] /\ ofile'[p] = 0 /\ \A t \in Procs \ {p} : ofile'[t] = ofile[t]
      /\ cwd' = cwd
  BY <1>1 DEF FilesTypeOK, Fileclose
<1>5. \A f \in Fds : One(ofile'[p], f) = 0 /\ One(ofile[p], f) = IF f = g THEN 1 ELSE 0
  BY <1>1, <1>4, Basics DEF One
<1>6. \A f \in Fds : (ftable[f].ip = 0 <=> ftable[f].ref = 0) /\ ftable[f].ref \in Int
  BY <1>1 DEF ShapeInv, FilesTypeOK, File
\* What both kinds of close have in common.
<1>7. ASSUME Moves(p), ftable' \in [Fds -> File], \A f \in Fds \ {g} : ftable'[f] = ftable[f],
             ftable'[g].ref = ftable[g].ref - 1, ftable'[g].ip = 0 <=> ftable'[g].ref = 0,
             \A i \in Inums : HeldCount(r'[p], pc'[p], i) + One(ftable'[g].ip, i) = One(ip, i)
      PROVE  Sound(p)
  <2>1. FilesTypeOK'
    BY <1>1, <1>4, <1>7 DEF FilesTypeOK, Moves
  <2>2. Alive(r'[p], pc'[p], cwd'[p], ofile'[p])
    BY <1>3, <1>4 DEF Alive
  <2>3. \A f \in Fds : /\ ftable'[f].ip = 0 <=> ftable'[f].ref = 0
                       /\ ftable'[f].ref = ftable[f].ref + One(ofile'[p], f) - One(ofile[p], f)
    BY <1>2, <1>5, <1>6, <1>7
  <2>4. ASSUME NEW i \in Inums PROVE Balanced(p, g, i)
    <3>1. HeldCount(r'[p], pc'[p], i) \in Nat /\ HeldCount(r[p], pc[p], i) = 0
      BY <1>3, <1>7, HeldCountType DEF Moves
    <3>2. One(ftable'[g].ip, i) \in Nat /\ One(ip, i) \in Nat /\ One(cwd[p], i) \in Nat
      BY OneType
    <3>3. HeldCount(r'[p], pc'[p], i) + One(ftable'[g].ip, i) = One(ip, i)
      BY <1>7
    <3>4. icache'[i].ref = icache[i].ref /\ icache[i].ref \in Int
      BY <1>1 DEF FilesTypeOK, CacheEntry
    <3> QED
      BY <1>4, <3>1, <3>2, <3>3, <3>4 DEF Balanced
  <2> QED
    BY <1>2, <1>4, <1>7, <2>1, <2>2, <2>3, <2>4 DEF Sound
<1>8. CASE LastFd(g)
  <2> DEFINE none == [ref |-> 0, ip |-> 0]
             s == <<ip>>
             t == [locals EXCEPT !.put = s]
  <2>1. ftable[g].ref = 1 /\ ftable' = [ftable EXCEPT ![g] = none] /\ Goto(p, "closing", t)
    BY <1>8 DEF Fileclose, LastFd
  <2>2. none \in File /\ none.ref = 0 /\ none.ip = 0
    BY DEF File
  <2> HIDE DEF none
  <2>3. /\ ftable' \in [Fds -> File] /\ ftable'[g] = none
        /\ \A f \in Fds \ {g} : ftable'[f] = ftable[f]
    BY <1>1, <1>2, <2>1, <2>2 DEF FilesTypeOK
  <2>4. s \in Seq(Inums) /\ s # <<>> /\ \A i : Occ(s, i) = One(ip, i)
    BY <1>2, OccOne
  <2> HIDE DEF s
  <2>5. t \in Locals /\ t.put = s /\ t.then = "end" /\ t.op = locals.op
    BY <2>4 DEF Locals
  <2> HIDE DEF t
  <2>6. /\ Place(t, "closing") = "closing" /\ PlaceFit(t, "closing")
        /\ \A i : PlaceCount(t, "closing", i) = 0
    BY <2>5, EndPlace DEF Place, Iputs
  <2>7. LocalsFit(t, "closing") /\ "closing" \in Points
    BY <2>4, <2>5, <2>6 DEF LocalsFit, Points, Iputs
  <2>8. Moves(p) /\ r'[p] = t /\ pc'[p] = "closing"
    BY <1>1, <2>1, <2>5, <2>7, Going
  <2>9. ASSUME NEW i \in Inums
        PROVE  HeldCount(r'[p], pc'[p], i) + One(ftable'[g].ip, i) = One(ip, i)
    <3>1. HeldCount(t, "closing", i) = One(ip, i) + 0
      BY <2>4, <2>5, <2>6 DEF HeldCount
    <3>2. One(ftable'[g].ip, i) = 0 /\ One(ip, i) \in Nat
      BY <1>1, <2>2, <2>3, OneType, Basics DEF One
    <3> QED
      BY <2>8, <3>1, <3>2
  <2>10. ftable'[g].ref = ftable[g].ref - 1 /\ (ftable'[g].ip = 0 <=> ftable'[g].ref = 0)
    BY <2>1, <2>2, <2>3
  <2> QED
    BY <1>7, <2>3, <2>8, <2>9, <2>10
<1>9. CASE ~LastFd(g)
  <2> DEFINE at == IF locals.op = "exit" THEN "exit" ELSE "user"
             n == ftable[g].ref - 1
             new == [ftable[g] EXCEPT !.ref = n]
  <2>1. ftable[g].ref # 1 /\ ftable' = [ftable EXCEPT ![g] = new] /\ Goto(p, at, locals)
    BY <1>9 DEF Fileclose, LastFd
  <2>2. n \in Int /\ n # 0
    BY <1>2, <2>1
  <2> HIDE DEF n
  <2>3. new \in File /\ new.ref = n /\ new.ip = ip
    BY <1>1, <1>2, <2>2 DEF FilesTypeOK, File
  <2> HIDE DEF new
  <2>4. /\ ftable' \in [Fds -> File] /\ ftable'[g] = new
        /\ \A f \in Fds \ {g} : ftable'[f] = ftable[f]
    BY <1>1, <1>2, <2>1, <2>3 DEF FilesTypeOK
  <2>5. LocalsFit(locals, at) /\ at \in Points /\ \A i : HeldCount(locals, at, i) = 0
    BY AtRest
  <2> HIDE DEF at
  <2>6. Moves(p) /\ r'[p] = locals /\ pc'[p] = at
    BY <1>1, <2>1, <2>5, Going
  <2>7. ASSUME NEW i \in Inums
        PROVE  HeldCount(r'[p], pc'[p], i) + One(ftable'[g].ip, i) = One(ip, i)
    BY <2>3, <2>4, <2>5, <2>6, OneType
  <2>8. ftable'[g].ref = ftable[g].ref - 1 /\ (ftable'[g].ip = 0 <=> ftable'[g].ref = 0)
    BY <1>1, <1>2, <2>2, <2>3, <2>4, Basics DEF n
  <2> QED
    BY <1>7, <2>4, <2>6, <2>7, <2>8
<1> QED
  BY <1>8, <1>9

LEMMA CloseSound ==
  ASSUME FilesCondition, FilesInv, NEW p \in Procs, Close(p) \/ ExitFile(p)
  PROVE  Sound(p)
<1>1. FilesTypeOK /\ ShapeInv
  BY DEF FilesInv
<1>2. CASE Close(p)
  <2>1. NoLocals \in Locals /\ NoLocals.put = <<>> /\ NoLocals.then = "end" /\ NoLocals.op = "none"
    BY <1>1, Basics DEF NoLocals
  <2> QED
    BY <1>2, <2>1, FilecloseSound DEF Close
<1>3. CASE ExitFile(p)
  <2>1. pc[p] = "exit" /\ r[p] \in Locals /\ r[p].put = <<>> /\ r[p].then = "end" /\ r[p].op = "exit"
    BY <1>1, <1>3, Resting DEF ExitFile
  <2> QED
    BY <1>3, <2>1, FilecloseSound DEF ExitFile
<1> QED
  BY <1>2, <1>3

LEMMA ClosingSound ==
  ASSUME FilesTypeOK, ShapeInv, NEW p \in Procs, Closing(p)
  PROVE  Sound(p)
<1> DEFINE q == r[p]
<1>1. pc[p] = "closing" /\ Goto(p, "iput", q)
  BY DEF Closing
<1>2. /\ q \in Locals /\ q.put # <<>> /\ q.then = "end" /\ q.op \in {"none", "exit"}
      /\ cwd[p] \in Inums
  <2>1. q \in Locals /\ LocalsFit(q, "closing") /\ Alive(q, "closing", cwd[p], ofile[p])
    BY <1>1 DEF FilesTypeOK, ShapeInv
  <2>2. Place(q, "closing") = "closing"
    BY DEF Place, Iputs
  <2> QED
    BY <2>1, <2>2 DEF LocalsFit, Alive, FilesTypeOK
<1>3. Place(q, "iput") = "end" /\ Place(q, "closing") = "closing"
  BY <1>2 DEF Place, Iputs
<1>4. /\ PlaceFit(q, "end")
      /\ \A i : PlaceCount(q, "end", i) = 0 /\ PlaceCount(q, "closing", i) = 0
  BY <1>2, EndPlace
<1>5. LocalsFit(q, "iput") /\ "iput" \in Points
  BY <1>2, <1>3, <1>4 DEF LocalsFit, Iputs, Points
<1>6. Moves(p) /\ r'[p] = q /\ pc'[p] = "iput"
  BY <1>1, <1>2, <1>5, Going
<1>7. \A i : HeldCount(r'[p], pc'[p], i) = HeldCount(r[p], pc[p], i)
  BY <1>1, <1>3, <1>4, <1>6 DEF HeldCount
<1>8. Alive(r'[p], pc'[p], cwd[p], ofile[p])
  BY <1>2, Basics DEF Alive
<1>9. Quiet(p)
  BY <1>6, <1>7, <1>8 DEF Quiet, Closing, FilesTypeOK
<1> QED
  BY <1>9, QuietIsSound

LEMMA ExitSound ==
  ASSUME FilesTypeOK, ShapeInv, NEW p \in Procs, Exit(p) \/ EndOp(p)
  PROVE  Sound(p)
<1> DEFINE gone == [NoLocals EXCEPT !.op = "exit"]
<1>1. pc[p] \in {"user", "end"}
  BY DEF Exit, EndOp
<1>2. (\A i : HeldCount(r[p], pc[p], i) = 0) /\ (cwd[p] = 0 => ofile[p] = 0)
  BY <1>1, Resting
<1>3. /\ NoLocals \in Locals /\ NoLocals.put = <<>> /\ NoLocals.op = "none"
      /\ gone \in Locals /\ gone.put = <<>> /\ gone.op = "exit" /\ gone.then = "end"
  BY Basics DEF NoLocals, Locals, Thens
<1> HIDE DEF gone
<1>4. \/ Goto(p, "user", NoLocals)
      \/ Goto(p, "exit", gone) /\ cwd[p] # 0
  BY DEF Exit, EndOp, gone
<1>5. /\ Moves(p) /\ (pc'[p] = "user" \/ cwd[p] # 0)
      /\ \A i : HeldCount(r'[p], pc'[p], i) = 0
  <2>1. CASE Goto(p, "user", NoLocals)
    <3>1. LocalsFit(NoLocals, "user") /\ "user" \in Points /\ \A i : HeldCount(NoLocals, "user", i) = 0
      BY <1>3, AtRest
    <3>2. Moves(p) /\ r'[p] = NoLocals /\ pc'[p] = "user"
      BY <1>3, <2>1, <3>1, Going
    <3> QED
      BY <3>1, <3>2
  <2>2. CASE Goto(p, "exit", gone) /\ cwd[p] # 0
    <3>1. LocalsFit(gone, "exit") /\ "exit" \in Points /\ \A i : HeldCount(gone, "exit", i) = 0
      BY <1>3, AtRest
    <3>2. Moves(p) /\ r'[p] = gone /\ pc'[p] = "exit"
      BY <1>3, <2>2, <3>1, Going
    <3> QED
      BY <2>2, <3>1, <3>2
  <2> QED
    BY <1>4, <2>1, <2>2
<1>6. Alive(r'[p], pc'[p], cwd[p], ofile[p])
  BY <1>2, <1>5 DEF Alive
<1>7. /\ UNCHANGED <<dino, icache, ftable, ofile, cwd>> /\ (stable' = stable \/ stable' = dino)
  BY DEF Exit, EndOp
<1>8. \A i \in Inums :
         icache'[i].ref + HeldCount(r[p], pc[p], i) = icache[i].ref + HeldCount(r'[p], pc'[p], i)
  BY <1>2, <1>5, <1>7
<1>9. Quiet(p)
  BY <1>5, <1>6, <1>7, <1>8 DEF Quiet, FilesTypeOK
<1> QED
  BY <1>9, QuietIsSound

LEMMA ExitCwdSound ==
  ASSUME FilesTypeOK, ShapeInv, NEW p \in Procs, ExitCwd(p)
  PROVE  Sound(p)
<1> DEFINE s == <<cwd[p]>>
<1>1. pc[p] = "exit" /\ ofile[p] = 0
  BY DEF ExitCwd
<1>2. /\ cwd[p] \in Inums /\ r[p].op = "exit" /\ \A i : HeldCount(r[p], pc[p], i) = 0
  BY <1>1, Resting
<1>3. s \in Seq(Inums) /\ s # <<>> /\ (\A i : Occ(s, i) = One(cwd[p], i)) /\ Put(p, s, "end")
  BY <1>2, OccOne DEF ExitCwd
<1> HIDE DEF s
<1>4. PlaceFit(r[p], "end") /\ \A i : PlaceCount(r[p], "end", i) = 0
  BY EndPlace
<1>5. /\ Moves(p) /\ pc'[p] = "iput" /\ r'[p].op = "exit" /\ r'[p].then = "end"
      /\ \A i : HeldCount(r'[p], pc'[p], i) = Occ(s, i) + PlaceCount(r[p], "end", i)
  BY <1>2, <1>3, <1>4, Putting DEF Thens
<1>6. /\ cwd' \in [Procs -> Inums \cup {0}] /\ cwd'[p] = 0 /\ \A t \in Procs \ {p} : cwd'[t] = cwd[t]
      /\ UNCHANGED <<dino, stable, icache, ftable, ofile>>
  BY DEF FilesTypeOK, ExitCwd
<1>7. FilesTypeOK'
  BY <1>5, <1>6 DEF FilesTypeOK, Moves
<1>8. Alive(r'[p], pc'[p], cwd'[p], ofile'[p])
  <2>1. Place(r'[p], pc'[p]) = "end"
    BY <1>5 DEF Place, Iputs
  <2> QED
    BY <1>1, <1>5, <1>6, <2>1 DEF Alive
<1>9. \A f \in Fds : /\ ftable'[f].ip = 0 <=> ftable'[f].ref = 0
                     /\ ftable'[f].ref = ftable[f].ref + One(ofile'[p], f) - One(ofile[p], f)
  <2>1. \A f \in Fds : (ftable[f].ip = 0 <=> ftable[f].ref = 0) /\ ftable[f].ref \in Int
    BY DEF ShapeInv, FilesTypeOK, File
  <2>2. \A f : One(ofile[p], f) \in Nat
    BY OneType
  <2> QED
    BY <1>6, <2>1, <2>2
<1>10. PICK g \in Fds : TRUE
  BY Basics
<1>11. ASSUME NEW i \in Inums PROVE Balanced(p, g, i)
  <2>1. One(cwd[p], i) \in Nat /\ One(ftable[g].ip, i) \in Nat /\ One(cwd'[p], i) = 0
    BY <1>6, OneType, Basics DEF One
  <2>2. HeldCount(r'[p], pc'[p], i) = One(cwd[p], i) + 0 /\ HeldCount(r[p], pc[p], i) = 0
    BY <1>2, <1>3, <1>4, <1>5
  <2>3. icache'[i].ref = icache[i].ref /\ icache[i].ref \in Int /\ ftable'[g].ip = ftable[g].ip
    BY <1>6 DEF FilesTypeOK, CacheEntry
  <2> QED
    BY <2>1, <2>2, <2>3 DEF Balanced
<1> QED
  BY <1>5, <1>6, <1>7, <1>8, <1>9, <1>10, <1>11 DEF Sound

\* The child's step: it gets its parent's descriptor and directory.
LEMMA ForkSound ==
  ASSUME FilesCondition, FilesInv, NEW p \in Procs, NEW q \in Procs, Fork(p, q)
  PROVE  Sound(q)
<1> DEFINE d == ofile[p]
<1>1. FilesTypeOK /\ ShapeInv /\ RefsArePointers
  BY DEF FilesInv
<1>2. pc[q] = "user" /\ cwd[q] = 0 /\ cwd[p] \in Inums /\ cwd[p] # 0 /\ d \in Fds \cup {0}
  BY <1>1 DEF Fork, FilesTypeOK
<1>3. ofile[q] = 0
  BY <1>1, <1>2, Resting
<1>4. UNCHANGED <<dino, stable, pc, r>> /\ icache' = Iget(icache, cwd[p])
  BY DEF Fork
<1>5. /\ cwd' \in [Procs -> Inums \cup {0}] /\ cwd'[q] = cwd[p] /\ \A t \in Procs \ {q} : cwd'[t] = cwd[t]
      /\ ofile' \in [Procs -> Fds \cup {0}] /\ ofile'[q] = d /\ \A t \in Procs \ {q} : ofile'[t] = ofile[t]
  BY <1>1, <1>2 DEF FilesTypeOK, Fork
<1>6. /\ icache' \in [Inums -> CacheEntry]
      /\ \A i \in Inums : icache'[i].ref = icache[i].ref + One(cwd[p], i)
  BY <1>1, <1>2, <1>4, IgetIs DEF FilesTypeOK
<1>7. Moves(q)
  BY <1>1, <1>4 DEF FilesTypeOK, ShapeInv, Moves
<1>8. ASSUME NEW f \in Fds
      PROVE  /\ ftable'[f] \in File /\ ftable'[f].ip = ftable[f].ip
             /\ ftable'[f].ip = 0 <=> ftable'[f].ref = 0
             /\ ftable'[f].ref = ftable[f].ref + One(ofile'[q], f) - One(ofile[q], f)
  <2>1. One(ofile[q], f) = 0 /\ One(ofile'[q], f) = One(d, f)
    BY <1>1, <1>3, <1>5, Basics DEF One
  <2>2. ftable[f] \in File /\ ftable[f].ref \in Int /\ (ftable[f].ip = 0 <=> ftable[f].ref = 0)
    BY <1>1 DEF FilesTypeOK, File, ShapeInv
  <2>3. CASE f = d
    <3> DEFINE n == ftable[f].ref + 1
               new == [ftable[f] EXCEPT !.ref = n]
    <3>1. ftable[f].ref \in Nat \ {0}
      BY <1>1, <2>3, FdRef, Basics
    <3>2. n \in Int /\ n # 0
      BY <3>1
    <3>3. ftable'[f] = new
      BY <2>3 DEF Fork
    <3> HIDE DEF n
    <3>4. new \in File /\ new.ref = n /\ new.ip = ftable[f].ip
      BY <2>2, <3>2 DEF File
    <3>5. One(d, f) = 1 /\ ftable[f].ref # 0
      BY <2>3, <3>1 DEF One
    <3> HIDE DEF new, d
    <3> QED
      BY <2>1, <2>2, <3>2, <3>3, <3>4, <3>5 DEF n
  <2>4. CASE f # d
    <3>1. ftable'[f] = ftable[f]
      BY <2>4 DEF Fork
    <3>2. One(d, f) = 0
      BY <2>4 DEF One
    <3> HIDE DEF d
    <3> QED
      BY <2>1, <2>2, <3>1, <3>2
  <2> QED
    BY <2>3, <2>4
<1>9. ftable' \in [Fds -> File]
  <2>1. ftable' = [f \in Fds |-> ftable'[f]]
    BY DEF Fork
  <2> QED
    BY <1>8, <2>1
<1>10. FilesTypeOK'
  BY <1>1, <1>4, <1>5, <1>6, <1>9 DEF FilesTypeOK
<1>11. Alive(r'[q], pc'[q], cwd'[q], ofile'[q])
  BY <1>2, <1>5 DEF Alive
<1>12. PICK g \in Fds : TRUE
  BY <1>1, Basics
<1>13. ASSUME NEW i \in Inums PROVE Balanced(q, g, i)
  <2>1. One(cwd[p], i) \in Nat /\ One(ftable[g].ip, i) \in Nat /\ One(cwd[q], i) = 0
    BY <1>1, <1>2, OneType, Basics DEF One
  <2>2. HeldCount(r'[q], pc'[q], i) = HeldCount(r[q], pc[q], i) /\ HeldCount(r[q], pc[q], i) \in Nat
    BY <1>1, <1>4, HeldCountType DEF FilesTypeOK
  <2>3. /\ icache'[i].ref = icache[i].ref + One(cwd[p], i) /\ icache[i].ref \in Int
        /\ ftable'[g].ip = ftable[g].ip /\ cwd'[q] = cwd[p]
    BY <1>1, <1>5, <1>6, <1>8 DEF FilesTypeOK, CacheEntry
  <2> QED
    BY <2>1, <2>2, <2>3 DEF Balanced
<1> QED
  BY <1>5, <1>7, <1>8, <1>10, <1>11, <1>12, <1>13 DEF Sound

\* The beginning of a call: what the user program passes is a path.
LEMMA CallSound ==
  ASSUME FilesTypeOK, ShapeInv, NEW p \in Procs, NEW op \in CallOps, NEW path, NEW new,
         Elements(path) \in Seq(Dots), new \in Seq(Names \cup {"..", "/"}),
         op = "link" => Elements(new) \in Seq(Dots), Call(p, op, path, new)
  PROVE  Sound(p)
<1> DEFINE l == [NoLocals EXCEPT !.op = op, !.new = new]
           parent == op \notin {"open", "chdir", "link"}
           x == Start(p, path)
<1>1. pc[p] = "user" /\ cwd[p] \in Inums
  BY DEF Call, FilesTypeOK
<1>2. \A i : HeldCount(r[p], pc[p], i) = 0
  BY <1>1, Resting
<1>3. l \in Locals /\ l.put = <<>> /\ l.op = op /\ l.new = new
  BY Basics DEF NoLocals, Locals
<1>4. WalkFrom(p, l, path, parent)
  BY DEF Call
<1> HIDE DEF l
<1>5. CanWalk(l, path, parent)
  BY <1>3 DEF CanWalk
<1> HIDE DEF parent
<1>6. PICK w \in Locals : /\ Goto(p, "walk", w) /\ LocalsFit(w, "walk")
                          /\ \A i : HeldCount(w, "walk", i) = WalkCount(p, l, path, parent, i)
  BY <1>1, <1>4, <1>5, Walking
<1>7. x \in Inums
  BY <1>1, StartIs
<1>8. \A i : HeldCount(w, "walk", i) = One(x, i)
  <2>1. ~(l.op = "link" /\ parent)
    BY <1>3 DEF parent
  <2> QED
    BY <1>6, <2>1, OneType DEF WalkCount
<1>9. Moves(p) /\ r'[p] = w /\ pc'[p] = "walk"
  BY <1>6, Going DEF Points, Thens
<1>10. Alive(r'[p], pc'[p], cwd[p], ofile[p])
  BY <1>1, Basics DEF Alive
<1>11. UNCHANGED <<dino, stable, ftable, ofile, cwd>> /\ icache' = Iget(icache, x)
  BY DEF Call
<1> HIDE DEF x
<1>12. /\ icache' \in [Inums -> CacheEntry]
       /\ \A i \in Inums : icache'[i].ref = icache[i].ref + One(x, i)
  BY <1>7, <1>11, IgetIs DEF FilesTypeOK
<1>13. ASSUME NEW i \in Inums
       PROVE  icache'[i].ref + HeldCount(r[p], pc[p], i) = icache[i].ref + HeldCount(r'[p], pc'[p], i)
  <2>1. /\ icache'[i].ref = icache[i].ref + One(x, i) /\ icache[i].ref \in Int /\ One(x, i) \in Nat
        /\ HeldCount(r[p], pc[p], i) = 0 /\ HeldCount(r'[p], pc'[p], i) = One(x, i)
    BY <1>2, <1>8, <1>9, <1>12, OneType DEF FilesTypeOK, CacheEntry
  <2> QED
    BY <2>1
<1>14. Quiet(p)
  BY <1>9, <1>10, <1>11, <1>12, <1>13 DEF Quiet, FilesTypeOK
<1> QED
  BY <1>14, QuietIsSound
-----------------------------------------------------------------------------
\* After a boot one pointer exists, the current directory of the first process.
Boot ==
  /\ dino \in [Inums -> Inode] /\ stable \in [Inums -> Inode]
  /\ icache = BootCache /\ ftable = BootFiles
  /\ ofile = [p \in Procs |-> 0] /\ cwd = BootCwd
  /\ pc = [p \in Procs |-> "user"] /\ r = [p \in Procs |-> NoLocals]

LEMMA BootTypes == Boot => FilesTypeOK
<1> SUFFICES ASSUME Boot PROVE FilesTypeOK
  OBVIOUS
<1>1. 1 \in Inums
  BY FilesConstants
<1>2. BootCache \in [Inums -> CacheEntry]
  <2>1. Uncached \in CacheEntry /\ [Uncached EXCEPT !.ref = 1] \in CacheEntry
    <3>1. Uncached \in CacheEntry
      BY DEF Uncached, CacheEntry, Types
    <3> QED
      BY <3>1, EntrySet
  <2> QED
    BY <2>1 DEF BootCache
<1>3. BootFiles \in [Fds -> File]
  BY DEF BootFiles, File
<1>4. BootCwd \in [Procs -> Inums \cup {0}]
  BY <1>1 DEF BootCwd, ROOTINO
<1>5. NoLocals \in Locals
  BY DEF NoLocals, Locals, Thens
<1> QED
  BY <1>2, <1>3, <1>4, <1>5 DEF Boot, FilesTypeOK, Points

LEMMA BootShape == Boot => ShapeInv
<1> SUFFICES ASSUME Boot PROVE ShapeInv
  OBVIOUS
<1>1. NoLocals.put = <<>> /\ NoLocals.op = "none"
  BY DEF NoLocals
<1>2. LocalsFit(NoLocals, "user")
  BY <1>1, AtRest
<1>3. \A p \in Procs : Alive(NoLocals, "user", cwd[p], 0)
  BY DEF Alive
<1>4. \A f \in Fds : ftable[f].ip = 0 /\ ftable[f].ref = 0
  BY DEF Boot, BootFiles
<1> QED
  BY <1>2, <1>3, <1>4 DEF Boot, ShapeInv

LEMMA BootCounts == Boot => RefsArePointers
<1> SUFFICES ASSUME Boot PROVE RefsArePointers
  OBVIOUS
<1>1. FilesTypeOK /\ ShapeInv
  BY BootTypes, BootShape
<1>2. ASSUME NEW i \in Inums
      PROVE  icache[i].ref = Cardinality({p \in Procs : cwd[p] = i})
                             + Cardinality({f \in Fds : ftable[f].ip = i})
                             + Cardinality(At(Seqs, Procs, i))
  <2> DEFINE D == {p \in Procs : cwd[p] = i}
             F == {f \in Fds : ftable[f].ip = i}
  <2>1. F = {}
    BY <1>1, Basics DEF Boot, BootFiles
  <2>2. At(Seqs, Procs, i) = {}
    <3>1. ASSUME NEW p \in Procs PROVE Where(Seqs[p], i) = {}
      <4>1. Seqs[p] = HeldSeq(r[p], pc[p]) /\ r[p] \in Locals /\ LocalsFit(r[p], pc[p]) /\ pc[p] = "user"
        BY <1>1 DEF Seqs, FilesTypeOK, ShapeInv, Boot
      <4>2. Seqs[p] \in Seq(Inums) /\ Occ(Seqs[p], i) = HeldCount(r[p], pc[p], i)
        BY <4>1, HeldSeqCount
      <4>3. HeldCount(r[p], pc[p], i) = 0
        BY <1>1, <4>1, Resting
      <4>4. IsFiniteSet(Where(Seqs[p], i))
        BY <4>2, WhereFinite
      <4> QED
        BY <4>2, <4>3, <4>4, FS_EmptySet DEF Occ
    <3> QED
      BY <3>1, AtIs
  <2>3. ASSUME i = ROOTINO
        PROVE  icache[i].ref = Cardinality(D) + Cardinality(F) + Cardinality(At(Seqs, Procs, i))
    <3>1. D = {1}
      BY <1>1, <2>3, Basics DEF Boot, BootCwd, Booted, ROOTINO
    <3>2. icache[i].ref = 1
      BY <2>3 DEF Boot, BootCache, Uncached
    <3>3. Cardinality(D) = 1 /\ Cardinality(F) = 0 /\ Cardinality(At(Seqs, Procs, i)) = 0
      BY <2>1, <2>2, <3>1, FS_EmptySet, FS_Singleton
    <3> HIDE DEF D, F
    <3> QED
      BY <3>2, <3>3
  <2>4. ASSUME i # ROOTINO
        PROVE  icache[i].ref = Cardinality(D) + Cardinality(F) + Cardinality(At(Seqs, Procs, i))
    <3>1. D = {}
      BY <1>1, <2>4, Basics DEF Boot, BootCwd
    <3>2. icache[i].ref = 0
      BY <2>4 DEF Boot, BootCache, Uncached
    <3>3. Cardinality(D) = 0 /\ Cardinality(F) = 0 /\ Cardinality(At(Seqs, Procs, i)) = 0
      BY <2>1, <2>2, <3>1, FS_EmptySet
    <3> HIDE DEF D, F
    <3> QED
      BY <3>2, <3>3
  <2> QED
    BY <2>3, <2>4
<1>3. ASSUME NEW f \in Fds
      PROVE  ftable[f].ref = Cardinality({p \in Procs : ofile[p] = f})
  <2>1. {p \in Procs : ofile[p] = f} = {} /\ ftable[f].ref = 0
    BY <1>1, Basics DEF Boot, BootFiles
  <2> QED
    BY <2>1, FS_EmptySet
<1> QED
  BY <1>2, <1>3, Pointers DEF RefsArePointers

LEMMA BootGood == Boot => FilesInv
BY BootTypes, BootShape, BootCounts DEF FilesInv
-----------------------------------------------------------------------------
\* Every step of a process is sound, for itself or for the child it forks.
LEMMA StepSound ==
  ASSUME FilesCondition, FilesInv, NEW p \in Procs, Step(p)
  PROVE  \E q \in Procs : Sound(q)
<1>1. FilesTypeOK /\ ShapeInv
  BY DEF FilesInv
<1>2. CASE Iput(p)
  BY <1>1, <1>2, IputLookSound, IputFreeSound, IputDropSound DEF Iput
<1>3. CASE Walk(p) \/ WalkEnd(p) \/ OpenFound(p) \/ OpenFile(p) \/ Bad(p) \/ Chdir(p)
  BY <1>1, <1>3, WalkSound, WalkEndSound, OpenFoundSound, OpenFileSound, BadSound, ChdirSound
<1>4. CASE Creation(p)
  BY <1>1, <1>4, CreateSound, CreateExistsSound, CreateEntrySound, MadeSound DEF Creation
<1>5. CASE Unlinking(p)
  BY <1>1, <1>5, UnlinkSound, UnlinkEntrySound, UnlinkInodeSound DEF Unlinking
<1>6. CASE Linking(p)
  BY <1>1, <1>6, LinkSound, LinkEntrySound, LinkBadSound DEF Linking
<1>7. CASE Leaving(p) \/ EndOp(p)
  BY <1>1, <1>7, CloseSound, ClosingSound, ExitSound, ExitCwdSound DEF Leaving
<1>8. CASE \E q \in Procs : Fork(p, q)
  BY <1>8, ForkSound
<1>9. CASE \E op \in {"open", "creat", "mkdir", "unlink", "chdir"}, path \in Paths :
             Call(p, op, path, <<>>)
  <2>1. PICK op \in {"open", "creat", "mkdir", "unlink", "chdir"}, path \in Paths :
          Call(p, op, path, <<>>)
    BY <1>9
  <2>2. Elements(path) \in Seq(Dots) /\ op \in CallOps /\ op # "link"
    BY DEF FilesCondition, CallOps
  <2>3. <<>> \in Seq(Names \cup {"..", "/"})
    OBVIOUS
  <2> QED
    BY <1>1, <2>1, <2>2, <2>3, CallSound
<1>10. CASE \E l \in Links : Call(p, "link", l[1], l[2])
  <2>1. PICK l \in Links : Call(p, "link", l[1], l[2])
    BY <1>10
  <2>2. Elements(l[1]) \in Seq(Dots) /\ Elements(l[2]) \in Seq(Dots)
    BY DEF FilesCondition
  <2>3. l[2] \in Seq(Names \cup {"..", "/"})
    BY FilesConstants
  <2> QED
    BY <1>1, <2>1, <2>2, <2>3, CallSound DEF CallOps
<1> QED
  BY <1>2, <1>3, <1>4, <1>5, <1>6, <1>7, <1>8, <1>9, <1>10 DEF Step

LEMMA RefsAlways == FilesCondition => (Spec => []FilesInv)
<1> SUFFICES ASSUME FilesCondition PROVE Spec => []FilesInv
  OBVIOUS
<1>1. Init => Boot
  BY DEF Init, Boot, FilesCondition
<1>2. Init => FilesInv
  BY <1>1, BootGood
<1>3. FilesInv /\ Crash => Boot'
  BY DEF FilesInv, FilesTypeOK, Crash, Boot
<1>4. Boot' => FilesInv'
  BY BootGood, PTL
<1>5. FilesInv /\ (\E p \in Procs : Step(p)) => FilesInv'
  BY StepSound, SoundStep
<1>6. FilesInv /\ UNCHANGED vars => FilesInv'
  <2> SUFFICES ASSUME FilesInv, UNCHANGED vars PROVE FilesInv'
    OBVIOUS
  <2>1. FilesTypeOK' /\ ShapeInv'
    BY DEF FilesInv, FilesTypeOK, ShapeInv, vars
  <2>2. \A p \in Procs : Held(p)' = Held(p)
    BY DEF Held, InIput, vars
  <2>3. RefsArePointers'
    BY <2>2 DEF FilesInv, RefsArePointers, vars
  <2> QED
    BY <2>1, <2>3 DEF FilesInv
<1>7. FilesInv /\ [Next]_vars => FilesInv'
  BY <1>3, <1>4, <1>5, <1>6 DEF Next
<1> QED
  BY <1>2, <1>7, PTL DEF Spec

\* ip->ref counts the pointers to the cached inode: the current directories, the
\* open files, and those in the local variables of the processes in iget ... iput,
\* namex and the system calls, their failures and crashes included; f->ref counts
\* the descriptors (fs.c iget, idup, iput; file.c filealloc, filedup, fileclose).
THEOREM RefsCountPointers == FilesCondition => (Spec => []RefsArePointers)
<1> SUFFICES ASSUME FilesCondition PROVE Spec => []RefsArePointers
  OBVIOUS
<1>1. FilesInv => RefsArePointers
  BY DEF FilesInv
<1> QED
  BY <1>1, RefsAlways, PTL
-----------------------------------------------------------------------------
\* The tree of directories.  What follows speaks of a disk d, a cache c and a set
\* F of inodes that create() has taken and not yet entered anywhere.
Attached(d, i) == i = ROOTINO \/ Entries(d, i) # {}

\* The directories whose ".." is a link of i.
Kids(d, i) == {c \in Inums \ {ROOTINO} : d[c].type = "dir" /\ Entries(d, c) # {} /\ d[c].ents[".."] = i}

\* Only directories have entries, and only those in the tree have names in them;
\* an entry of a directory is its only one and stands in its parent.
TreeShape(d) ==
  /\ d[ROOTINO].type = "dir" /\ d[ROOTINO].ents[".."] = ROOTINO
  /\ \A i \in Inums :
       /\ d[i].type # "dir" => \A n \in Dots : d[i].ents[n] = 0
       /\ d[i].type = "free" => d[i].nlink = 0
       /\ ~Attached(d, i) => \A n \in Names : d[i].ents[n] = 0
       /\ d[i].type = "dir" => \A e, f \in Entries(d, i) :
            i # ROOTINO /\ e = f /\ d[i].ents[".."] = e[1]

\* A link is an entry, the ".." of a subdirectory, the root's own, or one that a
\* call under way owes.
Counted(d, owed) == \A i \in Inums :
  d[i].nlink = Cardinality(Entries(d, i)) + Cardinality(Kids(d, i)) + One(ROOTINO, i)
                 + CountOf(owed, Procs, i)
NothingOwed == [p \in Procs |-> 0]

\* Inodes and names are finite in number, and a boot finds a file system.
TreeCondition ==
  /\ FilesCondition
  /\ IsFiniteSet(Inums) /\ IsFiniteSet(Names)
  /\ \A d \in Trees : TreeShape(d) /\ Counted(d, NothingOwed)

\* Between its two halves unlink() owes a link less, link() an entry.
Owes(q, place) == IF place = "nlink" \/ SecondHalf(q, place) THEN q.tgt ELSE 0
Owed == [p \in Procs |-> Owes(r[p], Place(r[p], pc[p]))]

Fresh == {r[p].tgt : p \in {p \in Procs : pc[p] = "created"}}
Settled(d, F, i) == d[i].type # "free" /\ i \notin F

CacheFits(c, d) == \A i \in Inums :
  /\ c[i].valid => c[i].type = d[i].type /\ c[i].nlink = d[i].nlink /\ d[i].type # "free"
  /\ c[i].lock # 0 => c[i].valid

\* What a process p with the locals q relies on at a place ...
PlaceUses(q, place) ==
  (IF place \in IpPoints THEN {q.ip} ELSE {})
    \cup (IF UsesTgt(q, place) /\ place # "created" THEN {q.tgt} ELSE {})
NewInode(op) == [Free EXCEPT !.type = IF op = "mkdir" THEN "dir" ELSE "file"]

PlaceHolds(d, c, F, p, q, place) ==
  /\ place \in {"openfile", "made", "nlink"} => c[q.tgt].lock = p
  /\ place \in {"created", "unlinkip", "bad"} => c[q.ip].lock = p
  /\ \A i \in PlaceUses(q, place) : Settled(d, F, i)
  /\ place \in {"create", "created", "unlink", "unlinkip", "linkentry"} => d[q.ip].type = "dir"
  /\ SecondHalf(q, place) => d[q.tgt].type = "file"
  /\ place = "created" => /\ Attached(d, q.ip) /\ Head(q.path) \in Names
                          /\ d[q.ip].ents[Head(q.path)] = 0 /\ d[q.tgt] = NewInode(q.op)
  /\ place = "unlinkip" => Head(q.path) \in Names /\ d[q.ip].ents[Head(q.path)] = q.tgt

\* ... and while it drops references: the one that "drop" is at may be gone.
PutHolds(d, c, F, p, q, at) ==
  /\ \A i \in ToSet(IF at = "drop" THEN Tail(q.put) ELSE q.put) : Settled(d, F, i)
  /\ at = "free" => LET i == Head(q.put) IN c[i].lock = p /\ c[i].ref <= 1 /\ d[i].nlink = 0

CallHolds(d, c, F, p, q, at) == PutHolds(d, c, F, p, q, at) /\ PlaceHolds(d, c, F, p, q, Place(q, at))

TreeInv ==
  /\ TreeShape(dino) /\ Counted(dino, Owed)
  /\ TreeShape(stable) /\ Counted(stable, NothingOwed)
  /\ CacheFits(icache, dino)
  /\ \A p \in Procs :
       /\ CallHolds(dino, icache, Fresh, p, r[p], pc[p])
       /\ pc[p] \notin {"user", "exit", "closing"} => p \in tx
       /\ cwd[p] # 0 => dino[cwd[p]].type = "dir" /\ Settled(dino, Fresh, cwd[p])
  /\ \A f \in Fds : ftable[f].ip # 0 => Settled(dino, Fresh, ftable[f].ip)
  /\ \A p, q \in Procs : pc[p] = "created" /\ pc[q] = "created" /\ r[p].tgt = r[q].tgt => p = q
-----------------------------------------------------------------------------
\* The entries and the subdirectories of an inode, counted as values of functions.
Spots == Inums \X Names
NameAt(d) == [e \in Spots |-> d[e[1]].ents[e[2]]]
ParentOf(d) == [c \in Inums |-> IF c # ROOTINO /\ d[c].type = "dir" /\ Entries(d, c) # {}
                                THEN d[c].ents[".."] ELSE 0]

LEMMA InumIs ==
  /\ ROOTINO \in Inums /\ 0 \notin Inums /\ 0 \notin Procs /\ ".." \in Dots /\ Names \subseteq Dots
  /\ ".." \notin Names
BY FilesConstants DEF ROOTINO, Dots

LEMMA EntryOf ==
  ASSUME NEW d, NEW i
  PROVE  \A j \in Inums, n \in Names : <<j, n>> \in Entries(d, i) <=> d[j].ents[n] = i
BY DEF Entries

LEMMA EntriesIn ==
  ASSUME NEW d, NEW i, NEW e \in Entries(d, i)
  PROVE  /\ e \in Spots /\ e[1] \in Inums /\ e[2] \in Names /\ d[e[1]].ents[e[2]] = i
         /\ NameAt(d)[e] = i /\ e = <<e[1], e[2]>>
BY DEF Entries, Spots, NameAt

LEMMA FiniteTree ==
  ASSUME TreeCondition
  PROVE  IsFiniteSet(Procs) /\ IsFiniteSet(Inums) /\ IsFiniteSet(Spots)
BY FS_Product DEF TreeCondition, FilesCondition, Spots

LEMMA Tallies ==
  ASSUME TreeCondition, NEW d, NEW i \in Inums
  PROVE  /\ IsFiniteSet(Entries(d, i)) /\ IsFiniteSet(Kids(d, i))
         /\ Cardinality(Entries(d, i)) = CountOf(NameAt(d), Spots, i)
         /\ Cardinality(Kids(d, i)) = CountOf(ParentOf(d), Inums, i)
         /\ CountOf(NameAt(d), Spots, i) \in Nat /\ CountOf(ParentOf(d), Inums, i) \in Nat
<1>1. Entries(d, i) = {e \in Spots : NameAt(d)[e] = i}
  BY DEF Entries, NameAt, Spots
<1>2. Kids(d, i) = {c \in Inums : ParentOf(d)[c] = i}
  BY InumIs DEF Kids, ParentOf
<1>3. IsFiniteSet(Entries(d, i)) /\ IsFiniteSet(Kids(d, i))
  BY <1>1, <1>2, FiniteTree, FS_Subset
<1> QED
  BY <1>1, <1>2, <1>3, FiniteTree, CountType DEF CountOf

LEMMA OwedCounts ==
  ASSUME TreeCondition, NEW owed, NEW i
  PROVE  /\ CountOf(owed, Procs, i) \in Nat
         /\ CountOf(owed, Procs, i) # 0 <=> \E p \in Procs : owed[p] = i
<1> DEFINE P == {p \in Procs : owed[p] = i}
<1>1. IsFiniteSet(P) /\ Cardinality(P) \in Nat
  BY FiniteTree, FS_Subset, FS_CardinalityType
<1>2. Cardinality(P) = 0 <=> P = {}
  BY <1>1, FS_EmptySet
<1> QED
  BY <1>1, <1>2 DEF CountOf

\* What is counted is not zero.
LEMMA NamedCounts ==
  ASSUME TreeCondition, NEW d, NEW i \in Inums
  PROVE  /\ CountOf(NameAt(d), Spots, i) # 0 <=> Entries(d, i) # {}
         /\ CountOf(ParentOf(d), Inums, i) # 0 <=> Kids(d, i) # {}
<1>1. Cardinality(Entries(d, i)) = 0 <=> Entries(d, i) = {}
  BY Tallies, FS_EmptySet
<1>2. Cardinality(Kids(d, i)) = 0 <=> Kids(d, i) = {}
  BY Tallies, FS_EmptySet
<1> QED
  BY <1>1, <1>2, Tallies

\* One name, one subdirectory and one debt change.
LEMMA CountedStep ==
  ASSUME TreeCondition, NEW d, NEW d2, NEW owed, NEW owed2, Counted(d, owed),
         \A i \in Inums : d[i].nlink \in Int,
         NEW e \in Spots, \A f \in Spots \ {e} : NameAt(d2)[f] = NameAt(d)[f],
         NEW c \in Inums, \A x \in Inums \ {c} : ParentOf(d2)[x] = ParentOf(d)[x],
         NEW p \in Procs, \A x \in Procs \ {p} : owed2[x] = owed[x],
         \A i \in Inums : d2[i].nlink =
           d[i].nlink - One(NameAt(d)[e], i) + One(NameAt(d2)[e], i)
                      - One(ParentOf(d)[c], i) + One(ParentOf(d2)[c], i)
                      - One(owed[p], i) + One(owed2[p], i)
  PROVE  Counted(d2, owed2)
<1> SUFFICES ASSUME NEW i \in Inums
             PROVE  d2[i].nlink = Cardinality(Entries(d2, i)) + Cardinality(Kids(d2, i)) + One(ROOTINO, i)
                                    + CountOf(owed2, Procs, i)
  BY DEF Counted
<1>1. /\ OnlyAt(NameAt(d), NameAt(d2), Spots, e) /\ OnlyAt(ParentOf(d), ParentOf(d2), Inums, c)
      /\ OnlyAt(owed, owed2, Procs, p)
  BY FiniteTree DEF OnlyAt
<1>2. CountOf(NameAt(d2), Spots, i) = CountOf(NameAt(d), Spots, i) - One(NameAt(d)[e], i) + One(NameAt(d2)[e], i)
  BY <1>1, CountChange
<1>3. CountOf(ParentOf(d2), Inums, i)
        = CountOf(ParentOf(d), Inums, i) - One(ParentOf(d)[c], i) + One(ParentOf(d2)[c], i)
  BY <1>1, CountChange
<1>4. CountOf(owed2, Procs, i) = CountOf(owed, Procs, i) - One(owed[p], i) + One(owed2[p], i)
  BY <1>1, CountChange
<1>5. /\ Cardinality(Entries(d, i)) = CountOf(NameAt(d), Spots, i)
      /\ Cardinality(Kids(d, i)) = CountOf(ParentOf(d), Inums, i)
      /\ Cardinality(Entries(d2, i)) = CountOf(NameAt(d2), Spots, i)
      /\ Cardinality(Kids(d2, i)) = CountOf(ParentOf(d2), Inums, i)
      /\ CountOf(NameAt(d), Spots, i) \in Nat /\ CountOf(ParentOf(d), Inums, i) \in Nat
      /\ CountOf(owed, Procs, i) \in Nat
  BY Tallies, OwedCounts
<1>6. d[i].nlink = Cardinality(Entries(d, i)) + Cardinality(Kids(d, i)) + One(ROOTINO, i) + CountOf(owed, Procs, i)
  BY DEF Counted
<1>7. d2[i].nlink =
           d[i].nlink - One(NameAt(d)[e], i) + One(NameAt(d2)[e], i)
                      - One(ParentOf(d)[c], i) + One(ParentOf(d2)[c], i)
                      - One(owed[p], i) + One(owed2[p], i)
  OBVIOUS
<1>8. /\ One(NameAt(d)[e], i) \in Nat /\ One(NameAt(d2)[e], i) \in Nat /\ One(owed[p], i) \in Nat
      /\ One(ParentOf(d)[c], i) \in Nat /\ One(ParentOf(d2)[c], i) \in Nat /\ One(owed2[p], i) \in Nat
      /\ One(ROOTINO, i) \in Nat
  BY OneType
<1> QED
  BY ONLY <1>2, <1>3, <1>4, <1>5, <1>6, <1>7, <1>8

\* Nothing else than the names, types and ".." of inodes makes the tree.
LEMMA EntriesSame ==
  ASSUME NEW d, NEW d2, \A e \in Spots : NameAt(d2)[e] = NameAt(d)[e]
  PROVE  \A i : Entries(d2, i) = Entries(d, i)
<1>1. \A x, i : Entries(x, i) = {e \in Spots : NameAt(x)[e] = i}
  BY DEF Entries, NameAt, Spots
<1> QED
  BY <1>1

LEMMA TreeSame ==
  ASSUME NEW d, NEW d2, TreeShape(d),
         \A i \in Inums : d2[i].type = d[i].type /\ d2[i].ents = d[i].ents,
         \A i \in Inums : d2[i].type = "free" => d2[i].nlink = 0
  PROVE  /\ TreeShape(d2) /\ \A i : Entries(d2, i) = Entries(d, i) /\ (Attached(d2, i) <=> Attached(d, i))
         /\ \A e \in Spots : NameAt(d2)[e] = NameAt(d)[e]
         /\ \A c \in Inums : ParentOf(d2)[c] = ParentOf(d)[c]
<1>1. \A e \in Spots : NameAt(d2)[e] = NameAt(d)[e]
  BY DEF NameAt, Spots
<1>2. \A i : Entries(d2, i) = Entries(d, i)
  BY <1>1, EntriesSame
<1>3. \A i : Attached(d2, i) <=> Attached(d, i)
  BY <1>2 DEF Attached
<1>4. \A c \in Inums : ParentOf(d2)[c] = ParentOf(d)[c]
  BY <1>2 DEF ParentOf
<1>5. TreeShape(d2)
  BY <1>2, <1>3, InumIs DEF TreeShape
<1> QED
  BY <1>1, <1>2, <1>3, <1>4, <1>5
-----------------------------------------------------------------------------
\* Three ways to change the tree.  An inode outside of it is allocated or freed.
LEMMA TreeReplace ==
  ASSUME NEW d \in [Inums -> Inode], NEW d2 \in [Inums -> Inode], TreeShape(d),
         NEW i \in Inums, ~Attached(d, i),
         \A j \in Inums \ {i} : d2[j] = d[j],
         \A n \in Dots : d2[i].ents[n] = 0,
         d2[i].nlink = 0
  PROVE  /\ TreeShape(d2) /\ \A x : Entries(d2, x) = Entries(d, x) /\ (Attached(d2, x) <=> Attached(d, x))
         /\ \A e \in Spots : NameAt(d2)[e] = NameAt(d)[e]
         /\ \A c \in Inums : ParentOf(d2)[c] = ParentOf(d)[c]
<1>1. ASSUME NEW j \in Inums, NEW n \in Names
      PROVE  d2[j].ents[n] = d[j].ents[n]
  <2>1. CASE j = i
    BY <2>1, InumIs DEF TreeShape
  <2> QED
    BY <2>1
<1>2. \A e \in Spots : NameAt(d2)[e] = NameAt(d)[e]
  BY <1>1 DEF NameAt, Spots
<1>3. \A x : Entries(d2, x) = Entries(d, x)
  BY <1>2, EntriesSame
<1>4. \A x : Attached(d2, x) <=> Attached(d, x)
  BY <1>3 DEF Attached
<1>5. i # ROOTINO /\ Entries(d, i) = {}
  BY DEF Attached
<1>6. \A c \in Inums : ParentOf(d2)[c] = ParentOf(d)[c]
  BY <1>3, <1>5 DEF ParentOf
<1>7. TreeShape(d2)
  <2>1. d2[ROOTINO] = d[ROOTINO]
    BY <1>5, InumIs
  <2>2. ASSUME NEW j \in Inums
        PROVE  /\ d2[j].type # "dir" => \A n \in Dots : d2[j].ents[n] = 0
               /\ d2[j].type = "free" => d2[j].nlink = 0
               /\ ~Attached(d2, j) => \A n \in Names : d2[j].ents[n] = 0
               /\ d2[j].type = "dir" => \A e, f \in Entries(d2, j) :
                    j # ROOTINO /\ e = f /\ d2[j].ents[".."] = e[1]
    <3>1. CASE j = i
      BY <1>3, <1>5, <3>1, InumIs
    <3>2. CASE j # i
      BY <1>3, <1>4, <3>2 DEF TreeShape
    <3> QED
      BY <3>1, <3>2
  <2> QED
    BY <2>1, <2>2 DEF TreeShape
<1> QED
  BY <1>2, <1>3, <1>4, <1>6, <1>7

\* From the tree d to d2, an entry for i is made in dp.
Enters(d, d2, dp, name, i) ==
  /\ d \in [Inums -> Inode] /\ d2 \in [Inums -> Inode] /\ TreeShape(d)
  /\ dp \in Inums /\ name \in Names /\ i \in Inums /\ i # dp /\ i # ROOTINO
  /\ Attached(d, dp) /\ d[dp].type = "dir" /\ d[dp].ents[name] = 0 /\ d[i].type # "free"
  /\ \A j \in Inums : d2[j].type = d[j].type
  /\ \A j \in Inums \ {dp, i} : d2[j] = d[j]
  /\ d2[dp].ents = [d[dp].ents EXCEPT ![name] = i]
  /\ \A n \in Names : d2[i].ents[n] = d[i].ents[n]
  /\ d[i].type = "dir" => Entries(d, i) = {} /\ d2[i].ents[".."] = dp
  /\ d[i].type # "dir" => d2[i].ents[".."] = 0

\* What that does to the tree: its shape stays, one name is added, and i gets its parent.
Entered(d, d2, dp, name, i) ==
  /\ TreeShape(d2)
  /\ \A x \in Inums : Attached(d, x) => Attached(d2, x)
  /\ \A e \in Spots \ {<<dp, name>>} : NameAt(d2)[e] = NameAt(d)[e]
  /\ NameAt(d)[<<dp, name>>] = 0 /\ NameAt(d2)[<<dp, name>>] = i
  /\ \A c \in Inums \ {i} : ParentOf(d2)[c] = ParentOf(d)[c]
  /\ ParentOf(d)[i] = 0 /\ ParentOf(d2)[i] = IF d[i].type = "dir" THEN dp ELSE 0

LEMMA TreeEnter ==
  ASSUME NEW d, NEW d2, NEW dp, NEW name, NEW i, Enters(d, d2, dp, name, i)
  PROVE  Entered(d, d2, dp, name, i)
<1>a. /\ d \in [Inums -> Inode] /\ d2 \in [Inums -> Inode] /\ TreeShape(d)
      /\ dp \in Inums /\ name \in Names /\ i \in Inums /\ i # dp /\ i # ROOTINO
      /\ Attached(d, dp) /\ d[dp].type = "dir" /\ d[dp].ents[name] = 0 /\ d[i].type # "free"
      /\ \A j \in Inums : d2[j].type = d[j].type
      /\ \A j \in Inums \ {dp, i} : d2[j] = d[j]
      /\ d2[dp].ents = [d[dp].ents EXCEPT ![name] = i]
      /\ \A n \in Names : d2[i].ents[n] = d[i].ents[n]
      /\ d[i].type = "dir" => Entries(d, i) = {} /\ d2[i].ents[".."] = dp
      /\ d[i].type # "dir" => d2[i].ents[".."] = 0
  BY DEF Enters
<1> USE <1>a
<1> DEFINE spot == <<dp, name>>
<1>0. d[dp].ents \in [Dots -> Inums \cup {0}] /\ name \in Dots /\ ".." # name
  BY InumIs DEF Inode
<1>1. d2[dp].ents[name] = i /\ \A n \in Dots \ {name} : d2[dp].ents[n] = d[dp].ents[n]
  BY <1>0
<1>2. /\ \A e \in Spots \ {spot} : NameAt(d2)[e] = NameAt(d)[e]
      /\ NameAt(d)[spot] = 0 /\ NameAt(d2)[spot] = i /\ spot \in Spots
  <2>1. ASSUME NEW j \in Inums, NEW n \in Names, <<j, n>> # spot
        PROVE  d2[j].ents[n] = d[j].ents[n]
    <3>1. CASE j = dp
      BY <1>1, <2>1, <3>1, InumIs
    <3>2. CASE j # dp
      BY <3>2
    <3> QED
      BY <3>1, <3>2
  <2>2. \A e \in Spots : e = <<e[1], e[2]>> /\ e[1] \in Inums /\ e[2] \in Names
    BY DEF Spots
  <2>3. spot \in Spots /\ spot[1] = dp /\ spot[2] = name
    BY DEF Spots
  <2>4. \A y, e : e \in Spots => NameAt(y)[e] = y[e[1]].ents[e[2]]
    BY DEF NameAt
  <2> HIDE DEF spot
  <2>5. ASSUME NEW e \in Spots \ {spot} PROVE NameAt(d2)[e] = NameAt(d)[e]
    <3>1. d2[e[1]].ents[e[2]] = d[e[1]].ents[e[2]]
      BY <2>1, <2>2
    <3> QED
      BY <2>4, <3>1
  <2>6. NameAt(d)[spot] = d[dp].ents[name] /\ NameAt(d2)[spot] = d2[dp].ents[name]
    BY ONLY <2>3, <2>4
  <2> QED
    BY <1>1, <2>3, <2>5, <2>6
<1>3. \A x \in Inums : Entries(d2, x) = IF x = i THEN Entries(d, x) \cup {spot} ELSE Entries(d, x)
  <2>1. \A y, x : Entries(y, x) = {e \in Spots : NameAt(y)[e] = x}
    BY DEF Entries, NameAt, Spots
  <2> HIDE DEF spot
  <2>2. ASSUME NEW x \in Inums, NEW e
        PROVE  e \in Entries(d2, x) <=> e \in Entries(d, x) \/ (x = i /\ e = spot)
    BY <1>2, <2>1, InumIs
  <2> QED
    BY <2>2
<1> HIDE DEF spot
<1>4. \A x \in Inums : Attached(d, x) => Attached(d2, x)
  BY <1>3 DEF Attached
<1>5. \A x \in Inums \ {i} : Attached(d2, x) <=> Attached(d, x)
  BY <1>3 DEF Attached
<1>6. Attached(d2, i)
  BY <1>3 DEF Attached
<1>7. \A c \in Inums : c # i => d2[c].type = d[c].type /\ d2[c].ents[".."] = d[c].ents[".."]
  BY <1>0, <1>1, InumIs
<1>8. \A c \in Inums \ {i} : ParentOf(d2)[c] = ParentOf(d)[c]
  BY <1>3, <1>7 DEF ParentOf
<1>9. ParentOf(d)[i] = 0 /\ ParentOf(d2)[i] = IF d[i].type = "dir" THEN dp ELSE 0
  BY <1>3 DEF ParentOf
<1>10. TreeShape(d2)
  <2>1. d2[ROOTINO].type = "dir" /\ d2[ROOTINO].ents[".."] = ROOTINO
    BY <1>7, InumIs DEF TreeShape
  <2>2. ASSUME NEW j \in Inums
        PROVE  /\ d2[j].type # "dir" => \A n \in Dots : d2[j].ents[n] = 0
               /\ d2[j].type = "free" => d2[j].nlink = 0
               /\ ~Attached(d2, j) => \A n \in Names : d2[j].ents[n] = 0
               /\ d2[j].type = "dir" => \A e, f \in Entries(d2, j) :
                    j # ROOTINO /\ e = f /\ d2[j].ents[".."] = e[1]
    <3>1. CASE j = i
      <4>1. d2[j].type # "free"
        BY <3>1
      <4>2. d2[j].type # "dir" => \A n \in Dots : d2[j].ents[n] = 0
        BY <3>1, InumIs DEF TreeShape, Dots
      <4>3. d2[j].type = "dir" => Entries(d2, j) = {spot} /\ d2[j].ents[".."] = spot[1]
        BY <1>3, <3>1 DEF spot
      <4> QED
        BY <1>6, <3>1, <4>1, <4>2, <4>3
    <3>2. CASE j = dp
      BY <1>3, <1>5, <1>7, <3>2 DEF TreeShape
    <3>3. CASE j # i /\ j # dp
      BY <1>3, <1>5, <3>3 DEF TreeShape
    <3> QED
      BY <3>1, <3>2, <3>3
  <2> QED
    BY <2>1, <2>2 DEF TreeShape
<1> QED
  BY <1>2, <1>4, <1>8, <1>9, <1>10 DEF spot, Entered

\* From the tree d to d2, the entry for i in dp goes.
Leaves(d, d2, dp, name, i) ==
  /\ d \in [Inums -> Inode] /\ d2 \in [Inums -> Inode] /\ TreeShape(d)
  /\ dp \in Inums /\ name \in Names /\ i \in Inums /\ d[dp].ents[name] = i
  /\ d[i].type = "dir" => \A n \in Names : d[i].ents[n] = 0
  /\ \A j \in Inums : d2[j].type = d[j].type
  /\ \A j \in Inums \ {dp} : d2[j] = d[j]
  /\ d2[dp].ents = [d[dp].ents EXCEPT ![name] = 0]

\* What that does to the tree: its shape stays, one name and the parent of i are gone.
Left(d, d2, dp, name, i) ==
  /\ TreeShape(d2)
  /\ \A x \in Inums \ {i} : Attached(d, x) => Attached(d2, x)
  /\ \A e \in Spots \ {<<dp, name>>} : NameAt(d2)[e] = NameAt(d)[e]
  /\ <<dp, name>> \in Spots /\ NameAt(d)[<<dp, name>>] = i /\ NameAt(d2)[<<dp, name>>] = 0
  /\ \A c \in Inums \ {i} : ParentOf(d2)[c] = ParentOf(d)[c]
  /\ ParentOf(d)[i] = (IF d[i].type = "dir" THEN dp ELSE 0) /\ ParentOf(d2)[i] = 0

LEMMA TreeRemove ==
  ASSUME NEW d, NEW d2, NEW dp, NEW name, NEW i, Leaves(d, d2, dp, name, i)
  PROVE  Left(d, d2, dp, name, i)
<1>h. /\ d \in [Inums -> Inode] /\ d2 \in [Inums -> Inode] /\ TreeShape(d)
      /\ dp \in Inums /\ name \in Names /\ i \in Inums /\ d[dp].ents[name] = i
      /\ d[i].type = "dir" => \A n \in Names : d[i].ents[n] = 0
      /\ \A j \in Inums : d2[j].type = d[j].type
      /\ \A j \in Inums \ {dp} : d2[j] = d[j]
      /\ d2[dp].ents = [d[dp].ents EXCEPT ![name] = 0]
  BY DEF Leaves
<1> USE <1>h
<1> DEFINE spot == <<dp, name>>
<1>0. d[dp].ents \in [Dots -> Inums \cup {0}] /\ name \in Dots /\ ".." # name
  BY InumIs DEF Inode
<1>1. d2[dp].ents[name] = 0 /\ \A n \in Dots \ {name} : d2[dp].ents[n] = d[dp].ents[n]
  BY <1>0
<1>a. d[dp].type = "dir"
  BY <1>0, InumIs DEF TreeShape
<1>2. /\ \A e \in Spots \ {spot} : NameAt(d2)[e] = NameAt(d)[e]
      /\ NameAt(d)[spot] = i /\ NameAt(d2)[spot] = 0 /\ spot \in Spots
  <2>1. ASSUME NEW j \in Inums, NEW n \in Names, <<j, n>> # spot
        PROVE  d2[j].ents[n] = d[j].ents[n]
    <3>1. CASE j = dp
      BY <1>1, <2>1, <3>1, InumIs
    <3>2. CASE j # dp
      BY <3>2
    <3> QED
      BY <3>1, <3>2
  <2>2. \A e \in Spots : e = <<e[1], e[2]>> /\ e[1] \in Inums /\ e[2] \in Names
    BY DEF Spots
  <2>3. spot \in Spots /\ spot[1] = dp /\ spot[2] = name
    BY DEF Spots
  <2>4. \A y, e : e \in Spots => NameAt(y)[e] = y[e[1]].ents[e[2]]
    BY DEF NameAt
  <2> HIDE DEF spot
  <2>5. ASSUME NEW e \in Spots \ {spot} PROVE NameAt(d2)[e] = NameAt(d)[e]
    <3>1. d2[e[1]].ents[e[2]] = d[e[1]].ents[e[2]]
      BY <2>1, <2>2
    <3> QED
      BY <2>4, <3>1
  <2>6. NameAt(d)[spot] = d[dp].ents[name] /\ NameAt(d2)[spot] = d2[dp].ents[name]
    BY ONLY <2>3, <2>4
  <2> QED
    BY <1>1, <2>3, <2>5, <2>6
<1>3. /\ \A x \in Inums : Entries(d2, x) = IF x = i THEN Entries(d, x) \ {spot} ELSE Entries(d, x)
      /\ spot \in Entries(d, i)
  <2>1. \A y, x : Entries(y, x) = {e \in Spots : NameAt(y)[e] = x}
    BY DEF Entries, NameAt, Spots
  <2> HIDE DEF spot
  <2> QED
    BY ONLY <1>2, <2>1, InumIs
<1>b. spot[1] = dp
  BY DEF spot
<1> HIDE DEF spot
<1>4. d[i].type = "dir" => Entries(d, i) = {spot} /\ i # ROOTINO /\ d[i].ents[".."] = dp /\ Entries(d2, i) = {}
  BY <1>3, <1>b DEF TreeShape
<1>5. \A x \in Inums \ {i} : Attached(d2, x) <=> Attached(d, x)
  BY <1>3 DEF Attached
<1>7. \A c \in Inums : d2[c].type = d[c].type /\ d2[c].ents[".."] = d[c].ents[".."]
  BY <1>0, <1>1, InumIs
<1>8. \A c \in Inums \ {i} : ParentOf(d2)[c] = ParentOf(d)[c]
  BY <1>3, <1>7 DEF ParentOf
<1>9. ParentOf(d)[i] = (IF d[i].type = "dir" THEN dp ELSE 0) /\ ParentOf(d2)[i] = 0
  BY <1>3, <1>4, <1>7 DEF ParentOf
<1>10. TreeShape(d2)
  <2>1. d2[ROOTINO].type = "dir" /\ d2[ROOTINO].ents[".."] = ROOTINO
    BY <1>7, InumIs DEF TreeShape
  <2>2. ASSUME NEW j \in Inums
        PROVE  /\ d2[j].type # "dir" => \A n \in Dots : d2[j].ents[n] = 0
               /\ d2[j].type = "free" => d2[j].nlink = 0
               /\ ~Attached(d2, j) => \A n \in Names : d2[j].ents[n] = 0
               /\ d2[j].type = "dir" => \A e, f \in Entries(d2, j) :
                    j # ROOTINO /\ e = f /\ d2[j].ents[".."] = e[1]
    <3>1. CASE j = dp
      <4>1. d2[j].type = "dir" /\ d2[j].type # "free"
        BY <1>a, <3>1
      <4>2. ~Attached(d2, j) => \A n \in Names : d2[j].ents[n] = 0
        <5> SUFFICES ASSUME ~Attached(d2, j), NEW n \in Names PROVE d2[j].ents[n] = 0
          OBVIOUS
        <5>1. CASE j = i
          BY <1>1, <1>a, <3>1, <5>1, InumIs
        <5>2. CASE j # i
          BY <1>1, <1>5, <3>1, <5>2, InumIs DEF TreeShape
        <5> QED
          BY <5>1, <5>2
      <4>3. \A e, f \in Entries(d2, j) : j # ROOTINO /\ e = f /\ d2[j].ents[".."] = e[1]
        BY <1>3, <1>7, <1>a, <3>1 DEF TreeShape
      <4> QED
        BY <4>1, <4>2, <4>3
    <3>2. CASE j # dp /\ j = i
      <4>1. d2[j] = d[j]
        BY <3>2
      <4>2. \A n \in Names : d2[j].ents[n] = 0
        BY <3>2, <4>1, InumIs DEF TreeShape
      <4>3. d2[j].type = "dir" => Entries(d2, j) = {}
        BY <1>4, <3>2
      <4> QED
        BY <4>1, <4>2, <4>3 DEF TreeShape
    <3>3. CASE j # i /\ j # dp
      BY <1>3, <1>5, <3>3 DEF TreeShape
    <3> QED
      BY <3>1, <3>2, <3>3
  <2> QED
    BY <2>1, <2>2 DEF TreeShape
<1> QED
  BY <1>2, <1>5, <1>8, <1>9, <1>10 DEF spot, Left
-----------------------------------------------------------------------------
\* What a process uses it has a reference to.
LEMMA PlaceUsesHeld ==
  ASSUME NEW q, NEW place, NEW i
  PROVE  /\ i \in PlaceUses(q, place) => PlaceCount(q, place, i) >= 1
         /\ place \in TgtPoints /\ i = q.tgt => PlaceCount(q, place, i) >= 1
         /\ place \in IpPoints /\ i = q.ip => PlaceCount(q, place, i) >= 1
<1>1. One(q.ip, i) \in Nat /\ One(q.tgt, i) \in Nat /\ One(i, i) = 1
  BY OneType DEF One
<1>2. /\ UsesTgt(q, place) /\ i = q.tgt => PlaceCount(q, place, i) >= 1
      /\ place \in IpPoints /\ i = q.ip => PlaceCount(q, place, i) >= 1
  BY <1>1 DEF PlaceCount
<1> QED
  BY <1>2 DEF PlaceUses, UsesTgt

LEMMA PutHeld ==
  ASSUME NEW S, NEW s \in Seq(S), NEW i \in ToSet(s)
  PROVE  Occ(s, i) >= 1
<1>1. Where(s, i) # {}
  BY DEF ToSet, Where
<1>2. IsFiniteSet(Where(s, i)) /\ Occ(s, i) \in Nat
  BY WhereFinite
<1>3. Occ(s, i) # 0
  BY <1>1, <1>2, FS_EmptySet DEF Occ
<1> QED
  BY <1>2, <1>3

LEMMA AtParts ==
  ASSUME NEW S, NEW T, IsFiniteSet(T), NEW h \in [T -> Seq(S)], NEW p \in T, NEW i
  PROVE  /\ Cardinality(At(h, T, i)) \in Nat
         /\ \A x \in T : Occ(h[x], i) \in Nat /\ Occ(h[x], i) <= Cardinality(At(h, T, i))
         /\ \A x \in T \ {p} : Occ(h[p], i) + Occ(h[x], i) <= Cardinality(At(h, T, i))
<1> DEFINE all == At(h, T, i)
<1>1. IsFiniteSet(all) /\ Cardinality(all) \in Nat
  <2>1. \A x \in T : h[x] \in Seq(S)
    OBVIOUS
  <2> QED
    BY <2>1, AtFinite
<1>2. ASSUME NEW x \in T
      PROVE  LET part == {x} \X Where(h[x], i) IN
               /\ part \subseteq all /\ IsFiniteSet(part) /\ Cardinality(part) = Occ(h[x], i)
               /\ Occ(h[x], i) \in Nat /\ Occ(h[x], i) <= Cardinality(all)
  <2> DEFINE part == {x} \X Where(h[x], i)
  <2>1. IsFiniteSet(Where(h[x], i)) /\ Occ(h[x], i) \in Nat
    BY WhereFinite
  <2>2. IsFiniteSet({x}) /\ Cardinality({x}) = 1
    BY FS_Singleton
  <2>3. IsFiniteSet(part) /\ Cardinality(part) = 1 * Occ(h[x], i)
    BY <2>1, <2>2, FS_Product DEF Occ
  <2>4. Cardinality(part) = Occ(h[x], i)
    BY <2>1, <2>3
  <2>5. part \subseteq all
    BY DEF At, Where
  <2> HIDE DEF part, all
  <2>6. Cardinality(part) <= Cardinality(all)
    BY <1>1, <2>5, FS_Subset
  <2> QED
    BY <2>1, <2>3, <2>4, <2>5, <2>6 DEF part
<1>3. ASSUME NEW x \in T \ {p} PROVE Occ(h[p], i) + Occ(h[x], i) <= Cardinality(all)
  <2> DEFINE P == {p} \X Where(h[p], i)
             X == {x} \X Where(h[x], i)
  <2>1. /\ P \subseteq all /\ IsFiniteSet(P) /\ Cardinality(P) = Occ(h[p], i) /\ Occ(h[p], i) \in Nat
        /\ X \subseteq all /\ IsFiniteSet(X) /\ Cardinality(X) = Occ(h[x], i) /\ Occ(h[x], i) \in Nat
    BY <1>2
  <2>2. P \cap X = {}
    OBVIOUS
  <2> HIDE DEF P, X, all
  <2>3. IsFiniteSet(P \cup X) /\ Cardinality(P \cup X) = Cardinality(P) + Cardinality(X) - Cardinality({})
    BY ONLY <2>1, <2>2, FS_Union
  <2>4. Cardinality({}) = 0
    BY FS_EmptySet
  <2>5. P \cup X \subseteq all
    BY <2>1
  <2>6. Cardinality(P \cup X) <= Cardinality(all)
    BY <1>1, <2>5, FS_Subset
  <2> QED
    BY <2>1, <2>3, <2>4, <2>6
<1> QED
  BY <1>1, <1>2, <1>3

\* i is nobody's but p's.
OnlyOf(p, i) ==
  /\ \A x \in Procs \ {p} : HeldCount(r[x], pc[x], i) = 0
  /\ \A x \in Procs : cwd[x] # i
  /\ \A f \in Fds : ftable[f].ip # i

LEMMA RefHeld ==
  ASSUME TreeCondition, FilesInv, NEW p \in Procs, NEW i \in Inums, HeldCount(r[p], pc[p], i) >= 1
  PROVE  /\ icache[i].ref \in Int /\ icache[i].ref >= 1
         /\ icache[i].ref <= 1 => OnlyOf(p, i) /\ HeldCount(r[p], pc[p], i) = 1
<1> DEFINE D == {x \in Procs : cwd[x] = i}
           F == {f \in Fds : ftable[f].ip = i}
           h == [x \in Procs |-> HeldSeq(r[x], pc[x])]
           H == Cardinality(At(h, Procs, i))
<1>0. FilesTypeOK /\ ShapeInv /\ RefsArePointers /\ FilesCondition
  BY DEF FilesInv, TreeCondition
<1>1. icache[i].ref = Cardinality(D) + Cardinality(F) + H
  BY <1>0, Pointers DEF RefsArePointers, Seqs
<1>2. IsFiniteSet(D) /\ IsFiniteSet(F) /\ Cardinality(D) \in Nat /\ Cardinality(F) \in Nat
  BY <1>0, Basics, FiniteTree, FS_Subset, FS_CardinalityType
<1>3. ASSUME NEW x \in Procs PROVE h[x] \in Seq(Inums) /\ Occ(h[x], i) = HeldCount(r[x], pc[x], i)
  <2>1. r[x] \in Locals /\ LocalsFit(r[x], pc[x])
    BY <1>0 DEF FilesTypeOK, ShapeInv
  <2> QED
    BY <2>1, HeldSeqCount
<1>4. h \in [Procs -> Seq(Inums)]
  BY <1>3
<1> HIDE DEF h, D, F
<1>5. /\ H \in Nat /\ \A x \in Procs : Occ(h[x], i) \in Nat /\ Occ(h[x], i) <= H
      /\ \A x \in Procs \ {p} : Occ(h[p], i) + Occ(h[x], i) <= H
  BY <1>4, FiniteTree, AtParts
<1> HIDE DEF H
<1>6. icache[i].ref \in Int /\ icache[i].ref >= 1 /\ H >= 1
  BY <1>1, <1>2, <1>3, <1>5
<1>7. ASSUME icache[i].ref <= 1
      PROVE  OnlyOf(p, i) /\ HeldCount(r[p], pc[p], i) = 1
  <2>1. Cardinality(D) = 0 /\ Cardinality(F) = 0 /\ H = 1
    BY <1>1, <1>2, <1>5, <1>6, <1>7
  <2>2. D = {} /\ F = {}
    BY <1>2, <2>1, FS_EmptySet
  <2>3. HeldCount(r[p], pc[p], i) = 1
    BY <1>3, <1>5, <2>1
  <2>4. \A x \in Procs \ {p} : HeldCount(r[x], pc[x], i) = 0
    BY <1>3, <1>5, <2>1, <2>3
  <2> QED
    BY <2>2, <2>3, <2>4 DEF OnlyOf, D, F
<1> QED
  BY <1>6, <1>7
-----------------------------------------------------------------------------
\* What the tree says about an inode that somebody is at.
LEMMA NlinkIs ==
  ASSUME TreeCondition, NEW d, NEW owed, Counted(d, owed), NEW i \in Inums
  PROVE  /\ Cardinality(Entries(d, i)) \in Nat /\ Cardinality(Kids(d, i)) \in Nat
         /\ One(ROOTINO, i) \in Nat /\ CountOf(owed, Procs, i) \in Nat
         /\ d[i].nlink = Cardinality(Entries(d, i)) + Cardinality(Kids(d, i)) + One(ROOTINO, i)
                           + CountOf(owed, Procs, i)
BY Tallies, OwedCounts, OneType DEF Counted

LEMMA AttachedLinks ==
  ASSUME TreeCondition, NEW d, NEW owed, TreeShape(d), Counted(d, owed),
         NEW i \in Inums, Attached(d, i)
  PROVE  d[i].nlink \in Int /\ d[i].nlink >= 1 /\ d[i].type # "free"
<1>1. i = ROOTINO => One(ROOTINO, i) = 1
  BY DEF One
<1>2. Entries(d, i) # {} => Cardinality(Entries(d, i)) # 0
  BY Tallies, FS_EmptySet
<1>a. /\ Cardinality(Entries(d, i)) \in Nat /\ Cardinality(Kids(d, i)) \in Nat
      /\ One(ROOTINO, i) \in Nat /\ CountOf(owed, Procs, i) \in Nat
      /\ d[i].nlink = Cardinality(Entries(d, i)) + Cardinality(Kids(d, i)) + One(ROOTINO, i)
                        + CountOf(owed, Procs, i)
  BY NlinkIs
<1>b. i = ROOTINO \/ Entries(d, i) # {}
  BY DEF Attached
<1>3. d[i].nlink \in Int /\ d[i].nlink >= 1
  BY ONLY <1>1, <1>2, <1>a, <1>b
<1> QED
  BY <1>3 DEF TreeShape

\* The parents of what has a parent.
LEMMA KidsAttached ==
  ASSUME NEW d, TreeShape(d), NEW i \in Inums, Kids(d, i) # {}
  PROVE  Attached(d, i)
<1>1. PICK c \in Inums \ {ROOTINO} : d[c].type = "dir" /\ Entries(d, c) # {} /\ d[c].ents[".."] = i
  BY DEF Kids
<1>2. PICK e \in Entries(d, c) : TRUE
  BY <1>1
<1>3. e[1] = i /\ e[2] \in Names /\ d[e[1]].ents[e[2]] = c
  BY <1>1, <1>2, EntriesIn DEF TreeShape
<1>4. d[i].ents[e[2]] # 0
  BY <1>1, <1>3, InumIs
<1> QED
  BY <1>3, <1>4 DEF TreeShape

\* Without debts, links are what holds an inode in the tree.
LEMMA LinkedIsAttached ==
  ASSUME TreeCondition, NEW d, NEW owed, TreeShape(d), Counted(d, owed),
         NEW i \in Inums, \A p \in Procs : owed[p] # i
  PROVE  d[i].nlink # 0 <=> Attached(d, i)
<1>1. CountOf(owed, Procs, i) = 0
  BY OwedCounts
<1>2. ASSUME ~Attached(d, i) PROVE d[i].nlink = 0
  <2>1. Entries(d, i) = {} /\ Kids(d, i) = {} /\ One(ROOTINO, i) = 0
    BY <1>2, KidsAttached DEF Attached, One
  <2>2. Cardinality(Entries(d, i)) = 0 /\ Cardinality(Kids(d, i)) = 0
    BY <2>1, FS_EmptySet
  <2>3. d[i].nlink = Cardinality(Entries(d, i)) + Cardinality(Kids(d, i)) + One(ROOTINO, i)
                     + CountOf(owed, Procs, i)
    BY NlinkIs
  <2> QED
    BY ONLY <1>1, <2>1, <2>2, <2>3
<1> QED
  BY <1>2, AttachedLinks

\* A name in a directory leads to an inode of the tree; a directory of the tree
\* has a parent, and it is a directory of the tree.
LEMMA NamedAttached ==
  ASSUME NEW d \in [Inums -> Inode], TreeShape(d), NEW i \in Inums, NEW n \in Dots, d[i].ents[n] # 0
  PROVE  n \in Names => d[i].ents[n] \in Inums /\ Attached(d, d[i].ents[n])
<1> SUFFICES ASSUME n \in Names PROVE d[i].ents[n] \in Inums /\ Attached(d, d[i].ents[n])
  OBVIOUS
<1>1. d[i].ents[n] \in Inums
  BY DEF Inode
<1>2. <<i, n>> \in Entries(d, d[i].ents[n])
  BY EntryOf
<1> QED
  BY <1>1, <1>2 DEF Attached

LEMMA ParentAttached ==
  ASSUME NEW d \in [Inums -> Inode], TreeShape(d), NEW i \in Inums, d[i].type = "dir", Attached(d, i)
  PROVE  d[i].ents[".."] \in Inums /\ Attached(d, d[i].ents[".."]) /\ d[d[i].ents[".."]].type = "dir"
<1>1. CASE i = ROOTINO
  BY <1>1, InumIs DEF TreeShape, Attached
<1>2. CASE i # ROOTINO
  <2>1. PICK e \in Entries(d, i) : TRUE
    BY <1>2 DEF Attached
  <2>2. e[1] \in Inums /\ e[2] \in Names /\ d[e[1]].ents[e[2]] = i /\ d[i].ents[".."] = e[1]
    BY <2>1, EntriesIn DEF TreeShape
  <2>3. d[e[1]].ents[e[2]] # 0 /\ e[2] \in Dots
    BY <2>2, InumIs
  <2>4. Attached(d, e[1])
    BY <2>2, <2>3 DEF TreeShape
  <2>5. d[e[1]].type = "dir"
    BY <2>2, <2>3 DEF TreeShape
  <2> QED
    BY <2>2, <2>4, <2>5
<1> QED
  BY <1>1, <1>2

\* ... in particular whatever a directory that has links leads to.
LEMMA EntryAttached ==
  ASSUME NEW d \in [Inums -> Inode], TreeShape(d), NEW i \in Inums, NEW n \in Dots,
         d[i].type = "dir", Attached(d, i), d[i].ents[n] # 0
  PROVE  d[i].ents[n] \in Inums /\ Attached(d, d[i].ents[n])
BY NamedAttached, ParentAttached DEF Dots

\* The places that owe a link.
LEMMA OwesAt ==
  ASSUME TreeInv, NEW x \in Procs, NEW i \in Inums, Owed[x] = i
  PROVE  icache[i].lock = x \/ dino[i].type = "file"
<1> DEFINE place == Place(r[x], pc[x])
<1>1. PlaceHolds(dino, icache, Fresh, x, r[x], place)
  BY DEF TreeInv, CallHolds
<1>2. i = Owes(r[x], place)
  BY DEF Owed
<1>3. i = r[x].tgt /\ (place = "nlink" \/ SecondHalf(r[x], place))
  BY <1>2, InumIs DEF Owes
<1> QED
  BY <1>1, <1>3 DEF PlaceHolds

\* A directory that nobody has locked is in the tree if it has a link.
LEMMA UnlockedAttached ==
  ASSUME TreeCondition, TreeInv, NEW i \in Inums, dino[i].type = "dir", icache[i].lock = 0
  PROVE  dino[i].nlink # 0 <=> Attached(dino, i)
<1>1. \A x \in Procs : Owed[x] # i
  BY OwesAt, InumIs
<1> QED
  BY <1>1, LinkedIsAttached DEF TreeInv

\* What the tree holds, is allocated.
LEMMA AttachedSettled ==
  ASSUME TreeCondition, TreeInv, NEW i \in Inums, Attached(dino, i)
  PROVE  Settled(dino, Fresh, i) /\ dino[i].nlink \in Int /\ dino[i].nlink >= 1
<1>1. dino[i].type # "free" /\ dino[i].nlink \in Int /\ dino[i].nlink >= 1
  BY AttachedLinks DEF TreeInv
<1>2. ASSUME i \in Fresh PROVE FALSE
  <2>1. PICK x \in Procs : pc[x] = "created" /\ r[x].tgt = i
    BY <1>2 DEF Fresh
  <2>2. PlaceHolds(dino, icache, Fresh, x, r[x], "created")
    BY <2>1 DEF TreeInv, CallHolds, Place, Iputs
  <2>3. dino[i].nlink = 0
    BY <2>1, <2>2 DEF PlaceHolds, NewInode, Free
  <2> QED
    BY <1>1, <2>3
<1> QED
  BY <1>1, <1>2 DEF Settled
-----------------------------------------------------------------------------
\* The cache: what p does to it leaves the locks of others alone.
LocksKept(p, c, c2) == \A i \in Inums :
  c[i].lock \notin {0, p} /\ c[i].ref >= 1 => c2[i].lock = c[i].lock

\* What iget leaves of an entry in use, and of one that nobody used.
LEMMA IgetEntry ==
  ASSUME NEW c \in [Inums -> CacheEntry], NEW x \in Inums, NEW j \in Inums
  PROVE  /\ c[j].ref # 0 => /\ Iget(c, x)[j].lock = c[j].lock /\ Iget(c, x)[j].valid = c[j].valid
                            /\ Iget(c, x)[j].type = c[j].type /\ Iget(c, x)[j].nlink = c[j].nlink
         /\ c[j].ref = 0 /\ j = x => ~Iget(c, x)[j].valid /\ Iget(c, x)[j].lock = 0
         /\ j # x => Iget(c, x)[j] = c[j]
<1>1. c[x] \in CacheEntry /\ Uncached \in CacheEntry
  BY DEF Uncached, CacheEntry, Types
<1>2. CASE c[x].ref = 0
  <2>1. Iget(c, x) = [c EXCEPT ![x] = [Uncached EXCEPT !.ref = 1]]
    BY <1>2 DEF Iget
  <2>2. ~[Uncached EXCEPT !.ref = 1].valid /\ [Uncached EXCEPT !.ref = 1].lock = 0
    BY DEF Uncached
  <2> QED
    BY <1>2, <2>1, <2>2
<1>3. CASE c[x].ref # 0
  <2> DEFINE e == [c[x] EXCEPT !.ref = c[x].ref + 1]
  <2>1. Iget(c, x) = [c EXCEPT ![x] = e]
    BY <1>3 DEF Iget
  <2>2. e.lock = c[x].lock /\ e.valid = c[x].valid /\ e.type = c[x].type /\ e.nlink = c[x].nlink
    BY <1>1 DEF CacheEntry
  <2> HIDE DEF e
  <2> QED
    BY <1>3, <2>1, <2>2
<1> QED
  BY <1>2, <1>3

LEMMA IgetFits ==
  ASSUME NEW c \in [Inums -> CacheEntry], NEW d, CacheFits(c, d), NEW x \in Inums
  PROVE  CacheFits(Iget(c, x), d)
<1> SUFFICES ASSUME NEW j \in Inums
             PROVE  /\ Iget(c, x)[j].valid => /\ Iget(c, x)[j].type = d[j].type
                                              /\ Iget(c, x)[j].nlink = d[j].nlink /\ d[j].type # "free"
                    /\ Iget(c, x)[j].lock # 0 => Iget(c, x)[j].valid
  BY DEF CacheFits
<1>1. CASE c[j].ref # 0
  BY <1>1, IgetEntry DEF CacheFits
<1>2. CASE c[j].ref = 0 /\ j = x
  BY <1>2, IgetEntry DEF CacheFits
<1>3. CASE j # x
  BY <1>3, IgetEntry DEF CacheFits
<1> QED
  BY <1>1, <1>2, <1>3

LEMMA IgetLocks ==
  ASSUME NEW c \in [Inums -> CacheEntry], NEW c2 \in [Inums -> CacheEntry], NEW x \in Inums, NEW p,
         LocksKept(p, c, c2), Alike(c, c2)
  PROVE  LocksKept(p, c, Iget(c2, x))
<1> SUFFICES ASSUME NEW i \in Inums, c[i].lock \notin {0, p}, c[i].ref >= 1
             PROVE  Iget(c2, x)[i].lock = c[i].lock
  BY DEF LocksKept
<1>1. c2[i].ref # 0 /\ c2[i].lock = c[i].lock
  BY DEF LocksKept, Alike, CacheEntry
<1> QED
  BY <1>1, IgetEntry

\* ilock by p, which then keeps the lock or has given it back.
LEMMA LoadedFits ==
  ASSUME FilesTypeOK, CacheFits(icache, dino), NEW i \in Inums, ~LoadPanics(i)
  PROVE  /\ Loaded(i).valid /\ Loaded(i).type = dino[i].type /\ Loaded(i).nlink = dino[i].nlink
         /\ Loaded(i).lock = icache[i].lock /\ dino[i].type # "free"
<1>1. icache[i] \in CacheEntry /\ dino[i] \in Inode
  BY DEF FilesTypeOK
<1> QED
  BY <1>1 DEF Loaded, LoadPanics, CacheFits, CacheEntry, Inode

LEMMA SetFits ==
  ASSUME NEW c \in [Inums -> CacheEntry], NEW d, CacheFits(c, d), NEW i \in Inums, NEW x,
         x.valid, x.type = d[i].type, x.nlink = d[i].nlink, d[i].type # "free"
  PROVE  CacheFits([c EXCEPT ![i] = x], d)
BY DEF CacheFits

LEMMA SetLocks ==
  ASSUME NEW c \in [Inums -> CacheEntry], NEW i \in Inums, NEW x, NEW p \in Procs,
         c[i].lock = 0 \/ c[i].lock = p
  PROVE  LocksKept(p, c, [c EXCEPT ![i] = x])
BY DEF LocksKept

\* Both of them at an ilock: the entry is loaded and its lock is p or free.
LEMMA IlockEntry ==
  ASSUME FilesTypeOK, CacheFits(icache, dino), NEW p \in Procs, NEW i \in Inums,
         icache[i].lock = 0 \/ icache[i].lock = p, ~LoadPanics(i), NEW l \in Procs \cup {0}
  PROVE  /\ [Loaded(i) EXCEPT !.lock = l] \in CacheEntry
         /\ Alike(icache, [icache EXCEPT ![i] = [Loaded(i) EXCEPT !.lock = l]])
         /\ CacheFits([icache EXCEPT ![i] = [Loaded(i) EXCEPT !.lock = l]], dino)
         /\ LocksKept(p, icache, [icache EXCEPT ![i] = [Loaded(i) EXCEPT !.lock = l]])
         /\ [Loaded(i) EXCEPT !.lock = l].lock = l
<1> DEFINE x == [Loaded(i) EXCEPT !.lock = l]
<1>1. Loaded(i) \in CacheEntry
  BY LoadedIs
<1>2. x \in CacheEntry /\ x.valid = Loaded(i).valid /\ x.type = Loaded(i).type
      /\ x.nlink = Loaded(i).nlink /\ x.lock = l
  BY <1>1 DEF CacheEntry
<1>3. x.valid /\ x.type = dino[i].type /\ x.nlink = dino[i].nlink /\ dino[i].type # "free"
  BY <1>2, LoadedFits
<1>4. Alike(icache, [icache EXCEPT ![i] = x])
  BY LoadedAlike
<1> HIDE DEF x
<1>5. icache \in [Inums -> CacheEntry]
  BY DEF FilesTypeOK
<1>6. CacheFits([icache EXCEPT ![i] = x], dino)
  BY <1>3, <1>5, SetFits
<1>7. LocksKept(p, icache, [icache EXCEPT ![i] = x])
  BY <1>5, SetLocks
<1> QED
  BY <1>2, <1>4, <1>6, <1>7 DEF x

LEMMA IlockPlain ==
  ASSUME FilesTypeOK, CacheFits(icache, dino), NEW p \in Procs, NEW i \in Inums,
         icache[i].lock = 0, ~LoadPanics(i)
  PROVE  /\ Alike(icache, [icache EXCEPT ![i] = Loaded(i)])
         /\ CacheFits([icache EXCEPT ![i] = Loaded(i)], dino)
         /\ LocksKept(p, icache, [icache EXCEPT ![i] = Loaded(i)])
         /\ Loaded(i).lock = 0
<1>1. icache \in [Inums -> CacheEntry]
  BY DEF FilesTypeOK
<1>2. /\ Loaded(i).valid /\ Loaded(i).type = dino[i].type /\ Loaded(i).nlink = dino[i].nlink
      /\ Loaded(i).lock = 0 /\ dino[i].type # "free"
  BY LoadedFits
<1>3. Alike(icache, [icache EXCEPT ![i] = Loaded(i)])
  BY LoadedAlike
<1>4. CacheFits([icache EXCEPT ![i] = Loaded(i)], dino)
  BY <1>1, <1>2, SetFits
<1>5. LocksKept(p, icache, [icache EXCEPT ![i] = Loaded(i)])
  BY <1>1, SetLocks
<1> QED
  BY <1>2, <1>3, <1>4, <1>5
-----------------------------------------------------------------------------
\* Frames: what keeps a process where it is, of an inode that it refers to.
Kept(d, c, F, d2, c2, F2, p, i) ==
  /\ c[i].lock = p => /\ c2[i].lock = p
                      /\ Attached(d, i) => Attached(d2, i)
                      /\ \A n \in Names : d2[i].ents[n] = d[i].ents[n]
  /\ d[i].type # "free" => d2[i].type = d[i].type
  /\ Settled(d, F, i) => Settled(d2, F2, i)

LEMMA PlaceKept ==
  ASSUME NEW d, NEW c, NEW F, NEW d2, NEW c2, NEW F2, NEW p, NEW q, NEW place,
         PlaceHolds(d, c, F, p, q, place), PlaceFit(q, place),
         \A i \in Inums : PlaceCount(q, place, i) >= 1 => Kept(d, c, F, d2, c2, F2, p, i),
         place = "created" => d2[q.tgt] = d[q.tgt]
  PROVE  PlaceHolds(d2, c2, F2, p, q, place)
<1>1. /\ place \in IpPoints => q.ip \in Inums
      /\ UsesTgt(q, place) => q.tgt \in Inums
  BY DEF PlaceFit
<1>2. place \in IpPoints => Kept(d, c, F, d2, c2, F2, p, q.ip)
  BY <1>1, PlaceUsesHeld
<1>3. UsesTgt(q, place) => Kept(d, c, F, d2, c2, F2, p, q.tgt)
  <2> SUFFICES ASSUME UsesTgt(q, place) PROVE PlaceCount(q, place, q.tgt) >= 1
    BY <1>1
  <2>1. One(q.ip, q.tgt) \in Nat /\ One(q.tgt, q.tgt) = 1
    BY OneType DEF One
  <2> QED
    BY <2>1 DEF PlaceCount
<1>4. \A i \in PlaceUses(q, place) : Settled(d2, F2, i)
  BY <1>2, <1>3 DEF PlaceHolds, PlaceUses, Kept
<1>5. /\ place \in {"openfile", "made", "nlink"} => c2[q.tgt].lock = p
      /\ place \in {"created", "unlinkip", "bad"} => c2[q.ip].lock = p
  <2>1. ASSUME place \in {"openfile", "made", "nlink"} PROVE c2[q.tgt].lock = p
    <3>1. UsesTgt(q, place) /\ c[q.tgt].lock = p
      BY <2>1 DEF PlaceHolds, UsesTgt, TgtPoints
    <3> QED
      BY <1>3, <3>1 DEF Kept
  <2>2. ASSUME place \in {"created", "unlinkip", "bad"} PROVE c2[q.ip].lock = p
    <3>1. place \in IpPoints /\ c[q.ip].lock = p
      BY <2>2 DEF PlaceHolds, IpPoints
    <3> QED
      BY <1>2, <3>1 DEF Kept
  <2> QED
    BY <2>1, <2>2
<1>6. /\ place \in {"create", "created", "unlink", "unlinkip", "linkentry"} => d2[q.ip].type = "dir"
      /\ SecondHalf(q, place) => d2[q.tgt].type = "file"
  BY <1>2, <1>3 DEF PlaceHolds, Kept, UsesTgt, IpPoints
<1>7. place = "created" => /\ Attached(d2, q.ip) /\ Head(q.path) \in Names
                           /\ d2[q.ip].ents[Head(q.path)] = 0 /\ d2[q.tgt] = NewInode(q.op)
  <2> SUFFICES ASSUME place = "created"
               PROVE  /\ Attached(d2, q.ip) /\ Head(q.path) \in Names
                      /\ d2[q.ip].ents[Head(q.path)] = 0 /\ d2[q.tgt] = NewInode(q.op)
    OBVIOUS
  <2>1. /\ c[q.ip].lock = p /\ Attached(d, q.ip) /\ Head(q.path) \in Names
        /\ d[q.ip].ents[Head(q.path)] = 0 /\ d[q.tgt] = NewInode(q.op)
    BY DEF PlaceHolds
  <2>2. Kept(d, c, F, d2, c2, F2, p, q.ip)
    BY <1>2 DEF IpPoints
  <2> QED
    BY <2>1, <2>2 DEF Kept
<1>8. place = "unlinkip" => Head(q.path) \in Names /\ d2[q.ip].ents[Head(q.path)] = q.tgt
  BY <1>2 DEF PlaceHolds, Kept, IpPoints
<1> QED
  BY <1>4, <1>5, <1>6, <1>7, <1>8 DEF PlaceHolds

\* Where a process may take a new reference from.
Reach(p, i) ==
  \/ Attached(dino, i) \/ dino[i].type = "free"
  \/ (\E x \in Procs : cwd[x] = i) \/ HeldCount(r[p], pc[p], i) >= 1

\* A step of p keeps the other processes where they are.
Keeps(p) ==
  /\ Moves(p)
  /\ LocksKept(p, icache, icache')
  /\ \A i \in Inums :
       /\ dino[i].type # "free" => dino'[i].type = dino[i].type \/ OnlyOf(p, i)
       /\ icache[i].lock \notin {0, p} => /\ Attached(dino, i) => Attached(dino', i)
                                          /\ \A n \in Names : dino'[i].ents[n] = dino[i].ents[n]
       /\ icache'[i].ref > icache[i].ref \/ dino'[i].nlink # dino[i].nlink => Reach(p, i)
  /\ pc'[p] = "created" => dino[r'[p].tgt].type = "free"
  /\ \A q \in Procs \ {p} : pc[q] = "created" => dino'[r[q].tgt] = dino[r[q].tgt]

LEMMA FreshKept ==
  ASSUME NEW p \in Procs, Keeps(p), TreeInv
  PROVE  /\ \A i \in Fresh' : i \in Fresh \/ dino[i].type = "free"
         /\ \A i : dino[i].type # "free" /\ dino'[i].type = dino[i].type /\ Settled(dino, Fresh, i)
                     => Settled(dino', Fresh', i)
<1>1. Fresh' = {r'[x].tgt : x \in {x \in Procs : pc'[x] = "created"}}
  BY DEF Fresh
<1>2. ASSUME NEW i \in Fresh' PROVE i \in Fresh \/ dino[i].type = "free"
  <2>1. PICK x \in Procs : pc'[x] = "created" /\ r'[x].tgt = i
    BY <1>1
  <2>2. CASE x = p
    BY <2>1, <2>2 DEF Keeps
  <2>3. CASE x # p
    BY <2>1, <2>3 DEF Keeps, Moves, Fresh
  <2> QED
    BY <2>2, <2>3
<1> QED
  BY <1>2 DEF Settled

\* What a process has, by the count of its pointers.
LEMMA HasHeld ==
  ASSUME FilesTypeOK, NEW q \in Procs, NEW i,
         i \in ToSet(r[q].put) \/ PlaceCount(r[q], Place(r[q], pc[q]), i) >= 1
  PROVE  HeldCount(r[q], pc[q], i) >= 1
<1>1. r[q].put \in Seq(Inums)
  BY DEF FilesTypeOK, Locals
<1>2. Occ(r[q].put, i) \in Nat /\ PlaceCount(r[q], Place(r[q], pc[q]), i) \in Nat
  BY <1>1, WhereFinite, PlaceCountType
<1>3. i \in ToSet(r[q].put) => Occ(r[q].put, i) >= 1
  BY <1>1, PutHeld
<1> QED
  BY <1>2, <1>3 DEF HeldCount

LEMMA SeqParts ==
  ASSUME NEW S, NEW s \in Seq(S), s # <<>>
  PROVE  /\ Head(s) \in ToSet(s) /\ ToSet(Tail(s)) \subseteq ToSet(s) /\ ToSet(s) \subseteq S
         /\ ToSet(s) = ToSet(Tail(s)) \cup {Head(s)}
<1>1. Len(s) \in Nat /\ Len(s) >= 1 /\ Len(Tail(s)) = Len(s) - 1 /\ Head(s) = s[1]
      /\ \A k \in 1..Len(s)-1 : Tail(s)[k] = s[k + 1]
  OBVIOUS
<1>2. DOMAIN s = 1..Len(s) /\ DOMAIN Tail(s) = 1..Len(s)-1
  BY <1>1
<1>3. ASSUME NEW x \in ToSet(Tail(s)) PROVE x \in ToSet(s)
  <2>1. PICK k \in 1..Len(s)-1 : Tail(s)[k] = x
    BY <1>2 DEF ToSet
  <2>2. k + 1 \in 1..Len(s) /\ s[k + 1] = x
    BY <1>1, <2>1
  <2> QED
    BY <1>2, <2>2 DEF ToSet
<1>4. ASSUME NEW x \in ToSet(s) PROVE x = Head(s) \/ x \in ToSet(Tail(s))
  <2>1. PICK k \in 1..Len(s) : s[k] = x
    BY <1>2, <1>4 DEF ToSet
  <2>2. CASE k = 1
    BY <1>1, <2>1, <2>2
  <2>3. CASE k # 1
    <3>1. k - 1 \in 1..Len(s)-1 /\ Tail(s)[k - 1] = s[(k - 1) + 1] /\ (k - 1) + 1 = k
      BY <1>1, <2>1, <2>3
    <3> QED
      BY <1>2, <2>1, <3>1 DEF ToSet
  <2> QED
    BY <2>2, <2>3
<1>5. Head(s) \in ToSet(s) /\ ToSet(s) \subseteq S
  BY <1>1, <1>2 DEF ToSet
<1> QED
  BY <1>3, <1>4, <1>5

\* Nobody takes a reference to what its last user is about to free.
LEMMA Unreached ==
  ASSUME TreeCondition, FilesInv, TreeInv, NEW p \in Procs, NEW q \in Procs \ {p},
         pc[q] = "free"
  PROVE  LET i == Head(r[q].put) IN
           i \in Inums /\ HeldCount(r[q], pc[q], i) >= 1 /\ ~Reach(p, i) /\ icache[i].lock = q
             /\ icache[i].ref \in Int /\ icache[i].ref >= 1 /\ icache[i].ref <= 1 /\ dino[i].nlink = 0
<1> DEFINE i == Head(r[q].put)
<1>0. FilesTypeOK /\ ShapeInv
  BY DEF FilesInv
<1>1. r[q].put \in Seq(Inums) /\ r[q].put # <<>> /\ i \in Inums
  BY <1>0, InIputs DEF Iputs
<1>2. i \in ToSet(r[q].put)
  BY <1>1, SeqParts
<1>3. CallHolds(dino, icache, Fresh, q, r[q], "free")
  BY DEF TreeInv
<1>4. PutHolds(dino, icache, Fresh, q, r[q], "free")
  BY <1>3 DEF CallHolds
<1>5. icache[i].lock = q /\ icache[i].ref <= 1 /\ dino[i].nlink = 0 /\ Settled(dino, Fresh, i)
  BY <1>2, <1>4 DEF PutHolds
<1>6. HeldCount(r[q], pc[q], i) >= 1
  BY <1>0, <1>2, HasHeld
<1> HIDE DEF i
<1>7. icache[i].ref \in Int /\ icache[i].ref >= 1 /\ OnlyOf(q, i)
  BY <1>1, <1>5, <1>6, RefHeld
<1>8. ~Reach(p, i)
  <2>1. ~Attached(dino, i)
    BY <1>1, <1>5, AttachedSettled
  <2>2. HeldCount(r[p], pc[p], i) = 0
    BY <1>7 DEF OnlyOf
  <2>3. \A x \in Procs : cwd[x] # i
    BY <1>7 DEF OnlyOf
  <2> QED
    BY <1>5, <2>1, <2>2, <2>3 DEF Reach, Settled
<1> QED
  BY <1>1, <1>5, <1>6, <1>7, <1>8 DEF i

LEMMA OthersKept ==
  ASSUME TreeCondition, FilesInv, FilesTypeOK', TreeInv, NEW p \in Procs, Keeps(p), NEW q \in Procs \ {p}
  PROVE  CallHolds(dino', icache', Fresh', q, r'[q], pc'[q])
<1>0. FilesTypeOK /\ ShapeInv
  BY DEF FilesInv
<1>1. r'[q] = r[q] /\ pc'[q] = pc[q]
  BY DEF Keeps, Moves
<1>2. /\ PutHolds(dino, icache, Fresh, q, r[q], pc[q])
      /\ PlaceHolds(dino, icache, Fresh, q, r[q], Place(r[q], pc[q]))
  BY DEF TreeInv, CallHolds
<1>3. r[q] \in Locals /\ LocalsFit(r[q], pc[q]) /\ PlaceFit(r[q], Place(r[q], pc[q]))
  BY <1>0 DEF FilesTypeOK, ShapeInv, LocalsFit
<1>4. ASSUME NEW i \in Inums, HeldCount(r[q], pc[q], i) >= 1
      PROVE  Kept(dino, icache, Fresh, dino', icache', Fresh', q, i)
  <2>1. icache[i].ref \in Int /\ icache[i].ref >= 1
    BY <1>4, RefHeld
  <2>2. ~OnlyOf(p, i)
    BY <1>4 DEF OnlyOf
  <2>3. dino[i].type # "free" => dino'[i].type = dino[i].type
    BY <2>2 DEF Keeps
  <2>4. Settled(dino, Fresh, i) => Settled(dino', Fresh', i)
    BY <2>3, FreshKept DEF Settled
  <2>5. icache[i].lock = q => /\ icache'[i].lock = q
                              /\ Attached(dino, i) => Attached(dino', i)
                              /\ \A n \in Names : dino'[i].ents[n] = dino[i].ents[n]
    BY <2>1, InumIs DEF Keeps, LocksKept
  <2> QED
    BY <2>3, <2>4, <2>5 DEF Kept
<1>5. PlaceHolds(dino', icache', Fresh', q, r[q], Place(r[q], pc[q]))
  <2>1. \A i \in Inums : PlaceCount(r[q], Place(r[q], pc[q]), i) >= 1
                           => Kept(dino, icache, Fresh, dino', icache', Fresh', q, i)
    BY <1>0, <1>4, HasHeld
  <2>2. Place(r[q], pc[q]) = "created" => pc[q] = "created"
    BY <1>3 DEF Place, Locals, Thens
  <2>3. Place(r[q], pc[q]) = "created" => dino'[r[q].tgt] = dino[r[q].tgt]
    BY <2>2 DEF Keeps
  <2> QED
    BY <1>2, <1>3, <2>1, <2>3, PlaceKept
<1>6. PutHolds(dino', icache', Fresh', q, r[q], pc[q])
  <2>1. \A i \in ToSet(IF pc[q] = "drop" THEN Tail(r[q].put) ELSE r[q].put) : Settled(dino', Fresh', i)
    <3>1. r[q].put \in Seq(Inums) /\ (pc[q] = "drop" => r[q].put # <<>>)
      BY <1>3 DEF Locals, LocalsFit, Iputs
    <3>2. /\ ToSet(IF pc[q] = "drop" THEN Tail(r[q].put) ELSE r[q].put) \subseteq ToSet(r[q].put)
          /\ ToSet(r[q].put) \subseteq Inums
      <4>1. CASE pc[q] = "drop"
        BY <3>1, <4>1, SeqParts
      <4>2. CASE pc[q] # "drop"
        BY <3>1, <4>2 DEF ToSet
      <4> QED
        BY <4>1, <4>2
    <3>3. \A i \in ToSet(r[q].put) : Settled(dino, Fresh, i) => Settled(dino', Fresh', i)
      BY <1>0, <1>4, <3>2, HasHeld DEF Kept
    <3> QED
      BY <1>2, <3>2, <3>3 DEF PutHolds
  <2>2. ASSUME pc[q] = "free"
        PROVE  LET i == Head(r[q].put) IN icache'[i].lock = q /\ icache'[i].ref <= 1 /\ dino'[i].nlink = 0
    <3> DEFINE i == Head(r[q].put)
    <3>1. /\ i \in Inums /\ HeldCount(r[q], pc[q], i) >= 1 /\ ~Reach(p, i) /\ icache[i].lock = q
          /\ icache[i].ref \in Int /\ icache[i].ref >= 1 /\ icache[i].ref <= 1 /\ dino[i].nlink = 0
      BY <2>2, Unreached
    <3> HIDE DEF i
    <3>2. icache'[i].ref \in Int
      BY <3>1 DEF FilesTypeOK, CacheEntry
    <3>3. ~(icache'[i].ref > icache[i].ref) /\ dino'[i].nlink = dino[i].nlink
      BY <3>1 DEF Keeps
    <3>4. icache'[i].lock = q
      BY <1>4, <3>1 DEF Kept
    <3>5. icache'[i].ref <= 1 /\ dino'[i].nlink = 0
      BY <3>1, <3>2, <3>3
    <3> QED
      BY <3>4, <3>5 DEF i
  <2> QED
    BY <2>1, <2>2 DEF PutHolds
<1> QED
  BY <1>1, <1>5, <1>6 DEF CallHolds

\* What a step of p must do, for the tree to stay one.
Outside == {"user", "exit", "closing"}
InTransaction(p) == (pc'[p] \notin Outside => p \in tx') /\ tx \ {p} \subseteq tx'
KeepsUsed ==
  /\ \A x \in Procs : cwd'[x] \in {0, cwd[x]} \/ (dino'[cwd'[x]].type = "dir" /\ Settled(dino', Fresh', cwd'[x]))
  /\ \A f \in Fds : ftable'[f].ip \in {0, ftable[f].ip} \/ Settled(dino', Fresh', ftable'[f].ip)

LEMMA TreeStep ==
  ASSUME TreeCondition, FilesInv, FilesTypeOK', TreeInv, NEW p \in Procs, Keeps(p),
         TreeShape(dino'), Counted(dino', Owed'), CacheFits(icache', dino'),
         TreeShape(stable'), Counted(stable', NothingOwed),
         CallHolds(dino', icache', Fresh', p, r'[p], pc'[p]), InTransaction(p), KeepsUsed
  PROVE  TreeInv'
<1>0. FilesTypeOK
  BY DEF FilesInv
<1>1. ASSUME NEW q \in Procs PROVE CallHolds(dino', icache', Fresh', q, r'[q], pc'[q])
  BY OthersKept
<1>2. ASSUME NEW q \in Procs, pc'[q] \notin Outside PROVE q \in tx'
  <2>1. CASE q = p
    BY <1>2, <2>1 DEF InTransaction
  <2>2. CASE q # p
    <3>1. pc[q] \notin {"user", "exit", "closing"}
      BY <1>2, <2>2 DEF Keeps, Moves, Outside
    <3>2. q \in tx
      BY <3>1 DEF TreeInv
    <3> QED
      BY <2>2, <3>2 DEF InTransaction
  <2> QED
    BY <2>1, <2>2
<1>3. ASSUME NEW x \in Procs, cwd'[x] # 0
      PROVE  dino'[cwd'[x]].type = "dir" /\ Settled(dino', Fresh', cwd'[x])
  <2> SUFFICES ASSUME cwd'[x] = cwd[x] PROVE dino'[cwd'[x]].type = "dir" /\ Settled(dino', Fresh', cwd'[x])
    BY <1>3 DEF KeepsUsed
  <2>1. cwd[x] \in Inums /\ dino[cwd[x]].type = "dir" /\ Settled(dino, Fresh, cwd[x])
    BY <1>0, <1>3 DEF TreeInv, FilesTypeOK
  <2>2. ~OnlyOf(p, cwd[x])
    BY DEF OnlyOf
  <2>3. dino'[cwd[x]].type = dino[cwd[x]].type /\ dino[cwd[x]].type # "free"
    BY <2>1, <2>2 DEF Keeps, Settled
  <2> QED
    BY <2>1, <2>3, FreshKept
<1>4. ASSUME NEW f \in Fds, ftable'[f].ip # 0
      PROVE  Settled(dino', Fresh', ftable'[f].ip)
  <2> SUFFICES ASSUME ftable'[f].ip = ftable[f].ip PROVE Settled(dino', Fresh', ftable'[f].ip)
    BY <1>4 DEF KeepsUsed
  <2>1. ftable[f].ip \in Inums /\ Settled(dino, Fresh, ftable[f].ip)
    BY <1>0, <1>4 DEF TreeInv, FilesTypeOK, File
  <2>2. ~OnlyOf(p, ftable[f].ip)
    BY DEF OnlyOf
  <2>3. dino'[ftable[f].ip].type = dino[ftable[f].ip].type /\ dino[ftable[f].ip].type # "free"
    BY <2>1, <2>2 DEF Keeps, Settled
  <2> QED
    BY <2>1, <2>3, FreshKept
<1>5. ASSUME NEW a \in Procs, NEW b \in Procs, pc'[a] = "created", pc'[b] = "created", r'[a].tgt = r'[b].tgt
      PROVE  a = b
  <2>1. ASSUME NEW x \in Procs \ {p}, pc'[x] = "created" PROVE dino[r'[x].tgt].type # "free"
    <3>1. pc[x] = "created" /\ r'[x] = r[x]
      BY <2>1 DEF Keeps, Moves
    <3>2. PlaceHolds(dino, icache, Fresh, x, r[x], "created")
      BY <3>1 DEF TreeInv, CallHolds, Place, Iputs
    <3> QED
      BY <3>1, <3>2 DEF PlaceHolds, NewInode, Free
  <2>2. pc'[p] = "created" => dino[r'[p].tgt].type = "free"
    BY DEF Keeps
  <2>3. CASE a = p \/ b = p
    BY <1>5, <2>1, <2>2, <2>3
  <2>4. CASE a # p /\ b # p
    BY <1>5, <2>4 DEF Keeps, Moves, TreeInv
  <2> QED
    BY <2>3, <2>4
<1> QED
  BY <1>1, <1>2, <1>3, <1>4, <1>5 DEF TreeInv, Outside

\* The usual step leaves the disk alone.
Gentle(p) ==
  /\ Moves(p) /\ dino' = dino
  /\ LocksKept(p, icache, icache') /\ CacheFits(icache', dino)
  /\ \A i \in Inums : icache'[i].ref > icache[i].ref => Reach(p, i)
  /\ pc'[p] # "created"
  /\ Owes(r'[p], Place(r'[p], pc'[p])) = Owes(r[p], Place(r[p], pc[p]))

LEMMA GentleKeeps ==
  ASSUME NEW p \in Procs, TreeInv, Gentle(p)
  PROVE  Keeps(p) /\ Fresh' \subseteq Fresh
<1>1. Keeps(p)
  BY DEF Keeps, Gentle
<1>2. Fresh' \subseteq Fresh
  BY DEF Fresh, Gentle, Moves
<1> QED
  BY <1>1, <1>2

LEMMA FewerFresh ==
  ASSUME NEW d, NEW c, NEW F, NEW G, F \subseteq G, NEW p, NEW q, NEW at, CallHolds(d, c, G, p, q, at)
  PROVE  CallHolds(d, c, F, p, q, at)
<1>1. \A i : Settled(d, G, i) => Settled(d, F, i)
  BY DEF Settled
<1>2. PutHolds(d, c, F, p, q, at)
  BY <1>1 DEF CallHolds, PutHolds
<1>3. PlaceHolds(d, c, F, p, q, Place(q, at))
  BY <1>1 DEF CallHolds, PlaceHolds
<1> QED
  BY <1>2, <1>3 DEF CallHolds

LEMMA OwedStep ==
  ASSUME NEW p \in Procs, Moves(p)
  PROVE  /\ \A x \in Procs \ {p} : Owed'[x] = Owed[x]
         /\ Owed'[p] = Owes(r'[p], Place(r'[p], pc'[p])) /\ Owed[p] = Owes(r[p], Place(r[p], pc[p]))
BY DEF Owed, Moves

LEMMA GentleStep ==
  ASSUME TreeCondition, FilesInv, FilesTypeOK', TreeInv, NEW p \in Procs, Gentle(p), stable' = stable,
         CallHolds(dino, icache', Fresh, p, r'[p], pc'[p]), InTransaction(p),
         \A x \in Procs : cwd'[x] \in {0, cwd[x]} \/ (dino[cwd'[x]].type = "dir" /\ Settled(dino, Fresh, cwd'[x])),
         \A f \in Fds : ftable'[f].ip \in {0, ftable[f].ip} \/ Settled(dino, Fresh, ftable'[f].ip)
  PROVE  TreeInv'
<1>1. Keeps(p) /\ Fresh' \subseteq Fresh /\ dino' = dino
  BY GentleKeeps DEF Gentle
<1>2. Owed' = Owed
  <2>1. \A x \in Procs : Owed'[x] = Owed[x]
    BY OwedStep DEF Gentle
  <2> QED
    BY <2>1 DEF Owed
<1>3. TreeShape(dino') /\ Counted(dino', Owed') /\ CacheFits(icache', dino')
      /\ TreeShape(stable') /\ Counted(stable', NothingOwed)
  BY <1>1, <1>2 DEF TreeInv, Gentle
<1>4. CallHolds(dino', icache', Fresh', p, r'[p], pc'[p])
  BY <1>1, FewerFresh
<1>5. KeepsUsed
  BY <1>1 DEF KeepsUsed, Settled
<1> QED
  BY <1>1, <1>3, <1>4, <1>5, TreeStep
-----------------------------------------------------------------------------
\* Where a step leaves its process: at the head of iput, or at a point.
LEMMA SameHolds ==
  ASSUME NEW d, NEW c, NEW F, NEW p, NEW q, NEW s, NEW place,
         s.op = q.op, s.path = q.path, s.parent = q.parent, s.ip = q.ip, s.tgt = q.tgt
  PROVE  /\ PlaceHolds(d, c, F, p, q, place) => PlaceHolds(d, c, F, p, s, place)
         /\ Owes(s, place) = Owes(q, place)
<1>1. (SecondHalf(s, place) <=> SecondHalf(q, place)) /\ PlaceUses(s, place) = PlaceUses(q, place)
  BY DEF SecondHalf, PlaceUses, UsesTgt
<1> QED
  BY <1>1 DEF PlaceHolds, Owes

LEMMA EndHolds ==
  ASSUME NEW d, NEW c, NEW F, NEW p, NEW q, NEW place \in {"end", "user", "exit", "closing"},
         place # "end" => q.op \in {"none", "exit"}
  PROVE  PlaceHolds(d, c, F, p, q, place) /\ Owes(q, place) = 0
<1>1. ~SecondHalf(q, place) /\ PlaceUses(q, place) = {}
  BY DEF SecondHalf, PlaceUses, UsesTgt, IpPoints, TgtPoints
<1> QED
  BY <1>1 DEF PlaceHolds, Owes

LEMMA PutOne ==
  ASSUME NEW x
  PROVE  ToSet(<<x>>) = {x}
BY DEF ToSet

LEMMA PutGood ==
  ASSUME FilesTypeOK, NEW p \in Procs, Moves(p), NEW s, NEW then, Put(p, s, then),
         NEW d, NEW c, NEW F, \A i \in ToSet(s) : Settled(d, F, i), PlaceHolds(d, c, F, p, r[p], then)
  PROVE  /\ pc'[p] = "iput" /\ CallHolds(d, c, F, p, r'[p], pc'[p])
         /\ Owes(r'[p], Place(r'[p], pc'[p])) = Owes(r[p], then)
<1> DEFINE q == IF then = "end" THEN [NoLocals EXCEPT !.op = r[p].op] ELSE r[p]
           t == [q EXCEPT !.put = s, !.then = then]
<1>2. r'[p] = t /\ pc'[p] = "iput"
  BY DEF Put, Goto, FilesTypeOK
<1>3. q \in Locals /\ (then # "end" => q = r[p])
  <2>1. r[p] \in Locals /\ NoLocals \in Locals
    BY Basics DEF FilesTypeOK
  <2>2. [NoLocals EXCEPT !.op = r[p].op] \in Locals
    BY <2>1 DEF Locals
  <2> QED
    BY <2>1, <2>2
<1> HIDE DEF q
<1>4. /\ t.put = s /\ t.then = then /\ t.op = q.op /\ t.path = q.path
      /\ t.parent = q.parent /\ t.ip = q.ip /\ t.tgt = q.tgt
  BY <1>3 DEF Locals
<1> HIDE DEF t
<1>5. PlaceHolds(d, c, F, p, t, then) /\ Owes(t, then) = Owes(r[p], then)
  <2>1. CASE then = "end"
    BY <2>1, EndHolds
  <2>2. CASE then # "end"
    BY <2>2, <1>3, <1>4, SameHolds
  <2> QED
    BY <2>1, <2>2
<1>6. Place(t, "iput") = then
  BY <1>4 DEF Place, Iputs
<1>7. PutHolds(d, c, F, p, t, "iput")
  BY <1>4 DEF PutHolds
<1> QED
  BY <1>2, <1>5, <1>6, <1>7 DEF CallHolds

LEMMA GoGood ==
  ASSUME FilesTypeOK, NEW p \in Procs, NEW at, at \notin Iputs, NEW locals,
         locals.put = <<>>, Goto(p, at, locals),
         NEW d, NEW c, NEW F, PlaceHolds(d, c, F, p, locals, at)
  PROVE  /\ r'[p] = locals /\ pc'[p] = at /\ CallHolds(d, c, F, p, r'[p], pc'[p])
         /\ Owes(r'[p], Place(r'[p], pc'[p])) = Owes(locals, at)
<1>1. r'[p] = locals /\ pc'[p] = at
  BY DEF Goto, FilesTypeOK
<1>2. Place(locals, at) = at
  BY DEF Place
<1>3. ToSet(locals.put) = {}
  BY DEF ToSet
<1>4. PutHolds(d, c, F, p, locals, at)
  BY <1>3 DEF PutHolds, Iputs
<1> QED
  BY <1>1, <1>2, <1>4 DEF CallHolds

\* What TreeInv says at an ilock: the inode wanted is settled, and its entry in
\* the cache can be loaded.
LEMMA AtIlock ==
  ASSUME TreeCondition, FilesInv, TreeInv, NEW p \in Procs, pc[p] \notin Iputs
  PROVE  /\ PlaceHolds(dino, icache, Fresh, p, r[p], pc[p]) /\ Place(r[p], pc[p]) = pc[p]
         /\ pc[p] \in IpPoints => r[p].ip \in Inums /\ Settled(dino, Fresh, r[p].ip)
         /\ pc[p] \in TgtPoints => r[p].tgt \in Inums
         /\ pc[p] \in TgtPoints \ {"created"} => Settled(dino, Fresh, r[p].tgt)
         /\ SecondHalf(r[p], pc[p]) => r[p].tgt \in Inums /\ Settled(dino, Fresh, r[p].tgt)
<1>1. FilesTypeOK /\ ShapeInv
  BY DEF FilesInv
<1>2. Place(r[p], pc[p]) = pc[p]
  BY DEF Place
<1>3. PlaceHolds(dino, icache, Fresh, p, r[p], pc[p]) /\ PlaceFit(r[p], pc[p])
  BY <1>1, <1>2 DEF TreeInv, CallHolds, ShapeInv, LocalsFit
<1>4. \A i \in PlaceUses(r[p], pc[p]) : Settled(dino, Fresh, i)
  BY <1>3 DEF PlaceHolds
<1>5. /\ pc[p] \in IpPoints => r[p].ip \in PlaceUses(r[p], pc[p])
      /\ pc[p] \in TgtPoints \ {"created"} => r[p].tgt \in PlaceUses(r[p], pc[p])
  BY DEF PlaceUses, UsesTgt
<1>6. SecondHalf(r[p], pc[p]) => r[p].tgt \in PlaceUses(r[p], pc[p])
  <2>1. SecondHalf(r[p], pc[p]) => pc[p] # "created"
    BY <1>3 DEF PlaceFit, SecondHalf, IpPoints, TgtPoints, CallOps
  <2> QED
    BY <2>1 DEF PlaceUses, UsesTgt
<1> QED
  BY <1>2, <1>3, <1>4, <1>5, <1>6 DEF PlaceFit, UsesTgt

\* A step inside a call that leaves the disk, the open files and the current
\* directories alone: what is left to show is what it does to the cache and to
\* its process.
CacheGood(p) ==
  /\ LocksKept(p, icache, icache') /\ CacheFits(icache', dino)
  /\ \A i \in Inums : icache'[i].ref > icache[i].ref => Reach(p, i)

LEMMA CacheAlike ==
  ASSUME FilesTypeOK, NEW p \in Procs, Alike(icache, icache'), LocksKept(p, icache, icache'),
         CacheFits(icache', dino)
  PROVE  CacheGood(p)
<1>1. \A i \in Inums : icache'[i].ref = icache[i].ref /\ icache[i].ref \in Int
  BY DEF Alike, FilesTypeOK, CacheEntry
<1> QED
  BY <1>1 DEF CacheGood

LEMMA CacheSame ==
  ASSUME FilesTypeOK, TreeInv, NEW p \in Procs, icache' = icache
  PROVE  CacheGood(p)
<1>1. Alike(icache, icache') /\ LocksKept(p, icache, icache') /\ CacheFits(icache', dino)
  BY DEF Alike, FilesTypeOK, LocksKept, TreeInv
<1> QED
  BY <1>1, CacheAlike

LEMMA CacheIget ==
  ASSUME FilesTypeOK, NEW p \in Procs, NEW c, Alike(icache, c), LocksKept(p, icache, c),
         CacheFits(c, dino), NEW x \in Inums, Reach(p, x), icache' = Iget(c, x)
  PROVE  CacheGood(p)
<1>1. c \in [Inums -> CacheEntry] /\ icache \in [Inums -> CacheEntry]
  BY DEF Alike, FilesTypeOK
<1>2. LocksKept(p, icache, icache') /\ CacheFits(icache', dino)
  BY <1>1, IgetLocks, IgetFits
<1>3. \A i \in Inums : icache'[i].ref = icache[i].ref + One(x, i) /\ icache[i].ref \in Int
  BY <1>1, AlikeIget DEF CacheEntry
<1>4. \A i \in Inums : icache'[i].ref > icache[i].ref => i = x
  BY <1>3 DEF One
<1> QED
  BY <1>2, <1>4 DEF CacheGood

InCall(p) == pc[p] \notin Outside /\ UNCHANGED <<dino, stable, tx, ftable, cwd>>

LEMMA CallStep ==
  ASSUME TreeCondition, FilesInv, TreeInv, NEW p \in Procs, Sound(p), InCall(p), CacheGood(p),
         pc'[p] # "created", CallHolds(dino, icache', Fresh, p, r'[p], pc'[p]),
         Owes(r'[p], Place(r'[p], pc'[p])) = Owes(r[p], Place(r[p], pc[p]))
  PROVE  TreeInv'
<1>1. FilesTypeOK' /\ Moves(p)
  BY DEF Sound
<1>2. Gentle(p)
  BY <1>1 DEF Gentle, CacheGood, InCall
<1>3. p \in tx /\ InTransaction(p)
  BY DEF TreeInv, InCall, Outside, InTransaction
<1>4. stable' = stable /\ cwd' = cwd /\ ftable' = ftable
  BY DEF InCall
<1> QED
  BY <1>1, <1>2, <1>3, <1>4, GentleStep

LEMMA PuttingIn ==
  ASSUME TreeCondition, FilesInv, TreeInv, NEW p \in Procs, Sound(p), InCall(p), CacheGood(p),
         pc[p] \notin Iputs, NEW x, NEW then, Put(p, <<x>>, then), Settled(dino, Fresh, x),
         PlaceHolds(dino, icache', Fresh, p, r[p], then), Owes(r[p], then) = Owes(r[p], pc[p])
  PROVE  TreeInv'
<1>1. FilesTypeOK /\ Moves(p) /\ Place(r[p], pc[p]) = pc[p]
  BY DEF FilesInv, Sound, Place
<1>2. \A i \in ToSet(<<x>>) : Settled(dino, Fresh, i)
  BY PutOne
<1>3. /\ pc'[p] = "iput" /\ CallHolds(dino, icache', Fresh, p, r'[p], pc'[p])
      /\ Owes(r'[p], Place(r'[p], pc'[p])) = Owes(r[p], then)
  BY <1>1, <1>2, PutGood
<1> QED
  BY <1>1, <1>3, CallStep

LEMMA GoingIn ==
  ASSUME TreeCondition, FilesInv, TreeInv, NEW p \in Procs, Sound(p), InCall(p), CacheGood(p),
         pc[p] \notin Iputs, NEW at, at \notin Iputs, at # "created", NEW locals, locals.put = <<>>,
         Goto(p, at, locals), PlaceHolds(dino, icache', Fresh, p, locals, at),
         Owes(locals, at) = Owes(r[p], pc[p])
  PROVE  TreeInv'
<1>1. FilesTypeOK /\ Place(r[p], pc[p]) = pc[p]
  BY DEF FilesInv, Place
<1>2. /\ pc'[p] = at /\ CallHolds(dino, icache', Fresh, p, r'[p], pc'[p])
      /\ Owes(r'[p], Place(r'[p], pc'[p])) = Owes(locals, at)
  BY <1>1, GoGood
<1> QED
  BY <1>1, <1>2, CallStep
-----------------------------------------------------------------------------
\* One lemma per action.  Steps that only read the disk come first.
LEMMA MissedHolds ==
  ASSUME NEW d, NEW c, NEW F, NEW p, NEW q, NEW at \in {"walk", "bad"}, PlaceHolds(d, c, F, p, q, at)
  PROVE  \A c2 : PlaceHolds(d, c2, F, p, q, Missed(q)) /\ Owes(q, Missed(q)) = Owes(q, at)
<1>1. CASE q.op = "link" /\ q.parent
  <2>1. Missed(q) = "linkbad" /\ SecondHalf(q, at) /\ SecondHalf(q, "linkbad")
    BY <1>1 DEF Missed, SecondHalf
  <2>2. PlaceUses(q, "linkbad") \subseteq PlaceUses(q, at)
    BY <2>1 DEF PlaceUses, UsesTgt, IpPoints
  <2> QED
    BY <2>1, <2>2 DEF PlaceHolds, Owes
<1>2. CASE ~(q.op = "link" /\ q.parent)
  <2>1. Missed(q) = "end" /\ ~SecondHalf(q, at)
    BY <1>2 DEF Missed, SecondHalf
  <2> QED
    BY <2>1, EndHolds DEF Owes
<1> QED
  BY <1>1, <1>2

LEMMA WalkEndTree ==
  ASSUME TreeCondition, FilesInv, TreeInv, NEW p \in Procs, WalkEnd(p)
  PROVE  TreeInv'
<1> DEFINE q == r[p]
<1>0. FilesTypeOK /\ ShapeInv /\ Sound(p)
  BY WalkEndSound DEF FilesInv
<1>1. pc[p] = "walk" /\ pc[p] \notin Iputs /\ icache' = icache /\ InCall(p)
  BY DEF WalkEnd, FSame, InCall, Outside, Iputs
<1>2. CacheGood(p)
  BY <1>0, <1>1, CacheSame
<1>3. PlaceHolds(dino, icache, Fresh, p, q, "walk") /\ Settled(dino, Fresh, q.ip)
  BY <1>1, AtIlock DEF IpPoints
<1>4. q \in Locals /\ q.put = <<>> /\ PlaceFit(q, "walk")
  BY <1>0, <1>1, HeldAtPoint
<1>5. CASE q.parent
  <2>1. Put(p, <<q.ip>>, Missed(q))
    BY <1>5 DEF WalkEnd
  <2>2. PlaceHolds(dino, icache', Fresh, p, q, Missed(q)) /\ Owes(q, Missed(q)) = Owes(q, pc[p])
    BY <1>1, <1>3, MissedHolds
  <2> QED
    BY <1>0, <1>1, <1>2, <1>3, <2>1, <2>2, PuttingIn
<1>6. CASE ~q.parent
  <2>1. Goto(p, Arrived(q), q)
    BY <1>4, <1>6 DEF WalkEnd, Locals
  <2>2. q.op \in {"open", "chdir", "link"}
    BY <1>4, <1>6 DEF PlaceFit, CallOps
  <2>3. Arrived(q) = q.op
    BY <1>6, <2>2 DEF Arrived
  <2>4. PlaceHolds(dino, icache', Fresh, p, q, q.op) /\ Owes(q, q.op) = Owes(q, "walk")
    <3>1. ~SecondHalf(q, q.op) /\ ~SecondHalf(q, "walk") /\ PlaceUses(q, q.op) = {q.ip}
      BY <1>6, <2>2 DEF SecondHalf, PlaceUses, UsesTgt, IpPoints, TgtPoints
    <3> QED
      BY <1>3, <2>2, <3>1 DEF PlaceHolds, Owes
  <2>5. q.op \notin Iputs /\ q.op # "created"
    BY <2>2 DEF Iputs
  <2> QED
    BY <1>0, <1>1, <1>2, <1>4, <2>1, <2>3, <2>4, <2>5, GoingIn
<1> QED
  BY <1>4, <1>5, <1>6 DEF Locals

LEMMA WalkTree ==
  ASSUME TreeCondition, FilesInv, TreeInv, NEW p \in Procs, Walk(p), ~strayed'
  PROVE  TreeInv'
<1> DEFINE q == r[p]
           dp == q.ip
           c == [icache EXCEPT ![dp] = Loaded(dp)]
           next == dino[dp].ents[Head(q.path)]
           t == [q EXCEPT !.path = Tail(q.path), !.ip = next, !.put = <<dp>>, !.then = "walk"]
<1>0. FilesTypeOK /\ ShapeInv /\ Sound(p) /\ CacheFits(icache, dino)
  BY WalkSound DEF FilesInv, TreeInv
<1>1. /\ pc[p] = "walk" /\ pc[p] \notin Iputs /\ InCall(p) /\ q.path # <<>>
      /\ icache[dp].lock = 0 /\ ~LoadPanics(dp)
  BY DEF Walk, Ilock, Wanted, FSame, InCall, Outside, Iputs
<1>2. PlaceHolds(dino, icache, Fresh, p, q, "walk") /\ dp \in Inums /\ Settled(dino, Fresh, dp)
  BY <1>1, AtIlock DEF IpPoints
<1>3. q \in Locals /\ q.put = <<>> /\ PlaceFit(q, "walk")
  BY <1>0, <1>1, HeldAtPoint
<1>4. /\ Alike(icache, c) /\ CacheFits(c, dino) /\ LocksKept(p, icache, c)
      /\ Loaded(dp).type = dino[dp].type /\ Loaded(dp).nlink = dino[dp].nlink
  BY <1>0, <1>1, <1>2, IlockPlain, LoadedFits
<1>5. icache' = c => CacheGood(p)
  <2> HIDE DEF c
  <2> QED
    BY <1>0, <1>4, CacheAlike
<1>6. CASE icache' = c /\ Put(p, <<dp>>, Missed(q))
  <2>1. PlaceHolds(dino, icache', Fresh, p, q, Missed(q)) /\ Owes(q, Missed(q)) = Owes(q, pc[p])
    BY <1>1, <1>2, MissedHolds
  <2> QED
    BY <1>0, <1>1, <1>2, <1>5, <1>6, <2>1, PuttingIn
<1>7. CASE icache' = c /\ Loaded(dp).type = "dir" /\ q.parent /\ Goto(p, Arrived(q), q)
  <2> DEFINE at == Arrived(q)
  <2>1. at \in {"linkentry", "create", "unlink", "open", "chdir"} /\ (at = "linkentry" <=> q.op = "link")
    BY <1>3, <1>7 DEF PlaceFit, Arrived, CallOps
  <2> HIDE DEF at
  <2>2. (SecondHalf(q, at) <=> SecondHalf(q, "walk")) /\ PlaceUses(q, at) = PlaceUses(q, "walk")
    BY <2>1 DEF SecondHalf, PlaceUses, UsesTgt, IpPoints, TgtPoints
  <2>3. PlaceHolds(dino, icache', Fresh, p, q, at) /\ Owes(q, at) = Owes(q, "walk")
    BY <1>2, <1>4, <1>7, <2>1, <2>2 DEF PlaceHolds, Owes
  <2>4. at \notin Iputs /\ at # "created" /\ Goto(p, at, q)
    BY <1>7, <2>1 DEF Iputs, at
  <2> QED
    BY <1>0, <1>1, <1>3, <1>5, <1>7, <2>3, <2>4, GoingIn
<1>8. CASE /\ icache' = Iget(c, next) /\ next # 0 /\ Goto(p, "iput", t) /\ Loaded(dp).type = "dir"
           /\ strayed' = (strayed \/ Loaded(dp).nlink = 0)
  <2>1. Head(q.path) \in Dots /\ q.path \in Seq(Dots)
    BY <1>0, <1>1, <1>2, <1>3, EntryIs DEF Locals
  <2>2. Attached(dino, dp)
    BY <1>1, <1>2, <1>4, <1>8, UnlockedAttached
  <2>3. next \in Inums /\ Attached(dino, next)
    BY <1>0, <1>2, <1>4, <1>8, <2>1, <2>2, EntryAttached DEF TreeInv, FilesTypeOK
  <2>4. Settled(dino, Fresh, next) /\ Reach(p, next)
    BY <2>3, AttachedSettled DEF Reach
  <2>5. CacheGood(p)
    <3> HIDE DEF c, next
    <3> QED
      BY <1>0, <1>4, <1>8, <2>3, <2>4, CacheIget
  <2>6. /\ t.put = <<dp>> /\ t.then = "walk" /\ t.op = q.op /\ t.parent = q.parent
        /\ t.ip = next /\ t.tgt = q.tgt
    BY <1>3 DEF Locals
  <2>7. r'[p] = t /\ pc'[p] = "iput"
    BY <1>0, <1>8 DEF Goto, FilesTypeOK
  <2> HIDE DEF t, next, c
  <2>8. (SecondHalf(t, "walk") <=> SecondHalf(q, "walk")) /\ Place(t, "iput") = "walk"
    BY <2>6 DEF SecondHalf, Place, Iputs
  <2>9. PlaceHolds(dino, icache', Fresh, p, t, "walk") /\ Owes(t, "walk") = Owes(q, "walk")
    <3>1. PlaceUses(t, "walk") \subseteq PlaceUses(q, "walk") \cup {next}
      BY <2>6, <2>8 DEF PlaceUses, UsesTgt
    <3> QED
      BY <1>2, <2>4, <2>6, <2>8, <3>1 DEF PlaceHolds, Owes
  <2>10. PutHolds(dino, icache', Fresh, p, t, "iput")
    BY <1>2, <2>6, PutOne DEF PutHolds
  <2>11. CallHolds(dino, icache', Fresh, p, r'[p], pc'[p])
    BY <2>7, <2>8, <2>9, <2>10 DEF CallHolds
  <2>12. Place(r[p], pc[p]) = "walk"
    BY <1>1 DEF Place
  <2> QED
    BY <1>0, <1>1, <2>5, <2>7, <2>8, <2>9, <2>11, <2>12, CallStep
<1> QED
  BY <1>6, <1>7, <1>8 DEF Walk

\* With the inode locked, open() goes on to its file.
LEMMA OpenFoundTree ==
  ASSUME TreeCondition, FilesInv, TreeInv, NEW p \in Procs, OpenFound(p)
  PROVE  TreeInv'
<1> DEFINE q == r[p]
           ip == q.ip
           c == [icache EXCEPT ![ip] = [Loaded(ip) EXCEPT !.lock = p]]
           t == [q EXCEPT !.tgt = ip]
<1>0. FilesTypeOK /\ ShapeInv /\ Sound(p) /\ CacheFits(icache, dino)
  BY OpenFoundSound DEF FilesInv, TreeInv
<1>1. /\ pc[p] = "open" /\ pc[p] \notin Iputs /\ InCall(p)
      /\ icache[ip].lock = 0 /\ ~LoadPanics(ip)
  BY DEF OpenFound, Ilock, Wanted, FSame, InCall, Outside, Iputs
<1>2. PlaceHolds(dino, icache, Fresh, p, q, "open") /\ ip \in Inums /\ Settled(dino, Fresh, ip)
  BY <1>1, AtIlock DEF IpPoints
<1>3. q \in Locals /\ q.put = <<>> /\ PlaceFit(q, "open") /\ q.op # "link"
  BY <1>0, <1>1, HeldAtPoint DEF PlaceFit, IpPoints, CallOps
<1>4. Owes(q, "open") = 0 /\ Owes(q, "end") = 0
  BY <1>3 DEF Owes, SecondHalf
<1>5. CASE icache' = [icache EXCEPT ![ip] = Loaded(ip)] /\ Put(p, <<ip>>, "end")
  <2>1. CacheGood(p)
    BY <1>0, <1>1, <1>2, <1>5, IlockPlain, CacheAlike
  <2>2. PlaceHolds(dino, icache', Fresh, p, q, "end")
    BY EndHolds
  <2> QED
    BY <1>0, <1>1, <1>2, <1>4, <1>5, <2>1, <2>2, PuttingIn
<1>6. CASE icache' = c /\ Goto(p, "openfile", t)
  <2>1. Alike(icache, c) /\ CacheFits(c, dino) /\ LocksKept(p, icache, c) /\ c[ip].lock = p
    BY <1>0, <1>1, <1>2, IlockEntry DEF FilesTypeOK
  <2> HIDE DEF c
  <2>2. CacheGood(p)
    BY <1>0, <1>6, <2>1, CacheAlike
  <2>3. t.put = <<>> /\ t.tgt = ip /\ t.op = q.op
    BY <1>3 DEF Locals
  <2> HIDE DEF t
  <2>4. ~SecondHalf(t, "openfile") /\ PlaceUses(t, "openfile") = {ip} /\ Owes(t, "openfile") = 0
    BY <1>3, <2>3 DEF SecondHalf, PlaceUses, UsesTgt, IpPoints, TgtPoints, Owes
  <2>5. PlaceHolds(dino, icache', Fresh, p, t, "openfile")
    BY <1>2, <1>6, <2>1, <2>3, <2>4 DEF PlaceHolds
  <2>6. "openfile" \notin Iputs /\ "openfile" # "created"
    BY DEF Iputs
  <2> QED
    BY <1>0, <1>1, <1>4, <1>6, <2>2, <2>3, <2>4, <2>5, <2>6, GoingIn
<1> QED
  BY <1>5, <1>6 DEF OpenFound

LEMMA CreateExistsTree ==
  ASSUME TreeCondition, FilesInv, TreeInv, NEW p \in Procs, CreateExists(p)
  PROVE  TreeInv'
<1> DEFINE q == r[p]
           ip == q.tgt
           c == [icache EXCEPT ![ip] = [Loaded(ip) EXCEPT !.lock = p]]
<1>0. FilesTypeOK /\ ShapeInv /\ Sound(p) /\ CacheFits(icache, dino)
  BY CreateExistsSound DEF FilesInv, TreeInv
<1>1. /\ pc[p] = "exists" /\ pc[p] \notin Iputs /\ InCall(p)
      /\ icache[ip].lock = 0 /\ ~LoadPanics(ip)
  BY DEF CreateExists, Ilock, Wanted, FSame, InCall, Outside, Iputs
<1>2. PlaceHolds(dino, icache, Fresh, p, q, "exists") /\ ip \in Inums /\ Settled(dino, Fresh, ip)
  BY <1>1, AtIlock DEF TgtPoints
<1>3. q \in Locals /\ q.put = <<>> /\ PlaceFit(q, "exists") /\ q.op # "link"
  BY <1>0, <1>1, HeldAtPoint DEF PlaceFit, TgtPoints, CallOps
<1>4. Owes(q, "exists") = 0 /\ Owes(q, "end") = 0 /\ Owes(q, "openfile") = 0
  BY <1>3 DEF Owes, SecondHalf
<1>5. CASE icache' = [icache EXCEPT ![ip] = Loaded(ip)] /\ Put(p, <<ip>>, "end")
  <2>1. CacheGood(p)
    BY <1>0, <1>1, <1>2, <1>5, IlockPlain, CacheAlike
  <2>2. PlaceHolds(dino, icache', Fresh, p, q, "end")
    BY EndHolds
  <2> QED
    BY <1>0, <1>1, <1>2, <1>4, <1>5, <2>1, <2>2, PuttingIn
<1>6. CASE icache' = c /\ Goto(p, "openfile", q)
  <2>1. Alike(icache, c) /\ CacheFits(c, dino) /\ LocksKept(p, icache, c) /\ c[ip].lock = p
    BY <1>0, <1>1, <1>2, IlockEntry DEF FilesTypeOK
  <2> HIDE DEF c
  <2>2. CacheGood(p)
    BY <1>0, <1>6, <2>1, CacheAlike
  <2>3. ~SecondHalf(q, "openfile") /\ PlaceUses(q, "openfile") = {ip}
    BY <1>3 DEF SecondHalf, PlaceUses, UsesTgt, IpPoints, TgtPoints
  <2>4. PlaceHolds(dino, icache', Fresh, p, q, "openfile")
    BY <1>2, <1>6, <2>1, <2>3 DEF PlaceHolds
  <2>5. "openfile" \notin Iputs /\ "openfile" # "created"
    BY DEF Iputs
  <2> QED
    BY <1>0, <1>1, <1>3, <1>4, <1>6, <2>2, <2>4, <2>5, GoingIn
<1> QED
  BY <1>5, <1>6 DEF CreateExists

\* A lock of p's is given back, and the reference goes to iput.
LEMMA GivenBack ==
  ASSUME FilesTypeOK, CacheFits(icache, dino), NEW p \in Procs, NEW i \in Inums, icache[i].lock = p,
         icache' = [icache EXCEPT ![i].lock = 0]
  PROVE  CacheGood(p)
<1> DEFINE x == [icache[i] EXCEPT !.lock = 0]
<1>1. icache \in [Inums -> CacheEntry] /\ icache[i] \in CacheEntry
  BY DEF FilesTypeOK
<1>2. x.valid = icache[i].valid /\ x.type = icache[i].type /\ x.nlink = icache[i].nlink
      /\ x \in CacheEntry /\ x.ref = icache[i].ref /\ x.lock = 0
  BY <1>1 DEF CacheEntry
<1>3. x.valid /\ x.type = dino[i].type /\ x.nlink = dino[i].nlink /\ dino[i].type # "free"
  BY <1>2, InumIs DEF CacheFits
<1>4. icache' = [icache EXCEPT ![i] = x]
  OBVIOUS
<1> HIDE DEF x
<1> DEFINE c == [icache EXCEPT ![i] = x]
<1>5. CacheFits(c, dino)
  BY <1>1, <1>3, SetFits
<1>6. LocksKept(p, icache, c)
  BY <1>1, SetLocks
<1>7. Alike(icache, c)
  BY <1>1, <1>2, CacheSet
<1> HIDE DEF c
<1>8. icache' = c
  BY <1>4 DEF c
<1> QED
  BY <1>5, <1>6, <1>7, <1>8, CacheAlike

LEMMA MadeTree ==
  ASSUME TreeCondition, FilesInv, TreeInv, NEW p \in Procs, Made(p)
  PROVE  TreeInv'
<1> DEFINE q == r[p]
           ip == q.tgt
<1>0. FilesTypeOK /\ ShapeInv /\ Sound(p) /\ CacheFits(icache, dino)
  BY MadeSound DEF FilesInv, TreeInv
<1>1. /\ pc[p] = "made" /\ pc[p] \notin Iputs /\ InCall(p)
      /\ icache' = [icache EXCEPT ![ip].lock = 0] /\ Put(p, <<ip>>, "end")
  BY DEF Made, FSame, InCall, Outside, Iputs
<1>2. PlaceHolds(dino, icache, Fresh, p, q, "made") /\ ip \in Inums /\ Settled(dino, Fresh, ip)
  BY <1>1, AtIlock DEF TgtPoints
<1>3. q.op # "link"
  BY <1>0, <1>1, HeldAtPoint DEF PlaceFit, TgtPoints, CallOps
<1>4. Owes(q, "made") = 0 /\ Owes(q, "end") = 0
  BY <1>3 DEF Owes, SecondHalf
<1>5. icache[ip].lock = p
  BY <1>2 DEF PlaceHolds
<1>6. CacheGood(p)
  BY <1>0, <1>1, <1>2, <1>5, GivenBack
<1>7. PlaceHolds(dino, icache', Fresh, p, q, "end")
  BY EndHolds
<1> QED
  BY <1>0, <1>1, <1>2, <1>4, <1>6, <1>7, PuttingIn

LEMMA BadTree ==
  ASSUME TreeCondition, FilesInv, TreeInv, NEW p \in Procs, Bad(p)
  PROVE  TreeInv'
<1> DEFINE q == r[p]
           dp == q.ip
<1>0. FilesTypeOK /\ ShapeInv /\ Sound(p) /\ CacheFits(icache, dino)
  BY BadSound DEF FilesInv, TreeInv
<1>1. /\ pc[p] = "bad" /\ pc[p] \notin Iputs /\ InCall(p)
      /\ icache' = [icache EXCEPT ![dp].lock = 0] /\ Put(p, <<dp>>, Missed(q))
  BY DEF Bad, FSame, InCall, Outside, Iputs
<1>2. PlaceHolds(dino, icache, Fresh, p, q, "bad") /\ dp \in Inums /\ Settled(dino, Fresh, dp)
  BY <1>1, AtIlock DEF IpPoints
<1>3. icache[dp].lock = p
  BY <1>2 DEF PlaceHolds
<1>4. CacheGood(p)
  BY <1>0, <1>1, <1>2, <1>3, GivenBack
<1>5. PlaceHolds(dino, icache', Fresh, p, q, Missed(q)) /\ Owes(q, Missed(q)) = Owes(q, pc[p])
  BY <1>1, <1>2, MissedHolds
<1> QED
  BY <1>0, <1>1, <1>2, <1>4, <1>5, PuttingIn

\* What a process is at, it has a reference to.
LEMMA OwnRef ==
  ASSUME TreeCondition, FilesInv, NEW p \in Procs, pc[p] \notin Iputs
  PROVE  /\ pc[p] \in IpPoints => /\ r[p].ip \in Inums /\ icache[r[p].ip].ref \in Int /\ icache[r[p].ip].ref >= 1
                                  /\ HeldCount(r[p], pc[p], r[p].ip) >= 1
         /\ pc[p] \in TgtPoints => /\ r[p].tgt \in Inums /\ icache[r[p].tgt].ref \in Int /\ icache[r[p].tgt].ref >= 1
                                   /\ HeldCount(r[p], pc[p], r[p].tgt) >= 1
<1>0. FilesTypeOK /\ ShapeInv
  BY DEF FilesInv
<1>1. Place(r[p], pc[p]) = pc[p] /\ PlaceFit(r[p], pc[p])
  BY <1>0 DEF Place, ShapeInv, LocalsFit
<1>2. CASE pc[p] \in IpPoints
  <2>1. r[p].ip \in Inums /\ PlaceCount(r[p], pc[p], r[p].ip) >= 1
    BY <1>1, <1>2, PlaceUsesHeld DEF PlaceFit
  <2>2. HeldCount(r[p], pc[p], r[p].ip) >= 1
    BY <1>0, <1>1, <2>1, HasHeld
  <2>3. icache[r[p].ip].ref \in Int /\ icache[r[p].ip].ref >= 1
    BY <2>1, <2>2, RefHeld
  <2>4. pc[p] \in TgtPoints => /\ r[p].tgt \in Inums /\ icache[r[p].tgt].ref \in Int /\ icache[r[p].tgt].ref >= 1
                               /\ HeldCount(r[p], pc[p], r[p].tgt) >= 1
    <3> SUFFICES ASSUME pc[p] \in TgtPoints
                 PROVE  /\ r[p].tgt \in Inums /\ icache[r[p].tgt].ref \in Int /\ icache[r[p].tgt].ref >= 1
                        /\ HeldCount(r[p], pc[p], r[p].tgt) >= 1
      OBVIOUS
    <3>1. r[p].tgt \in Inums /\ PlaceCount(r[p], pc[p], r[p].tgt) >= 1
      BY <1>1, PlaceUsesHeld DEF PlaceFit, UsesTgt
    <3>2. HeldCount(r[p], pc[p], r[p].tgt) >= 1
      BY <1>0, <1>1, <3>1, HasHeld
    <3> QED
      BY <3>1, <3>2, RefHeld
  <2> QED
    BY <2>1, <2>2, <2>3, <2>4
<1>3. CASE pc[p] \notin IpPoints
  <2> SUFFICES ASSUME pc[p] \in TgtPoints
               PROVE  /\ r[p].tgt \in Inums /\ icache[r[p].tgt].ref \in Int /\ icache[r[p].tgt].ref >= 1
                      /\ HeldCount(r[p], pc[p], r[p].tgt) >= 1
    BY <1>3
  <2>1. r[p].tgt \in Inums /\ PlaceCount(r[p], pc[p], r[p].tgt) >= 1
    BY <1>1, PlaceUsesHeld DEF PlaceFit, UsesTgt
  <2>2. HeldCount(r[p], pc[p], r[p].tgt) >= 1
    BY <1>0, <1>1, <2>1, HasHeld
  <2> QED
    BY <2>1, <2>2, RefHeld
<1> QED
  BY <1>2, <1>3

\* unlink() takes the inode that the name leads to, which is in the tree.
LEMMA UnlinkTree ==
  ASSUME TreeCondition, FilesInv, TreeInv, NEW p \in Procs, Unlink(p)
  PROVE  TreeInv'
<1> DEFINE q == r[p]
           dp == q.ip
           name == Head(q.path)
           ip == dino[dp].ents[name]
           c == [icache EXCEPT ![dp] = [Loaded(dp) EXCEPT !.lock = p]]
           t == [q EXCEPT !.tgt = ip]
<1>0. FilesTypeOK /\ ShapeInv /\ Sound(p) /\ CacheFits(icache, dino)
  BY UnlinkSound DEF FilesInv, TreeInv
<1>1. /\ pc[p] = "unlink" /\ pc[p] \notin Iputs /\ InCall(p)
      /\ icache[dp].lock = 0 /\ ~LoadPanics(dp)
  BY DEF Unlink, Ilock, Wanted, FSame, InCall, Outside, Iputs
<1>2. PlaceHolds(dino, icache, Fresh, p, q, "unlink") /\ dp \in Inums /\ Settled(dino, Fresh, dp)
  BY <1>1, AtIlock DEF IpPoints
<1>3. q \in Locals /\ q.put = <<>> /\ PlaceFit(q, "unlink") /\ q.op # "link" /\ Len(q.path) = 1
  BY <1>0, <1>1, HeldAtPoint DEF PlaceFit, IpPoints, CallOps
<1>4. Owes(q, "unlink") = 0 /\ Owes(q, "end") = 0
  BY <1>3 DEF Owes, SecondHalf
<1>5. CASE icache' = [icache EXCEPT ![dp] = Loaded(dp)] /\ Put(p, <<dp>>, "end")
  <2>1. CacheGood(p)
    BY <1>0, <1>1, <1>2, <1>5, IlockPlain, CacheAlike
  <2>2. PlaceHolds(dino, icache', Fresh, p, q, "end")
    BY EndHolds
  <2> QED
    BY <1>0, <1>1, <1>2, <1>4, <1>5, <2>1, <2>2, PuttingIn
<1>6. CASE icache' = Iget(c, ip) /\ Goto(p, "unlinkip", t) /\ name # ".." /\ ip # 0
  <2>1. Alike(icache, c) /\ CacheFits(c, dino) /\ LocksKept(p, icache, c) /\ c[dp].lock = p
    BY <1>0, <1>1, <1>2, IlockEntry DEF FilesTypeOK
  <2>2. name \in Dots /\ name \in Names
    <3>1. q.path \in Seq(Dots)
      BY <1>3 DEF Locals
    <3>2. q.path # <<>>
      <4> HIDE DEF q
      <4> QED
        BY <1>3
    <3> QED
      BY <1>0, <1>2, <1>6, <3>1, <3>2, EntryIs DEF Dots
  <2>3. ip \in Inums /\ Attached(dino, ip)
    BY <1>0, <1>2, <1>6, <2>2, NamedAttached DEF TreeInv, FilesTypeOK
  <2>4. Settled(dino, Fresh, ip) /\ Reach(p, ip)
    BY <2>3, AttachedSettled DEF Reach
  <2> HIDE DEF c
  <2>5. CacheGood(p)
    <3> HIDE DEF ip
    <3> QED
      BY <1>0, <1>6, <2>1, <2>3, <2>4, CacheIget
  <2>6. icache'[dp].lock = p
    <3>1. c[dp].ref # 0 /\ c \in [Inums -> CacheEntry]
      BY <1>1, <1>2, <2>1, OwnRef DEF Alike, IpPoints
    <3> HIDE DEF ip
    <3> QED
      BY <1>2, <1>6, <2>1, <2>3, <3>1, IgetEntry
  <2>7. t.put = <<>> /\ t.tgt = ip /\ t.op = q.op /\ t.ip = dp /\ t.path = q.path
    BY <1>3 DEF Locals
  <2> HIDE DEF t
  <2>8. ~SecondHalf(t, "unlinkip") /\ PlaceUses(t, "unlinkip") = {dp, ip} /\ Owes(t, "unlinkip") = 0
    BY <1>3, <2>7 DEF SecondHalf, PlaceUses, UsesTgt, IpPoints, TgtPoints, Owes
  <2>9. PlaceHolds(dino, icache', Fresh, p, t, "unlinkip")
    <3>1. dino[dp].type = "dir"
      BY <1>2 DEF PlaceHolds
    <3>2. \A i \in PlaceUses(t, "unlinkip") : Settled(dino, Fresh, i)
      BY <1>2, <2>4, <2>8
    <3> QED
      BY <2>2, <2>6, <2>7, <2>8, <3>1, <3>2 DEF PlaceHolds
  <2>10. "unlinkip" \notin Iputs /\ "unlinkip" # "created"
    BY DEF Iputs
  <2> QED
    BY <1>0, <1>1, <1>4, <1>6, <2>5, <2>7, <2>8, <2>9, <2>10, GoingIn
<1> QED
  BY <1>5, <1>6 DEF Unlink

\* chdir() puts the old directory for the new.
LEMMA ChdirTree ==
  ASSUME TreeCondition, FilesInv, TreeInv, NEW p \in Procs, Chdir(p)
  PROVE  TreeInv'
<1> DEFINE q == r[p]
           ip == q.ip
           c == [icache EXCEPT ![ip] = Loaded(ip)]
<1>0. FilesTypeOK /\ ShapeInv /\ Sound(p) /\ CacheFits(icache, dino)
  BY ChdirSound DEF FilesInv, TreeInv
<1>1. /\ pc[p] = "chdir" /\ pc[p] \notin Iputs /\ icache' = c
      /\ icache[ip].lock = 0 /\ ~LoadPanics(ip) /\ UNCHANGED <<dino, stable, tx, ftable>>
  BY DEF Chdir, Ilock, Wanted, Iputs
<1>2. PlaceHolds(dino, icache, Fresh, p, q, "chdir") /\ ip \in Inums /\ Settled(dino, Fresh, ip)
  BY <1>1, AtIlock DEF IpPoints
<1>3. q \in Locals /\ q.put = <<>> /\ PlaceFit(q, "chdir") /\ q.op # "link" /\ cwd[p] \in Inums
  BY <1>0, <1>1, HeldAtPoint DEF PlaceFit, IpPoints, CallOps
<1>4. Owes(q, "chdir") = 0 /\ Owes(q, "end") = 0 /\ Place(q, "chdir") = "chdir"
  BY <1>3 DEF Owes, SecondHalf, Place, Iputs
<1>5. Alike(icache, c) /\ CacheFits(c, dino) /\ LocksKept(p, icache, c) /\ Loaded(ip).type = dino[ip].type
  BY <1>0, <1>1, <1>2, IlockPlain, LoadedFits
<1> HIDE DEF c
<1>6. CacheGood(p)
  BY <1>0, <1>1, <1>5, CacheAlike
<1>7. PlaceHolds(dino, icache', Fresh, p, q, "end")
  BY EndHolds
<1>8. Settled(dino, Fresh, cwd[p])
  BY <1>3, InumIs DEF TreeInv
<1>9. PICK x \in {ip, cwd[p]} : Put(p, <<x>>, "end")
  BY DEF Chdir
<1>10. \A i \in ToSet(<<x>>) : Settled(dino, Fresh, i)
  BY <1>2, <1>8, <1>9, PutOne
<1>11. FilesTypeOK' /\ Moves(p)
  BY <1>0 DEF Sound
<1>12. /\ pc'[p] = "iput" /\ CallHolds(dino, icache', Fresh, p, r'[p], pc'[p])
       /\ Owes(r'[p], Place(r'[p], pc'[p])) = 0
  BY <1>0, <1>4, <1>7, <1>9, <1>10, <1>11, PutGood
<1>13. Gentle(p)
  BY <1>1, <1>4, <1>6, <1>11, <1>12 DEF Gentle, CacheGood
<1>14. InTransaction(p)
  BY <1>1 DEF TreeInv, InTransaction
<1>15. \A y \in Procs : cwd'[y] = cwd[y] \/ (dino[cwd'[y]].type = "dir" /\ Settled(dino, Fresh, cwd'[y]))
  <2>1. CASE cwd' = cwd
    BY <2>1
  <2>2. CASE Loaded(ip).type = "dir" /\ cwd' = [cwd EXCEPT ![p] = ip]
    BY <1>0, <1>2, <1>5, <2>2 DEF FilesTypeOK
  <2> QED
    BY <2>1, <2>2 DEF Chdir
<1> QED
  BY <1>1, <1>11, <1>12, <1>13, <1>14, <1>15, GentleStep

\* The file that open() makes keeps the reference of the call.
LEMMA OpenFileTree ==
  ASSUME TreeCondition, FilesInv, TreeInv, NEW p \in Procs, OpenFile(p)
  PROVE  TreeInv'
<1> DEFINE q == r[p]
           ip == q.tgt
<1>0. FilesTypeOK /\ ShapeInv /\ Sound(p) /\ CacheFits(icache, dino)
  BY OpenFileSound DEF FilesInv, TreeInv
<1>1. /\ pc[p] = "openfile" /\ pc[p] \notin Iputs
      /\ icache' = [icache EXCEPT ![ip].lock = 0] /\ UNCHANGED <<dino, stable, tx, cwd>>
  BY DEF OpenFile, Iputs
<1>2. PlaceHolds(dino, icache, Fresh, p, q, "openfile") /\ ip \in Inums /\ Settled(dino, Fresh, ip)
  BY <1>1, AtIlock DEF TgtPoints
<1>3. q.op # "link" /\ q.put = <<>>
  BY <1>0, <1>1, HeldAtPoint DEF PlaceFit, TgtPoints, CallOps
<1>4. Owes(q, "openfile") = 0 /\ Owes(q, "end") = 0 /\ Place(q, "openfile") = "openfile"
  BY <1>3 DEF Owes, SecondHalf, Place, Iputs
<1>5. icache[ip].lock = p
  BY <1>2 DEF PlaceHolds
<1>6. CacheGood(p)
  BY <1>0, <1>1, <1>2, <1>5, GivenBack
<1>7. PlaceHolds(dino, icache', Fresh, p, q, "end")
  BY EndHolds
<1>8. FilesTypeOK' /\ Moves(p)
  BY <1>0 DEF Sound
<1>9. /\ pc'[p] \in {"iput", "end"} /\ CallHolds(dino, icache', Fresh, p, r'[p], pc'[p])
      /\ Owes(r'[p], Place(r'[p], pc'[p])) = 0
  <2>1. CASE Put(p, <<ip>>, "end")
    <3>1. \A i \in ToSet(<<ip>>) : Settled(dino, Fresh, i)
      BY <1>2, PutOne
    <3> QED
      BY <1>0, <1>4, <1>7, <1>8, <2>1, <3>1, PutGood
  <2>2. CASE Goto(p, "end", q)
    <3>1. "end" \notin Iputs
      BY DEF Iputs
    <3> QED
      BY <1>0, <1>3, <1>4, <1>7, <2>2, <3>1, GoGood
  <2> QED
    BY <2>1, <2>2 DEF OpenFile
<1>10. Gentle(p)
  BY <1>1, <1>4, <1>6, <1>8, <1>9 DEF Gentle, CacheGood
<1>11. InTransaction(p)
  BY <1>1 DEF TreeInv, InTransaction
<1>12. \A f \in Fds : ftable'[f].ip = ftable[f].ip \/ Settled(dino, Fresh, ftable'[f].ip)
  BY <1>0, <1>2 DEF OpenFile, FilesTypeOK
<1>13. \A x \in Procs : cwd'[x] = cwd[x]
  BY <1>1
<1> QED
  BY <1>1, <1>8, <1>9, <1>10, <1>11, <1>12, <1>13, GentleStep

\* iput.  The locks that a process keeps are enough for the place it goes on to.
LEMMA PlaceLocked ==
  ASSUME NEW d, NEW c, NEW c2, NEW F, NEW p, NEW q, NEW place, PlaceFit(q, place),
         PlaceHolds(d, c, F, p, q, place), \A i \in Inums : c[i].lock = p => c2[i].lock = p
  PROVE  PlaceHolds(d, c2, F, p, q, place)
<1>1. \A i \in Inums : Kept(d, c, F, d, c2, F, p, i)
  BY DEF Kept
<1> QED
  BY <1>1, PlaceKept

LEMMA AtIput ==
  ASSUME FilesInv, TreeInv, NEW p \in Procs, pc[p] \in Iputs
  PROVE  LET q == r[p] i == Head(q.put) IN
           /\ q \in Locals /\ q.put \in Seq(Inums) /\ q.put # <<>> /\ i \in Inums
           /\ q.then \in Thens /\ PlaceFit(q, q.then) /\ \A at \in Iputs : Place(q, at) = q.then
           /\ PutHolds(dino, icache, Fresh, p, q, pc[p])
           /\ PlaceHolds(dino, icache, Fresh, p, q, q.then)
           /\ HeldCount(q, pc[p], i) >= 1
<1> DEFINE q == r[p]
           i == Head(q.put)
<1>1. FilesTypeOK /\ ShapeInv
  BY DEF FilesInv
<1>2. /\ q \in Locals /\ q.put \in Seq(Inums) /\ q.put # <<>> /\ i \in Inums
      /\ q.then \in Thens /\ PlaceFit(q, q.then)
  BY <1>1, InIputs
<1>3. \A at \in Iputs : Place(q, at) = q.then
  BY DEF Place
<1>4. CallHolds(dino, icache, Fresh, p, q, pc[p])
  BY DEF TreeInv
<1>5. PutHolds(dino, icache, Fresh, p, q, pc[p]) /\ PlaceHolds(dino, icache, Fresh, p, q, q.then)
  BY <1>3, <1>4 DEF CallHolds
<1>6. i \in ToSet(q.put)
  BY <1>2, SeqParts
<1>7. HeldCount(q, pc[p], i) >= 1
  BY <1>1, <1>6, HasHeld
<1> QED
  BY <1>2, <1>3, <1>5, <1>7

LEMMA IputLookTree ==
  ASSUME TreeCondition, FilesInv, TreeInv, NEW p \in Procs, IputLook(p)
  PROVE  TreeInv'
<1> DEFINE q == r[p]
           i == Head(q.put)
           x == [icache[i] EXCEPT !.lock = p]
           c == [icache EXCEPT ![i] = x]
<1>0. FilesTypeOK /\ ShapeInv /\ Sound(p) /\ CacheFits(icache, dino)
  BY IputLookSound DEF FilesInv, TreeInv
<1>1. pc[p] = "iput" /\ pc[p] \in Iputs /\ InCall(p) /\ icache[i].lock = 0
  BY DEF IputLook, FSame, InCall, Outside, Iputs
<1>2. /\ q \in Locals /\ q.put \in Seq(Inums) /\ q.put # <<>> /\ i \in Inums
      /\ PlaceFit(q, q.then) /\ \A at \in Iputs : Place(q, at) = q.then
      /\ PlaceHolds(dino, icache, Fresh, p, q, q.then)
      /\ PutHolds(dino, icache, Fresh, p, q, "iput")
  BY <1>1, AtIput
<1>3. \A y \in ToSet(q.put) : Settled(dino, Fresh, y)
  BY <1>2 DEF PutHolds
<1>4. ToSet(Tail(q.put)) \subseteq ToSet(q.put)
  BY <1>2, SeqParts
<1>5. CASE icache' = icache /\ Goto(p, "drop", q)
  <2>1. r'[p] = q /\ pc'[p] = "drop" /\ "drop" \in Iputs
    BY <1>0, <1>5 DEF Goto, FilesTypeOK, Iputs
  <2>2. PutHolds(dino, icache', Fresh, p, q, "drop")
    BY <1>3, <1>4 DEF PutHolds
  <2>3. CallHolds(dino, icache', Fresh, p, r'[p], pc'[p])
    BY <1>2, <1>5, <2>1, <2>2 DEF CallHolds
  <2>4. CacheGood(p)
    BY <1>0, <1>5, CacheSame
  <2> QED
    BY <1>0, <1>1, <1>2, <2>1, <2>3, <2>4, CallStep
<1>6. CASE /\ icache' = c /\ Goto(p, "free", q)
           /\ icache[i].valid /\ icache[i].nlink = 0 /\ icache[i].ref = 1
  <2>1. r'[p] = q /\ pc'[p] = "free" /\ "free" \in Iputs
    BY <1>0, <1>6 DEF Goto, FilesTypeOK, Iputs
  <2>2. icache[i] \in CacheEntry
    BY <1>0, <1>2 DEF FilesTypeOK
  <2>3. /\ x \in CacheEntry /\ x.ref = icache[i].ref /\ x.valid = icache[i].valid
        /\ x.type = icache[i].type /\ x.nlink = icache[i].nlink /\ x.lock = p
    BY <2>2 DEF CacheEntry
  <2>4. icache[i].type = dino[i].type /\ icache[i].nlink = dino[i].nlink /\ dino[i].type # "free"
    BY <1>0, <1>2, <1>6 DEF CacheFits
  <2> HIDE DEF x
  <2>5. Alike(icache, c) /\ CacheFits(c, dino) /\ LocksKept(p, icache, c)
    <3>1. icache \in [Inums -> CacheEntry]
      BY <1>0 DEF FilesTypeOK
    <3>2. Alike(icache, c)
      BY <3>1, <1>2, <2>3, CacheSet
    <3>a. x.valid /\ x.type = dino[i].type /\ x.nlink = dino[i].nlink /\ dino[i].type # "free"
      BY <1>6, <2>3, <2>4
    <3> HIDE DEF i
    <3>3. CacheFits(c, dino)
      BY <3>1, <1>0, <1>2, <3>a, SetFits
    <3>4. LocksKept(p, icache, c)
      BY <3>1, <1>1, <1>2, SetLocks
    <3> QED
      BY <3>2, <3>3, <3>4
  <2>6. c[i].lock = p /\ c[i].ref <= 1 /\ \A j \in Inums : icache[j].lock = p => c[j].lock = p
    <3>1. c[i] = x /\ \A j \in Inums \ {i} : c[j] = icache[j]
      BY <1>0, <1>2 DEF FilesTypeOK
    <3> HIDE DEF c
    <3>2. x.ref = 1 /\ x.lock = p
      BY <1>6, <2>3
    <3> QED
      BY <3>1, <3>2
  <2> HIDE DEF c
  <2>7. CacheGood(p)
    BY <1>0, <1>6, <2>5, CacheAlike
  <2>8. PutHolds(dino, icache', Fresh, p, q, "free")
    BY <1>3, <1>6, <2>4, <2>6 DEF PutHolds
  <2>9. PlaceHolds(dino, icache', Fresh, p, q, q.then)
    BY <1>2, <1>6, <2>6, PlaceLocked
  <2>10. CallHolds(dino, icache', Fresh, p, r'[p], pc'[p])
    BY <1>2, <2>1, <2>8, <2>9 DEF CallHolds
  <2> QED
    BY <1>0, <1>1, <1>2, <2>1, <2>7, <2>10, CallStep
<1> QED
  BY <1>5, <1>6 DEF IputLook, LastRef

LEMMA IputDropTree ==
  ASSUME TreeCondition, FilesInv, TreeInv, NEW p \in Procs, IputDrop(p)
  PROVE  TreeInv'
<1> DEFINE q == r[p]
           i == Head(q.put)
           rest == Tail(q.put)
           t == [q EXCEPT !.put = rest]
           x == [icache[i] EXCEPT !.ref = @ - 1]
<1>0. FilesTypeOK /\ ShapeInv /\ Sound(p) /\ CacheFits(icache, dino)
  BY IputDropSound DEF FilesInv, TreeInv
<1>1. pc[p] = "drop" /\ pc[p] \in Iputs /\ InCall(p)
  BY DEF IputDrop, FSame, InCall, Outside, Iputs
<1>2. /\ q \in Locals /\ q.put \in Seq(Inums) /\ q.put # <<>> /\ i \in Inums
      /\ q.then \in Thens /\ PlaceFit(q, q.then) /\ \A at \in Iputs : Place(q, at) = q.then
      /\ PlaceHolds(dino, icache, Fresh, p, q, q.then)
      /\ PutHolds(dino, icache, Fresh, p, q, "drop")
  BY <1>1, AtIput
<1>3. \A y \in ToSet(rest) : Settled(dino, Fresh, y)
  BY <1>2 DEF PutHolds
<1>4. /\ icache'[i] = x /\ \A j \in Inums \ {i} : icache'[j] = icache[j]
      /\ icache \in [Inums -> CacheEntry]
  BY <1>0, <1>2 DEF IputDrop, FilesTypeOK
<1>5. /\ x.ref = icache[i].ref - 1 /\ icache[i].ref \in Int /\ x.lock = icache[i].lock
      /\ x.valid = icache[i].valid /\ x.type = icache[i].type /\ x.nlink = icache[i].nlink
  BY <1>0, <1>2 DEF FilesTypeOK, CacheEntry
<1> HIDE DEF x
<1>6. \A j \in Inums : /\ icache'[j].lock = icache[j].lock /\ icache'[j].valid = icache[j].valid
                       /\ icache'[j].type = icache[j].type /\ icache'[j].nlink = icache[j].nlink
  BY <1>4, <1>5
<1>7. CacheGood(p)
  <2>1. LocksKept(p, icache, icache') /\ CacheFits(icache', dino)
    BY <1>0, <1>6 DEF LocksKept, CacheFits
  <2>2. ASSUME NEW j \in Inums PROVE ~(icache'[j].ref > icache[j].ref)
    <3>1. CASE j = i
      BY <3>1, <1>4, <1>5
    <3>2. CASE j # i
      <4>1. icache'[j].ref = icache[j].ref /\ icache[j].ref \in Int
        BY <3>2, <1>4 DEF CacheEntry
      <4> QED
        BY <4>1
    <3> QED
      BY <3>1, <3>2
  <2> QED
    BY <2>1, <2>2 DEF CacheGood
<1>8. /\ t.put = rest /\ t.then = q.then /\ t.op = q.op /\ t.path = q.path
      /\ t.parent = q.parent /\ t.ip = q.ip /\ t.tgt = q.tgt
  BY <1>2 DEF Locals
<1>9. PICK at : Goto(p, at, t) /\ (at = "iput" \/ (at = q.then /\ rest = <<>>))
  BY DEF IputDrop
<1>10. r'[p] = t /\ pc'[p] = at
  BY <1>0, <1>9 DEF Goto, FilesTypeOK
<1>11. q.then \notin Iputs /\ q.then # "created"
  BY <1>2 DEF Thens, Iputs
<1> HIDE DEF t
<1>12. Place(t, at) = q.then /\ at \notin {"free", "drop", "created"}
  BY <1>8, <1>9, <1>11 DEF Place, Iputs
<1>13. PlaceHolds(dino, icache', Fresh, p, t, q.then) /\ Owes(t, q.then) = Owes(q, q.then)
  <2>1. PlaceHolds(dino, icache', Fresh, p, q, q.then)
    BY <1>2, <1>6, PlaceLocked
  <2> QED
    BY <1>8, <2>1, SameHolds
<1>14. PutHolds(dino, icache', Fresh, p, t, at)
  BY <1>3, <1>8, <1>12 DEF PutHolds
<1>15. CallHolds(dino, icache', Fresh, p, r'[p], pc'[p])
  BY <1>10, <1>12, <1>13, <1>14 DEF CallHolds
<1>16. Place(r[p], pc[p]) = q.then
  BY <1>1, <1>2
<1> QED
  BY <1>0, <1>1, <1>7, <1>10, <1>12, <1>13, <1>15, <1>16, CallStep

\* Steps inside a call that change the disk.
Writing(p) == pc[p] \notin Outside /\ UNCHANGED <<stable, tx, ftable, cwd>>

LEMMA WritingStep ==
  ASSUME TreeCondition, FilesInv, TreeInv, NEW p \in Procs, Sound(p), Writing(p), Keeps(p),
         TreeShape(dino'), Counted(dino', Owed'), CacheFits(icache', dino'),
         CallHolds(dino', icache', Fresh', p, r'[p], pc'[p])
  PROVE  TreeInv'
<1>1. FilesTypeOK'
  BY DEF Sound
<1>2. TreeShape(stable') /\ Counted(stable', NothingOwed)
  BY DEF TreeInv, Writing
<1>3. InTransaction(p)
  <2>1. p \in tx
    BY DEF TreeInv, Writing, Outside
  <2> QED
    BY <2>1 DEF Writing, InTransaction
<1>4. KeepsUsed
  BY DEF Writing, KeepsUsed
<1> QED
  BY <1>1, <1>2, <1>3, <1>4, TreeStep

\* What p owes is all that changes ...
LEMMA CountedDebt ==
  ASSUME TreeCondition, NEW d, NEW d2, NEW owed, NEW owed2, Counted(d, owed),
         \A e \in Spots : NameAt(d2)[e] = NameAt(d)[e],
         \A x \in Inums : ParentOf(d2)[x] = ParentOf(d)[x],
         NEW p \in Procs, \A x \in Procs \ {p} : owed2[x] = owed[x],
         \A i \in Inums : d2[i].nlink = d[i].nlink - One(owed[p], i) + One(owed2[p], i)
  PROVE  Counted(d2, owed2)
<1> SUFFICES ASSUME NEW i \in Inums
             PROVE  d2[i].nlink = Cardinality(Entries(d2, i)) + Cardinality(Kids(d2, i)) + One(ROOTINO, i)
                                    + CountOf(owed2, Procs, i)
  BY DEF Counted
<1>1. OnlyAt(owed, owed2, Procs, p)
  BY FiniteTree DEF OnlyAt
<1>2. /\ {e \in Spots : NameAt(d2)[e] = i} = {e \in Spots : NameAt(d)[e] = i}
      /\ {x \in Inums : ParentOf(d2)[x] = i} = {x \in Inums : ParentOf(d)[x] = i}
  OBVIOUS
<1>3. /\ CountOf(NameAt(d2), Spots, i) = CountOf(NameAt(d), Spots, i)
      /\ CountOf(ParentOf(d2), Inums, i) = CountOf(ParentOf(d), Inums, i)
  BY <1>2 DEF CountOf
<1>4. CountOf(owed2, Procs, i) = CountOf(owed, Procs, i) - One(owed[p], i) + One(owed2[p], i)
  BY <1>1, CountChange
<1>5. /\ Cardinality(Entries(d, i)) = CountOf(NameAt(d), Spots, i)
      /\ Cardinality(Kids(d, i)) = CountOf(ParentOf(d), Inums, i)
      /\ Cardinality(Entries(d2, i)) = CountOf(NameAt(d2), Spots, i)
      /\ Cardinality(Kids(d2, i)) = CountOf(ParentOf(d2), Inums, i)
      /\ CountOf(NameAt(d), Spots, i) \in Nat /\ CountOf(ParentOf(d), Inums, i) \in Nat
      /\ CountOf(owed, Procs, i) \in Nat
  BY Tallies, OwedCounts
<1>6. d[i].nlink = Cardinality(Entries(d, i)) + Cardinality(Kids(d, i)) + One(ROOTINO, i) + CountOf(owed, Procs, i)
  BY DEF Counted
<1>7. d2[i].nlink = d[i].nlink - One(owed[p], i) + One(owed2[p], i)
  OBVIOUS
<1>8. One(owed[p], i) \in Nat /\ One(owed2[p], i) \in Nat /\ One(ROOTINO, i) \in Nat
  BY OneType
<1> QED
  BY ONLY <1>3, <1>4, <1>5, <1>6, <1>7, <1>8

\* ... or nothing does.
LEMMA CountedSame ==
  ASSUME TreeCondition, NEW d, NEW d2, NEW owed, NEW owed2, Counted(d, owed),
         \A e \in Spots : NameAt(d2)[e] = NameAt(d)[e],
         \A x \in Inums : ParentOf(d2)[x] = ParentOf(d)[x],
         NEW p \in Procs, \A x \in Procs : owed2[x] = owed[x],
         \A i \in Inums : d2[i].nlink = d[i].nlink /\ d[i].nlink \in Int
  PROVE  Counted(d2, owed2)
<1>1. \A i \in Inums : d2[i].nlink = d[i].nlink - One(owed[p], i) + One(owed2[p], i)
  BY OneType
<1> QED
  BY <1>1, CountedDebt

\* The last reference goes, and the inode with it.
LEMMA IputFreeTree ==
  ASSUME TreeCondition, FilesInv, TreeInv, NEW p \in Procs, IputFree(p)
  PROVE  TreeInv'
<1> DEFINE q == r[p]
           i == Head(q.put)
           x == Freed(icache[i])
<1>0. /\ FilesTypeOK /\ ShapeInv /\ Sound(p) /\ CacheFits(icache, dino) /\ FilesTypeOK' /\ Moves(p)
      /\ TreeShape(dino) /\ Counted(dino, Owed)
  BY IputFreeSound DEF FilesInv, TreeInv, Sound
<1>1. pc[p] = "free" /\ pc[p] \in Iputs /\ "drop" \in Iputs /\ Writing(p)
  BY DEF IputFree, FSame, Writing, Outside, Iputs
<1>2. /\ q \in Locals /\ q.put \in Seq(Inums) /\ q.put # <<>> /\ i \in Inums
      /\ q.then \in Thens /\ PlaceFit(q, q.then) /\ \A at \in Iputs : Place(q, at) = q.then
      /\ PlaceHolds(dino, icache, Fresh, p, q, q.then)
      /\ PutHolds(dino, icache, Fresh, p, q, "free") /\ HeldCount(q, "free", i) >= 1
  BY <1>1, AtIput
<1>3. icache[i].lock = p /\ icache[i].ref <= 1 /\ dino[i].nlink = 0
  BY <1>2 DEF PutHolds
<1>4. OnlyOf(p, i) /\ HeldCount(q, "free", i) = 1
  BY <1>1, <1>2, <1>3, RefHeld
<1>5. i \notin ToSet(Tail(q.put)) /\ PlaceCount(q, q.then, i) = 0
  <2>1. HeldCount(q, "free", i) = Occ(q.put, i) + PlaceCount(q, q.then, i)
    BY <1>1, <1>2 DEF HeldCount
  <2>2. Occ(q.put, i) = Occ(Tail(q.put), i) + One(i, i) /\ Tail(q.put) \in Seq(Inums)
    BY <1>2, OccTail
  <2>3. One(i, i) = 1 /\ PlaceCount(q, q.then, i) \in Nat /\ Occ(Tail(q.put), i) \in Nat
    BY <2>2, WhereFinite, PlaceCountType DEF One
  <2>4. Occ(Tail(q.put), i) = 0 /\ PlaceCount(q, q.then, i) = 0
    BY <1>4, <2>1, <2>2, <2>3
  <2>5. ASSUME i \in ToSet(Tail(q.put)) PROVE FALSE
    <3>1. Occ(Tail(q.put), i) >= 1
      BY <2>2, <2>5, PutHeld
    <3> QED
      BY <2>4, <3>1
  <2> QED
    BY <2>4, <2>5
<1>6. /\ icache'[i] = x /\ \A j \in Inums \ {i} : icache'[j] = icache[j]
      /\ dino'[i] = Free /\ \A j \in Inums \ {i} : dino'[j] = dino[j]
      /\ dino \in [Inums -> Inode] /\ dino' \in [Inums -> Inode]
  BY <1>0, <1>2 DEF IputFree, FilesTypeOK
<1>7. r'[p] = q /\ pc'[p] = "drop"
  BY <1>0 DEF IputFree, Goto, FilesTypeOK
<1>8. x.ref = icache[i].ref /\ ~x.valid /\ x.lock = 0 /\ icache[i].ref \in Int
  BY <1>0, <1>2 DEF FilesTypeOK, CacheEntry, Freed
<1> HIDE DEF x
<1>9. ~Attached(dino, i)
  BY <1>0, <1>2, <1>3, AttachedLinks
<1>10. dino'[i].nlink = 0 /\ \A n \in Dots : dino'[i].ents[n] = 0
  BY <1>6 DEF Free
<1> HIDE DEF i
<1> DEFINE d2 == dino'
<1>a. /\ dino \in [Inums -> Inode] /\ d2 \in [Inums -> Inode] /\ i \in Inums
      /\ \A j \in Inums \ {i} : d2[j] = dino[j]
      /\ \A n \in Dots : d2[i].ents[n] = 0
      /\ d2[i].nlink = 0
  BY <1>2, <1>6, <1>10
<1> HIDE DEF d2
<1>b. /\ TreeShape(d2) /\ \A y : Entries(d2, y) = Entries(dino, y) /\ (Attached(d2, y) <=> Attached(dino, y))
      /\ \A e \in Spots : NameAt(d2)[e] = NameAt(dino)[e]
      /\ \A c \in Inums : ParentOf(d2)[c] = ParentOf(dino)[c]
  BY <1>0, <1>9, <1>a, TreeReplace
<1>11. /\ TreeShape(dino') /\ \A y : Attached(dino', y) <=> Attached(dino, y)
       /\ \A e \in Spots : NameAt(dino')[e] = NameAt(dino)[e]
       /\ \A c \in Inums : ParentOf(dino')[c] = ParentOf(dino)[c]
  BY <1>b DEF d2
<1>12. \A y \in Procs : Owed'[y] = Owed[y]
  <2>1. Owes(r'[p], Place(r'[p], pc'[p])) = Owes(r[p], Place(r[p], pc[p]))
    BY <1>1, <1>2, <1>7
  <2> QED
    BY <1>0, <2>1, OwedStep
<1>13. Counted(dino', Owed')
  <2>1. \A j \in Inums : dino'[j].nlink = dino[j].nlink /\ dino[j].nlink \in Int
    BY <1>3, <1>6, <1>10 DEF Inode
  <2> QED
    BY <1>0, <1>11, <1>12, <2>1, CountedSame
<1>14. CacheFits(icache', dino')
  BY <1>0, <1>6, <1>8 DEF CacheFits
<1>15. Keeps(p)
  <2>1. LocksKept(p, icache, icache')
    BY <1>3, <1>6 DEF LocksKept
  <2>2. ASSUME NEW j \in Inums
        PROVE  /\ dino[j].type # "free" => dino'[j].type = dino[j].type \/ OnlyOf(p, j)
               /\ icache[j].lock \notin {0, p} => /\ Attached(dino, j) => Attached(dino', j)
                                                  /\ \A n \in Names : dino'[j].ents[n] = dino[j].ents[n]
               /\ icache'[j].ref > icache[j].ref \/ dino'[j].nlink # dino[j].nlink => Reach(p, j)
    <3>1. CASE j = i
      BY <3>1, <1>3, <1>4, <1>6, <1>8, <1>10
    <3>2. CASE j # i
      <4>1. icache'[j] = icache[j] /\ dino'[j] = dino[j] /\ icache[j].ref \in Int
        BY <3>2, <1>0, <1>6 DEF FilesTypeOK, CacheEntry
      <4> QED
        BY <4>1, <1>11
    <3> QED
      BY <3>1, <3>2
  <2>3. ASSUME NEW y \in Procs \ {p}, pc[y] = "created"
        PROVE  dino'[r[y].tgt] = dino[r[y].tgt]
    <3>1. HeldCount(r[y], pc[y], r[y].tgt) >= 1 /\ r[y].tgt \in Inums
      BY <2>3, OwnRef DEF Iputs, TgtPoints
    <3>2. HeldCount(r[y], pc[y], i) = 0
      BY <1>4 DEF OnlyOf
    <3>3. r[y].tgt # i
      BY <3>1, <3>2
    <3> QED
      BY <1>6, <3>1, <3>3
  <2> QED
    BY <1>0, <1>7, <2>1, <2>2, <2>3 DEF Keeps
<1>16. \A y \in Inums \ {i} : Settled(dino, Fresh, y) => Settled(dino', Fresh', y)
  <2>1. \A y : dino[y].type # "free" /\ dino'[y].type = dino[y].type /\ Settled(dino, Fresh, y)
                 => Settled(dino', Fresh', y)
    BY <1>15, FreshKept
  <2> QED
    BY <1>6, <2>1 DEF Settled
<1>17. PlaceHolds(dino', icache', Fresh', p, q, q.then)
  <2>1. ASSUME NEW j \in Inums, PlaceCount(q, q.then, j) >= 1
        PROVE  Kept(dino, icache, Fresh, dino', icache', Fresh', p, j)
    <3>1. j # i
      BY <1>5, <2>1
    <3>2. icache'[j] = icache[j] /\ dino'[j] = dino[j]
      BY <1>6, <3>1
    <3> QED
      BY <1>11, <1>16, <3>1, <3>2 DEF Kept
  <2>2. q.then # "created"
    BY <1>2 DEF Thens
  <2> QED
    BY <1>2, <2>1, <2>2, PlaceKept
<1>18. PutHolds(dino', icache', Fresh', p, q, "drop")
  <2>1. \A y \in ToSet(q.put) : Settled(dino, Fresh, y)
    BY <1>2 DEF PutHolds
  <2>2. ToSet(Tail(q.put)) \subseteq ToSet(q.put) /\ ToSet(q.put) \subseteq Inums
    BY <1>2, SeqParts
  <2> QED
    BY <1>5, <1>16, <2>1, <2>2 DEF PutHolds
<1>19. CallHolds(dino', icache', Fresh', p, r'[p], pc'[p])
  BY <1>1, <1>2, <1>7, <1>17, <1>18 DEF CallHolds
<1> QED
  BY <1>0, <1>1, <1>11, <1>13, <1>14, <1>15, <1>19, WritingStep

\* Steps that change one inode's link count, and what p owes by as much.
Fitting(x, node) == x.valid /\ x.type = node.type /\ x.nlink = node.nlink /\ node.type # "free"

LEMMA SetBoth ==
  ASSUME NEW c, NEW c2, NEW d, NEW d2, NEW i, CacheFits(c, d),
         \A j \in Inums \ {i} : c2[j] = c[j] /\ d2[j] = d[j], Fitting(c2[i], d2[i])
  PROVE  CacheFits(c2, d2)
<1> SUFFICES ASSUME NEW j \in Inums
             PROVE  /\ c2[j].valid => c2[j].type = d2[j].type /\ c2[j].nlink = d2[j].nlink /\ d2[j].type # "free"
                    /\ c2[j].lock # 0 => c2[j].valid
  BY DEF CacheFits
<1>1. CASE j = i
  BY <1>1 DEF Fitting
<1>2. CASE j # i
  BY <1>2 DEF CacheFits
<1> QED
  BY <1>1, <1>2

LEMMA NlinkStep ==
  ASSUME TreeCondition, FilesInv, TreeInv, NEW p \in Procs, Sound(p),
         NEW i \in Inums, Settled(dino, Fresh, i), HeldCount(r[p], pc[p], i) >= 1,
         NEW n \in Int, dino' = [dino EXCEPT ![i].nlink = n],
         LocksKept(p, icache, icache'), \A j \in Inums : icache'[j].ref > icache[j].ref => Reach(p, j),
         pc'[p] # "created", Owed[p] = 0 \/ Owed[p] = i, Owed'[p] = 0 \/ Owed'[p] = i,
         n = dino[i].nlink - One(Owed[p], i) + One(Owed'[p], i)
  PROVE  /\ Keeps(p) /\ TreeShape(dino') /\ Counted(dino', Owed')
         /\ \A y \in Inums : dino'[y].type = dino[y].type
         /\ \A y \in Inums : Settled(dino, Fresh, y) => Settled(dino', Fresh', y)
<1>0. /\ FilesTypeOK /\ Moves(p) /\ TreeShape(dino) /\ Counted(dino, Owed)
  BY DEF FilesInv, TreeInv, Sound
<1> DEFINE d2 == dino'
<1>1. /\ d2[i].nlink = n /\ d2[i].type = dino[i].type /\ d2[i].ents = dino[i].ents
      /\ \A j \in Inums \ {i} : d2[j] = dino[j]
  BY <1>0 DEF FilesTypeOK, Inode
<1>2. \A j \in Inums : dino[j].nlink \in Int
  BY <1>0 DEF FilesTypeOK, Inode
<1> HIDE DEF d2
<1>3. \A j \in Inums : d2[j].type = dino[j].type /\ d2[j].ents = dino[j].ents
  BY <1>1
<1>4. \A j \in Inums : d2[j].type = "free" => d2[j].nlink = 0
  BY <1>0, <1>1 DEF Settled, TreeShape
<1>5. /\ TreeShape(d2) /\ \A j : Entries(d2, j) = Entries(dino, j) /\ (Attached(d2, j) <=> Attached(dino, j))
      /\ \A e \in Spots : NameAt(d2)[e] = NameAt(dino)[e]
      /\ \A x \in Inums : ParentOf(d2)[x] = ParentOf(dino)[x]
  BY <1>0, <1>3, <1>4, TreeSame
<1>6. \A x \in Procs \ {p} : Owed'[x] = Owed[x]
  BY <1>0, OwedStep
<1>7. ASSUME NEW j \in Inums
      PROVE  d2[j].nlink = dino[j].nlink - One(Owed[p], j) + One(Owed'[p], j)
  <2>1. CASE j = i
    BY <2>1, <1>1
  <2>2. CASE j # i
    <3>1. One(Owed[p], j) = 0 /\ One(Owed'[p], j) = 0
      BY <2>2, InumIs DEF One
    <3> QED
      BY <2>2, <3>1, <1>1, <1>2
  <2> QED
    BY <2>1, <2>2
<1>8. Counted(d2, Owed')
  BY <1>0, <1>5, <1>6, <1>7, CountedDebt
<1>9. Keeps(p)
  <2>1. Reach(p, i)
    BY DEF Reach
  <2>2. ASSUME NEW j \in Inums
        PROVE  /\ dino[j].type # "free" => dino'[j].type = dino[j].type \/ OnlyOf(p, j)
               /\ icache[j].lock \notin {0, p} => /\ Attached(dino, j) => Attached(dino', j)
                                                  /\ \A m \in Names : dino'[j].ents[m] = dino[j].ents[m]
               /\ icache'[j].ref > icache[j].ref \/ dino'[j].nlink # dino[j].nlink => Reach(p, j)
    <3>1. dino'[j].nlink # dino[j].nlink => j = i
      BY <1>1 DEF d2
    <3> QED
      BY <1>3, <1>5, <2>1, <3>1 DEF d2
  <2>3. ASSUME NEW y \in Procs \ {p}, pc[y] = "created"
        PROVE  dino'[r[y].tgt] = dino[r[y].tgt]
    <3>1. r[y].tgt \in Fresh /\ r[y].tgt \in Inums
      BY <2>3, OwnRef DEF Fresh, Iputs, TgtPoints
    <3>2. r[y].tgt # i
      BY <3>1 DEF Settled
    <3> QED
      BY <1>1, <3>1, <3>2 DEF d2
  <2> QED
    BY <1>0, <2>2, <2>3 DEF Keeps
<1>10. \A y \in Inums : Settled(dino, Fresh, y) => Settled(dino', Fresh', y)
  <2>1. \A y : dino[y].type # "free" /\ dino'[y].type = dino[y].type /\ Settled(dino, Fresh, y)
                 => Settled(dino', Fresh', y)
    BY <1>9, FreshKept
  <2> QED
    BY <1>3, <2>1 DEF Settled, d2
<1> QED
  BY <1>3, <1>5, <1>8, <1>9, <1>10 DEF d2

\* At the end of a call nothing is owed.
LEMMA PutEnd ==
  ASSUME FilesTypeOK, NEW p \in Procs, NEW i \in Inums, Put(p, <<i>>, "end")
  PROVE  pc'[p] = "iput" /\ Place(r'[p], pc'[p]) = "end" /\ Owes(r'[p], Place(r'[p], pc'[p])) = 0
<1>1. <<i>> \in Seq(Inums) /\ <<i>> # <<>> /\ "end" \in Thens
  BY DEF Thens
<1>2. PlaceFit(r[p], "end")
  BY EndPlace
<1>3. pc'[p] = "iput" /\ r'[p].then = "end"
  BY <1>1, <1>2, Putting
<1>4. Place(r'[p], pc'[p]) = "end"
  BY <1>3 DEF Place, Iputs
<1> QED
  BY <1>3, <1>4 DEF Owes, SecondHalf

LEMMA UnlinkInodeTree ==
  ASSUME TreeCondition, FilesInv, TreeInv, NEW p \in Procs, UnlinkInode(p)
  PROVE  TreeInv'
<1> DEFINE q == r[p]
           ip == q.tgt
           n == icache[ip].nlink - 1
           x == Unlocked(icache[ip], -1)
<1>0. FilesTypeOK /\ ShapeInv /\ Sound(p) /\ CacheFits(icache, dino) /\ Moves(p) /\ FilesTypeOK'
  BY UnlinkInodeSound DEF FilesInv, TreeInv, Sound
<1>1. /\ pc[p] = "nlink" /\ pc[p] \notin Iputs /\ Writing(p) /\ Put(p, <<ip>>, "end")
      /\ icache' = [icache EXCEPT ![ip] = x] /\ dino' = [dino EXCEPT ![ip].nlink = n]
  BY DEF UnlinkInode, FSame, Writing, Outside, Iputs
<1>2. PlaceHolds(dino, icache, Fresh, p, q, "nlink") /\ ip \in Inums /\ Settled(dino, Fresh, ip)
  BY <1>1, AtIlock DEF TgtPoints
<1>3. HeldCount(r[p], pc[p], ip) >= 1 /\ Place(r[p], pc[p]) = "nlink"
  BY <1>1, OwnRef DEF TgtPoints, Place
<1>4. icache[ip].lock = p /\ icache[ip].valid
  BY <1>0, <1>2, InumIs DEF PlaceHolds, CacheFits
<1>5. /\ icache[ip] \in CacheEntry /\ icache \in [Inums -> CacheEntry]
      /\ icache[ip].type = dino[ip].type /\ icache[ip].nlink = dino[ip].nlink /\ dino[ip].type # "free"
  BY <1>0, <1>2, <1>4 DEF CacheFits, FilesTypeOK
<1>6. n \in Int /\ n = dino[ip].nlink - 1
  BY <1>5 DEF CacheEntry
<1>7. /\ x \in CacheEntry /\ x.ref = icache[ip].ref /\ x.valid /\ x.type = dino[ip].type /\ x.nlink = n
  <2> DEFINE e == icache[ip]
  <2>1. e \in CacheEntry /\ e.valid
    BY <1>4, <1>5
  <2>2. n = e.nlink - 1 /\ e.nlink \in Int
    BY <2>1 DEF CacheEntry
  <2> HIDE DEF n, e
  <2>a. Unlocked(e, -1) \in CacheEntry /\ Unlocked(e, -1).ref = e.ref
    BY <2>1, UnlockedIs
  <2>b. Unlocked(e, -1).valid /\ Unlocked(e, -1).type = e.type
    BY <2>1 DEF CacheEntry, Unlocked
  <2>c. Unlocked(e, -1).nlink = e.nlink + (-1)
    BY <2>1 DEF CacheEntry, Unlocked
  <2>3. /\ Unlocked(e, -1) \in CacheEntry /\ Unlocked(e, -1).ref = e.ref /\ Unlocked(e, -1).valid
        /\ Unlocked(e, -1).type = e.type /\ Unlocked(e, -1).nlink = n
    BY <2>2, <2>a, <2>b, <2>c
  <2> QED
    BY <1>5, <2>3 DEF e
<1> HIDE DEF n, x
<1>8. /\ dino'[ip].type = dino[ip].type /\ dino'[ip].nlink = n
      /\ \A j \in Inums \ {ip} : dino'[j] = dino[j]
  BY <1>0, <1>1, <1>2 DEF FilesTypeOK, Inode
<1> DEFINE c == [icache EXCEPT ![ip] = x]
<1>9. LocksKept(p, icache, c) /\ CacheFits(c, dino') /\ Alike(icache, c)
  <2>1. LocksKept(p, icache, c)
    BY <1>2, <1>4, <1>5, SetLocks
  <2>2. Alike(icache, c)
    BY <1>5, <1>7, CacheSet
  <2>3. Fitting(x, dino'[ip])
    BY <1>5, <1>7, <1>8 DEF Fitting
  <2> DEFINE d2 == dino'
  <2>a. c[ip] = x /\ \A j \in Inums \ {ip} : c[j] = icache[j]
    BY <1>2, <1>5
  <2> HIDE DEF c
  <2>b. CacheFits(c, d2)
    <3>1. Fitting(c[ip], d2[ip]) /\ CacheFits(icache, dino)
      BY <1>0, <2>3, <2>a
    <3>2. \A j \in Inums \ {ip} : c[j] = icache[j] /\ d2[j] = dino[j]
      BY <1>8, <2>a
    <3> HIDE DEF ip, d2
    <3> QED
      BY ONLY <3>1, <3>2, SetBoth
  <2>4. CacheFits(c, dino')
    BY <2>b DEF d2
  <2> QED
    BY <2>1, <2>2, <2>4
<1> HIDE DEF c
<1>10. icache' = c
  BY <1>1 DEF c
<1>11. \A j \in Inums : ~(icache'[j].ref > icache[j].ref)
  <2>1. \A j \in Inums : icache'[j].ref = icache[j].ref /\ icache[j].ref \in Int
    BY <1>5, <1>9, <1>10 DEF Alike, CacheEntry
  <2> QED
    BY <2>1
<1>12. Owed[p] = ip /\ Owes(q, "end") = 0
  BY <1>0, <1>3, OwedStep DEF Owes, SecondHalf
<1>13. pc'[p] = "iput" /\ Place(r'[p], pc'[p]) = "end" /\ Owed'[p] = 0
  BY <1>0, <1>1, <1>2, PutEnd, OwedStep
<1>14. One(ip, ip) = 1 /\ One(0, ip) = 0
  BY <1>2, InumIs DEF One
<1>15. n = dino[ip].nlink - One(Owed[p], ip) + One(Owed'[p], ip)
  <2>1. dino[ip].nlink \in Int
    BY <1>5 DEF CacheEntry
  <2> QED
    BY <1>6, <1>12, <1>13, <1>14, <2>1
<1>16. /\ Keeps(p) /\ TreeShape(dino') /\ Counted(dino', Owed')
       /\ \A y \in Inums : Settled(dino, Fresh, y) => Settled(dino', Fresh', y)
  <2>1. pc'[p] # "created" /\ (Owed[p] = 0 \/ Owed[p] = ip) /\ (Owed'[p] = 0 \/ Owed'[p] = ip)
    BY <1>12, <1>13
  <2>2. dino' = [dino EXCEPT ![ip].nlink = n] /\ LocksKept(p, icache, icache')
    BY <1>1, <1>9, <1>10
  <2> HIDE DEF ip
  <2> QED
    BY <1>0, <1>2, <1>3, <1>6, <1>11, <1>15, <2>1, <2>2, NlinkStep
<1>17. CallHolds(dino', icache', Fresh', p, r'[p], pc'[p])
  <2>1. \A y \in ToSet(<<ip>>) : Settled(dino', Fresh', y)
    BY <1>2, <1>16, PutOne
  <2>2. PlaceHolds(dino', icache', Fresh', p, r[p], "end")
    BY EndHolds
  <2> QED
    BY <1>0, <1>1, <2>1, <2>2, PutGood
<1> QED
  BY <1>0, <1>1, <1>9, <1>10, <1>16, <1>17, WritingStep

\* The cache entry that such a step at an ilock leaves.
LEMMA LinkedEntry ==
  ASSUME FilesTypeOK, CacheFits(icache, dino), NEW p \in Procs, NEW i \in Inums,
         icache[i].lock = 0, ~LoadPanics(i), NEW n \in Int, dino' = [dino EXCEPT ![i].nlink = n]
  PROVE  LET c == [icache EXCEPT ![i] = [Loaded(i) EXCEPT !.nlink = n]] IN
           /\ LocksKept(p, icache, c) /\ CacheFits(c, dino') /\ Alike(icache, c)
           /\ Loaded(i).type = dino[i].type /\ Loaded(i).nlink = dino[i].nlink /\ dino[i].nlink \in Int
<1> DEFINE x == [Loaded(i) EXCEPT !.nlink = n]
           c == [icache EXCEPT ![i] = x]
           d2 == dino'
<1>1. /\ d2[i].type = dino[i].type /\ d2[i].nlink = n /\ dino[i].nlink \in Int
      /\ \A j \in Inums \ {i} : d2[j] = dino[j]
  BY DEF FilesTypeOK, Inode
<1>2. /\ Loaded(i).valid /\ Loaded(i).type = dino[i].type /\ Loaded(i).nlink = dino[i].nlink
      /\ dino[i].type # "free"
  BY LoadedFits
<1>3. Loaded(i) \in CacheEntry /\ Loaded(i).ref = icache[i].ref /\ icache \in [Inums -> CacheEntry]
  BY LoadedIs DEF FilesTypeOK
<1>4. x \in CacheEntry /\ x.ref = icache[i].ref
  BY <1>3, EntrySet
<1>5. x.valid /\ x.type = dino[i].type /\ x.nlink = n
  BY <1>2, <1>3 DEF CacheEntry
<1> HIDE DEF x, d2
<1>6. LocksKept(p, icache, c)
  BY <1>3, SetLocks
<1>7. Alike(icache, c)
  BY <1>3, <1>4, CacheSet
<1>8. Fitting(x, d2[i]) /\ CacheFits(icache, dino)
  BY <1>1, <1>2, <1>5 DEF Fitting
<1>9. CacheFits(c, d2)
  <2>1. c[i] = x /\ \A j \in Inums \ {i} : c[j] = icache[j]
    BY <1>3
  <2> HIDE DEF c
  <2>2. Fitting(c[i], d2[i])
    BY <1>8, <2>1
  <2>3. \A j \in Inums \ {i} : c[j] = icache[j] /\ d2[j] = dino[j]
    BY <1>1, <2>1
  <2> QED
    BY ONLY <1>8, <2>2, <2>3, SetBoth
<1> QED
  BY <1>1, <1>2, <1>6, <1>7, <1>9 DEF x, d2

LEMMA LinkBadTree ==
  ASSUME TreeCondition, FilesInv, TreeInv, NEW p \in Procs, LinkBad(p)
  PROVE  TreeInv'
<1> DEFINE q == r[p]
           ip == q.tgt
           n == Loaded(ip).nlink - 1
           c == [icache EXCEPT ![ip] = [Loaded(ip) EXCEPT !.nlink = n]]
<1>0. FilesTypeOK /\ ShapeInv /\ Sound(p) /\ CacheFits(icache, dino) /\ Moves(p) /\ FilesTypeOK'
  BY LinkBadSound DEF FilesInv, TreeInv, Sound
<1>1. /\ pc[p] = "linkbad" /\ pc[p] \notin Iputs /\ Writing(p) /\ Put(p, <<ip>>, "end")
      /\ icache' = c /\ dino' = [dino EXCEPT ![ip].nlink = n]
      /\ icache[ip].lock = 0 /\ ~LoadPanics(ip)
  BY DEF LinkBad, Ilock, Wanted, FSame, Writing, Outside, Iputs
<1>2. PlaceHolds(dino, icache, Fresh, p, q, "linkbad") /\ ip \in Inums /\ Settled(dino, Fresh, ip)
  BY <1>1, AtIlock DEF TgtPoints
<1>3. HeldCount(r[p], pc[p], ip) >= 1 /\ Place(r[p], pc[p]) = "linkbad" /\ SecondHalf(q, "linkbad")
  <2>1. q.op = "link" /\ q.parent
    BY <1>0, <1>1, HeldAtPoint DEF PlaceFit
  <2> QED
    BY <1>1, <2>1, OwnRef DEF TgtPoints, Place, SecondHalf
<1>4. n \in Int
  BY <1>0, <1>2, LoadedIs DEF CacheEntry
<1> HIDE DEF n
<1>5. /\ LocksKept(p, icache, c) /\ CacheFits(c, dino') /\ Alike(icache, c)
      /\ Loaded(ip).nlink = dino[ip].nlink /\ dino[ip].nlink \in Int
  BY <1>0, <1>1, <1>2, <1>4, LinkedEntry
<1>6. n = dino[ip].nlink - 1
  BY <1>5 DEF n
<1> HIDE DEF c
<1>7. \A j \in Inums : ~(icache'[j].ref > icache[j].ref)
  <2>1. \A j \in Inums : icache'[j].ref = icache[j].ref /\ icache[j].ref \in Int
    BY <1>0, <1>1, <1>5 DEF Alike, CacheEntry, FilesTypeOK
  <2> QED
    BY <2>1
<1>8. Owed[p] = ip
  BY <1>0, <1>3, OwedStep DEF Owes
<1>9. pc'[p] = "iput" /\ Owed'[p] = 0
  BY <1>0, <1>1, <1>2, PutEnd, OwedStep
<1>10. One(ip, ip) = 1 /\ One(0, ip) = 0
  BY <1>2, InumIs DEF One
<1>11. n = dino[ip].nlink - One(Owed[p], ip) + One(Owed'[p], ip)
  BY <1>5, <1>6, <1>8, <1>9, <1>10
<1>12. /\ Keeps(p) /\ TreeShape(dino') /\ Counted(dino', Owed')
       /\ \A y \in Inums : Settled(dino, Fresh, y) => Settled(dino', Fresh', y)
  <2>1. pc'[p] # "created" /\ (Owed[p] = 0 \/ Owed[p] = ip) /\ (Owed'[p] = 0 \/ Owed'[p] = ip)
    BY <1>8, <1>9
  <2>2. dino' = [dino EXCEPT ![ip].nlink = n] /\ LocksKept(p, icache, icache')
    BY <1>1, <1>5
  <2> HIDE DEF ip
  <2> QED
    BY <1>0, <1>2, <1>3, <1>4, <1>7, <1>11, <2>1, <2>2, NlinkStep
<1>13. CallHolds(dino', icache', Fresh', p, r'[p], pc'[p])
  <2>1. \A y \in ToSet(<<ip>>) : Settled(dino', Fresh', y)
    BY <1>2, <1>12, PutOne
  <2>2. PlaceHolds(dino', icache', Fresh', p, r[p], "end")
    BY EndHolds
  <2> QED
    BY <1>0, <1>1, <2>1, <2>2, PutGood
<1> QED
  BY <1>0, <1>1, <1>5, <1>12, <1>13, WritingStep

\* A walk starts at an inode that nobody frees.
LEMMA StartSettled ==
  ASSUME TreeCondition, FilesInv, TreeInv, NEW p \in Procs, cwd[p] \in Inums, NEW path
  PROVE  LET x == Start(p, path) IN x \in Inums /\ Settled(dino, Fresh, x) /\ Reach(p, x)
<1>1. CASE Absolute(path)
  <2>1. Start(p, path) = ROOTINO /\ ROOTINO \in Inums /\ Attached(dino, ROOTINO)
    BY <1>1, InumIs DEF Start, Attached
  <2>2. Settled(dino, Fresh, ROOTINO)
    BY <2>1, AttachedSettled
  <2> QED
    BY <2>1, <2>2 DEF Reach
<1>2. CASE ~Absolute(path)
  <2>1. Start(p, path) = cwd[p]
    BY <1>2 DEF Start
  <2>2. Settled(dino, Fresh, cwd[p])
    BY InumIs DEF TreeInv
  <2> QED
    BY <2>1, <2>2 DEF Reach
<1> QED
  BY <1>1, <1>2

\* link() owes an entry for the link that it counts.
LEMMA LinkTree ==
  ASSUME TreeCondition, FilesInv, TreeInv, NEW p \in Procs, Link(p)
  PROVE  TreeInv'
<1> DEFINE q == r[p]
           ip == q.ip
           n == Loaded(ip).nlink + 1
           c == [icache EXCEPT ![ip] = [Loaded(ip) EXCEPT !.nlink = n]]
           x == Start(p, q.new)
           l == [q EXCEPT !.tgt = ip]
           w == [l EXCEPT !.path = Elements(q.new), !.parent = TRUE, !.ip = x]
<1>0. FilesTypeOK /\ ShapeInv /\ Sound(p) /\ CacheFits(icache, dino) /\ Moves(p) /\ FilesTypeOK'
  BY LinkSound DEF FilesInv, TreeInv, Sound
<1>1. /\ pc[p] = "link" /\ pc[p] \notin Iputs
      /\ icache[ip].lock = 0 /\ ~LoadPanics(ip)
  BY DEF Link, Ilock, Wanted, Iputs
<1>2. PlaceHolds(dino, icache, Fresh, p, q, "link") /\ ip \in Inums /\ Settled(dino, Fresh, ip)
  BY <1>1, AtIlock DEF IpPoints
<1>3. q \in Locals /\ q.put = <<>> /\ q.op = "link" /\ ~q.parent /\ cwd[p] \in Inums
  BY <1>0, <1>1, HeldAtPoint DEF PlaceFit
<1>4. Owes(q, "link") = 0 /\ Place(q, "link") = "link"
  BY <1>3 DEF Owes, SecondHalf, Place, Iputs
<1>5. HeldCount(r[p], pc[p], ip) >= 1 /\ icache[ip].ref \in Int /\ icache[ip].ref >= 1
  BY <1>1, OwnRef DEF IpPoints
<1>6. CASE icache' = [icache EXCEPT ![ip] = Loaded(ip)] /\ Put(p, <<ip>>, "end") /\ UNCHANGED dino
  <2>1. CacheGood(p)
    BY <1>0, <1>1, <1>2, <1>6, IlockPlain, CacheAlike
  <2>2. PlaceHolds(dino, icache', Fresh, p, q, "end") /\ Owes(q, "end") = 0
    BY EndHolds
  <2>3. InCall(p)
    BY <1>1, <1>6 DEF Link, FSame, InCall, Outside
  <2> QED
    BY <1>0, <1>1, <1>2, <1>4, <1>6, <2>1, <2>2, <2>3, PuttingIn
<1>7. CASE /\ icache' = Iget(c, x) /\ dino' = [dino EXCEPT ![ip].nlink = n]
           /\ Loaded(ip).type # "dir" /\ Goto(p, "walk", w)
  <2>1. Writing(p)
    BY <1>1 DEF Link, FSame, Writing, Outside
  <2>2. n \in Int
    BY <1>0, <1>2, LoadedIs DEF CacheEntry
  <2> HIDE DEF n
  <2>3. /\ LocksKept(p, icache, c) /\ CacheFits(c, dino') /\ Alike(icache, c)
        /\ Loaded(ip).type = dino[ip].type /\ Loaded(ip).nlink = dino[ip].nlink /\ dino[ip].nlink \in Int
    BY <1>0, <1>1, <1>2, <1>7, <2>2, LinkedEntry
  <2>4. n = dino[ip].nlink + 1
    BY <2>3 DEF n
  <2>5. dino[ip].type = "file"
    <3>1. dino[ip] \in Inode
      BY <1>0, <1>2 DEF FilesTypeOK
    <3>2. dino[ip].type # "free" /\ dino[ip].type # "dir"
      BY <1>0, <1>1, <1>2, <1>7, <2>3, LoadedFits
    <3> QED
      BY <3>1, <3>2 DEF Inode, Types
  <2>6. x \in Inums /\ Settled(dino, Fresh, x) /\ Reach(p, x)
    BY <1>3, StartSettled
  <2> HIDE DEF c, x
  <2>7. /\ LocksKept(p, icache, icache') /\ CacheFits(icache', dino')
        /\ \A j \in Inums : icache'[j].ref > icache[j].ref => Reach(p, j)
    <3>1. c \in [Inums -> CacheEntry] /\ icache \in [Inums -> CacheEntry]
      BY <1>0, <2>3 DEF Alike, FilesTypeOK
    <3>2. LocksKept(p, icache, icache')
      BY <1>7, <2>3, <2>6, <3>1, IgetLocks
    <3>3. CacheFits(icache', dino')
      BY <1>7, <2>3, <2>6, <3>1, IgetFits
    <3>a. \A j \in Inums : icache'[j].ref = icache[j].ref + One(x, j)
      <4>1. icache' = Iget(c, x)
        BY <1>7
      <4>2. FilesTypeOK /\ Alike(icache, c) /\ x \in Inums
        BY <1>0, <2>3, <2>6
      <4> QED
        BY <4>1, <4>2, AlikeIget
    <3>4. \A j \in Inums : icache'[j].ref = icache[j].ref + One(x, j) /\ icache[j].ref \in Int
      BY <3>1, <3>a DEF CacheEntry
    <3>5. \A j \in Inums : icache'[j].ref > icache[j].ref => j = x
      BY <3>4 DEF One
    <3> QED
      BY <2>6, <3>2, <3>3, <3>5
  <2>8. w.put = <<>> /\ w.op = "link" /\ w.parent /\ w.ip = x /\ w.tgt = ip
    BY <1>3 DEF Locals
  <2> HIDE DEF w
  <2>9. r'[p] = w /\ pc'[p] = "walk"
    BY <1>0, <1>7 DEF Goto, FilesTypeOK
  <2>10. SecondHalf(w, "walk") /\ Place(w, "walk") = "walk"
    BY <2>8 DEF SecondHalf, Place, Iputs
  <2>11. PlaceUses(w, "walk") = {x, ip}
    BY <2>8, <2>10 DEF PlaceUses, UsesTgt, IpPoints
  <2>12. Owed[p] = 0 /\ Owed'[p] = ip
    <3>1. Owes(w, "walk") = ip
      BY <2>8, <2>10 DEF Owes
    <3> QED
      BY <1>0, <1>1, <1>4, <2>9, <2>10, <3>1, OwedStep
  <2>13. One(ip, ip) = 1 /\ One(0, ip) = 0
    BY <1>2, InumIs DEF One
  <2>14. n = dino[ip].nlink - One(Owed[p], ip) + One(Owed'[p], ip)
    BY <2>3, <2>4, <2>12, <2>13
  <2>15. /\ Keeps(p) /\ TreeShape(dino') /\ Counted(dino', Owed')
         /\ \A y \in Inums : dino'[y].type = dino[y].type
         /\ \A y \in Inums : Settled(dino, Fresh, y) => Settled(dino', Fresh', y)
    <3>1. pc'[p] # "created" /\ (Owed[p] = 0 \/ Owed[p] = ip) /\ (Owed'[p] = 0 \/ Owed'[p] = ip)
      BY <2>9, <2>12
    <3> HIDE DEF ip
    <3> QED
      BY <1>0, <1>2, <1>5, <1>7, <2>2, <2>7, <2>14, <3>1, NlinkStep
  <2>16. PlaceHolds(dino', icache', Fresh', p, w, "walk")
    <3>1. \A y \in PlaceUses(w, "walk") : Settled(dino', Fresh', y)
      BY <1>2, <2>6, <2>11, <2>15
    <3>2. dino'[w.tgt].type = "file"
      BY <1>2, <2>5, <2>8, <2>15
    <3> QED
      BY <3>1, <3>2 DEF PlaceHolds
  <2>17. CallHolds(dino', icache', Fresh', p, r'[p], pc'[p])
    <3>1. "walk" \notin Iputs
      BY DEF Iputs
    <3> QED
      BY <1>0, <1>7, <2>8, <2>16, <3>1, GoGood
  <2> QED
    BY <1>0, <2>1, <2>7, <2>15, <2>17, WritingStep
<1> QED
  BY <1>6, <1>7 DEF Link, WalkFrom

LEMMA OneElement ==
  ASSUME NEW s, Len(s) = 1
  PROVE  s # <<>>
<1>1. Len(<<>>) = 0
  OBVIOUS
<1> QED
  BY <1>1

\* create() with the directory locked: an inode of its own, or one of the tree.
LEMMA CreateFoundTree ==
  ASSUME TreeCondition, FilesInv, TreeInv, NEW p \in Procs, Sound(p), Ilock(p, "create"), FSame, dino' = dino,
         LET q == r[p] dp == q.ip found == dino[dp].ents[Head(q.path)]
             c == [icache EXCEPT ![dp] = Loaded(dp)]
         IN /\ found # 0 /\ Loaded(dp).nlink # 0 /\ icache' = Iget(c, found)
            /\ Goto(p, "iput", [q EXCEPT !.tgt = found, !.put = <<dp>>, !.then = "exists"])
  PROVE  TreeInv'
<1> DEFINE q == r[p]
           dp == q.ip
           found == dino[dp].ents[Head(q.path)]
           c == [icache EXCEPT ![dp] = Loaded(dp)]
           t == [q EXCEPT !.tgt = found, !.put = <<dp>>, !.then = "exists"]
<1>0. FilesTypeOK /\ ShapeInv /\ CacheFits(icache, dino)
  BY DEF FilesInv, TreeInv
<1>1. /\ pc[p] = "create" /\ pc[p] \notin Iputs /\ InCall(p) /\ Goto(p, "iput", t) /\ icache' = Iget(c, found)
      /\ icache[dp].lock = 0 /\ ~LoadPanics(dp) /\ Loaded(dp).nlink # 0 /\ found # 0
  BY DEF Ilock, Wanted, FSame, InCall, Outside, Iputs
<1>2. PlaceHolds(dino, icache, Fresh, p, q, "create") /\ dp \in Inums /\ Settled(dino, Fresh, dp)
  BY <1>1, AtIlock DEF IpPoints
<1>3. q \in Locals /\ q.put = <<>> /\ Len(q.path) = 1 /\ q.op # "link"
  BY <1>0, <1>1, HeldAtPoint DEF PlaceFit, IpPoints, CallOps
<1>4. /\ Alike(icache, c) /\ CacheFits(c, dino) /\ LocksKept(p, icache, c)
      /\ Loaded(dp).type = dino[dp].type /\ Loaded(dp).nlink = dino[dp].nlink
  BY <1>0, <1>1, <1>2, IlockPlain, LoadedFits
<1>5. Attached(dino, dp) /\ dino[dp].type = "dir"
  <2>1. dino[dp].type = "dir"
    BY <1>2 DEF PlaceHolds
  <2> QED
    BY <1>1, <1>2, <1>4, <2>1, UnlockedAttached
<1>6. Head(q.path) \in Dots
  <2>1. q.path \in Seq(Dots)
    BY <1>3 DEF Locals
  <2>2. q.path # <<>>
    BY <1>3, OneElement
  <2> QED
    BY <1>0, <1>2, <2>1, <2>2, EntryIs
<1>7. found \in Inums /\ Attached(dino, found)
  BY <1>0, <1>1, <1>2, <1>5, <1>6, EntryAttached DEF TreeInv, FilesTypeOK
<1>8. Settled(dino, Fresh, found) /\ Reach(p, found)
  BY <1>7, AttachedSettled DEF Reach
<1>9. CacheGood(p)
  <2> HIDE DEF c, found
  <2> QED
    BY <1>0, <1>1, <1>4, <1>7, <1>8, CacheIget
<1>10. /\ t.put = <<dp>> /\ t.then = "exists" /\ t.op = q.op /\ t.tgt = found
  BY <1>3 DEF Locals
<1>11. r'[p] = t /\ pc'[p] = "iput"
  BY <1>0, <1>1 DEF Goto, FilesTypeOK
<1> HIDE DEF t, found, c
<1>12. ~SecondHalf(t, "exists") /\ ~SecondHalf(q, "create") /\ Place(t, "iput") = "exists"
  BY <1>3, <1>10 DEF SecondHalf, Place, Iputs
<1>13. PlaceHolds(dino, icache', Fresh, p, t, "exists") /\ Owes(t, "exists") = 0 /\ Owes(q, "create") = 0
  <2>1. PlaceUses(t, "exists") = {found}
    BY <1>10, <1>12 DEF PlaceUses, UsesTgt, IpPoints, TgtPoints
  <2> QED
    BY <1>8, <1>12, <2>1 DEF PlaceHolds, Owes
<1>14. PutHolds(dino, icache', Fresh, p, t, "iput")
  BY ONLY <1>2, <1>10, PutOne DEF PutHolds
<1>15. CallHolds(dino, icache', Fresh, p, r'[p], pc'[p])
  BY <1>11, <1>12, <1>13, <1>14 DEF CallHolds
<1>16. Place(r[p], pc[p]) = "create"
  BY <1>1 DEF Place
<1> QED
  BY <1>1, <1>9, <1>11, <1>12, <1>13, <1>15, <1>16, CallStep

LEMMA CreateNewTree ==
  ASSUME TreeCondition, FilesInv, TreeInv, NEW p \in Procs, Sound(p), Ilock(p, "create"), FSame,
         NEW ip \in {i \in Inums : dino[i].type = "free"},
         LET q == r[p] dp == q.ip c == [icache EXCEPT ![dp] = Loaded(dp)]
         IN /\ dino[dp].ents[Head(q.path)] = 0 /\ Loaded(dp).nlink # 0
            /\ dino' = [dino EXCEPT ![ip] = NewInode(q.op)]
            /\ icache' = Iget([c EXCEPT ![dp].lock = p], ip)
            /\ Goto(p, "created", [q EXCEPT !.tgt = ip])
  PROVE  TreeInv'
<1> DEFINE q == r[p]
           dp == q.ip
           name == Head(q.path)
           x == [Loaded(dp) EXCEPT !.lock = p]
           c == [icache EXCEPT ![dp] = x]
           t == [q EXCEPT !.tgt = ip]
           new == NewInode(q.op)
<1>0. /\ FilesTypeOK /\ ShapeInv /\ CacheFits(icache, dino) /\ FilesTypeOK' /\ Moves(p)
      /\ TreeShape(dino) /\ Counted(dino, Owed)
  BY DEF FilesInv, TreeInv, Sound
<1>1. /\ pc[p] = "create" /\ pc[p] \notin Iputs /\ Writing(p) /\ Goto(p, "created", t)
      /\ icache[dp].lock = 0 /\ ~LoadPanics(dp) /\ Loaded(dp).nlink # 0
      /\ dino[dp].ents[name] = 0 /\ dino' = [dino EXCEPT ![ip] = new]
  BY DEF Ilock, Wanted, FSame, Writing, Outside, Iputs
<1>2. PlaceHolds(dino, icache, Fresh, p, q, "create") /\ dp \in Inums /\ Settled(dino, Fresh, dp)
  BY <1>1, AtIlock DEF IpPoints
<1>3. q \in Locals /\ q.put = <<>> /\ Len(q.path) = 1 /\ q.op # "link"
  BY <1>0, <1>1, HeldAtPoint DEF PlaceFit, IpPoints, CallOps
<1>4. icache' = Iget(c, ip)
  <2>1. icache \in [Inums -> CacheEntry]
    BY <1>0 DEF FilesTypeOK
  <2>2. [[icache EXCEPT ![dp] = Loaded(dp)] EXCEPT ![dp].lock = p] = c
    BY <1>2, <2>1
  <2> QED
    BY <2>2
<1>5. ip \in Inums /\ dino[ip].type = "free" /\ ip # dp
  BY <1>2 DEF Settled
<1>6. /\ Alike(icache, c) /\ CacheFits(c, dino) /\ LocksKept(p, icache, c) /\ c[dp].lock = p
      /\ Loaded(dp).nlink = dino[dp].nlink
  <2>1. icache[dp].lock = 0 \/ icache[dp].lock = p
    BY <1>1
  <2>2. p \in Procs \cup {0} /\ icache \in [Inums -> CacheEntry]
    BY <1>0 DEF FilesTypeOK
  <2>3. /\ Alike(icache, c) /\ CacheFits(c, dino) /\ LocksKept(p, icache, c) /\ x.lock = p
    BY <1>0, <1>1, <1>2, <2>1, <2>2, IlockEntry
  <2>4. c[dp] = x
    BY <1>2, <2>2
  <2> QED
    BY <1>0, <1>1, <1>2, <2>3, <2>4, LoadedFits
<1>7. Attached(dino, dp) /\ dino[dp].type = "dir"
  <2>1. dino[dp].type = "dir"
    BY <1>2 DEF PlaceHolds
  <2> QED
    BY <1>1, <1>2, <1>6, <2>1, UnlockedAttached
<1>8. name \in Names
  <2>1. q.path \in Seq(Dots)
    BY <1>3 DEF Locals
  <2>2. q.path # <<>>
    BY <1>3, OneElement
  <2>3. name \in Dots
    BY <1>0, <1>2, <2>1, <2>2, EntryIs
  <2>4. dino[dp].ents[".."] # 0
    <3>1. dino \in [Inums -> Inode]
      BY <1>0 DEF FilesTypeOK
    <3> QED
      BY <1>0, <1>2, <1>7, <3>1, ParentAttached, InumIs
  <2> QED
    BY <1>1, <2>3, <2>4 DEF Dots
<1>9. ~Attached(dino, ip) /\ dino[ip].nlink = 0 /\ \A n \in Names : dino[ip].ents[n] = 0
  BY <1>0, <1>5, AttachedLinks DEF TreeShape
<1>10. /\ new.nlink = 0 /\ new.type # "free" /\ \A n \in Dots : new.ents[n] = 0
  BY DEF NewInode, Free
<1> HIDE DEF new, c, x
<1> DEFINE d2 == dino'
<1>11. /\ dino \in [Inums -> Inode] /\ d2 \in [Inums -> Inode]
       /\ d2[ip] = new /\ \A j \in Inums \ {ip} : d2[j] = dino[j]
  BY <1>0, <1>1, <1>5 DEF FilesTypeOK
<1> HIDE DEF d2
<1>a. d2[ip].nlink = 0 /\ \A n \in Dots : d2[ip].ents[n] = 0
  BY <1>10, <1>11
<1>12. /\ TreeShape(d2) /\ \A y : Entries(d2, y) = Entries(dino, y) /\ (Attached(d2, y) <=> Attached(dino, y))
       /\ \A e \in Spots : NameAt(d2)[e] = NameAt(dino)[e]
       /\ \A y \in Inums : ParentOf(d2)[y] = ParentOf(dino)[y]
  BY <1>0, <1>5, <1>9, <1>11, <1>a, TreeReplace
<1>13. /\ t.put = <<>> /\ t.op = q.op /\ t.ip = dp /\ t.path = q.path /\ t.tgt = ip
  BY <1>3 DEF Locals
<1>14. r'[p] = t /\ pc'[p] = "created"
  BY <1>0, <1>1 DEF Goto, FilesTypeOK
<1> HIDE DEF t
<1>15. /\ ~SecondHalf(t, "created") /\ ~SecondHalf(q, "create") /\ Place(t, "created") = "created"
       /\ Place(q, "create") = "create" /\ Owes(t, "created") = 0 /\ Owes(q, "create") = 0
  BY <1>3, <1>13 DEF SecondHalf, Place, Iputs, Owes
<1>16. \A y \in Procs : Owed'[y] = Owed[y]
  BY <1>0, <1>1, <1>14, <1>15, OwedStep
<1>17. Counted(d2, Owed')
  <2>1. \A j \in Inums : d2[j].nlink = dino[j].nlink /\ dino[j].nlink \in Int
    BY <1>9, <1>10, <1>11 DEF Inode
  <2> QED
    BY <1>0, <1>12, <1>16, <2>1, CountedSame
<1>18. c \in [Inums -> CacheEntry] /\ icache \in [Inums -> CacheEntry]
  BY <1>0, <1>6 DEF Alike, FilesTypeOK
<1>19. LocksKept(p, icache, icache') /\ CacheFits(icache', d2)
  <2>1. ~c[ip].valid /\ c[ip].lock = 0
    BY <1>5, <1>6 DEF CacheFits
  <2>2. CacheFits(c, d2)
    BY <1>6, <1>11, <2>1 DEF CacheFits
  <2> QED
    BY <1>4, <1>5, <1>6, <1>18, <2>2, IgetFits, IgetLocks
<1>20. icache'[dp].lock = p
  <2>1. Iget(c, ip)[dp] = c[dp]
    BY <1>2, <1>5, <1>18, IgetEntry
  <2> QED
    BY <1>4, <1>6, <2>1
<1>21. Keeps(p)
  <2>1. \A j \in Inums : icache'[j].ref > icache[j].ref => j = ip
    <3>1. \A j \in Inums : icache'[j].ref = icache[j].ref + One(ip, j)
      BY <1>0, <1>4, <1>5, <1>6, AlikeIget
    <3>2. \A j \in Inums : icache[j].ref \in Int
      BY <1>18 DEF CacheEntry
    <3>3. ASSUME NEW j \in Inums, j # ip PROVE ~(icache'[j].ref > icache[j].ref)
      <4>1. One(ip, j) = 0
        BY <3>3 DEF One
      <4>2. icache'[j].ref = icache[j].ref + 0 /\ icache[j].ref \in Int
        BY <3>1, <3>2, <3>3, <4>1
      <4> QED
        BY ONLY <4>2
    <3> QED
      BY <3>3
  <2>2. Reach(p, ip)
    BY <1>5 DEF Reach
  <2>3. ASSUME NEW j \in Inums
        PROVE  /\ dino[j].type # "free" => dino'[j].type = dino[j].type \/ OnlyOf(p, j)
               /\ icache[j].lock \notin {0, p} => /\ Attached(dino, j) => Attached(dino', j)
                                                  /\ \A m \in Names : dino'[j].ents[m] = dino[j].ents[m]
               /\ icache'[j].ref > icache[j].ref \/ dino'[j].nlink # dino[j].nlink => Reach(p, j)
    <3>1. CASE j = ip
      <4>1. dino[j].type = "free" /\ Reach(p, j)
        BY <3>1, <1>5, <2>2
      <4>2. \A m \in Names : dino'[j].ents[m] = dino[j].ents[m]
        BY <3>1, <1>9, <1>a, InumIs DEF d2
      <4>3. ~Attached(dino, j)
        BY <3>1, <1>9
      <4> QED
        BY ONLY <4>1, <4>2, <4>3
    <3>2. CASE j # ip
      BY <3>2, <1>11, <1>12, <2>1 DEF d2
    <3> QED
      BY <3>1, <3>2
  <2>4. ASSUME NEW y \in Procs \ {p}, pc[y] = "created"
        PROVE  dino'[r[y].tgt] = dino[r[y].tgt]
    <3>1. r[y].tgt \in Inums
      BY <2>4, OwnRef DEF Iputs, TgtPoints
    <3>2. PlaceHolds(dino, icache, Fresh, y, r[y], "created")
      BY <2>4, AtIlock DEF Iputs
    <3>3. dino[r[y].tgt].type # "free"
      BY <3>2 DEF PlaceHolds, NewInode, Free
    <3> QED
      BY <1>5, <1>11, <3>1, <3>3 DEF d2
  <2>5. dino[r'[p].tgt].type = "free"
    BY <1>5, <1>13, <1>14
  <2> QED
    BY <1>0, <1>19, <2>3, <2>4, <2>5 DEF Keeps
<1>22. Settled(dino', Fresh', dp)
  <2>1. dino[dp].type # "free" /\ dino'[dp].type = dino[dp].type
    BY <1>2, <1>5, <1>11 DEF Settled, d2
  <2> QED
    BY <1>2, <1>21, <2>1, FreshKept
<1>23. PlaceHolds(dino', icache', Fresh', p, t, "created")
  <2>1. PlaceUses(t, "created") = {dp}
    BY <1>13 DEF PlaceUses, IpPoints
  <2>2. dino'[dp] = dino[dp] /\ Attached(dino', dp) /\ dino'[ip] = new
    BY <1>2, <1>5, <1>7, <1>11, <1>12 DEF d2
  <2> QED
    BY <1>1, <1>7, <1>8, <1>13, <1>15, <1>20, <1>22, <2>1, <2>2 DEF PlaceHolds, new
<1>24. CallHolds(dino', icache', Fresh', p, r'[p], pc'[p])
  <2>1. "created" \notin Iputs
    BY DEF Iputs
  <2> QED
    BY <1>0, <1>1, <1>13, <1>23, <2>1, GoGood
<1> QED
  BY <1>1, <1>12, <1>17, <1>19, <1>21, <1>24, WritingStep DEF d2

LEMMA CreateTree ==
  ASSUME TreeCondition, FilesInv, TreeInv, NEW p \in Procs, Create(p), ~strayed'
  PROVE  TreeInv'
<1>1. FilesTypeOK /\ ShapeInv /\ Sound(p)
  BY CreateSound DEF FilesInv
<1> QED
  <2> DEFINE q == r[p]
             dp == q.ip
             c == [icache EXCEPT ![dp] = Loaded(dp)]
             found == dino[dp].ents[Head(q.path)]
             unused == {i \in Inums : dino[i].type = "free"}
  <2>1. CASE found # 0
    BY <1>1, <2>1, CreateFoundTree DEF Create
  <2>2. CASE found = 0
    <3>1. PICK ip \in unused : /\ dino' = [dino EXCEPT ![ip] = NewInode(q.op)]
                               /\ icache' = Iget([c EXCEPT ![dp].lock = p], ip)
                               /\ Goto(p, "created", [q EXCEPT !.tgt = ip])
      BY <2>2 DEF Create, NewInode
    <3>2. Ilock(p, "create") /\ FSame /\ Loaded(dp).nlink # 0
      BY <2>2 DEF Create
    <3> QED
      BY <1>1, <2>2, <3>1, <3>2, CreateNewTree
  <2> QED
    BY <2>1, <2>2

\* Steps that write a name in a directory, or take one out: two inodes and their
\* entries in the cache.
LEMMA UnlockedTo ==
  ASSUME NEW e \in CacheEntry, NEW n \in Int
  PROVE  /\ Unlocked(e, n).valid = e.valid /\ Unlocked(e, n).type = e.type
         /\ Unlocked(e, n).lock = 0 /\ Unlocked(e, n).nlink = e.nlink + n
BY DEF CacheEntry, Unlocked

LEMMA SetsFit ==
  ASSUME NEW c, NEW c2, NEW d, NEW d2, NEW i, NEW j, CacheFits(c, d),
         \A k \in Inums \ {i, j} : c2[k] = c[k] /\ d2[k] = d[k],
         Fitting(c2[i], d2[i]), Fitting(c2[j], d2[j])
  PROVE  CacheFits(c2, d2)
<1> SUFFICES ASSUME NEW k \in Inums
             PROVE  /\ c2[k].valid => c2[k].type = d2[k].type /\ c2[k].nlink = d2[k].nlink /\ d2[k].type # "free"
                    /\ c2[k].lock # 0 => c2[k].valid
  BY DEF CacheFits
<1>1. CASE k = i
  BY <1>1 DEF Fitting
<1>2. CASE k = j
  BY <1>2 DEF Fitting
<1>3. CASE k \notin {i, j}
  BY <1>3 DEF CacheFits
<1> QED
  BY <1>1, <1>2, <1>3

\* The new inode enters the tree.
LEMMA CreateEntryTree ==
  ASSUME TreeCondition, FilesInv, TreeInv, NEW p \in Procs, CreateEntry(p)
  PROVE  TreeInv'
<1> DEFINE q == r[p]
           dp == q.ip
           ip == q.tgt
           name == Head(q.path)
           dir == q.op = "mkdir"
           k == IF dir THEN 1 ELSE 0
           x == [Loaded(ip) EXCEPT !.nlink = 1, !.lock = p]
           y == Unlocked(icache[dp], k)
           ents == [dino[ip].ents EXCEPT ![".."] = IF dir THEN dp ELSE 0]
           node == [type |-> Loaded(ip).type, nlink |-> 1, ents |-> ents]
           n == IF dir THEN icache[dp].nlink + 1 ELSE dino[dp].nlink
           then == IF dir THEN "made" ELSE "openfile"
<1>0. /\ FilesTypeOK /\ ShapeInv /\ CacheFits(icache, dino) /\ FilesTypeOK' /\ Moves(p) /\ Sound(p)
      /\ TreeShape(dino) /\ Counted(dino, Owed)
  BY CreateEntrySound DEF FilesInv, TreeInv, Sound
<1>1. /\ pc[p] = "created" /\ pc[p] \notin Iputs /\ Writing(p) /\ Put(p, <<dp>>, then)
      /\ icache[ip].lock = 0 /\ ~LoadPanics(ip)
      /\ icache' = [icache EXCEPT ![ip] = x, ![dp] = y]
      /\ dino' = [dino EXCEPT ![ip] = node, ![dp].nlink = n, ![dp].ents[name] = ip]
  BY DEF CreateEntry, Ilock, Wanted, FSame, Writing, Outside, Iputs
<1>2. /\ PlaceHolds(dino, icache, Fresh, p, q, "created") /\ dp \in Inums /\ ip \in Inums
      /\ Settled(dino, Fresh, dp)
  BY <1>1, AtIlock DEF IpPoints, TgtPoints
<1>3. /\ icache[dp].lock = p /\ dino[dp].type = "dir" /\ Attached(dino, dp) /\ name \in Names
      /\ dino[dp].ents[name] = 0 /\ dino[ip] = NewInode(q.op)
  BY <1>2 DEF PlaceHolds
<1>4. q.op # "link"
  BY <1>0, <1>1, HeldAtPoint DEF PlaceFit, IpPoints, TgtPoints, CallOps
<1>5. HeldCount(r[p], pc[p], ip) >= 1 /\ HeldCount(r[p], pc[p], dp) >= 1
  BY <1>1, OwnRef DEF IpPoints, TgtPoints
<1>6. /\ dino[ip].nlink = 0 /\ dino[ip].type = (IF dir THEN "dir" ELSE "file")
      /\ \A m \in Dots : dino[ip].ents[m] = 0
  BY <1>3 DEF NewInode, Free
<1>7. ~Attached(dino, ip) /\ ip # dp /\ ip # ROOTINO /\ Entries(dino, ip) = {}
  <2>1. ~Attached(dino, ip)
    BY <1>0, <1>2, <1>6, AttachedLinks
  <2> QED
    BY <1>3, <2>1 DEF Attached
<1>8. /\ dino \in [Inums -> Inode] /\ icache \in [Inums -> CacheEntry]
      /\ dino[ip] \in Inode /\ dino[dp] \in Inode /\ icache[ip] \in CacheEntry /\ icache[dp] \in CacheEntry
  BY <1>0, <1>2 DEF FilesTypeOK
<1>9. /\ Loaded(ip) \in CacheEntry /\ Loaded(ip).valid /\ Loaded(ip).type = dino[ip].type
      /\ Loaded(ip).ref = icache[ip].ref
  BY <1>0, <1>1, <1>2, LoadedFits, LoadedIs
<1>10. /\ icache[dp].valid /\ icache[dp].type = dino[dp].type /\ icache[dp].nlink = dino[dp].nlink
       /\ dino[dp].nlink \in Int
  <2>1. icache[dp].lock # 0
    BY <1>3, InumIs
  <2> QED
    BY <1>0, <1>2, <1>8, <2>1 DEF CacheFits, Inode
<1>11. k \in Int /\ n = dino[dp].nlink + k
  BY <1>10
<1> DEFINE d2 == dino'
<1>12. /\ d2[ip].type = dino[ip].type /\ d2[ip].nlink = 1
       /\ d2[ip].ents = ents
       /\ d2[dp].type = dino[dp].type /\ d2[dp].nlink = n
       /\ d2[dp].ents = [dino[dp].ents EXCEPT ![name] = ip]
       /\ \A j \in Inums \ {dp, ip} : d2[j] = dino[j]
  <2>1. node.type = dino[ip].type /\ node.nlink = 1 /\ node.ents = ents
    BY <1>9
  <2> HIDE DEF node, n, ents, name
  <2>2. /\ d2[ip] = node /\ \A j \in Inums \ {dp, ip} : d2[j] = dino[j]
        /\ d2[dp] = [[dino[dp] EXCEPT !.nlink = n] EXCEPT !.ents[name] = ip]
    BY <1>1, <1>2, <1>7, <1>8
  <2>3. /\ d2[dp].type = dino[dp].type /\ d2[dp].nlink = n
        /\ d2[dp].ents = [dino[dp].ents EXCEPT ![name] = ip]
    BY <1>8, <2>2 DEF Inode
  <2> QED
    BY <2>1, <2>2, <2>3
<1>13. /\ \A m \in Names : ents[m] = 0
       /\ ents[".."] = IF dir THEN dp ELSE 0
  <2>1. dino[ip].ents \in [Dots -> Inums \cup {0}]
    BY <1>8 DEF Inode
  <2> QED
    BY <1>6, <2>1, InumIs
<1>14. d2 \in [Inums -> Inode]
  BY <1>0 DEF FilesTypeOK
<1> HIDE DEF ents, node, n, k, d2
<1>15. /\ TreeShape(d2)
       /\ \A a \in Inums : Attached(dino, a) => Attached(d2, a)
       /\ \A e \in Spots \ {<<dp, name>>} : NameAt(d2)[e] = NameAt(dino)[e]
       /\ NameAt(dino)[<<dp, name>>] = 0 /\ NameAt(d2)[<<dp, name>>] = ip
       /\ \A a \in Inums \ {ip} : ParentOf(d2)[a] = ParentOf(dino)[a]
       /\ ParentOf(dino)[ip] = 0 /\ ParentOf(d2)[ip] = IF dir THEN dp ELSE 0
  <2>1. \A j \in Inums : d2[j].type = dino[j].type
    BY <1>12
  <2>2. /\ \A m \in Names : d2[ip].ents[m] = dino[ip].ents[m]
        /\ dino[ip].type # "free"
        /\ dino[ip].type = "dir" => Entries(dino, ip) = {} /\ d2[ip].ents[".."] = dp
        /\ dino[ip].type # "dir" => d2[ip].ents[".."] = 0
        /\ dino[ip].type = "dir" <=> dir
    BY <1>6, <1>7, <1>12, <1>13, InumIs
  <2> HIDE DEF dp, ip, name, dir
  <2>3. Enters(dino, d2, dp, name, ip)
    BY <1>0, <1>2, <1>3, <1>7, <1>8, <1>12, <1>14, <2>1, <2>2 DEF Enters
  <2>4. Entered(dino, d2, dp, name, ip)
    BY ONLY <2>3, TreeEnter
  <2> QED
    BY <2>2, <2>4 DEF Entered
<1>16. then \in {"made", "openfile"} /\ Owes(q, then) = 0 /\ Owes(q, "created") = 0 /\ Place(q, "created") = "created"
  BY <1>4 DEF Owes, SecondHalf, Place, Iputs
<1>17. pc'[p] = "iput" /\ \A a \in Procs : Owed'[a] = Owed[a]
  <2>1. then \in Thens /\ <<dp>> \in Seq(Inums) /\ <<dp>> # <<>>
    BY <1>2, <1>16 DEF Thens
  <2>2. PlaceFit(q, then)
    BY <1>0, <1>1, <1>16, HeldAtPoint DEF PlaceFit, UsesTgt, IpPoints, TgtPoints, SecondHalf, CallOps
  <2>3. pc'[p] = "iput" /\ r'[p].then = then /\ r'[p].op = q.op
    <3>1. FilesTypeOK /\ p \in Procs /\ Put(p, <<dp>>, then)
      BY <1>0, <1>1
    <3> DEFINE s == <<dp>>
    <3>2. s \in Seq(Inums) /\ s # <<>> /\ then \in Thens /\ PlaceFit(r[p], then) /\ Put(p, s, then)
      BY <2>1, <2>2, <3>1
    <3> HIDE DEF s, then
    <3>3. pc'[p] = "iput" /\ r'[p].then = then /\ r'[p].op = r[p].op
      BY ONLY <3>1, <3>2, Putting
    <3> QED
      BY <3>3
  <2>4. Place(r'[p], pc'[p]) = then
    BY <2>3 DEF Place, Iputs
  <2>5. Owes(r'[p], Place(r'[p], pc'[p])) = 0
    <3>1. then # "nlink" /\ r'[p].op # "link"
      BY <1>4, <1>16, <2>3
    <3>2. Owes(r'[p], then) = 0
      BY ONLY <3>1 DEF Owes, SecondHalf
    <3> QED
      BY ONLY <2>4, <3>2
  <2>6. Owed[p] = Owes(r[p], Place(r[p], pc[p])) /\ Owed'[p] = Owes(r'[p], Place(r'[p], pc'[p]))
        /\ \A a \in Procs \ {p} : Owed'[a] = Owed[a]
    BY <1>0, OwedStep
  <2>7. Owes(r[p], Place(r[p], pc[p])) = 0
    BY <1>1, <1>16
  <2>8. Owed[p] = 0 /\ Owed'[p] = 0
    BY ONLY <2>5, <2>6, <2>7
  <2> QED
    BY <2>3, <2>6, <2>8
<1>18. Counted(d2, Owed')
  <2>1. <<dp, name>> \in Spots
    BY <1>2, <1>3 DEF Spots
  <2>2. \A j \in Inums : dino[j].nlink \in Int
    BY <1>8 DEF Inode
  <2> DEFINE par == IF dir THEN dp ELSE 0
  <2>3. ASSUME NEW j \in Inums
        PROVE  d2[j].nlink = dino[j].nlink - One(0, j) + One(ip, j) - One(0, j) + One(par, j)
                               - One(Owed[p], j) + One(Owed'[p], j)
    <3>1. One(0, j) = 0 /\ One(Owed[p], j) \in Nat /\ Owed'[p] = Owed[p]
      BY <1>17, InumIs, OneType DEF One
    <3>2. d2[j].nlink = dino[j].nlink + One(ip, j) + One(par, j)
      <4>1. CASE j = ip
        <5>1. One(ip, j) = 1 /\ One(par, j) = 0
          BY <4>1, <1>7, <1>2, InumIs DEF One
        <5> QED
          BY <4>1, <5>1, <1>6, <1>12
      <4>2. CASE j = dp
        <5>1. One(ip, j) = 0 /\ One(par, j) = k
          BY <4>2, <1>7, <1>2, InumIs DEF One, k
        <5> QED
          BY <4>2, <5>1, <1>10, <1>11, <1>12
      <4>3. CASE j \notin {ip, dp}
        <5>1. One(ip, j) = 0 /\ One(par, j) = 0
          BY <4>3, InumIs DEF One
        <5> QED
          BY <4>3, <5>1, <1>12, <2>2
      <4> QED
        BY <4>1, <4>2, <4>3
    <3>3. dino[j].nlink \in Int /\ One(ip, j) \in Nat /\ One(par, j) \in Nat
      BY <2>2, OneType
    <3> HIDE DEF par
    <3>4. One(Owed'[p], j) = One(Owed[p], j)
      BY <3>1
    <3> QED
      BY ONLY <3>1, <3>2, <3>3, <3>4
  <2> HIDE DEF par
  <2>4. \A j \in Inums : d2[j].nlink =
           dino[j].nlink - One(NameAt(dino)[<<dp, name>>], j) + One(NameAt(d2)[<<dp, name>>], j)
                      - One(ParentOf(dino)[ip], j) + One(ParentOf(d2)[ip], j)
                      - One(Owed[p], j) + One(Owed'[p], j)
    BY <1>15, <2>3 DEF par
  <2> HIDE DEF dp, ip, name
  <2> QED
    BY <1>0, <1>2, <1>15, <1>17, <2>1, <2>2, <2>4, CountedStep
<1>19. /\ CacheFits(icache', d2) /\ LocksKept(p, icache, icache') /\ icache'[ip].lock = p
       /\ \A j \in Inums : ~(icache'[j].ref > icache[j].ref)
  <2>1. x.valid /\ x.type = dino[ip].type /\ x.nlink = 1 /\ x.lock = p /\ x.ref = icache[ip].ref
    BY <1>9 DEF CacheEntry
  <2>2. y.valid /\ y.type = dino[dp].type /\ y.nlink = n /\ y.ref = icache[dp].ref
    <3>1. y.ref = icache[dp].ref
      BY <1>8, <1>11, UnlockedIs
    <3>2. y.valid /\ y.type = dino[dp].type /\ y.nlink = dino[dp].nlink + k
      BY <1>8, <1>10, <1>11, UnlockedTo
    <3> QED
      BY <1>11, <3>1, <3>2
  <2> HIDE DEF x, y
  <2>3. Fitting(x, d2[ip]) /\ Fitting(y, d2[dp])
    BY <1>3, <1>6, <1>12, <2>1, <2>2 DEF Fitting
  <2> DEFINE c2 == [icache EXCEPT ![ip] = x, ![dp] = y]
  <2>4. icache' = c2
    BY <1>1
  <2>5. CacheFits(c2, d2) /\ LocksKept(p, icache, c2) /\ c2[ip] = x /\ c2[dp] = y
    <3>1. c2[ip] = x /\ c2[dp] = y /\ \A a \in Inums \ {ip, dp} : c2[a] = icache[a] /\ d2[a] = dino[a]
      BY <1>2, <1>7, <1>8, <1>12
    <3> HIDE DEF ip, dp, c2
    <3>2. CacheFits(c2, d2)
      BY <1>0, <2>3, <3>1, SetsFit
    <3>3. LocksKept(p, icache, c2)
      <4>1. icache[ip].lock = 0 /\ icache[dp].lock = p
        BY <1>1, <1>3
      <4> QED
        BY <3>1, <4>1 DEF LocksKept
    <3> QED
      BY <3>1, <3>2, <3>3
  <2>6. ASSUME NEW j \in Inums PROVE ~(c2[j].ref > icache[j].ref)
    <3>1. c2[j].ref = icache[j].ref
      <4>1. j \notin {ip, dp} => c2[j] = icache[j]
        BY <1>8
      <4> HIDE DEF c2
      <4> QED
        BY <2>1, <2>2, <2>5, <4>1
    <3>2. icache[j].ref \in Int
      BY <1>8 DEF CacheEntry
    <3> HIDE DEF c2
    <3> QED
      BY ONLY <3>1, <3>2
  <2> HIDE DEF c2
  <2> QED
    BY <2>1, <2>4, <2>5, <2>6
<1>20. Keeps(p)
  <2>1. Reach(p, ip) /\ Reach(p, dp)
    BY <1>5 DEF Reach
  <2>2. ASSUME NEW j \in Inums
        PROVE  /\ dino[j].type # "free" => dino'[j].type = dino[j].type \/ OnlyOf(p, j)
               /\ icache[j].lock \notin {0, p} => /\ Attached(dino, j) => Attached(dino', j)
                                                  /\ \A m \in Names : dino'[j].ents[m] = dino[j].ents[m]
               /\ icache'[j].ref > icache[j].ref \/ dino'[j].nlink # dino[j].nlink => Reach(p, j)
    <3>1. d2[j].type = dino[j].type /\ (Attached(dino, j) => Attached(d2, j))
      BY <1>12, <1>15
    <3>2. j \notin {ip, dp} => d2[j] = dino[j]
      BY <1>12
    <3>3. icache[j].lock \notin {0, p} => j \notin {ip, dp}
      BY <1>1, <1>3
    <3> QED
      BY <1>19, <2>1, <3>1, <3>2, <3>3 DEF d2
  <2>3. ASSUME NEW a \in Procs \ {p}, pc[a] = "created"
        PROVE  dino'[r[a].tgt] = dino[r[a].tgt]
    <3>1. r[a].tgt \in Fresh /\ r[a].tgt \in Inums
      BY <2>3, OwnRef DEF Fresh, Iputs, TgtPoints
    <3>2. r[a].tgt # dp
      BY <1>2, <3>1 DEF Settled
    <3>3. r[a].tgt # ip
      BY <1>1, <2>3 DEF TreeInv
    <3> QED
      BY <1>12, <3>1, <3>2, <3>3 DEF d2
  <2> QED
    BY <1>0, <1>17, <1>19, <2>2, <2>3 DEF Keeps
<1>21. Settled(dino', Fresh', dp) /\ Settled(dino', Fresh', ip)
  <2>1. Settled(dino', Fresh', dp)
    <3>1. dino[dp].type # "free" /\ dino'[dp].type = dino[dp].type
      BY <1>3, <1>12 DEF d2
    <3> QED
      BY <1>2, <1>20, <3>1, FreshKept
  <2>2. ASSUME ip \in Fresh' PROVE FALSE
    <3>1. PICK a \in Procs : pc'[a] = "created" /\ r'[a].tgt = ip
      BY <2>2 DEF Fresh
    <3>2. a # p
      BY <1>17, <3>1
    <3>3. pc[a] = "created" /\ r[a].tgt = ip
      BY <1>0, <3>1, <3>2 DEF Moves
    <3> QED
      BY <1>1, <3>2, <3>3 DEF TreeInv
  <2>3. dino'[ip].type # "free"
    BY <1>6, <1>12 DEF d2
  <2> QED
    BY <2>1, <2>2, <2>3 DEF Settled
<1>22. PlaceHolds(dino', icache', Fresh', p, q, then)
  <2>1. PlaceUses(q, then) = {ip} /\ ~SecondHalf(q, then)
    BY <1>4, <1>16 DEF PlaceUses, UsesTgt, IpPoints, TgtPoints, SecondHalf
  <2> HIDE DEF then
  <2> QED
    BY <1>16, <1>19, <1>21, <2>1 DEF PlaceHolds
<1>23. CallHolds(dino', icache', Fresh', p, r'[p], pc'[p])
  <2>1. \A a \in ToSet(<<dp>>) : Settled(dino', Fresh', a)
    BY <1>21, PutOne
  <2>2. Put(p, <<dp>>, then) /\ FilesTypeOK /\ Moves(p)
    BY <1>0, <1>1
  <2> HIDE DEF then
  <2> QED
    BY <1>22, <2>1, <2>2, PutGood
<1> QED
  BY <1>0, <1>1, <1>15, <1>18, <1>19, <1>20, <1>23, WritingStep DEF d2

\* unlink() takes the name out of the directory, and owes the inode a link less.
LEMMA UnlinkEntryTree ==
  ASSUME TreeCondition, FilesInv, TreeInv, NEW p \in Procs, UnlinkEntry(p)
  PROVE  TreeInv'
<1> DEFINE q == r[p]
           dp == q.ip
           ip == q.tgt
           name == Head(q.path)
           dir == Loaded(ip).type = "dir"
           k == IF dir THEN -1 ELSE 0
           x == [Loaded(ip) EXCEPT !.lock = p]
           y == Unlocked(icache[dp], k)
           n == IF dir THEN icache[dp].nlink - 1 ELSE dino[dp].nlink
<1>0. /\ FilesTypeOK /\ ShapeInv /\ CacheFits(icache, dino) /\ FilesTypeOK' /\ Moves(p) /\ Sound(p)
      /\ TreeShape(dino) /\ Counted(dino, Owed)
  BY UnlinkEntrySound DEF FilesInv, TreeInv, Sound
<1>1. /\ pc[p] = "unlinkip" /\ pc[p] \notin Iputs /\ FSame /\ pc[p] \notin Outside
      /\ icache[ip].lock = 0 /\ ~LoadPanics(ip)
  BY DEF UnlinkEntry, Ilock, Wanted, Outside, Iputs
<1>2. /\ PlaceHolds(dino, icache, Fresh, p, q, "unlinkip") /\ dp \in Inums /\ ip \in Inums
      /\ Settled(dino, Fresh, dp) /\ Settled(dino, Fresh, ip)
  BY <1>1, AtIlock DEF IpPoints, TgtPoints
<1>3. /\ icache[dp].lock = p /\ dino[dp].type = "dir" /\ name \in Names /\ dino[dp].ents[name] = ip
  BY <1>2 DEF PlaceHolds
<1>4. q.op # "link"
  BY <1>0, <1>1, HeldAtPoint DEF PlaceFit, IpPoints, TgtPoints, CallOps
<1>5. HeldCount(r[p], pc[p], dp) >= 1
  BY <1>1, OwnRef DEF IpPoints
<1>6. ip # dp
  BY <1>1, <1>3, InumIs
<1>7. /\ dino \in [Inums -> Inode] /\ icache \in [Inums -> CacheEntry]
      /\ dino[ip] \in Inode /\ dino[dp] \in Inode /\ icache[ip] \in CacheEntry /\ icache[dp] \in CacheEntry
  BY <1>0, <1>2 DEF FilesTypeOK
<1>8. /\ Loaded(ip) \in CacheEntry /\ Loaded(ip).valid /\ Loaded(ip).type = dino[ip].type
      /\ Loaded(ip).nlink = dino[ip].nlink /\ Loaded(ip).ref = icache[ip].ref
  BY <1>0, <1>1, <1>2, LoadedFits, LoadedIs
<1>9. Owes(q, "unlinkip") = 0 /\ Place(q, "unlinkip") = "unlinkip" /\ Owes(q, "bad") = 0 /\ Owes(q, "nlink") = ip
  BY <1>4 DEF Owes, SecondHalf, Place, Iputs
<1>10. CASE icache' = [icache EXCEPT ![ip] = Loaded(ip)] /\ Put(p, <<ip>>, "bad") /\ UNCHANGED dino
  <2>1. CacheGood(p)
    BY <1>0, <1>1, <1>2, <1>10, IlockPlain, CacheAlike
  <2>2. InCall(p)
    BY <1>1, <1>10 DEF FSame, InCall
  <2>3. icache'[dp].lock = p
    BY <1>2, <1>3, <1>6, <1>7, <1>10
  <2>4. PlaceHolds(dino, icache', Fresh, p, q, "bad")
    <3>1. PlaceUses(q, "bad") = {dp} /\ ~SecondHalf(q, "bad")
      BY <1>4 DEF PlaceUses, UsesTgt, IpPoints, TgtPoints, SecondHalf
    <3> QED
      BY <1>2, <2>3, <3>1 DEF PlaceHolds
  <2> QED
    BY <1>0, <1>1, <1>2, <1>9, <1>10, <2>1, <2>2, <2>4, PuttingIn
<1>11. CASE /\ ~(dir /\ ~Empty(ip))
            /\ dino' = [dino EXCEPT ![dp].ents[name] = 0, ![dp].nlink = n]
            /\ icache' = [icache EXCEPT ![ip] = x, ![dp] = y]
            /\ Put(p, <<dp>>, "nlink")
  <2>1. Writing(p)
    BY <1>1 DEF FSame, Writing
  <2>2. /\ icache[dp].valid /\ icache[dp].type = dino[dp].type /\ icache[dp].nlink = dino[dp].nlink
        /\ dino[dp].nlink \in Int
    <3>1. icache[dp].lock # 0
      BY <1>3, InumIs
    <3> QED
      BY <1>0, <1>2, <1>7, <3>1 DEF CacheFits, Inode
  <2>3. k \in Int /\ n = dino[dp].nlink + k /\ (dir <=> dino[ip].type = "dir")
    BY <1>8, <2>2
  <2>4. dino[ip].type = "dir" => \A m \in Names : dino[ip].ents[m] = 0
    BY <1>11, <2>3 DEF Empty
  <2> DEFINE d2 == dino'
  <2>5. /\ d2[dp].type = dino[dp].type /\ d2[dp].nlink = n
        /\ d2[dp].ents = [dino[dp].ents EXCEPT ![name] = 0]
        /\ \A j \in Inums \ {dp} : d2[j] = dino[j]
    <3> HIDE DEF n, name
    <3> QED
      BY <1>2, <1>7, <1>11 DEF Inode
  <2>6. d2 \in [Inums -> Inode]
    BY <1>0 DEF FilesTypeOK
  <2> HIDE DEF d2, k, n, x, y
  <2>7. /\ TreeShape(d2)
        /\ \A a \in Inums \ {ip} : Attached(dino, a) => Attached(d2, a)
        /\ \A e \in Spots \ {<<dp, name>>} : NameAt(d2)[e] = NameAt(dino)[e]
        /\ <<dp, name>> \in Spots /\ NameAt(dino)[<<dp, name>>] = ip /\ NameAt(d2)[<<dp, name>>] = 0
        /\ \A a \in Inums \ {ip} : ParentOf(d2)[a] = ParentOf(dino)[a]
        /\ ParentOf(dino)[ip] = (IF dino[ip].type = "dir" THEN dp ELSE 0) /\ ParentOf(d2)[ip] = 0
    <3>1. \A j \in Inums : d2[j].type = dino[j].type
      BY <2>5
    <3>2. /\ dino \in [Inums -> Inode] /\ d2 \in [Inums -> Inode] /\ TreeShape(dino)
          /\ dp \in Inums /\ name \in Names /\ ip \in Inums /\ dino[dp].ents[name] = ip
          /\ dino[ip].type = "dir" => \A m \in Names : dino[ip].ents[m] = 0
          /\ \A j \in Inums : d2[j].type = dino[j].type
          /\ \A j \in Inums \ {dp} : d2[j] = dino[j]
          /\ d2[dp].ents = [dino[dp].ents EXCEPT ![name] = 0]
      BY <1>0, <1>2, <1>3, <1>7, <2>4, <2>5, <2>6, <3>1
    <3> HIDE DEF dp, ip, name, dir
    <3>3. Leaves(dino, d2, dp, name, ip)
      BY ONLY <3>2 DEF Leaves
    <3>4. Left(dino, d2, dp, name, ip)
      BY ONLY <3>3, TreeRemove
    <3> QED
      BY ONLY <3>4 DEF Left
  <2>8. pc'[p] = "iput" /\ Owed[p] = 0 /\ Owed'[p] = ip /\ \A a \in Procs \ {p} : Owed'[a] = Owed[a]
    <3>1. "nlink" \in Thens /\ <<dp>> \in Seq(Inums) /\ <<dp>> # <<>>
      BY <1>2 DEF Thens
    <3>2. PlaceFit(q, "nlink")
      BY <1>0, <1>1, HeldAtPoint DEF PlaceFit, UsesTgt, IpPoints, TgtPoints, SecondHalf, CallOps
    <3>3. pc'[p] = "iput" /\ r'[p].then = "nlink"
      BY <1>0, <1>11, <3>1, <3>2, Putting
    <3>4. Place(r'[p], pc'[p]) = "nlink"
      BY <3>3 DEF Place, Iputs
    <3>5. r'[p].tgt = ip
      BY <1>0, <1>7, <1>11 DEF Put, Goto, FilesTypeOK, Locals
    <3>6. Owes(r'[p], Place(r'[p], pc'[p])) = ip
      BY <3>4, <3>5 DEF Owes
    <3> QED
      BY <1>0, <1>1, <1>9, <3>3, <3>6, OwedStep
  <2>9. Counted(d2, Owed')
    <3>1. \A j \in Inums : dino[j].nlink \in Int
      BY <1>7 DEF Inode
    <3> DEFINE par == IF dino[ip].type = "dir" THEN dp ELSE 0
    <3>2. ASSUME NEW j \in Inums
          PROVE  d2[j].nlink = dino[j].nlink - One(ip, j) + One(0, j) - One(par, j) + One(0, j)
                                 - One(0, j) + One(ip, j)
      <4>1. d2[j].nlink = dino[j].nlink - One(par, j)
        <5>1. CASE j = dp
          <6>1. One(par, j) = -k
            BY <5>1, <1>2, <2>3, InumIs DEF One, k
          <6> QED
            BY <5>1, <6>1, <2>2, <2>3, <2>5
        <5>2. CASE j # dp
          <6>1. One(par, j) = 0
            BY <5>2, InumIs DEF One
          <6> QED
            BY <5>2, <6>1, <2>5, <3>1
        <5> QED
          BY <5>1, <5>2
      <4>2. dino[j].nlink \in Int /\ One(par, j) \in Nat /\ One(ip, j) \in Nat /\ One(0, j) = 0
        BY <3>1, OneType, InumIs DEF One
      <4> HIDE DEF par
      <4> QED
        BY ONLY <4>1, <4>2
    <3>3. \A j \in Inums : d2[j].nlink =
             dino[j].nlink - One(NameAt(dino)[<<dp, name>>], j) + One(NameAt(d2)[<<dp, name>>], j)
                        - One(ParentOf(dino)[ip], j) + One(ParentOf(d2)[ip], j)
                        - One(Owed[p], j) + One(Owed'[p], j)
      BY <2>7, <2>8, <3>2
    <3> HIDE DEF dp, ip, name, par
    <3> QED
      BY <1>0, <1>2, <2>7, <2>8, <3>1, <3>3, CountedStep
  <2>10. /\ CacheFits(icache', d2) /\ LocksKept(p, icache, icache') /\ icache'[ip].lock = p
         /\ \A j \in Inums : ~(icache'[j].ref > icache[j].ref)
    <3>1. x.valid /\ x.type = dino[ip].type /\ x.nlink = dino[ip].nlink /\ x.lock = p /\ x.ref = icache[ip].ref
      BY <1>8 DEF CacheEntry, x
    <3>2. y.valid /\ y.type = dino[dp].type /\ y.nlink = n /\ y.ref = icache[dp].ref
      <4>1. y.ref = icache[dp].ref
        BY <1>7, <2>3, UnlockedIs DEF y
      <4>2. y.valid /\ y.type = dino[dp].type /\ y.nlink = dino[dp].nlink + k
        BY <1>7, <2>2, <2>3, UnlockedTo DEF y
      <4> QED
        BY <2>3, <4>1, <4>2
    <3>3. Fitting(x, d2[ip]) /\ Fitting(y, d2[dp])
      BY <1>2, <1>3, <1>6, <2>5, <3>1, <3>2 DEF Fitting, Settled
    <3> DEFINE c2 == [icache EXCEPT ![ip] = x, ![dp] = y]
    <3>4. icache' = c2
      BY <1>11
    <3>5. c2[ip] = x /\ c2[dp] = y /\ \A a \in Inums \ {ip, dp} : c2[a] = icache[a] /\ d2[a] = dino[a]
      BY <1>2, <1>6, <1>7, <2>5
    <3> HIDE DEF ip, dp, c2
    <3>6. CacheFits(c2, d2)
      BY <1>0, <3>3, <3>5, SetsFit
    <3>7. LocksKept(p, icache, c2)
      <4>1. icache[ip].lock = 0 /\ icache[dp].lock = p
        BY <1>1, <1>3
      <4> QED
        BY <3>5, <4>1 DEF LocksKept
    <3>8. ASSUME NEW j \in Inums PROVE ~(c2[j].ref > icache[j].ref)
      <4>1. c2[j].ref = icache[j].ref
        BY <3>1, <3>2, <3>5
      <4>2. icache[j].ref \in Int
        BY <1>7 DEF CacheEntry
      <4> QED
        BY ONLY <4>1, <4>2
    <3> QED
      BY <3>1, <3>4, <3>5, <3>6, <3>7, <3>8
  <2>11. Keeps(p)
    <3>1. Reach(p, dp)
      BY <1>5 DEF Reach
    <3>2. ASSUME NEW j \in Inums
          PROVE  /\ dino[j].type # "free" => dino'[j].type = dino[j].type \/ OnlyOf(p, j)
                 /\ icache[j].lock \notin {0, p} => /\ Attached(dino, j) => Attached(dino', j)
                                                    /\ \A m \in Names : dino'[j].ents[m] = dino[j].ents[m]
                 /\ icache'[j].ref > icache[j].ref \/ dino'[j].nlink # dino[j].nlink => Reach(p, j)
      <4>1. d2[j].type = dino[j].type /\ (j # ip /\ Attached(dino, j) => Attached(d2, j))
        BY <2>5, <2>7
      <4>2. j # dp => d2[j] = dino[j]
        BY <2>5
      <4>3. icache[j].lock \notin {0, p} => j \notin {ip, dp}
        BY <1>1, <1>3
      <4> QED
        BY <2>10, <3>1, <4>1, <4>2, <4>3 DEF d2
    <3>3. ASSUME NEW a \in Procs \ {p}, pc[a] = "created"
          PROVE  dino'[r[a].tgt] = dino[r[a].tgt]
      <4>1. r[a].tgt \in Fresh /\ r[a].tgt \in Inums
        BY <3>3, OwnRef DEF Fresh, Iputs, TgtPoints
      <4>2. r[a].tgt # dp
        BY <1>2, <4>1 DEF Settled
      <4> QED
        BY <2>5, <4>1, <4>2 DEF d2
    <3> QED
      BY <1>0, <2>8, <2>10, <3>2, <3>3 DEF Keeps
  <2>12. Settled(dino', Fresh', dp) /\ Settled(dino', Fresh', ip)
    <3>1. ASSUME NEW j \in {dp, ip} PROVE Settled(dino', Fresh', j)
      <4>1. dino[j].type # "free" /\ dino'[j].type = dino[j].type /\ Settled(dino, Fresh, j)
        BY <1>2, <2>5 DEF d2, Settled
      <4> QED
        BY <2>11, <4>1, FreshKept
    <3> QED
      BY <3>1
  <2>13. PlaceHolds(dino', icache', Fresh', p, q, "nlink")
    <3>1. PlaceUses(q, "nlink") = {ip} /\ ~SecondHalf(q, "nlink")
      BY <1>4 DEF PlaceUses, UsesTgt, IpPoints, TgtPoints, SecondHalf
    <3> QED
      BY <2>10, <2>12, <3>1 DEF PlaceHolds
  <2>14. CallHolds(dino', icache', Fresh', p, r'[p], pc'[p])
    <3>1. \A a \in ToSet(<<dp>>) : Settled(dino', Fresh', a)
      BY <2>12, PutOne
    <3>2. FilesTypeOK /\ p \in Procs /\ Moves(p) /\ Put(p, <<dp>>, "nlink")
      BY <1>0, <1>11
    <3>3. PlaceHolds(dino', icache', Fresh', p, r[p], "nlink")
      BY <2>13
    <3> HIDE DEF dp
    <3> QED
      BY ONLY <3>1, <3>2, <3>3, PutGood
  <2> QED
    BY <1>0, <2>1, <2>7, <2>9, <2>10, <2>11, <2>14, WritingStep DEF d2
<1> QED
  BY <1>10, <1>11 DEF UnlinkEntry

\* link() enters the name that it owed, unless the directory has it.
LEMMA LinkEntryTree ==
  ASSUME TreeCondition, FilesInv, TreeInv, NEW p \in Procs, LinkEntry(p), ~strayed'
  PROVE  TreeInv'
<1> DEFINE q == r[p]
           dp == q.ip
           ip == q.tgt
           name == Head(q.path)
           found == dino[dp].ents[name]
<1>0. /\ FilesTypeOK /\ ShapeInv /\ CacheFits(icache, dino) /\ FilesTypeOK' /\ Moves(p) /\ Sound(p)
      /\ TreeShape(dino) /\ Counted(dino, Owed)
  BY LinkEntrySound DEF FilesInv, TreeInv, Sound
<1>1. /\ pc[p] = "linkentry" /\ pc[p] \notin Iputs /\ FSame /\ pc[p] \notin Outside
      /\ icache[dp].lock = 0 /\ ~LoadPanics(dp) /\ Loaded(dp).nlink # 0
  BY DEF LinkEntry, Ilock, Wanted, Outside, Iputs
<1>2. q \in Locals /\ q.put = <<>> /\ PlaceFit(q, "linkentry") /\ q.op = "link" /\ q.parent /\ Len(q.path) = 1
  BY <1>0, <1>1, HeldAtPoint DEF PlaceFit
<1>3. /\ \A at \in {"linkentry", "bad"} : SecondHalf(q, at) /\ Owes(q, at) = ip
      /\ Owes(q, "end") = 0 /\ Place(q, "linkentry") = "linkentry"
  BY <1>2 DEF SecondHalf, Owes, Place, Iputs
<1>4. /\ PlaceHolds(dino, icache, Fresh, p, q, "linkentry") /\ dp \in Inums /\ ip \in Inums
      /\ Settled(dino, Fresh, dp) /\ Settled(dino, Fresh, ip)
  BY <1>1, <1>3, AtIlock DEF IpPoints
<1>5. dino[dp].type = "dir" /\ dino[ip].type = "file"
  BY <1>3, <1>4 DEF PlaceHolds
<1>6. Attached(dino, dp)
  <2>1. dino[dp].nlink # 0
    BY <1>0, <1>1, <1>4, LoadedFits
  <2> QED
    BY <1>1, <1>4, <1>5, <2>1, UnlockedAttached
<1>7. name \in Dots /\ found \in Inums \cup {0}
  <2>1. q.path \in Seq(Dots)
    BY <1>2 DEF Locals
  <2>2. q.path # <<>>
    <3> HIDE DEF q
    <3> QED
      BY <1>2, OneElement
  <2> QED
    BY <1>0, <1>4, <2>1, <2>2, EntryIs
<1>8. /\ dino \in [Inums -> Inode] /\ icache \in [Inums -> CacheEntry] /\ dino[dp] \in Inode
  BY <1>0, <1>4 DEF FilesTypeOK
<1>9. CASE /\ found # 0
           /\ icache' = Iget([icache EXCEPT ![dp] = [Loaded(dp) EXCEPT !.lock = p]], found)
           /\ Put(p, <<found>>, "bad") /\ UNCHANGED dino
  <2> DEFINE c == [icache EXCEPT ![dp] = [Loaded(dp) EXCEPT !.lock = p]]
  <2>1. Alike(icache, c) /\ CacheFits(c, dino) /\ LocksKept(p, icache, c) /\ c[dp].lock = p
    BY <1>0, <1>1, <1>4, IlockEntry DEF FilesTypeOK
  <2>2. found \in Inums /\ Attached(dino, found)
    BY <1>0, <1>4, <1>5, <1>6, <1>7, <1>8, <1>9, EntryAttached
  <2>3. Settled(dino, Fresh, found) /\ Reach(p, found)
    BY <2>2, AttachedSettled DEF Reach
  <2>4. icache' = Iget(c, found)
    BY <1>9
  <2> HIDE DEF c
  <2>5. CacheGood(p)
    <3> HIDE DEF found
    <3> QED
      BY <1>0, <2>1, <2>2, <2>3, <2>4, CacheIget
  <2>6. icache'[dp].lock = p
    <3>1. c[dp].ref # 0 /\ c \in [Inums -> CacheEntry]
      BY <1>1, <1>4, <2>1, OwnRef DEF Alike, IpPoints
    <3> HIDE DEF found
    <3> QED
      BY <1>4, <2>1, <2>2, <2>4, <3>1, IgetEntry
  <2>7. PlaceHolds(dino, icache', Fresh, p, q, "bad")
    <3>1. PlaceUses(q, "bad") = {dp, ip}
      BY <1>3 DEF PlaceUses, UsesTgt, IpPoints
    <3> QED
      BY <1>4, <1>5, <2>6, <3>1 DEF PlaceHolds
  <2>8. InCall(p)
    BY <1>1, <1>9 DEF FSame, InCall
  <2>9. Put(p, <<found>>, "bad") /\ Owes(q, "bad") = Owes(q, pc[p])
    BY <1>1, <1>3, <1>9
  <2> HIDE DEF found
  <2> QED
    BY <1>0, <1>1, <2>3, <2>5, <2>7, <2>8, <2>9, PuttingIn
<1>10. CASE /\ found = 0 /\ icache' = [icache EXCEPT ![dp] = Loaded(dp)]
            /\ dino' = [dino EXCEPT ![dp].ents[name] = ip]
            /\ Put(p, <<dp, ip>>, "end")
  <2>1. name \in Names
    <3>1. dino[dp].ents[".."] \in Inums
      BY <1>0, <1>4, <1>5, <1>6, <1>8, ParentAttached
    <3> QED
      BY <1>7, <1>10, <3>1, InumIs DEF Dots
  <2>2. Writing(p)
    BY <1>1 DEF FSame, Writing
  <2> DEFINE d2 == dino'
  <2>3. /\ \A j \in Inums : d2[j].type = dino[j].type /\ d2[j].nlink = dino[j].nlink
        /\ d2[dp].ents = [dino[dp].ents EXCEPT ![name] = ip]
        /\ \A j \in Inums \ {dp} : d2[j] = dino[j]
    <3> HIDE DEF name
    <3>1. /\ d2[dp].type = dino[dp].type /\ d2[dp].nlink = dino[dp].nlink
          /\ d2[dp].ents = [dino[dp].ents EXCEPT ![name] = ip]
          /\ \A j \in Inums \ {dp} : d2[j] = dino[j]
      BY <1>4, <1>8, <1>10 DEF Inode
    <3> QED
      BY <3>1
  <2>4. d2 \in [Inums -> Inode]
    BY <1>0 DEF FilesTypeOK
  <2> HIDE DEF d2
  <2>5. ip # dp /\ ip # ROOTINO
    BY <1>0, <1>5 DEF TreeShape
  <2>6. /\ TreeShape(d2)
        /\ \A a \in Inums : Attached(dino, a) => Attached(d2, a)
        /\ \A e \in Spots \ {<<dp, name>>} : NameAt(d2)[e] = NameAt(dino)[e]
        /\ NameAt(dino)[<<dp, name>>] = 0 /\ NameAt(d2)[<<dp, name>>] = ip
        /\ \A a \in Inums : ParentOf(d2)[a] = ParentOf(dino)[a]
    <3>1. \A m \in Dots : dino[ip].ents[m] = 0
      BY <1>0, <1>4, <1>5 DEF TreeShape
    <3>2. dino[ip].type # "dir" /\ dino[ip].type # "free"
      BY <1>5
    <3>3. Enters(dino, d2, dp, name, ip)
      <4>1. /\ dino \in [Inums -> Inode] /\ d2 \in [Inums -> Inode] /\ TreeShape(dino)
            /\ dp \in Inums /\ name \in Names /\ ip \in Inums /\ ip # dp /\ ip # ROOTINO
            /\ Attached(dino, dp) /\ dino[dp].type = "dir" /\ dino[dp].ents[name] = 0
        BY <1>0, <1>4, <1>5, <1>6, <1>8, <1>10, <2>1, <2>4, <2>5
      <4>2. /\ \A j \in Inums : d2[j].type = dino[j].type
            /\ \A j \in Inums \ {dp, ip} : d2[j] = dino[j]
            /\ d2[dp].ents = [dino[dp].ents EXCEPT ![name] = ip]
        BY <2>3
      <4>3. d2[ip].ents = dino[ip].ents
        BY <2>3, <2>5, <4>1
      <4>4. (\A m \in Names : d2[ip].ents[m] = dino[ip].ents[m]) /\ d2[ip].ents[".."] = 0
        BY <3>1, <4>3, InumIs DEF Dots
      <4> HIDE DEF dp, ip, name, found
      <4> QED
        BY <3>2, <4>1, <4>2, <4>4 DEF Enters
    <3> HIDE DEF dp, ip, name, found
    <3>4. Entered(dino, d2, dp, name, ip)
      BY ONLY <3>3, TreeEnter
    <3>5. /\ TreeShape(d2)
          /\ \A a \in Inums : Attached(dino, a) => Attached(d2, a)
          /\ \A e \in Spots \ {<<dp, name>>} : NameAt(d2)[e] = NameAt(dino)[e]
          /\ NameAt(dino)[<<dp, name>>] = 0 /\ NameAt(d2)[<<dp, name>>] = ip
          /\ \A a \in Inums \ {ip} : ParentOf(d2)[a] = ParentOf(dino)[a]
          /\ ParentOf(d2)[ip] = ParentOf(dino)[ip]
      BY <3>2, <3>4 DEF Entered
    <3> QED
      BY <3>5
  <2>7. \A a \in ToSet(<<dp, ip>>) : Settled(dino, Fresh, a)
    <3>1. ToSet(<<dp, ip>>) = {dp, ip}
      <4> HIDE DEF dp, ip
      <4> QED
        BY DEF ToSet
    <3> QED
      BY <1>4, <3>1
  <2>8. pc'[p] = "iput" /\ Owes(r'[p], Place(r'[p], pc'[p])) = 0
    <3>1. PlaceHolds(dino, icache, Fresh, p, q, "end")
      BY EndHolds
    <3> QED
      BY <1>0, <1>3, <1>10, <2>7, <3>1, PutGood
  <2>9. Owed[p] = ip /\ Owed'[p] = 0 /\ \A a \in Procs \ {p} : Owed'[a] = Owed[a]
    BY <1>0, <1>1, <1>3, <2>8, OwedStep
  <2>10. Counted(d2, Owed')
    <3>1. \A j \in Inums : dino[j].nlink \in Int
      BY <1>8 DEF Inode
    <3>2. <<dp, name>> \in Spots
      BY <1>4, <2>1 DEF Spots
    <3>3. ASSUME NEW j \in Inums
          PROVE  d2[j].nlink = dino[j].nlink - One(NameAt(dino)[<<dp, name>>], j) + One(NameAt(d2)[<<dp, name>>], j)
                                 - One(ParentOf(dino)[ip], j) + One(ParentOf(d2)[ip], j)
                                 - One(Owed[p], j) + One(Owed'[p], j)
      <4>1. /\ One(NameAt(dino)[<<dp, name>>], j) = One(Owed'[p], j)
            /\ One(NameAt(d2)[<<dp, name>>], j) = One(Owed[p], j)
            /\ One(ParentOf(dino)[ip], j) = One(ParentOf(d2)[ip], j)
        BY <1>4, <2>6, <2>9
      <4>2. /\ One(Owed'[p], j) \in Nat /\ One(Owed[p], j) \in Nat /\ One(ParentOf(d2)[ip], j) \in Nat
            /\ d2[j].nlink = dino[j].nlink /\ dino[j].nlink \in Int
        BY <2>3, <3>1, OneType
      <4> QED
        BY ONLY <4>1, <4>2
    <3> HIDE DEF dp, ip, name
    <3> QED
      BY <1>0, <1>4, <2>6, <2>9, <3>1, <3>2, <3>3, CountedStep
  <2>11. /\ CacheFits(icache', d2) /\ LocksKept(p, icache, icache')
         /\ \A j \in Inums : ~(icache'[j].ref > icache[j].ref)
    <3> DEFINE c == [icache EXCEPT ![dp] = Loaded(dp)]
    <3>1. Alike(icache, c) /\ CacheFits(c, dino) /\ LocksKept(p, icache, c)
      BY <1>0, <1>1, <1>4, IlockPlain
    <3>2. icache' = c
      BY <1>10
    <3> HIDE DEF c
    <3>3. CacheFits(c, d2)
      BY <2>3, <3>1 DEF CacheFits
    <3>4. \A j \in Inums : c[j].ref = icache[j].ref /\ icache[j].ref \in Int
      BY <1>8, <3>1 DEF Alike, CacheEntry
    <3> QED
      BY <3>1, <3>2, <3>3, <3>4
  <2>12. Keeps(p)
    <3>1. ASSUME NEW j \in Inums
          PROVE  /\ dino[j].type # "free" => dino'[j].type = dino[j].type \/ OnlyOf(p, j)
                 /\ icache[j].lock \notin {0, p} => /\ Attached(dino, j) => Attached(dino', j)
                                                    /\ \A m \in Names : dino'[j].ents[m] = dino[j].ents[m]
                 /\ icache'[j].ref > icache[j].ref \/ dino'[j].nlink # dino[j].nlink => Reach(p, j)
      <4>1. /\ d2[j].type = dino[j].type /\ d2[j].nlink = dino[j].nlink
            /\ Attached(dino, j) => Attached(d2, j)
        BY <2>3, <2>6
      <4>2. icache[j].lock \notin {0, p} => d2[j] = dino[j]
        BY <1>1, <2>3
      <4> QED
        BY <2>11, <4>1, <4>2 DEF d2
    <3>2. ASSUME NEW a \in Procs \ {p}, pc[a] = "created"
          PROVE  dino'[r[a].tgt] = dino[r[a].tgt]
      <4>1. r[a].tgt \in Fresh /\ r[a].tgt \in Inums
        BY <3>2, OwnRef DEF Fresh, Iputs, TgtPoints
      <4>2. r[a].tgt # dp
        BY <1>4, <4>1 DEF Settled
      <4> QED
        BY <2>3, <4>1, <4>2 DEF d2
    <3> QED
      BY <1>0, <2>8, <2>11, <3>1, <3>2 DEF Keeps
  <2>13. CallHolds(dino', icache', Fresh', p, r'[p], pc'[p])
    <3>1. ASSUME NEW a \in ToSet(<<dp, ip>>) PROVE Settled(dino', Fresh', a)
      <4>1. a \in Inums
        BY <1>4 DEF ToSet
      <4>2. Settled(dino, Fresh, a) /\ dino[a].type # "free" /\ dino'[a].type = dino[a].type
        BY <2>3, <2>7, <4>1 DEF d2, Settled
      <4> QED
        BY <2>12, <4>2, FreshKept
    <3>2. PlaceHolds(dino', icache', Fresh', p, q, "end")
      BY EndHolds
    <3> QED
      BY <1>0, <1>10, <3>1, <3>2, PutGood
  <2> QED
    BY <1>0, <2>2, <2>6, <2>10, <2>11, <2>12, <2>13, WritingStep DEF d2
<1> QED
  BY <1>9, <1>10 DEF LinkEntry

\* Steps outside of the calls on paths: a process that opens or closes nothing but
\* descriptors, goes to its exit, or begins and ends a transaction.
LEMMA RestHolds ==
  ASSUME NEW d, NEW c, NEW F, NEW p, NEW q, NEW at \in {"end", "user", "exit", "closing"},
         at # "end" => q.op \in {"none", "exit"}, \A i \in ToSet(q.put) : Settled(d, F, i)
  PROVE  CallHolds(d, c, F, p, q, at) /\ Owes(q, Place(q, at)) = 0
<1>1. Place(q, at) = at
  BY DEF Place, Iputs
<1>2. PlaceHolds(d, c, F, p, q, at) /\ Owes(q, at) = 0
  BY EndHolds
<1>3. PutHolds(d, c, F, p, q, at)
  BY DEF PutHolds
<1> QED
  BY <1>1, <1>2, <1>3 DEF CallHolds

LEMMA NothingPut == ToSet(<<>>) = {}
BY DEF ToSet

LEMMA RestOwes ==
  ASSUME FilesTypeOK, ShapeInv, NEW p \in Procs, pc[p] \in {"user", "exit", "closing", "end"}
  PROVE  Owes(r[p], Place(r[p], pc[p])) = 0
<1>1. LocalsFit(r[p], pc[p]) /\ Place(r[p], pc[p]) = pc[p]
  BY DEF ShapeInv, Place, Iputs
<1>2. pc[p] # "end" => r[p].op \in {"none", "exit"}
  BY <1>1 DEF LocalsFit
<1> QED
  BY <1>1, <1>2 DEF Owes, SecondHalf

LEMMA RestStep ==
  ASSUME TreeCondition, FilesInv, TreeInv, NEW p \in Procs, Sound(p), UNCHANGED <<dino, stable>>,
         CacheGood(p), pc'[p] # "created", CallHolds(dino, icache', Fresh, p, r'[p], pc'[p]),
         pc[p] \in {"user", "exit", "closing", "end"}, Owes(r'[p], Place(r'[p], pc'[p])) = 0,
         InTransaction(p),
         \A x \in Procs : cwd'[x] \in {0, cwd[x]} \/ (dino[cwd'[x]].type = "dir" /\ Settled(dino, Fresh, cwd'[x])),
         \A f \in Fds : ftable'[f].ip \in {0, ftable[f].ip}
  PROVE  TreeInv'
<1>1. FilesTypeOK /\ ShapeInv /\ FilesTypeOK' /\ Moves(p)
  BY DEF FilesInv, Sound
<1>2. Gentle(p)
  BY <1>1, RestOwes DEF Gentle, CacheGood
<1> QED
  BY <1>1, <1>2, GentleStep

\* The reference of a file goes to the process that closes it last.
LEMMA FilecloseTree ==
  ASSUME TreeCondition, FilesInv, TreeInv, NEW p \in Procs, Close(p) \/ ExitFile(p)
  PROVE  TreeInv'
<1> DEFINE g == ofile[p]
           ip == ftable[g].ip
<1>0. FilesTypeOK /\ ShapeInv /\ RefsArePointers /\ FilesCondition /\ Sound(p) /\ FilesTypeOK'
  BY CloseSound DEF FilesInv, TreeCondition, Sound
<1>1. /\ pc[p] \in {"user", "exit"} /\ ofile[p] # 0 /\ UNCHANGED <<dino, stable, tx, icache, cwd>>
      /\ pc[p] = "exit" => r[p].op = "exit"
  BY <1>0, Resting DEF Close, ExitFile
<1>2. PICK l : /\ Fileclose(p, l) /\ l \in Locals /\ l.put = <<>> /\ l.op \in {"none", "exit"}
  <2>1. NoLocals \in Locals /\ NoLocals.put = <<>> /\ NoLocals.op = "none"
    BY <1>0, Basics DEF NoLocals
  <2>2. ExitFile(p) => r[p] \in Locals /\ r[p].put = <<>> /\ r[p].op = "exit"
    BY <1>0, Resting DEF ExitFile
  <2> QED
    BY <2>1, <2>2 DEF Close, ExitFile
<1>3. g \in Fds /\ ip \in Inums
  <2>1. g \in Fds /\ ftable[g].ref \in Nat \ {0}
    BY <1>0, <1>1, FdRef
  <2>2. ip # 0 /\ ip \in Inums \cup {0}
    BY <1>0, <2>1 DEF ShapeInv, FilesTypeOK, File
  <2> QED
    BY <2>1, <2>2
<1>4. Settled(dino, Fresh, ip)
  BY <1>3, InumIs DEF TreeInv
<1>5. \A f \in Fds : ftable'[f].ip \in {0, ftable[f].ip}
  <2>1. CASE LastFd(g)
    <3>1. ftable' = [ftable EXCEPT ![g] = [ref |-> 0, ip |-> 0]]
      BY <1>2, <2>1 DEF Fileclose
    <3>2. ASSUME NEW f \in Fds PROVE ftable'[f].ip \in {0, ftable[f].ip}
      <4>1. f = g => ftable'[f].ip = 0
        BY <1>0, <1>3, <3>1 DEF FilesTypeOK
      <4>2. f # g => ftable'[f] = ftable[f]
        BY <1>0, <1>3, <3>1 DEF FilesTypeOK
      <4> QED
        BY <4>1, <4>2
    <3> QED
      BY <3>2
  <2>2. CASE ~LastFd(g)
    <3> DEFINE n == ftable[g].ref - 1
    <3>1. ftable' = [ftable EXCEPT ![g] = [ftable[g] EXCEPT !.ref = n]]
      BY <1>2, <2>2 DEF Fileclose
    <3> HIDE DEF n
    <3>2. ASSUME NEW f \in Fds PROVE ftable'[f].ip \in {0, ftable[f].ip}
      <4>1. f = g => ftable'[f].ip = ftable[f].ip
        BY <1>0, <1>3, <3>1 DEF FilesTypeOK, File
      <4>2. f # g => ftable'[f] = ftable[f]
        BY <1>0, <1>3, <3>1 DEF FilesTypeOK
      <4> QED
        BY <4>1, <4>2
    <3> QED
      BY <3>2
  <2> QED
    BY <2>1, <2>2
<1>6. /\ pc'[p] \in {"closing", "exit", "user"} /\ r'[p].op \in {"none", "exit"}
      /\ \A i \in ToSet(r'[p].put) : Settled(dino, Fresh, i)
  <2>1. CASE LastFd(g)
    <3> DEFINE s == <<ip>>
               t == [l EXCEPT !.put = s]
    <3>1. Goto(p, "closing", t)
      BY <1>2, <2>1 DEF Fileclose
    <3>2. t.put = s /\ t.op = l.op
      BY <1>2 DEF Locals
    <3> HIDE DEF t
    <3>3. r'[p] = t /\ pc'[p] = "closing"
      BY <1>0, <3>1 DEF Goto, FilesTypeOK
    <3>4. ToSet(s) = {ip}
      BY PutOne
    <3> QED
      BY <1>2, <1>4, <3>2, <3>3, <3>4
  <2>2. CASE ~LastFd(g)
    <3>1. r'[p] = l /\ pc'[p] \in {"exit", "user"}
      BY <1>0, <1>2, <2>2 DEF Fileclose, Goto, FilesTypeOK
    <3> QED
      BY <1>2, <3>1, NothingPut
  <2> QED
    BY <2>1, <2>2
<1>7. CallHolds(dino, icache', Fresh, p, r'[p], pc'[p]) /\ Owes(r'[p], Place(r'[p], pc'[p])) = 0
  BY <1>6, RestHolds
<1>8. CacheGood(p)
  BY <1>0, <1>1, CacheSame
<1>9. InTransaction(p)
  BY <1>1, <1>6 DEF InTransaction, Outside
<1> QED
  BY <1>0, <1>1, <1>5, <1>6, <1>7, <1>8, <1>9, RestStep

LEMMA ClosingTree ==
  ASSUME TreeCondition, FilesInv, TreeInv, NEW p \in Procs, Closing(p)
  PROVE  TreeInv'
<1>0. FilesTypeOK /\ ShapeInv /\ Sound(p)
  BY ClosingSound DEF FilesInv
<1>1. /\ pc[p] = "closing" /\ Goto(p, "iput", r[p]) /\ tx' = tx \cup {p}
      /\ UNCHANGED <<dino, stable, icache, ftable, cwd>>
  BY DEF Closing
<1>2. r'[p] = r[p] /\ pc'[p] = "iput"
  BY <1>0, <1>1 DEF Goto, FilesTypeOK
<1>3. r[p].then = "end"
  BY <1>0, <1>1 DEF ShapeInv, LocalsFit
<1>4. Place(r[p], "iput") = "end"
  BY <1>3 DEF Place, Iputs
<1>5. PlaceHolds(dino, icache, Fresh, p, r[p], "end") /\ Owes(r[p], "end") = 0
  BY EndHolds
<1>6. PutHolds(dino, icache, Fresh, p, r[p], "iput")
  <2>1. PutHolds(dino, icache, Fresh, p, r[p], pc[p])
    BY DEF TreeInv, CallHolds
  <2> QED
    BY <1>1, <2>1 DEF PutHolds
<1>7. CallHolds(dino, icache', Fresh, p, r'[p], pc'[p]) /\ Owes(r'[p], Place(r'[p], pc'[p])) = 0
  BY <1>1, <1>2, <1>4, <1>5, <1>6 DEF CallHolds
<1>8. CacheGood(p)
  BY <1>0, <1>1, CacheSame
<1>9. InTransaction(p)
  BY <1>1 DEF InTransaction
<1> QED
  BY <1>0, <1>1, <1>2, <1>7, <1>8, <1>9, RestStep

LEMMA ExitTree ==
  ASSUME TreeCondition, FilesInv, TreeInv, NEW p \in Procs, Exit(p)
  PROVE  TreeInv'
<1> DEFINE l == [NoLocals EXCEPT !.op = "exit"]
<1>0. FilesTypeOK /\ ShapeInv /\ Sound(p)
  BY ExitSound DEF FilesInv
<1>1. /\ pc[p] = "user" /\ Goto(p, "exit", l)
      /\ UNCHANGED <<dino, stable, icache, ftable, cwd, tx>>
  BY DEF Exit
<1>2. r'[p] = l /\ pc'[p] = "exit" /\ l.op = "exit" /\ l.put = <<>>
  BY <1>0, <1>1 DEF Goto, FilesTypeOK, NoLocals
<1> HIDE DEF l
<1>3. CallHolds(dino, icache', Fresh, p, r'[p], pc'[p]) /\ Owes(r'[p], Place(r'[p], pc'[p])) = 0
  BY <1>2, RestHolds, NothingPut
<1>4. CacheGood(p)
  BY <1>0, <1>1, CacheSame
<1>5. InTransaction(p)
  BY <1>1, <1>2 DEF InTransaction, Outside
<1> QED
  BY <1>0, <1>1, <1>2, <1>3, <1>4, <1>5, RestStep

LEMMA ExitCwdTree ==
  ASSUME TreeCondition, FilesInv, TreeInv, NEW p \in Procs, ExitCwd(p)
  PROVE  TreeInv'
<1>0. FilesTypeOK /\ ShapeInv /\ Sound(p) /\ Moves(p)
  BY ExitCwdSound DEF FilesInv, Sound
<1>1. /\ pc[p] = "exit" /\ Put(p, <<cwd[p]>>, "end") /\ tx' = tx \cup {p}
      /\ UNCHANGED <<dino, stable, icache, ftable>> /\ cwd' = [cwd EXCEPT ![p] = 0]
  BY DEF ExitCwd
<1>2. cwd[p] \in Inums
  BY <1>0, <1>1, Resting
<1>3. \A i \in ToSet(<<cwd[p]>>) : Settled(dino, Fresh, i)
  BY <1>2, PutOne, InumIs DEF TreeInv
<1>4. PlaceHolds(dino, icache', Fresh, p, r[p], "end") /\ Owes(r[p], "end") = 0
  BY EndHolds
<1>5. /\ pc'[p] = "iput" /\ CallHolds(dino, icache', Fresh, p, r'[p], pc'[p])
      /\ Owes(r'[p], Place(r'[p], pc'[p])) = 0
  BY <1>0, <1>1, <1>3, <1>4, PutGood
<1>6. CacheGood(p)
  BY <1>0, <1>1, CacheSame
<1>7. InTransaction(p)
  BY <1>1 DEF InTransaction
<1>8. \A x \in Procs : cwd'[x] \in {0, cwd[x]}
  BY <1>0, <1>1 DEF FilesTypeOK
<1> QED
  BY <1>0, <1>1, <1>5, <1>6, <1>7, <1>8, RestStep

\* The child of fork() has its parent's directory.
LEMMA ForkTree ==
  ASSUME TreeCondition, FilesInv, TreeInv, NEW p \in Procs, NEW q \in Procs, Fork(p, q)
  PROVE  TreeInv'
<1>0. FilesTypeOK /\ ShapeInv /\ Sound(q) /\ FilesCondition
  BY ForkSound DEF FilesInv, TreeCondition
<1>1. /\ pc[q] = "user" /\ cwd[p] \in Inums /\ UNCHANGED <<dino, stable, tx, pc, r>>
      /\ icache' = Iget(icache, cwd[p]) /\ cwd' = [cwd EXCEPT ![q] = cwd[p]]
  BY <1>0 DEF Fork, FilesTypeOK
<1>2. dino[cwd[p]].type = "dir" /\ Settled(dino, Fresh, cwd[p]) /\ Reach(q, cwd[p])
  BY <1>1, InumIs DEF TreeInv, Reach
<1>3. Alike(icache, icache) /\ LocksKept(q, icache, icache) /\ CacheFits(icache, dino)
  BY <1>0 DEF Alike, LocksKept, FilesTypeOK, TreeInv
<1>4. CacheGood(q)
  BY <1>0, <1>1, <1>2, <1>3, CacheIget
<1>5. r[q].op \in {"none", "exit"} /\ r[q].put = <<>>
  BY <1>0, <1>1, Resting
<1>6. CallHolds(dino, icache', Fresh, q, r'[q], pc'[q]) /\ Owes(r'[q], Place(r'[q], pc'[q])) = 0
  BY <1>1, <1>5, RestHolds, NothingPut
<1>7. InTransaction(q)
  BY <1>1 DEF InTransaction, Outside
<1>8. \A x \in Procs : cwd'[x] \in {0, cwd[x]} \/ (dino[cwd'[x]].type = "dir" /\ Settled(dino, Fresh, cwd'[x]))
  BY <1>0, <1>1, <1>2 DEF FilesTypeOK
<1>9. \A f \in Fds : ftable'[f].ip = ftable[f].ip
  BY <1>0 DEF Fork, FilesTypeOK, File
<1> QED
  BY <1>0, <1>1, <1>4, <1>6, <1>7, <1>8, <1>9, RestStep

\* A call on a path begins its walk.
LEMMA CallTree ==
  ASSUME TreeCondition, FilesInv, TreeInv, NEW p \in Procs, NEW op \in CallOps, NEW path, NEW new,
         Elements(path) \in Seq(Dots), new \in Seq(Names \cup {"..", "/"}),
         op = "link" => Elements(new) \in Seq(Dots), Call(p, op, path, new)
  PROVE  TreeInv'
<1> DEFINE parent == op \notin {"open", "chdir", "link"}
           x == Start(p, path)
           l == [NoLocals EXCEPT !.op = op, !.new = new]
           w == [l EXCEPT !.path = Elements(path), !.parent = parent, !.ip = x]
<1>0. FilesTypeOK /\ ShapeInv /\ Sound(p)
  BY CallSound DEF FilesInv
<1>1. /\ pc[p] = "user" /\ cwd[p] \in Inums /\ UNCHANGED <<dino, stable, ftable, cwd>>
      /\ tx' = tx \cup {p} /\ icache' = Iget(icache, x) /\ Goto(p, "walk", w)
  BY <1>0 DEF Call, WalkFrom, FilesTypeOK
<1>2. w.put = <<>> /\ w.op = op /\ w.parent = parent /\ w.ip = x
  BY DEF NoLocals
<1>3. x \in Inums /\ Settled(dino, Fresh, x) /\ Reach(p, x)
  BY <1>1, StartSettled
<1> HIDE DEF w, x
<1>4. ~SecondHalf(w, "walk") /\ PlaceUses(w, "walk") = {x} /\ Owes(w, "walk") = 0
  BY <1>2 DEF SecondHalf, PlaceUses, UsesTgt, IpPoints, TgtPoints, Owes
<1>5. PlaceHolds(dino, icache', Fresh, p, w, "walk")
  BY <1>3, <1>4 DEF PlaceHolds
<1>6. /\ pc'[p] = "walk" /\ CallHolds(dino, icache', Fresh, p, r'[p], pc'[p])
      /\ Owes(r'[p], Place(r'[p], pc'[p])) = 0
  <2>1. "walk" \notin Iputs
    BY DEF Iputs
  <2> QED
    BY <1>0, <1>1, <1>2, <1>4, <1>5, <2>1, GoGood
<1>7. Alike(icache, icache) /\ LocksKept(p, icache, icache) /\ CacheFits(icache, dino)
  BY <1>0 DEF Alike, LocksKept, FilesTypeOK, TreeInv
<1>8. CacheGood(p)
  BY <1>0, <1>1, <1>3, <1>7, CacheIget
<1>9. InTransaction(p)
  BY <1>1 DEF InTransaction
<1> QED
  BY <1>0, <1>1, <1>6, <1>8, <1>9, RestStep

\* When the last transaction ends nobody owes a link.
LEMMA EndOpTree ==
  ASSUME TreeCondition, FilesInv, TreeInv, NEW p \in Procs, EndOp(p)
  PROVE  TreeInv'
<1> DEFINE l == IF r[p].op = "exit" /\ cwd[p] # 0 THEN [NoLocals EXCEPT !.op = "exit"] ELSE NoLocals
           at == IF r[p].op = "exit" /\ cwd[p] # 0 THEN "exit" ELSE "user"
<1>0. FilesTypeOK /\ ShapeInv /\ Sound(p) /\ FilesTypeOK' /\ Moves(p)
  BY ExitSound DEF FilesInv, Sound
<1>1. /\ pc[p] = "end" /\ Goto(p, at, l) /\ tx' = tx \ {p}
      /\ UNCHANGED <<dino, icache, ftable, cwd>>
      /\ stable' = stable \/ (stable' = dino /\ tx' = {})
  BY DEF EndOp, Commits
<1>2. r'[p] = l /\ pc'[p] = at /\ l.op \in {"none", "exit"} /\ l.put = <<>>
  BY <1>0, <1>1 DEF Goto, FilesTypeOK, NoLocals
<1>3. CallHolds(dino, icache', Fresh, p, r'[p], pc'[p]) /\ Owes(r'[p], Place(r'[p], pc'[p])) = 0
  <2> HIDE DEF l
  <2> QED
    BY <1>2, RestHolds, NothingPut
<1>4. CacheGood(p)
  BY <1>0, <1>1, CacheSame
<1>5. Gentle(p)
  BY <1>0, <1>1, <1>2, <1>3, <1>4, RestOwes DEF Gentle, CacheGood
<1>6. Keeps(p) /\ Fresh' \subseteq Fresh
  BY <1>5, GentleKeeps
<1>7. Owed' = Owed
  <2>1. \A x \in Procs : Owed'[x] = Owed[x]
    BY <1>0, <1>5, OwedStep DEF Gentle
  <2> QED
    BY <2>1 DEF Owed
<1>8. TreeShape(dino') /\ Counted(dino', Owed') /\ CacheFits(icache', dino')
  BY <1>1, <1>7 DEF TreeInv
<1>9. TreeShape(stable') /\ Counted(stable', NothingOwed)
  <2>1. CASE stable' = stable
    BY <2>1 DEF TreeInv
  <2>2. CASE stable' = dino /\ tx' = {}
    <3>1. ASSUME NEW x \in Procs PROVE Owes(r[x], Place(r[x], pc[x])) = 0
      <4>1. pc[x] \in {"user", "exit", "closing", "end"}
        BY <1>1, <2>2 DEF TreeInv
      <4> QED
        BY <1>0, <4>1, RestOwes
    <3>2. Owed = NothingOwed
      BY <3>1 DEF Owed, NothingOwed
    <3> QED
      BY <2>2, <3>2 DEF TreeInv
  <2> QED
    BY <1>1, <2>1, <2>2
<1>10. CallHolds(dino', icache', Fresh', p, r'[p], pc'[p])
  BY <1>1, <1>3, <1>6, FewerFresh
<1>11. InTransaction(p)
  BY <1>1, <1>2 DEF InTransaction, Outside
<1>12. KeepsUsed
  BY <1>1 DEF KeepsUsed
<1> QED
  BY <1>0, <1>6, <1>8, <1>9, <1>10, <1>11, <1>12, TreeStep

-----------------------------------------------------------------------------
\* Every step keeps the tree, as long as nobody uses a removed directory.
LEMMA StepTree ==
  ASSUME TreeCondition, FilesInv, TreeInv, NEW p \in Procs, Step(p), ~strayed'
  PROVE  TreeInv'
<1>1. CASE Iput(p)
  BY <1>1, IputLookTree, IputFreeTree, IputDropTree DEF Iput
<1>2. CASE Walk(p) \/ WalkEnd(p) \/ OpenFound(p) \/ OpenFile(p) \/ Bad(p) \/ Chdir(p)
  BY <1>2, WalkTree, WalkEndTree, OpenFoundTree, OpenFileTree, BadTree, ChdirTree
<1>3. CASE Creation(p)
  BY <1>3, CreateTree, CreateExistsTree, CreateEntryTree, MadeTree DEF Creation
<1>4. CASE Unlinking(p)
  BY <1>4, UnlinkTree, UnlinkEntryTree, UnlinkInodeTree DEF Unlinking
<1>5. CASE Linking(p)
  BY <1>5, LinkTree, LinkEntryTree, LinkBadTree DEF Linking
<1>6. CASE Leaving(p) \/ EndOp(p)
  BY <1>6, FilecloseTree, ClosingTree, ExitTree, ExitCwdTree, EndOpTree DEF Leaving
<1>7. CASE \E q \in Procs : Fork(p, q)
  BY <1>7, ForkTree
<1>8. CASE \E op \in {"open", "creat", "mkdir", "unlink", "chdir"}, path \in Paths :
             Call(p, op, path, <<>>)
  <2>1. PICK op \in {"open", "creat", "mkdir", "unlink", "chdir"}, path \in Paths :
          Call(p, op, path, <<>>)
    BY <1>8
  <2>2. Elements(path) \in Seq(Dots) /\ op \in CallOps /\ op # "link"
    BY DEF TreeCondition, FilesCondition, CallOps
  <2>3. <<>> \in Seq(Names \cup {"..", "/"})
    OBVIOUS
  <2> QED
    BY <2>1, <2>2, <2>3, CallTree
<1>9. CASE \E l \in Links : Call(p, "link", l[1], l[2])
  <2>1. PICK l \in Links : Call(p, "link", l[1], l[2])
    BY <1>9
  <2>2. Elements(l[1]) \in Seq(Dots) /\ Elements(l[2]) \in Seq(Dots)
    BY DEF TreeCondition, FilesCondition
  <2>3. l[2] \in Seq(Names \cup {"..", "/"}) /\ "link" \in CallOps
    BY FilesConstants DEF CallOps
  <2> QED
    BY <2>1, <2>2, <2>3, CallTree
<1> QED
  BY <1>1, <1>2, <1>3, <1>4, <1>5, <1>6, <1>7, <1>8, <1>9 DEF Step

\* Who has strayed stays so.
LEMMA StrayedStays ==
  ASSUME NEW p \in Procs, Step(p), ~strayed'
  PROVE  ~strayed
<1>1. CASE Iput(p)
  BY <1>1 DEF Iput, IputLook, IputFree, IputDrop
<1>2. CASE WalkEnd(p) \/ OpenFound(p) \/ OpenFile(p) \/ Bad(p) \/ Chdir(p) \/ EndOp(p)
  BY <1>2 DEF WalkEnd, OpenFound, OpenFile, Bad, Chdir, EndOp
<1>3. CASE Walk(p)
  BY <1>3 DEF Walk
<1>4. CASE Creation(p)
  BY <1>4 DEF Creation, Create, CreateExists, CreateEntry, Made
<1>5. CASE Unlinking(p)
  BY <1>5 DEF Unlinking, Unlink, UnlinkEntry, UnlinkInode
<1>6. CASE Linking(p)
  BY <1>6 DEF Linking, Link, LinkEntry, LinkBad
<1>7. CASE Leaving(p)
  BY <1>7 DEF Leaving, Close, Closing, Exit, ExitFile, ExitCwd
<1>8. CASE \E q \in Procs : Fork(p, q)
  BY <1>8 DEF Fork
<1>9. CASE \/ \E op \in {"open", "creat", "mkdir", "unlink", "chdir"}, path \in Paths :
                Call(p, op, path, <<>>)
           \/ \E l \in Links : Call(p, "link", l[1], l[2])
  BY <1>9 DEF Call
<1> QED
  BY <1>1, <1>2, <1>3, <1>4, <1>5, <1>6, <1>7, <1>8, <1>9 DEF Step

\* A boot, the first or one after a crash, finds a tree.
BootTree == /\ Boot /\ dino = stable
            /\ TreeShape(stable) /\ Counted(stable, NothingOwed)

LEMMA BootHolds ==
  ASSUME BootTree
  PROVE  TreeInv
<1>1. /\ icache = BootCache /\ ftable = BootFiles /\ cwd = BootCwd /\ dino = stable
      /\ pc = [p \in Procs |-> "user"] /\ r = [p \in Procs |-> NoLocals]
  BY DEF BootTree, Boot
<1>2. Fresh = {}
  BY <1>1 DEF Fresh
<1>3. NoLocals.put = <<>> /\ NoLocals.op = "none"
  BY DEF NoLocals
<1>4. ASSUME NEW p \in Procs
      PROVE  /\ CallHolds(dino, icache, Fresh, p, r[p], pc[p]) /\ Owes(r[p], Place(r[p], pc[p])) = 0
             /\ cwd[p] # 0 => dino[cwd[p]].type = "dir" /\ Settled(dino, Fresh, cwd[p])
  <2>1. r[p] = NoLocals /\ pc[p] = "user"
    BY <1>1
  <2>2. CallHolds(dino, icache, Fresh, p, r[p], pc[p]) /\ Owes(r[p], Place(r[p], pc[p])) = 0
    <3> HIDE DEF NoLocals
    <3> QED
      BY <1>3, <2>1, RestHolds, NothingPut
  <2>3. cwd[p] # 0 => cwd[p] = ROOTINO
    BY <1>1 DEF BootCwd
  <2> QED
    BY <1>1, <1>2, <2>2, <2>3 DEF BootTree, TreeShape, Settled
<1>5. Owed = NothingOwed
  BY <1>4 DEF Owed, NothingOwed
<1>6. CacheFits(icache, dino)
  BY <1>1 DEF CacheFits, BootCache, Uncached
<1>7. \A f \in Fds : ftable[f].ip = 0
  BY <1>1 DEF BootFiles
<1>8. \A p \in Procs : pc[p] = "user"
  BY <1>1
<1> QED
  BY <1>1, <1>4, <1>5, <1>6, <1>7, <1>8 DEF TreeInv, BootTree

LEMMA TreeAlways == TreeCondition => (Spec => [](FilesInv /\ (~strayed => TreeInv)))
<1> SUFFICES ASSUME TreeCondition PROVE Spec => [](FilesInv /\ (~strayed => TreeInv))
  OBVIOUS
<1> DEFINE Inv == FilesInv /\ (~strayed => TreeInv)
<1>1. Spec => []FilesInv
  BY RefsAlways DEF TreeCondition
<1>2. Init => BootTree
  BY DEF Init, BootTree, Boot, TreeCondition, FilesCondition
<1>3. Init => TreeInv
  BY <1>2, BootHolds
<1>4. BootTree' => TreeInv'
  BY BootHolds, PTL
<1>5. FilesInv /\ (~strayed => TreeInv) /\ Next => (~strayed' => TreeInv')
  <2> SUFFICES ASSUME FilesInv, ~strayed => TreeInv, Next, ~strayed' PROVE TreeInv'
    OBVIOUS
  <2>1. CASE Crash
    <3>1. ~strayed
      BY <2>1 DEF Crash
    <3>2. TreeShape(stable) /\ Counted(stable, NothingOwed)
      BY <3>1 DEF TreeInv
    <3>3. Boot'
      BY <2>1 DEF FilesInv, FilesTypeOK, Crash, Boot
    <3>4. dino' = stable /\ stable' = stable
      BY <2>1 DEF Crash
    <3>5. BootTree'
      BY <3>2, <3>3, <3>4 DEF BootTree
    <3> QED
      BY <1>4, <3>5
  <2>2. CASE \E p \in Procs : Step(p)
    <3>1. PICK p \in Procs : Step(p)
      BY <2>2
    <3>2. ~strayed
      BY <3>1, StrayedStays
    <3> QED
      BY <3>1, <3>2, StepTree
  <2> QED
    BY <2>1, <2>2 DEF Next
<1>6. (~strayed => TreeInv) /\ UNCHANGED vars => (~strayed' => TreeInv')
  <2> SUFFICES ASSUME ~strayed => TreeInv, UNCHANGED vars, ~strayed' PROVE TreeInv'
    OBVIOUS
  <2>1. UNCHANGED <<dino, stable, tx, icache, ftable, cwd, pc, r>> /\ TreeInv
    BY DEF vars
  <2>2. Fresh' = Fresh /\ Owed' = Owed
    BY <2>1 DEF Fresh, Owed
  <2> QED
    BY <2>1, <2>2 DEF TreeInv
<1>7. FilesInv /\ (~strayed => TreeInv) /\ [Next]_vars => (~strayed' => TreeInv')
  BY <1>5, <1>6
<1> QED
  BY <1>1, <1>3, <1>7, PTL DEF Spec

\* What follows from the invariant.
LEMMA HeldSettled ==
  ASSUME FilesInv, TreeInv, NEW p \in Procs, pc[p] # "drop", NEW k \in DOMAIN Held(p)
  PROVE  dino[Held(p)[k]].type # "free"
<1> DEFINE q == r[p]
           place == Place(q, pc[p])
           s == IF place \in IpPoints THEN <<q.ip>> ELSE <<>>
           t == IF UsesTgt(q, place) THEN <<q.tgt>> ELSE <<>>
           i == Held(p)[k]
<1>1. q \in Locals /\ PlaceFit(q, place)
  BY DEF FilesInv, FilesTypeOK, ShapeInv, LocalsFit
<1>2. PutHolds(dino, icache, Fresh, p, q, pc[p]) /\ PlaceHolds(dino, icache, Fresh, p, q, place)
  BY DEF TreeInv, CallHolds
<1>3. Held(p) = (q.put \o s) \o t
  BY HeldIs DEF HeldSeq
<1>4. q.put \in Seq(Inums) /\ s \in Seq(Inums) /\ t \in Seq(Inums)
  BY <1>1 DEF Locals, PlaceFit
<1>5. i \in ToSet(q.put) \/ i \in ToSet(s) \/ i \in ToSet(t)
  <2> DEFINE u == q.put
  <2>1. u \in Seq(Inums) /\ s \in Seq(Inums) /\ t \in Seq(Inums) /\ k \in DOMAIN ((u \o s) \o t)
        /\ i = ((u \o s) \o t)[k]
    BY <1>3, <1>4
  <2> HIDE DEF u, s, t, i
  <2>2. \/ k \in 1..Len(u) /\ i = u[k]
        \/ k - Len(u) \in 1..Len(s) /\ i = s[k - Len(u)]
        \/ k - Len(u) - Len(s) \in 1..Len(t) /\ i = t[k - Len(u) - Len(s)]
    BY <2>1
  <2>3. i \in ToSet(u) \/ i \in ToSet(s) \/ i \in ToSet(t)
    <3>1. DOMAIN u = 1..Len(u) /\ DOMAIN s = 1..Len(s) /\ DOMAIN t = 1..Len(t)
      BY <2>1
    <3> QED
      BY <2>2, <3>1 DEF ToSet
  <2> QED
    BY <2>3 DEF u, i, s, t
<1>6. CASE i \in ToSet(q.put)
  BY <1>2, <1>6 DEF PutHolds, Settled
<1>7. CASE i \in ToSet(s)
  <2>1. place \in IpPoints /\ i = q.ip
    BY <1>7, PutOne, NothingPut
  <2>2. i \in PlaceUses(q, place)
    BY <2>1 DEF PlaceUses
  <2> QED
    BY <1>2, <2>2 DEF PlaceHolds, Settled
<1>8. CASE i \in ToSet(t)
  <2>1. UsesTgt(q, place) /\ i = q.tgt
    BY <1>8, PutOne, NothingPut
  <2>2. CASE place = "created"
    BY <1>2, <2>1, <2>2 DEF PlaceHolds, NewInode, Free
  <2>3. CASE place # "created"
    <3>1. i \in PlaceUses(q, place)
      BY <2>1, <2>3 DEF PlaceUses
    <3> QED
      BY <1>2, <3>1 DEF PlaceHolds, Settled
  <2> QED
    BY <2>2, <2>3
<1> QED
  BY <1>5, <1>6, <1>7, <1>8

LEMMA UseHolds == ASSUME FilesInv, ~strayed => TreeInv PROVE InUseIsAllocated
<1> SUFFICES ASSUME ~strayed, TreeInv PROVE InUseIsAllocated
  BY DEF InUseIsAllocated
<1>1. \A p \in Procs : cwd[p] # 0 => dino[cwd[p]].type = "dir"
  BY DEF TreeInv
<1>2. \A f \in Fds : ftable[f].ip # 0 => dino[ftable[f].ip].type # "free"
  BY DEF TreeInv, Settled
<1>3. ASSUME NEW p \in Procs, pc[p] = "drop", NEW k \in DOMAIN Tail(r[p].put)
      PROVE  dino[Tail(r[p].put)[k]].type # "free"
  <2>1. PutHolds(dino, icache, Fresh, p, r[p], pc[p])
    BY DEF TreeInv, CallHolds
  <2>2. Tail(r[p].put)[k] \in ToSet(Tail(r[p].put))
    BY <1>3 DEF ToSet
  <2> QED
    BY <1>3, <2>1, <2>2 DEF PutHolds, Settled
<1> QED
  BY <1>1, <1>2, <1>3, HeldSettled DEF InUseIsAllocated

LEMMA PanicHolds == ASSUME TreeCondition, FilesInv, ~strayed => TreeInv PROVE NoPanic
<1> SUFFICES ASSUME ~strayed, TreeInv, NEW p \in Procs, Wanted(p) # 0
             PROVE  /\ ~LoadPanics(Wanted(p))
                    /\ pc[p] = "unlinkip" => Loaded(Wanted(p)).nlink > 0
  BY DEF NoPanic
<1> DEFINE i == Wanted(p)
           q == r[p]
<1>0. FilesTypeOK /\ ShapeInv
  BY DEF FilesInv
<1>1. pc[p] \notin Iputs
  BY DEF Wanted, Iputs
<1>2. i \in Inums /\ dino[i].type # "free"
  <2>1. CASE pc[p] \in {"walk", "open", "unlink", "create", "chdir", "link", "linkentry"}
    <3>1. i = q.ip /\ pc[p] \in IpPoints
      BY <2>1 DEF Wanted, IpPoints
    <3> QED
      BY <1>1, <3>1, AtIlock DEF Settled
  <2>2. CASE pc[p] \in {"unlinkip", "exists", "linkbad"}
    <3>1. i = q.tgt /\ pc[p] \in TgtPoints \ {"created"}
      BY <2>2 DEF Wanted, TgtPoints
    <3> QED
      BY <1>1, <3>1, AtIlock DEF Settled
  <2>3. CASE pc[p] = "created"
    <3>1. i = q.tgt /\ pc[p] \in TgtPoints
      BY <2>3 DEF Wanted, TgtPoints
    <3>2. dino[i] = NewInode(q.op) /\ i \in Inums
      BY <1>1, <2>3, <3>1, AtIlock DEF PlaceHolds
    <3> QED
      BY <3>2 DEF NewInode, Free
  <2> QED
    BY <2>1, <2>2, <2>3 DEF Wanted
<1>3. ~LoadPanics(i)
  BY <1>2 DEF LoadPanics
<1>4. ASSUME pc[p] = "unlinkip" PROVE Loaded(i).nlink > 0
  <2>1. /\ i = q.tgt /\ PlaceHolds(dino, icache, Fresh, p, q, "unlinkip") /\ q.ip \in Inums
    BY <1>1, <1>4, AtIlock DEF Wanted, IpPoints
  <2>2. Head(q.path) \in Names /\ dino[q.ip].ents[Head(q.path)] = i
    BY <2>1 DEF PlaceHolds
  <2>3. Attached(dino, i)
    BY ONLY <2>1, <2>2, EntryOf DEF Attached
  <2>4. dino[i].nlink \in Int /\ dino[i].nlink >= 1
    BY <1>2, <2>3, AttachedSettled
  <2>5. Loaded(i).nlink = dino[i].nlink
    BY <1>0, <1>2, <1>3, LoadedFits DEF TreeInv
  <2> QED
    BY <2>4, <2>5
<1> QED
  BY <1>3, <1>4

LEMMA LinksHold ==
  ASSUME TreeCondition, ~strayed => TreeInv
  PROVE  LinksMatchEntries
<1> SUFFICES ASSUME ~strayed, TreeInv, NEW i \in Inums
             PROVE  /\ stable[i].nlink = Cardinality(Entries(stable, i)) + Cardinality(Subdirs(stable, i))
                                           + IF i = ROOTINO THEN 1 ELSE 0
                    /\ stable[i].type = "free" => stable[i].nlink = 0
                    /\ stable[i].type = "dir" => Cardinality(Entries(stable, i)) <= 1
  BY DEF LinksMatchEntries
<1>1. TreeShape(stable) /\ Counted(stable, NothingOwed)
  BY DEF TreeInv
<1>2. \A j \in Inums, p \in Procs : NothingOwed[p] # j
  BY InumIs DEF NothingOwed
<1>3. CountOf(NothingOwed, Procs, i) = 0
  BY <1>2, OwedCounts
<1>4. Subdirs(stable, i) = Kids(stable, i)
  <2>1. ASSUME NEW c \in Inums \ {ROOTINO}
        PROVE  stable[c].nlink > 0 <=> Entries(stable, c) # {}
    <3>1. stable[c].nlink # 0 <=> Attached(stable, c)
      BY <1>1, <1>2, LinkedIsAttached
    <3>2. stable[c].nlink \in Nat
      <4> DEFINE n1 == Cardinality(Entries(stable, c))
                 n2 == Cardinality(Kids(stable, c))
                 n3 == One(ROOTINO, c)
                 n4 == CountOf(NothingOwed, Procs, c)
      <4>1. n1 \in Nat /\ n2 \in Nat /\ n3 \in Nat /\ n4 \in Nat /\ stable[c].nlink = n1 + n2 + n3 + n4
        BY <1>1, NlinkIs
      <4> HIDE DEF n1, n2, n3, n4
      <4> QED
        BY <4>1
    <3> QED
      BY <3>1, <3>2 DEF Attached
  <2> QED
    BY <2>1 DEF Subdirs, Kids
<1>5. stable[i].nlink = Cardinality(Entries(stable, i)) + Cardinality(Subdirs(stable, i))
                          + IF i = ROOTINO THEN 1 ELSE 0
  <2> DEFINE n1 == Cardinality(Entries(stable, i))
             n2 == Cardinality(Kids(stable, i))
  <2>1. n1 \in Nat /\ n2 \in Nat /\ One(ROOTINO, i) \in Nat
        /\ stable[i].nlink = n1 + n2 + One(ROOTINO, i) + CountOf(NothingOwed, Procs, i)
    BY <1>1, NlinkIs
  <2>2. One(ROOTINO, i) = IF i = ROOTINO THEN 1 ELSE 0
    BY DEF One
  <2> HIDE DEF n1, n2
  <2>3. stable[i].nlink = n1 + n2 + IF i = ROOTINO THEN 1 ELSE 0
    BY <1>3, <2>1, <2>2
  <2> QED
    BY <1>4, <2>3 DEF n1, n2
<1>6. ASSUME stable[i].type = "dir" PROVE Cardinality(Entries(stable, i)) <= 1
  <2>1. CASE Entries(stable, i) = {}
    BY <2>1, FS_EmptySet
  <2>2. CASE Entries(stable, i) # {}
    <3>1. PICK e : Entries(stable, i) = {e}
      BY <1>1, <1>6, <2>2 DEF TreeShape
    <3> QED
      BY <3>1, FS_Singleton
  <2> QED
    BY <2>1, <2>2
<1> QED
  BY <1>1, <1>5, <1>6 DEF TreeShape

\* What a process refers to, in its working directory, its open files or the local
\* variables of a call, stays allocated until iput() has dropped it, though another
\* process unlinks it meanwhile (fs.c iput, sysfile.c); a removed directory that is
\* still used excepted.
THEOREM InUseStaysAllocated == TreeCondition => (Spec => []InUseIsAllocated)
<1> SUFFICES ASSUME TreeCondition PROVE Spec => []InUseIsAllocated
  OBVIOUS
<1>1. FilesInv /\ (~strayed => TreeInv) => InUseIsAllocated
  BY UseHolds
<1> QED
  BY <1>1, TreeAlways, PTL

\* ilock() finds a type in every inode, and unlink() a link in the one it removes
\* (the panics at fs.c:310 and sysfile.c:212).
THEOREM IlockNeverPanics == TreeCondition => (Spec => []NoPanic)
<1> SUFFICES ASSUME TreeCondition PROVE Spec => []NoPanic
  OBVIOUS
<1>1. FilesInv /\ (~strayed => TreeInv) => NoPanic
  BY PanicHolds
<1> QED
  BY <1>1, TreeAlways, PTL

\* Whatever the calls under way, and wherever a crash cuts them, the link counts on
\* the disk are the numbers of entries and subdirectories, and a directory has one
\* parent (sysfile.c create, sys_link, sys_unlink in log.c's transactions).
THEOREM CrashLeavesATree == TreeCondition => (Spec => []LinksMatchEntries)
<1> SUFFICES ASSUME TreeCondition PROVE Spec => []LinksMatchEntries
  OBVIOUS
<1>1. FilesInv /\ (~strayed => TreeInv) => LinksMatchEntries
  BY LinksHold
<1> QED
  BY <1>1, TreeAlways, PTL
=============================================================================
