--------------------------- MODULE PmemPool_proofs ---------------------------
(***************************************************************************)
(* Theorems about PmemPool, for every pool size and every device size.     *)
(***************************************************************************)
EXTENDS PmemPool, CommonLemmas, SequenceTheorems

\* The inductive invariant: the pool is well formed for the chunks that are
\* out, and the counters are those of the definition of CountersMatch.
PoolInv == /\ PoolOK(pool, out)
           /\ pool.nfiles \in Nat
           /\ out \in SUBSET ChunkAddr
           /\ IsFiniteSet(out)
           /\ pool.chunk_tot = pool.nfiles * PoolChunks
           /\ pool.chunk_used = Cardinality(out)
           /\ exited \in BOOLEAN

\* A fresh pool satisfies the invariant.
LEMMA InitPoolInv == Init => PoolInv
<1> SUFFICES ASSUME Init PROVE PoolInv
  OBVIOUS
<1>1. PoolOK(pool, out)
  BY CreateOK DEF Init
<1>2. pool.nfiles = 1 /\ pool.chunk_tot = PoolChunks /\ pool.chunk_used = 0
  BY PoolChunksAssumption DEF Init, PmempoolCreate, PmempoolCreateOne
<1>3. IsFiniteSet(out) /\ Cardinality(out) = 0
  BY FS_EmptySet DEF Init
<1>4. pool.chunk_tot = pool.nfiles * PoolChunks
  BY <1>2, PoolChunksAssumption
<1>5. exited \in BOOLEAN /\ out \in SUBSET ChunkAddr
  BY DEF Init
<1>6. pool.nfiles \in Nat
  BY <1>2
<1>7. pool.chunk_used = Cardinality(out)
  BY <1>2, <1>3
<1> QED
  BY <1>1, <1>3, <1>4, <1>5, <1>6, <1>7 DEF PoolInv

\* Every step keeps the invariant.
LEMMA NextPoolInv == PoolInv /\ [Next]_vars => PoolInv'
<1> SUFFICES ASSUME PoolInv, [Next]_vars PROVE PoolInv'
  OBVIOUS
<1> USE DEF PoolInv
<1>0. pool.nfiles \in Nat /\ pool.chunk_tot \in Nat /\ PoolChunks \in Nat
  BY PoolChunksAssumption DEF PoolOK, PoolType
<1>1. CASE ChunkAlloc
  <2> DEFINE c == ChunkAllocAddr(pool)
  <2>1. c \in ChunkAddr /\ c \notin out /\ PoolOK(pool', out')
    BY <1>1, ChunkAllocOK DEF ChunkAlloc
  <2>2. /\ pool'.chunk_used = pool.chunk_used + 1
        /\ pool'.nfiles = pool.nfiles + (IF Exhausted(pool) THEN 1 ELSE 0)
        /\ pool'.chunk_tot =
             pool.chunk_tot + (IF Exhausted(pool) THEN PoolChunks ELSE 0)
    BY <1>1, RefillOK DEF ChunkAlloc, ChunkAllocPool
  <2>3. IsFiniteSet(out') /\ Cardinality(out') = Cardinality(out) + 1
    BY <1>1, <2>1, FS_AddElement DEF ChunkAlloc
  <2>4. pool'.nfiles \in Nat /\ pool'.chunk_tot = pool'.nfiles * PoolChunks
    <3>1. CASE Exhausted(pool)
      BY <3>1, <2>2, <1>0
    <3>2. CASE ~Exhausted(pool)
      BY <3>2, <2>2, <1>0
    <3> QED
      BY <3>1, <3>2
  <2> QED
    BY <1>1, <2>1, <2>2, <2>3, <2>4 DEF ChunkAlloc
<1>2. CASE MapFails
  BY <1>2 DEF MapFails
<1>3. ASSUME NEW c \in out, Free(c)
      PROVE  PoolInv'
  <2>1. PoolOK(pool', out')
    BY <1>3, FreeOK DEF Free
  <2>2. /\ pool'.nfiles = pool.nfiles
        /\ pool'.chunk_tot = pool.chunk_tot
        /\ pool'.chunk_used = pool.chunk_used - 1
    BY <1>3 DEF Free, PmempoolFree, PoolOK, PoolType
  <2>3. IsFiniteSet(out') /\ Cardinality(out') = Cardinality(out) - 1
    BY <1>3, FS_RemoveElement DEF Free
  <2> QED
    BY <1>3, <2>1, <2>2, <2>3 DEF Free
<1>4. CASE Exited \/ UNCHANGED vars
  BY <1>4 DEF Exited, vars
<1> QED
  BY <1>1, <1>2, <1>3, <1>4 DEF Next

THEOREM PoolInvariant == Spec => []PoolInv
  BY InitPoolInv, NextPoolInv, PTL DEF Spec

\* The pool stays in its type.
THEOREM TypeCorrect == Spec => []TypeOK
<1>1. PoolInv => TypeOK
  BY DEF PoolInv, TypeOK, PoolOK
<1> QED
  BY <1>1, PoolInvariant, PTL

\* Whatever the callers do, each mapped chunk is free once or held once.
THEOREM ChunksAreConserved == Spec => []ChunksConserved
<1>1. PoolInv => ChunksConserved
  BY DEF PoolInv, ChunksConserved, PoolOK
<1> QED
  BY <1>1, PoolInvariant, PTL

\* The counters behind the usage figure count the mapped and the held chunks.
THEOREM CountersAreRight == Spec => []CountersMatch
<1>1. PoolInv => CountersMatch
  BY ChunksOfCount DEF PoolInv, CountersMatch
<1> QED
  BY <1>1, PoolInvariant, PTL

-----------------------------------------------------------------------------
(***************************************************************************)
(* The pool as a queue.                                                    *)
(***************************************************************************)

\* The ring without the dummy node, which is at h.
Without(r, h) == [i \in 1 .. Len(r) - 1 |-> r[IF i < h THEN i ELSE i + 1]]

LEMMA WithoutIs ==
  ASSUME NEW S, NEW r \in Seq(S), NEW h \in 1 .. Len(r)
  PROVE  /\ Without(r, h) \in Seq(S)
         /\ Len(Without(r, h)) = Len(r) - 1
         /\ \A i \in 1 .. Len(r) - 1 :
              Without(r, h)[i] = r[IF i < h THEN i ELSE i + 1]
<1>1. PICK n \in Nat : n = Len(r) - 1
  OBVIOUS
<1>2. \A i \in 1 .. n : r[IF i < h THEN i ELSE i + 1] \in S
  <2> TAKE i \in 1 .. n
  <2>1. (IF i < h THEN i ELSE i + 1) \in 1 .. Len(r)
    BY <1>1
  <2> QED
    BY <2>1
<1>3. Without(r, h) = [i \in 1 .. n |-> r[IF i < h THEN i ELSE i + 1]]
  BY <1>1 DEF Without
<1>4. Without(r, h) \in Seq(S) /\ Len(Without(r, h)) = n
  BY <1>2, <1>3
<1> QED
  BY <1>1, <1>3, <1>4

OrderOfRing ==
  \A h \in 1 .. Len(pool.ring) : pool.ring[h] = Header => FreeOrder = Without(pool.ring, h)

LEMMA FreeOrderIs == PoolOK(pool, out) => OrderOfRing
<1> SUFFICES ASSUME PoolOK(pool, out), NEW h \in 1 .. Len(pool.ring), pool.ring[h] = Header
             PROVE  FreeOrder = Without(pool.ring, h)
  BY DEF OrderOfRing
<1>1. \A i \in 1 .. Len(pool.ring) : pool.ring[i] = Header => i = h
  BY DEF PoolOK, NoNodeTwice
<1>2. HeaderPos = h
  BY <1>1 DEF HeaderPos
<1> QED
  BY <1>2 DEF FreeOrder, Without

\* The dummy node is somewhere in the ring.
LEMMA HeaderIsLinked ==
  ASSUME NEW p, NEW held, PoolOK(p, held)
  PROVE  /\ p.ring \in Seq(ChunkAddr \cup {Header})
         /\ \E h \in 1 .. Len(p.ring) : p.ring[h] = Header
BY DEF PoolOK, PoolType, RingAndOutPartition, Nodes

\* A chunk taken is the oldest free one.
LEMMA TakeOldest ==
  ASSUME NEW p, NEW held, PoolOK(p, held), ~Exhausted(p),
         NEW h \in 1 .. Len(p.ring), p.ring[h] = Header
  PROVE  \E k \in 1 .. Len(ChunkAllocPool(p).ring) :
           LET f == Without(p.ring, h)
               r == ChunkAllocPool(p).ring
           IN  /\ r[k] = Header
               /\ f # <<>> /\ Head(f) = ChunkAllocAddr(p)
               /\ Without(r, k) = Tail(f)
<1> DEFINE S == ChunkAddr \cup {Header}
           f == Without(p.ring, h)
           r == ChunkAllocPool(p).ring
<1>1. PICK s \in Seq(S) : s = p.ring
  BY HeaderIsLinked
<1>2. PICK n \in Nat : n = Len(s) /\ n >= 2
  <2>1. PICK n \in Nat : n = Len(s)
    OBVIOUS
  <2>2. n # 1 /\ h \in 1 .. n
    BY <1>1, <2>1 DEF Exhausted
  <2>3. n >= 2
    BY <2>2
  <2> QED
    BY <2>1, <2>3
<1>3. /\ r = Tail(SkipHeader(s)) /\ ChunkAllocAddr(p) = Head(SkipHeader(s))
  BY <1>1 DEF ChunkAllocPool, ChunkAllocAddr, Refill
<1>4. /\ f \in Seq(S) /\ Len(f) = n - 1
      /\ \A i \in 1 .. n - 1 : f[i] = s[IF i < h THEN i ELSE i + 1]
  BY <1>1, <1>2, WithoutIs
<1>5. h \in 1 .. n /\ s[h] = Header /\ \A i \in 1 .. n : s[i] = Header => i = h
  BY <1>1, <1>2 DEF PoolOK, NoNodeTwice
<1> HIDE DEF S, f, r
<1>6. f # <<>> /\ Head(f) = f[1] /\ Tail(f) \in Seq(S) /\ Len(Tail(f)) = n - 2
      /\ \A i \in 1 .. n - 2 : Tail(f)[i] = f[i + 1]
  BY <1>2, <1>4
<1>7. CASE h = 1
  <2>1. PICK q : q = Append(Tail(s), Head(s))
    OBVIOUS
  <2>2. /\ q \in Seq(S) /\ Len(q) = n /\ q[n] = s[1]
        /\ \A i \in 1 .. n - 1 : q[i] = s[i + 1]
    BY <1>2, <2>1
  <2>3. SkipHeader(s) = q
    BY <1>5, <1>7, <2>1, <1>2 DEF SkipHeader
  <2>4. /\ r \in Seq(S) /\ Len(r) = n - 1 /\ Head(q) = q[1]
        /\ \A i \in 1 .. n - 1 : r[i] = q[i + 1]
    BY <1>2, <1>3, <2>2, <2>3
  <2>5. n - 1 \in 1 .. Len(r) /\ r[n - 1] = Header
    BY <1>2, <1>5, <1>7, <2>2, <2>4
  <2>6. PICK g \in Seq(S) :
          /\ g = Without(r, n - 1) /\ Len(g) = n - 2
          /\ \A i \in 1 .. n - 2 : g[i] = r[IF i < n - 1 THEN i ELSE i + 1]
    <3>1. /\ Without(r, n - 1) \in Seq(S)
          /\ Len(Without(r, n - 1)) = Len(r) - 1
          /\ \A i \in 1 .. Len(r) - 1 :
               Without(r, n - 1)[i] = r[IF i < n - 1 THEN i ELSE i + 1]
      BY <2>4, <2>5, WithoutIs
    <3>2. Len(r) - 1 = n - 2
      BY <2>4, <1>2
    <3> QED
      BY <3>1, <3>2
  <2>7. \A i \in 1 .. n - 2 : g[i] = Tail(f)[i]
    <3> TAKE i \in 1 .. n - 2
    <3>1. g[i] = r[i] /\ r[i] = q[i + 1] /\ q[i + 1] = s[i + 2]
      BY <2>2, <2>4, <2>6
    <3>2. Tail(f)[i] = f[i + 1] /\ f[i + 1] = s[i + 2]
      BY <1>2, <1>4, <1>6, <1>7
    <3> QED
      BY <3>1, <3>2
  <2>8. g = Tail(f)
    BY <1>2, <1>6, <2>6, <2>7, SeqEqual
  <2>9. Head(f) = ChunkAllocAddr(p)
    BY <1>2, <1>3, <1>4, <1>6, <1>7, <2>2, <2>3, <2>4
  <2> QED
    BY <1>6, <2>5, <2>6, <2>8, <2>9 DEF f, r
<1>8. CASE h # 1
  <2>1. SkipHeader(s) = s /\ Head(s) = s[1]
    BY <1>2, <1>5, <1>8 DEF SkipHeader
  <2>2. /\ r \in Seq(S) /\ Len(r) = n - 1
        /\ \A i \in 1 .. n - 1 : r[i] = s[i + 1]
    BY <1>2, <1>3, <2>1
  <2>3. h - 1 \in 1 .. Len(r) /\ r[h - 1] = Header
    <3>1. h - 1 \in 1 .. n - 1 /\ (h - 1) + 1 = h
      BY <1>5, <1>8
    <3> QED
      BY <1>5, <2>2, <3>1
  <2>4. PICK g \in Seq(S) :
          /\ g = Without(r, h - 1) /\ Len(g) = n - 2
          /\ \A i \in 1 .. n - 2 : g[i] = r[IF i < h - 1 THEN i ELSE i + 1]
    <3>1. /\ Without(r, h - 1) \in Seq(S)
          /\ Len(Without(r, h - 1)) = Len(r) - 1
          /\ \A i \in 1 .. Len(r) - 1 :
               Without(r, h - 1)[i] = r[IF i < h - 1 THEN i ELSE i + 1]
      BY <2>2, <2>3, WithoutIs
    <3>2. Len(r) - 1 = n - 2
      BY <2>2, <1>2
    <3> QED
      BY <3>1, <3>2
  <2>5. \A i \in 1 .. n - 2 : g[i] = Tail(f)[i]
    <3> TAKE i \in 1 .. n - 2
    <3>1. Tail(f)[i] = f[i + 1] /\ f[i + 1] = s[IF i + 1 < h THEN i + 1 ELSE i + 2]
      BY <1>2, <1>4, <1>6
    <3>2. CASE i < h - 1
      <4>1. i + 1 < h /\ i \in 1 .. n - 1
        BY <3>2, <1>2, <1>5
      <4>2. g[i] = r[i] /\ r[i] = s[i + 1]
        BY <3>2, <4>1, <2>2, <2>4
      <4> QED
        BY <3>1, <4>1, <4>2
    <3>3. CASE ~(i < h - 1)
      <4>1. ~(i + 1 < h) /\ i + 1 \in 1 .. n - 1 /\ (i + 1) + 1 = i + 2
        BY <3>3, <1>2, <1>5
      <4>2. g[i] = r[i + 1] /\ r[i + 1] = s[i + 2]
        BY <3>3, <4>1, <2>2, <2>4
      <4> QED
        BY <3>1, <4>1, <4>2
    <3> QED
      BY <3>2, <3>3
  <2>6. g = Tail(f)
    BY <1>2, <1>6, <2>4, <2>5, SeqEqual
  <2>7. Head(f) = ChunkAllocAddr(p)
    BY <1>2, <1>3, <1>4, <1>5, <1>6, <1>8, <2>1
  <2> QED
    BY <1>6, <2>3, <2>4, <2>6, <2>7 DEF f, r
<1> QED
  BY <1>7, <1>8

LEMMA NewChunksAre ==
  ASSUME NEW k \in Nat \ {0}
  PROVE  /\ NewChunks(k) \in Seq(ChunkAddr \cup {Header})
         /\ Len(NewChunks(k)) = PoolChunks
         /\ \A i \in 1 .. PoolChunks : NewChunks(k)[i] = <<k, i>>
<1>1. PoolChunks \in Nat
  BY PoolChunksAssumption
<1> QED
  BY <1>1 DEF NewChunks, ChunkAddr

\* The ring of one new pool, with the dummy node behind its chunks.
LEMMA NewRing ==
  ASSUME NEW k \in Nat \ {0}
  PROVE  LET r == NewChunks(k) \o <<Header>>
         IN  /\ r \in Seq(ChunkAddr \cup {Header}) /\ Len(r) = PoolChunks + 1
             /\ \A i \in 1 .. PoolChunks : r[i] = <<k, i>>
             /\ r[PoolChunks + 1] = Header
<1> DEFINE S == ChunkAddr \cup {Header}
           n == PoolChunks
<1>1. n \in Nat \ {0}
  BY PoolChunksAssumption
<1>2. NewChunks(k) \in Seq(S) /\ Len(NewChunks(k)) = n
  BY NewChunksAre
<1>3. \A i \in 1 .. n : NewChunks(k)[i] = <<k, i>>
  BY NewChunksAre
<1>4. <<Header>> \in Seq(S) /\ Len(<<Header>>) = 1 /\ <<Header>>[1] = Header
  OBVIOUS
<1> HIDE DEF S
<1> QED
  BY <1>1, <1>2, <1>3, <1>4 DEF S

\* When no chunk is free, the first chunk of a new pool is taken.
LEMMA TakeFirstOfNew ==
  ASSUME NEW p, NEW held, PoolOK(p, held), Exhausted(p)
  PROVE  LET r == ChunkAllocPool(p).ring
             k == p.nfiles + 1
         IN  /\ p.ring = <<Header>>
             /\ PoolChunks \in 1 .. Len(r) /\ r[PoolChunks] = Header
             /\ ChunkAllocAddr(p) = <<k, 1>>
             /\ Without(r, PoolChunks) = Tail([i \in 1 .. PoolChunks |-> <<k, i>>])
<1> DEFINE S == ChunkAddr \cup {Header}
           r == ChunkAllocPool(p).ring
<1>1. PICK n \in Nat \ {0}, k \in Nat \ {0} : n = PoolChunks /\ k = p.nfiles + 1
  <2>1. p.nfiles \in Nat
    BY DEF PoolOK, PoolType
  <2>2. p.nfiles + 1 \in Nat \ {0}
    BY <2>1
  <2> QED
    BY <2>2, PoolChunksAssumption
<1>2. p.ring = <<Header>>
  BY ExhaustedMeansAllOut
<1>3. PICK q : q = NewChunks(k) \o <<Header>>
  OBVIOUS
<1>4. /\ q \in Seq(S) /\ Len(q) = n + 1 /\ q[n + 1] = Header
      /\ \A i \in 1 .. n : q[i] = <<k, i>>
  BY <1>1, <1>3, NewRing
<1>5. Refill(p).ring = q
  <2>1. Append(Tail(p.ring), Head(p.ring)) = <<Header>>
    BY <1>2
  <2> QED
    BY <2>1, <1>1, <1>3 DEF Refill, PmempoolCreateOne
<1>6. SkipHeader(q) = q /\ Head(q) = <<k, 1>>
  <2>1. q[1] = <<k, 1>> /\ Head(q) = q[1]
    BY <1>1, <1>4
  <2>2. <<k, 1>> # Header
    BY <1>1 DEF Header
  <2> QED
    BY <2>1, <2>2 DEF SkipHeader
<1>7. r = Tail(q) /\ ChunkAllocAddr(p) = <<k, 1>>
  BY <1>5, <1>6 DEF ChunkAllocPool, ChunkAllocAddr
<1> HIDE DEF S, r
<1>8. /\ r \in Seq(S) /\ Len(r) = n
      /\ \A i \in 1 .. n : r[i] = q[i + 1]
  BY <1>4, <1>7
<1>9. n \in 1 .. Len(r) /\ r[n] = Header
  BY <1>1, <1>4, <1>8
<1>10. /\ Without(r, n) \in Seq(S) /\ Len(Without(r, n)) = n - 1
       /\ \A i \in 1 .. n - 1 : Without(r, n)[i] = <<k, i + 1>>
  <2>1. /\ Without(r, n) \in Seq(S) /\ Len(Without(r, n)) = Len(r) - 1
        /\ \A i \in 1 .. Len(r) - 1 : Without(r, n)[i] = r[IF i < n THEN i ELSE i + 1]
    BY <1>8, <1>9, WithoutIs
  <2> QED
    BY <2>1, <1>1, <1>4, <1>8
<1>11. PICK b \in Seq(S) : b = NewChunks(k) /\ Len(b) = n /\ \A i \in 1 .. n : b[i] = <<k, i>>
  BY <1>1, NewChunksAre DEF S
<1>12. /\ Tail(b) \in Seq(S) /\ Len(Tail(b)) = n - 1
       /\ \A i \in 1 .. n - 1 : Tail(b)[i] = <<k, i + 1>>
  BY <1>1, <1>11
<1>13. Without(r, n) = Tail(b)
  BY <1>10, <1>12, SeqEqual
<1> QED
  BY <1>1, <1>2, <1>7, <1>9, <1>11, <1>13 DEF r, NewChunks

\* A chunk returned becomes the youngest free one.
LEMMA ReturnYoungest ==
  ASSUME NEW p, NEW held, NEW c \in held, PoolOK(p, held),
         NEW h \in 1 .. Len(p.ring), p.ring[h] = Header
  PROVE  LET r == PmempoolFree(p, c).ring
         IN  /\ h \in 1 .. Len(r) /\ r[h] = Header
             /\ Without(r, h) = Append(Without(p.ring, h), c)
<1> DEFINE S == ChunkAddr \cup {Header}
           f == Without(p.ring, h)
           r == PmempoolFree(p, c).ring
<1>1. PICK s \in Seq(S), n \in Nat : s = p.ring /\ n = Len(s)
  BY HeaderIsLinked
<1>2. c \in S
  BY DEF PoolOK, PoolType, RingAndOutPartition, ChunksOf, ChunkAddr
<1>3. r = Append(s, c)
  BY <1>1 DEF PmempoolFree, PoolOK, PoolType
<1>4. /\ f \in Seq(S) /\ Len(f) = n - 1
      /\ \A i \in 1 .. n - 1 : f[i] = s[IF i < h THEN i ELSE i + 1]
  BY <1>1, WithoutIs
<1>5. h \in 1 .. n /\ s[h] = Header
  BY <1>1
<1> HIDE DEF S, f, r
<1>6. /\ r \in Seq(S) /\ Len(r) = n + 1 /\ r[n + 1] = c
      /\ \A i \in 1 .. n : r[i] = s[i]
  BY <1>1, <1>2, <1>3
<1>7. h \in 1 .. Len(r) /\ r[h] = Header
  BY <1>5, <1>6
<1>8. PICK g \in Seq(S) :
        /\ g = Without(r, h) /\ Len(g) = n
        /\ \A i \in 1 .. n : g[i] = r[IF i < h THEN i ELSE i + 1]
  <2>1. /\ Without(r, h) \in Seq(S) /\ Len(Without(r, h)) = Len(r) - 1
        /\ \A i \in 1 .. Len(r) - 1 : Without(r, h)[i] = r[IF i < h THEN i ELSE i + 1]
    BY <1>6, <1>7, WithoutIs
  <2>2. Len(r) - 1 = n
    BY <1>6
  <2> QED
    BY <2>1, <2>2
<1>9. /\ Append(f, c) \in Seq(S) /\ Len(Append(f, c)) = n
      /\ Append(f, c)[n] = c /\ \A i \in 1 .. n - 1 : Append(f, c)[i] = f[i]
  BY <1>2, <1>4, <1>5
<1>10. ASSUME NEW i \in 1 .. n PROVE g[i] = Append(f, c)[i]
  <2>1. CASE i = n
    <3>1. ~(i < h)
      BY <2>1, <1>5
    <3> QED
      BY <2>1, <3>1, <1>6, <1>8, <1>9
  <2>2. CASE i # n
    <3>1. i \in 1 .. n - 1 /\ i + 1 \in 1 .. n
      BY <2>2
    <3>2. Append(f, c)[i] = s[IF i < h THEN i ELSE i + 1]
      BY <3>1, <1>4, <1>9
    <3> QED
      BY <3>1, <3>2, <1>6, <1>8
  <2> QED
    BY <2>1, <2>2
<1>11. g = Append(f, c)
  BY <1>8, <1>9, <1>10, SeqEqual
<1> QED
  BY <1>7, <1>8, <1>11 DEF f, r

LEMMA InitQueue == Init => ChunkQueue!Init
<1> SUFFICES ASSUME Init PROVE ChunkQueue!Init
  OBVIOUS
<1> DEFINE S == ChunkAddr \cup {Header}
<1>1. PICK n \in Nat \ {0} : n = PoolChunks
  BY PoolChunksAssumption
<1>2. PICK r : r = NewChunks(1) \o <<Header>>
  OBVIOUS
<1>3. /\ r \in Seq(S) /\ Len(r) = n + 1 /\ r[n + 1] = Header
      /\ \A i \in 1 .. n : r[i] = <<1, i>>
  <2>1. 1 \in Nat \ {0}
    OBVIOUS
  <2>2. LET q == NewChunks(1) \o <<Header>>
        IN  /\ q \in Seq(ChunkAddr \cup {Header}) /\ Len(q) = PoolChunks + 1
            /\ \A i \in 1 .. PoolChunks : q[i] = <<1, i>>
            /\ q[PoolChunks + 1] = Header
    BY <2>1, NewRing
  <2> QED
    BY <2>2, <1>1, <1>2
<1>4. pool.ring = r /\ pool.nfiles = 1
  <2>1. Append(Tail(<<Header>>), Head(<<Header>>)) = <<Header>>
    OBVIOUS
  <2> QED
    BY <2>1, <1>2 DEF Init, PmempoolCreate, PmempoolCreateOne
<1>5. PoolOK(pool, out)
  BY CreateOK DEF Init
<1>6. n + 1 \in 1 .. Len(r)
  BY <1>3
<1>7. FreeOrder = Without(r, n + 1)
  BY <1>3, <1>4, <1>5, <1>6, FreeOrderIs DEF OrderOfRing
<1> HIDE DEF S
<1>8. /\ Without(r, n + 1) \in Seq(S) /\ Len(Without(r, n + 1)) = n
      /\ \A i \in 1 .. n : Without(r, n + 1)[i] = <<1, i>>
  <2>1. /\ Without(r, n + 1) \in Seq(S) /\ Len(Without(r, n + 1)) = Len(r) - 1
        /\ \A i \in 1 .. Len(r) - 1 :
             Without(r, n + 1)[i] = r[IF i < n + 1 THEN i ELSE i + 1]
    BY <1>3, <1>6, WithoutIs
  <2> QED
    BY <2>1, <1>3
<1>9. PICK b \in Seq(S) : b = NewChunks(1) /\ Len(b) = n /\ \A i \in 1 .. n : b[i] = <<1, i>>
  <2>1. 1 \in Nat \ {0}
    OBVIOUS
  <2> QED
    BY <1>1, <2>1, NewChunksAre DEF S
<1>10. FreeOrder = b
  <2>1. PICK f \in Seq(S) : f = Without(r, n + 1) /\ Len(f) = n
                             /\ \A i \in 1 .. n : f[i] = <<1, i>>
    BY <1>8
  <2>2. Len(f) = Len(b) /\ \A i \in 1 .. Len(f) : f[i] = b[i]
    BY <2>1, <1>9
  <2>3. f = b
    BY <2>2, SeqEqual
  <2> QED
    BY <2>1, <2>3, <1>7
<1> QED
  BY <1>4, <1>9, <1>10 DEF Init, ChunkQueue!Init, ChunkQueue!Batch, NewChunks

LEMMA NextQueue == PoolInv /\ PoolInv' /\ [Next]_vars => [ChunkQueue!Next]_(ChunkQueue!vars)
<1> SUFFICES ASSUME PoolInv, PoolInv', [Next]_vars
             PROVE  [ChunkQueue!Next]_(ChunkQueue!vars)
  OBVIOUS
<1>1. PoolOK(pool, out)
  BY DEF PoolInv
<1>2. PICK h \in 1 .. Len(pool.ring) : pool.ring[h] = Header
  BY <1>1, HeaderIsLinked
<1>3. FreeOrder = Without(pool.ring, h)
  BY <1>1, <1>2, FreeOrderIs DEF OrderOfRing
<1>4. ASSUME NEW i \in 1 .. Len(pool'.ring), pool'.ring[i] = Header
      PROVE  FreeOrder' = Without(pool'.ring, i)
  <2>1. PoolOK(pool, out)' => OrderOfRing'
    BY FreeOrderIs, PTL
  <2>2. PoolOK(pool, out)'
    BY DEF PoolInv
  <2> QED
    BY <1>4, <2>1, <2>2 DEF OrderOfRing, Without
<1>5. CASE ChunkAlloc /\ ~Exhausted(pool)
  <2>1. PICK k \in 1 .. Len(ChunkAllocPool(pool).ring) :
          LET f == Without(pool.ring, h)
              r == ChunkAllocPool(pool).ring
          IN  /\ r[k] = Header
              /\ f # <<>> /\ Head(f) = ChunkAllocAddr(pool)
              /\ Without(r, k) = Tail(f)
    BY <1>1, <1>2, <1>5, TakeOldest
  <2>2. FreeOrder # <<>> /\ Head(FreeOrder) = ChunkAllocAddr(pool)
    BY <1>3, <2>1
  <2>3. FreeOrder' = Tail(FreeOrder)
    BY <1>3, <1>4, <1>5, <2>1 DEF ChunkAlloc
  <2>4. pool'.nfiles = pool.nfiles
    BY <1>5 DEF ChunkAlloc, ChunkAllocPool, Refill
  <2> QED
    BY <1>5, <2>2, <2>3, <2>4 DEF ChunkAlloc, ChunkQueue!Next, ChunkQueue!Take
<1>6. ASSUME Exhausted(pool) PROVE FreeOrder = <<>>
  <2>1. pool.ring = <<Header>>
    BY <1>1, <1>6, ExhaustedMeansAllOut
  <2>2. FreeOrder \in Seq({Header}) /\ Len(FreeOrder) = 0
    <3>1. pool.ring \in Seq({Header}) /\ Len(pool.ring) = 1
      BY <2>1
    <3>2. /\ Without(pool.ring, h) \in Seq({Header})
          /\ Len(Without(pool.ring, h)) = Len(pool.ring) - 1
      BY <3>1, WithoutIs
    <3> QED
      BY <3>1, <3>2, <1>3
  <2> QED
    BY <2>2
<1>7. CASE ChunkAlloc /\ Exhausted(pool)
  <2>1. LET r == ChunkAllocPool(pool).ring
            k == pool.nfiles + 1
        IN  /\ PoolChunks \in 1 .. Len(r) /\ r[PoolChunks] = Header
            /\ ChunkAllocAddr(pool) = <<k, 1>>
            /\ Without(r, PoolChunks) = Tail([i \in 1 .. PoolChunks |-> <<k, i>>])
    BY <1>1, <1>7, TakeFirstOfNew
  <2>2. FreeOrder' = Tail(ChunkQueue!Batch(pool.nfiles + 1))
    BY <1>4, <1>7, <2>1 DEF ChunkAlloc, ChunkQueue!Batch
  <2>3. pool'.nfiles = pool.nfiles + 1
    BY <1>7 DEF ChunkAlloc, ChunkAllocPool, Refill, PmempoolCreateOne
  <2> QED
    BY <1>6, <1>7, <2>1, <2>2, <2>3 DEF ChunkAlloc, ChunkQueue!Next, ChunkQueue!GrowAndTake
<1>8. ASSUME UNCHANGED pool PROVE FreeOrder' = FreeOrder
  BY <1>8 DEF FreeOrder, HeaderPos
<1>9. CASE MapFails
  BY <1>6, <1>8, <1>9 DEF MapFails, ChunkQueue!Next, ChunkQueue!GrowFails
<1>10. ASSUME NEW c \in out, Free(c) PROVE ChunkQueue!Next
  <2>1. LET r == PmempoolFree(pool, c).ring
        IN  /\ h \in 1 .. Len(r) /\ r[h] = Header
            /\ Without(r, h) = Append(Without(pool.ring, h), c)
    BY <1>1, <1>2, ReturnYoungest
  <2>2. FreeOrder' = Append(FreeOrder, c)
    BY <1>3, <1>4, <1>10, <2>1 DEF Free
  <2>3. pool'.nfiles = pool.nfiles
    BY <1>1, <1>10 DEF Free, PmempoolFree, PoolOK, PoolType
  <2> QED
    BY <1>10, <2>2, <2>3 DEF Free, ChunkQueue!Next, ChunkQueue!Return
<1>11. CASE Exited \/ UNCHANGED vars
  BY <1>8, <1>11 DEF Exited, vars, ChunkQueue!vars
<1> QED
  BY <1>5, <1>7, <1>9, <1>10, <1>11 DEF Next

(***************************************************************************)
(* The ring of pool.c is a queue of free chunks: pmempool_chunk_alloc      *)
(* hands out the chunk that has been free for longest and maps a pool only *)
(* when none is free, wherever the dummy node stands.                      *)
(***************************************************************************)
THEOREM RingIsAQueue == Spec => ImplementsChunkQueue
<1>1. Init => ChunkQueue!Init
  BY InitQueue
<1>2. PoolInv /\ PoolInv' /\ [Next]_vars => [ChunkQueue!Next]_(ChunkQueue!vars)
  BY NextQueue
<1> QED
  BY <1>1, <1>2, PoolInvariant, PTL DEF Spec, ImplementsChunkQueue, ChunkQueue!Spec
=============================================================================
