--------------------------- MODULE BaseAlloc_proofs ---------------------------
(***************************************************************************)
(* Theorems about the base allocator: blocks lie in mapped memory and in   *)
(* no other block, nothing mapped is forgotten, and what other code maps   *)
(* is left alone, for every number of threads and blocks and every         *)
(* address space.                                                          *)
(***************************************************************************)
EXTENDS BaseAlloc, CommonLemmas

-----------------------------------------------------------------------------
(***************************************************************************)
(* The operators.                                                          *)
(***************************************************************************)

LEMMA CeilingIs ==
  ASSUME NEW s \in Nat, NEW m \in Nat \ {0}
  PROVE  /\ Ceiling(s, m) \in Nat /\ Ceiling(s, m) % m = 0
         /\ s <= Ceiling(s, m) /\ Ceiling(s, m) < s + m
<1> DEFINE c == ((s + m - 1) \div m) * m
<1>1. c \in Nat /\ s <= c /\ c < s + m /\ \E q \in Nat : c = q * m
  BY RoundUp
<1>2. c % m = 0
  BY <1>1, MultipleOf
<1> QED
  BY <1>1, <1>2 DEF Ceiling

\* Chunks are made of pages, and pages of cache lines.
LEMMA Units ==
  /\ PageSize \in Nat \ {0} /\ CacheLine \in Nat \ {0} /\ ChunkSize \in Nat \ {0}
  /\ PageSize % CacheLine = 0 /\ ChunkSize % PageSize = 0 /\ ChunkSize % CacheLine = 0
  /\ PageSize <= ChunkSize
<1>1. /\ PageSize \in Nat \ {0} /\ CacheLine \in Nat \ {0} /\ ChunkSize \in Nat \ {0}
      /\ PageSize % CacheLine = 0 /\ ChunkSize % PageSize = 0
  BY BaseSizesAssumption
<1>2. ChunkSize % CacheLine = 0
  BY <1>1, MultipleTrans
<1>3. 0 % PageSize = 0
  BY <1>1
<1>4. 0 + PageSize <= ChunkSize
  BY <1>1, <1>3, MultipleStep
<1> QED
  BY <1>1, <1>2, <1>4

\* The pages of a stretch of whole pages are counted from its first one,
LEMMA PagesAre ==
  ASSUME NEW at \in Nat, NEW size \in Nat, at % PageSize = 0, size % PageSize = 0
  PROVE  /\ at \div PageSize \in Nat /\ size \div PageSize \in Nat
         /\ Pages(at, size) =
              at \div PageSize .. at \div PageSize + size \div PageSize - 1
<1>1. at \div PageSize \in Nat /\ size \div PageSize \in Nat
  BY Units, MultipleIs
<1>2. (at + size) \div PageSize = at \div PageSize + size \div PageSize
  BY Units, MultipleSum
<1> QED
  BY <1>1, <1>2 DEF Pages

\* hold its bytes,
LEMMA PagesOfBytes ==
  ASSUME NEW at \in Nat, NEW size \in Nat, at % PageSize = 0, size % PageSize = 0,
         NEW a \in at .. at + size - 1
  PROVE  a \div PageSize \in Pages(at, size)
<1>1. PICK p \in Nat : p = at \div PageSize /\ at = p * PageSize
  BY Units, MultipleIs
<1>2. (at + size) % PageSize = 0
  BY Units, MultipleSum
<1>3. PICK q \in Nat : q = (at + size) \div PageSize /\ at + size = q * PageSize
  <2>1. at + size \in Nat
    OBVIOUS
  <2> QED
    BY <1>2, <2>1, Units, MultipleIs
<1>4. a \in Nat /\ p * PageSize <= a /\ a < q * PageSize
  BY <1>1, <1>3
<1>5. p <= a \div PageSize /\ a \div PageSize < q
  BY <1>4, Units, DivBounds
<1>6. a \div PageSize \in Int
  BY <1>4, Units
<1> QED
  BY <1>1, <1>3, <1>5, <1>6 DEF Pages

\* and are cut where it is.
LEMMA PagesCut ==
  ASSUME NEW at \in Nat, NEW l \in Nat, NEW n \in Nat,
         at % PageSize = 0, l % PageSize = 0, n % PageSize = 0
  PROVE  /\ Pages(at, l + n) = Pages(at, l) \cup Pages(at + l, n)
         /\ Pages(at, l) \cap Pages(at + l, n) = {}
<1> DEFINE p == at \div PageSize
           i == l \div PageSize
           j == n \div PageSize
<1>1. p \in Nat /\ i \in Nat /\ Pages(at, l) = p .. p + i - 1
  BY PagesAre
<1>2. j \in Nat
  BY PagesAre
<1>3. (l + n) % PageSize = 0 /\ (l + n) \div PageSize = i + j
  BY Units, MultipleSum
<1>4. (at + l) % PageSize = 0 /\ (at + l) \div PageSize = p + i
  BY Units, MultipleSum
<1>5. Pages(at, l + n) = p .. p + (i + j) - 1
  <2>1. l + n \in Nat
    OBVIOUS
  <2> QED
    BY <1>3, <2>1, PagesAre
<1>6. Pages(at + l, n) = (p + i) .. (p + i) + j - 1
  <2>1. at + l \in Nat
    OBVIOUS
  <2> QED
    BY <1>4, <2>1, PagesAre
<1> HIDE DEF p, i, j
<1> QED
  BY <1>1, <1>2, <1>5, <1>6

\* Stretches that share no page are apart.
LEMMA PagesClear ==
  ASSUME NEW a \in Nat, NEW m \in Nat, NEW b \in Nat, NEW n \in Nat,
         a % PageSize = 0, m % PageSize = 0, b % PageSize = 0, n % PageSize = 0,
         m > 0, n > 0,
         Pages(a, m) \cap Pages(b, n) = {}
  PROVE  a + m <= b \/ b + n <= a
<1> SUFFICES ASSUME b < a + m, a < b + n PROVE FALSE
  OBVIOUS
<1>1. PICK c \in Nat : c \in a .. a + m - 1 /\ c \in b .. b + n - 1
  <2>1. CASE a <= b
    BY <2>1
  <2>2. CASE b <= a
    BY <2>2
  <2> QED
    BY <2>1, <2>2
<1>2. c \div PageSize \in Pages(a, m)
  BY <1>1, PagesOfBytes
<1>3. c \div PageSize \in Pages(b, n)
  BY <1>1, PagesOfBytes
<1> QED
  BY <1>2, <1>3

-----------------------------------------------------------------------------
(***************************************************************************)
(* What a state with the invariant is like.                                *)
(***************************************************************************)

LEMMA Sizes ==
  ASSUME TypeOK, NEW t \in Threads
  PROVE  /\ csize(t) \in Nat /\ csize(t) % CacheLine = 0 /\ req[t] <= csize(t)
         /\ RangeSize(t) \in Nat /\ csize(t) <= RangeSize(t)
         /\ RangeSize(t) % ChunkSize = 0 /\ RangeSize(t) % PageSize = 0
<1>1. req[t] \in Nat
  BY DEF TypeOK
<1>2. csize(t) \in Nat /\ csize(t) % CacheLine = 0 /\ req[t] <= csize(t)
  BY <1>1, Units, CeilingIs DEF csize
<1>3. /\ RangeSize(t) \in Nat /\ csize(t) <= RangeSize(t)
      /\ RangeSize(t) % ChunkSize = 0
  BY <1>2, Units, CeilingIs DEF RangeSize
<1>4. RangeSize(t) % PageSize = 0
  BY <1>3, Units, MultipleTrans
<1> QED
  BY <1>2, <1>3, <1>4

\* The longer mapping has room for the range behind any leading cut.
LEMMA Cuts ==
  ASSUME TypeOK, NEW t \in Threads, addr[t] % PageSize = 0,
         alloc_size[t] = RangeSize(t) + ChunkSize - PageSize
  PROVE  /\ leadsize(t) \in Nat /\ leadsize(t) % PageSize = 0
         /\ trailsize(t) \in Nat /\ trailsize(t) % PageSize = 0
         /\ alloc_size[t] = leadsize(t) + (RangeSize(t) + trailsize(t))
         /\ (addr[t] + leadsize(t)) % ChunkSize = 0
<1> DEFINE c == Ceiling(addr[t], ChunkSize)
<1>1. addr[t] \in Nat /\ alloc_size[t] \in Nat
  BY DEF TypeOK
<1>2. c \in Nat /\ c % ChunkSize = 0 /\ addr[t] <= c /\ c < addr[t] + ChunkSize
  BY <1>1, Units, CeilingIs
<1>3. leadsize(t) = c - addr[t]
  BY DEF leadsize
<1> HIDE DEF c
<1>4. c % PageSize = 0
  BY <1>2, Units, MultipleTrans
<1>5. leadsize(t) \in Nat /\ leadsize(t) % PageSize = 0
  BY <1>1, <1>2, <1>3, <1>4, Units, MultipleDiff
<1>6. ChunkSize - PageSize \in Nat /\ (ChunkSize - PageSize) % PageSize = 0
  <2>1. ChunkSize \in Nat /\ PageSize \in Nat /\ PageSize % PageSize = 0
    BY Units
  <2>2. ChunkSize - PageSize \in Nat
    BY <2>1, Units
  <2>3. (ChunkSize - PageSize) % PageSize = 0
    BY <2>1, Units, MultipleDiff
  <2> QED
    BY <2>2, <2>3
<1>7. leadsize(t) <= ChunkSize - PageSize
  <2>1. addr[t] + ChunkSize \in Nat
    BY <1>1, Units
  <2>3. (addr[t] + ChunkSize) % PageSize = 0
    <3>1. ChunkSize \in Nat
      BY Units
    <3> QED
      BY <3>1, <1>1, Units, MultipleSum
  <2>2. c + PageSize <= addr[t] + ChunkSize
    BY <1>2, <1>4, <2>1, <2>3, Units, MultipleStep
  <2> QED
    BY <2>2, <1>1, <1>2, <1>3, Units
<1>8. RangeSize(t) \in Nat
  BY Sizes
<1>9. trailsize(t) = (ChunkSize - PageSize) - leadsize(t)
  BY <1>1, <1>5, <1>8, Units DEF trailsize
<1>10. trailsize(t) \in Nat /\ trailsize(t) % PageSize = 0
  BY <1>5, <1>6, <1>7, <1>9, Units, MultipleDiff
<1>11. alloc_size[t] = leadsize(t) + (RangeSize(t) + trailsize(t))
  BY <1>5, <1>6, <1>8, <1>9, Units
<1>12. addr[t] + leadsize(t) = c
  BY <1>1, <1>2, <1>3
<1> QED
  BY <1>2, <1>5, <1>10, <1>11, <1>12

LEMMA InHandAt ==
  ASSUME NEW t \in Threads
  PROVE  /\ pc[t] \in {"misaligned", "lead"} => InHand(t) = Pages(addr[t], alloc_size[t])
         /\ pc[t] = "trail" =>
              InHand(t) = Pages(addr[t] + leadsize(t), alloc_size[t] - leadsize(t))
         /\ pc[t] = "adopt" => InHand(t) = Pages(addr[t], RangeSize(t))
         /\ pc[t] \notin {"misaligned", "lead", "trail", "adopt"} => InHand(t) = {}
BY DEF InHand

\* One thread at a time has something in hand.
LEMMA Holder ==
  ASSUME TypeOK, MutexInv, NEW t \in Threads, pc[t] \notin {"idle", "lock"}
  PROVE  /\ base_mtx = t
         /\ \A u \in Threads \ {t} : pc[u] \in {"idle", "lock"} /\ InHand(u) = {}
<1>1. base_mtx = t
  BY DEF MutexInv
<1>2. ASSUME NEW u \in Threads \ {t} PROVE pc[u] \in {"idle", "lock"}
  BY <1>1 DEF MutexInv
<1>3. ASSUME NEW u \in Threads \ {t} PROVE InHand(u) = {}
  BY <1>2, InHandAt
<1> QED
  BY <1>1, <1>2, <1>3

\* NothingLeaks, page by page.
RangesAligned == \A i \in 1 .. Len(ranges) : ranges[i].at % ChunkSize = 0

Accounted ==
  \A p : p \in ours <=>
    \/ \E i \in 1 .. Len(ranges) : p \in Pages(ranges[i].at, ranges[i].size)
    \/ \E t \in Threads : p \in InHand(t)

LEMMA OwnedPages == NothingLeaks <=> Accounted /\ RangesAligned
<1> DEFINE A == {Pages(ranges[i].at, ranges[i].size) : i \in 1 .. Len(ranges)}
           B == {InHand(t) : t \in Threads}
           InA(p) == \E i \in 1 .. Len(ranges) : p \in Pages(ranges[i].at, ranges[i].size)
           InB(p) == \E t \in Threads : p \in InHand(t)
<1>1. \A p : p \in UNION A <=> InA(p)
  OBVIOUS
<1>2. \A p : p \in UNION B <=> InB(p)
  OBVIOUS
<1>3. \A p : p \in UNION (A \cup B) <=> p \in UNION A \/ p \in UNION B
  <2> HIDE DEF A, B
  <2> QED
    OBVIOUS
<1>4. \A p : p \in UNION (A \cup B) <=> InA(p) \/ InB(p)
  BY <1>1, <1>2, <1>3
<1>5. NothingLeaks <=> ours = UNION (A \cup B) /\ RangesAligned
  BY DEF NothingLeaks, RangesAligned
<1> HIDE DEF A, B
<1>6. ours = UNION (A \cup B) <=> \A p : p \in ours <=> p \in UNION (A \cup B)
  OBVIOUS
<1>7. ours = UNION (A \cup B) <=> \A p : p \in ours <=> InA(p) \/ InB(p)
  <2> HIDE DEF InA, InB
  <2> QED
    BY <1>4, <1>6
<1> QED
  BY <1>5, <1>7 DEF Accounted

\* What the kernel returns.
LEMMA MmapIs ==
  ASSUME TypeOK, NEW t \in Threads, NEW size \in Nat, size % PageSize = 0,
         Mmap(t, size)
  PROVE  /\ addr' \in [Threads -> Nat] /\ addr'[t] % PageSize = 0
         /\ \A u \in Threads \ {t} : addr'[u] = addr[u]
         /\ Pages(addr'[t], size) \subseteq 1 .. LastPage
         /\ Pages(addr'[t], size) \cap (ours \cup others) = {}
         /\ ours' = ours \cup Pages(addr'[t], size)
<1>1. PICK a \in Places(size) : addr' = [addr EXCEPT ![t] = a]
  BY DEF Mmap
<1>2. PICK q \in 1 .. LastPage :
        /\ a = q * PageSize
        /\ q + size \div PageSize - 1 <= LastPage
        /\ Pages(q * PageSize, size) \cap (ours \cup others) = {}
  BY <1>1 DEF Places
<1>3. LastPage \in Nat
  BY BaseBoundsAssumption
<1>4. a \in Nat /\ a % PageSize = 0 /\ a \div PageSize = q
  BY <1>2, <1>3, Units, MultipleOf
<1>5. Pages(a, size) = q .. q + size \div PageSize - 1 /\ size \div PageSize \in Nat
  BY <1>4, PagesAre
<1>6. Pages(a, size) \subseteq 1 .. LastPage
  BY <1>2, <1>3, <1>5
<1>7. addr'[t] = a /\ addr' \in [Threads -> Nat] /\ \A u \in Threads \ {t} : addr'[u] = addr[u]
  BY <1>1, <1>4 DEF TypeOK
<1> QED
  BY <1>2, <1>4, <1>6, <1>7 DEF Mmap

-----------------------------------------------------------------------------
(***************************************************************************)
(* Parts of the invariant that several actions keep.                       *)
(***************************************************************************)

LEMMA HandKept ==
  ASSUME NEW u \in Threads, pc'[u] = pc[u], req'[u] = req[u],
         addr'[u] = addr[u], alloc_size'[u] = alloc_size[u]
  PROVE  InHand(u)' = InHand(u)
BY DEF InHand, leadsize, RangeSize, csize

\* A thread that others do not wait for keeps what it knows.
LEMMA CallKept ==
  ASSUME NEW u \in Threads, CallInv(u), pc'[u] = pc[u], req'[u] = req[u],
         addr'[u] = addr[u], alloc_size'[u] = alloc_size[u],
         base' = base \/ pc[u] \in {"idle", "lock"}
  PROVE  CallInv(u)'
<1>1. RangeSize(u)' = RangeSize(u) /\ csize(u)' = csize(u)
  BY DEF RangeSize, csize
<1>2. CASE base' = base
  BY <1>1, <1>2 DEF CallInv, Enough, base
<1>3. CASE pc[u] \in {"idle", "lock"}
  BY <1>3 DEF CallInv
<1> QED
  BY <1>2, <1>3

LEMMA BlocksKept ==
  ASSUME InUseInv, BlocksInv, UNCHANGED <<base, ranges, blocks>>
  PROVE  InUseInv' /\ BlocksInv'
<1>1. InUseInv'
  BY DEF InUseInv, base
<1>2. BlocksInv'
  BY DEF BlocksInv, BlockInv, Clear, base
<1> QED
  BY <1>1, <1>2

\* Pages come into hand and leave it.
LEMMA MemoryStep ==
  ASSUME NothingLeaks, RangesInv, UNCHANGED ranges,
         NEW t \in Threads, NEW N, NEW D,
         \A u \in Threads \ {t} : InHand(u)' = InHand(u) /\ InHand(u) \cap D = {},
         InHand(t)' = (InHand(t) \cup N) \ D,
         N \cap ours = {}, D \subseteq InHand(t) \cup N,
         ours' = (ours \cup N) \ D, ours' \cap others' = {}
  PROVE  NothingLeaks' /\ RangesInv'
<1> DEFINE R(i) == Pages(ranges[i].at, ranges[i].size)
<1>1. Accounted /\ RangesAligned
  BY OwnedPages
<1>2. \A i \in 1 .. Len(ranges) : \A u \in Threads : R(i) \cap InHand(u) = {}
  BY DEF RangesInv
<1>3. \A i \in 1 .. Len(ranges) : R(i) \subseteq ours
  BY <1>1 DEF Accounted
<1>4. \A i \in 1 .. Len(ranges) : R(i) \cap N = {} /\ R(i) \cap D = {}
  <2> HIDE DEF R
  <2> QED
    BY <1>2, <1>3
<1>5. \A i \in 1 .. Len(ranges) : \A u \in Threads : R(i) \cap InHand(u)' = {}
  <2> TAKE i \in 1 .. Len(ranges)
  <2> TAKE u \in Threads
  <2> HIDE DEF R
  <2>1. CASE u = t
    BY <2>1, <1>2, <1>4
  <2>2. CASE u # t
    BY <2>2, <1>2
  <2> QED
    BY <2>1, <2>2
<1>6. RangesInv'
  <2>1. \A i \in 1 .. Len(ranges)' :
          /\ ranges'[i].size % PageSize = 0 /\ ranges'[i].size > 0
          /\ Pages(ranges'[i].at, ranges'[i].size) = R(i)
    BY DEF RangesInv
  <2> QED
    BY <1>5, <2>1 DEF RangesInv
<1>7. ASSUME NEW p
      PROVE  p \in ours' <=> \/ \E i \in 1 .. Len(ranges) : p \in R(i)
                             \/ \E u \in Threads : p \in InHand(u)'
  <2>1. p \in ours <=> \/ \E i \in 1 .. Len(ranges) : p \in R(i)
                       \/ \E u \in Threads : p \in InHand(u)
    BY <1>1 DEF Accounted
  <2> HIDE DEF R
  <2>2. ASSUME p \in ours' PROVE \/ \E i \in 1 .. Len(ranges) : p \in R(i)
                                 \/ \E u \in Threads : p \in InHand(u)'
    <3>1. CASE p \in N
      BY <3>1, <2>2
    <3>2. CASE p \in ours /\ \E i \in 1 .. Len(ranges) : p \in R(i)
      BY <3>2
    <3>3. CASE p \in ours /\ \E u \in Threads : p \in InHand(u)
      <4>1. PICK u \in Threads : p \in InHand(u)
        BY <3>3
      <4>2. CASE u = t
        BY <4>1, <4>2, <2>2
      <4>3. CASE u # t
        BY <4>1, <4>3
      <4> QED
        BY <4>2, <4>3
    <3> QED
      BY <2>1, <2>2, <3>1, <3>2, <3>3
  <2>3. ASSUME NEW i \in 1 .. Len(ranges), p \in R(i) PROVE p \in ours'
    BY <1>4, <2>1, <2>3
  <2>4. ASSUME NEW u \in Threads, p \in InHand(u)' PROVE p \in ours'
    <3>1. CASE u = t
      BY <3>1, <2>1, <2>4
    <3>2. CASE u # t
      BY <3>2, <2>1, <2>4
    <3> QED
      BY <3>1, <3>2
  <2> QED
    BY <2>2, <2>3, <2>4
<1>8. Accounted'
  BY <1>7 DEF Accounted
<1>9. RangesAligned'
  BY <1>1 DEF RangesAligned
<1>10. NothingLeaks' <=> Accounted' /\ RangesAligned'
  BY OwnedPages, PTL
<1> QED
  BY <1>6, <1>8, <1>9, <1>10

-----------------------------------------------------------------------------
(***************************************************************************)
(* The steps.                                                              *)
(***************************************************************************)
AllocInv == /\ TypeOK /\ MutexInv /\ (\A t \in Threads : CallInv(t))
            /\ RangesInv /\ InUseInv /\ BlocksInv /\ NothingLeaks

\* The others neither move nor change their locals.
Alone(t) ==
  \A u \in Threads \ {t} : /\ pc'[u] = pc[u] /\ req'[u] = req[u]
                           /\ addr'[u] = addr[u] /\ alloc_size'[u] = alloc_size[u]

LEMMA MutexStep ==
  ASSUME TypeOK, MutexInv, NEW t \in Threads, pc[t] \notin {"idle", "lock"},
         NEW to, pc' = [pc EXCEPT ![t] = to],
         \/ to \notin {"idle", "lock"} /\ base_mtx' = base_mtx
         \/ to = "idle" /\ base_mtx' = NoThread
  PROVE  MutexInv'
<1>1. base_mtx = t /\ \A u \in Threads \ {t} : pc[u] \in {"idle", "lock"}
  BY Holder
<1>2. NoThread \notin Threads
  BY BaseBoundsAssumption
<1>3. pc'[t] = to /\ \A u \in Threads \ {t} : pc'[u] = pc[u]
  BY DEF TypeOK
<1>4. ASSUME NEW u \in Threads PROVE base_mtx' = u <=> pc'[u] \notin {"idle", "lock"}
  <2>1. CASE u = t
    BY <2>1, <1>1, <1>2, <1>3
  <2>2. CASE u # t
    BY <2>2, <1>1, <1>2, <1>3
  <2> QED
    BY <2>1, <2>2
<1> QED
  BY <1>4 DEF MutexInv

\* A step of the thread with the mutex leaves the rest of what others know.
LEMMA CallsStep ==
  ASSUME AllocInv, NEW t \in Threads, pc[t] \notin {"idle", "lock"}, Alone(t),
         CallInv(t)'
  PROVE  \A u \in Threads : CallInv(u)'
<1> TAKE u \in Threads
<1>1. CASE u = t
  BY <1>1
<1>2. CASE u # t
  <2>1. pc[u] \in {"idle", "lock"}
    BY <1>2, Holder DEF AllocInv
  <2> QED
    BY <1>2, <2>1, CallKept DEF Alone, AllocInv
<1> QED
  BY <1>1, <1>2

\* Steps that change neither memory nor what is in hand.
LEMMA QuietStep ==
  ASSUME AllocInv, NEW t \in Threads, Alone(t), InHand(t) = {}, InHand(t)' = {},
         UNCHANGED <<base, memory, ranges, blocks>>,
         TypeOK', MutexInv', CallInv(t)'
  PROVE  AllocInv'
<1>1. \A u \in Threads \ {t} : InHand(u)' = InHand(u)
  BY HandKept DEF Alone
<1>2. \A u \in Threads : CallInv(u)'
  <2> TAKE u \in Threads
  <2>1. CASE u = t
    BY <2>1
  <2>2. CASE u # t
    BY <2>2, CallKept DEF Alone, AllocInv
  <2> QED
    BY <2>1, <2>2
<1>3. InUseInv' /\ BlocksInv'
  BY BlocksKept DEF AllocInv
<1>4. NothingLeaks' /\ RangesInv'
  <2> DEFINE N == {}
             D == {}
  <2>1. ours' \cap others' = {}
    BY DEF AllocInv, RangesInv, memory
  <2>2. ours' = (ours \cup N) \ D /\ ranges' = ranges
    BY DEF memory
  <2>3. InHand(t)' = (InHand(t) \cup N) \ D
    OBVIOUS
  <2>4. N \cap ours = {} /\ D \subseteq InHand(t) \cup N
    OBVIOUS
  <2>5. \A u \in Threads \ {t} : InHand(u)' = InHand(u) /\ InHand(u) \cap D = {}
    BY <1>1
  <2>6. NothingLeaks /\ RangesInv
    BY DEF AllocInv
  <2> HIDE DEF N, D
  <2> QED
    BY <2>1, <2>2, <2>3, <2>4, <2>5, <2>6, MemoryStep
<1> QED
  BY <1>2, <1>3, <1>4 DEF AllocInv

LEMMA CallKeeps ==
  ASSUME AllocInv, NEW t \in Threads, Call(t)
  PROVE  AllocInv'
<1>1. PICK size \in Requests : req' = [req EXCEPT ![t] = size]
  BY DEF Call
<1>2. pc[t] = "idle" /\ pc' = [pc EXCEPT ![t] = "lock"]
  BY DEF Call, Go
<1>3. size \in Nat
  BY BaseSizesAssumption
<1>4. TypeOK'
  BY <1>1, <1>2, <1>3 DEF Call, AllocInv, TypeOK, CallPoints, base, memory
<1>5. Alone(t) /\ pc'[t] = "lock"
  BY <1>1, <1>2 DEF Call, AllocInv, TypeOK, Alone
<1>6. MutexInv'
  BY <1>2, <1>5 DEF Call, AllocInv, MutexInv, Alone
<1>7. CallInv(t)'
  BY <1>5 DEF CallInv
<1>8. InHand(t) = {} /\ InHand(t)' = {}
  BY <1>2, <1>5 DEF InHand
<1> QED
  BY <1>4, <1>5, <1>6, <1>7, <1>8, QuietStep DEF Call

LEMMA LockKeeps ==
  ASSUME AllocInv, NEW t \in Threads, Lock(t)
  PROVE  AllocInv'
<1>1. pc[t] = "lock" /\ pc' = [pc EXCEPT ![t] = "test"]
  BY DEF Lock, Go
<1>2. TypeOK'
  BY <1>1 DEF Lock, AllocInv, TypeOK, CallPoints, base, memory, locals
<1>3. Alone(t) /\ pc'[t] = "test"
  BY <1>1 DEF Lock, AllocInv, TypeOK, Alone, locals
<1>4. MutexInv'
  <2>1. \A u \in Threads : pc[u] \in {"idle", "lock"}
    BY BaseBoundsAssumption DEF Lock, AllocInv, MutexInv
  <2> QED
    BY <1>3, <2>1 DEF Lock, MutexInv, Alone
<1>5. CallInv(t)'
  BY <1>3 DEF CallInv
<1>6. InHand(t) = {} /\ InHand(t)' = {}
  BY <1>1, <1>3 DEF InHand
<1> QED
  BY <1>2, <1>3, <1>4, <1>5, <1>6, QuietStep DEF Lock

LEMMA HasSpaceKeeps ==
  ASSUME AllocInv, NEW t \in Threads, HasSpace(t)
  PROVE  AllocInv'
<1>1. pc[t] = "test" /\ pc' = [pc EXCEPT ![t] = "carve"]
  BY DEF HasSpace, Go
<1>2. TypeOK'
  BY <1>1 DEF HasSpace, AllocInv, TypeOK, CallPoints, base, memory, locals
<1>3. Alone(t) /\ pc'[t] = "carve"
  BY <1>1 DEF HasSpace, AllocInv, TypeOK, Alone, locals
<1>4. MutexInv'
  BY <1>1, MutexStep DEF HasSpace, AllocInv
<1>5. CallInv(t)'
  BY <1>3 DEF HasSpace, CallInv, Enough, csize, base, locals
<1>6. InHand(t) = {} /\ InHand(t)' = {}
  BY <1>1, <1>3 DEF InHand
<1> QED
  BY <1>2, <1>3, <1>4, <1>5, <1>6, QuietStep DEF HasSpace

LEMMA MapFailsKeeps ==
  ASSUME AllocInv, NEW t \in Threads, MapExactFails(t) \/ MapSlowFails(t)
  PROVE  AllocInv'
<1>1. pc[t] \in {"test", "slow"} /\ pc' = [pc EXCEPT ![t] = "fail"]
  BY DEF MapExactFails, MapSlowFails, Go
<1>2. UNCHANGED <<base_mtx, base, locals, memory, ranges, blocks>>
  BY DEF MapExactFails, MapSlowFails
<1>3. TypeOK'
  BY <1>1, <1>2 DEF AllocInv, TypeOK, CallPoints, base, memory, locals
<1>4. Alone(t) /\ pc'[t] = "fail"
  BY <1>1, <1>2 DEF AllocInv, TypeOK, Alone, locals
<1>5. MutexInv'
  BY <1>1, <1>2, MutexStep DEF AllocInv
<1>6. CallInv(t)'
  BY <1>4 DEF CallInv
<1>7. InHand(t) = {} /\ InHand(t)' = {}
  BY <1>1, <1>4 DEF InHand
<1> QED
  BY <1>2, <1>3, <1>4, <1>5, <1>6, <1>7, QuietStep

LEMMA LeaveKeeps ==
  ASSUME AllocInv, NEW t \in Threads, Fail(t) \/ Unlock(t)
  PROVE  AllocInv'
<1>1. pc[t] \in {"fail", "unlock"} /\ pc' = [pc EXCEPT ![t] = "idle"]
  BY DEF Fail, Unlock, Go
<1>2. Leave(t) /\ UNCHANGED <<base, memory, ranges, blocks>>
  BY DEF Fail, Unlock
<1>3. TypeOK'
  BY <1>1, <1>2 DEF Leave, AllocInv, TypeOK, CallPoints, base, memory
<1>4. Alone(t) /\ pc'[t] = "idle"
  BY <1>1, <1>2 DEF Leave, AllocInv, TypeOK, Alone
<1>5. MutexInv'
  BY <1>1, <1>2, MutexStep DEF Leave, AllocInv
<1>6. CallInv(t)'
  BY <1>4 DEF CallInv
<1>7. InHand(t) = {} /\ InHand(t)' = {}
  BY <1>1, <1>4 DEF InHand
<1> QED
  BY <1>2, <1>3, <1>4, <1>5, <1>6, <1>7, QuietStep

\* Steps of the thread with the mutex that map and unmap.
LEMMA HandStep ==
  ASSUME AllocInv, NEW t \in Threads, Alone(t), pc[t] \notin {"idle", "lock"},
         UNCHANGED <<base, ranges, blocks>>, TypeOK', MutexInv', CallInv(t)',
         NEW N, NEW D, N \cap (ours \cup others) = {}, D \subseteq InHand(t) \cup N,
         InHand(t)' = (InHand(t) \cup N) \ D,
         ours' = (ours \cup N) \ D, others' \subseteq others
  PROVE  AllocInv'
<1>1. \A u \in Threads \ {t} : InHand(u)' = InHand(u) /\ InHand(u) \cap D = {}
  <2>1. \A u \in Threads \ {t} : InHand(u)' = InHand(u)
    BY HandKept DEF Alone
  <2>2. \A u \in Threads \ {t} : InHand(u) = {}
    BY Holder DEF AllocInv
  <2> QED
    BY <2>1, <2>2
<1>2. \A u \in Threads : CallInv(u)'
  BY CallsStep
<1>3. InUseInv' /\ BlocksInv'
  BY BlocksKept DEF AllocInv
<1>4. ours' \cap others' = {}
  BY DEF AllocInv, RangesInv
<1>5. NothingLeaks' /\ RangesInv'
  <2>1. NothingLeaks /\ RangesInv /\ ranges' = ranges /\ N \cap ours = {}
    BY DEF AllocInv
  <2> QED
    BY <2>1, <1>1, <1>4, MemoryStep
<1> QED
  BY <1>2, <1>3, <1>5 DEF AllocInv

\* What is in hand is this code's, and nobody else's.
LEMMA HandIsOurs ==
  ASSUME AllocInv, NEW t \in Threads
  PROVE  InHand(t) \subseteq ours /\ InHand(t) \cap others = {}
<1>1. Accounted
  BY OwnedPages DEF AllocInv
<1>2. InHand(t) \subseteq ours
  BY <1>1 DEF Accounted
<1> QED
  BY <1>2 DEF AllocInv, RangesInv

LEMMA MapExactKeeps ==
  ASSUME AllocInv, NEW t \in Threads, MapExact(t)
  PROVE  AllocInv'
<1>1. TypeOK
  BY DEF AllocInv
<1>2. /\ pc[t] = "test" /\ Mmap(t, RangeSize(t)) /\ ~Enough(t)
      /\ UNCHANGED <<base_mtx, base, ranges, blocks>>
      /\ \/ pc' = [pc EXCEPT ![t] = "adopt"] /\ addr'[t] % ChunkSize = 0
         \/ pc' = [pc EXCEPT ![t] = "misaligned"]
  BY DEF MapExact, Go
<1>3. /\ RangeSize(t) \in Nat /\ RangeSize(t) % PageSize = 0
      /\ csize(t) \in Nat
  BY <1>1, Sizes
<1>4. PICK N : N = Pages(addr'[t], RangeSize(t))
  OBVIOUS
<1>5. /\ addr' \in [Threads -> Nat] /\ addr'[t] % PageSize = 0
      /\ \A u \in Threads \ {t} : addr'[u] = addr[u]
      /\ N \subseteq 1 .. LastPage
      /\ N \cap (ours \cup others) = {}
      /\ ours' = ours \cup N
  BY <1>1, <1>2, <1>3, <1>4, MmapIs
<1>6. /\ alloc_size' = [alloc_size EXCEPT ![t] = RangeSize(t)]
      /\ req' = req /\ others' = others
  BY <1>2 DEF Mmap
<1>7. TypeOK'
  BY <1>1, <1>2, <1>3, <1>5, <1>6 DEF TypeOK, CallPoints, base
<1>8. Alone(t) /\ alloc_size'[t] = RangeSize(t)
  BY <1>1, <1>2, <1>5, <1>6 DEF TypeOK, Alone
<1>9. pc'[t] \in {"adopt", "misaligned"} /\ (pc'[t] = "adopt" => addr'[t] % ChunkSize = 0)
  BY <1>1, <1>2 DEF TypeOK
<1>10. RangeSize(t)' = RangeSize(t) /\ csize(t)' = csize(t)
  BY <1>6 DEF RangeSize, csize
<1>11. csize(t) > 0
  BY <1>1, <1>2, <1>3 DEF AllocInv, InUseInv, Enough, TypeOK
<1>12. CallInv(t)'
  BY <1>5, <1>8, <1>9, <1>10, <1>11 DEF CallInv
<1>13. MutexInv'
  <2>1. CASE pc' = [pc EXCEPT ![t] = "adopt"]
    BY <2>1, <1>2, MutexStep DEF AllocInv
  <2>2. CASE pc' = [pc EXCEPT ![t] = "misaligned"]
    BY <2>2, <1>2, MutexStep DEF AllocInv
  <2> QED
    BY <2>1, <2>2, <1>2
<1>14. InHand(t) = {} /\ InHand(t)' = N
  BY <1>2, <1>4, <1>8, <1>9, <1>10 DEF InHand
<1> DEFINE D == {}
<1>15. InHand(t)' = (InHand(t) \cup N) \ D /\ ours' = (ours \cup N) \ D
  BY <1>5, <1>14
<1>16. D \subseteq InHand(t) \cup N /\ others' \subseteq others
  BY <1>6
<1> HIDE DEF D
<1> QED
  BY <1>2, <1>5, <1>7, <1>8, <1>12, <1>13, <1>15, <1>16, HandStep

LEMMA MapSlowKeeps ==
  ASSUME AllocInv, NEW t \in Threads, MapSlow(t)
  PROVE  AllocInv'
<1>1. TypeOK
  BY DEF AllocInv
<1>2. PICK size : size = RangeSize(t) + ChunkSize - PageSize
  OBVIOUS
<1>3. /\ pc[t] = "slow" /\ Mmap(t, size) /\ pc' = [pc EXCEPT ![t] = "lead"]
      /\ UNCHANGED <<base_mtx, base, ranges, blocks>>
  BY <1>2 DEF MapSlow, Go
<1>4. RangeSize(t) \in Nat /\ RangeSize(t) % PageSize = 0
  BY <1>1, Sizes
<1>5. size \in Nat /\ size % PageSize = 0
  <2>1. (RangeSize(t) + ChunkSize) % PageSize = 0
    <3>1. ChunkSize \in Nat
      BY Units
    <3> QED
      BY <3>1, <1>4, Units, MultipleSum
  <2>2. /\ RangeSize(t) + ChunkSize \in Nat /\ PageSize \in Nat
        /\ PageSize <= RangeSize(t) + ChunkSize /\ PageSize % PageSize = 0
    BY <1>4, Units
  <2>3. ((RangeSize(t) + ChunkSize) - PageSize) % PageSize = 0
    BY <2>1, <2>2, Units, MultipleDiff
  <2>4. size = (RangeSize(t) + ChunkSize) - PageSize
    BY <1>2, <1>4, Units
  <2>5. size \in Nat
    BY <2>2, <2>4
  <2> QED
    BY <2>3, <2>4, <2>5
<1>6. PICK N : N = Pages(addr'[t], size)
  OBVIOUS
<1>7. /\ addr' \in [Threads -> Nat] /\ addr'[t] % PageSize = 0
      /\ \A u \in Threads \ {t} : addr'[u] = addr[u]
      /\ N \subseteq 1 .. LastPage
      /\ N \cap (ours \cup others) = {}
      /\ ours' = ours \cup N
  BY <1>1, <1>3, <1>5, <1>6, MmapIs
<1>8. /\ alloc_size' = [alloc_size EXCEPT ![t] = size]
      /\ req' = req /\ others' = others
  BY <1>3 DEF Mmap
<1>9. TypeOK'
  BY <1>1, <1>3, <1>5, <1>7, <1>8 DEF TypeOK, CallPoints, base
<1>10. Alone(t) /\ alloc_size'[t] = size /\ pc'[t] = "lead"
  BY <1>1, <1>3, <1>7, <1>8 DEF TypeOK, Alone
<1>11. RangeSize(t)' = RangeSize(t) /\ csize(t)' = csize(t)
  BY <1>8 DEF RangeSize, csize
<1>12. csize(t) > 0
  BY <1>3 DEF AllocInv, CallInv
<1>13. CallInv(t)'
  BY <1>2, <1>7, <1>10, <1>11, <1>12 DEF CallInv
<1>14. MutexInv'
  BY <1>3, MutexStep DEF AllocInv
<1>15. InHand(t) = {} /\ InHand(t)' = N
  BY <1>3, <1>6, <1>10 DEF InHand
<1> DEFINE D == {}
<1>16. InHand(t)' = (InHand(t) \cup N) \ D /\ ours' = (ours \cup N) \ D
  BY <1>7, <1>15
<1>17. D \subseteq InHand(t) \cup N /\ others' \subseteq others
  BY <1>8
<1> HIDE DEF D
<1> QED
  BY <1>3, <1>7, <1>9, <1>10, <1>13, <1>14, <1>16, <1>17, HandStep

LEMMA UnmapExactKeeps ==
  ASSUME AllocInv, NEW t \in Threads, UnmapExact(t)
  PROVE  AllocInv' /\ others' = others
<1>1. TypeOK
  BY DEF AllocInv
<1>2. /\ pc[t] = "misaligned" /\ pc' = [pc EXCEPT ![t] = "slow"]
      /\ UNCHANGED <<base_mtx, base, locals, ranges, blocks>>
      /\ Munmap(addr[t], alloc_size[t])
  BY DEF UnmapExact, Go
<1>3. PICK D : D = InHand(t)
  OBVIOUS
<1>4. D = Pages(addr[t], alloc_size[t])
  BY <1>2, <1>3, InHandAt
<1>5. ours' = ours \ D /\ others' = others
  <2>1. D \cap others = {}
    BY <1>3, HandIsOurs
  <2> QED
    BY <2>1, <1>2, <1>4 DEF Munmap
<1>6. TypeOK'
  BY <1>1, <1>2, <1>5 DEF TypeOK, CallPoints, base, locals
<1>7. Alone(t) /\ pc'[t] = "slow"
  BY <1>1, <1>2 DEF TypeOK, Alone, locals
<1>8. csize(t)' = csize(t)
  BY <1>2 DEF csize, locals
<1>9. CallInv(t)'
  <2>1. csize(t) > 0
    BY <1>2 DEF AllocInv, CallInv
  <2> QED
    BY <1>7, <1>8, <2>1 DEF CallInv
<1>10. MutexInv'
  BY <1>2, MutexStep DEF AllocInv
<1>11. InHand(t)' = {}
  BY <1>7 DEF InHand
<1> DEFINE N == {}
<1>12. /\ InHand(t)' = (InHand(t) \cup N) \ D /\ ours' = (ours \cup N) \ D
       /\ N \cap (ours \cup others) = {} /\ D \subseteq InHand(t) \cup N
  BY <1>3, <1>5, <1>11
<1> HIDE DEF N
<1> QED
  BY <1>2, <1>5, <1>6, <1>7, <1>9, <1>10, <1>12, HandStep

LEMMA TrimLeadKeeps ==
  ASSUME AllocInv, NEW t \in Threads, TrimLead(t)
  PROVE  AllocInv' /\ others' = others
<1>1. TypeOK
  BY DEF AllocInv
<1>2. /\ pc[t] = "lead" /\ pc' = [pc EXCEPT ![t] = "trail"]
      /\ UNCHANGED <<base_mtx, base, locals, ranges, blocks>>
      /\ Munmap(addr[t], leadsize(t))
  BY DEF TrimLead, Go
<1>3. /\ csize(t) > 0 /\ addr[t] % PageSize = 0
      /\ alloc_size[t] = RangeSize(t) + ChunkSize - PageSize
  BY <1>2 DEF AllocInv, CallInv
<1>4. PICK l \in Nat, k \in Nat :
        /\ l = leadsize(t) /\ k = RangeSize(t) + trailsize(t)
        /\ l % PageSize = 0 /\ k % PageSize = 0
        /\ alloc_size[t] = l + k
  <2>1. /\ leadsize(t) \in Nat /\ leadsize(t) % PageSize = 0
        /\ trailsize(t) \in Nat /\ trailsize(t) % PageSize = 0
        /\ alloc_size[t] = leadsize(t) + (RangeSize(t) + trailsize(t))
    BY <1>1, <1>3, Cuts
  <2>2. RangeSize(t) \in Nat /\ RangeSize(t) % PageSize = 0
    BY <1>1, Sizes
  <2>3. (RangeSize(t) + trailsize(t)) % PageSize = 0
    BY <2>1, <2>2, Units, MultipleSum
  <2> QED
    BY <2>1, <2>2, <2>3
<1>5. PICK D : D = Pages(addr[t], l)
  OBVIOUS
<1>6. InHand(t) = D \cup Pages(addr[t] + l, k) /\ D \cap Pages(addr[t] + l, k) = {}
  <2>1. addr[t] \in Nat
    BY <1>1 DEF TypeOK
  <2>2. InHand(t) = Pages(addr[t], l + k)
    BY <1>2, <1>4, InHandAt
  <2> QED
    BY <2>1, <2>2, <1>3, <1>4, <1>5, PagesCut
<1>7. ours' = ours \ D /\ others' = others
  <2>1. D \cap others = {}
    BY <1>6, HandIsOurs
  <2> QED
    BY <2>1, <1>2, <1>4, <1>5 DEF Munmap
<1>8. TypeOK'
  BY <1>1, <1>2, <1>7 DEF TypeOK, CallPoints, base, locals
<1>9. Alone(t) /\ pc'[t] = "trail"
  BY <1>1, <1>2 DEF TypeOK, Alone, locals
<1>10. /\ csize(t)' = csize(t) /\ RangeSize(t)' = RangeSize(t)
       /\ leadsize(t)' = leadsize(t)
  BY <1>2 DEF csize, RangeSize, leadsize, locals
<1>11. CallInv(t)'
  BY <1>2, <1>3, <1>9, <1>10 DEF CallInv, locals
<1>12. MutexInv'
  BY <1>2, MutexStep DEF AllocInv
<1>13. InHand(t)' = Pages(addr[t] + l, k)
  <2>1. alloc_size[t] - l = k
    BY <1>4
  <2>2. InHand(t)' = Pages(addr'[t] + leadsize(t)', alloc_size'[t] - leadsize(t)')
    BY <1>9 DEF InHand
  <2> QED
    BY <2>1, <2>2, <1>2, <1>4, <1>10 DEF locals
<1> DEFINE N == {}
<1>14. /\ InHand(t)' = (InHand(t) \cup N) \ D /\ ours' = (ours \cup N) \ D
       /\ N \cap (ours \cup others) = {} /\ D \subseteq InHand(t) \cup N
  BY <1>6, <1>7, <1>13
<1> HIDE DEF N
<1> QED
  BY <1>2, <1>7, <1>8, <1>9, <1>11, <1>12, <1>14, HandStep

LEMMA TrimTrailKeeps ==
  ASSUME AllocInv, NEW t \in Threads, TrimTrail(t)
  PROVE  AllocInv' /\ others' = others
<1>1. TypeOK
  BY DEF AllocInv
<1>2. /\ pc[t] = "trail" /\ pc' = [pc EXCEPT ![t] = "adopt"]
      /\ UNCHANGED <<base_mtx, base, req, alloc_size, ranges, blocks>>
      /\ addr' = [addr EXCEPT ![t] = addr[t] + leadsize(t)]
      /\ Munmap(addr[t] + leadsize(t) + RangeSize(t), trailsize(t))
  BY DEF TrimTrail, Go
<1>3. /\ csize(t) > 0 /\ addr[t] % PageSize = 0
      /\ alloc_size[t] = RangeSize(t) + ChunkSize - PageSize
  BY <1>2 DEF AllocInv, CallInv
<1>4. /\ leadsize(t) \in Nat /\ leadsize(t) % PageSize = 0
      /\ trailsize(t) \in Nat /\ trailsize(t) % PageSize = 0
      /\ alloc_size[t] = leadsize(t) + (RangeSize(t) + trailsize(t))
      /\ (addr[t] + leadsize(t)) % ChunkSize = 0
  BY <1>1, <1>3, Cuts
<1>5. RangeSize(t) \in Nat /\ RangeSize(t) % PageSize = 0
  BY <1>1, Sizes
<1>6. PICK a \in Nat, r \in Nat, l \in Nat :
        /\ a = addr[t] + leadsize(t) /\ r = RangeSize(t) /\ l = trailsize(t)
        /\ a % PageSize = 0 /\ r % PageSize = 0 /\ l % PageSize = 0
  <2>1. addr[t] + leadsize(t) \in Nat
    BY <1>1, <1>4 DEF TypeOK
  <2>2. (addr[t] + leadsize(t)) % PageSize = 0
    BY <2>1, <1>4, Units, MultipleTrans
  <2> QED
    BY <2>1, <2>2, <1>4, <1>5
<1>7. PICK D : D = Pages(a + r, l)
  OBVIOUS
<1>8. InHand(t) = Pages(a, r) \cup D /\ Pages(a, r) \cap D = {}
  <2>1. alloc_size[t] - leadsize(t) = r + l
    BY <1>4, <1>6
  <2>2. InHand(t) = Pages(a, r + l)
    BY <2>1, <1>2, <1>6, InHandAt
  <2> QED
    BY <2>2, <1>6, <1>7, PagesCut
<1>9. ours' = ours \ D /\ others' = others
  <2>1. D \cap others = {}
    BY <1>8, HandIsOurs
  <2> QED
    BY <2>1, <1>2, <1>6, <1>7 DEF Munmap
<1>10. TypeOK'
  BY <1>1, <1>2, <1>6, <1>9 DEF TypeOK, CallPoints, base
<1>11. Alone(t) /\ pc'[t] = "adopt" /\ addr'[t] = a
  BY <1>1, <1>2, <1>6 DEF TypeOK, Alone
<1>12. csize(t)' = csize(t) /\ RangeSize(t)' = RangeSize(t)
  BY <1>2 DEF csize, RangeSize
<1>13. CallInv(t)'
  BY <1>3, <1>4, <1>6, <1>11, <1>12 DEF CallInv
<1>14. MutexInv'
  BY <1>2, MutexStep DEF AllocInv
<1>15. InHand(t)' = Pages(a, r)
  BY <1>6, <1>11, <1>12 DEF InHand
<1> DEFINE N == {}
<1>16. /\ InHand(t)' = (InHand(t) \cup N) \ D /\ ours' = (ours \cup N) \ D
       /\ N \cap (ours \cup others) = {} /\ D \subseteq InHand(t) \cup N
  BY <1>8, <1>9, <1>15
<1> HIDE DEF N
<1> QED
  BY <1>2, <1>9, <1>10, <1>11, <1>13, <1>14, <1>16, HandStep

\* A range that comes into use has no block yet, since none of its pages is
\* one of a range.
LEMMA AdoptKeeps ==
  ASSUME AllocInv, NEW t \in Threads, Adopt(t)
  PROVE  AllocInv'
<1>1. /\ TypeOK /\ MutexInv /\ RangesInv /\ InUseInv /\ BlocksInv /\ NothingLeaks
      /\ CallInv(t)
  BY DEF AllocInv
<1>2. /\ pc[t] = "adopt" /\ pc' = [pc EXCEPT ![t] = "carve"]
      /\ UNCHANGED <<base_mtx, locals, memory, blocks>>
  BY DEF Adopt, Go
<1>3. PICK a \in Nat, s \in Nat : a = addr[t] /\ s = RangeSize(t)
  BY <1>1, Sizes DEF TypeOK
<1>4. /\ s % PageSize = 0 /\ csize(t) \in Nat /\ 0 < csize(t) /\ csize(t) <= s
      /\ a % ChunkSize = 0
  BY <1>1, <1>2, <1>3, Sizes DEF CallInv
<1>5. a % PageSize = 0 /\ a % CacheLine = 0
  BY <1>4, Units, MultipleTrans
<1>6. PICK r \in RangeRec : r = [at |-> a, size |-> s]
  BY DEF RangeRec
<1>7. PICK n \in Nat : n = Len(ranges)
  BY <1>1 DEF TypeOK
<1>8. /\ base_next_addr' = a /\ base_past_addr' = a + s
      /\ ranges' = Append(ranges, r)
      /\ Len(ranges') = n + 1 /\ ranges'[n + 1] = r
      /\ \A i \in 1 .. n : ranges'[i] = ranges[i]
  BY <1>1, <1>3, <1>6, <1>7 DEF Adopt, TypeOK
<1>9. TypeOK'
  BY <1>1, <1>2, <1>3, <1>6, <1>8 DEF TypeOK, CallPoints, memory, locals
<1>10. Alone(t) /\ pc'[t] = "carve"
  BY <1>1, <1>2 DEF TypeOK, Alone, locals
<1>11. MutexInv'
  BY <1>1, <1>2, MutexStep
<1>12. \A u \in Threads : CallInv(u)'
  <2>1. csize(t)' = csize(t)
    BY <1>2 DEF csize, locals
  <2>2. CallInv(t)'
    BY <1>4, <1>8, <1>10, <2>1 DEF CallInv, Enough
  <2> QED
    BY <1>2, <1>10, <2>2, CallsStep
<1>13. InHand(t) = Pages(a, s) /\ InHand(t)' = {}
  BY <1>2, <1>3, <1>10, InHandAt DEF InHand
<1>14. \A u \in Threads \ {t} : InHand(u) = {} /\ InHand(u)' = {}
  BY <1>1, <1>2, <1>10, Holder, HandKept DEF Alone
<1>15. RangesInv'
  <2>1. ours' \cap others' = {}
    BY <1>1, <1>2 DEF RangesInv, memory
  <2>2. \A u \in Threads : InHand(u)' = {}
    BY <1>13, <1>14
  <2>3. \A i \in 1 .. n : ranges'[i].size % PageSize = 0 /\ ranges'[i].size > 0
    BY <1>1, <1>7, <1>8 DEF RangesInv
  <2>4. ranges'[n + 1].size % PageSize = 0 /\ ranges'[n + 1].size > 0
    BY <1>4, <1>6, <1>8
  <2>5. \A i \in 1 .. Len(ranges') :
          /\ ranges'[i].size % PageSize = 0 /\ ranges'[i].size > 0
    BY <1>7, <1>8, <2>3, <2>4
  <2> QED
    BY <2>1, <2>2, <2>5 DEF RangesInv
<1>16. InUseInv'
  <2>1. ranges' # <<>> /\ ranges'[Len(ranges')] = r
    BY <1>7, <1>8
  <2> QED
    BY <1>5, <1>6, <1>8, <2>1 DEF InUseInv
<1>17. ASSUME NEW b \in BlockRec, BlockInv(b)
       PROVE  BlockInv(b)'
  <2>1. b.at % CacheLine = 0 /\ b.size >= b.req /\ b.at \in Nat /\ b.size \in Nat
    BY <1>17 DEF BlockInv, BlockRec
  <2>2. CASE b.at = 0 /\ b.size = 0
    BY <2>1, <2>2, <1>8 DEF BlockInv, Clear
  <2>3. CASE \E i \in 1 .. n : /\ ranges[i].at <= b.at
                               /\ b.at + b.size <= ranges[i].at + ranges[i].size
    <3>1. PICK i \in 1 .. n : /\ ranges[i].at <= b.at
                              /\ b.at + b.size <= ranges[i].at + ranges[i].size
      BY <2>3
    <3>2. PICK c \in Nat, m \in Nat : c = ranges[i].at /\ m = ranges[i].size
      <4>1. ranges[i] \in RangeRec
        BY <1>1, <1>7 DEF TypeOK
      <4> QED
        BY <4>1 DEF RangeRec
    <3>3. c % ChunkSize = 0 /\ m % PageSize = 0 /\ m > 0 /\ Pages(c, m) \cap Pages(a, s) = {}
      BY <1>1, <1>7, <1>13, <3>2 DEF RangesInv, NothingLeaks
    <3>4. c % PageSize = 0
      BY <3>3, Units, MultipleTrans
    <3>5. s > 0
      BY <1>4
    <3>6. c + m <= a \/ a + s <= c
      BY <1>4, <1>5, <3>3, <3>4, <3>5, PagesClear
    <3>7. Clear(b, a, a + s)
      BY <2>1, <3>1, <3>2, <3>6 DEF Clear
    <3>8. ranges[i] \in {ranges'[j] : j \in 1 .. Len(ranges')}
      BY <1>7, <1>8
    <3> QED
      BY <2>1, <3>1, <3>7, <3>8, <1>8 DEF BlockInv
  <2> QED
    BY <1>17, <1>7, <2>2, <2>3 DEF BlockInv
<1>18. BlocksInv'
  <2>1. blocks' = blocks /\ \A i \in 1 .. Len(blocks) : blocks[i] \in BlockRec
    BY <1>1, <1>2 DEF TypeOK
  <2>2. \A i \in 1 .. Len(blocks) : BlockInv(blocks[i])'
    BY <2>1, <1>1, <1>17 DEF BlocksInv
  <2> QED
    BY <2>1, <2>2, <1>1 DEF BlocksInv, Clear
<1>19. NothingLeaks'
  <2>1. Accounted /\ RangesAligned
    BY <1>1, OwnedPages
  <2>2. RangesAligned'
    <3>1. \A i \in 1 .. n : ranges'[i].at % ChunkSize = 0
      BY <2>1, <1>7, <1>8 DEF RangesAligned
    <3>2. ranges'[n + 1].at % ChunkSize = 0
      BY <1>4, <1>6, <1>8
    <3> QED
      BY <3>1, <3>2, <1>7, <1>8 DEF RangesAligned
  <2>3. ASSUME NEW p
        PROVE  p \in ours' <=>
                 \/ \E i \in 1 .. Len(ranges)' : p \in Pages(ranges'[i].at, ranges'[i].size)
                 \/ \E u \in Threads : p \in InHand(u)'
    <3> DEFINE Q(i) == p \in Pages(ranges[i].at, ranges[i].size)
               S(i) == p \in Pages(ranges'[i].at, ranges'[i].size)
    <3>1. p \in ours <=> (\E i \in 1 .. n : Q(i)) \/ p \in Pages(a, s)
      BY <2>1, <1>7, <1>13, <1>14 DEF Accounted
    <3>2. \A i \in 1 .. n : S(i) <=> Q(i)
      BY <1>8
    <3>3. S(n + 1) <=> p \in Pages(a, s)
      BY <1>6, <1>8
    <3>4. \A u \in Threads : p \notin InHand(u)'
      BY <1>13, <1>14
    <3>5. ours' = ours
      BY <1>2 DEF memory
    <3> HIDE DEF Q, S
    <3>6. (\E i \in 1 .. n + 1 : S(i)) <=> (\E i \in 1 .. n : Q(i)) \/ p \in Pages(a, s)
      BY <3>2, <3>3, <1>7
    <3> QED
      BY <3>1, <3>4, <3>5, <3>6, <1>8 DEF S
  <2>4. Accounted'
    BY <2>3 DEF Accounted
  <2>5. NothingLeaks' <=> Accounted' /\ RangesAligned'
    BY OwnedPages, PTL
  <2> QED
    BY <2>2, <2>4, <2>5
<1> QED
  BY <1>9, <1>11, <1>12, <1>15, <1>16, <1>18, <1>19 DEF AllocInv

LEMMA CarveKeeps ==
  ASSUME AllocInv, NEW t \in Threads, Carve(t)
  PROVE  AllocInv'
<1>1. /\ TypeOK /\ MutexInv /\ RangesInv /\ InUseInv /\ BlocksInv /\ NothingLeaks
      /\ CallInv(t)
  BY DEF AllocInv
<1>2. /\ pc[t] = "carve" /\ pc' = [pc EXCEPT ![t] = "unlock"]
      /\ UNCHANGED <<base_mtx, base_past_addr, locals, memory, ranges>>
  BY DEF Carve, Go
<1>3. PICK c \in Nat, k \in Nat : c = csize(t) /\ k = req[t] /\ k <= c /\ c % CacheLine = 0
  BY <1>1, Sizes DEF TypeOK
<1>4. PICK next \in Nat, past \in Nat :
        next = base_next_addr /\ past = base_past_addr /\ next + c <= past
  BY <1>1, <1>2, <1>3 DEF CallInv, Enough, TypeOK
<1>5. PICK b \in BlockRec : b = [at |-> next, size |-> c, req |-> k]
  BY DEF BlockRec
<1>6. PICK n \in Nat : n = Len(blocks)
  BY <1>1 DEF TypeOK
<1>7. /\ base_next_addr' = next + c /\ base_past_addr' = past
      /\ blocks' = Append(blocks, b)
      /\ Len(blocks') = n + 1 /\ blocks'[n + 1] = b
      /\ \A i \in 1 .. n : blocks'[i] = blocks[i] /\ blocks[i] \in BlockRec
  BY <1>1, <1>2, <1>3, <1>4, <1>5, <1>6 DEF Carve, TypeOK
<1>8. TypeOK'
  BY <1>1, <1>2, <1>5, <1>7 DEF TypeOK, CallPoints, memory, locals
<1>9. Alone(t) /\ pc'[t] = "unlock"
  BY <1>1, <1>2 DEF TypeOK, Alone, locals
<1>10. MutexInv'
  BY <1>1, <1>2, MutexStep
<1>11. \A u \in Threads : CallInv(u)'
  <2>1. CallInv(t)'
    BY <1>9 DEF CallInv
  <2> QED
    BY <1>2, <1>9, <2>1, CallsStep
<1>12. \A u \in Threads : InHand(u)' = InHand(u)
  <2>1. InHand(t)' = {} /\ InHand(t) = {}
    BY <1>2, <1>9 DEF InHand
  <2> QED
    BY <1>9, <2>1, HandKept DEF Alone
<1>13. RangesInv' /\ NothingLeaks'
  BY <1>1, <1>2, <1>12 DEF RangesInv, NothingLeaks, memory
<1>14. InUseInv'
  <2>1. (next + c) % CacheLine = 0
    BY <1>1, <1>3, <1>4, Units, MultipleSum DEF InUseInv
  <2>2. CASE ranges = <<>>
    BY <2>1, <2>2, <1>1, <1>2, <1>4, <1>7 DEF InUseInv
  <2>3. CASE ranges # <<>>
    <3>1. Len(ranges) \in 1 .. Len(ranges) /\ ranges[Len(ranges)] \in RangeRec
      BY <2>3, <1>1 DEF TypeOK
    <3>2. ranges[Len(ranges)].at \in Nat
      BY <3>1 DEF RangeRec
    <3> QED
      BY <2>1, <2>3, <3>2, <1>1, <1>2, <1>4, <1>7 DEF InUseInv
  <2> QED
    BY <2>2, <2>3
<1>15. ASSUME NEW i \in 1 .. n
       PROVE  BlockInv(blocks[i])' /\ Clear(blocks[i], next, next + c)
  <2>1. BlockInv(blocks[i]) /\ blocks[i].at \in Nat /\ blocks[i].size \in Nat
    BY <1>1, <1>6, <1>7 DEF BlocksInv, BlockRec
  <2>2. Clear(blocks[i], next, past)
    BY <2>1, <1>4 DEF BlockInv
  <2>3. Clear(blocks[i], next + c, past) /\ Clear(blocks[i], next, next + c)
    BY <2>1, <2>2, <1>4 DEF Clear
  <2>4. blocks'[i] = blocks[i]
    BY <1>7
  <2> QED
    BY <2>1, <2>3, <2>4, <1>2, <1>7 DEF BlockInv
<1>16. BlockInv(b)'
  <2>1. b.at % CacheLine = 0 /\ b.size >= b.req
    BY <1>1, <1>3, <1>4, <1>5 DEF InUseInv
  <2>2. Clear(b, next + c, past)
    BY <1>5 DEF Clear
  <2>3. CASE ranges = <<>>
    <3>1. b.at = 0 /\ b.size = 0
      BY <2>3, <1>1, <1>4, <1>5 DEF InUseInv
    <3> QED
      BY <2>1, <2>2, <3>1, <1>7 DEF BlockInv
  <2>4. CASE ranges # <<>>
    <3>1. PICK r \in RangeRec : r = ranges[Len(ranges)]
      BY <2>4, <1>1 DEF TypeOK
    <3>2. r.at <= next /\ past = r.at + r.size
      BY <2>4, <3>1, <1>1, <1>4 DEF InUseInv
    <3>3. r.at <= b.at /\ b.at + b.size <= r.at + r.size
      BY <3>2, <1>4, <1>5
    <3>4. r \in {ranges[i] : i \in 1 .. Len(ranges)}
      BY <2>4, <3>1, <1>1 DEF TypeOK
    <3> QED
      BY <2>1, <2>2, <3>3, <3>4, <1>2, <1>7 DEF BlockInv
  <2> QED
    BY <2>3, <2>4
<1>17. BlocksInv'
  <2>1. ASSUME NEW i \in 1 .. n + 1
        PROVE  /\ BlockInv(blocks[i])'
               /\ \A j \in 1 .. i - 1 :
                    Clear(blocks'[i], blocks'[j].at, blocks'[j].at + blocks'[j].size)
    <3>1. CASE i \in 1 .. n
      <4>1. \A j \in 1 .. i - 1 :
              Clear(blocks[i], blocks[j].at, blocks[j].at + blocks[j].size)
        BY <3>1, <1>1, <1>6 DEF BlocksInv
      <4>2. BlockInv(blocks[i])'
        BY <3>1, <1>15
      <4> QED
        BY <3>1, <4>1, <4>2, <1>7
    <3>2. CASE i = n + 1
      <4>1. \A j \in 1 .. n : Clear(b, blocks[j].at, blocks[j].at + blocks[j].size)
        BY <1>5, <1>7, <1>15 DEF Clear, BlockRec
      <4>2. BlockInv(blocks[i])'
        BY <3>2, <1>7, <1>16 DEF BlockInv
      <4> QED
        BY <3>2, <4>1, <4>2, <1>7
    <3> QED
      BY <3>1, <3>2, <1>6
  <2> QED
    BY <2>1, <1>7 DEF BlocksInv, Clear
<1> QED
  BY <1>8, <1>10, <1>11, <1>13, <1>14, <1>17 DEF AllocInv

\* Other code maps and unmaps pages of its own only.
LEMMA OthersKeep ==
  ASSUME AllocInv, OtherMaps \/ OtherUnmaps
  PROVE  AllocInv'
<1>1. /\ UNCHANGED <<base_mtx, base, pc, locals, ours, ranges, blocks>>
      /\ others' \subseteq 1 .. LastPage /\ ours' \cap others' = {}
  BY DEF AllocInv, TypeOK, RangesInv, OtherMaps, OtherUnmaps
<1>2. TypeOK'
  BY <1>1 DEF AllocInv, TypeOK, base, locals
<1>3. MutexInv'
  BY <1>1 DEF AllocInv, MutexInv
<1>4. \A u \in Threads : CallInv(u)'
  BY <1>1, CallKept DEF AllocInv, locals
<1>5. \A u \in Threads : InHand(u)' = InHand(u)
  BY <1>1, HandKept DEF locals
<1>6. RangesInv' /\ NothingLeaks'
  BY <1>1, <1>5 DEF AllocInv, RangesInv, NothingLeaks
<1>7. InUseInv' /\ BlocksInv'
  BY <1>1, BlocksKept DEF AllocInv
<1> QED
  BY <1>2, <1>3, <1>4, <1>6, <1>7 DEF AllocInv

LEMMA StutterKeeps ==
  ASSUME AllocInv, UNCHANGED vars
  PROVE  AllocInv'
<1>1. UNCHANGED <<base_mtx, base, pc, locals, memory, ranges, blocks>>
  BY DEF vars
<1>2. TypeOK' /\ MutexInv'
  BY <1>1 DEF AllocInv, TypeOK, MutexInv, base, locals, memory
<1>3. \A u \in Threads : CallInv(u)'
  BY <1>1, CallKept DEF AllocInv, locals
<1>4. \A u \in Threads : InHand(u)' = InHand(u)
  BY <1>1, HandKept DEF locals
<1>5. RangesInv' /\ NothingLeaks'
  BY <1>1, <1>4 DEF AllocInv, RangesInv, NothingLeaks, memory
<1>6. InUseInv' /\ BlocksInv'
  BY <1>1, BlocksKept DEF AllocInv
<1> QED
  BY <1>2, <1>3, <1>5, <1>6 DEF AllocInv

LEMMA InitOK == Init => AllocInv
<1> SUFFICES ASSUME Init PROVE AllocInv
  OBVIOUS
<1>1. TypeOK
  BY DEF Init, TypeOK, CallPoints
<1>2. MutexInv
  BY BaseBoundsAssumption DEF Init, MutexInv
<1>3. \A t \in Threads : CallInv(t)
  BY DEF Init, CallInv
<1>4. \A t \in Threads : InHand(t) = {}
  BY DEF Init, InHand
<1>5. RangesInv
  BY DEF Init, RangesInv
<1>6. InUseInv
  BY Units DEF Init, InUseInv
<1>7. BlocksInv
  BY DEF Init, BlocksInv
<1>8. NothingLeaks
  <2>1. Accounted /\ RangesAligned
    BY <1>4 DEF Init, Accounted, RangesAligned
  <2> QED
    BY <2>1, OwnedPages
<1> QED
  BY <1>1, <1>2, <1>3, <1>5, <1>6, <1>7, <1>8 DEF AllocInv

\* A call of base_alloc leaves other code's pages alone.
LEMMA InCallKeeps ==
  ASSUME AllocInv, NEW t \in Threads, InCall(t)
  PROVE  AllocInv' /\ others' = others
<1>1. CASE Lock(t)
  BY <1>1, LockKeeps DEF Lock, memory
<1>2. CASE HasSpace(t)
  BY <1>2, HasSpaceKeeps DEF HasSpace, memory
<1>3. CASE MapExact(t)
  BY <1>3, MapExactKeeps DEF MapExact, Mmap
<1>4. CASE MapExactFails(t) \/ MapSlowFails(t)
  BY <1>4, MapFailsKeeps DEF MapExactFails, MapSlowFails, memory
<1>5. CASE UnmapExact(t)
  BY <1>5, UnmapExactKeeps
<1>6. CASE MapSlow(t)
  BY <1>6, MapSlowKeeps DEF MapSlow, Mmap
<1>7. CASE TrimLead(t)
  BY <1>7, TrimLeadKeeps
<1>8. CASE TrimTrail(t)
  BY <1>8, TrimTrailKeeps
<1>9. CASE Adopt(t)
  BY <1>9, AdoptKeeps DEF Adopt, memory
<1>10. CASE Fail(t) \/ Unlock(t)
  BY <1>10, LeaveKeeps DEF Fail, Unlock, memory
<1>11. CASE Carve(t)
  BY <1>11, CarveKeeps DEF Carve, memory
<1> QED
  BY <1>1, <1>2, <1>3, <1>4, <1>5, <1>6, <1>7, <1>8, <1>9, <1>10, <1>11 DEF InCall

LEMMA StepOK == AllocInv /\ [Next]_vars => AllocInv'
<1> SUFFICES ASSUME AllocInv, [Next]_vars PROVE AllocInv'
  OBVIOUS
<1>1. ASSUME NEW t \in Threads, Call(t) \/ InCall(t) PROVE AllocInv'
  BY <1>1, CallKeeps, InCallKeeps
<1>2. CASE OtherMaps \/ OtherUnmaps
  BY <1>2, OthersKeep
<1>3. CASE UNCHANGED vars
  BY <1>3, StutterKeeps
<1> QED
  BY <1>1, <1>2, <1>3 DEF Next

-----------------------------------------------------------------------------
(***************************************************************************)
(* What the invariant says of blocks.                                      *)
(***************************************************************************)

\* The bytes of a range lie on pages of this code.
LEMMA RangeIsOurs ==
  ASSUME AllocInv, NEW i \in 1 .. Len(ranges),
         NEW a \in ranges[i].at .. ranges[i].at + ranges[i].size - 1
  PROVE  a \div PageSize \in ours
<1>1. ranges[i] \in RangeRec
  BY DEF AllocInv, TypeOK
<1>2. PICK c \in Nat, m \in Nat : c = ranges[i].at /\ m = ranges[i].size
  BY <1>1 DEF RangeRec
<1>3. m % PageSize = 0 /\ c % ChunkSize = 0
  BY <1>2 DEF AllocInv, RangesInv, NothingLeaks
<1>4. c % PageSize = 0
  BY <1>3, Units, MultipleTrans
<1>5. a \div PageSize \in Pages(c, m)
  BY <1>2, <1>3, <1>4, PagesOfBytes
<1>6. Accounted
  BY OwnedPages DEF AllocInv
<1> QED
  BY <1>2, <1>5, <1>6 DEF Accounted

LEMMA BlocksAreApart == AllocInv => BlocksApart
<1> SUFFICES ASSUME AllocInv PROVE BlocksApart
  OBVIOUS
<1>1. /\ \A i \in 1 .. Len(blocks) : blocks[i] \in BlockRec
      /\ \A i \in 1 .. Len(ranges) : ranges[i] \in RangeRec
      /\ base_next_addr \in Nat /\ base_past_addr \in Nat
  BY DEF AllocInv, TypeOK
<1>2. ASSUME NEW i \in 1 .. Len(blocks),
             NEW a \in blocks[i].at .. blocks[i].at + blocks[i].size - 1
      PROVE  a \div PageSize \in ours
  <2>1. blocks[i].at \in Nat /\ blocks[i].size \in Nat
    BY <1>1 DEF BlockRec
  <2>2. BlockInv(blocks[i]) /\ ~(blocks[i].at = 0 /\ blocks[i].size = 0)
    BY <1>2, <2>1 DEF AllocInv, BlocksInv
  <2>3. PICK k \in 1 .. Len(ranges) :
          /\ ranges[k].at <= blocks[i].at
          /\ blocks[i].at + blocks[i].size <= ranges[k].at + ranges[k].size
    BY <2>2 DEF BlockInv
  <2>4. ranges[k].at \in Nat /\ ranges[k].size \in Nat
    BY <1>1 DEF RangeRec
  <2>5. a \in ranges[k].at .. ranges[k].at + ranges[k].size - 1
    <3>1. a \in Nat /\ blocks[i].at <= a /\ a < blocks[i].at + blocks[i].size
      BY <1>2, <2>1
    <3>2. ranges[k].at <= a /\ a < ranges[k].at + ranges[k].size
      <4>1. PICK c \in Nat, m \in Nat : c = ranges[k].at /\ m = ranges[k].size
        BY <2>4
      <4>2. PICK d \in Nat, n \in Nat : d = blocks[i].at /\ n = blocks[i].size
        BY <2>1
      <4>3. c <= d /\ d + n <= c + m
        BY <2>3, <4>1, <4>2
      <4>4. d <= a /\ a < d + n
        BY <3>1, <4>2
      <4>5. c <= a /\ a < c + m
        BY <3>1, <4>3, <4>4
      <4> QED
        BY <4>1, <4>5
    <3> QED
      BY <2>4, <3>1, <3>2
  <2> QED
    BY <2>5, RangeIsOurs
<1>3. ASSUME NEW a \in base_next_addr .. base_past_addr - 1
      PROVE  a \div PageSize \in ours
  <2>1. ranges # <<>>
    BY <1>1 DEF AllocInv, InUseInv
  <2>2. PICK k \in 1 .. Len(ranges) : k = Len(ranges)
    BY <2>1 DEF AllocInv, TypeOK
  <2>3. ranges[k].at <= base_next_addr /\ base_past_addr = ranges[k].at + ranges[k].size
    BY <2>1, <2>2 DEF AllocInv, InUseInv
  <2>4. ranges[k].at \in Nat /\ ranges[k].size \in Nat
    BY <1>1 DEF RangeRec
  <2>5. a \in ranges[k].at .. ranges[k].at + ranges[k].size - 1
    <3>1. a \in Nat /\ base_next_addr <= a /\ a < base_past_addr
      BY <1>1, <1>3
    <3>2. ranges[k].at <= a /\ a < ranges[k].at + ranges[k].size
      BY <1>1, <2>3, <2>4, <3>1
    <3> QED
      BY <2>4, <3>1, <3>2
  <2> QED
    BY <2>5, RangeIsOurs
<1>4. ASSUME NEW i \in 1 .. Len(blocks), NEW a \in base_next_addr .. base_past_addr - 1
      PROVE  a \notin blocks[i].at .. blocks[i].at + blocks[i].size - 1
  <2>1. blocks[i].at \in Nat /\ blocks[i].size \in Nat
    BY <1>1 DEF BlockRec
  <2>2. Clear(blocks[i], base_next_addr, base_past_addr)
    BY DEF AllocInv, BlocksInv, BlockInv
  <2> QED
    BY <1>1, <2>1, <2>2 DEF Clear
<1>5. ASSUME NEW i \in 1 .. Len(blocks)
      PROVE  /\ blocks[i].at % CacheLine = 0 /\ blocks[i].size >= blocks[i].req
             /\ \A j \in 1 .. i - 1 :
                  \/ blocks[i].at + blocks[i].size <= blocks[j].at
                  \/ blocks[j].at + blocks[j].size <= blocks[i].at
  BY DEF AllocInv, BlocksInv, BlockInv, Clear
<1> QED
  BY <1>2, <1>3, <1>4, <1>5 DEF BlocksApart

-----------------------------------------------------------------------------
(***************************************************************************)
(* The theorems.                                                           *)
(***************************************************************************)

LEMMA AllocInvariant == Spec => []AllocInv
<1>1. Init => AllocInv
  BY InitOK
<1>2. AllocInv /\ [Next]_vars => AllocInv'
  BY StepOK
<1> QED
  BY <1>1, <1>2, PTL DEF Spec

(***************************************************************************)
(* Blocks that base_alloc returns start at cache lines, are long enough,   *)
(* lie in memory that is mapped, and share no byte with each other or with *)
(* the rest of the range in use; the invariant that makes it so holds.     *)
(***************************************************************************)
THEOREM BaseInvariant == Spec => []BaseInv
<1>1. AllocInv => BaseInv
  BY BlocksAreApart DEF AllocInv, BaseInv
<1> QED
  BY <1>1, AllocInvariant, PTL

(***************************************************************************)
(* All that chunk_alloc_mmap has mapped is a range of the base allocator   *)
(* or about to be trimmed or given back, also when a mapping fails.        *)
(***************************************************************************)
THEOREM NothingIsForgotten == Spec => []NothingLeaks
<1>1. AllocInv => NothingLeaks
  BY DEF AllocInv
<1> QED
  BY <1>1, AllocInvariant, PTL

(***************************************************************************)
(* No munmap of chunk_mmap.c, of a misaligned mapping or of the ends cut   *)
(* off a longer one, takes a page away from other code.                    *)
(***************************************************************************)
THEOREM OthersAreSafe == Spec => OthersUntouched
<1>1. AllocInv /\ [Next]_vars => [\A t \in Threads : InCall(t) => others' = others]_vars
  <2> SUFFICES ASSUME AllocInv, NEW t \in Threads, InCall(t) PROVE others' = others
    OBVIOUS
  <2> QED
    BY InCallKeeps
<1> QED
  BY <1>1, AllocInvariant, PTL DEF Spec, OthersUntouched
=============================================================================
