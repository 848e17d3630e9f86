--------------------------- MODULE SlabArena_proofs ---------------------------
(***************************************************************************)
(* Theorems about SlabArena, for every set of threads, every class table,  *)
(* every layout that satisfies SlabSizesAssumption and every device size.  *)
(***************************************************************************)
EXTENDS SlabArena, CommonLemmas, SequenceTheorems

\* The layout constants are naturals, the class sizes positive.
LEMMA LayoutFacts ==
  /\ ChunkSize \in Nat /\ SregionSize \in Nat
  /\ PchunkSize \in Nat \ {0} /\ PsregionSize \in Nat \ {0}
  /\ PslabSize \in Nat \ {0}
  /\ PchunkSize + SregionSize <= ChunkSize
  /\ SizeClass \in Seq(Nat \ {0}) /\ Len(SizeClass) \in Nat \ {0}
  /\ \A c \in Classes : /\ SizeClass[c] \in Nat \ {0}
                        /\ PsregionSize + PslabSize + SizeClass[c] <= SregionSize
<1>1. /\ {ChunkSize, SregionSize, PchunkSize, PsregionSize, PslabSize} \subseteq Nat
      /\ PchunkSize > 0 /\ PsregionSize > 0 /\ PslabSize > 0
      /\ PchunkSize + SregionSize <= ChunkSize
      /\ SizeClass \in Seq(Nat \ {0}) /\ Len(SizeClass) > 0
      /\ \A c \in Classes : PsregionSize + PslabSize + SizeClass[c] <= SregionSize
  BY SlabSizesAssumption
<1>2. \A c \in Classes : SizeClass[c] \in Nat \ {0}
  BY <1>1 DEF Classes
<1> QED
  BY <1>1, <1>2

\* The same without the classes, for arithmetic.
LEMMA HeaderSizes ==
  /\ ChunkSize \in Nat /\ SregionSize \in Nat
  /\ PchunkSize \in Nat \ {0} /\ PsregionSize \in Nat \ {0}
  /\ PslabSize \in Nat \ {0}
  /\ PchunkSize + SregionSize <= ChunkSize
  /\ PsregionSize <= SregionSize
<1>1. PICK c \in Classes : TRUE
  BY LayoutFacts DEF Classes
<1>2. SizeClass[c] \in Nat /\ PsregionSize + PslabSize + SizeClass[c] <= SregionSize
  BY LayoutFacts
<1> QED
  BY <1>2, LayoutFacts

\* Every request has a class, and its slabs hold the request.
LEMMA SizeToClassOK ==
  ASSUME NEW size \in Requests
  PROVE  SizeToClass(size) \in Classes /\ SizeClass[SizeToClass(size)] >= size
<1> DEFINE T == {c \in Classes : SizeClass[c] >= size}
           n == Len(SizeClass)
<1>1. n \in Classes /\ SizeClass[n] \in Nat /\ size \in Nat /\ size <= SizeClass[n]
  BY LayoutFacts DEF Classes, Requests
<1>2. n \in T /\ T \in SUBSET Nat
  BY <1>1 DEF Classes
<1>3. PICK c \in T : \A d \in T : c <= d
  BY <1>2, LeastElement
<1>4. ASSUME NEW d \in 1 .. c - 1
      PROVE  SizeClass[d] < size
  <2>1. d \in Classes /\ d < c
    BY <1>3, LayoutFacts DEF Classes
  <2>2. d \notin T
    BY <1>2, <1>3, <2>1
  <2>3. ~(SizeClass[d] >= size)
    BY <2>1, <2>2
  <2>4. SizeClass[d] \in Nat
    BY <2>1, LayoutFacts
  <2> QED
    BY <1>1, <2>3, <2>4
<1>5. \E e \in Classes : /\ SizeClass[e] >= size
                         /\ \A d \in 1 .. e - 1 : SizeClass[d] < size
  BY <1>3, <1>4
<1> QED
  BY <1>5 DEF SizeToClass

\* The class and the slab size of a call in progress.
LEMMA SizeOK ==
  ASSUME NEW t \in Threads, req[t] \in Requests
  PROVE  /\ Cls(t) \in Classes
         /\ Size(t) = SizeClass[Cls(t)] /\ Size(t) \in Nat \ {0}
         /\ req[t] <= Size(t)
         /\ PsregionSize + PslabSize + Size(t) <= SregionSize
<1>1. Cls(t) \in Classes /\ SizeClass[Cls(t)] >= req[t]
  BY SizeToClassOK DEF Cls
<1>2. Size(t) = SizeClass[Cls(t)]
  BY DEF Size
<1>3. req[t] \in Nat
  BY LayoutFacts DEF Requests, Classes
<1> QED
  BY <1>1, <1>2, <1>3, LayoutFacts

\* A step that leaves the arena's memory alone keeps what is said of it.
LEMMA MemUnchanged ==
  ASSUME SlabArenaInv, UNCHANGED mem
  PROVE  PoolOK(pool, Held)' /\ ChunksInv' /\ SregionsInv' /\ SlabsInv'
<1> USE DEF mem
<1>1. PoolOK(pool, Held)'
  BY DEF SlabArenaInv, Held
<1>2. ChunksInv'
  BY DEF SlabArenaInv, ChunksInv
<1>3. SregionsInv'
  BY DEF SlabArenaInv, SregionsInv, SregionEnd
<1>4. SlabsInv'
  BY DEF SlabArenaInv, SlabsInv, SlabEnd
<1> QED
  BY <1>1, <1>2, <1>3, <1>4

\* A queue that is not empty has a member in front.
LEMMA HeadOfSeq ==
  ASSUME NEW S, NEW s \in Seq(S), s # <<>>
  PROVE  Head(s) \in S
OBVIOUS

\* The steps that only move a thread along its call, and read memory.
Quiet(t) == \/ Malloc(t) \/ Lock(t) \/ LookupEasy(t) \/ LookupHard(t)
            \/ HardSameChunk(t) \/ HardExit(t) \/ Unlock(t)

LEMMA QuietTypeOK ==
  ASSUME NEW t \in Threads, TypeOK, req[t] \in Requests \/ pc[t] = "idle", Quiet(t)
  PROVE  TypeOK'
<1> USE DEF TypeOK, CallPoints
<1>m. UNCHANGED mem
  BY DEF Quiet, Malloc, Lock, LookupEasy, LookupHard, HardSameChunk, HardExit,
         Unlock, mem
<1>1. CASE Malloc(t)
  <2>1. Requests \subseteq Nat
    BY DEF Requests
  <2> QED
    BY <1>1, <1>m, <2>1 DEF Malloc, Go, mem
<1>2. CASE Lock(t)
  BY <1>2, <1>m DEF Lock, Go, mem
<1>3. CASE LookupEasy(t)
  <2>1. Cls(t) \in Classes
    BY <1>3, SizeOK DEF LookupEasy, Go
  <2>2. avail_sregion[Cls(t)] \in 1 .. Len(sregions)
    BY <1>3, <2>1 DEF LookupEasy
  <2>3. sregions[avail_sregion[Cls(t)]].ptail \in Nat
    <3>1. sregions[avail_sregion[Cls(t)]] \in SregionRec
      BY <2>2, ElementOfSeq
    <3> QED
      BY <3>1 DEF SregionRec
  <2>4. avail_sregion[Cls(t)] \in Nat
    BY <2>2
  <2> QED
    <3>1. /\ sr' = [sr EXCEPT ![t] = avail_sregion[Cls(t)]]
          /\ tail' = [tail EXCEPT ![t] = sregions[avail_sregion[Cls(t)]].ptail]
          /\ pc' = [pc EXCEPT ![t] = "easy"] /\ UNCHANGED <<lock, req, ch, mem, exited>>
      BY <1>3 DEF LookupEasy, Go
    <3>2. sr' \in [Threads -> Nat] /\ tail' \in [Threads -> Nat]
      BY <3>1, <2>3, <2>4
    <3>3. pc' \in [Threads -> CallPoints]
      BY <3>1
    <3> QED
      BY <3>1, <3>2, <3>3, <1>m, SMTT(30) DEF mem
<1>4. CASE LookupHard(t)
  BY <1>4, <1>m DEF LookupHard, Go, mem
<1>5. CASE HardSameChunk(t)
  <2>1. Head(avail_schunks) \in 1 .. Len(chunks)
    <3>1. avail_schunks # <<>>
      BY <1>5 DEF HardSameChunk
    <3>2. avail_schunks \in Seq(1 .. Len(chunks))
      OBVIOUS
    <3> QED
      BY <3>1, <3>2, HeadOfSeq
  <2>2. chunks[Head(avail_schunks)].tail \in Nat
    <3>1. chunks[Head(avail_schunks)] \in ChunkRec
      BY <2>1, ElementOfSeq
    <3> QED
      BY <3>1 DEF ChunkRec
  <2>3. Head(avail_schunks) \in Nat
    BY <2>1
  <2> QED
    BY <1>5, <1>m, <2>2, <2>3 DEF HardSameChunk, Go, mem
<1>6. CASE HardExit(t)
  BY <1>6, <1>m DEF HardExit, mem
<1>7. CASE Unlock(t)
  BY <1>7, <1>m DEF Unlock, Go, mem
<1> QED
  BY <1>1, <1>2, <1>3, <1>4, <1>5, <1>6, <1>7 DEF Quiet

LEMMA QuietLockOK ==
  ASSUME NEW t \in Threads, TypeOK, LockInv, Quiet(t)
  PROVE  LockInv'
<1> USE DEF LockInv, InCritical
<1>0. lock # NoThread => lock \in Threads
  BY DEF TypeOK
<1>n. NoThread \notin Threads /\ pc \in [Threads -> CallPoints]
  BY SlabThreadsAssumption DEF TypeOK
<1>1. CASE Malloc(t)
  BY <1>1, <1>n DEF Malloc, Go
<1>2. CASE Lock(t)
  BY <1>2, <1>n DEF Lock, Go
<1>3. CASE LookupEasy(t) \/ LookupHard(t) \/ HardSameChunk(t)
  BY <1>3, <1>n DEF LookupEasy, LookupHard, HardSameChunk, Go
<1>4. CASE HardExit(t)
  BY <1>4 DEF HardExit
<1>5. CASE Unlock(t)
  BY <1>5, <1>n DEF Unlock, Go
<1> QED
  BY <1>1, <1>2, <1>3, <1>4, <1>5 DEF Quiet

\* What another thread has read stays as it was: only the holder of the lock
\* moves, and only the holder has read anything.
LEMMA QuietLocalsOK ==
  ASSUME NEW t \in Threads, SlabArenaInv, Quiet(t)
  PROVE  LocalsInv'
<1>0. TypeOK /\ LockInv /\ LocalsInv
  BY DEF SlabArenaInv
<1>m. UNCHANGED mem
  BY DEF Quiet, Malloc, Lock, LookupEasy, LookupHard, HardSameChunk, HardExit,
         Unlock, mem
<1>t. /\ pc \in [Threads -> CallPoints] /\ req \in [Threads -> Nat]
      /\ ch \in [Threads -> Nat] /\ sr \in [Threads -> Nat]
      /\ tail \in [Threads -> Nat]
  BY <1>0 DEF TypeOK
<1> SUFFICES ASSUME NEW u \in Threads
             PROVE  /\ pc'[u] # "idle" => req'[u] \in Requests
                    /\ pc'[u] = "easy" =>
                         /\ sr'[u] \in 1 .. Len(sregions)
                         /\ tail'[u] = sregions[sr'[u]].ptail
                         /\ Fits(sr'[u], SizeClass[SizeToClass(req'[u])])
                    /\ pc'[u] = "carve" =>
                         /\ ch'[u] \in 1 .. Len(chunks)
                         /\ tail'[u] = chunks[ch'[u]].tail
                         /\ chunks[ch'[u]].availsize >= SregionSize
  BY <1>m DEF LocalsInv, mem, Fits, Size, Cls
<1>u. /\ pc[u] # "idle" => req[u] \in Requests
      /\ pc[u] = "easy" => /\ sr[u] \in 1 .. Len(sregions)
                           /\ tail[u] = sregions[sr[u]].ptail
                           /\ Fits(sr[u], SizeClass[SizeToClass(req[u])])
      /\ pc[u] = "carve" => /\ ch[u] \in 1 .. Len(chunks)
                            /\ tail[u] = chunks[ch[u]].tail
                            /\ chunks[ch[u]].availsize >= SregionSize
  BY <1>0 DEF LocalsInv, Size, Cls
<1>1. CASE u # t
  <2>1. /\ pc'[u] = pc[u] /\ req'[u] = req[u] /\ ch'[u] = ch[u]
        /\ sr'[u] = sr[u] /\ tail'[u] = tail[u]
    BY <1>1, <1>t DEF Quiet, Malloc, Lock, LookupEasy, LookupHard,
                      HardSameChunk, HardExit, Unlock, Go
  <2> QED
    BY <1>u, <2>1
<1>2. CASE u = t /\ Malloc(t)
  BY <1>2, <1>t DEF Malloc, Go
<1>3. CASE u = t /\ (Lock(t) \/ LookupHard(t))
  BY <1>3, <1>t, <1>u DEF Lock, LookupHard, Go
<1>4. CASE u = t /\ LookupEasy(t)
  <2>1. /\ pc'[t] = "easy" /\ req'[t] = req[t] /\ req[t] \in Requests
        /\ sr'[t] = avail_sregion[Cls(t)]
        /\ tail'[t] = sregions[avail_sregion[Cls(t)]].ptail
        /\ Fits(avail_sregion[Cls(t)], Size(t))
        /\ avail_sregion[Cls(t)] # 0
    BY <1>4, <1>t, <1>u DEF LookupEasy, Go
  <2>2. avail_sregion[Cls(t)] \in 1 .. Len(sregions)
    <3>1. Cls(t) \in Classes
      BY <2>1, SizeOK
    <3>2. avail_sregion[Cls(t)] \in 0 .. Len(sregions)
      BY <3>1, <1>0 DEF TypeOK
    <3> QED
      BY <2>1, <3>2
  <2> QED
    BY <1>4, <2>1, <2>2 DEF Size, Cls
<1>5. CASE u = t /\ HardSameChunk(t)
  <2>1. /\ pc'[t] = "carve" /\ req'[t] = req[t] /\ req[t] \in Requests
        /\ ch'[t] = Head(avail_schunks)
        /\ tail'[t] = chunks[Head(avail_schunks)].tail
        /\ chunks[Head(avail_schunks)].availsize >= SregionSize
        /\ avail_schunks # <<>>
    BY <1>5, <1>t, <1>u DEF HardSameChunk, Go
  <2>2. Head(avail_schunks) \in 1 .. Len(chunks)
    <3>1. avail_schunks \in Seq(1 .. Len(chunks)) /\ avail_schunks # <<>>
      BY <2>1, <1>0 DEF TypeOK
    <3> QED
      BY <3>1, HeadTailProperties
  <2> QED
    BY <1>5, <2>1, <2>2
<1>6. CASE u = t /\ HardExit(t)
  BY <1>6, <1>u DEF HardExit
<1>7. CASE u = t /\ Unlock(t)
  BY <1>7, <1>t DEF Unlock, Go
<1> QED
  BY <1>1, <1>2, <1>3, <1>4, <1>5, <1>6, <1>7 DEF Quiet

\* When the holder of the lock moves to "unlock" or "carve", the others are
\* outside the critical section and stay there.
LEMMA HolderStepOK ==
  ASSUME NEW t \in Threads, NEW to \in {"carve", "unlock"},
         TypeOK, LockInv, LocalsInv, InCritical(t),
         pc' = [pc EXCEPT ![t] = to],
         UNCHANGED <<lock, req>>,
         to = "carve" => /\ ch'[t] \in 1 .. Len(chunks')
                         /\ tail'[t] = chunks'[ch'[t]].tail
                         /\ chunks'[ch'[t]].availsize >= SregionSize
  PROVE  LockInv' /\ LocalsInv'
<1>1. pc \in [Threads -> CallPoints] /\ NoThread \notin Threads
  BY SlabThreadsAssumption DEF TypeOK
<1>2. pc[t] # "idle" /\ req[t] \in Requests
  BY DEF InCritical, LocalsInv
<1>3. LockInv'
  BY <1>1 DEF LockInv, InCritical
<1>4. ASSUME NEW u \in Threads, u # t
      PROVE  pc'[u] = pc[u] /\ pc[u] \in {"idle", "lock"}
  <2>1. ~InCritical(u)
    BY <1>4 DEF LockInv
  <2> QED
    BY <1>1, <1>4, <2>1 DEF InCritical, CallPoints
<1>5. pc'[t] = to
  BY <1>1
<1>6. ASSUME NEW u \in Threads
      PROVE  pc'[u] # "idle" => req'[u] \in Requests
  BY <1>2, <1>4 DEF LocalsInv
<1>7. ASSUME NEW u \in Threads
      PROVE  pc'[u] # "easy"
  BY <1>4, <1>5
<1>8. ASSUME NEW u \in Threads, pc'[u] = "carve"
      PROVE  u = t /\ to = "carve"
  BY <1>4, <1>5, <1>8
<1> QED
  BY <1>3, <1>6, <1>7, <1>8 DEF LocalsInv

\* Easy hands out [ptail, ptail + header + size) of the current sregion.
LEMMA EasyOK ==
  ASSUME NEW t \in Threads, SlabArenaInv, Easy(t)
  PROVE  SlabArenaInv'
<1> DEFINE s == sr[t]
           at == tail[t]
           size == Size(t)
           new == [sr |-> s, at |-> at, size |-> size, req |-> req[t],
                   attr |-> "c"]
           n == Len(slabs)
<1>0. /\ TypeOK /\ LockInv /\ LocalsInv /\ ChunksInv /\ SregionsInv /\ SlabsInv
      /\ PoolOK(pool, Held)
  BY DEF SlabArenaInv
<1>1. /\ pc[t] = "easy" /\ pc' = [pc EXCEPT ![t] = "unlock"]
      /\ slabs' = Append(slabs, new)
      /\ sregions' = [sregions EXCEPT ![s].ptail = at + PslabSize + size]
      /\ UNCHANGED <<lock, req, ch, sr, tail, pool, chunks, avail_schunks,
                     avail_sregion, freed, gcq, exited>>
  BY DEF Easy, Go, NewSlab
<1>2. /\ s \in 1 .. Len(sregions) /\ at = sregions[s].ptail /\ Fits(s, size)
      /\ req[t] \in Requests
  BY <1>0, <1>1 DEF LocalsInv
<1>3. size \in Nat \ {0} /\ req[t] <= size /\ req[t] \in Nat
  BY <1>2, SizeOK DEF Requests
<1>4. /\ sregions \in Seq(SregionRec) /\ slabs \in Seq(SlabRec)
      /\ chunks \in Seq(ChunkRec) /\ at \in Nat
      /\ Len(sregions) \in Nat /\ n \in Nat
  BY <1>0 DEF TypeOK
<1>5. at + PslabSize + size <= SregionEnd(s)
  BY <1>2 DEF Fits, SregionEnd
<1>l. PslabSize \in Nat \ {0} /\ PsregionSize \in Nat /\ SregionSize \in Nat
  BY HeaderSizes
<1>6. /\ sregions' \in Seq(SregionRec) /\ Len(sregions') = Len(sregions)
      /\ \A r \in 1 .. Len(sregions) :
           /\ sregions[r] \in SregionRec
           /\ sregions'[r].ch = sregions[r].ch
           /\ sregions'[r].paddr = sregions[r].paddr
           /\ sregions'[r].ptail =
                IF r = s THEN at + PslabSize + size ELSE sregions[r].ptail
  <2>1. \A r \in 1 .. Len(sregions) : sregions[r] \in SregionRec
    BY <1>4, ElementOfSeq
  <2> DEFINE rec == [sregions[s] EXCEPT !.ptail = at + PslabSize + size]
  <2>2. rec \in SregionRec
    <3>1. at + PslabSize + size \in Nat
      BY <1>3, <1>4, <1>l
    <3>2. sregions[s] \in SregionRec
      BY <2>1, <1>2
    <3> QED
      BY <3>1, <3>2 DEF SregionRec
  <2>3. sregions' = [sregions EXCEPT ![s] = rec]
    BY <1>1
  <2>4. rec.ch = sregions[s].ch /\ rec.paddr = sregions[s].paddr
        /\ rec.ptail = at + PslabSize + size
    BY <2>1, <1>2 DEF SregionRec
  <2> HIDE DEF rec
  <2>5. sregions' \in Seq(SregionRec) /\ Len(sregions') = Len(sregions)
        /\ \A r \in 1 .. Len(sregions) :
             sregions'[r] = IF r = s THEN rec ELSE sregions[r]
    BY <2>2, <2>3, <1>2, <1>4, ExceptSeq
  <2> QED
    BY <2>1, <2>4, <2>5
<1>7. /\ slabs' \in Seq(SlabRec) /\ Len(slabs') = n + 1 /\ slabs'[n + 1] = new
      /\ \A i \in 1 .. n : slabs'[i] = slabs[i] /\ slabs[i] \in SlabRec
  <2>1. new \in SlabRec
    BY <1>2, <1>3, <1>4 DEF SlabRec
  <2>2. \A i \in 1 .. n : slabs[i] \in SlabRec
    BY <1>4, ElementOfSeq
  <2> HIDE DEF new
  <2> QED
    BY <2>1, <2>2, <1>1, <1>4, AppendProperties
<1> HIDE DEF s, at, size, n
<1>8. TypeOK'
  <2>1. pc' \in [Threads -> CallPoints]
    BY <1>0, <1>1 DEF TypeOK, CallPoints
  <2>2. freed' \subseteq 1 .. Len(slabs')
    BY <1>0, <1>1, <1>4, <1>7 DEF TypeOK, n
  <2> QED
    BY <2>1, <2>2, <1>0, <1>1, <1>6, <1>7 DEF TypeOK
<1>9. LockInv' /\ LocalsInv'
  <2>1. InCritical(t)
    BY <1>1 DEF InCritical
  <2> QED
    BY <2>1, <1>0, <1>1, HolderStepOK
<1>10. PoolOK(pool, Held)' /\ ChunksInv'
  BY <1>0, <1>1 DEF Held, ChunksInv
<1>11. SregionsInv'
  <2>1. \A r \in 1 .. Len(sregions) :
          /\ sregions[r].ch \in 1 .. Len(chunks)
          /\ PchunkSize <= sregions[r].paddr
          /\ SregionEnd(r) <= chunks[sregions[r].ch].tail
          /\ sregions[r].paddr + PsregionSize <= sregions[r].ptail
          /\ sregions[r].ptail <= SregionEnd(r)
          /\ SregionEnd(r)' = SregionEnd(r)
    BY <1>0, <1>6 DEF SregionsInv, SregionEnd
  <2>2. sregions[s].paddr + PsregionSize <= at + PslabSize + size
    <3>1. sregions[s].paddr \in Nat
      BY <1>2, <1>6 DEF SregionRec
    <3>2. sregions[s].paddr + PsregionSize <= at
      BY <1>2, <2>1
    <3> QED
      BY <3>1, <3>2, <1>3, <1>4, <1>l
  <2>3. ASSUME NEW r \in 1 .. Len(sregions)
        PROVE  /\ sregions'[r].paddr + PsregionSize <= sregions'[r].ptail
               /\ sregions'[r].ptail <= SregionEnd(r)
    BY <2>1, <2>2, <1>5, <1>6
  <2>4. \A r, q \in 1 .. Len(sregions) :
          r # q /\ sregions[r].ch = sregions[q].ch =>
            SregionEnd(r) <= sregions[q].paddr \/ SregionEnd(q) <= sregions[r].paddr
    BY <1>0 DEF SregionsInv
  <2> QED
    BY <2>1, <2>3, <2>4, <1>1, <1>6 DEF SregionsInv
<1>12. SlabsInv'
  <2>1. ASSUME NEW i \in 1 .. n
        PROVE  /\ slabs[i].sr \in 1 .. Len(sregions)
               /\ sregions[slabs[i].sr].paddr + PsregionSize <= slabs[i].at
               /\ SlabEnd(i) <= sregions[slabs[i].sr].ptail
               /\ slabs[i].req <= slabs[i].size
               /\ SlabEnd(i) = slabs[i].at + PslabSize + slabs[i].size
               /\ slabs[i].at \in Nat /\ slabs[i].size \in Nat
    BY <1>0, <1>7 DEF SlabsInv, SlabRec, SlabEnd, n
  <2>e. \A i \in 1 .. n : SlabEnd(i) \in Nat
    BY <2>1, <1>l
  <2>2. /\ sregions[s].paddr + PsregionSize <= at
        /\ sregions'[s].ptail = at + PslabSize + size
        /\ sregions'[s].paddr = sregions[s].paddr
        /\ at <= at + PslabSize + size
    <3>1. sregions[s].paddr + PsregionSize <= at
      BY <1>0, <1>2 DEF SregionsInv
    <3>2. /\ sregions'[s].ptail = at + PslabSize + size
          /\ sregions'[s].paddr = sregions[s].paddr
      BY <1>2, <1>6
    <3>3. at <= at + PslabSize + size
      BY <1>3, <1>4, <1>l
    <3> QED
      BY <3>1, <3>2, <3>3
  <2>3. /\ new.sr = s /\ new.at = at /\ new.size = size /\ new.req = req[t]
        /\ \A i \in {n + 1} : SlabEnd(i)' = at + PslabSize + size
    BY <1>1, <1>7 DEF SlabEnd
  <2>4. \A i \in 1 .. n : SlabEnd(i)' = SlabEnd(i)
    BY <1>1, <1>7 DEF SlabEnd
  <2>5. ASSUME NEW i \in 1 .. n + 1
        PROVE  /\ slabs'[i].sr \in 1 .. Len(sregions')
               /\ sregions'[slabs'[i].sr].paddr + PsregionSize <= slabs'[i].at
               /\ SlabEnd(i)' <= sregions'[slabs'[i].sr].ptail
               /\ slabs'[i].req <= slabs'[i].size
    <3>1. CASE i = n + 1
      <4>1. /\ slabs'[i].sr = s /\ slabs'[i].at = at /\ slabs'[i].size = size
            /\ slabs'[i].req = req[t] /\ SlabEnd(i)' = at + PslabSize + size
        BY <3>1, <2>3, <1>7
      <4>2. at + PslabSize + size <= at + PslabSize + size
        BY <1>3, <1>4, <1>l
      <4> QED
        BY <4>1, <4>2, <2>2, <1>2, <1>3, <1>6
    <3>2. CASE i \in 1 .. n /\ slabs[i].sr = s
      <4>1. SlabEnd(i) <= at
        BY <3>2, <2>1, <1>2
      <4>2. SlabEnd(i) <= at + PslabSize + size
        BY <4>1, <2>e, <2>2, <3>2, <1>3, <1>4, <1>l
      <4> QED
        BY <3>2, <4>2, <2>1, <2>2, <2>4, <1>2, <1>6, <1>7
    <3>3. CASE i \in 1 .. n /\ slabs[i].sr # s
      BY <3>3, <2>1, <2>4, <1>6, <1>7
    <3> QED
      BY <3>1, <3>2, <3>3, <1>4
  <2>6. ASSUME NEW i \in 1 .. n, slabs[i].sr = s
        PROVE  SlabEnd(i) <= at
    BY <2>1, <2>6, <1>2
  <2>7. ASSUME NEW i \in 1 .. n + 1, NEW j \in 1 .. n + 1, i # j,
               slabs'[i].sr = slabs'[j].sr
        PROVE  SlabEnd(i)' <= slabs'[j].at \/ SlabEnd(j)' <= slabs'[i].at
    <3>1. CASE i \in 1 .. n /\ j \in 1 .. n
      BY <3>1, <2>4, <2>7, <1>0, <1>7 DEF SlabsInv, n
    <3>2. CASE i = n + 1 /\ j \in 1 .. n
      BY <3>2, <2>3, <2>4, <2>6, <2>7, <1>7
    <3>3. CASE i \in 1 .. n /\ j = n + 1
      BY <3>3, <2>3, <2>4, <2>6, <2>7, <1>7
    <3> QED
      BY <3>1, <3>2, <3>3, <2>7, <1>4
  <2> QED
    BY <2>5, <2>7, <1>7 DEF SlabsInv
<1> QED
  BY <1>8, <1>9, <1>10, <1>11, <1>12 DEF SlabArenaInv

\* The new chunk joins those the arena holds.
LEMMA HeldGrows ==
  ASSUME NEW t \in Threads, TypeOK, HardNewChunk(t)
  PROVE  Held' = Held \cup {ChunkAllocAddr(pool)}
<1> DEFINE m == Len(chunks)
           c == ChunkAllocAddr(pool)
<1>1. PICK new : chunks' = Append(chunks, new) /\ new.paddr = c
  BY DEF HardNewChunk
<1>2. m \in Nat /\ chunks \in Seq(ChunkRec)
  BY DEF TypeOK
<1>3. /\ Len(chunks') = m + 1 /\ chunks'[m + 1].paddr = c
      /\ \A i \in 1 .. m : chunks'[i].paddr = chunks[i].paddr
  BY <1>1, <1>2
<1> HIDE DEF m, c
<1>4. Held' = {chunks'[i].paddr : i \in 1 .. m + 1}
      /\ Held = {chunks[i].paddr : i \in 1 .. m}
  BY <1>3 DEF Held, m
<1>5. \A i : i \in 1 .. m + 1 <=> i \in 1 .. m \/ i = m + 1
  BY <1>2
<1> QED
  BY <1>3, <1>4, <1>5 DEF c

\* A new chunk is one no chunk_t of the arena describes yet.
LEMMA HardNewChunkOK ==
  ASSUME NEW t \in Threads, SlabArenaInv, HardNewChunk(t)
  PROVE  SlabArenaInv'
<1> DEFINE m == Len(chunks)
           c == ChunkAllocAddr(pool)
<1>0. /\ TypeOK /\ LockInv /\ LocalsInv /\ ChunksInv /\ SregionsInv /\ SlabsInv
      /\ PoolOK(pool, Held)
  BY DEF SlabArenaInv
<1>1. PICK b \in LowBytes :
        chunks' = Append(chunks, [paddr |-> c, header |-> b, tail |-> PchunkSize,
                                  availsize |-> ChunkSize - PchunkSize])
  BY DEF HardNewChunk
<1> DEFINE new == [paddr |-> c, header |-> b, tail |-> PchunkSize,
                   availsize |-> ChunkSize - PchunkSize]
<1>2. /\ pc[t] = "hard" /\ pc' = [pc EXCEPT ![t] = "carve"]
      /\ pool' = ChunkAllocPool(pool)
      /\ avail_schunks' = <<m + 1>> \o avail_schunks
      /\ MaybeGc(pool')
      /\ ch' = [ch EXCEPT ![t] = m + 1]
      /\ tail' = [tail EXCEPT ![t] = PchunkSize]
      /\ UNCHANGED <<lock, req, sr, sregions, avail_sregion, slabs, freed, exited>>
  BY DEF HardNewChunk, Go
<1>3. c \in ChunkAddr /\ c \notin Held /\ PoolOK(pool', Held \cup {c})
  BY <1>0, <1>2, ChunkAllocOK
<1>4. chunks \in Seq(ChunkRec) /\ m \in Nat
  BY <1>0 DEF TypeOK
<1>l. /\ ChunkSize \in Nat /\ SregionSize \in Nat /\ PchunkSize \in Nat
      /\ PchunkSize + SregionSize <= ChunkSize
  BY HeaderSizes
<1>5. new \in ChunkRec
  <2>1. b \in 0 .. 255
    BY LowBytesAssumption
  <2>2. ChunkSize - PchunkSize \in Int
    BY <1>l
  <2> QED
    BY <2>1, <2>2, <1>3, <1>l DEF ChunkRec
<1>6. /\ chunks' \in Seq(ChunkRec) /\ Len(chunks') = m + 1 /\ chunks'[m + 1] = new
      /\ \A i \in 1 .. m : chunks'[i] = chunks[i] /\ chunks[i] \in ChunkRec
  <2>1. \A i \in 1 .. m : chunks[i] \in ChunkRec
    BY <1>4, ElementOfSeq
  <2> HIDE DEF new
  <2>2. chunks' = Append(chunks, new)
    BY <1>1 DEF new
  <2> QED
    BY <2>1, <2>2, <1>4, <1>5, AppendProperties
<1>7. /\ new.paddr = c /\ new.tail = PchunkSize
      /\ new.availsize = ChunkSize - PchunkSize
  OBVIOUS
<1> HIDE DEF m, c, new
<1>8. Held' = Held \cup {c}
  BY <1>0, HeldGrows DEF c
<1>9. TypeOK'
  <2>1. pc' \in [Threads -> CallPoints]
    BY <1>0, <1>2 DEF TypeOK, CallPoints
  <2>2. ch' \in [Threads -> Nat] /\ tail' \in [Threads -> Nat]
    BY <1>0, <1>2, <1>4, <1>l DEF TypeOK
  <2>3. avail_schunks' \in Seq(1 .. Len(chunks'))
    <3>1. avail_schunks \in Seq(1 .. m + 1)
      <4>1. (1 .. m) \subseteq (1 .. m + 1)
        BY <1>4
      <4> QED
        BY <4>1, <1>0, SeqMonotonic DEF TypeOK, m
    <3>2. <<m + 1>> \in Seq(1 .. m + 1)
      BY <1>4
    <3> QED
      BY <3>1, <3>2, <1>2, <1>6, ConcatProperties
  <2>4. gcq' \in Seq({"fastgc", "slowgc"})
    <3> DEFINE Q == Seq({"fastgc", "slowgc"})
    <3>1. <<"fastgc">> \in Q /\ <<"slowgc">> \in Q /\ <<>> \in Q /\ gcq \in Q
      BY <1>0 DEF TypeOK
    <3>2. \A x, y \in Q : x \o y \in Q
      OBVIOUS
    <3> DEFINE x == IF PmempoolUsedpct(pool') >= 70 THEN <<"fastgc">> ELSE <<>>
               y == IF PmempoolUsedpct(pool') >= 90 THEN <<"slowgc">> ELSE <<>>
    <3>3. x \in Q /\ y \in Q
      BY <3>1
    <3>4. gcq' = (gcq \o x) \o y
      BY <1>2 DEF MaybeGc
    <3> HIDE DEF Q, x, y
    <3>5. gcq' \in Q
      BY <3>1, <3>2, <3>3, <3>4
    <3> QED
      BY <3>5 DEF Q
  <2>5. pool' \in PoolType
    BY <1>3 DEF PoolOK
  <2> QED
    BY <2>1, <2>2, <2>3, <2>4, <2>5, <1>0, <1>2, <1>6 DEF TypeOK
<1>10. LockInv' /\ LocalsInv'
  <2>1. InCritical(t)
    BY <1>2 DEF InCritical
  <2>2. ch'[t] = m + 1 /\ tail'[t] = PchunkSize
    BY <1>0, <1>2 DEF TypeOK
  <2>3. /\ m + 1 \in 1 .. Len(chunks')
        /\ PchunkSize = chunks'[m + 1].tail
        /\ chunks'[m + 1].availsize >= SregionSize
    BY <1>4, <1>6, <1>7, <1>l
  <2> QED
    BY <2>1, <2>2, <2>3, <1>0, <1>2, HolderStepOK
<1>11. PoolOK(pool, Held)'
  BY <1>3, <1>8
<1>12. ChunksInv'
  <2>1. \A i \in 1 .. m : chunks[i].paddr # c
    BY <1>3 DEF Held, m
  <2>2. ASSUME NEW i \in 1 .. m + 1, NEW j \in 1 .. m + 1,
               chunks'[i].paddr = chunks'[j].paddr
        PROVE  i = j
    <3>1. CASE i \in 1 .. m /\ j \in 1 .. m
      BY <3>1, <2>2, <1>0, <1>6 DEF ChunksInv, m
    <3>2. CASE i \in 1 .. m /\ j = m + 1
      BY <3>2, <2>1, <2>2, <1>6, <1>7
    <3>3. CASE i = m + 1 /\ j \in 1 .. m
      BY <3>3, <2>1, <2>2, <1>6, <1>7
    <3> QED
      BY <3>1, <3>2, <3>3, <1>4
  <2>3. ASSUME NEW i \in 1 .. m + 1
        PROVE  /\ PchunkSize <= chunks'[i].tail
               /\ chunks'[i].tail + chunks'[i].availsize = ChunkSize
               /\ 0 <= chunks'[i].availsize
    <3>1. CASE i \in 1 .. m
      BY <3>1, <1>0, <1>6 DEF ChunksInv, m
    <3>2. CASE i = m + 1
      BY <3>2, <1>6, <1>7, <1>l
    <3> QED
      BY <3>1, <3>2, <1>4
  <2> QED
    BY <2>2, <2>3, <1>6 DEF ChunksInv
<1>13. SregionsInv'
  <2>1. \A s \in 1 .. Len(sregions) : sregions[s].ch \in 1 .. m
    BY <1>0 DEF SregionsInv, m
  <2>2. \A i \in 1 .. m : i \in 1 .. m + 1
    BY <1>4
  <2> QED
    BY <2>1, <2>2, <1>0, <1>2, <1>6 DEF SregionsInv, SregionEnd
<1>14. SlabsInv'
  BY <1>0, <1>2 DEF SlabsInv, SlabEnd
<1> QED
  BY <1>9, <1>10, <1>11, <1>12, <1>13, <1>14 DEF SlabArenaInv

\* Carving an sregion moves no chunk.
LEMMA CarveKeepsHeld ==
  ASSUME NEW t \in Threads, TypeOK, Carve(t)
  PROVE  Held' = Held
<1> DEFINE k == ch[t]
           rec == [chunks[k] EXCEPT !.tail = tail[t] + SregionSize,
                                    !.availsize = @ - SregionSize]
<1>1. chunks \in Seq(ChunkRec)
  BY DEF TypeOK
<1>2. chunks' = [chunks EXCEPT ![k] = rec]
  BY DEF Carve
<1>3. Len(chunks') = Len(chunks)
  BY <1>1, <1>2
<1>4. ASSUME NEW i \in 1 .. Len(chunks)
      PROVE  chunks'[i].paddr = chunks[i].paddr
  <2>1. chunks[i] \in ChunkRec
    BY <1>1, ElementOfSeq
  <2>2. i = k => rec.paddr = chunks[i].paddr
    BY <2>1 DEF ChunkRec
  <2>3. chunks'[i] = IF i = k THEN rec ELSE chunks[i]
    BY <1>1, <1>2
  <2> QED
    BY <2>2, <2>3
<1> QED
  BY <1>3, <1>4 DEF Held

\* Carve takes the SregionSize bytes at the chunk's tail, below which every
\* sregion of the chunk lies, and puts the first slab into them.
LEMMA CarveOK ==
  ASSUME NEW t \in Threads, SlabArenaInv, Carve(t)
  PROVE  SlabArenaInv'
<1> DEFINE k == ch[t]
           tl == tail[t]
           first == tl + PsregionSize
           size == Size(t)
           m == Len(sregions)
           n == Len(slabs)
           newsr == [ch |-> k, paddr |-> tl, size |-> size,
                     ptail |-> first + PslabSize + size]
           new == [sr |-> m + 1, at |-> first, size |-> size, req |-> req[t],
                   attr |-> "c"]
<1>0. /\ TypeOK /\ LockInv /\ LocalsInv /\ ChunksInv /\ SregionsInv /\ SlabsInv
      /\ PoolOK(pool, Held)
  BY DEF SlabArenaInv
<1>1. /\ pc[t] = "carve" /\ pc' = [pc EXCEPT ![t] = "unlock"]
      /\ chunks' = [chunks EXCEPT ![k].tail = tl + SregionSize,
                                  ![k].availsize = @ - SregionSize]
      /\ sregions' = Append(sregions, newsr)
      /\ avail_sregion' = [avail_sregion EXCEPT ![Cls(t)] = m + 1]
      /\ slabs' = Append(slabs, new)
      /\ UNCHANGED <<lock, req, ch, sr, tail, pool, avail_schunks, freed, gcq,
                     exited>>
  BY DEF Carve, Go, NewSlab
<1>2. /\ k \in 1 .. Len(chunks) /\ tl = chunks[k].tail
      /\ chunks[k].availsize >= SregionSize /\ req[t] \in Requests
  BY <1>0, <1>1 DEF LocalsInv
<1>3. /\ size \in Nat \ {0} /\ req[t] <= size /\ req[t] \in Nat
      /\ PsregionSize + PslabSize + size <= SregionSize
      /\ Cls(t) \in Classes
  BY <1>2, SizeOK DEF Requests
<1>4. /\ chunks \in Seq(ChunkRec) /\ sregions \in Seq(SregionRec)
      /\ slabs \in Seq(SlabRec) /\ tl \in Nat /\ k \in Nat
      /\ m \in Nat /\ n \in Nat /\ Len(chunks) \in Nat
  BY <1>0, <1>2 DEF TypeOK
<1>l. /\ PslabSize \in Nat \ {0} /\ PsregionSize \in Nat \ {0}
      /\ SregionSize \in Nat /\ PchunkSize \in Nat /\ ChunkSize \in Nat
  BY HeaderSizes
<1>c. \A i \in 1 .. Len(chunks) : chunks[i] \in ChunkRec
  BY <1>4, ElementOfSeq
<1>5. /\ chunks' \in Seq(ChunkRec) /\ Len(chunks') = Len(chunks)
      /\ \A i \in 1 .. Len(chunks) :
           /\ chunks'[i].paddr = chunks[i].paddr
           /\ chunks'[i].tail = IF i = k THEN tl + SregionSize ELSE chunks[i].tail
           /\ chunks'[i].availsize =
                chunks[i].availsize - (IF i = k THEN SregionSize ELSE 0)
  <2> DEFINE rec == [chunks[k] EXCEPT !.tail = tl + SregionSize,
                                      !.availsize = @ - SregionSize]
  <2>1. chunks[k] \in ChunkRec
    BY <1>2, <1>c
  <2>2. /\ rec \in ChunkRec /\ rec.paddr = chunks[k].paddr
        /\ rec.tail = tl + SregionSize
        /\ rec.availsize = chunks[k].availsize - SregionSize
    <3>1. tl + SregionSize \in Nat
      BY <1>4, <1>l
    <3>2. chunks[k].availsize - SregionSize \in Int
      BY <2>1, <1>l DEF ChunkRec
    <3> QED
      BY <2>1, <3>1, <3>2 DEF ChunkRec
  <2>3. chunks' = [chunks EXCEPT ![k] = rec]
    BY <1>1, <1>2, <1>4
  <2> HIDE DEF rec
  <2>4. chunks' \in Seq(ChunkRec) /\ Len(chunks') = Len(chunks)
        /\ \A i \in 1 .. Len(chunks) :
             chunks'[i] = IF i = k THEN rec ELSE chunks[i]
    BY <2>2, <2>3, <1>2, <1>4, ExceptSeq
  <2>5. \A i \in 1 .. Len(chunks) :
          chunks[i].availsize - 0 = chunks[i].availsize
    BY <1>c DEF ChunkRec
  <2>6. ASSUME NEW i \in 1 .. Len(chunks)
        PROVE  /\ chunks'[i].paddr = chunks[i].paddr
               /\ chunks'[i].tail = IF i = k THEN tl + SregionSize ELSE chunks[i].tail
               /\ chunks'[i].availsize =
                    chunks[i].availsize - (IF i = k THEN SregionSize ELSE 0)
    <3>1. CASE i = k
      BY <3>1, <2>2, <2>4
    <3>2. CASE i # k
      BY <3>2, <2>4, <2>5
    <3> QED
      BY <3>1, <3>2
  <2> QED
    BY <2>4, <2>6
<1>6. /\ sregions' \in Seq(SregionRec) /\ Len(sregions') = m + 1
      /\ sregions'[m + 1] = newsr
      /\ \A r \in 1 .. m : sregions'[r] = sregions[r] /\ sregions[r] \in SregionRec
  <2>1. newsr \in SregionRec
    <3>1. first + PslabSize + size \in Nat
      BY <1>3, <1>4, <1>l, SMTT(30)
    <3> QED
      BY <3>1, <1>3, <1>4 DEF SregionRec
  <2>2. \A r \in 1 .. m : sregions[r] \in SregionRec
    BY <1>4, ElementOfSeq
  <2> HIDE DEF newsr
  <2> QED
    BY <2>1, <2>2, <1>1, <1>4, AppendProperties, SMTT(30)
<1>7. /\ slabs' \in Seq(SlabRec) /\ Len(slabs') = n + 1 /\ slabs'[n + 1] = new
      /\ \A i \in 1 .. n : slabs'[i] = slabs[i] /\ slabs[i] \in SlabRec
  <2>1. new \in SlabRec
    <3>1. first \in Nat /\ m + 1 \in Nat
      BY <1>4, <1>l
    <3> QED
      BY <3>1, <1>3 DEF SlabRec
  <2>2. \A i \in 1 .. n : slabs[i] \in SlabRec
    BY <1>4, ElementOfSeq
  <2> HIDE DEF new
  <2> QED
    BY <2>1, <2>2, <1>1, <1>4, AppendProperties
<1>n. /\ newsr.ch = k /\ newsr.paddr = tl /\ newsr.ptail = first + PslabSize + size
      /\ new.sr = m + 1 /\ new.at = first /\ new.size = size /\ new.req = req[t]
  OBVIOUS
<1>b. first = tl + PsregionSize
  OBVIOUS
<1> HIDE DEF k, tl, first, size, m, n, newsr, new
<1>a. /\ first = tl + PsregionSize
      /\ first + PslabSize + size <= tl + SregionSize
      /\ tl <= first /\ tl + PsregionSize <= first + PslabSize + size
      /\ first + PslabSize + size \in Nat
  BY <1>b, <1>3, <1>4, <1>l
<1>8. TypeOK'
  <2>1. pc' \in [Threads -> CallPoints]
    BY <1>0, <1>1 DEF TypeOK, CallPoints
  <2>2. freed' \subseteq 1 .. Len(slabs')
    <3>1. freed \subseteq 1 .. n
      BY <1>0 DEF TypeOK, n
    <3> QED
      BY <3>1, <1>1, <1>4, <1>7
  <2>3. avail_sregion' \in [Classes -> 0 .. Len(sregions')]
    <3>1. avail_sregion \in [Classes -> 0 .. m]
      BY <1>0 DEF TypeOK, m
    <3>2. 0 .. m \subseteq 0 .. m + 1 /\ m + 1 \in 0 .. m + 1
      BY <1>4
    <3>3. avail_sregion' \in [Classes -> 0 .. m + 1]
      BY <3>1, <3>2, <1>1, <1>3
    <3> QED
      BY <3>3, <1>6
  <2>4. avail_schunks' \in Seq(1 .. Len(chunks'))
    BY <1>0, <1>1, <1>5 DEF TypeOK
  <2> QED
    BY <2>1, <2>2, <2>3, <2>4, <1>0, <1>1, <1>5, <1>6, <1>7 DEF TypeOK
<1>9. LockInv' /\ LocalsInv'
  <2>1. InCritical(t)
    BY <1>1 DEF InCritical
  <2> QED
    BY <2>1, <1>0, <1>1, HolderStepOK
<1>10. PoolOK(pool, Held)'
  <2>1. Held' = Held
    BY <1>0, CarveKeepsHeld
  <2> QED
    BY <2>1, <1>0, <1>1
<1>11. ChunksInv'
  <2>1. \A i \in 1 .. Len(chunks) :
          /\ PchunkSize <= chunks[i].tail
          /\ chunks[i].tail + chunks[i].availsize = ChunkSize
          /\ 0 <= chunks[i].availsize
          /\ chunks[i].tail \in Nat /\ chunks[i].availsize \in Int
    BY <1>0, <1>c DEF ChunksInv, ChunkRec
  <2>2. ASSUME NEW i \in 1 .. Len(chunks)
        PROVE  /\ PchunkSize <= chunks'[i].tail
               /\ chunks'[i].tail + chunks'[i].availsize = ChunkSize
               /\ 0 <= chunks'[i].availsize
    <3>1. CASE i = k
      <4>1. chunks'[i].tail = chunks[i].tail + SregionSize
            /\ chunks'[i].availsize = chunks[i].availsize - SregionSize
            /\ chunks[i].availsize >= SregionSize
        BY <3>1, <1>2, <1>5
      <4> QED
        BY <4>1, <2>1, <1>l
    <3>2. CASE i # k
      <4>1. chunks'[i].tail = chunks[i].tail
            /\ chunks'[i].availsize = chunks[i].availsize - 0
        BY <3>2, <1>5
      <4> QED
        BY <4>1, <2>1
    <3> QED
      BY <3>1, <3>2
  <2> QED
    BY <2>2, <1>0, <1>5 DEF ChunksInv
<1>12. SregionsInv'
  <2>1. \A r \in 1 .. m :
          /\ sregions[r].ch \in 1 .. Len(chunks)
          /\ PchunkSize <= sregions[r].paddr
          /\ SregionEnd(r) <= chunks[sregions[r].ch].tail
          /\ sregions[r].paddr + PsregionSize <= sregions[r].ptail
          /\ sregions[r].ptail <= SregionEnd(r)
          /\ SregionEnd(r)' = SregionEnd(r)
    BY <1>0, <1>6 DEF SregionsInv, SregionEnd, m
  <2>e. \A r \in 1 .. m : SregionEnd(r) \in Nat
    BY <1>6, <1>l DEF SregionEnd, SregionRec
  <2>2. \A r \in {m + 1} : SregionEnd(r)' = tl + SregionSize
    BY <1>6, <1>n DEF SregionEnd
  <2>3. ASSUME NEW r \in 1 .. m, sregions[r].ch = k
        PROVE  SregionEnd(r) <= tl
    BY <2>1, <2>3, <1>2
  <2>4. ASSUME NEW r \in 1 .. m + 1
        PROVE  /\ sregions'[r].ch \in 1 .. Len(chunks')
               /\ PchunkSize <= sregions'[r].paddr
               /\ SregionEnd(r)' <= chunks'[sregions'[r].ch].tail
               /\ sregions'[r].paddr + PsregionSize <= sregions'[r].ptail
               /\ sregions'[r].ptail <= SregionEnd(r)'
    <3>1. CASE r = m + 1
      <4>1. sregions'[r].ch = k /\ sregions'[r].paddr = tl
            /\ sregions'[r].ptail = first + PslabSize + size
            /\ SregionEnd(r)' = tl + SregionSize
            /\ chunks'[k].tail = tl + SregionSize
        BY <3>1, <2>2, <1>2, <1>5, <1>6, <1>n
      <4>2. PchunkSize <= tl
        BY <1>0, <1>2 DEF ChunksInv
      <4>3. tl + SregionSize <= tl + SregionSize
        BY <1>4, <1>l
      <4>4. k \in 1 .. Len(chunks')
        BY <1>2, <1>5
      <4> QED
        BY <4>1, <4>2, <4>3, <4>4, <1>a
    <3>2. CASE r \in 1 .. m /\ sregions[r].ch = k
      <4>1. SregionEnd(r) <= tl + SregionSize
        BY <3>2, <2>3, <2>e, <1>4, <1>l, SMTT(30)
      <4> QED
        BY <3>2, <4>1, <2>1, <1>2, <1>5, <1>6, SMTT(30)
    <3>3. CASE r \in 1 .. m /\ sregions[r].ch # k
      BY <3>3, <2>1, <1>5, <1>6
    <3> QED
      BY <3>1, <3>2, <3>3, <1>4
  <2>5. ASSUME NEW r \in 1 .. m + 1, NEW q \in 1 .. m + 1, r # q,
               sregions'[r].ch = sregions'[q].ch
        PROVE  \/ SregionEnd(r)' <= sregions'[q].paddr
               \/ SregionEnd(q)' <= sregions'[r].paddr
    <3>1. CASE r \in 1 .. m /\ q \in 1 .. m
      BY <3>1, <2>1, <2>5, <1>0, <1>6 DEF SregionsInv, m
    <3>2. CASE r = m + 1 /\ q \in 1 .. m
      BY <3>2, <2>1, <2>3, <2>5, <1>6, <1>n
    <3>3. CASE r \in 1 .. m /\ q = m + 1
      BY <3>3, <2>1, <2>3, <2>5, <1>6, <1>n
    <3> QED
      BY <3>1, <3>2, <3>3, <2>5, <1>4
  <2> QED
    BY <2>4, <2>5, <1>6 DEF SregionsInv
<1>13. SlabsInv'
  <2>1. \A i \in 1 .. n :
          /\ slabs[i].sr \in 1 .. m
          /\ sregions[slabs[i].sr].paddr + PsregionSize <= slabs[i].at
          /\ SlabEnd(i) <= sregions[slabs[i].sr].ptail
          /\ slabs[i].req <= slabs[i].size
          /\ SlabEnd(i)' = SlabEnd(i)
    BY <1>0, <1>7 DEF SlabsInv, SlabEnd, m, n
  <2>2. \A i \in {n + 1} : SlabEnd(i)' = first + PslabSize + size
    BY <1>7, <1>n DEF SlabEnd
  <2>3. ASSUME NEW i \in 1 .. n + 1
        PROVE  /\ slabs'[i].sr \in 1 .. m + 1
               /\ sregions'[slabs'[i].sr].paddr + PsregionSize <= slabs'[i].at
               /\ SlabEnd(i)' <= sregions'[slabs'[i].sr].ptail
               /\ slabs'[i].req <= slabs'[i].size
    <3>1. CASE i = n + 1
      <4>1. /\ slabs'[i].sr = m + 1 /\ slabs'[i].at = first
            /\ slabs'[i].size = size /\ slabs'[i].req = req[t]
            /\ SlabEnd(i)' = first + PslabSize + size
            /\ sregions'[m + 1].paddr = tl
            /\ sregions'[m + 1].ptail = first + PslabSize + size
        BY <3>1, <2>2, <1>6, <1>7, <1>n
      <4>2. tl + PsregionSize <= first
            /\ first + PslabSize + size <= first + PslabSize + size
            /\ m + 1 \in 1 .. m + 1
        BY <1>3, <1>4, <1>a, <1>l
      <4> QED
        BY <4>1, <4>2, <1>3
    <3>2. CASE i \in 1 .. n
      <4>1. slabs'[i] = slabs[i] /\ slabs[i].sr \in 1 .. m + 1
            /\ sregions'[slabs[i].sr] = sregions[slabs[i].sr]
        BY <3>2, <2>1, <1>4, <1>6, <1>7
      <4> QED
        BY <3>2, <4>1, <2>1
    <3> QED
      BY <3>1, <3>2, <1>4
  <2>4. ASSUME NEW i \in 1 .. n + 1, NEW j \in 1 .. n + 1, i # j,
               slabs'[i].sr = slabs'[j].sr
        PROVE  SlabEnd(i)' <= slabs'[j].at \/ SlabEnd(j)' <= slabs'[i].at
    <3>1. CASE i \in 1 .. n /\ j \in 1 .. n
      BY <3>1, <2>1, <2>4, <1>0, <1>7 DEF SlabsInv, n
    <3>a. \A e \in 1 .. n : slabs'[e].sr # m + 1
      <4>1. \A e \in 1 .. n : slabs'[e].sr \in 1 .. m
        BY <2>1, <1>7
      <4> QED
        BY <4>1, <1>4
    <3>b. slabs'[n + 1].sr = m + 1
      BY <1>7, <1>n
    <3>2. CASE i = n + 1 /\ j \in 1 .. n
      BY <3>2, <3>a, <3>b, <2>4
    <3>3. CASE i \in 1 .. n /\ j = n + 1
      BY <3>3, <3>a, <3>b, <2>4
    <3> QED
      BY <3>1, <3>2, <3>3, <2>4, <1>4
  <2> QED
    BY <2>3, <2>4, <1>6, <1>7 DEF SlabsInv
<1> QED
  BY <1>8, <1>9, <1>10, <1>11, <1>12, <1>13 DEF SlabArenaInv

\* lsfree changes at most the attr of one slab.
LEMMA LsfreeOK ==
  ASSUME NEW t \in Threads, NEW e \in 1 .. Len(slabs), SlabArenaInv, Free(t, e)
  PROVE  SlabArenaInv'
<1>0. /\ TypeOK /\ LockInv /\ LocalsInv /\ ChunksInv /\ SregionsInv /\ SlabsInv
      /\ PoolOK(pool, Held)
  BY DEF SlabArenaInv
<1>1. /\ freed' = freed \cup {e}
      /\ slabs' = slabs \/ slabs' = [slabs EXCEPT ![e].attr = "d"]
      /\ UNCHANGED <<lock, pc, req, ch, sr, tail, pool, chunks, avail_schunks,
                     sregions, avail_sregion, gcq, exited>>
  BY DEF Free
<1>2. slabs \in Seq(SlabRec)
  BY <1>0 DEF TypeOK
<1>3. /\ slabs' \in Seq(SlabRec) /\ Len(slabs') = Len(slabs)
      /\ \A i \in 1 .. Len(slabs) :
           /\ slabs'[i].sr = slabs[i].sr /\ slabs'[i].at = slabs[i].at
           /\ slabs'[i].size = slabs[i].size /\ slabs'[i].req = slabs[i].req
  <2>1. CASE slabs' = slabs
    BY <2>1, <1>2
  <2>2. CASE slabs' = [slabs EXCEPT ![e].attr = "d"]
    <3> DEFINE rec == [slabs[e] EXCEPT !.attr = "d"]
    <3>1. slabs[e] \in SlabRec
      BY <1>2, ElementOfSeq
    <3>2. /\ rec \in SlabRec /\ rec.sr = slabs[e].sr /\ rec.at = slabs[e].at
          /\ rec.size = slabs[e].size /\ rec.req = slabs[e].req
      BY <3>1 DEF SlabRec
    <3>3. slabs' = [slabs EXCEPT ![e] = rec]
      BY <2>2
    <3> HIDE DEF rec
    <3>4. slabs' \in Seq(SlabRec) /\ Len(slabs') = Len(slabs)
          /\ \A i \in 1 .. Len(slabs) :
               slabs'[i] = IF i = e THEN rec ELSE slabs[i]
      BY <3>2, <3>3, <1>2, ExceptSeq
    <3> QED
      BY <3>2, <3>4
  <2> QED
    BY <2>1, <2>2, <1>1
<1>4. TypeOK'
  <2>1. freed' \subseteq 1 .. Len(slabs')
    BY <1>0, <1>1, <1>3 DEF TypeOK
  <2> QED
    BY <2>1, <1>0, <1>1, <1>3 DEF TypeOK
<1>5. LockInv'
  BY <1>0, <1>1 DEF LockInv, InCritical
<1>6. LocalsInv'
  BY <1>0, <1>1 DEF LocalsInv, Fits, Size, Cls
<1>7. PoolOK(pool, Held)'
  BY <1>0, <1>1 DEF Held
<1>8. ChunksInv' /\ SregionsInv'
  BY <1>0, <1>1 DEF ChunksInv, SregionsInv, SregionEnd
<1>9. SlabsInv'
  <2>1. \A i \in 1 .. Len(slabs) : SlabEnd(i)' = SlabEnd(i)
    BY <1>3 DEF SlabEnd
  <2> QED
    BY <2>1, <1>0, <1>1, <1>3 DEF SlabsInv
<1> QED
  BY <1>4, <1>5, <1>6, <1>7, <1>8, <1>9 DEF SlabArenaInv

\* An arena without chunks satisfies the invariant.
LEMMA InitOK == Init => SlabArenaInv
<1> SUFFICES ASSUME Init PROVE SlabArenaInv
  OBVIOUS
<1>1. PoolOK(pool, Held)
  <2>1. Held = {}
    BY DEF Init, Held
  <2> QED
    BY <2>1, CreateOK DEF Init
<1>2. TypeOK
  <2>1. pool \in PoolType
    BY <1>1 DEF PoolOK
  <2>2. /\ pc \in [Threads -> CallPoints]
        /\ req \in [Threads -> Nat] /\ ch \in [Threads -> Nat]
        /\ sr \in [Threads -> Nat] /\ tail \in [Threads -> Nat]
        /\ avail_sregion \in [Classes -> {0}]
    BY DEF Init, CallPoints
  <2>3. /\ Len(chunks) = 0 /\ Len(sregions) = 0 /\ Len(slabs) = 0
        /\ chunks \in Seq(ChunkRec) /\ sregions \in Seq(SregionRec)
        /\ slabs \in Seq(SlabRec) /\ avail_schunks \in Seq(1 .. Len(chunks))
        /\ gcq \in Seq({"fastgc", "slowgc"})
    BY DEF Init
  <2>4. avail_sregion \in [Classes -> 0 .. Len(sregions)]
    BY <2>2, <2>3
  <2> QED
    BY <2>1, <2>2, <2>3, <2>4 DEF Init, TypeOK
<1>3. LockInv /\ LocalsInv
  BY SlabThreadsAssumption DEF Init, LockInv, InCritical, LocalsInv
<1>4. ChunksInv /\ SregionsInv /\ SlabsInv
  BY DEF Init, ChunksInv, SregionsInv, SlabsInv
<1> QED
  BY <1>1, <1>2, <1>3, <1>4 DEF SlabArenaInv

\* Every step keeps the invariant.
LEMMA NextOK == SlabArenaInv /\ [Next]_vars => SlabArenaInv'
<1> SUFFICES ASSUME SlabArenaInv, [Next]_vars PROVE SlabArenaInv'
  OBVIOUS
<1>1. ASSUME NEW t \in Threads, Quiet(t) PROVE SlabArenaInv'
  <2>1. UNCHANGED mem
    BY <1>1 DEF Quiet, Malloc, Lock, LookupEasy, LookupHard, HardSameChunk,
                HardExit, Unlock, mem
  <2>2. req[t] \in Requests \/ pc[t] = "idle"
    BY DEF SlabArenaInv, LocalsInv
  <2> QED
    BY <2>1, <2>2, <1>1, MemUnchanged, QuietTypeOK, QuietLockOK, QuietLocalsOK
       DEF SlabArenaInv
<1>2. ASSUME NEW t \in Threads, FreeSome(t) PROVE SlabArenaInv'
  <2>1. Len(slabs) \in Nat
    BY DEF SlabArenaInv, TypeOK
  <2>2. Returned \subseteq 1 .. Len(slabs)
    BY <2>1 DEF Returned
  <2> QED
    BY <2>2, <1>2, LsfreeOK DEF FreeSome
<1>3. CASE UNCHANGED vars
  <2>1. UNCHANGED mem
    BY <1>3 DEF vars
  <2>2. TypeOK'
    BY <1>3, <2>1 DEF SlabArenaInv, TypeOK, vars, mem
  <2>3. LockInv' /\ LocalsInv'
    BY <1>3, <2>1 DEF SlabArenaInv, LockInv, InCritical, LocalsInv, Fits, Size,
                      Cls, vars, mem
  <2> QED
    BY <2>1, <2>2, <2>3, MemUnchanged DEF SlabArenaInv
<1>4. CASE Exited
  BY <1>3, <1>4 DEF Exited
<1>5. ASSUME NEW t \in Threads, Malloc(t) \/ InCall(t) PROVE SlabArenaInv'
  BY <1>1, <1>5, EasyOK, HardNewChunkOK, CarveOK DEF InCall, Quiet
<1> QED
  BY <1>2, <1>3, <1>4, <1>5 DEF Next

(***************************************************************************)
(* Every state of the arena satisfies the inductive invariant: what a      *)
(* thread has read under arena->lock stays true until it writes, because   *)
(* every write to chunks, sregions and the pool happens under that lock.   *)
(***************************************************************************)
THEOREM SlabArenaInvariant == Spec => []SlabArenaInv
<1>1. Init => SlabArenaInv
  BY InitOK
<1>2. SlabArenaInv /\ [Next]_vars => SlabArenaInv'
  BY NextOK
<1> QED
  BY <1>1, <1>2, PTL DEF Spec

(***************************************************************************)
(* The state of the small path has its type, for every number of threads.  *)
(***************************************************************************)
THEOREM TypeCorrect == Spec => []TypeOK
<1>1. SlabArenaInv => TypeOK
  BY DEF SlabArenaInv
<1> QED
  BY <1>1, SlabArenaInvariant, PTL

(***************************************************************************)
(* arena_malloc_small returns memory that nothing else uses: two slabs     *)
(* never share a byte, and none covers a chunk's or an sregion's header.   *)
(***************************************************************************)
THEOREM SlabsAreApart == Spec => []NoOverlap
<1>1. SlabArenaInv => NoOverlap
  <2> SUFFICES ASSUME SlabArenaInv PROVE NoOverlap
    OBVIOUS
  <2> DEFINE n == Len(slabs)
             m == Len(sregions)
  <2>0. TypeOK /\ ChunksInv /\ SregionsInv /\ SlabsInv
    BY DEF SlabArenaInv
  <2>1. ASSUME NEW i \in 1 .. n
        PROVE  /\ slabs[i].sr \in 1 .. m
               /\ slabs[i].at \in Nat /\ SlabEnd(i) \in Nat
               /\ sregions[slabs[i].sr].paddr + PsregionSize <= slabs[i].at
               /\ SlabEnd(i) <= SregionEnd(slabs[i].sr)
    <3>1. slabs[i] \in SlabRec
      BY <2>0, ElementOfSeq DEF TypeOK
    <3>2. slabs[i].at \in Nat /\ SlabEnd(i) \in Nat
      BY <3>1, HeaderSizes DEF SlabRec, SlabEnd
    <3>3. /\ slabs[i].sr \in 1 .. m
          /\ sregions[slabs[i].sr].paddr + PsregionSize <= slabs[i].at
          /\ SlabEnd(i) <= sregions[slabs[i].sr].ptail
      BY <2>0 DEF SlabsInv
    <3> DEFINE r == slabs[i].sr
    <3>4. sregions[r] \in SregionRec
      BY <3>3, <2>0, ElementOfSeq DEF TypeOK
    <3>5. sregions[r].ptail \in Nat /\ SregionEnd(r) \in Nat
      BY <3>4, HeaderSizes DEF SregionRec, SregionEnd
    <3>6. sregions[r].ptail <= SregionEnd(r)
      BY <3>3, <2>0 DEF SregionsInv
    <3> HIDE DEF r
    <3>7. SlabEnd(i) <= SregionEnd(r)
      BY <3>2, <3>3, <3>5, <3>6 DEF r
    <3> QED
      BY <3>2, <3>3, <3>7 DEF r
  <2>2. ASSUME NEW s \in 1 .. m
        PROVE  /\ sregions[s].ch \in 1 .. Len(chunks)
               /\ sregions[s].paddr \in Nat /\ SregionEnd(s) \in Nat
               /\ PchunkSize <= sregions[s].paddr
               /\ sregions[s].paddr + PsregionSize <= SregionEnd(s)
    <3>1. sregions[s] \in SregionRec
      BY <2>0, ElementOfSeq DEF TypeOK
    <3>2. PsregionSize <= SregionSize
      BY HeaderSizes
    <3>3. sregions[s].paddr \in Nat
      BY <3>1 DEF SregionRec
    <3> QED
      BY <3>2, <3>3, <2>0, HeaderSizes DEF SregionsInv, SregionEnd
  <2>3. ASSUME NEW s \in 1 .. m, NEW r \in 1 .. m, s # r
        PROVE  \/ SregionBase(s) # SregionBase(r)
               \/ SregionEnd(s) <= sregions[r].paddr
               \/ SregionEnd(r) <= sregions[s].paddr
    <3>1. sregions[s].ch = sregions[r].ch =>
            \/ SregionEnd(s) <= sregions[r].paddr
            \/ SregionEnd(r) <= sregions[s].paddr
      BY <2>0, <2>3 DEF SregionsInv
    <3>2. sregions[s].ch # sregions[r].ch => SregionBase(s) # SregionBase(r)
      BY <2>0, <2>2 DEF ChunksInv, SregionBase
    <3> QED
      BY <3>1, <3>2
  <2>4. ASSUME NEW i \in 1 .. n, NEW j \in 1 .. n, i # j
        PROVE  Apart(SlabBase(i), slabs[i].at, SlabEnd(i),
                     SlabBase(j), slabs[j].at, SlabEnd(j))
    <3>1. CASE slabs[i].sr = slabs[j].sr
      BY <3>1, <2>4, <2>0 DEF SlabsInv, Apart
    <3>2. CASE slabs[i].sr # slabs[j].sr
      <4> DEFINE s == slabs[i].sr
                 r == slabs[j].sr
      <4>1. s \in 1 .. m /\ r \in 1 .. m /\ s # r
        BY <3>2, <2>1
      <4>2. /\ sregions[s].paddr \in Nat /\ sregions[r].paddr \in Nat
            /\ SregionEnd(s) \in Nat /\ SregionEnd(r) \in Nat
            /\ slabs[i].at \in Nat /\ slabs[j].at \in Nat
            /\ SlabEnd(i) \in Nat /\ SlabEnd(j) \in Nat
            /\ sregions[s].paddr + PsregionSize <= slabs[i].at
            /\ sregions[r].paddr + PsregionSize <= slabs[j].at
            /\ SlabEnd(i) <= SregionEnd(s) /\ SlabEnd(j) <= SregionEnd(r)
        BY <4>1, <2>1, <2>2
      <4>3. \/ SregionBase(s) # SregionBase(r)
            \/ SregionEnd(s) <= sregions[r].paddr
            \/ SregionEnd(r) <= sregions[s].paddr
        BY <4>1, <2>3
      <4>4. SlabBase(i) = SregionBase(s) /\ SlabBase(j) = SregionBase(r)
        BY DEF SlabBase
      <4>5. PsregionSize \in Nat
        BY HeaderSizes
      <4> HIDE DEF s, r
      <4>6. CASE SregionEnd(s) <= sregions[r].paddr
        <5>1. SlabEnd(i) <= slabs[j].at
          BY <4>2, <4>5, <4>6, SMTT(30)
        <5> QED
          BY <5>1 DEF Apart
      <4>7. CASE SregionEnd(r) <= sregions[s].paddr
        <5>1. SlabEnd(j) <= slabs[i].at
          BY <4>2, <4>5, <4>7, SMTT(30)
        <5> QED
          BY <5>1 DEF Apart
      <4> QED
        BY <4>3, <4>4, <4>6, <4>7 DEF Apart
    <3> QED
      BY <3>1, <3>2
  <2>5. ASSUME NEW i \in 1 .. n, NEW s \in 1 .. m
        PROVE  Apart(SlabBase(i), slabs[i].at, SlabEnd(i), SregionBase(s),
                     sregions[s].paddr, sregions[s].paddr + PsregionSize)
    <3> DEFINE r == slabs[i].sr
    <3>1. r \in 1 .. m
      BY <2>1
    <3>2. /\ sregions[s].paddr \in Nat /\ sregions[r].paddr \in Nat
          /\ SregionEnd(s) \in Nat /\ SregionEnd(r) \in Nat
          /\ slabs[i].at \in Nat /\ SlabEnd(i) \in Nat
          /\ sregions[r].paddr + PsregionSize <= slabs[i].at
          /\ SlabEnd(i) <= SregionEnd(r)
          /\ sregions[s].paddr + PsregionSize <= SregionEnd(s)
      BY <3>1, <2>1, <2>2
    <3>3. SlabBase(i) = SregionBase(r)
      BY DEF SlabBase
    <3>4. s = r \/ \/ SregionBase(s) # SregionBase(r)
                   \/ SregionEnd(s) <= sregions[r].paddr
                   \/ SregionEnd(r) <= sregions[s].paddr
      BY <3>1, <2>3
    <3>5. PsregionSize \in Nat
      BY HeaderSizes
    <3> HIDE DEF r
    <3>6. CASE SregionEnd(s) <= sregions[r].paddr
      <4>1. sregions[s].paddr + PsregionSize <= slabs[i].at
        <5>1. sregions[s].paddr + PsregionSize <= sregions[r].paddr
          BY <3>2, <3>5, <3>6
        <5>2. sregions[r].paddr <= slabs[i].at
          BY <3>2, <3>5, SMTT(30)
        <5> QED
          BY <5>1, <5>2, <3>2, <3>5, SMTT(30)
      <4> QED
        BY <4>1 DEF Apart
    <3>7. CASE s = r \/ SregionEnd(r) <= sregions[s].paddr
      <4>1. \/ sregions[s].paddr + PsregionSize <= slabs[i].at
            \/ SlabEnd(i) <= sregions[s].paddr
        BY <3>2, <3>5, <3>7
      <4> QED
        BY <4>1 DEF Apart
    <3> QED
      BY <3>3, <3>4, <3>6, <3>7 DEF Apart
  <2>6. ASSUME NEW i \in 1 .. n
        PROVE  slabs[i].at >= PchunkSize
    <3> DEFINE r == slabs[i].sr
    <3>1. /\ sregions[r].paddr \in Nat /\ slabs[i].at \in Nat
          /\ PchunkSize <= sregions[r].paddr
          /\ sregions[r].paddr + PsregionSize <= slabs[i].at
      BY <2>1, <2>2
    <3> HIDE DEF r
    <3> QED
      BY <3>1, HeaderSizes
  <2> QED
    BY <2>4, <2>5, <2>6 DEF NoOverlap
<1> QED
  BY <1>1, SlabArenaInvariant, PTL

(***************************************************************************)
(* arena_malloc_small returns memory of the chunk and as much as was asked *)
(* for: a slab ends inside its chunk and its data holds the request.       *)
(***************************************************************************)
THEOREM SlabsAreLongEnough == Spec => []SlabsHoldRequests
<1>1. SlabArenaInv => SlabsHoldRequests
  <2> SUFFICES ASSUME SlabArenaInv, NEW i \in 1 .. Len(slabs)
               PROVE  SlabEnd(i) <= ChunkSize /\ slabs[i].size >= slabs[i].req
    BY DEF SlabsHoldRequests
  <2> DEFINE s == slabs[i].sr
             c == sregions[s].ch
  <2>0. TypeOK /\ ChunksInv /\ SregionsInv /\ SlabsInv
    BY DEF SlabArenaInv
  <2>1. slabs[i] \in SlabRec
    BY <2>0, ElementOfSeq DEF TypeOK
  <2>2. /\ slabs[i].req \in Nat /\ slabs[i].size \in Nat /\ SlabEnd(i) \in Nat
    BY <2>1, HeaderSizes DEF SlabRec, SlabEnd
  <2>3. /\ s \in 1 .. Len(sregions) /\ SlabEnd(i) <= sregions[s].ptail
        /\ slabs[i].req <= slabs[i].size
    BY <2>0 DEF SlabsInv
  <2>4. sregions[s] \in SregionRec
    BY <2>0, <2>3, ElementOfSeq DEF TypeOK
  <2>5. sregions[s].ptail \in Nat /\ SregionEnd(s) \in Nat
    <3>1. sregions[s].ptail \in Nat /\ sregions[s].paddr \in Nat
      BY <2>4 DEF SregionRec
    <3> QED
      BY <3>1, HeaderSizes DEF SregionEnd
  <2>6. /\ c \in 1 .. Len(chunks) /\ sregions[s].ptail <= SregionEnd(s)
        /\ SregionEnd(s) <= chunks[c].tail
    BY <2>0, <2>3 DEF SregionsInv
  <2>7. chunks[c] \in ChunkRec
    BY <2>0, <2>6, ElementOfSeq DEF TypeOK
  <2>8. chunks[c].tail \in Nat /\ chunks[c].availsize \in Int
    BY <2>7 DEF ChunkRec
  <2>9. chunks[c].tail + chunks[c].availsize = ChunkSize /\ 0 <= chunks[c].availsize
    BY <2>0, <2>6 DEF ChunksInv
  <2>a. ChunkSize \in Nat
    BY HeaderSizes
  <2> HIDE DEF s, c
  <2>b. SlabEnd(i) <= chunks[c].tail
    BY <2>2, <2>3, <2>5, <2>6, <2>8
  <2>c. chunks[c].tail <= ChunkSize
    BY <2>8, <2>9, <2>a
  <2> QED
    BY <2>2, <2>3, <2>8, <2>a, <2>b, <2>c
<1> QED
  BY <1>1, SlabArenaInvariant, PTL
(***************************************************************************)
(* What an empty queue adds to the invariant: chunk_used counts the chunks *)
(* the arena holds, and chunk_tot those of the pools mapped so far, so     *)
(* that the usage figure is 0 or 1 whenever maybe_gc looks at it.          *)
(***************************************************************************)
UsageInv == /\ IsFiniteSet(Held)
            /\ pool.chunk_used = Cardinality(Held)
            /\ pool.chunk_tot = pool.nfiles * PoolChunks
            /\ gcq = <<>>

LEMMA InitUsageOK == Init => UsageInv
<1> SUFFICES ASSUME Init PROVE UsageInv
  OBVIOUS
<1>1. Held = {}
  BY DEF Init, Held
<1>2. IsFiniteSet(Held) /\ Cardinality(Held) = 0
  BY <1>1, FS_EmptySet
<1>3. pool.nfiles = 1 /\ pool.chunk_tot = PoolChunks /\ pool.chunk_used = 0
  BY PoolChunksAssumption DEF Init, PmempoolCreate, PmempoolCreateOne
<1>4. pool.chunk_tot = pool.nfiles * PoolChunks
  BY <1>3, PoolChunksAssumption
<1> QED
  BY <1>2, <1>3, <1>4 DEF UsageInv, Init

\* A chunk is allocated: one more is held, and the usage figure does not
\* reach a threshold.
LEMMA HardNewChunkUsageOK ==
  ASSUME NEW t \in Threads, SlabArenaInv, UsageInv, HardNewChunk(t)
  PROVE  UsageInv'
<1> DEFINE c == ChunkAllocAddr(pool)
<1>0. PoolOK(pool, Held) /\ TypeOK
  BY DEF SlabArenaInv
<1>1. pool' = ChunkAllocPool(pool) /\ MaybeGc(pool')
  BY DEF HardNewChunk
<1>2. c \notin Held /\ PoolOK(pool', Held \cup {c})
  BY <1>0, <1>1, ChunkAllocOK
<1>3. Held' = Held \cup {c}
  BY <1>0, HeldGrows
<1>4. IsFiniteSet(Held') /\ Cardinality(Held') = Cardinality(Held) + 1
  BY <1>2, <1>3, FS_AddElement DEF UsageInv
<1>5. /\ pool'.chunk_used = pool.chunk_used + 1
      /\ pool'.nfiles = pool.nfiles + (IF Exhausted(pool) THEN 1 ELSE 0)
      /\ pool'.chunk_tot =
           pool.chunk_tot + (IF Exhausted(pool) THEN PoolChunks ELSE 0)
  BY <1>0, <1>1, RefillOK DEF ChunkAllocPool
<1>6. pool'.chunk_used = Cardinality(Held')
  BY <1>4, <1>5 DEF UsageInv
<1>7. pool'.chunk_tot = pool'.nfiles * PoolChunks
  <2>1. pool.nfiles \in Nat /\ PoolChunks \in Nat
    BY <1>0, PoolChunksAssumption DEF PoolOK, PoolType
  <2>2. CASE Exhausted(pool)
    BY <2>1, <2>2, <1>5 DEF UsageInv
  <2>3. CASE ~Exhausted(pool)
    BY <2>1, <2>3, <1>5 DEF UsageInv
  <2> QED
    BY <2>2, <2>3
<1>8. PmempoolUsedpct(pool') \in {0, 1}
  <2> HIDE DEF c
  <2>1. Held' # {} /\ PoolOK(pool', Held')
    BY <1>2, <1>3
  <2> QED
    BY <2>1, <1>4, <1>6, <1>7, UsedpctOK
<1>9. gcq' = <<>>
  <2>1. ~(PmempoolUsedpct(pool') >= 70) /\ ~(PmempoolUsedpct(pool') >= 90)
    BY <1>8
  <2>2. gcq' = gcq \o <<>> \o <<>>
    BY <1>1, <2>1, Zenon DEF MaybeGc
  <2> QED
    BY <2>2 DEF UsageInv
<1> QED
  BY <1>4, <1>6, <1>7, <1>9 DEF UsageInv

\* Every step keeps the counters right: no other step touches the pool, the
\* addresses of the chunks or the queue of collections.
LEMMA NextUsageOK == SlabArenaInv /\ UsageInv /\ [Next]_vars => UsageInv'
<1> SUFFICES ASSUME SlabArenaInv, UsageInv, [Next]_vars PROVE UsageInv'
  OBVIOUS
<1>1. ASSUME UNCHANGED <<pool, gcq>>, Held' = Held
      PROVE  UsageInv'
  BY <1>1 DEF UsageInv
<1>2. ASSUME UNCHANGED <<pool, gcq, chunks>>
      PROVE  UsageInv'
  BY <1>1, <1>2 DEF Held
<1>3. ASSUME NEW t \in Threads, Quiet(t)
      PROVE  UsageInv'
  BY <1>2, <1>3 DEF Quiet, Malloc, Lock, LookupEasy, LookupHard, HardSameChunk,
                    HardExit, Unlock, mem
<1>4. ASSUME NEW t \in Threads, Easy(t)
      PROVE  UsageInv'
  BY <1>2, <1>4 DEF Easy
<1>5. ASSUME NEW t \in Threads, HardNewChunk(t)
      PROVE  UsageInv'
  BY <1>5, HardNewChunkUsageOK
<1>6. ASSUME NEW t \in Threads, Carve(t)
      PROVE  UsageInv'
  <2>1. UNCHANGED <<pool, gcq>>
    BY <1>6 DEF Carve
  <2>2. Held' = Held
    BY <1>6, CarveKeepsHeld DEF SlabArenaInv
  <2> QED
    BY <2>1, <2>2, <1>1
<1>7. ASSUME NEW t \in Threads, FreeSome(t)
      PROVE  UsageInv'
  BY <1>2, <1>7 DEF FreeSome, Free
<1>8. CASE Exited \/ UNCHANGED vars
  BY <1>2, <1>8 DEF Exited, vars, mem
<1> QED
  BY <1>3, <1>4, <1>5, <1>6, <1>7, <1>8 DEF Next, InCall, Quiet

(***************************************************************************)
(* The small path never starts a collection, however large the pool is,    *)
(* however many pools the device takes and however full they are: the      *)
(* usage figure divides integers and is 0 or 1 (src/src/pool.c:151), where *)
(* maybe_gc compares it with 70 and 90 and prints it as a percentage       *)
(* (src/src/gc.c:218-226).  That is a departure of the code from what it   *)
(* says; the theorem is the reason for modelling no collection.            *)
(***************************************************************************)
THEOREM NoCollectionIsQueued == Spec => [](gcq = <<>>)
<1>1. UsageInv => gcq = <<>>
  BY DEF UsageInv
<1> QED
  BY <1>1, InitUsageOK, NextUsageOK, SlabArenaInvariant, PTL DEF Spec
(***************************************************************************)
(* What SpaceNotAbandoned adds to the invariant: on the hard path the      *)
(* class's current sregion still has no room.  It held when the thread     *)
(* looked, and the lock keeps every other thread from changing it.         *)
(***************************************************************************)
NoRoom(t) == avail_sregion[Cls(t)] # 0 => ~Fits(avail_sregion[Cls(t)], Size(t))

RoomInv == \A t \in Threads : pc[t] \in {"hard", "carve"} => NoRoom(t)

LEMMA NextRoomOK == SlabArenaInv /\ RoomInv /\ [Next]_vars => RoomInv'
<1> SUFFICES ASSUME SlabArenaInv, RoomInv, [Next]_vars,
                    NEW u \in Threads, pc'[u] \in {"hard", "carve"}
             PROVE  NoRoom(u)'
  BY DEF RoomInv
<1>0. LockInv /\ pc \in [Threads -> CallPoints] /\ req \in [Threads -> Nat]
  BY DEF SlabArenaInv, TypeOK
<1>1. ASSUME UNCHANGED <<sregions, avail_sregion>>, req'[u] = req[u], NoRoom(u)
      PROVE  NoRoom(u)'
  BY <1>1 DEF NoRoom, Fits, Size, Cls
<1>2. ASSUME UNCHANGED <<sregions, avail_sregion>>, req'[u] = req[u], pc'[u] = pc[u]
      PROVE  NoRoom(u)'
  BY <1>1, <1>2 DEF RoomInv
<1>3. ASSUME NEW t \in Threads, Malloc(t) \/ Lock(t) \/ LookupEasy(t) \/ Unlock(t)
      PROVE  NoRoom(u)'
  <2>1. u # t /\ pc'[u] = pc[u] /\ req'[u] = req[u]
    BY <1>3, <1>0 DEF Malloc, Lock, LookupEasy, Unlock, Go
  <2>2. UNCHANGED <<sregions, avail_sregion>>
    BY <1>3 DEF Malloc, Lock, LookupEasy, Unlock, mem
  <2> QED
    BY <2>1, <2>2, <1>2
<1>4. ASSUME NEW t \in Threads, LookupHard(t)
      PROVE  NoRoom(u)'
  <2>1. UNCHANGED <<sregions, avail_sregion, req>>
    BY <1>4 DEF LookupHard, mem
  <2>2. CASE u = t
    <3>1. NoRoom(u)
      BY <1>4, <2>2 DEF LookupHard, NoRoom
    <3> QED
      BY <2>1, <3>1, <1>1
  <2>3. CASE u # t
    <3>1. pc'[u] = pc[u]
      BY <1>4, <2>3, <1>0 DEF LookupHard, Go
    <3> QED
      BY <2>1, <3>1, <1>2
  <2> QED
    BY <2>2, <2>3
<1>5. ASSUME NEW t \in Threads, HardSameChunk(t) \/ HardNewChunk(t)
      PROVE  NoRoom(u)'
  <2>1. UNCHANGED <<sregions, avail_sregion, req>>
    BY <1>5 DEF HardSameChunk, HardNewChunk, mem
  <2>2. pc[u] \in {"hard", "carve"}
    BY <1>5, <1>0 DEF HardSameChunk, HardNewChunk, Go
  <2> QED
    BY <2>1, <2>2, <1>1 DEF RoomInv
<1>6. ASSUME NEW t \in Threads, Easy(t) \/ Carve(t)
      PROVE  NoRoom(u)'
  <2>1. pc[t] \in {"easy", "carve"} /\ pc' = [pc EXCEPT ![t] = "unlock"]
    BY <1>6 DEF Easy, Carve, Go
  <2>2. u # t /\ pc[u] \in {"hard", "carve"}
    BY <2>1, <1>0
  <2>3. lock = t /\ lock = u
    BY <2>1, <2>2, <1>0 DEF LockInv, InCritical
  <2> QED
    BY <2>2, <2>3
<1>7. ASSUME NEW t \in Threads, HardExit(t) \/ FreeSome(t)
      PROVE  NoRoom(u)'
  BY <1>2, <1>7 DEF HardExit, FreeSome, Free, mem
<1>8. CASE Exited \/ UNCHANGED vars
  BY <1>2, <1>8 DEF Exited, vars, mem
<1> QED
  BY <1>3, <1>4, <1>5, <1>6, <1>7, <1>8 DEF Next, InCall

(***************************************************************************)
(* arena_malloc_small wastes nothing it could use: a class leaves its      *)
(* sregion only when no slab fits any more, and the first chunk stops      *)
(* being the first only when no sregion does.                              *)
(***************************************************************************)
THEOREM NoSpaceIsAbandoned == Spec => SpaceNotAbandoned
<1> DEFINE GivesUp ==
             /\ \A c \in Classes :
                  avail_sregion'[c] # avail_sregion[c] /\ avail_sregion[c] # 0 =>
                    ~Fits(avail_sregion[c], SizeClass[c])
             /\ avail_schunks' # avail_schunks /\ avail_schunks # <<>> =>
                  chunks[Head(avail_schunks)].availsize < SregionSize
<1>1. Init => RoomInv
  BY DEF Init, RoomInv
<1>2. SlabArenaInv /\ RoomInv /\ [Next]_vars => [GivesUp]_vars
  <2> SUFFICES ASSUME SlabArenaInv, RoomInv, Next PROVE GivesUp
    OBVIOUS
  <2>1. ASSUME UNCHANGED <<avail_sregion, avail_schunks>>
        PROVE  GivesUp
    BY <2>1
  <2>2. ASSUME NEW t \in Threads, Quiet(t) \/ Easy(t) \/ FreeSome(t)
        PROVE  GivesUp
    <3> HIDE DEF GivesUp
    <3> QED
      BY <2>1, <2>2 DEF Quiet, Malloc, Lock, LookupEasy, LookupHard, HardSameChunk,
                        HardExit, Unlock, Easy, FreeSome, Free, mem
  <2>3. ASSUME NEW t \in Threads, HardNewChunk(t)
        PROVE  GivesUp
    BY <2>3 DEF HardNewChunk, NeedsChunk
  <2>4. ASSUME NEW t \in Threads, Carve(t)
        PROVE  GivesUp
    <3>1. /\ pc[t] = "carve" /\ avail_schunks' = avail_schunks
          /\ avail_sregion' = [avail_sregion EXCEPT ![Cls(t)] = Len(sregions) + 1]
      BY <2>4 DEF Carve, Go
    <3>2. avail_sregion \in [Classes -> 0 .. Len(sregions)]
      BY DEF SlabArenaInv, TypeOK
    <3>3. ASSUME NEW c \in Classes, avail_sregion'[c] # avail_sregion[c],
                 avail_sregion[c] # 0
          PROVE  ~Fits(avail_sregion[c], SizeClass[c])
      <4>1. c = Cls(t)
        BY <3>1, <3>2, <3>3
      <4> QED
        BY <4>1, <3>1, <3>3 DEF RoomInv, NoRoom, Size
    <3> QED
      BY <3>1, <3>3
  <2>5. CASE Exited
    <3> HIDE DEF GivesUp
    <3> QED
      BY <2>1, <2>5 DEF Exited, vars, mem
  <2> HIDE DEF GivesUp
  <2> QED
    BY <2>2, <2>3, <2>4, <2>5 DEF Next, InCall, Quiet
<1> QED
  BY <1>1, <1>2, NextRoomOK, SlabArenaInvariant, PTL DEF Spec, SpaceNotAbandoned

-----------------------------------------------------------------------------
(***************************************************************************)
(* The small path of an arena implements BlockStore: writing a slab's      *)
(* header (Easy, Carve) is the moment the call is served, Malloc and       *)
(* Unlock are its beginning and its return, and all other steps leave the  *)
(* blocks as they are.                                                     *)
(***************************************************************************)

\* Between its calls a thread asks for nothing.
IdleInv == \A t \in Threads : pc[t] = "idle" => req[t] = 0

LEMMA NextIdleOK == SlabArenaInv /\ IdleInv /\ [Next]_vars => IdleInv'
<1> SUFFICES ASSUME SlabArenaInv, IdleInv, [Next]_vars PROVE IdleInv'
  OBVIOUS
<1>0. pc \in [Threads -> CallPoints] /\ req \in [Threads -> Nat]
  BY DEF SlabArenaInv, TypeOK
<1>1. ASSUME UNCHANGED <<pc, req>> PROVE IdleInv'
  BY <1>1 DEF IdleInv
<1>2. ASSUME NEW t \in Threads, NEW to, to # "idle",
             pc' = [pc EXCEPT ![t] = to], req' = req
      PROVE  IdleInv'
  BY <1>0, <1>2 DEF IdleInv
<1>3. ASSUME NEW t \in Threads, Malloc(t) PROVE IdleInv'
  <2>1. PICK size \in Requests : req' = [req EXCEPT ![t] = size]
    BY <1>3 DEF Malloc
  <2>2. pc' = [pc EXCEPT ![t] = "lock"]
    BY <1>3 DEF Malloc, Go
  <2> QED
    BY <1>0, <2>1, <2>2 DEF IdleInv
<1>4. ASSUME NEW t \in Threads, Unlock(t) PROVE IdleInv'
  <2>1. pc' = [pc EXCEPT ![t] = "idle"] /\ req' = [req EXCEPT ![t] = 0]
    BY <1>4 DEF Unlock, Go
  <2> QED
    BY <1>0, <2>1 DEF IdleInv
<1>5. ASSUME NEW t \in Threads, Lock(t) \/ LookupEasy(t) \/ LookupHard(t) \/ Easy(t)
                               \/ HardSameChunk(t) \/ HardNewChunk(t) \/ Carve(t)
      PROVE  IdleInv'
  <2>1. PICK to \in {"lookup", "easy", "hard", "carve", "unlock"} :
          pc' = [pc EXCEPT ![t] = to] /\ req' = req
    BY <1>5 DEF Lock, LookupEasy, LookupHard, Easy, HardSameChunk, HardNewChunk,
                Carve, Go
  <2> QED
    BY <1>2, <2>1
<1>6. ASSUME NEW t \in Threads, HardExit(t) \/ FreeSome(t) PROVE IdleInv'
  BY <1>1, <1>6 DEF HardExit, FreeSome, Free
<1>7. CASE Exited \/ UNCHANGED vars
  BY <1>1, <1>7 DEF Exited, vars
<1> QED
  BY <1>3, <1>4, <1>5, <1>6, <1>7 DEF Next, InCall

-----------------------------------------------------------------------------
LEMMA Types ==
  ASSUME TypeOK
  PROVE  /\ pc \in [Threads -> CallPoints] /\ req \in [Threads -> Nat]
         /\ slabs \in Seq(SlabRec) /\ Len(slabs) \in Nat
         /\ sregions \in Seq(SregionRec) /\ Len(sregions) \in Nat
         /\ chunks \in Seq(ChunkRec) /\ Len(chunks) \in Nat
<1>1. /\ pc \in [Threads -> CallPoints] /\ req \in [Threads -> Nat]
      /\ slabs \in Seq(SlabRec) /\ sregions \in Seq(SregionRec)
      /\ chunks \in Seq(ChunkRec)
  BY DEF TypeOK
<1> QED
  BY <1>1

\* What a block is made of stays: slabs, sregions and chunks only grow, and
\* where they lie is never changed.
Anchored ==
  /\ Len(slabs) <= Len(slabs')
  /\ \A i \in 1 .. Len(slabs) : /\ slabs'[i].sr = slabs[i].sr
                                /\ slabs'[i].at = slabs[i].at
                                /\ slabs'[i].size = slabs[i].size
  /\ \A s \in 1 .. Len(sregions) : sregions'[s].ch = sregions[s].ch
  /\ \A c \in 1 .. Len(chunks) : chunks'[c].paddr = chunks[c].paddr

LEMMA BlocksStay ==
  ASSUME SlabArenaInv, Anchored, NEW i \in 1 .. Len(slabs)
  PROVE  Block(i)' = Block(i)
<1>1. slabs[i].sr \in 1 .. Len(sregions)
  BY DEF SlabArenaInv, SlabsInv
<1>2. sregions[slabs[i].sr].ch \in 1 .. Len(chunks)
  BY <1>1 DEF SlabArenaInv, SregionsInv
<1>3. SlabBase(i)' = SlabBase(i)
  BY <1>1, <1>2 DEF Anchored, SlabBase, SregionBase
<1>4. SlabEnd(i)' = SlabEnd(i) /\ slabs'[i].at = slabs[i].at
  BY DEF Anchored, SlabEnd
<1> QED
  BY <1>3, <1>4 DEF Block

LEMMA NoBlockComesOrGoes ==
  ASSUME SlabArenaInv, Anchored, Len(slabs') = Len(slabs)
  PROVE  Blocks' = Blocks
BY BlocksStay DEF Blocks

LEMMA BlockServed ==
  ASSUME SlabArenaInv, SlabArenaInv', NoOverlap', Anchored,
         NEW t \in Threads, req[t] \in Requests,
         Len(slabs') = Len(slabs) + 1, slabs'[Len(slabs')].size >= req[t],
         pc[t] # "unlock", pc' = [pc EXCEPT ![t] = "unlock"], req' = req
  PROVE  Store!Serve(t)
<1>n. PICK n \in Nat : n = Len(slabs)
  BY DEF SlabArenaInv, TypeOK
<1> DEFINE b == Block(n + 1)'
<1>0. /\ Len(slabs) = n /\ Len(slabs') = n + 1 /\ slabs' \in Seq(SlabRec)
      /\ pc \in [Threads -> CallPoints]
  BY <1>n DEF SlabArenaInv, TypeOK
<1>1. Blocks' = {Block(i)' : i \in 1 .. n + 1}
  BY <1>0 DEF Blocks
<1>2. Blocks' = Blocks \cup {b}
  <2>1. \A i \in 1 .. n : Block(i)' = Block(i)
    BY <1>0, BlocksStay
  <2>2. 1 .. n + 1 = (1 .. n) \cup {n + 1}
    BY <1>0
  <2>3. Blocks = {Block(i) : i \in 1 .. n}
    BY <1>0 DEF Blocks
  <2> QED
    BY <1>1, <2>1, <2>2, <2>3
<1>3. slabs'[n + 1] \in SlabRec
  BY <1>0, ElementOfSeq
<1>4. /\ b.base = SlabBase(n + 1)' /\ b.header = slabs'[n + 1].at
      /\ b.data = slabs'[n + 1].at + PslabSize
      /\ b.end = slabs'[n + 1].at + PslabSize + slabs'[n + 1].size
  BY DEF Block, SlabEnd
<1>5. /\ slabs'[n + 1].at \in Nat /\ slabs'[n + 1].size \in Nat
      /\ PslabSize \in Nat \ {0} /\ req[t] \in Nat \ {0}
  <2>1. slabs'[n + 1].at \in Nat /\ slabs'[n + 1].size \in Nat
    BY <1>3 DEF SlabRec
  <2>2. PslabSize \in Nat \ {0}
    BY HeaderSizes
  <2>3. req[t] \in Nat \ {0}
    <3>1. Len(SizeClass) \in Classes
      BY LayoutFacts DEF Classes
    <3>2. SizeClass[Len(SizeClass)] \in Nat
      BY <3>1, LayoutFacts
    <3> QED
      BY <3>2, SMTT(30) DEF Requests
  <2> QED
    BY <2>1, <2>2, <2>3
<1>6. b.end - b.data >= req[t] /\ b.header < b.data /\ b.header < b.end
  <2> HIDE DEF b
  <2> QED
    BY <1>0, <1>4, <1>5
<1>7. \A d \in Blocks : Store!Apart(b, d)
  <2> SUFFICES ASSUME NEW i \in 1 .. n PROVE Store!Apart(b, Block(i))
    BY <1>0 DEF Blocks
  <2>1. Apart(SlabBase(n + 1)', slabs'[n + 1].at, SlabEnd(n + 1)',
              SlabBase(i)', slabs'[i].at, SlabEnd(i)')
    <3>1. n + 1 \in 1 .. Len(slabs') /\ i \in 1 .. Len(slabs') /\ n + 1 # i
      BY <1>0
    <3> QED
      BY <3>1 DEF NoOverlap
  <2>2. Block(i) = Block(i)'
    BY <1>0, BlocksStay
  <2>3. /\ Block(i).base = SlabBase(i)' /\ Block(i).header = slabs'[i].at
        /\ Block(i).end = SlabEnd(i)'
    BY <2>2 DEF Block
  <2>4. b.end = SlabEnd(n + 1)'
    BY DEF Block
  <2> QED
    BY <2>1, <2>3, <2>4, <1>4 DEF Apart, Store!Apart
<1>8. b \notin Blocks
  <2> SUFFICES ASSUME b \in Blocks PROVE FALSE
    OBVIOUS
  <2>1. b.end <= b.header
    BY <1>7 DEF Store!Apart
  <2>2. b.header \in Nat /\ b.end \in Nat
    BY <1>4, <1>5, SMTT(30)
  <2> HIDE DEF b
  <2> QED
    BY <2>1, <2>2, <1>6
<1>9. /\ ~Serving[t]
      /\ Serving' = [Serving EXCEPT ![t] = TRUE]
  <2>1. ~Serving[t]
    BY DEF Serving
  <2>2. \A u \in Threads : Serving'[u] = (pc'[u] = "unlock")
    BY DEF Serving
  <2>3. \A u \in Threads : pc'[u] = IF u = t THEN "unlock" ELSE pc[u]
    BY <1>0
  <2>4. Serving' = [u \in Threads |-> pc'[u] = "unlock"]
    BY DEF Serving
  <2>5. Serving' = [u \in Threads |-> IF u = t THEN TRUE ELSE pc[u] = "unlock"]
    BY <2>3, <2>4, ZenonT(40)
  <2>6. [Serving EXCEPT ![t] = TRUE]
          = [u \in Threads |-> IF u = t THEN TRUE ELSE pc[u] = "unlock"]
    BY ZenonT(40) DEF Serving
  <2> QED
    BY <2>1, <2>5, <2>6
<1>10. b \in Blocks' \ Blocks
  BY <1>2, <1>8
<1> QED
  <2> HIDE DEF b
  <2>1. req[t] # 0
    BY <1>5
  <2> QED
    BY <2>1, <1>2, <1>6, <1>7, <1>9, <1>10 DEF Store!Serve

\* What NewSlab appends, and what it leaves.
LEMMA NewSlabAnchors ==
  ASSUME NEW t \in Threads, NEW s, NEW at, SlabArenaInv, req[t] \in Requests,
         NewSlab(t, s, at)
  PROVE  /\ Len(slabs') = Len(slabs) + 1 /\ Len(slabs) <= Len(slabs')
         /\ slabs'[Len(slabs')].size >= req[t]
         /\ \A i \in 1 .. Len(slabs) : slabs'[i] = slabs[i]
<1>1. slabs \in Seq(SlabRec) /\ Len(slabs) \in Nat
  BY DEF SlabArenaInv, TypeOK
<1>2. PICK new : slabs' = Append(slabs, new) /\ new.size = Size(t)
  BY DEF NewSlab
<1>3. Size(t) >= req[t]
  BY SizeOK DEF Requests
<1> QED
  BY <1>1, <1>2, <1>3

LEMMA ServingReset ==
  ASSUME NEW t \in Threads, pc \in [Threads -> CallPoints],
         pc[t] = "unlock", pc' = [pc EXCEPT ![t] = "idle"]
  PROVE  Serving[t] /\ Serving' = [Serving EXCEPT ![t] = FALSE]
<1>1. Serving[t]
  BY DEF Serving
<1>2. \A u \in Threads : (pc'[u] = "unlock") = IF u = t THEN FALSE ELSE pc[u] = "unlock"
  BY DEF CallPoints
<1>3. Serving' = [u \in Threads |-> IF u = t THEN FALSE ELSE pc[u] = "unlock"]
  BY <1>2, Zenon DEF Serving
<1>4. [Serving EXCEPT ![t] = FALSE]
        = [u \in Threads |-> IF u = t THEN FALSE ELSE pc[u] = "unlock"]
  BY Zenon DEF Serving
<1> QED
  BY <1>1, <1>3, <1>4

LEMMA EasyServes ==
  ASSUME NEW t \in Threads, SlabArenaInv, SlabArenaInv', NoOverlap', Easy(t)
  PROVE  Store!Serve(t)
<1>1. /\ pc[t] = "easy" /\ pc' = [pc EXCEPT ![t] = "unlock"]
      /\ NewSlab(t, sr[t], tail[t])
      /\ sregions' = [sregions EXCEPT ![sr[t]].ptail = tail[t] + PslabSize + Size(t)]
      /\ UNCHANGED <<req, chunks>>
  BY DEF Easy, Go
<1>2. req[t] \in Requests
  BY <1>1 DEF SlabArenaInv, LocalsInv
<1>3. /\ sregions \in Seq(SregionRec) /\ slabs \in Seq(SlabRec)
      /\ Len(sregions) \in Nat /\ Len(slabs) \in Nat
  BY Types DEF SlabArenaInv
<1>4. \A s \in 1 .. Len(sregions) : sregions'[s].ch = sregions[s].ch
  <2> SUFFICES ASSUME NEW s \in 1 .. Len(sregions)
               PROVE  sregions'[s].ch = sregions[s].ch
    OBVIOUS
  <2>1. sregions[s] \in SregionRec /\ s \in DOMAIN sregions
    BY <1>3, ElementOfSeq
  <2>2. sregions'[s] = IF s = sr[t]
                       THEN [sregions[s] EXCEPT !.ptail = tail[t] + PslabSize + Size(t)]
                       ELSE sregions[s]
    BY <1>1, <2>1
  <2> QED
    BY <2>1, <2>2 DEF SregionRec
<1> QED
  BY <1>1, <1>2, <1>3, <1>4, NewSlabAnchors, BlockServed DEF Anchored

LEMMA CarveServes ==
  ASSUME NEW t \in Threads, SlabArenaInv, SlabArenaInv', NoOverlap', Carve(t)
  PROVE  Store!Serve(t)
<1> DEFINE s == Len(sregions) + 1
           new == [ch |-> ch[t], paddr |-> tail[t], size |-> Size(t),
                   ptail |-> tail[t] + PsregionSize + PslabSize + Size(t)]
<1>1. /\ pc[t] = "carve" /\ pc' = [pc EXCEPT ![t] = "unlock"]
      /\ NewSlab(t, s, tail[t] + PsregionSize)
      /\ sregions' = Append(sregions, new)
      /\ chunks' = [chunks EXCEPT ![ch[t]].tail = tail[t] + SregionSize,
                                  ![ch[t]].availsize = @ - SregionSize]
      /\ req' = req
  BY DEF Carve, Go
<1>2. req[t] \in Requests
  BY <1>1 DEF SlabArenaInv, LocalsInv
<1>3. /\ sregions \in Seq(SregionRec) /\ Len(sregions) \in Nat
      /\ chunks \in Seq(ChunkRec) /\ Len(chunks) \in Nat
  BY Types DEF SlabArenaInv
<1>4. \A r \in 1 .. Len(sregions) : sregions'[r].ch = sregions[r].ch
  BY <1>1, <1>3
<1>5. \A c \in 1 .. Len(chunks) : chunks'[c].paddr = chunks[c].paddr
  <2> SUFFICES ASSUME NEW c \in 1 .. Len(chunks)
               PROVE  chunks'[c].paddr = chunks[c].paddr
    OBVIOUS
  <2>1. chunks[c] \in ChunkRec /\ c \in DOMAIN chunks
    BY <1>3, ElementOfSeq
  <2>2. chunks'[c] = IF c = ch[t]
                     THEN [chunks[c] EXCEPT !.tail = tail[t] + SregionSize,
                                            !.availsize = @ - SregionSize]
                     ELSE chunks[c]
    BY <1>1, <2>1
  <2> QED
    BY <2>1, <2>2 DEF ChunkRec
<1> QED
  BY <1>1, <1>2, <1>4, <1>5, NewSlabAnchors, BlockServed DEF Anchored

LEMMA StoreStep ==
  ASSUME SlabArenaInv, IdleInv, SlabArenaInv', NoOverlap', [Next]_vars
  PROVE  [Store!Next]_(Store!vars)
<1>0. /\ pc \in [Threads -> CallPoints] /\ req \in [Threads -> Nat]
      /\ slabs \in Seq(SlabRec) /\ sregions \in Seq(SregionRec)
      /\ chunks \in Seq(ChunkRec) /\ Len(chunks) \in Nat
  BY Types DEF SlabArenaInv
<1>q. ASSUME UNCHANGED <<req, Serving, Blocks>>
      PROVE  [Store!Next]_(Store!vars)
  BY <1>q DEF Store!vars
<1>b. ASSUME UNCHANGED <<slabs, sregions, chunks>>
      PROVE  Blocks' = Blocks
  <2>1. Anchored /\ Len(slabs') = Len(slabs)
    BY <1>b, <1>0 DEF Anchored
  <2> QED
    BY <2>1, NoBlockComesOrGoes
<1>s. ASSUME NEW t \in Threads, pc[t] # "unlock", NEW to, to # "unlock",
             pc' = [pc EXCEPT ![t] = to]
      PROVE  Serving' = Serving
  BY <1>s, <1>0, Zenon DEF Serving
<1>1. ASSUME NEW t \in Threads, Malloc(t) PROVE Store!Ask(t)
  <2>1. PICK size \in Requests : req' = [req EXCEPT ![t] = size]
    BY <1>1 DEF Malloc
  <2>2. pc[t] = "idle" /\ pc' = [pc EXCEPT ![t] = "lock"] /\ UNCHANGED mem
    BY <1>1 DEF Malloc, Go
  <2>3. req[t] = 0
    BY <2>2 DEF IdleInv
  <2>4. req'[t] = size /\ size \in Nat \ {0}
    BY <2>1, <1>0 DEF Requests
  <2>5. Serving' = Serving /\ Blocks' = Blocks
    BY <2>2, <1>s, <1>b DEF mem
  <2> QED
    BY <2>1, <2>3, <2>4, <2>5 DEF Store!Ask
<1>2. ASSUME NEW t \in Threads, Unlock(t) PROVE Store!Return(t)
  <2>1. /\ pc[t] = "unlock" /\ pc' = [pc EXCEPT ![t] = "idle"]
        /\ req' = [req EXCEPT ![t] = 0] /\ UNCHANGED mem
    BY <1>2 DEF Unlock, Go
  <2>2. Blocks' = Blocks
    BY <2>1, <1>b DEF mem
  <2>3. Serving[t] /\ Serving' = [Serving EXCEPT ![t] = FALSE]
    BY <2>1, <1>0, ServingReset
  <2> QED
    BY <2>1, <2>2, <2>3 DEF Store!Return
<1>3. ASSUME NEW t \in Threads, Lock(t) \/ LookupEasy(t) \/ LookupHard(t)
                               \/ HardSameChunk(t)
      PROVE  UNCHANGED <<req, Serving, Blocks>>
  <2>1. PICK to \in {"lookup", "easy", "hard", "carve"} :
          pc[t] # "unlock" /\ pc' = [pc EXCEPT ![t] = to]
    BY <1>3 DEF Lock, LookupEasy, LookupHard, HardSameChunk, Go
  <2>2. UNCHANGED <<req, slabs, sregions, chunks>>
    BY <1>3 DEF Lock, LookupEasy, LookupHard, HardSameChunk, mem
  <2> QED
    BY <2>1, <2>2, <1>s, <1>b
<1>4. ASSUME NEW t \in Threads, HardNewChunk(t)
      PROVE  UNCHANGED <<req, Serving, Blocks>>
  <2>1. /\ pc[t] # "unlock" /\ pc' = [pc EXCEPT ![t] = "carve"]
        /\ UNCHANGED <<req, slabs, sregions>>
    BY <1>4 DEF HardNewChunk, Go
  <2>2. PICK new : chunks' = Append(chunks, new)
    BY <1>4 DEF HardNewChunk
  <2>3. Anchored
    BY <2>1, <2>2, <1>0 DEF Anchored
  <2>4. Serving' = Serving
    BY <2>1, <1>s
  <2> QED
    BY <2>1, <2>3, <2>4, NoBlockComesOrGoes
<1>5. ASSUME NEW t \in Threads, NEW e \in 1 .. Len(slabs), Free(t, e)
      PROVE  UNCHANGED <<req, Serving, Blocks>>
  <2>1. /\ UNCHANGED <<pc, req, sregions, chunks>>
        /\ slabs' = slabs \/ slabs' = [slabs EXCEPT ![e].attr = "d"]
    BY <1>5 DEF Free
  <2>2. /\ Len(slabs') = Len(slabs)
        /\ \A i \in 1 .. Len(slabs) : /\ slabs'[i].sr = slabs[i].sr
                                       /\ slabs'[i].at = slabs[i].at
                                       /\ slabs'[i].size = slabs[i].size
    <3>1. \A i \in 1 .. Len(slabs) : slabs[i] \in SlabRec
      BY <1>0, ElementOfSeq
    <3>2. CASE slabs' = slabs
      BY <3>2
    <3>3. CASE slabs' = [slabs EXCEPT ![e].attr = "d"]
      <4> DEFINE marked == [slabs[e] EXCEPT !.attr = "d"]
      <4>1. slabs' = [slabs EXCEPT ![e] = marked]
        BY <3>3
      <4>2. marked.sr = slabs[e].sr /\ marked.at = slabs[e].at
            /\ marked.size = slabs[e].size
        BY <3>1 DEF SlabRec
      <4> HIDE DEF marked
      <4> QED
        BY <1>0, <4>1, <4>2
    <3> QED
      BY <2>1, <3>2, <3>3
  <2>3. Anchored
    BY <2>1, <2>2, <1>0 DEF Anchored
  <2>4. Serving' = Serving
    BY <2>1 DEF Serving
  <2> QED
    BY <2>1, <2>2, <2>3, <2>4, NoBlockComesOrGoes
<1>6. ASSUME NEW t \in Threads, HardExit(t)
      PROVE  UNCHANGED <<req, Serving, Blocks>>
  <2>1. UNCHANGED <<pc, req, slabs, sregions, chunks>>
    BY <1>6 DEF HardExit, mem
  <2> QED
    BY <2>1, <1>b DEF Serving
<1>7. CASE Exited \/ UNCHANGED vars
  <2>1. UNCHANGED <<pc, req, slabs, sregions, chunks>>
    BY <1>7 DEF Exited, vars, mem
  <2>2. UNCHANGED <<req, Serving, Blocks>>
    BY <2>1, <1>b DEF Serving
  <2> QED
    BY <2>2, <1>q
<1>8. ASSUME NEW t \in Threads, FreeSome(t)
      PROVE  UNCHANGED <<req, Serving, Blocks>>
  <2>1. PICK e \in Returned : Free(t, e)
    BY <1>8 DEF FreeSome
  <2>2. e \in 1 .. Len(slabs)
    BY <1>0 DEF Returned
  <2> QED
    BY <2>1, <2>2, <1>5
<1>9. ASSUME NEW t \in Threads, Malloc(t) \/ InCall(t) \/ FreeSome(t)
      PROVE  [Store!Next]_(Store!vars)
  <2>1. CASE Malloc(t)
    BY <2>1, <1>1 DEF Store!Next
  <2>2. CASE Unlock(t)
    BY <2>2, <1>2 DEF Store!Next
  <2>3. CASE Easy(t)
    BY <2>3, EasyServes DEF Store!Next
  <2>4. CASE Carve(t)
    BY <2>4, CarveServes DEF Store!Next
  <2>5. CASE Lock(t) \/ LookupEasy(t) \/ LookupHard(t) \/ HardSameChunk(t)
    BY <2>5, <1>3, <1>q
  <2>6. CASE HardNewChunk(t) \/ HardExit(t) \/ FreeSome(t)
    BY <2>6, <1>4, <1>6, <1>8, <1>q
  <2> QED
    BY <1>9, <2>1, <2>2, <2>3, <2>4, <2>5, <2>6 DEF InCall
<1> QED
  BY <1>7, <1>9 DEF Next

(***************************************************************************)
(* Whatever the number of threads, the layout and the device, every        *)
(* behaviour of arena_malloc_small, arena_malloc_small_hard, lsfree and    *)
(* exit is one of a store that serves each call at one moment with a block *)
(* apart from all others, long enough, and never moved or taken back.      *)
(***************************************************************************)
THEOREM SmallPathIsAStore == Spec => ImplementsStore
<1>1. Init => Store!Init /\ IdleInv
  <2> SUFFICES ASSUME Init PROVE Store!Init /\ IdleInv
    OBVIOUS
  <2>1. Blocks = {}
    BY DEF Init, Blocks
  <2>2. Serving = [t \in Threads |-> FALSE]
    BY Zenon DEF Init, Serving
  <2> QED
    BY <2>1, <2>2 DEF Init, Store!Init, IdleInv
<1>2. /\ SlabArenaInv /\ IdleInv /\ SlabArenaInv' /\ NoOverlap' /\ [Next]_vars
      => [Store!Next]_(Store!vars)
  BY StoreStep
<1> QED
  BY <1>1, <1>2, NextIdleOK, SlabArenaInvariant, SlabsAreApart, PTL
     DEF Spec, ImplementsStore, Store!Spec

-----------------------------------------------------------------------------
(***************************************************************************)
(* Sregions as sequences of slabs.  A class's current sregion, and the one *)
(* a thread is about to write to, have slabs of the class's size.          *)
(***************************************************************************)
SizesInv ==
  /\ \A c \in Classes :
       avail_sregion[c] # 0 => sregions[avail_sregion[c]].size = SizeClass[c]
  /\ \A t \in Threads : pc[t] = "easy" => sregions[sr[t]].size = Size(t)

\* SregionsWalkable, for one sregion, with the slabs counted a finite set.
Walkable(s) ==
  LET first == sregions[s].paddr + PsregionSize
      step == PslabSize + sregions[s].size
      n == Cardinality(SlabsIn(s))
  IN  /\ IsFiniteSet(SlabsIn(s))
      /\ {slabs[i].at : i \in SlabsIn(s)} = {first + k * step : k \in 0 .. n - 1}
      /\ sregions[s].ptail = first + n * step

WalkInv == \A s \in 1 .. Len(sregions) : Walkable(s)

\* What a write to an sregion with room changes.
LEMMA EasyWrites ==
  ASSUME NEW t \in Threads, SlabArenaInv, Easy(t)
  PROVE  /\ sr[t] \in 1 .. Len(sregions) /\ tail[t] = sregions[sr[t]].ptail
         /\ Size(t) \in Nat
         /\ Len(sregions') = Len(sregions)
         /\ \A s \in 1 .. Len(sregions) :
              /\ sregions'[s].paddr = sregions[s].paddr
              /\ sregions'[s].size = sregions[s].size
              /\ s # sr[t] => sregions'[s].ptail = sregions[s].ptail
         /\ sregions'[sr[t]].ptail = tail[t] + PslabSize + Size(t)
         /\ Len(slabs') = Len(slabs) + 1
         /\ slabs'[Len(slabs) + 1].sr = sr[t] /\ slabs'[Len(slabs) + 1].at = tail[t]
         /\ \A i \in 1 .. Len(slabs) : slabs'[i] = slabs[i]
<1>0. TypeOK /\ LocalsInv
  BY DEF SlabArenaInv
<1> DEFINE s == sr[t]
           at == tail[t]
           size == Size(t)
           rec == [ch |-> sregions[s].ch, paddr |-> sregions[s].paddr,
                   size |-> sregions[s].size, ptail |-> at + PslabSize + size]
           new == [sr |-> s, at |-> at, size |-> size, req |-> req[t], attr |-> "c"]
<1>1. /\ pc[t] = "easy" /\ slabs' = Append(slabs, new)
      /\ sregions' = [sregions EXCEPT ![s].ptail = at + PslabSize + size]
  BY DEF Easy, Go, NewSlab
<1>2. s \in 1 .. Len(sregions) /\ at = sregions[s].ptail /\ req[t] \in Requests
  BY <1>0, <1>1 DEF LocalsInv
<1>3. size \in Nat
  BY <1>2, SizeOK
<1>4. sregions \in Seq(SregionRec) /\ slabs \in Seq(SlabRec) /\ at \in Nat
  BY <1>0 DEF TypeOK
<1>5. sregions[s] \in SregionRec
  BY <1>2, <1>4, ElementOfSeq
<1>6. sregions' = [sregions EXCEPT ![s] = rec]
  <2>1. [sregions[s] EXCEPT !.ptail = at + PslabSize + size] = rec
    BY <1>5 DEF SregionRec
  <2> QED
    BY <2>1, <1>1
<1>7. rec \in SregionRec
  <2>1. PslabSize \in Nat
    BY HeaderSizes
  <2>2. at + PslabSize + size \in Nat
    BY <1>3, <1>4, <2>1
  <2> QED
    BY <1>5, <2>2 DEF SregionRec
<1>8. rec.paddr = sregions[s].paddr /\ rec.size = sregions[s].size
      /\ rec.ptail = at + PslabSize + size
  OBVIOUS
<1> HIDE DEF rec
<1>9. /\ Len(sregions') = Len(sregions)
      /\ \A r \in 1 .. Len(sregions) :
           sregions'[r] = IF r = s THEN rec ELSE sregions[r]
  BY <1>2, <1>4, <1>6, <1>7, ExceptSeq
<1>10. new.sr = s /\ new.at = at
  OBVIOUS
<1> HIDE DEF new
<1>11. /\ Len(slabs') = Len(slabs) + 1 /\ slabs'[Len(slabs) + 1] = new
       /\ \A i \in 1 .. Len(slabs) : slabs'[i] = slabs[i]
  BY <1>1, <1>4
<1> QED
  BY <1>2, <1>3, <1>8, <1>9, <1>10, <1>11

\* What carving an sregion changes.
LEMMA CarveWrites ==
  ASSUME NEW t \in Threads, SlabArenaInv, Carve(t)
  PROVE  /\ tail[t] \in Nat /\ Size(t) \in Nat /\ Cls(t) \in Classes
         /\ Len(sregions') = Len(sregions) + 1
         /\ \A s \in 1 .. Len(sregions) : sregions'[s] = sregions[s]
         /\ sregions'[Len(sregions) + 1].paddr = tail[t]
         /\ sregions'[Len(sregions) + 1].size = Size(t)
         /\ sregions'[Len(sregions) + 1].ptail =
              (tail[t] + PsregionSize) + PslabSize + Size(t)
         /\ avail_sregion' = [avail_sregion EXCEPT ![Cls(t)] = Len(sregions) + 1]
         /\ Len(slabs') = Len(slabs) + 1
         /\ slabs'[Len(slabs) + 1].sr = Len(sregions) + 1
         /\ slabs'[Len(slabs) + 1].at = tail[t] + PsregionSize
         /\ \A i \in 1 .. Len(slabs) : slabs'[i] = slabs[i]
<1>0. TypeOK /\ LocalsInv
  BY DEF SlabArenaInv
<1> DEFINE m == Len(sregions)
           size == Size(t)
           first == tail[t] + PsregionSize
           newsr == [ch |-> ch[t], paddr |-> tail[t], size |-> size,
                     ptail |-> first + PslabSize + size]
           new == [sr |-> m + 1, at |-> first, size |-> size, req |-> req[t],
                   attr |-> "c"]
<1>1. /\ pc[t] = "carve" /\ slabs' = Append(slabs, new)
      /\ sregions' = Append(sregions, newsr)
      /\ avail_sregion' = [avail_sregion EXCEPT ![Cls(t)] = m + 1]
  BY DEF Carve, Go, NewSlab
<1>2. size \in Nat /\ Cls(t) \in Classes /\ tail[t] \in Nat
  BY <1>0, <1>1, SizeOK DEF LocalsInv, TypeOK
<1>3. sregions \in Seq(SregionRec) /\ slabs \in Seq(SlabRec)
  BY <1>0 DEF TypeOK
<1>4. /\ newsr.paddr = tail[t] /\ newsr.size = size
      /\ newsr.ptail = first + PslabSize + size
      /\ new.sr = m + 1 /\ new.at = first
  OBVIOUS
<1> HIDE DEF new, newsr
<1>5. /\ Len(sregions') = m + 1 /\ sregions'[m + 1] = newsr
      /\ \A s \in 1 .. m : sregions'[s] = sregions[s]
  BY <1>1, <1>3
<1>6. /\ Len(slabs') = Len(slabs) + 1 /\ slabs'[Len(slabs) + 1] = new
      /\ \A i \in 1 .. Len(slabs) : slabs'[i] = slabs[i]
  BY <1>1, <1>3
<1> QED
  BY <1>1, <1>2, <1>4, <1>5, <1>6

\* Only the collector's mark changes on a free.
LEMMA FreeKeeps ==
  ASSUME SlabArenaInv, NEW t \in Threads, FreeSome(t)
  PROVE  /\ UNCHANGED <<pc, req, sr, sregions, avail_sregion>>
         /\ Len(slabs') = Len(slabs)
         /\ \A i \in 1 .. Len(slabs) : slabs'[i].sr = slabs[i].sr /\ slabs'[i].at = slabs[i].at
<1>1. slabs \in Seq(SlabRec) /\ Len(slabs) \in Nat
  BY DEF SlabArenaInv, TypeOK
<1>2. PICK e \in Returned : Free(t, e)
  BY DEF FreeSome
<1>3. e \in 1 .. Len(slabs)
  BY <1>1 DEF Returned
<1>4. \A i \in 1 .. Len(slabs) : slabs[i] \in SlabRec
  BY <1>1, ElementOfSeq
<1>5. CASE slabs' = slabs
  BY <1>2, <1>5 DEF Free
<1>6. CASE slabs' = [slabs EXCEPT ![e].attr = "d"]
  <2> DEFINE marked == [slabs[e] EXCEPT !.attr = "d"]
  <2>1. slabs' = [slabs EXCEPT ![e] = marked]
    BY <1>6
  <2>2. marked.sr = slabs[e].sr /\ marked.at = slabs[e].at
    BY <1>3, <1>4 DEF SlabRec
  <2> HIDE DEF marked
  <2> QED
    BY <1>1, <1>2, <1>3, <2>1, <2>2 DEF Free
<1> QED
  BY <1>2, <1>5, <1>6 DEF Free

LEMMA NextSizesOK == SlabArenaInv /\ SizesInv /\ [Next]_vars => SizesInv'
<1> SUFFICES ASSUME SlabArenaInv, SizesInv, [Next]_vars PROVE SizesInv'
  OBVIOUS
<1>0. /\ LockInv /\ LocalsInv /\ Len(sregions) \in Nat
      /\ pc \in [Threads -> CallPoints] /\ req \in [Threads -> Nat]
      /\ sr \in [Threads -> Nat] /\ avail_sregion \in [Classes -> 0 .. Len(sregions)]
  BY DEF SlabArenaInv, TypeOK
<1>s. /\ \A c \in Classes :
           avail_sregion[c] # 0 => /\ avail_sregion[c] \in 1 .. Len(sregions)
                                   /\ sregions[avail_sregion[c]].size = SizeClass[c]
      /\ \A u \in Threads : pc[u] = "easy" => /\ sr[u] \in 1 .. Len(sregions)
                                              /\ sregions[sr[u]].size = Size(u)
  BY <1>0 DEF SizesInv, LocalsInv
<1>1. ASSUME \A s \in 1 .. Len(sregions) : sregions'[s].size = sregions[s].size,
             NEW c \in Classes, avail_sregion'[c] = avail_sregion[c],
             avail_sregion'[c] # 0
      PROVE  sregions'[avail_sregion'[c]].size = SizeClass[c]
  BY <1>1, <1>s
<1>2. ASSUME \A s \in 1 .. Len(sregions) : sregions'[s].size = sregions[s].size,
             NEW u \in Threads, pc[u] = "easy", sr'[u] = sr[u], req'[u] = req[u]
      PROVE  sregions'[sr'[u]].size = Size(u)'
  <2>1. Size(u)' = Size(u)
    BY <1>2 DEF Size, Cls
  <2> QED
    BY <2>1, <1>2, <1>s
<1>3. ASSUME UNCHANGED <<sregions, avail_sregion>>,
             \A u \in Threads : pc'[u] = "easy" =>
               pc[u] = "easy" /\ sr'[u] = sr[u] /\ req'[u] = req[u]
      PROVE  SizesInv'
  BY <1>1, <1>2, <1>3 DEF SizesInv
<1>4. ASSUME NEW t \in Threads,
             \/ Malloc(t) \/ Lock(t) \/ LookupHard(t) \/ Unlock(t)
             \/ HardSameChunk(t) \/ HardNewChunk(t) \/ HardExit(t) \/ FreeSome(t)
      PROVE  SizesInv'
  <2>1. UNCHANGED <<sregions, avail_sregion>>
    BY <1>4 DEF Malloc, Lock, LookupHard, Unlock, HardSameChunk, HardNewChunk,
                HardExit, FreeSome, Free, mem
  <2>2. ASSUME NEW u \in Threads, pc'[u] = "easy"
        PROVE  pc[u] = "easy" /\ sr'[u] = sr[u] /\ req'[u] = req[u]
    BY <1>4, <2>2, <1>0 DEF Malloc, Lock, LookupHard, Unlock, HardSameChunk,
            HardNewChunk, HardExit, FreeSome, Free, Go
  <2> QED
    BY <2>1, <2>2, <1>3
<1>5. ASSUME NEW t \in Threads, LookupEasy(t)
      PROVE  SizesInv'
  <2>1. /\ UNCHANGED <<sregions, avail_sregion, req>>
        /\ pc[t] = "lookup" /\ pc' = [pc EXCEPT ![t] = "easy"]
        /\ avail_sregion[Cls(t)] # 0
        /\ sr' = [sr EXCEPT ![t] = avail_sregion[Cls(t)]]
    BY <1>5 DEF LookupEasy, Go, mem
  <2>2. Cls(t) \in Classes
    BY <2>1, <1>0, SizeOK DEF LocalsInv
  <2>3. sregions'[sr'[t]].size = Size(t)'
    BY <2>1, <2>2, <1>0, <1>s DEF Size, Cls
  <2>4. ASSUME NEW u \in Threads, pc'[u] = "easy"
        PROVE  sregions'[sr'[u]].size = Size(u)'
    <3>1. CASE u = t
      BY <3>1, <2>3
    <3>2. CASE u # t
      BY <3>2, <2>1, <2>4, <1>0, <1>2
    <3> QED
      BY <3>1, <3>2
  <2> QED
    BY <2>1, <2>4, <1>1 DEF SizesInv
<1>6. ASSUME NEW t \in Threads, Easy(t)
      PROVE  SizesInv'
  <2>1. /\ UNCHANGED <<avail_sregion, req, sr>>
        /\ pc[t] = "easy" /\ pc' = [pc EXCEPT ![t] = "unlock"]
    BY <1>6 DEF Easy, Go
  <2>2. \A s \in 1 .. Len(sregions) : sregions'[s].size = sregions[s].size
    BY <1>6, EasyWrites
  <2>3. \A u \in Threads : pc'[u] = "easy" => pc[u] = "easy"
    BY <2>1, <1>0
  <2> QED
    BY <2>1, <2>2, <2>3, <1>1, <1>2 DEF SizesInv
<1>7. ASSUME NEW t \in Threads, Carve(t)
      PROVE  SizesInv'
  <2>1. /\ UNCHANGED <<req, sr>> /\ pc[t] = "carve"
        /\ pc' = [pc EXCEPT ![t] = "unlock"]
    BY <1>7 DEF Carve, Go
  <2>2. /\ Cls(t) \in Classes
        /\ \A s \in 1 .. Len(sregions) : sregions'[s] = sregions[s]
        /\ sregions'[Len(sregions) + 1].size = Size(t)
        /\ avail_sregion' = [avail_sregion EXCEPT ![Cls(t)] = Len(sregions) + 1]
    BY <1>7, CarveWrites
  <2>3. \A u \in Threads : pc'[u] = "easy" => pc[u] = "easy"
    BY <2>1, <1>0
  <2>4. ASSUME NEW c \in Classes, avail_sregion'[c] # 0
        PROVE  sregions'[avail_sregion'[c]].size = SizeClass[c]
    <3>1. CASE c = Cls(t)
      BY <3>1, <2>2, <1>0 DEF Size
    <3>2. CASE c # Cls(t)
      BY <3>2, <2>2, <2>4, <1>0, <1>1
    <3> QED
      BY <3>1, <3>2
  <2> QED
    BY <2>1, <2>2, <2>3, <2>4, <1>2 DEF SizesInv
<1>8. CASE Exited \/ UNCHANGED vars
  BY <1>3, <1>8 DEF Exited, vars, mem
<1> QED
  BY <1>4, <1>5, <1>6, <1>7, <1>8 DEF Next, InCall

\* An sregion that gains no slab, and one that gains a slab at its ptail.
LEMMA WalkKept ==
  ASSUME NEW s, Walkable(s), SlabsIn(s)' = SlabsIn(s),
         \A i \in SlabsIn(s) : slabs'[i].at = slabs[i].at,
         sregions'[s].paddr = sregions[s].paddr,
         sregions'[s].size = sregions[s].size,
         sregions'[s].ptail = sregions[s].ptail
  PROVE  Walkable(s)'
<1>1. PICK first, step, n, S :
        /\ first = sregions[s].paddr + PsregionSize
        /\ step = PslabSize + sregions[s].size
        /\ S = SlabsIn(s) /\ n = Cardinality(S)
  OBVIOUS
<1>2. /\ IsFiniteSet(S) /\ sregions'[s].ptail = first + n * step
      /\ {slabs[i].at : i \in S} = {first + k * step : k \in 0 .. n - 1}
  BY <1>1 DEF Walkable
<1>3. {slabs'[i].at : i \in S} = {slabs[i].at : i \in S}
  BY <1>1
<1>4. {slabs'[i].at : i \in S} = {first + k * step : k \in 0 .. n - 1}
  BY <1>2, <1>3
<1>5. /\ first = sregions'[s].paddr + PsregionSize
      /\ step = PslabSize + sregions'[s].size
      /\ SlabsIn(s)' = S /\ n = Cardinality(S)
  BY <1>1
<1> QED
  BY <1>2, <1>4, <1>5 DEF Walkable

LEMMA WalkGrows ==
  ASSUME NEW s, Walkable(s), NEW e, e \notin SlabsIn(s),
         SlabsIn(s)' = SlabsIn(s) \cup {e},
         \A i \in SlabsIn(s) : slabs'[i].at = slabs[i].at,
         slabs'[e].at = sregions[s].ptail,
         sregions[s].paddr \in Nat, sregions[s].size \in Nat,
         sregions'[s].paddr = sregions[s].paddr,
         sregions'[s].size = sregions[s].size,
         sregions'[s].ptail = sregions[s].ptail + PslabSize + sregions[s].size
  PROVE  Walkable(s)'
<1>1. PICK first, step, n, S :
        /\ first = sregions[s].paddr + PsregionSize
        /\ step = PslabSize + sregions[s].size
        /\ S = SlabsIn(s) /\ n = Cardinality(S)
  OBVIOUS
<1>2. /\ IsFiniteSet(S) /\ sregions[s].ptail = first + n * step
      /\ {slabs[i].at : i \in S} = {first + k * step : k \in 0 .. n - 1}
  BY <1>1 DEF Walkable
<1>3. n \in Nat
  BY <1>1, <1>2, FS_CardinalityType
<1>4. first \in Nat /\ step \in Nat /\ n * step \in Nat
  BY <1>1, <1>3, HeaderSizes
<1>5. IsFiniteSet(S \cup {e}) /\ Cardinality(S \cup {e}) = n + 1
  BY <1>1, <1>2, FS_AddElement
<1>6. {slabs'[i].at : i \in S \cup {e}} = {slabs[i].at : i \in S} \cup {first + n * step}
  BY <1>1, <1>2
<1>7. 0 .. (n + 1) - 1 = 0 .. n - 1 \cup {n}
  BY <1>3
<1>8. {first + k * step : k \in 0 .. (n + 1) - 1} =
        {first + k * step : k \in 0 .. n - 1} \cup {first + n * step}
  BY <1>7
<1>9. sregions'[s].ptail = first + (n + 1) * step
  <2>1. (n + 1) * step = n * step + step
    BY <1>3, <1>4
  <2>2. sregions'[s].ptail = first + n * step + PslabSize + sregions[s].size
    BY <1>2
  <2>3. PslabSize \in Nat
    BY HeaderSizes
  <2> QED
    BY <1>1, <1>4, <2>1, <2>2, <2>3
<1>10. /\ first = sregions'[s].paddr + PsregionSize
       /\ step = PslabSize + sregions'[s].size
       /\ SlabsIn(s)' = S \cup {e}
  BY <1>1
<1>11. {slabs'[i].at : i \in S \cup {e}} = {first + k * step : k \in 0 .. (n + 1) - 1}
  BY <1>2, <1>6, <1>8
<1>12. PICK m : m = n + 1
  OBVIOUS
<1>13. /\ IsFiniteSet(S \cup {e}) /\ m = Cardinality(S \cup {e})
       /\ sregions'[s].ptail = first + m * step
       /\ {slabs'[i].at : i \in S \cup {e}} = {first + k * step : k \in 0 .. m - 1}
  BY <1>5, <1>9, <1>11, <1>12
<1> QED
  BY <1>10, <1>13 DEF Walkable

LEMMA NextWalkOK == SlabArenaInv /\ SizesInv /\ WalkInv /\ [Next]_vars => WalkInv'
<1> SUFFICES ASSUME SlabArenaInv, SizesInv, WalkInv, [Next]_vars PROVE WalkInv'
  OBVIOUS
<1>0. /\ Len(sregions) \in Nat /\ Len(slabs) \in Nat
      /\ sregions \in Seq(SregionRec) /\ SlabsInv
  BY DEF SlabArenaInv, TypeOK
<1>1. ASSUME UNCHANGED sregions, Len(slabs') = Len(slabs),
             \A i \in 1 .. Len(slabs) : /\ slabs'[i].sr = slabs[i].sr
                                        /\ slabs'[i].at = slabs[i].at
      PROVE  WalkInv'
  <2>1. ASSUME NEW s \in 1 .. Len(sregions)
        PROVE  Walkable(s)'
    <3>1. /\ SlabsIn(s)' = SlabsIn(s)
          /\ \A i \in SlabsIn(s) : slabs'[i].at = slabs[i].at
      BY <1>1 DEF SlabsIn
    <3> QED
      BY <3>1, <1>1, WalkKept DEF WalkInv
  <2> QED
    BY <2>1, <1>1 DEF WalkInv
<1>2. ASSUME UNCHANGED <<sregions, slabs>>
      PROVE  WalkInv'
  BY <1>1, <1>2
<1>3. ASSUME NEW t \in Threads, Quiet(t) \/ HardNewChunk(t)
      PROVE  WalkInv'
  <2>1. UNCHANGED <<sregions, slabs>>
    BY <1>3 DEF Quiet, Malloc, Lock, LookupEasy, LookupHard, Unlock,
                HardSameChunk, HardNewChunk, HardExit, mem
  <2> QED
    BY <2>1, <1>2
<1>4. ASSUME NEW t \in Threads, FreeSome(t)
      PROVE  WalkInv'
  BY <1>1, <1>4, FreeKeeps
<1>5. ASSUME NEW e, e = Len(slabs) + 1, Len(slabs') = e,
             \A i \in 1 .. Len(slabs) : slabs'[i] = slabs[i]
      PROVE  /\ \A s : SlabsIn(s)' = SlabsIn(s) \cup {i \in {e} : slabs'[i].sr = s}
             /\ \A s : e \notin SlabsIn(s) /\ SlabsIn(s) \subseteq 1 .. Len(slabs)
  <2>1. 1 .. Len(slabs') = 1 .. Len(slabs) \cup {e}
    BY <1>0, <1>5
  <2> QED
    BY <2>1, <1>0, <1>5 DEF SlabsIn
<1>6. ASSUME NEW t \in Threads, Easy(t)
      PROVE  WalkInv'
  <2>1. PICK e, at : e = Len(slabs) + 1 /\ at = sr[t]
    OBVIOUS
  <2>2. /\ at \in 1 .. Len(sregions) /\ tail[t] = sregions[at].ptail
        /\ Len(sregions') = Len(sregions)
        /\ \A s \in 1 .. Len(sregions) :
             /\ sregions'[s].paddr = sregions[s].paddr
             /\ sregions'[s].size = sregions[s].size
             /\ s # at => sregions'[s].ptail = sregions[s].ptail
        /\ sregions'[at].ptail = tail[t] + PslabSize + Size(t)
        /\ Len(slabs') = e /\ slabs'[e].sr = at /\ slabs'[e].at = tail[t]
        /\ \A i \in 1 .. Len(slabs) : slabs'[i] = slabs[i]
    BY <1>6, <2>1, EasyWrites
  <2>3. sregions[at].size = Size(t)
    BY <1>6, <2>1 DEF SizesInv, Easy, Go
  <2>4. sregions[at].paddr \in Nat /\ sregions[at].size \in Nat
    <3>1. sregions[at] \in SregionRec
      BY <1>0, <2>2, ElementOfSeq
    <3> QED
      BY <3>1 DEF SregionRec
  <2>5. /\ \A s : SlabsIn(s)' = SlabsIn(s) \cup {i \in {e} : slabs'[i].sr = s}
        /\ \A s : e \notin SlabsIn(s) /\ SlabsIn(s) \subseteq 1 .. Len(slabs)
    BY <1>5, <2>1, <2>2
  <2>6. ASSUME NEW s \in 1 .. Len(sregions)
        PROVE  Walkable(s)'
    <3>1. Walkable(s) /\ \A i \in SlabsIn(s) : slabs'[i].at = slabs[i].at
      BY <2>2, <2>5 DEF WalkInv
    <3>2. CASE s = at
      <4>1. SlabsIn(s)' = SlabsIn(s) \cup {e} /\ e \notin SlabsIn(s)
        BY <2>2, <2>5, <3>2
      <4> QED
        BY <2>2, <2>3, <2>4, <3>1, <3>2, <4>1, WalkGrows
    <3>3. CASE s # at
      <4>1. SlabsIn(s)' = SlabsIn(s)
        BY <2>2, <2>5, <3>3
      <4> QED
        BY <2>2, <3>1, <3>3, <4>1, WalkKept
    <3> QED
      BY <3>2, <3>3
  <2> QED
    BY <2>2, <2>6 DEF WalkInv
<1>7. ASSUME NEW t \in Threads, Carve(t)
      PROVE  WalkInv'
  <2>1. PICK e, m : e = Len(slabs) + 1 /\ m = Len(sregions) + 1
    OBVIOUS
  <2>2. /\ tail[t] \in Nat /\ Size(t) \in Nat
        /\ Len(sregions') = m
        /\ \A s \in 1 .. Len(sregions) : sregions'[s] = sregions[s]
        /\ sregions'[m].paddr = tail[t] /\ sregions'[m].size = Size(t)
        /\ sregions'[m].ptail = (tail[t] + PsregionSize) + PslabSize + Size(t)
        /\ Len(slabs') = e /\ slabs'[e].sr = m
        /\ slabs'[e].at = tail[t] + PsregionSize
        /\ \A i \in 1 .. Len(slabs) : slabs'[i] = slabs[i]
    BY <1>7, <2>1, CarveWrites
  <2>3. /\ \A s : SlabsIn(s)' = SlabsIn(s) \cup {i \in {e} : slabs'[i].sr = s}
        /\ \A s : e \notin SlabsIn(s) /\ SlabsIn(s) \subseteq 1 .. Len(slabs)
    BY <1>5, <2>1, <2>2
  <2>4. ASSUME NEW s \in 1 .. Len(sregions)
        PROVE  Walkable(s)'
    <3>1. SlabsIn(s)' = SlabsIn(s)
      <4>1. slabs'[e].sr # s
        BY <1>0, <2>1, <2>2
      <4>2. {i \in {e} : slabs'[i].sr = s} = {}
        BY <4>1
      <4> QED
        BY <2>3, <4>2
    <3>2. Walkable(s) /\ \A i \in SlabsIn(s) : slabs'[i].at = slabs[i].at
      BY <2>2, <2>3 DEF WalkInv
    <3> QED
      BY <2>2, <3>1, <3>2, WalkKept
  <2>5. SlabsIn(m) = {}
    BY <1>0, <2>1 DEF SlabsIn, SlabsInv
  <2>6. SlabsIn(m)' = {e}
    BY <2>2, <2>3, <2>5
  <2>7. Walkable(m)'
    <3>1. PICK first, step : /\ first = sregions'[m].paddr + PsregionSize
                             /\ step = PslabSize + sregions'[m].size
      OBVIOUS
    <3>2. IsFiniteSet({e}) /\ Cardinality({e}) = 1
      BY FS_Singleton
    <3>3. first \in Nat /\ step \in Nat
      BY <2>2, <3>1, HeaderSizes
    <3>4. {slabs'[i].at : i \in {e}} = {first}
      BY <2>2, <3>1
    <3>5. {first + k * step : k \in 0 .. 1 - 1} = {first}
      BY <3>3
    <3>6. sregions'[m].ptail = first + 1 * step
      BY <2>2, <3>1, <3>3, HeaderSizes
    <3> QED
      BY <2>6, <3>1, <3>2, <3>4, <3>5, <3>6 DEF Walkable
  <2>8. 1 .. Len(sregions') = 1 .. Len(sregions) \cup {m}
    BY <1>0, <2>1, <2>2
  <2> QED
    BY <2>4, <2>7, <2>8 DEF WalkInv
<1>8. CASE Exited \/ UNCHANGED vars
  BY <1>2, <1>8 DEF Exited, vars, mem
<1> QED
  BY <1>3, <1>4, <1>6, <1>7, <1>8 DEF Next, InCall, Quiet

(***************************************************************************)
(* The collector could walk any sregion: however many threads allocate in  *)
(* it, the slabs of an sregion are all of its size and follow one another  *)
(* without a gap from its first byte up to ptail.                          *)
(***************************************************************************)
THEOREM SregionsAreWalkable == Spec => []SregionsWalkable
<1>1. Init => SizesInv /\ WalkInv
  <2> SUFFICES ASSUME Init PROVE SizesInv /\ WalkInv
    OBVIOUS
  <2>1. \A c \in Classes : avail_sregion[c] = 0
    BY DEF Init
  <2>2. \A t \in Threads : pc[t] # "easy"
    BY DEF Init
  <2>3. 1 .. Len(sregions) = {}
    BY DEF Init
  <2> QED
    BY <2>1, <2>2, <2>3 DEF SizesInv, WalkInv
<1>2. WalkInv => SregionsWalkable
  BY DEF WalkInv, Walkable, SregionsWalkable
<1> QED
  BY <1>1, <1>2, NextSizesOK, NextWalkOK, SlabArenaInvariant, PTL DEF Spec
=============================================================================
