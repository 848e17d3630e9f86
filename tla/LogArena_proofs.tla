--------------------------- MODULE LogArena_proofs ---------------------------
(***************************************************************************)
(* Theorems about LogArena, for every set of threads, every layout and     *)
(* width of size_t that satisfy LogSizesAssumption, every device size and  *)
(* either outcome of the store through NULL.                               *)
(***************************************************************************)
EXTENDS LogArena, CommonLemmas, SequenceTheorems

\* The layout constants are positive, and a chunk's room is a size_t.
LEMMA LogLayout ==
  /\ ChunkSize \in Nat \ {0} /\ PchunkSize \in Nat \ {0}
  /\ PregionSize \in Nat \ {0} /\ Alignment \in Nat \ {0}
  /\ SizeMod \in Nat \ {0}
  /\ PchunkSize < ChunkSize /\ ChunkSize < SizeMod
  /\ Capacity \in Nat /\ Capacity = ChunkSize - PchunkSize
  /\ Requests \subseteq Nat
BY LogSizesAssumption DEF Capacity

\* The bytes a request takes cover its header and what was asked for.
LEMMA RegionSizeOK ==
  ASSUME NEW t \in Threads, req[t] \in Requests
  PROVE  /\ Size(t) \in Nat /\ req[t] \in Nat
         /\ PregionSize + req[t] <= Size(t)
<1> DEFINE x == req[t] + PregionSize
<1>1. req[t] \in Nat /\ x \in Nat
  <2>1. req[t] \in Nat
    BY LogLayout
  <2>2. PregionSize \in Nat
    BY LogLayout
  <2> QED
    BY <2>1, <2>2
<1>2. Size(t) = ((x + Alignment - 1) \div Alignment) * Alignment
  BY DEF Size, RegionSize
<1> HIDE DEF x
<1>3. Size(t) \in Nat /\ x <= Size(t)
  BY <1>1, <1>2, LogLayout, RoundUp
<1> QED
  BY <1>1, <1>3, LogLayout DEF x

\* The elements of the arena's sequences have their types.
LEMMA Records ==
  ASSUME TypeOK
  PROVE  /\ \A c \in 1 .. Len(chunks) :
              /\ chunks[c] \in ChunkRec
              /\ chunks[c].tail \in Nat
         /\ \A i \in 1 .. Len(regions) :
              /\ regions[i] \in RegionRec
              /\ regions[i].at \in Nat /\ regions[i].size \in Nat
              /\ RegionEnd(i) \in Nat
         /\ avail_chunks # <<>> => Head(avail_chunks) \in 1 .. Len(chunks)
         /\ Len(chunks) \in Nat /\ Len(regions) \in Nat
<1>1. \A c \in 1 .. Len(chunks) : chunks[c] \in ChunkRec
  BY ElementOfSeq DEF TypeOK
<1>2. \A i \in 1 .. Len(regions) : regions[i] \in RegionRec
  BY ElementOfSeq DEF TypeOK
<1>3. avail_chunks # <<>> => Head(avail_chunks) \in 1 .. Len(chunks)
  BY HeadTailProperties DEF TypeOK
<1>4. Len(chunks) \in Nat /\ Len(regions) \in Nat
  BY LenProperties DEF TypeOK
<1>5. \A c \in 1 .. Len(chunks) : chunks[c].tail \in Nat
  BY <1>1 DEF ChunkRec
<1>6. \A i \in 1 .. Len(regions) : regions[i].at \in Nat /\ regions[i].size \in Nat
  BY <1>2 DEF RegionRec
<1>7. \A i \in 1 .. Len(regions) : RegionEnd(i) \in Nat
  BY <1>6 DEF RegionEnd
<1> QED
  BY <1>1, <1>2, <1>3, <1>4, <1>5, <1>6, <1>7

\* availsize in size_t arithmetic tells the room left, as long as the tail
\* has not passed the chunk's end.
LEMMA RoomLeft ==
  ASSUME TypeOK, ChunksInv, NEW c \in 1 .. Len(chunks), Sound(c),
         NEW size \in Nat, chunks[c].availsize >= size
  PROVE  chunks[c].tail + size <= ChunkSize
<1> DEFINE tl == chunks[c].tail
<1>1. tl \in Nat /\ tl <= ChunkSize
      /\ chunks[c].availsize = (ChunkSize - tl) % SizeMod
  BY Records DEF ChunksInv
<1> HIDE DEF tl
<1>2. ChunkSize - tl \in Nat /\ ChunkSize - tl < SizeMod
  BY <1>1, LogLayout
<1>3. (ChunkSize - tl) % SizeMod = ChunkSize - tl
  BY <1>2, LogLayout, ModSmall
<1>4. tl + size <= ChunkSize
  BY <1>1, <1>3, LogLayout
<1> QED
  BY <1>4 DEF tl

-----------------------------------------------------------------------------
\* A step that leaves the arena's memory alone keeps what is said of it.
LEMMA MemUnchanged ==
  ASSUME LogInv, UNCHANGED mem
  PROVE  /\ PoolOK(pool, Held)' /\ ChunksInv' /\ RegionsInv' /\ FirstIsLog'
         /\ \A c \in Nat : Sound(c)' <=> Sound(c)
<1> USE DEF mem
<1>1. PoolOK(pool, Held)'
  BY DEF LogInv, Held
<1>2. ChunksInv'
  BY DEF LogInv, ChunksInv, Sound
<1>3. RegionsInv'
  BY DEF LogInv, RegionsInv, RegionEnd
<1>4. FirstIsLog'
  BY DEF LogInv, FirstIsLog
<1>5. \A c \in Nat : Sound(c)' <=> Sound(c)
  BY DEF Sound
<1> QED
  BY <1>1, <1>2, <1>3, <1>4, <1>5

\* The steps that change at most the state of the process: exit(1), the store
\* behind the pool's mapping, and lsfree.
Stays == /\ UNCHANGED <<lock, pc, req, ch, tail, mem>>
         /\ proc' \in {"running", "exited", "faulted"}

LEMMA StaysPut ==
  ASSUME NEW t \in Threads, NewChunkExit(t) \/ AppendFaults(t) \/ FreeSome(t)
  PROVE  Stays
BY DEF NewChunkExit, AppendFaults, FreeSome, Free, Stays

\* The steps that only move a thread along its call, and read memory.
Quiet(t) == \/ Malloc(t) \/ Lock(t) \/ FirstSuits(t) \/ RetireNull(t)
            \/ Stays \/ Unlock(t)

LEMMA QuietTypeOK ==
  ASSUME NEW t \in Threads, TypeOK, Quiet(t)
  PROVE  TypeOK'
<1> USE DEF TypeOK, CallPoints
<1>m. UNCHANGED mem
  BY DEF Quiet, Malloc, Lock, FirstSuits, RetireNull, Stays, Unlock, mem
<1>1. CASE Malloc(t)
  BY <1>1, <1>m, LogLayout DEF Malloc, Go, mem
<1>2. CASE Lock(t)
  BY <1>2, <1>m DEF Lock, Go, mem
<1>3. CASE FirstSuits(t)
  <2>1. Head(avail_chunks) \in Nat /\ chunks[Head(avail_chunks)].tail \in Nat
    BY <1>3, Records DEF FirstSuits
  <2> QED
    BY <1>3, <1>m, <2>1 DEF FirstSuits, Go, mem
<1>4. CASE RetireNull(t)
  BY <1>4, <1>m DEF RetireNull, Go, mem
<1>5. CASE Stays
  BY <1>5, <1>m DEF Stays, mem
<1>6. CASE Unlock(t)
  BY <1>6, <1>m DEF Unlock, Go, mem
<1> QED
  BY <1>1, <1>2, <1>3, <1>4, <1>5, <1>6 DEF Quiet

LEMMA QuietLockOK ==
  ASSUME NEW t \in Threads, TypeOK, LockInv, Quiet(t)
  PROVE  LockInv'
<1> USE DEF LockInv, InCritical
<1>n. NoThread \notin Threads /\ pc \in [Threads -> CallPoints]
  BY LogThreadsAssumption DEF TypeOK
<1>1. CASE Malloc(t)
  BY <1>1, <1>n DEF Malloc, Go
<1>2. CASE Lock(t)
  BY <1>2, <1>n DEF Lock, Go
<1>3. CASE FirstSuits(t) \/ RetireNull(t)
  BY <1>3, <1>n DEF FirstSuits, RetireNull, Go
<1>4. CASE Stays
  BY <1>4 DEF Stays
<1>5. CASE Unlock(t)
  BY <1>5, <1>n DEF Unlock, Go
<1> QED
  BY <1>1, <1>2, <1>3, <1>4, <1>5 DEF Quiet

\* The holder's locals describe the chunk it is about to append to.
LEMMA QuietLocalsOK ==
  ASSUME NEW t \in Threads, LogInv, Quiet(t)
  PROVE  LocalsInv'
<1>0. TypeOK /\ LocalsInv /\ ChunksInv
  BY DEF LogInv
<1>m. UNCHANGED mem
  BY DEF Quiet, Malloc, Lock, FirstSuits, RetireNull, Stays, Unlock, mem
<1>t. /\ pc \in [Threads -> CallPoints] /\ req \in [Threads -> Nat]
      /\ ch \in [Threads -> Nat] /\ tail \in [Threads -> Nat]
  BY <1>0 DEF TypeOK
<1> DEFINE Appends(r, c, tl) ==
             /\ avail_chunks # <<>> /\ c = Head(avail_chunks)
             /\ tl = chunks[c].tail
             /\ Sound(c) /\ RegionSize(r) <= Capacity =>
                  tl + RegionSize(r) <= ChunkSize
<1>s. \A c : Sound(c)' <=> Sound(c)
  BY <1>m DEF Sound, mem
<1> SUFFICES ASSUME NEW u \in Threads
             PROVE  /\ pc'[u] # "idle" => req'[u] \in Requests
                    /\ pc'[u] = "append" => Appends(req'[u], ch'[u], tail'[u])
  BY <1>m, <1>s DEF LocalsInv, mem, Size
<1>u. /\ pc[u] # "idle" => req[u] \in Requests
      /\ pc[u] = "append" => Appends(req[u], ch[u], tail[u])
  BY <1>0 DEF LocalsInv, Size
<1> HIDE DEF Appends
<1>1. CASE u # t
  <2>1. /\ pc'[u] = pc[u] /\ req'[u] = req[u] /\ ch'[u] = ch[u]
        /\ tail'[u] = tail[u]
    BY <1>1, <1>t DEF Quiet, Malloc, Lock, FirstSuits, RetireNull, Stays,
                      Unlock, Go
  <2> QED
    BY <1>u, <2>1
<1>2. CASE u = t /\ Malloc(t)
  BY <1>2, <1>t DEF Malloc, Go
<1>3. CASE u = t /\ Lock(t)
  BY <1>3, <1>t, <1>u DEF Lock, Go
<1>4. CASE u = t /\ FirstSuits(t)
  <2> DEFINE c == Head(avail_chunks)
  <2>1. /\ pc'[t] = "append" /\ req'[t] = req[t] /\ req[t] \in Requests
        /\ ch'[t] = c /\ tail'[t] = chunks[c].tail
        /\ avail_chunks # <<>> /\ chunks[c].availsize >= Size(t)
    BY <1>4, <1>t, <1>u DEF FirstSuits, Go, Suits
  <2>2. c \in 1 .. Len(chunks)
    BY <2>1, <1>0, Records
  <2>3. Size(t) \in Nat /\ Size(t) = RegionSize(req[t])
    BY <2>1, RegionSizeOK DEF Size
  <2> HIDE DEF c
  <2>4. Sound(c) => chunks[c].tail + Size(t) <= ChunkSize
    BY <2>1, <2>2, <2>3, <1>0, RoomLeft
  <2> QED
    BY <1>4, <2>1, <2>3, <2>4 DEF Appends, c
<1>5. CASE u = t /\ RetireNull(t)
  BY <1>5, <1>t, <1>u DEF RetireNull, Go
<1>6. CASE u = t /\ Stays
  BY <1>6, <1>u DEF Stays
<1>7. CASE u = t /\ Unlock(t)
  BY <1>7, <1>t DEF Unlock, Go
<1> QED
  BY <1>1, <1>2, <1>3, <1>4, <1>5, <1>6, <1>7 DEF Quiet

\* No quiet step starts or ends a replacement, except where there is no
\* chunk to replace.
LEMMA QuietLiveOK ==
  ASSUME NEW t \in Threads, LogInv, Quiet(t)
  PROVE  LiveIsFirst'
<1>0. TypeOK /\ LiveIsFirst /\ FirstIsLog
  BY DEF LogInv
<1>m. UNCHANGED mem
  BY DEF Quiet, Malloc, Lock, FirstSuits, RetireNull, Stays, Unlock, mem
<1>1. CASE RetireNull(t)
  <2>1. \A c \in 1 .. Len(chunks) : chunks[c].type # "log"
    BY <1>1, <1>0 DEF RetireNull, FirstIsLog
  <2> QED
    BY <2>1, <1>m DEF LiveIsFirst, mem
<1>2. CASE ~RetireNull(t)
  <2>1. pc \in [Threads -> CallPoints]
    BY <1>0 DEF TypeOK
  <2>2. \A u \in Threads : pc'[u] = "new" <=> pc[u] = "new"
    BY <1>2, <2>1 DEF Quiet, Malloc, Lock, FirstSuits, Stays, Unlock, Go
  <2>3. Replacing' <=> Replacing
    BY <2>2 DEF Replacing
  <2> QED
    BY <2>3, <1>0, <1>m DEF LiveIsFirst, mem
<1> QED
  BY <1>1, <1>2

LEMMA QuietOK ==
  ASSUME NEW t \in Threads, LogInv, Quiet(t)
  PROVE  LogInv'
<1>1. UNCHANGED mem
  BY DEF Quiet, Malloc, Lock, FirstSuits, RetireNull, Stays, Unlock, mem
<1> QED
  BY <1>1, MemUnchanged, QuietTypeOK, QuietLockOK, QuietLocalsOK, QuietLiveOK
     DEF LogInv

-----------------------------------------------------------------------------
\* A write that changes nothing but what marks a chunk as retired keeps the
\* layout.
LEMMA SameLayout ==
  ASSUME LogInv, UNCHANGED <<pool, avail_chunks>>,
         Len(chunks') = Len(chunks), Len(regions') = Len(regions),
         \A c \in 1 .. Len(chunks) :
           /\ chunks'[c].type = chunks[c].type
           /\ chunks'[c].paddr = chunks[c].paddr
           /\ chunks'[c].tail = chunks[c].tail
           /\ chunks'[c].availsize = chunks[c].availsize,
         \A i \in 1 .. Len(regions) :
           /\ regions'[i].ch = regions[i].ch
           /\ regions'[i].at = regions[i].at
           /\ regions'[i].size = regions[i].size
           /\ regions'[i].req = regions[i].req
  PROVE  PoolOK(pool, Held)' /\ ChunksInv' /\ RegionsInv' /\ FirstIsLog'
<1>0. TypeOK /\ PoolOK(pool, Held) /\ ChunksInv /\ RegionsInv /\ FirstIsLog
  BY DEF LogInv
<1>1. Held' = Held
  BY DEF Held
<1>2. PoolOK(pool, Held)'
  BY <1>0, <1>1
<1>3. \A c : Sound(c)' <=> Sound(c)
  BY DEF Sound
<1>4. ChunksInv'
  BY <1>0, <1>3 DEF ChunksInv
<1>5. \A i \in 1 .. Len(regions) : RegionEnd(i)' = RegionEnd(i)
  BY DEF RegionEnd
<1>6. RegionsInv'
  <2>1. \A i \in 1 .. Len(regions) :
          /\ regions[i].ch \in 1 .. Len(chunks)
          /\ PchunkSize <= regions[i].at
          /\ RegionEnd(i) <= chunks[regions[i].ch].tail
          /\ regions[i].at + PregionSize + regions[i].req <= RegionEnd(i)
    BY <1>0 DEF RegionsInv
  <2>2. \A i, j \in 1 .. Len(regions) :
          i # j /\ regions[i].ch = regions[j].ch =>
            RegionEnd(i) <= regions[j].at \/ RegionEnd(j) <= regions[i].at
    BY <1>0 DEF RegionsInv
  <2>3. ASSUME NEW i \in 1 .. Len(regions)
        PROVE  /\ regions'[i].ch \in 1 .. Len(chunks')
               /\ PchunkSize <= regions'[i].at
               /\ RegionEnd(i)' <= chunks'[regions'[i].ch].tail
               /\ regions'[i].at + PregionSize + regions'[i].req <= RegionEnd(i)'
    BY <2>1, <1>5
  <2>4. ASSUME NEW i \in 1 .. Len(regions), NEW j \in 1 .. Len(regions),
               i # j, regions'[i].ch = regions'[j].ch
        PROVE  RegionEnd(i)' <= regions'[j].at \/ RegionEnd(j)' <= regions'[i].at
    BY <2>2, <2>4, <1>5
  <2> QED
    BY <2>3, <2>4 DEF RegionsInv
<1>7. FirstIsLog'
  BY <1>0, Records DEF FirstIsLog
<1> QED
  BY <1>2, <1>4, <1>6, <1>7

\* The holder of the lock moves on; the others are outside and stay there.
LEMMA HolderStepOK ==
  ASSUME NEW t \in Threads, NEW to \in {"new", "append", "unlock"},
         TypeOK, LockInv, LocalsInv, InCritical(t),
         pc' = [pc EXCEPT ![t] = to],
         UNCHANGED <<lock, req>>,
         to = "append" =>
           /\ avail_chunks' # <<>> /\ ch'[t] = Head(avail_chunks')
           /\ tail'[t] = chunks'[ch'[t]].tail
           /\ Size(t) <= Capacity => tail'[t] + Size(t) <= ChunkSize
  PROVE  /\ LockInv' /\ LocalsInv'
         /\ Replacing <=> pc[t] = "new"
         /\ Replacing' <=> to = "new"
<1>1. pc \in [Threads -> CallPoints] /\ NoThread \notin Threads
  BY LogThreadsAssumption DEF TypeOK
<1>2. pc[t] # "idle" /\ req[t] \in Requests
  BY DEF InCritical, LocalsInv
<1>3. LockInv'
  BY <1>1 DEF LockInv, InCritical
<1>4. ASSUME NEW u \in Threads, u # t
      PROVE  pc'[u] = pc[u] /\ pc[u] \in {"idle", "lock"}
  <2>1. ~InCritical(u)
    BY <1>4 DEF LockInv
  <2> QED
    BY <1>1, <1>4, <2>1 DEF InCritical, CallPoints
<1>5. pc'[t] = to
  BY <1>1
<1>6. ASSUME NEW u \in Threads
      PROVE  pc'[u] # "idle" => req'[u] \in Requests
  BY <1>2, <1>4 DEF LocalsInv
<1>7. ASSUME NEW u \in Threads, pc'[u] = "append"
      PROVE  u = t /\ to = "append"
  BY <1>4, <1>5, <1>7
<1>8. Size(t)' = Size(t)
  BY DEF Size
<1>9. LocalsInv'
  BY <1>6, <1>7, <1>8 DEF LocalsInv
<1>10. (Replacing <=> pc[t] = "new") /\ (Replacing' <=> to = "new")
  BY <1>4, <1>5 DEF Replacing
<1> QED
  BY <1>3, <1>9, <1>10

\* While nobody holds the lock nobody has read anything.
LEMMA NobodyInside ==
  ASSUME TypeOK, LockInv, LocalsInv, lock = NoThread,
         UNCHANGED <<lock, pc, req>>
  PROVE  LockInv' /\ LocalsInv' /\ ~Replacing /\ ~Replacing'
<1>1. \A u \in Threads : ~InCritical(u)
  BY LogThreadsAssumption DEF LockInv
<1>2. \A u \in Threads : pc[u] \notin {"new", "append"}
  BY <1>1 DEF InCritical
<1>3. LockInv'
  BY DEF LockInv, InCritical
<1>4. LocalsInv'
  BY <1>2 DEF LocalsInv
<1> QED
  BY <1>2, <1>3, <1>4 DEF Replacing

\* A retired chunk is the first one, and it is the only one that was live.
LEMMA RetireOK ==
  ASSUME NEW t \in Threads, LogInv, Retire(t)
  PROVE  LogInv'
<1> DEFINE h == Head(avail_chunks)
           rec == [chunks[h] EXCEPT !.live = FALSE]
<1>0. TypeOK /\ LockInv /\ LocalsInv /\ FirstIsLog /\ LiveIsFirst
  BY DEF LogInv
<1>1. /\ pc[t] = "lookup" /\ pc' = [pc EXCEPT ![t] = "new"]
      /\ avail_chunks # <<>>
      /\ chunks' = [chunks EXCEPT ![h] = rec]
      /\ UNCHANGED <<lock, req, ch, tail, pool, avail_chunks, regions, proc>>
  BY DEF Retire, Go
<1>2. h \in 1 .. Len(chunks)
  BY <1>0, <1>1, Records
<1>3. /\ rec \in ChunkRec /\ rec.live = FALSE /\ rec.type = chunks[h].type
      /\ rec.paddr = chunks[h].paddr /\ rec.tail = chunks[h].tail
      /\ rec.availsize = chunks[h].availsize
  <2>1. chunks[h] \in ChunkRec
    BY <1>0, <1>2, Records
  <2> QED
    BY <2>1 DEF ChunkRec
<1> HIDE DEF h, rec
<1>4. /\ chunks' \in Seq(ChunkRec) /\ Len(chunks') = Len(chunks)
      /\ \A c \in 1 .. Len(chunks) : chunks'[c] = IF c = h THEN rec ELSE chunks[c]
  <2>1. chunks \in Seq(ChunkRec)
    BY <1>0 DEF TypeOK
  <2> QED
    BY <2>1, <1>1, <1>2, <1>3, ExceptSeq
<1>5. TypeOK'
  <2>1. pc' \in [Threads -> CallPoints]
    BY <1>0, <1>1 DEF TypeOK, CallPoints
  <2> QED
    BY <2>1, <1>0, <1>1, <1>4 DEF TypeOK
<1>6. PoolOK(pool, Held)' /\ ChunksInv' /\ RegionsInv' /\ FirstIsLog'
  BY <1>1, <1>3, <1>4, SameLayout
<1>7. LockInv' /\ LocalsInv' /\ Replacing' /\ ~Replacing
  <2>1. InCritical(t)
    BY <1>1 DEF InCritical
  <2> QED
    BY <2>1, <1>0, <1>1, HolderStepOK
<1>8. LiveIsFirst'
  <2> SUFFICES ASSUME NEW c \in 1 .. Len(chunks), chunks'[c].type = "log"
               PROVE  chunks'[c].live = FALSE
    BY <1>4, <1>7 DEF LiveIsFirst
  <2>1. CASE c = h
    BY <2>1, <1>3, <1>4
  <2>2. CASE c # h
    <3>1. chunks'[c] = chunks[c] /\ chunks[c] \in ChunkRec
      BY <2>2, <1>0, <1>4, Records
    <3>2. chunks[c].live # TRUE
      BY <2>2, <3>1, <1>0 DEF LiveIsFirst, h
    <3> QED
      BY <3>1, <3>2 DEF ChunkRec
  <2> QED
    BY <2>1, <2>2
<1> QED
  BY <1>5, <1>6, <1>7, <1>8 DEF LogInv

-----------------------------------------------------------------------------
\* The chunk the pool hands out is nobody's, and it holds nothing yet.
LEMMA TakeChunkOK ==
  ASSUME LogInv, NEW type \in {"log", "slab"}, TakeChunk(type), UNCHANGED regions
  PROVE  LET n == Len(chunks)
         IN  /\ chunks' \in Seq(ChunkRec) /\ Len(chunks') = n + 1
             /\ \A c \in 1 .. n : chunks'[c] = chunks[c]
             /\ chunks'[n + 1].type = type /\ chunks'[n + 1].live = TRUE
             /\ chunks'[n + 1].tail = PchunkSize
             /\ pool' \in PoolType
             /\ PoolOK(pool, Held)' /\ ChunksInv' /\ RegionsInv'
<1> DEFINE n == Len(chunks)
           a == ChunkAllocAddr(pool)
<1>0. TypeOK /\ PoolOK(pool, Held) /\ ChunksInv /\ RegionsInv
  BY DEF LogInv
<1>1. PICK b \in LowBytes :
        chunks' = Append(chunks, [type |-> type, paddr |-> a,
                                  header |-> b, tail |-> PchunkSize,
                                  availsize |-> ChunkSize - PchunkSize,
                                  live |-> TRUE])
  BY DEF TakeChunk
<1> DEFINE new == [type |-> type, paddr |-> a, header |-> b, tail |-> PchunkSize,
                   availsize |-> ChunkSize - PchunkSize,
                   live |-> TRUE]
<1>2. a \in ChunkAddr /\ PoolOK(ChunkAllocPool(pool), Held \cup {a})
  <2> HIDE DEF a
  <2>1. /\ ChunkAllocAddr(pool) \in ChunkAddr
        /\ PoolOK(ChunkAllocPool(pool), Held \cup {ChunkAllocAddr(pool)})
    BY <1>0, ChunkAllocOK
  <2> QED
    BY <2>1 DEF a
<1> HIDE DEF a
<1>3. ChunkSize - PchunkSize \in 0 .. SizeMod - 1
      /\ (ChunkSize - PchunkSize) % SizeMod = ChunkSize - PchunkSize
  <2>1. ChunkSize - PchunkSize \in Nat /\ ChunkSize - PchunkSize < SizeMod
    BY LogLayout
  <2> QED
    BY <2>1, LogLayout, ModSmall
<1>4. new \in ChunkRec
  <2>1. b \in 0 .. 255
    BY LogLowBytesAssumption
  <2>2. PchunkSize \in Nat
    BY LogLayout
  <2> QED
    BY <2>1, <2>2, <1>2, <1>3 DEF ChunkRec
<1>5. /\ new.type = type /\ new.live = TRUE /\ new.tail = PchunkSize
      /\ new.paddr = a /\ new.availsize = ChunkSize - PchunkSize
  OBVIOUS
<1>6. chunks' = Append(chunks, new)
  BY <1>1
<1> HIDE DEF new
<1>7. /\ chunks' \in Seq(ChunkRec) /\ Len(chunks') = n + 1
      /\ chunks'[n + 1] = new
      /\ \A c \in 1 .. n : chunks'[c] = chunks[c]
  <2>1. chunks \in Seq(ChunkRec)
    BY <1>0 DEF TypeOK
  <2> QED
    BY <2>1, <1>4, <1>6, AppendProperties
<1>n. n \in Nat
  BY <1>0, Records
<1> HIDE DEF n
<1>8. PoolOK(pool, Held)' /\ pool' \in PoolType
  <2>1. pool' = ChunkAllocPool(pool)
    BY DEF TakeChunk
  <2>2. Held' = {chunks'[c].paddr : c \in 1 .. n + 1}
        /\ Held = {chunks[c].paddr : c \in 1 .. n}
    BY <1>7 DEF Held, n
  <2>3. \A c \in 1 .. n + 1 : c \in 1 .. n \/ c = n + 1
    BY <1>n
  <2>4. (\A c \in 1 .. n : c \in 1 .. n + 1) /\ n + 1 \in 1 .. n + 1
    BY <1>n
  <2>5. Held' = Held \cup {a}
    BY <2>2, <2>3, <2>4, <1>5, <1>7
  <2> QED
    BY <2>1, <2>5, <1>2 DEF PoolOK
<1>9. ChunksInv'
  <2>1. \A c : Sound(c)' <=> Sound(c)
    BY DEF Sound
  <2>2. ASSUME NEW c \in 1 .. n
        PROVE  /\ PchunkSize <= chunks'[c].tail
               /\ chunks'[c].availsize = (ChunkSize - chunks'[c].tail) % SizeMod
               /\ Sound(c)' => chunks'[c].tail <= ChunkSize
    BY <2>1, <1>0, <1>7 DEF ChunksInv, n
  <2>3. /\ PchunkSize <= chunks'[n + 1].tail
        /\ chunks'[n + 1].availsize = (ChunkSize - chunks'[n + 1].tail) % SizeMod
        /\ chunks'[n + 1].tail <= ChunkSize
    BY <1>3, <1>5, <1>7, LogLayout
  <2>4. \A c \in 1 .. n + 1 : c \in 1 .. n \/ c = n + 1
    BY <1>n
  <2> QED
    BY <2>2, <2>3, <2>4, <1>7 DEF ChunksInv
<1>10. RegionsInv'
  <2>1. ASSUME NEW i \in 1 .. Len(regions)
        PROVE  /\ regions[i].ch \in 1 .. n + 1
               /\ PchunkSize <= regions[i].at
               /\ RegionEnd(i) <= chunks'[regions[i].ch].tail
               /\ regions[i].at + PregionSize + regions[i].req <= RegionEnd(i)
    <3>1. /\ regions[i].ch \in 1 .. n
          /\ PchunkSize <= regions[i].at
          /\ RegionEnd(i) <= chunks[regions[i].ch].tail
          /\ regions[i].at + PregionSize + regions[i].req <= RegionEnd(i)
      BY <1>0 DEF RegionsInv, n
    <3>2. regions[i].ch \in 1 .. n + 1
      BY <3>1, <1>n
    <3>3. chunks'[regions[i].ch] = chunks[regions[i].ch]
      BY <3>1, <1>7
    <3> QED
      BY <3>1, <3>2, <3>3
  <2>2. \A i, j \in 1 .. Len(regions) :
          i # j /\ regions[i].ch = regions[j].ch =>
            RegionEnd(i) <= regions[j].at \/ RegionEnd(j) <= regions[i].at
    BY <1>0 DEF RegionsInv
  <2>3. \A i : RegionEnd(i)' = RegionEnd(i)
    BY DEF RegionEnd
  <2> QED
    BY <2>1, <2>2, <2>3, <1>7 DEF RegionsInv
<1> QED
  BY <1>5, <1>7, <1>8, <1>9, <1>10 DEF n

\* The chunk that replaces the retired one becomes the first, and the only
\* live one.
LEMMA NewChunkOK ==
  ASSUME NEW t \in Threads, LogInv, NewChunk(t)
  PROVE  LogInv'
<1> DEFINE n == Len(chunks)
<1>0. TypeOK /\ LockInv /\ LocalsInv /\ FirstIsLog /\ LiveIsFirst
  BY DEF LogInv
<1>1. /\ pc[t] = "new" /\ pc' = [pc EXCEPT ![t] = "append"]
      /\ TakeChunk("log")
      /\ avail_chunks' = <<n + 1>> \o avail_chunks
      /\ ch' = [ch EXCEPT ![t] = n + 1]
      /\ tail' = [tail EXCEPT ![t] = PchunkSize]
      /\ UNCHANGED <<lock, req, regions, proc>>
  BY DEF NewChunk, Go
<1>2. /\ chunks' \in Seq(ChunkRec) /\ Len(chunks') = n + 1
      /\ \A c \in 1 .. n : chunks'[c] = chunks[c]
      /\ chunks'[n + 1].type = "log" /\ chunks'[n + 1].live = TRUE
      /\ chunks'[n + 1].tail = PchunkSize
      /\ pool' \in PoolType
      /\ PoolOK(pool, Held)' /\ ChunksInv' /\ RegionsInv'
  BY <1>1, TakeChunkOK
<1>n. n \in Nat
  BY <1>0, Records
<1> HIDE DEF n
<1>3. /\ avail_chunks' \in Seq(1 .. n + 1) /\ avail_chunks' # <<>>
      /\ Head(avail_chunks') = n + 1
  <2>1. avail_chunks \in Seq(1 .. n)
    BY <1>0 DEF TypeOK, n
  <2>2. 1 .. n \subseteq 1 .. n + 1 /\ n + 1 \in 1 .. n + 1
    BY <1>n
  <2>3. avail_chunks \in Seq(1 .. n + 1)
    BY <2>1, <2>2, SeqMonotonic
  <2>4. <<n + 1>> \in Seq(1 .. n + 1)
    BY <2>2
  <2> QED
    BY <2>3, <2>4, <1>1
<1>4. /\ ch' \in [Threads -> Nat] /\ tail' \in [Threads -> Nat]
      /\ pc' \in [Threads -> CallPoints]
      /\ ch'[t] = n + 1 /\ tail'[t] = PchunkSize
  <2>1. PchunkSize \in Nat
    BY LogLayout
  <2> QED
    BY <2>1, <1>0, <1>1, <1>n DEF TypeOK, CallPoints
<1>5. TypeOK'
  BY <1>0, <1>1, <1>2, <1>3, <1>4 DEF TypeOK
<1>6. LockInv' /\ LocalsInv' /\ ~Replacing'
  <2>1. InCritical(t)
    BY <1>1 DEF InCritical
  <2>2. req[t] \in Requests
    BY <1>0, <1>1 DEF LocalsInv
  <2>3. Size(t) <= Capacity => tail'[t] + Size(t) <= ChunkSize
    BY <2>2, <1>4, LogLayout, RegionSizeOK
  <2> QED
    BY <2>1, <2>3, <1>0, <1>1, <1>2, <1>3, <1>4, HolderStepOK
<1>7. FirstIsLog'
  BY <1>2, <1>3 DEF FirstIsLog
<1>8. LiveIsFirst'
  <2>1. ASSUME NEW c \in 1 .. n, chunks'[c].type = "log"
        PROVE  ~chunks'[c].live
    <3>1. Replacing
      BY <1>1 DEF Replacing
    <3> QED
      BY <3>1, <2>1, <1>0, <1>2 DEF LiveIsFirst, n
  <2>2. \A c \in 1 .. n + 1 : c \in 1 .. n \/ c = n + 1
    BY <1>n
  <2>3. \A c \in 1 .. n : c # n + 1
    BY <1>n
  <2> QED
    BY <2>1, <2>2, <2>3, <1>2, <1>3, <1>6 DEF LiveIsFirst
<1> QED
  BY <1>2, <1>5, <1>6, <1>7, <1>8 DEF LogInv

\* A chunk the small path takes is no log chunk.
LEMMA SmallTakesChunkOK ==
  ASSUME NEW t \in Threads, LogInv, SmallTakesChunk(t)
  PROVE  LogInv'
<1> DEFINE n == Len(chunks)
<1>0. TypeOK /\ LockInv /\ LocalsInv /\ FirstIsLog /\ LiveIsFirst
  BY DEF LogInv
<1>1. /\ lock = NoThread /\ TakeChunk("slab")
      /\ UNCHANGED <<lock, pc, req, ch, tail, avail_chunks, regions, proc>>
  BY DEF SmallTakesChunk
<1>2. /\ chunks' \in Seq(ChunkRec) /\ Len(chunks') = n + 1
      /\ \A c \in 1 .. n : chunks'[c] = chunks[c]
      /\ chunks'[n + 1].type = "slab"
      /\ pool' \in PoolType
      /\ PoolOK(pool, Held)' /\ ChunksInv' /\ RegionsInv'
  BY <1>1, TakeChunkOK
<1>n. n \in Nat
  BY <1>0, Records
<1>h. avail_chunks # <<>> => Head(avail_chunks) \in 1 .. n
  BY <1>0, Records
<1> HIDE DEF n
<1>3. avail_chunks' \in Seq(1 .. Len(chunks'))
  <2>1. avail_chunks \in Seq(1 .. n)
    BY <1>0 DEF TypeOK, n
  <2>2. 1 .. n \subseteq 1 .. n + 1
    BY <1>n
  <2>3. avail_chunks \in Seq(1 .. n + 1)
    BY <2>1, <2>2, SeqMonotonic
  <2> QED
    BY <2>3, <1>1, <1>2
<1>4. TypeOK'
  BY <1>0, <1>1, <1>2, <1>3 DEF TypeOK
<1>5. LockInv' /\ LocalsInv' /\ ~Replacing /\ ~Replacing'
  BY <1>0, <1>1, NobodyInside
<1>6. ASSUME NEW c \in 1 .. n + 1, chunks'[c].type = "log"
      PROVE  c \in 1 .. n /\ chunks'[c] = chunks[c]
  <2>1. c # n + 1
    BY <1>2, <1>6
  <2> QED
    BY <2>1, <1>n, <1>2
<1>7. FirstIsLog'
  <2>1. avail_chunks # <<>> => chunks[Head(avail_chunks)].type = "log"
    BY <1>0 DEF FirstIsLog
  <2>2. \A c \in 1 .. n : chunks[c].type = "log" => avail_chunks # <<>>
    BY <1>0 DEF FirstIsLog, n
  <2> QED
    BY <2>1, <2>2, <1>1, <1>2, <1>h, <1>6 DEF FirstIsLog
<1>8. LiveIsFirst'
  BY <1>0, <1>1, <1>2, <1>5, <1>6 DEF LiveIsFirst, n
<1> QED
  BY <1>2, <1>4, <1>5, <1>7, <1>8 DEF LogInv

-----------------------------------------------------------------------------
\* The region is the bytes between the old tail and the new one.
LEMMA AppendRegionOK ==
  ASSUME NEW t \in Threads, LogInv, AppendRegion(t)
  PROVE  LogInv'
<1> DEFINE n == Len(regions)
           c == ch[t]
           tl == tail[t]
           size == Size(t)
           rec == [chunks[c] EXCEPT !.tail = tl + size,
                                    !.availsize = (@ - size) % SizeMod]
           new == [ch |-> c, at |-> tl, size |-> size, req |-> req[t]]
<1>0. /\ TypeOK /\ LockInv /\ LocalsInv /\ FirstIsLog /\ LiveIsFirst
      /\ ChunksInv /\ RegionsInv /\ PoolOK(pool, Held)
  BY DEF LogInv
<1>1. /\ pc[t] = "append" /\ pc' = [pc EXCEPT ![t] = "unlock"]
      /\ chunks' = [chunks EXCEPT ![c] = rec]
      /\ regions' = Append(regions, new)
      /\ UNCHANGED <<lock, req, ch, tail, pool, avail_chunks, proc>>
  BY DEF AppendRegion, NewRegion, Go
<1>2. /\ avail_chunks # <<>> /\ c = Head(avail_chunks) /\ req[t] \in Requests
      /\ tl = chunks[c].tail
      /\ Sound(c) /\ size <= Capacity => tl + size <= ChunkSize
  BY <1>0, <1>1 DEF LocalsInv
<1>3. c \in 1 .. Len(chunks) /\ chunks[c] \in ChunkRec /\ c \in Nat
  BY <1>0, <1>2, Records
<1>4. /\ tl \in Nat /\ size \in Nat /\ req[t] \in Nat
      /\ PregionSize + req[t] <= size
  BY <1>0, <1>2, <1>3, Records, RegionSizeOK
<1>5. /\ chunks[c].availsize = (ChunkSize - tl) % SizeMod
      /\ PchunkSize <= tl
  BY <1>0, <1>2, <1>3 DEF ChunksInv
<1>6. /\ rec.tail = tl + size /\ rec.type = chunks[c].type
      /\ rec.paddr = chunks[c].paddr /\ rec.live = chunks[c].live
      /\ rec.availsize = (chunks[c].availsize - size) % SizeMod
  BY <1>3 DEF ChunkRec
<1> HIDE DEF c, tl, size
<1>7. /\ (chunks[c].availsize - size) % SizeMod = (ChunkSize - (tl + size)) % SizeMod
      /\ (ChunkSize - (tl + size)) % SizeMod \in 0 .. SizeMod - 1
  <2> DEFINE a == ChunkSize - tl
  <2>1. a \in Int /\ a - size \in Int /\ a - size = ChunkSize - (tl + size)
    BY <1>4, LogLayout
  <2>2. chunks[c].availsize = a % SizeMod
    BY <1>5
  <2> HIDE DEF a
  <2>3. ((a % SizeMod) - size) % SizeMod = (a - size) % SizeMod
    <3>1. a \in Int /\ size \in Int /\ SizeMod \in Nat \ {0}
      BY <2>1, <1>4, LogLayout
    <3> QED
      BY <3>1, ModSub, Zenon
  <2>4. (a - size) % SizeMod \in Int /\ 0 <= (a - size) % SizeMod
        /\ (a - size) % SizeMod < SizeMod
    BY <2>1, LogLayout, DivMod
  <2>5. (a - size) % SizeMod \in 0 .. SizeMod - 1
    BY <2>4, LogLayout
  <2> QED
    BY <2>1, <2>2, <2>3, <2>5
<1>8. rec \in ChunkRec
  <2>1. tl + size \in Nat
    BY <1>4
  <2>2. (chunks[c].availsize - size) % SizeMod \in 0 .. SizeMod - 1
    BY <1>7
  <2> QED
    BY <2>1, <2>2, <1>3 DEF ChunkRec
<1> HIDE DEF rec
<1>9. /\ chunks' \in Seq(ChunkRec) /\ Len(chunks') = Len(chunks)
      /\ \A d \in 1 .. Len(chunks) : chunks'[d] = IF d = c THEN rec ELSE chunks[d]
  <2>1. chunks \in Seq(ChunkRec)
    BY <1>0 DEF TypeOK
  <2> QED
    BY <2>1, <1>1, <1>3, <1>8, ExceptSeq
<1>10. /\ new \in RegionRec
       /\ new.ch = c /\ new.at = tl /\ new.size = size /\ new.req = req[t]
  BY <1>3, <1>4 DEF RegionRec
<1> HIDE DEF new
<1>n. n \in Nat
  BY <1>0, Records
<1>11. /\ regions' \in Seq(RegionRec) /\ Len(regions') = n + 1
       /\ regions'[n + 1] = new
       /\ \A i \in 1 .. n : regions'[i] = regions[i]
  <2>1. regions \in Seq(RegionRec)
    BY <1>0 DEF TypeOK
  <2> QED
    BY <2>1, <1>1, <1>10, AppendProperties
<1> HIDE DEF n
<1>c. /\ \A i \in 1 .. n + 1 : i \in 1 .. n \/ i = n + 1
      /\ \A i \in 1 .. n : i \in 1 .. n + 1 /\ i # n + 1
      /\ n + 1 \in 1 .. n + 1
  BY <1>n
<1>12. TypeOK'
  <2>1. pc' \in [Threads -> CallPoints]
    BY <1>0, <1>1 DEF TypeOK, CallPoints
  <2> QED
    BY <2>1, <1>0, <1>1, <1>9, <1>11 DEF TypeOK
<1>13. LockInv' /\ LocalsInv' /\ ~Replacing /\ ~Replacing'
  <2>1. InCritical(t)
    BY <1>1 DEF InCritical
  <2> QED
    BY <2>1, <1>0, <1>1, HolderStepOK
<1>14. /\ \A d \in 1 .. Len(chunks) : /\ chunks'[d].type = chunks[d].type
                                      /\ chunks'[d].paddr = chunks[d].paddr
                                      /\ chunks'[d].live = chunks[d].live
       /\ \A d \in 1 .. Len(chunks) :
            chunks'[d].tail = IF d = c THEN tl + size ELSE chunks[d].tail
  BY <1>6, <1>9
<1>15. PoolOK(pool, Held)'
  <2>1. Held' = Held
    BY <1>9, <1>14 DEF Held
  <2> QED
    BY <2>1, <1>0, <1>1
<1>16. ChunksInv'
  <2>1. ASSUME NEW d \in 1 .. Len(chunks), Sound(d)'
        PROVE  Sound(d) /\ (d = c => size <= Capacity)
    <3>1. \A i \in 1 .. n + 1 : regions'[i].ch = d => regions'[i].size <= Capacity
      BY <2>1, <1>11 DEF Sound
    <3>2. Sound(d)
      BY <3>1, <1>11, <1>c DEF Sound, n
    <3> QED
      BY <3>1, <3>2, <1>10, <1>11, <1>c
  <2>2. ASSUME NEW d \in 1 .. Len(chunks), d = c
        PROVE  /\ PchunkSize <= chunks'[d].tail
               /\ chunks'[d].availsize = (ChunkSize - chunks'[d].tail) % SizeMod
               /\ Sound(d)' => chunks'[d].tail <= ChunkSize
    <3>1. PchunkSize <= tl + size
      BY <1>4, <1>5, LogLayout
    <3>2. chunks'[d].availsize = (ChunkSize - (tl + size)) % SizeMod
      BY <2>2, <1>6, <1>7, <1>9
    <3> QED
      BY <3>1, <3>2, <2>1, <2>2, <1>2, <1>14 DEF c, tl, size
  <2>3. ASSUME NEW d \in 1 .. Len(chunks), d # c
        PROVE  /\ PchunkSize <= chunks'[d].tail
               /\ chunks'[d].availsize = (ChunkSize - chunks'[d].tail) % SizeMod
               /\ Sound(d)' => chunks'[d].tail <= ChunkSize
    BY <2>1, <2>3, <1>0, <1>9 DEF ChunksInv
  <2> QED
    BY <2>2, <2>3, <1>9 DEF ChunksInv
<1>17. RegionsInv'
  <2>1. ASSUME NEW i \in 1 .. n
        PROVE  /\ regions[i].ch \in 1 .. Len(chunks)
               /\ PchunkSize <= regions[i].at
               /\ RegionEnd(i) <= chunks[regions[i].ch].tail
               /\ regions[i].at + PregionSize + regions[i].req <= RegionEnd(i)
               /\ RegionEnd(i)' = RegionEnd(i)
               /\ regions'[i] = regions[i]
               /\ RegionEnd(i) \in Nat
    BY <1>0, <1>11, Records DEF RegionsInv, RegionEnd, n
  <2>2. /\ \A i \in {n + 1} : RegionEnd(i)' = tl + size
        /\ regions'[n + 1].ch = c /\ regions'[n + 1].at = tl
        /\ regions'[n + 1].req = req[t]
    BY <1>10, <1>11 DEF RegionEnd
  <2>3. \A i \in 1 .. n : regions[i].ch = c => RegionEnd(i) <= tl
    BY <2>1, <1>2 DEF c, tl, size
  <2>4. ASSUME NEW i \in 1 .. n
        PROVE  RegionEnd(i) <= chunks'[regions[i].ch].tail
    <3>1. CASE regions[i].ch = c
      <4>1. RegionEnd(i) <= tl + size
        BY <3>1, <2>1, <2>3, <1>4
      <4> QED
        BY <4>1, <3>1, <1>3, <1>14
    <3>2. CASE regions[i].ch # c
      BY <3>2, <2>1, <1>14
    <3> QED
      BY <3>1, <3>2
  <2>5. ASSUME NEW i \in 1 .. n + 1
        PROVE  /\ regions'[i].ch \in 1 .. Len(chunks')
               /\ PchunkSize <= regions'[i].at
               /\ RegionEnd(i)' <= chunks'[regions'[i].ch].tail
               /\ regions'[i].at + PregionSize + regions'[i].req <= RegionEnd(i)'
    <3>1. CASE i \in 1 .. n
      BY <3>1, <2>1, <2>4, <1>9
    <3>2. CASE i = n + 1
      <4>1. tl + PregionSize + req[t] <= tl + size
        BY <1>4, LogLayout
      <4>2. chunks'[c].tail = tl + size /\ tl + size <= tl + size
        BY <1>3, <1>4, <1>14
      <4> QED
        BY <4>1, <4>2, <3>2, <2>2, <1>3, <1>5, <1>9
    <3> QED
      BY <3>1, <3>2, <1>c
  <2>6. ASSUME NEW i \in 1 .. n + 1, NEW j \in 1 .. n + 1, i # j,
               regions'[i].ch = regions'[j].ch
        PROVE  RegionEnd(i)' <= regions'[j].at \/ RegionEnd(j)' <= regions'[i].at
    <3>1. CASE i \in 1 .. n /\ j \in 1 .. n
      BY <3>1, <2>1, <2>6, <1>0 DEF RegionsInv, n
    <3>2. CASE i \in 1 .. n /\ j = n + 1
      BY <3>2, <2>1, <2>2, <2>3, <2>6
    <3>3. CASE i = n + 1 /\ j \in 1 .. n
      BY <3>3, <2>1, <2>2, <2>3, <2>6
    <3> QED
      BY <3>1, <3>2, <3>3, <2>6, <1>c
  <2> QED
    BY <2>5, <2>6, <1>11 DEF RegionsInv
<1>18. FirstIsLog'
  BY <1>0, <1>1, <1>9, <1>14, Records DEF FirstIsLog
<1>19. LiveIsFirst'
  BY <1>0, <1>1, <1>9, <1>13, <1>14 DEF LiveIsFirst
<1> QED
  BY <1>12, <1>13, <1>15, <1>16, <1>17, <1>18, <1>19 DEF LogInv

-----------------------------------------------------------------------------
LEMMA InitOK == Init => LogInv
<1> SUFFICES ASSUME Init PROVE LogInv
  OBVIOUS
<1>1. Held = {} /\ PoolOK(pool, {})
  BY CreateOK DEF Held, Init
<1>2. TypeOK
  <2>1. pool \in PoolType
    BY <1>1 DEF PoolOK
  <2> QED
    BY <2>1, EmptySeq DEF Init, TypeOK, CallPoints
<1>3. LockInv /\ LocalsInv
  BY LogThreadsAssumption DEF Init, LockInv, InCritical, LocalsInv
<1>4. ChunksInv /\ RegionsInv /\ FirstIsLog /\ LiveIsFirst
  BY DEF Init, ChunksInv, RegionsInv, FirstIsLog, LiveIsFirst
<1> QED
  BY <1>1, <1>2, <1>3, <1>4 DEF LogInv

LEMMA NextOK == LogInv /\ [Next]_vars => LogInv'
<1> SUFFICES ASSUME LogInv, [Next]_vars PROVE LogInv'
  OBVIOUS
<1>1. ASSUME NEW t \in Threads, Malloc(t) \/ InCall(t) PROVE LogInv'
  BY <1>1, StaysPut, QuietOK, RetireOK, NewChunkOK, AppendRegionOK DEF InCall, Quiet
<1>2. ASSUME NEW t \in Threads, SmallTakesChunk(t) PROVE LogInv'
  BY <1>2, SmallTakesChunkOK
<1>3. ASSUME NEW t \in Threads, FreeSome(t) PROVE LogInv'
  BY <1>3, StaysPut, QuietOK DEF Quiet
<1>4. CASE UNCHANGED vars
  <2>1. UNCHANGED mem
    BY <1>4 DEF vars
  <2>2. TypeOK' /\ LockInv' /\ LiveIsFirst'
    BY <2>1, <1>4 DEF LogInv, TypeOK, LockInv, InCritical, LiveIsFirst, Replacing,
                      vars, mem
  <2>3. LocalsInv'
    BY <2>1, <1>4 DEF LogInv, LocalsInv, Sound, Size, vars, mem
  <2> QED
    BY <2>1, <2>2, <2>3, MemUnchanged DEF LogInv
<1> QED
  BY <1>1, <1>2, <1>3, <1>4 DEF Next, Ended

(***************************************************************************)
(* Every state of the large path satisfies the inductive invariant: the    *)
(* thread inside arena_malloc_large holds arena->lock, the tail it has     *)
(* read is still the chunk's, and of the log chunks only the first of      *)
(* avail_chunks is live, whatever the small path takes from the pool in    *)
(* between and where lsfree is called, also where the store through NULL   *)
(* goes well and after a region has covered the chunk behind its own.      *)
(***************************************************************************)
THEOREM LogInvariant == Spec => []LogInv
<1>1. Init => LogInv
  BY InitOK
<1>2. LogInv /\ [Next]_vars => LogInv'
  BY NextOK
<1> QED
  BY <1>1, <1>2, PTL DEF Spec

(***************************************************************************)
(* arena_malloc_large returns memory that nothing else uses: regions of a  *)
(* chunk never share a byte with each other or the chunk's header, hold    *)
(* what was asked for, and stay inside the chunk unless one of them was    *)
(* asked for with a size that no chunk holds.                              *)
(***************************************************************************)
THEOREM RegionsAreApart == Spec => []RegionsApart
<1>1. LogInv => RegionsApart
  <2> SUFFICES ASSUME LogInv PROVE RegionsApart
    OBVIOUS
  <2>0. TypeOK /\ ChunksInv /\ RegionsInv
    BY DEF LogInv
  <2>1. ASSUME NEW i \in 1 .. Len(regions), Sound(regions[i].ch)
        PROVE  RegionEnd(i) <= ChunkSize
    <3> DEFINE c == regions[i].ch
    <3>1. c \in 1 .. Len(chunks) /\ RegionEnd(i) <= chunks[c].tail
      BY <2>0 DEF RegionsInv
    <3>2. RegionEnd(i) \in Nat /\ chunks[c].tail \in Nat
      BY <2>0, <3>1, Records
    <3>3. chunks[c].tail <= ChunkSize
      BY <2>0, <2>1, <3>1 DEF ChunksInv
    <3> QED
      BY <3>1, <3>2, <3>3, LogLayout
  <2>2. ASSUME NEW i \in 1 .. Len(regions)
        PROVE  /\ regions[i].at >= PchunkSize
               /\ regions[i].at + PregionSize + regions[i].req <= RegionEnd(i)
    <3>1. regions[i].at \in Nat /\ PchunkSize \in Nat
      BY <2>0, Records, LogLayout
    <3> QED
      BY <3>1, <2>0 DEF RegionsInv
  <2> QED
    BY <2>0, <2>1, <2>2 DEF RegionsApart, RegionsInv
<1> QED
  BY <1>1, LogInvariant, PTL

-----------------------------------------------------------------------------
(***************************************************************************)
(* The counters of a chunk, and the byte at its beginning.                 *)
(***************************************************************************)
CountersInv ==
  \A c \in 1 .. Len(chunks) :
    /\ chunks[c].tail = PchunkSize + Total(c)
    /\ chunks[c].header \in LowBytes

\* The regions of a chunk are finitely many, and their sizes naturals.
LEMMA Summands ==
  ASSUME TypeOK, NEW c
  PROVE  /\ IsFiniteSet(RegionsOf(c))
         /\ RegionsOf(c) \subseteq 1 .. Len(regions)
         /\ \A i \in 1 .. Len(regions) : Sizes[i] = regions[i].size /\ Sizes[i] \in Nat
<1>1. Len(regions) \in Nat /\ \A i \in 1 .. Len(regions) : regions[i].size \in Nat
  BY Records
<1>2. RegionsOf(c) \subseteq 1 .. Len(regions)
  BY DEF RegionsOf
<1>3. IsFiniteSet(1 .. Len(regions))
  BY <1>1, FS_Interval
<1>4. IsFiniteSet(RegionsOf(c))
  BY <1>2, <1>3, FS_Subset
<1> QED
  BY <1>1, <1>2, <1>4 DEF Sizes

\* A chunk in which nothing is allocated or marked.
LEMMA SameCounters ==
  ASSUME NEW c \in 1 .. Len(chunks), CountersInv, UNCHANGED regions,
         chunks'[c].tail = chunks[c].tail,
         chunks'[c].header = chunks[c].header
  PROVE  /\ chunks'[c].tail = PchunkSize + Total(c)'
         /\ chunks'[c].header \in LowBytes
<1>1. Sizes' = Sizes /\ RegionsOf(c)' = RegionsOf(c)
  BY DEF Sizes, RegionsOf
<1>2. Total(c)' = Total(c)
  BY <1>1 DEF Total
<1> QED
  BY <1>2 DEF CountersInv

\* A chunk taken from the pool holds nothing.
LEMMA NewCounters ==
  ASSUME LogInv, CountersInv, NEW type \in {"log", "slab"}, TakeChunk(type),
         UNCHANGED regions
  PROVE  CountersInv'
<1>0. /\ chunks \in Seq(ChunkRec) /\ Len(chunks) \in Nat /\ RegionsInv /\ TypeOK
      /\ Len(regions) \in Nat
  BY Records DEF LogInv, TypeOK
<1>1. PICK n : n = Len(chunks) + 1
  OBVIOUS
<1>2. PICK rec : /\ chunks' = Append(chunks, rec)
                 /\ rec.tail = PchunkSize
                 /\ rec.header \in LowBytes
  BY DEF TakeChunk
<1>3. /\ Len(chunks') = n /\ chunks'[n] = rec
      /\ \A c \in 1 .. Len(chunks) : chunks'[c] = chunks[c]
  BY <1>0, <1>1, <1>2
<1>4. RegionsOf(n)' = {}
  BY <1>0, <1>1 DEF RegionsOf, RegionsInv
<1>5. Total(n)' = 0
  BY <1>4, SumEmpty DEF Total
<1>6. ASSUME NEW c \in 1 .. n
      PROVE  /\ chunks'[c].tail = PchunkSize + Total(c)'
             /\ chunks'[c].header \in LowBytes
  <2>1. CASE c = n
    BY <2>1, <1>2, <1>3, <1>5, LogLayout
  <2>2. CASE c # n
    <3>1. c \in 1 .. Len(chunks)
      BY <2>2, <1>0, <1>1
    <3> QED
      BY <3>1, <1>3, SameCounters
  <2> QED
    BY <2>1, <2>2
<1> QED
  BY <1>3, <1>6 DEF CountersInv

\* A region appended to a chunk counts with its size.
LEMMA AppendCounters ==
  ASSUME NEW t \in Threads, LogInv, CountersInv, AppendRegion(t)
  PROVE  CountersInv'
<1>0. /\ TypeOK /\ TypeOK' /\ LocalsInv /\ chunks \in Seq(ChunkRec)
      /\ regions \in Seq(RegionRec) /\ Len(regions) \in Nat
  BY AppendRegionOK, Records DEF LogInv, TypeOK
<1>1. PICK c, size, n : c = ch[t] /\ size = Size(t) /\ n = Len(regions) + 1
  OBVIOUS
<1>2. pc[t] = "append"
  BY DEF AppendRegion, Go
<1>3. /\ avail_chunks # <<>> /\ c = Head(avail_chunks) /\ req[t] \in Requests
      /\ tail[t] = chunks[c].tail
  BY <1>0, <1>1, <1>2 DEF LocalsInv
<1>4. c \in 1 .. Len(chunks) /\ size \in Nat /\ chunks[c] \in ChunkRec
  BY <1>0, <1>1, <1>3, Records, RegionSizeOK
<1>5. PICK rec, new :
        /\ chunks' = [chunks EXCEPT ![c] = rec] /\ regions' = Append(regions, new)
        /\ rec.tail = chunks[c].tail + size
        /\ rec.header = chunks[c].header
        /\ new.ch = c /\ new.size = size
  <2> DEFINE rec == [chunks[c] EXCEPT !.tail = tail[t] + Size(t),
                                      !.availsize = (@ - Size(t)) % SizeMod]
             new == [ch |-> ch[t], at |-> tail[t], size |-> Size(t),
                     req |-> req[t]]
  <2>1. chunks' = [chunks EXCEPT ![c] = rec] /\ regions' = Append(regions, new)
    BY <1>1 DEF AppendRegion, NewRegion
  <2>2. /\ rec.tail = chunks[c].tail + size
        /\ rec.header = chunks[c].header
    BY <1>1, <1>3, <1>4 DEF ChunkRec
  <2>3. new.ch = c /\ new.size = size
    BY <1>1
  <2> HIDE DEF rec, new
  <2> QED
    BY <2>1, <2>2, <2>3
<1>6. /\ Len(chunks') = Len(chunks)
      /\ \A d \in 1 .. Len(chunks) : chunks'[d] = IF d = c THEN rec ELSE chunks[d]
  BY <1>0, <1>4, <1>5
<1>7. /\ Len(regions') = n /\ regions'[n] = new /\ n \notin 1 .. Len(regions)
      /\ \A i \in 1 .. Len(regions) : regions'[i] = regions[i]
      /\ 1 .. Len(regions') = 1 .. Len(regions) \cup {n}
  BY <1>0, <1>1, <1>5
<1>8. /\ \A i \in 1 .. Len(regions) : Sizes'[i] = Sizes[i] /\ Sizes'[i] \in Nat
      /\ Sizes'[n] = size
  BY <1>0, <1>1, <1>4, <1>5, <1>7, Summands DEF Sizes
<1>9. ASSUME NEW d, d = c
      PROVE  Total(d)' = Total(d) + size
  <2>1. PICK S : S = RegionsOf(d)
    OBVIOUS
  <2>2. RegionsOf(d)' = S \cup {n}
    BY <1>5, <1>7, <1>9, <2>1 DEF RegionsOf
  <2>3. IsFiniteSet(S) /\ S \subseteq 1 .. Len(regions) /\ n \notin S
    BY <1>0, <1>7, <2>1, Summands
  <2>4. SumFunctionOnSet(Sizes', S \cup {n}) = SumFunctionOnSet(Sizes', S) + Sizes'[n]
    BY <1>4, <1>8, <2>3, SumAdd
  <2>5. SumFunctionOnSet(Sizes', S) = SumFunctionOnSet(Sizes, S)
    BY <1>8, <2>3, SumSame
  <2> QED
    BY <1>8, <2>1, <2>2, <2>4, <2>5 DEF Total
<1>10. ASSUME NEW d, d # c
       PROVE  Total(d)' = Total(d)
  <2>1. RegionsOf(d)' = RegionsOf(d)
    BY <1>5, <1>7, <1>10 DEF RegionsOf
  <2>2. IsFiniteSet(RegionsOf(d)) /\ RegionsOf(d) \subseteq 1 .. Len(regions)
    BY <1>0, Summands
  <2>3. SumFunctionOnSet(Sizes', RegionsOf(d))
          = SumFunctionOnSet(Sizes, RegionsOf(d))
    BY <1>8, <2>2, SumSame
  <2> QED
    BY <2>1, <2>3 DEF Total
<1>11. ASSUME NEW d \in 1 .. Len(chunks)
       PROVE  /\ chunks'[d].tail = PchunkSize + Total(d)'
              /\ chunks'[d].header \in LowBytes
  <2>1. /\ chunks[d].tail = PchunkSize + Total(d)
        /\ chunks[d].header \in LowBytes
    BY DEF CountersInv
  <2>3. CASE d = c
    <3>1. Total(d)' = Total(d) + size
      BY <1>9, <2>3
    <3>2. Total(d) \in Nat /\ PchunkSize \in Nat
      <4>1. PICK S : S = RegionsOf(d)
        OBVIOUS
      <4>2. IsFiniteSet(S) /\ \A i \in S : Sizes[i] \in Nat
        BY <1>0, <4>1, Summands
      <4> QED
        BY <4>1, <4>2, SumType, LogLayout DEF Total
    <3>3. chunks'[d] = rec
      BY <1>6, <2>3
    <3>4. rec.tail = PchunkSize + (Total(d) + size)
      BY <1>4, <1>5, <2>1, <2>3, <3>2
    <3> QED
      BY <1>5, <2>1, <2>3, <3>1, <3>3, <3>4
  <2>4. CASE d # c
    <3>1. Total(d)' = Total(d)
      BY <1>10, <2>4
    <3> QED
      BY <1>6, <2>1, <2>4, <3>1
  <2> QED
    BY <2>3, <2>4
<1> QED
  BY <1>6, <1>11 DEF CountersInv

LEMMA NextCountersOK == LogInv /\ CountersInv /\ [Next]_vars => CountersInv'
<1> SUFFICES ASSUME LogInv, CountersInv, [Next]_vars PROVE CountersInv'
  OBVIOUS
<1>1. ASSUME UNCHANGED <<chunks, regions>> PROVE CountersInv'
  BY <1>1, SameCounters DEF CountersInv
<1>2. ASSUME NEW t \in Threads, Quiet(t) PROVE CountersInv'
  BY <1>1, <1>2 DEF Quiet, Malloc, Lock, FirstSuits, RetireNull, Stays,
                    Unlock, mem
<1>3. ASSUME NEW t \in Threads, Retire(t) PROVE CountersInv'
  <2>0. TypeOK /\ chunks \in Seq(ChunkRec)
    BY DEF LogInv, TypeOK
  <2>1. PICK h : h = Head(avail_chunks)
    OBVIOUS
  <2>2. /\ h \in 1 .. Len(chunks) /\ chunks[h] \in ChunkRec /\ UNCHANGED regions
        /\ chunks' = [chunks EXCEPT ![h].live = FALSE]
    BY <1>3, <2>0, <2>1, Records DEF Retire
  <2>3. PICK rec : /\ chunks' = [chunks EXCEPT ![h] = rec]
                   /\ rec.tail = chunks[h].tail /\ rec.header = chunks[h].header
    <3> DEFINE rec == [chunks[h] EXCEPT !.live = FALSE]
    <3>1. chunks' = [chunks EXCEPT ![h] = rec]
      BY <2>2
    <3>2. /\ rec.tail = chunks[h].tail /\ rec.header = chunks[h].header
      BY <2>2 DEF ChunkRec
    <3> HIDE DEF rec
    <3> QED
      BY <3>1, <3>2
  <2>4. /\ Len(chunks') = Len(chunks)
        /\ \A c \in 1 .. Len(chunks) :
             /\ chunks'[c].tail = chunks[c].tail
             /\ chunks'[c].header = chunks[c].header
    BY <2>0, <2>2, <2>3
  <2> QED
    BY <2>2, <2>4, SameCounters DEF CountersInv
<1>4. ASSUME NEW t \in Threads, NewChunk(t) \/ SmallTakesChunk(t)
      PROVE  CountersInv'
  BY <1>4, NewCounters DEF NewChunk, SmallTakesChunk
<1>6. CASE Ended \/ UNCHANGED vars
  BY <1>1, <1>6 DEF Ended, vars, mem
<1> QED
  BY <1>2, <1>3, <1>4, <1>6, AppendCounters, StaysPut DEF Next, InCall, Quiet

(***************************************************************************)
(* A chunk's counters say what its list of regions says, for every number  *)
(* of regions: the tail is behind the sum of their sizes and availsize is  *)
(* the rest in size_t arithmetic, also where a request overflowed the      *)
(* chunk.                                                                  *)
(***************************************************************************)
THEOREM CountersMatchRegions == Spec => []ChunkCountersMatch
<1>1. Init => CountersInv
  BY DEF Init, CountersInv
<1>2. LogInv /\ CountersInv => ChunkCountersMatch
  BY DEF LogInv, ChunksInv, CountersInv, ChunkCountersMatch
<1> QED
  BY <1>1, <1>2, NextCountersOK, LogInvariant, PTL DEF Spec

\* What a step may do to the list of regions.
LEMMA RegionsGrow ==
  ASSUME [Next]_vars
  PROVE  \/ UNCHANGED regions
         \/ \E t \in Threads : AppendRegion(t)
<1>2. ASSUME NEW t \in Threads, Quiet(t) \/ Retire(t) \/ NewChunk(t) \/ SmallTakesChunk(t)
      PROVE  UNCHANGED regions
  BY <1>2 DEF Quiet, Malloc, Lock, FirstSuits, RetireNull, Stays, Unlock,
              Retire, NewChunk, SmallTakesChunk, mem
<1>3. CASE Ended \/ UNCHANGED vars
  BY <1>3 DEF Ended, vars, mem
<1> QED
  BY <1>2, <1>3, StaysPut DEF Next, InCall, Quiet

-----------------------------------------------------------------------------
(***************************************************************************)
(* The large path as a store of blocks.  Chunks have addresses of their    *)
(* own, since the pool hands out no chunk twice, and keep them; a thread   *)
(* between calls asks for nothing.                                         *)
(***************************************************************************)
AddressesApart ==
  \A c, d \in 1 .. Len(chunks) : c # d => chunks[c].paddr # chunks[d].paddr

IdleInv == \A t \in Threads : pc[t] = "idle" => req[t] = 0

StoreInv == LogInv /\ CountersInv /\ AddressesApart /\ IdleInv

\* A step that changes no address of a chunk the arena has.
AddressesStay ==
  /\ Len(chunks) <= Len(chunks')
  /\ \A c \in 1 .. Len(chunks) : chunks'[c].paddr = chunks[c].paddr

\* A chunk taken from the pool has an address no other has.
LEMMA TakenAddress ==
  ASSUME LogInv, NEW type \in {"log", "slab"}, TakeChunk(type)
  PROVE  /\ AddressesStay /\ Len(chunks') = Len(chunks) + 1
         /\ \A c \in 1 .. Len(chunks) :
              chunks'[Len(chunks) + 1].paddr # chunks[c].paddr
<1>0. chunks \in Seq(ChunkRec) /\ Len(chunks) \in Nat
  BY Records DEF LogInv, TypeOK
<1>1. PICK new : chunks' = Append(chunks, new) /\ new.paddr = ChunkAllocAddr(pool)
  BY DEF TakeChunk
<1>2. ChunkAllocAddr(pool) \notin Held
  BY ChunkAllocOK DEF LogInv
<1>3. PICK n \in Nat : n = Len(chunks)
  BY <1>0
<1>4. /\ Len(chunks') = n + 1 /\ chunks'[n + 1] = new
      /\ \A c \in 1 .. n : chunks'[c] = chunks[c]
  BY <1>0, <1>1, <1>3
<1>5. \A c \in 1 .. n : new.paddr # chunks[c].paddr
  BY <1>1, <1>2, <1>3 DEF Held
<1> QED
  BY <1>3, <1>4, <1>5 DEF AddressesStay

\* A step that writes to a chunk changes what is counted in it.
LEMMA WrittenAddress ==
  ASSUME LogInv, NEW t \in Threads, Retire(t) \/ AppendRegion(t)
  PROVE  AddressesStay /\ Len(chunks') = Len(chunks)
<1>0. /\ chunks \in Seq(ChunkRec) /\ Len(chunks) \in Nat
      /\ \A c \in 1 .. Len(chunks) : chunks[c] \in ChunkRec
  BY Records DEF LogInv, TypeOK
<1>1. \E w, rec : /\ chunks' = [chunks EXCEPT ![w] = rec]
                  /\ w \in 1 .. Len(chunks) => rec.paddr = chunks[w].paddr
  <2>1. CASE Retire(t)
    <3> DEFINE w == Head(avail_chunks)
               rec == [chunks[w] EXCEPT !.live = FALSE]
    <3>1. chunks' = [chunks EXCEPT ![w] = rec]
      BY <2>1 DEF Retire
    <3>2. w \in 1 .. Len(chunks) => rec.paddr = chunks[w].paddr
      BY <1>0 DEF ChunkRec
    <3> HIDE DEF w, rec
    <3> QED
      BY <3>1, <3>2
  <2>2. CASE AppendRegion(t)
    <3> DEFINE w == ch[t]
               rec == [chunks[w] EXCEPT !.tail = tail[t] + Size(t),
                                        !.availsize = (@ - Size(t)) % SizeMod]
    <3>1. chunks' = [chunks EXCEPT ![w] = rec]
      BY <2>2 DEF AppendRegion
    <3>2. w \in 1 .. Len(chunks) => rec.paddr = chunks[w].paddr
      BY <1>0 DEF ChunkRec
    <3> HIDE DEF w, rec
    <3> QED
      BY <3>1, <3>2
  <2> QED
    BY <2>1, <2>2
<1> QED
  BY <1>0, <1>1 DEF AddressesStay

\* The chunks after any step.
LEMMA ChunksAfter ==
  ASSUME LogInv, AddressesApart, [Next]_vars
  PROVE  AddressesStay /\ AddressesApart'
<1>0. Len(chunks) \in Nat
  BY Records DEF LogInv
<1>1. ASSUME AddressesStay, Len(chunks') = Len(chunks)
      PROVE  AddressesStay /\ AddressesApart'
  BY <1>1 DEF AddressesStay, AddressesApart
<1>2. ASSUME UNCHANGED chunks PROVE AddressesStay /\ AddressesApart'
  BY <1>0, <1>1, <1>2 DEF AddressesStay
<1>3. ASSUME NEW t \in Threads, Quiet(t) PROVE UNCHANGED chunks
  BY <1>3 DEF Quiet, Malloc, Lock, FirstSuits, RetireNull, Stays, Unlock, mem
<1>4. ASSUME NEW t \in Threads, NewChunk(t) \/ SmallTakesChunk(t)
      PROVE  AddressesStay /\ AddressesApart'
  <2>1. PICK n \in Nat : n = Len(chunks)
    BY <1>0
  <2>2. /\ AddressesStay /\ Len(chunks') = n + 1
        /\ \A c \in 1 .. n : chunks'[n + 1].paddr # chunks[c].paddr
    BY <1>4, <2>1, TakenAddress DEF NewChunk, SmallTakesChunk
  <2>3. \A c \in 1 .. n : chunks'[c].paddr = chunks[c].paddr
    BY <2>1, <2>2 DEF AddressesStay
  <2>4. \A c, d \in 1 .. n + 1 : c # d => chunks'[c].paddr # chunks'[d].paddr
    <3>1. \A c, d \in 1 .. n : c # d => chunks[c].paddr # chunks[d].paddr
      BY <2>1 DEF AddressesApart
    <3>2. \A c \in 1 .. n + 1 : c \in 1 .. n \/ c = n + 1
      BY <2>1
    <3> QED
      BY <2>2, <2>3, <3>1, <3>2
  <2> QED
    BY <2>2, <2>4 DEF AddressesApart
<1>5. ASSUME NEW t \in Threads, Retire(t) \/ AppendRegion(t)
      PROVE  AddressesStay /\ AddressesApart'
  BY <1>1, <1>5, WrittenAddress
<1>7. CASE Ended \/ UNCHANGED vars
  BY <1>2, <1>7 DEF Ended, vars, mem
<1> QED
  BY <1>2, <1>3, <1>4, <1>5, <1>7, StaysPut DEF Next, InCall, Quiet

LEMMA NextIdleOK == LogInv /\ IdleInv /\ [Next]_vars => IdleInv'
<1> SUFFICES ASSUME LogInv, IdleInv, [Next]_vars PROVE IdleInv'
  OBVIOUS
<1>0. pc \in [Threads -> CallPoints] /\ req \in [Threads -> Nat]
  BY DEF LogInv, TypeOK
<1>1. ASSUME UNCHANGED <<pc, req>> PROVE IdleInv'
  BY <1>1 DEF IdleInv
<1>2. ASSUME NEW t \in Threads, NEW to, to # "idle",
             pc' = [pc EXCEPT ![t] = to], req' = req
      PROVE  IdleInv'
  BY <1>0, <1>2 DEF IdleInv
<1>3. ASSUME NEW t \in Threads, Malloc(t) PROVE IdleInv'
  <2>1. PICK size \in Requests : req' = [req EXCEPT ![t] = size]
    BY <1>3 DEF Malloc
  <2>2. pc' = [pc EXCEPT ![t] = "lock"]
    BY <1>3 DEF Malloc, Go
  <2> QED
    BY <1>0, <2>1, <2>2 DEF IdleInv
<1>4. ASSUME NEW t \in Threads, Unlock(t) PROVE IdleInv'
  <2>1. pc' = [pc EXCEPT ![t] = "idle"] /\ req' = [req EXCEPT ![t] = 0]
    BY <1>4 DEF Unlock, Go
  <2> QED
    BY <1>0, <2>1 DEF IdleInv
<1>5. ASSUME NEW t \in Threads, Lock(t) \/ FirstSuits(t) \/ Retire(t) \/ NewChunk(t)
                               \/ AppendRegion(t)
      PROVE  IdleInv'
  <2>1. PICK to \in {"lookup", "append", "new", "unlock"} :
          pc' = [pc EXCEPT ![t] = to] /\ req' = req
    BY <1>5 DEF Lock, FirstSuits, Retire, NewChunk, AppendRegion, Go
  <2> QED
    BY <2>1, <1>2
<1>6. ASSUME NEW t \in Threads, RetireNull(t) PROVE IdleInv'
  <2>1. req' = req /\ (pc' = pc \/ pc' = [pc EXCEPT ![t] = "new"])
    BY <1>6 DEF RetireNull, Go
  <2> QED
    BY <2>1, <1>1, <1>2
<1>7. ASSUME NEW t \in Threads, Stays \/ SmallTakesChunk(t) PROVE IdleInv'
  BY <1>1, <1>7 DEF Stays, SmallTakesChunk
<1>8. CASE Ended \/ UNCHANGED vars
  BY <1>1, <1>8 DEF Ended, vars
<1> QED
  BY <1>3, <1>4, <1>5, <1>6, <1>7, <1>8, StaysPut DEF Next, InCall

LEMMA StoreInvariant == Spec => []StoreInv
<1>1. Init => CountersInv /\ AddressesApart /\ IdleInv
  BY DEF Init, CountersInv, AddressesApart, IdleInv
<1>2. LogInv /\ AddressesApart /\ [Next]_vars => AddressesApart'
  BY ChunksAfter
<1> QED
  BY <1>1, <1>2, NextCountersOK, NextIdleOK, LogInvariant, PTL DEF Spec, StoreInv

\* Chunks of one pool, a chunk's length apart.
LEMMA Spans ==
  ASSUME NEW a \in Nat \ {0}, NEW b \in Nat, NEW m \in Nat, a < b
  PROVE  (a - 1) * m \in Nat /\ (a - 1) * m + m <= (b - 1) * m
<1>1. PICK x, k \in Nat : a = x + 1 /\ b = x + 1 + k + 1
  <2>1. a - 1 \in Nat /\ b - a - 1 \in Nat
    OBVIOUS
  <2>2. a = (a - 1) + 1 /\ b = (a - 1) + 1 + (b - a - 1) + 1
    OBVIOUS
  <2> QED
    BY <2>1, <2>2
<1>2. a - 1 = x /\ b - 1 = x + 1 + k
  BY <1>1
<1>3. x * m \in Nat /\ k * m \in Nat
  BY SMT
<1>4. (x + 1 + k) * m = x * m + m + k * m
  BY SMT
<1> QED
  BY <1>2, <1>3, <1>4

\* A chunk lies in the mapping of its pool.
LEMMA ChunkInPool ==
  ASSUME TypeOK, NEW c \in 1 .. Len(chunks)
  PROVE  /\ chunks[c].paddr \in ChunkAddr
         /\ chunks[c].paddr[1] \in Nat \ {0} /\ chunks[c].paddr[2] \in Nat \ {0}
         /\ Offset(c) \in Nat /\ PoolBytes \in Nat
         /\ Offset(c) + ChunkSize <= PoolBytes
<1>1. chunks[c].paddr \in ChunkAddr
  BY Records DEF ChunkRec
<1>2. PICK k \in Nat \ {0}, a \in 1 .. PoolChunks : chunks[c].paddr = <<k, a>>
  BY <1>1 DEF ChunkAddr
<1>3. chunks[c].paddr[1] = k /\ chunks[c].paddr[2] = a
  BY <1>2
<1>4. Offset(c) = (a - 1) * ChunkSize /\ PoolBytes = PoolChunks * ChunkSize
  BY <1>3 DEF Offset, PoolBytes
<1>5. /\ PoolChunks \in Nat /\ a \in Nat \ {0} /\ a < PoolChunks + 1
      /\ ChunkSize \in Nat /\ PoolChunks + 1 - 1 = PoolChunks
  BY PoolChunksAssumption, LogLayout
<1>6. /\ (a - 1) * ChunkSize \in Nat
      /\ (a - 1) * ChunkSize + ChunkSize <= (PoolChunks + 1 - 1) * ChunkSize
  BY <1>5, Spans
<1>7. PoolChunks * ChunkSize \in Nat
  BY <1>5
<1> QED
  BY <1>1, <1>3, <1>4, <1>5, <1>6, <1>7

OffsetsTyped == \A c \in 1 .. Len(chunks) : Offset(c) \in Nat

LEMMA OffsetsNat == TypeOK => OffsetsTyped
  BY ChunkInPool DEF OffsetsTyped

\* Chunks of one pool do not overlap.
LEMMA ChunksApart ==
  ASSUME TypeOK, AddressesApart,
         NEW c \in 1 .. Len(chunks), NEW d \in 1 .. Len(chunks), c # d,
         chunks[c].paddr[1] = chunks[d].paddr[1]
  PROVE  \/ Offset(c) + ChunkSize <= Offset(d)
         \/ Offset(d) + ChunkSize <= Offset(c)
<1>1. PICK a, b : a = chunks[c].paddr[2] /\ b = chunks[d].paddr[2]
  OBVIOUS
<1>2. a \in Nat \ {0} /\ b \in Nat \ {0}
  BY <1>1, ChunkInPool
<1>3. a # b
  <2>1. chunks[c].paddr \in ChunkAddr /\ chunks[d].paddr \in ChunkAddr
    BY ChunkInPool
  <2>2. PICK k \in Nat, x \in Nat : chunks[c].paddr = <<k, x>>
    BY <2>1 DEF ChunkAddr
  <2>3. PICK l \in Nat, y \in Nat : chunks[d].paddr = <<l, y>>
    BY <2>1 DEF ChunkAddr
  <2>4. chunks[c].paddr # chunks[d].paddr
    BY DEF AddressesApart
  <2> QED
    BY <1>1, <2>2, <2>3, <2>4
<1>4. Offset(c) = (a - 1) * ChunkSize /\ Offset(d) = (b - 1) * ChunkSize
  BY <1>1 DEF Offset
<1>5. a < b => (a - 1) * ChunkSize + ChunkSize <= (b - 1) * ChunkSize
  BY <1>2, LogLayout, Spans
<1>6. b < a => (b - 1) * ChunkSize + ChunkSize <= (a - 1) * ChunkSize
  BY <1>2, LogLayout, Spans
<1>7. a < b \/ b < a
  BY <1>2, <1>3
<1> QED
  BY <1>4, <1>5, <1>6, <1>7

\* The bytes of a block, counted from the beginning of its chunk.
LEMMA BlockShape ==
  ASSUME LogInv, NEW i \in 1 .. Len(regions)
  PROVE  LET c == regions[i].ch
             b == Block(i)
         IN  /\ c \in 1 .. Len(chunks) /\ Offset(c) \in Nat
             /\ b.base = chunks[c].paddr[1]
             /\ b.header = Offset(c) + regions[i].at /\ regions[i].at \in Nat
             /\ b.data = b.header + PregionSize
             /\ b.end = Offset(c) + RegionEnd(i) /\ RegionEnd(i) \in Nat
             /\ b.end = b.header + regions[i].size
             /\ b.header >= Offset(c) + PchunkSize
             /\ AllFit => b.end <= Offset(c) + ChunkSize
<1>0. TypeOK /\ RegionsInv /\ ChunksInv
  BY DEF LogInv
<1>1. PICK c, o, at, sz : /\ c = regions[i].ch /\ o = Offset(c)
                          /\ at = regions[i].at /\ sz = regions[i].size
  OBVIOUS
<1>2. c \in 1 .. Len(chunks) /\ PchunkSize <= at /\ RegionEnd(i) <= chunks[c].tail
  BY <1>0, <1>1 DEF RegionsInv
<1>3. at \in Nat /\ sz \in Nat /\ chunks[c].tail \in Nat /\ o \in Nat
  BY <1>0, <1>1, <1>2, Records, ChunkInPool
<1>4. RegionEnd(i) = at + sz
  BY <1>1 DEF RegionEnd
<1>5. AllFit => chunks[c].tail <= ChunkSize
  BY <1>0, <1>2 DEF AllFit, Sound, ChunksInv
<1>6. /\ Block(i).base = chunks[c].paddr[1] /\ Block(i).header = o + at
      /\ Block(i).data = o + at + PregionSize /\ Block(i).end = o + (at + sz)
  BY <1>1, <1>4 DEF Block
<1>7. PICK pr, pc1, m : pr = PregionSize /\ pc1 = PchunkSize /\ m = ChunkSize
  OBVIOUS
<1>8. pr \in Nat /\ pc1 \in Nat /\ m \in Nat
  BY <1>7, LogLayout
<1>9. /\ o + (at + sz) = (o + at) + sz
      /\ o + at >= o + pc1
  BY <1>2, <1>3, <1>7, <1>8
<1>10. AllFit => o + (at + sz) <= o + m
  BY <1>2, <1>3, <1>4, <1>5, <1>7, <1>8
<1>11. o \in Nat /\ at \in Nat /\ at + sz \in Nat
  BY <1>3
<1> QED
  BY <1>1, <1>2, <1>4, <1>6, <1>7, <1>9, <1>10, <1>11

\* As long as all requests fit, no two blocks meet.
BlocksApart ==
  \A i, j \in 1 .. Len(regions) : i # j => Store!Apart(Block(i), Block(j))

LEMMA FittingBlocksApart == LogInv /\ AddressesApart /\ AllFit => BlocksApart
<1> SUFFICES ASSUME LogInv, AddressesApart, AllFit,
                    NEW i \in 1 .. Len(regions), NEW j \in 1 .. Len(regions), i # j
             PROVE  Store!Apart(Block(i), Block(j))
  BY DEF BlocksApart
<1>0. TypeOK /\ RegionsInv
  BY DEF LogInv
<1>1. PICK c, d, o, p : /\ c = regions[i].ch /\ d = regions[j].ch
                        /\ o = Offset(c) /\ p = Offset(d)
  OBVIOUS
<1>2. /\ c \in 1 .. Len(chunks) /\ d \in 1 .. Len(chunks)
      /\ o \in Nat /\ p \in Nat
      /\ Block(i).base = chunks[c].paddr[1] /\ Block(j).base = chunks[d].paddr[1]
      /\ Block(i).header = o + regions[i].at /\ Block(j).header = p + regions[j].at
      /\ Block(i).end = o + RegionEnd(i) /\ Block(j).end = p + RegionEnd(j)
      /\ Block(i).end <= o + ChunkSize /\ Block(j).end <= p + ChunkSize
      /\ regions[i].at \in Nat /\ regions[j].at \in Nat
      /\ RegionEnd(i) \in Nat /\ RegionEnd(j) \in Nat
  BY <1>1, BlockShape
<1>3. CASE c = d
  <2>1. RegionEnd(i) <= regions[j].at \/ RegionEnd(j) <= regions[i].at
    BY <1>0, <1>1, <1>3 DEF RegionsInv
  <2>2. o = p
    BY <1>1, <1>3
  <2>3. CASE RegionEnd(i) <= regions[j].at
    <3>1. o + RegionEnd(i) <= o + regions[j].at
      BY <1>2, <2>3
    <3>2. Block(i).end <= Block(j).header
      BY <1>2, <2>2, <3>1
    <3> QED
      BY <3>2 DEF Store!Apart
  <2>4. CASE RegionEnd(j) <= regions[i].at
    <3>1. o + RegionEnd(j) <= o + regions[i].at
      BY <1>2, <2>4
    <3>2. Block(j).end <= Block(i).header
      BY <1>2, <2>2, <3>1
    <3> QED
      BY <3>2 DEF Store!Apart
  <2> QED
    BY <2>1, <2>3, <2>4
<1>4. CASE c # d /\ chunks[c].paddr[1] = chunks[d].paddr[1]
  <2>1. o + ChunkSize <= p \/ p + ChunkSize <= o
    BY <1>0, <1>1, <1>2, <1>4, ChunksApart
  <2>2. PICK x, y, u, v, m : /\ x = regions[i].at /\ y = regions[j].at
                             /\ u = RegionEnd(i) /\ v = RegionEnd(j)
                             /\ m = ChunkSize
    OBVIOUS
  <2>3. /\ x \in Nat /\ y \in Nat /\ u \in Nat /\ v \in Nat /\ m \in Nat
        /\ o + u <= o + m /\ p + v <= p + m
    BY <1>2, <2>2, LogLayout
  <2>4. o + u <= p + y \/ p + v <= o + x
    <3>1. o + m <= p \/ p + m <= o
      BY <2>1, <2>2
    <3>2. o \in Nat /\ p \in Nat
      BY <1>2
    <3> QED
      BY <2>3, <3>1, <3>2
  <2>5. Block(i).end <= Block(j).header \/ Block(j).end <= Block(i).header
    BY <1>2, <2>2, <2>4
  <2> QED
    BY <2>5 DEF Store!Apart
<1>5. CASE chunks[c].paddr[1] # chunks[d].paddr[1]
  BY <1>2, <1>5 DEF Store!Apart
<1> QED
  BY <1>3, <1>4, <1>5

\* The block of a region that is in the list already.
LEMMA BlocksStay ==
  ASSUME StoreInv, [Next]_vars, NEW i \in 1 .. Len(regions),
         regions'[i] = regions[i]
  PROVE  Block(i)' = Block(i)
<1>1. regions[i].ch \in 1 .. Len(chunks)
  BY DEF StoreInv, LogInv, RegionsInv
<1>2. chunks'[regions[i].ch].paddr = chunks[regions[i].ch].paddr
  BY <1>1, ChunksAfter DEF StoreInv, AddressesStay
<1> QED
  BY <1>2 DEF Block, Offset, RegionEnd

LEMMA NoBlockComesOrGoes ==
  ASSUME StoreInv, [Next]_vars, UNCHANGED regions
  PROVE  Blocks' = Blocks
<1>1. \A i \in 1 .. Len(regions) : Block(i)' = Block(i)
  BY BlocksStay
<1> QED
  BY <1>1 DEF Blocks

LEMMA ServingReset ==
  ASSUME NEW t \in Threads, pc \in [Threads -> CallPoints],
         pc[t] = "unlock", pc' = [pc EXCEPT ![t] = "idle"]
  PROVE  Serving[t] /\ Serving' = [Serving EXCEPT ![t] = FALSE]
<1>1. Serving[t]
  BY DEF Serving
<1>2. \A u \in Threads : (pc'[u] = "unlock") = IF u = t THEN FALSE ELSE pc[u] = "unlock"
  BY DEF CallPoints
<1>3. Serving' = [u \in Threads |-> IF u = t THEN FALSE ELSE pc[u] = "unlock"]
  BY <1>2, Zenon DEF Serving
<1>4. [Serving EXCEPT ![t] = FALSE]
        = [u \in Threads |-> IF u = t THEN FALSE ELSE pc[u] = "unlock"]
  BY Zenon DEF Serving
<1> QED
  BY <1>1, <1>3, <1>4

\* The region a call appends is the block it is served with.
LEMMA AppendServes ==
  ASSUME StoreInv, LogInv', BlocksApart', [Next]_vars,
         NEW t \in Threads, AppendRegion(t)
  PROVE  Store!Serve(t)
<1>0. /\ pc \in [Threads -> CallPoints] /\ regions \in Seq(RegionRec)
      /\ TypeOK /\ TypeOK' /\ RegionsInv' /\ LocalsInv
  BY DEF StoreInv, LogInv, TypeOK
<1>1. /\ pc[t] = "append" /\ pc' = [pc EXCEPT ![t] = "unlock"] /\ req' = req
      /\ regions' = NewRegion(t)
  BY DEF AppendRegion, Go
<1>2. req[t] \in Requests /\ req[t] \in Nat \ {0}
  <2>1. req[t] \in Requests
    BY <1>0, <1>1 DEF LocalsInv
  <2>2. req[t] \in 1 .. ChunkSize /\ ChunkSize \in Nat
    BY <2>1, LogSizesAssumption, LogLayout
  <2> QED
    BY <2>1, <2>2
<1>3. PICK n \in Nat : n = Len(regions)
  BY <1>0
<1>4. PICK new : /\ regions' = Append(regions, new)
                 /\ new.at = tail[t] /\ new.size = Size(t) /\ new.req = req[t]
  BY <1>1 DEF NewRegion
<1>5. /\ Len(regions') = n + 1 /\ regions'[n + 1] = new
      /\ \A i \in 1 .. n : regions'[i] = regions[i]
  BY <1>0, <1>3, <1>4
<1>6. PICK b : b = Block(n + 1)'
  OBVIOUS
<1>7. \E o \in Nat : /\ b.header = o + new.at /\ b.data = o + new.at + PregionSize
                     /\ b.end = o + (new.at + new.size)
  <2>1. PICK o : o = Offset(new.ch)'
    OBVIOUS
  <2>2. /\ b.header = o + new.at /\ b.data = o + new.at + PregionSize
        /\ b.end = o + (new.at + new.size)
    BY <1>5, <1>6, <2>1 DEF Block, RegionEnd
  <2>3. n + 1 \in 1 .. Len(regions')
    BY <1>3, <1>5
  <2>4. new.ch \in 1 .. Len(chunks')
    BY <1>0, <1>5, <2>3 DEF RegionsInv
  <2>5. OffsetsTyped'
    BY <1>0, OffsetsNat, PTL
  <2>6. o \in Nat
    BY <2>1, <2>4, <2>5 DEF OffsetsTyped
  <2> QED
    BY <2>2, <2>6
<1>8. Blocks' = Blocks \cup {b}
  <2>1. Blocks' = {Block(i)' : i \in 1 .. n + 1}
    BY <1>5 DEF Blocks
  <2>2. \A i \in 1 .. n : Block(i)' = Block(i)
    BY <1>3, <1>5, BlocksStay
  <2>3. 1 .. n + 1 = (1 .. n) \cup {n + 1}
    BY <1>3
  <2>4. Blocks = {Block(i) : i \in 1 .. n}
    BY <1>3 DEF Blocks
  <2> QED
    BY <1>6, <2>1, <2>2, <2>3, <2>4
<1>9. /\ new.at \in Nat /\ new.size \in Nat /\ PregionSize \in Nat \ {0}
      /\ PregionSize + req[t] <= new.size
  <2>1. new.at \in Nat /\ new.size \in Nat
    <3>1. regions' \in Seq(RegionRec) /\ n + 1 \in 1 .. Len(regions')
      BY <1>0, <1>3, <1>5 DEF TypeOK
    <3>2. new \in RegionRec
      BY <3>1, <1>5, ElementOfSeq
    <3> QED
      BY <3>2 DEF RegionRec
  <2> QED
    BY <2>1, <1>2, <1>4, RegionSizeOK, LogLayout
<1>10. b.end - b.data >= req[t] /\ b.header < b.data /\ b.header < b.end
  <2>1. PICK h, p, sz, q : h = new.at /\ p = PregionSize /\ sz = new.size /\ q = req[t]
    OBVIOUS
  <2>2. h \in Nat /\ p \in Nat \ {0} /\ sz \in Nat /\ q \in Nat /\ p + q <= sz
    BY <2>1, <1>2, <1>9
  <2>3. PICK o \in Nat : b.header = o + h /\ b.data = o + h + p /\ b.end = o + (h + sz)
    BY <2>1, <1>7
  <2> QED
    BY <2>1, <2>2, <2>3
<1>11. \A d \in Blocks : Store!Apart(b, d)
  <2> SUFFICES ASSUME NEW i \in 1 .. n PROVE Store!Apart(b, Block(i))
    BY <1>3 DEF Blocks
  <2>1. Block(i) = Block(i)'
    BY <1>3, <1>5, BlocksStay
  <2>2. i \in 1 .. Len(regions') /\ n + 1 \in 1 .. Len(regions') /\ i # n + 1
    BY <1>3, <1>5
  <2> QED
    BY <1>6, <2>1, <2>2 DEF BlocksApart
<1>12. b \notin Blocks
  <2>1. b.header \in Nat /\ b.end \in Nat
    BY <1>7, <1>9
  <2>2. ~Store!Apart(b, b)
    BY <2>1, <1>10 DEF Store!Apart
  <2> QED
    BY <2>2, <1>11
<1>13. ~Serving[t] /\ Serving' = [Serving EXCEPT ![t] = TRUE]
  <2>1. ~Serving[t]
    BY <1>1 DEF Serving
  <2>2. \A u \in Threads : pc'[u] = IF u = t THEN "unlock" ELSE pc[u]
    BY <1>0, <1>1
  <2>3. Serving' = [u \in Threads |-> pc'[u] = "unlock"]
    BY DEF Serving
  <2>4. Serving' = [u \in Threads |-> IF u = t THEN TRUE ELSE pc[u] = "unlock"]
    BY <2>2, <2>3, ZenonT(40)
  <2>5. [Serving EXCEPT ![t] = TRUE]
          = [u \in Threads |-> IF u = t THEN TRUE ELSE pc[u] = "unlock"]
    BY ZenonT(40) DEF Serving
  <2> QED
    BY <2>1, <2>4, <2>5
<1>14. req[t] # 0
  BY <1>2
<1> QED
  BY <1>1, <1>8, <1>10, <1>11, <1>12, <1>13, <1>14 DEF Store!Serve

LEMMA StoreStep ==
  ASSUME StoreInv, LogInv', AllFit' => BlocksApart', [Next]_vars
  PROVE  [AllFit' => Store!Next]_(Store!vars)
<1>0. pc \in [Threads -> CallPoints] /\ req \in [Threads -> Nat]
  BY DEF StoreInv, LogInv, TypeOK
<1>q. ASSUME UNCHANGED <<req, Serving, regions>>
      PROVE  [AllFit' => Store!Next]_(Store!vars)
  BY <1>q, NoBlockComesOrGoes DEF Store!vars
<1>s. ASSUME NEW t \in Threads, pc[t] # "unlock", NEW to, to # "unlock",
             pc' = [pc EXCEPT ![t] = to]
      PROVE  Serving' = Serving
  BY <1>s, <1>0, Zenon DEF Serving
<1>1. ASSUME NEW t \in Threads, Malloc(t) PROVE Store!Ask(t)
  <2>1. PICK size \in Requests : req' = [req EXCEPT ![t] = size]
    BY <1>1 DEF Malloc
  <2>2. pc[t] = "idle" /\ pc' = [pc EXCEPT ![t] = "lock"] /\ UNCHANGED regions
    BY <1>1 DEF Malloc, Go, mem
  <2>3. req[t] = 0
    BY <2>2 DEF StoreInv, IdleInv
  <2>4. req'[t] = size /\ size \in Nat \ {0}
    BY <2>1, <1>0, LogSizesAssumption
  <2>5. Serving' = Serving /\ Blocks' = Blocks
    BY <2>2, <1>s, NoBlockComesOrGoes
  <2> QED
    BY <2>1, <2>3, <2>4, <2>5 DEF Store!Ask
<1>2. ASSUME NEW t \in Threads, Unlock(t) PROVE Store!Return(t)
  <2>1. /\ pc[t] = "unlock" /\ pc' = [pc EXCEPT ![t] = "idle"]
        /\ req' = [req EXCEPT ![t] = 0] /\ UNCHANGED regions
    BY <1>2 DEF Unlock, Go, mem
  <2>2. Blocks' = Blocks
    BY <2>1, NoBlockComesOrGoes
  <2>3. Serving[t] /\ Serving' = [Serving EXCEPT ![t] = FALSE]
    BY <2>1, <1>0, ServingReset
  <2> QED
    BY <2>1, <2>2, <2>3 DEF Store!Return
<1>3. ASSUME NEW t \in Threads, Lock(t) \/ FirstSuits(t) \/ Retire(t) \/ NewChunk(t)
      PROVE  UNCHANGED <<req, Serving, regions>>
  <2>1. PICK to \in {"lookup", "append", "new"} :
          pc[t] # "unlock" /\ pc' = [pc EXCEPT ![t] = to]
    BY <1>3 DEF Lock, FirstSuits, Retire, NewChunk, Go
  <2>2. UNCHANGED <<req, regions>>
    BY <1>3 DEF Lock, FirstSuits, Retire, NewChunk, mem
  <2> QED
    BY <2>1, <2>2, <1>s
<1>4. ASSUME NEW t \in Threads, RetireNull(t)
      PROVE  UNCHANGED <<req, Serving, regions>>
  <2>1. /\ pc' = pc \/ (pc[t] # "unlock" /\ pc' = [pc EXCEPT ![t] = "new"])
        /\ UNCHANGED <<req, regions>>
    BY <1>4 DEF RetireNull, Go, mem
  <2>2. CASE pc' = pc
    BY <2>1, <2>2 DEF Serving
  <2> QED
    BY <2>1, <2>2, <1>s
<1>5. ASSUME NEW t \in Threads, Stays \/ SmallTakesChunk(t)
      PROVE  UNCHANGED <<req, Serving, regions>>
  BY <1>5 DEF Stays, SmallTakesChunk, Serving, mem
<1>6. CASE Ended \/ UNCHANGED vars
  <2>1. UNCHANGED <<pc, req, regions>>
    BY <1>6 DEF Ended, vars, mem
  <2> QED
    BY <2>1, <1>q DEF Serving
<1>7. ASSUME NEW t \in Threads, Malloc(t) \/ Unlock(t) \/ AppendRegion(t)
      PROVE  [AllFit' => Store!Next]_(Store!vars)
  BY <1>1, <1>2, <1>7, AppendServes DEF Store!Next
<1> QED
  BY <1>3, <1>4, <1>5, <1>6, <1>7, <1>q, StaysPut DEF Next, InCall

(***************************************************************************)
(* Whatever the number of threads, the sizes and the device, as long as no *)
(* request was served that no chunk holds, every behaviour of              *)
(* arena_malloc_large, of the small path's share in the pool, of lsfree    *)
(* and of exit is one of a store that serves each call at one moment with  *)
(* a block apart from all others of the pool, also those in the chunks     *)
(* next to it, long enough, and never moved or taken back.                 *)
(***************************************************************************)
THEOREM LargePathIsAStore == Spec => StoreWhileFitting
<1>1. Init => Store!Init
  <2> SUFFICES ASSUME Init PROVE Store!Init
    OBVIOUS
  <2>1. Blocks = {}
    BY DEF Init, Blocks
  <2>2. Serving = [t \in Threads |-> FALSE]
    BY Zenon DEF Init, Serving
  <2> QED
    BY <2>1, <2>2 DEF Init, Store!Init
<1>2. StoreInv /\ LogInv' /\ (AllFit' => BlocksApart') /\ [Next]_vars =>
        [AllFit' => Store!Next]_(Store!vars)
  BY StoreStep
<1>3. StoreInv => LogInv /\ (AllFit => BlocksApart)
  BY FittingBlocksApart DEF StoreInv
<1> QED
  BY <1>1, <1>2, <1>3, StoreInvariant, PTL DEF Spec, StoreWhileFitting

\* A region has the size of its request, which is one the large path is
\* called with.
FromRequests ==
  \A i \in 1 .. Len(regions) :
    regions[i].req \in Requests /\ regions[i].size = RegionSize(regions[i].req)

LEMMA NextFromRequests ==
  LogInv /\ FromRequests /\ [Next]_vars => FromRequests'
<1> SUFFICES ASSUME LogInv, FromRequests, [Next]_vars
             PROVE  FromRequests'
  OBVIOUS
<1>1. CASE UNCHANGED regions
  BY <1>1 DEF FromRequests
<1>2. ASSUME NEW t \in Threads, AppendRegion(t) PROVE FromRequests'
  <2>1. regions \in Seq(RegionRec) /\ req[t] \in Requests
    BY <1>2 DEF LogInv, TypeOK, LocalsInv, AppendRegion, Go
  <2>2. PICK new : /\ regions' = Append(regions, new)
                   /\ new.req = req[t] /\ new.size = RegionSize(req[t])
    BY <1>2 DEF AppendRegion, NewRegion, Size
  <2> QED
    BY <2>1, <2>2 DEF FromRequests
<1> QED
  BY <1>1, <1>2, RegionsGrow

\* The header of a chunk stays, as long as all requests fit.
LEMMA HeadersStay ==
  ASSUME LogInv, AddressesApart, AllFit, NEW c \in 1 .. Len(chunks)
  PROVE  ~Overwritten(c)
<1>0. TypeOK /\ ChunkSize \in Nat /\ PchunkSize \in Nat /\ PchunkSize < ChunkSize
  BY LogLayout DEF LogInv
<1>1. SUFFICES ASSUME NEW j \in 1 .. Len(regions)
               PROVE  /\ Block(j).end <= PoolBytes
                      /\ regions[j].ch # c /\ Block(j).base = chunks[c].paddr[1] =>
                           \/ Offset(c) + PchunkSize <= Block(j).header
                           \/ Block(j).end <= Offset(c)
  <2>1. ASSUME Overwritten(c) PROVE FALSE
    <3>1. PICK j \in 1 .. Len(regions) :
            \/ Block(j).end > PoolBytes
            \/ /\ regions[j].ch # c /\ Block(j).base = chunks[c].paddr[1]
               /\ Block(j).header < Offset(c) + PchunkSize
               /\ Offset(c) < Block(j).end
      BY <2>1 DEF Overwritten
    <3>2. /\ Block(j).end \in Nat /\ Block(j).header \in Nat
          /\ Offset(c) \in Nat /\ PoolBytes \in Nat
      <4>1. PICK d : d = regions[j].ch
        OBVIOUS
      <4>2. /\ Offset(d) \in Nat /\ RegionEnd(j) \in Nat /\ regions[j].at \in Nat
            /\ Block(j).header = Offset(d) + regions[j].at
            /\ Block(j).end = Offset(d) + RegionEnd(j)
        BY <4>1, BlockShape
      <4>3. Block(j).end \in Nat /\ Block(j).header \in Nat
        BY <4>2
      <4> QED
        BY <1>0, <4>3, ChunkInPool
    <3>3. /\ Block(j).end <= PoolBytes
          /\ regions[j].ch # c /\ Block(j).base = chunks[c].paddr[1] =>
               \/ Offset(c) + PchunkSize <= Block(j).header
               \/ Block(j).end <= Offset(c)
      BY <1>1
    <3> QED
      BY <1>0, <3>1, <3>2, <3>3
  <2> QED
    BY <2>1
<1>2. PICK d, o, p : d = regions[j].ch /\ o = Offset(c) /\ p = Offset(d)
  OBVIOUS
<1>3. /\ d \in 1 .. Len(chunks) /\ p \in Nat
      /\ Block(j).base = chunks[d].paddr[1] /\ regions[j].at \in Nat
      /\ Block(j).header = p + regions[j].at
      /\ Block(j).end = p + RegionEnd(j) /\ RegionEnd(j) \in Nat
      /\ Block(j).end <= p + ChunkSize
  BY <1>2, BlockShape
<1>4. o \in Nat /\ PoolBytes \in Nat /\ p + ChunkSize <= PoolBytes
  BY <1>0, <1>2, <1>3, ChunkInPool
<1>5. Block(j).end <= PoolBytes
  BY <1>0, <1>3, <1>4
<1>6. ASSUME d # c, Block(j).base = chunks[c].paddr[1]
      PROVE  o + PchunkSize <= Block(j).header \/ Block(j).end <= o
  <2>1. o + ChunkSize <= p \/ p + ChunkSize <= o
    BY <1>0, <1>2, <1>3, <1>6, ChunksApart
  <2>2. PICK x, y, h, e : /\ x = regions[j].at /\ y = RegionEnd(j)
                          /\ h = Block(j).header /\ e = Block(j).end
    OBVIOUS
  <2>3. /\ p \in Nat /\ x \in Nat /\ y \in Nat
        /\ h = p + x /\ e = p + y /\ e <= p + ChunkSize
    BY <1>3, <2>2
  <2>4. ChunkSize \in Nat /\ PchunkSize \in Nat /\ PchunkSize <= ChunkSize
    BY <1>0
  <2>5. o + PchunkSize <= h \/ e <= o
    <3>1. CASE o + ChunkSize <= p
      BY <1>4, <2>3, <2>4, <3>1
    <3>2. CASE p + ChunkSize <= o
      BY <1>4, <2>3, <2>4, <3>2
    <3> QED
      BY <2>1, <3>1, <3>2
  <2> QED
    BY <2>2, <2>5
<1> QED
  BY <1>2, <1>5, <1>6

\* The chunk lsfree finds.
LEMMA OwnChunkFound ==
  ASSUME LogInv, AllFit, NEW i \in 1 .. Len(regions), regions[i].req \in Requests
  PROVE  /\ Block(i).data % ChunkSize # 0
         /\ Addr2Base(i) = chunks[regions[i].ch].paddr
<1>1. PICK c, o, x, a : /\ c = regions[i].ch /\ o = Offset(c)
                        /\ x = regions[i].at + PregionSize
                        /\ a = chunks[c].paddr[2]
  OBVIOUS
<1>2. /\ c \in 1 .. Len(chunks) /\ o \in Nat /\ regions[i].at \in Nat
      /\ Block(i).base = chunks[c].paddr[1] /\ Block(i).header = o + regions[i].at
      /\ Block(i).data = o + regions[i].at + PregionSize
      /\ Block(i).end = o + RegionEnd(i) /\ RegionEnd(i) \in Nat
      /\ Block(i).end <= o + ChunkSize
  BY <1>1, BlockShape
<1>3. regions[i].req \in Nat \ {0}
  <2>1. regions[i].req \in 1 .. ChunkSize /\ ChunkSize \in Nat
    BY LogSizesAssumption, LogLayout
  <2> QED
    BY <2>1
<1>4. regions[i].at + PregionSize + regions[i].req <= RegionEnd(i)
  BY DEF LogInv, RegionsInv
<1>5. x \in Nat /\ 0 < x /\ x < ChunkSize /\ Block(i).data = o + x
  <2>1. PICK h, g, e, m, r : /\ h = regions[i].at /\ g = PregionSize
                             /\ e = RegionEnd(i) /\ m = ChunkSize
                             /\ r = regions[i].req
    OBVIOUS
  <2>2. /\ h \in Nat /\ g \in Nat \ {0} /\ e \in Nat /\ m \in Nat /\ r \in Nat \ {0}
        /\ h + g + r <= e /\ o + e <= o + m
    BY <1>2, <1>3, <1>4, <2>1, LogLayout
  <2>3. h + g \in Nat /\ 0 < h + g /\ h + g < m /\ o + h + g = o + (h + g)
    BY <1>2, <2>2
  <2> QED
    BY <1>1, <1>2, <2>1, <2>3
<1>6. /\ a \in Nat \ {0} /\ chunks[c].paddr \in ChunkAddr
  BY <1>1, <1>2, ChunkInPool DEF LogInv
<1>7. Block(i).data = (a - 1) * ChunkSize + x
  BY <1>1, <1>5 DEF Offset
<1>8. Block(i).data \in Int /\ a - 1 \in Int /\ x \in Int /\ 0 <= x
  BY <1>2, <1>5, <1>6
<1>9. Block(i).data % ChunkSize = x /\ Block(i).data \div ChunkSize = a - 1
  <2>1. PICK z, q, m : z = Block(i).data /\ q = a - 1 /\ m = ChunkSize
    OBVIOUS
  <2>2. /\ z \in Int /\ q \in Int /\ x \in Int /\ m \in Nat \ {0}
        /\ 0 <= x /\ x < m /\ z = q * m + x
    BY <1>5, <1>7, <1>8, <2>1, LogLayout
  <2>3. z % m = x /\ z \div m = q
    BY <2>2, DivModUnique
  <2> QED
    BY <2>1, <2>3
<1>10. Addr2Base(i) = <<chunks[c].paddr[1], a>>
  BY <1>2, <1>6, <1>9 DEF Addr2Base
<1>11. chunks[c].paddr = <<chunks[c].paddr[1], a>>
  BY <1>1, <1>6 DEF ChunkAddr
<1> QED
  BY <1>1, <1>5, <1>9, <1>10, <1>11

(***************************************************************************)
(* Whichever large objects are freed, by whom and when, as long as no      *)
(* request was served that no chunk holds: lsfree finds the header of the  *)
(* object's own chunk, takes it neither for a huge object nor for one of   *)
(* an arena whose address it would read from pmem, and returns.            *)
(***************************************************************************)
THEOREM FreesReturn == Spec => []FreesFindTheirChunk
<1>1. Init => FromRequests
  BY DEF Init, FromRequests
<1>2. StoreInv /\ FromRequests => FreesFindTheirChunk
  <2> SUFFICES ASSUME StoreInv, FromRequests, AllFit, NEW i \in Returned
               PROVE  ~FreeMayFault(i)
    BY DEF FreesFindTheirChunk
  <2>0. LogInv /\ CountersInv /\ AddressesApart /\ RegionsInv
    BY DEF StoreInv, LogInv
  <2>1. i \in 1 .. Len(regions) /\ regions[i].req \in Requests
    <3>1. Len(regions) \in Nat
      BY <2>0, Records DEF LogInv
    <3>2. i \in 1 .. Len(regions)
      BY <3>1 DEF Returned
    <3> QED
      BY <3>2 DEF FromRequests
  <2>2. PICK c \in 1 .. Len(chunks) : c = regions[i].ch
    BY <2>0, <2>1 DEF RegionsInv
  <2>3. Block(i).data % ChunkSize # 0 /\ Addr2Base(i) = chunks[c].paddr
    BY <2>0, <2>1, <2>2, OwnChunkFound
  <2>4. ~Overwritten(c)
    BY <2>0, HeadersStay
  <2>5. chunks[c].header # CHUNK_TYPE_LOG
    BY <2>0, LogLowBytesAssumption DEF CountersInv, CHUNK_TYPE_LOG
  <2> QED
    BY <2>3, <2>4, <2>5 DEF FreeMayFault, MayBeLog
<1>3. StoreInv => LogInv
  BY DEF StoreInv
<1> QED
  BY <1>1, <1>2, <1>3, NextFromRequests, StoreInvariant, PTL DEF Spec

(***************************************************************************)
(* As long as every request fits into an empty chunk with its header, no   *)
(* region ends behind its chunk, so that blocks of different chunks do not *)
(* meet either: what overflows is due to the size test alone, which takes  *)
(* sizes up to a whole chunk for large (lsmalloc_internal.h:221).          *)
(***************************************************************************)
THEOREM FittingRequestsStayInside ==
  ASSUME \A size \in Requests : RegionSize(size) <= Capacity
  PROVE  Spec => [](\A i \in 1 .. Len(regions) : RegionEnd(i) <= ChunkSize)
<1>1. Init => FromRequests
  BY DEF Init, FromRequests
<1>2. FromRequests /\ RegionsApart =>
        \A i \in 1 .. Len(regions) : RegionEnd(i) <= ChunkSize
  BY DEF FromRequests, RegionsApart, Sound
<1> QED
  BY <1>1, <1>2, NextFromRequests, LogInvariant, RegionsAreApart, PTL
     DEF Spec
=============================================================================
