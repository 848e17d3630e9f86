------------------------------ MODULE LogArena ------------------------------
(***************************************************************************)
(* The large path of one arena: arena_malloc_large and what it calls       *)
(* (src/src/arena.c), run by several threads bound to the arena, next to   *)
(* the small path, which takes chunks from the same pool, and lsfree.      *)
(*                                                                         *)
(* Regions are appended to the first chunk of avail_chunks; one that does  *)
(* not fit retires that chunk and takes another one from the pool.  The    *)
(* first call of an arena has no chunk to retire and stores through NULL.  *)
(*                                                                         *)
(* The chunks of a pool adjoin in its mapping (src/src/pool.c:76): a       *)
(* region that ends behind its own chunk covers the next one, and behind   *)
(* the last one memory the pool does not own.                              *)
(***************************************************************************)
EXTENDS PmemPoolOps, FiniteSets, Functions

CONSTANTS
  Threads,          \* the threads bound to the arena
  NoThread,         \* the owner of a free mutex
  NullFaults,       \* a store near address 0 ends the process
  MaxPools,         \* bound: the pool files the pmem device has room for
  MaxObjects,       \* bound: large objects, and chunks of the small path
  ChunkSize,        \* chunksize, which is also arena_maxlarge
  PchunkSize,       \* sizeof(pchunk_t), the header of a chunk
  PregionSize,      \* sizeof(pregion_t), the header of a region
  Alignment,        \* sizeof(long long)
  SizeMod,          \* 2^w, w being the width of size_t
  Requests,         \* sizes asked for, from arena_maxsmall to arena_maxlarge
  LowBytes          \* low bytes of the addresses malloc returns

ASSUME LogSizesAssumption ==
  /\ {ChunkSize, PchunkSize, PregionSize, Alignment, SizeMod} \subseteq Nat \ {0}
  /\ PchunkSize < ChunkSize
  /\ Requests \subseteq 1 .. ChunkSize
  /\ ChunkSize + PregionSize + Alignment < SizeMod

ASSUME LogThreadsAssumption ==
  /\ NoThread \notin Threads /\ NullFaults \in BOOLEAN
  /\ MaxPools \in Nat \ {0} /\ MaxObjects \in Nat

\* malloc aligns to 16 bytes.
ASSUME LogLowBytesAssumption == LowBytes \subseteq {b \in 0 .. 255 : b % 16 = 0}

CHUNK_TYPE_LOG == 108       \* 'l'

\* The bytes a request takes: its header, rounded up to the alignment.
RegionSize(size) ==
  ((size + PregionSize + Alignment - 1) \div Alignment) * Alignment

PoolBytes == PoolChunks * ChunkSize      \* PMEMPOOL_SIZE

VARIABLES
  lock,             \* arena->lock
  pc, req,          \* each thread's place in its call, and the size asked for
  ch, tail,         \* its locals: the chunk, and the tail it has read
  pool,             \* arena->pool
  chunks,           \* every chunk_t of the arena, in the order of creation
  avail_chunks,     \* arena->avail_chunks, first element first
  regions,          \* every region_t, in the order of creation
  proc              \* the process: running, exited, faulted

mem == <<pool, chunks, avail_chunks, regions>>
vars == <<lock, pc, req, ch, tail, mem, proc>>

Init ==
  /\ lock = NoThread
  /\ pc = [t \in Threads |-> "idle"]
  /\ req = [t \in Threads |-> 0]
  /\ ch = [t \in Threads |-> 0]
  /\ tail = [t \in Threads |-> 0]
  /\ pool = PmempoolCreate
  /\ chunks = <<>>
  /\ avail_chunks = <<>>
  /\ regions = <<>>
  /\ proc = "running"

Go(t, from, to) == /\ proc = "running"
                   /\ pc[t] = from
                   /\ pc' = [pc EXCEPT ![t] = to]

-----------------------------------------------------------------------------
\* A thread calls lsmalloc with a large size and stops at arena->lock.
Malloc(t) ==
  /\ Go(t, "idle", "lock")
  /\ Len(regions) + Cardinality({u \in Threads : pc[u] # "idle"}) < MaxObjects
  /\ \E size \in Requests : req' = [req EXCEPT ![t] = size]
  /\ UNCHANGED <<lock, ch, tail, mem, proc>>

\* Mutant: the lock is not waited for.
LockWithoutWaiting(t) ==
  /\ Go(t, "lock", "lookup")
  /\ lock' = t
  /\ UNCHANGED <<req, ch, tail, mem, proc>>

Lock(t) ==
  /\ Go(t, "lock", "lookup")
  /\ lock = NoThread
  /\ lock' = t
  /\ UNCHANGED <<req, ch, tail, mem, proc>>

Size(t) == RegionSize(req[t])

\* Mutant: the room left is not looked at.
SuitsAnySize(c, size) == chunks[c].type = "log"

\* The first log chunk takes the region.
Suits(c, size) == chunks[c].type = "log" /\ chunks[c].availsize >= size

FirstSuits(t) ==
  /\ Go(t, "lookup", "append")
  /\ avail_chunks # <<>>
  /\ Suits(Head(avail_chunks), Size(t))
  /\ ch' = [ch EXCEPT ![t] = Head(avail_chunks)]
  /\ tail' = [tail EXCEPT ![t] = chunks[Head(avail_chunks)].tail]
  /\ UNCHANGED <<lock, req, mem, proc>>

\* Mutant: the chunk stays live.
RetireNothing(t) ==
  /\ Go(t, "lookup", "new")
  /\ avail_chunks # <<>> /\ ~Suits(Head(avail_chunks), Size(t))
  /\ UNCHANGED <<lock, req, ch, tail, mem, proc>>

\* It does not: it is retired.
Retire(t) ==
  /\ Go(t, "lookup", "new")
  /\ avail_chunks # <<>> /\ ~Suits(Head(avail_chunks), Size(t))
  /\ chunks' = [chunks EXCEPT ![Head(avail_chunks)].live = FALSE]
  /\ UNCHANGED <<lock, req, ch, tail, pool, avail_chunks, regions, proc>>

\* There is none: chunk->live = false is a store through NULL, undefined in C.
RetireNull(t) ==
  /\ avail_chunks = <<>>
  /\ IF NullFaults
     THEN /\ proc = "running" /\ pc[t] = "lookup"
          /\ proc' = "faulted"
          /\ pc' = pc
     ELSE Go(t, "lookup", "new") /\ proc' = proc
  /\ UNCHANGED <<lock, req, ch, tail, mem>>

\* arena_chunk_alloc: a chunk of the pool gets a chunk_t, whose address is
\* the chunk's first word in pmem.  maybe_gc queues nothing, which is the
\* theorem NoCollectionIsQueued of SlabArena_proofs.
TakeChunk(type) ==
  /\ Exhausted(pool) => pool.nfiles < MaxPools
  /\ pool' = ChunkAllocPool(pool)
  /\ \E b \in LowBytes :
       chunks' = Append(chunks, [type |-> type, paddr |-> ChunkAllocAddr(pool),
                                 header |-> b, tail |-> PchunkSize,
                                 availsize |-> ChunkSize - PchunkSize,
                                 live |-> TRUE])

NewChunk(t) ==
  /\ Go(t, "new", "append")
  /\ TakeChunk("log")
  /\ avail_chunks' = <<Len(chunks) + 1>> \o avail_chunks
  /\ ch' = [ch EXCEPT ![t] = Len(chunks) + 1]
  /\ tail' = [tail EXCEPT ![t] = PchunkSize]
  /\ UNCHANGED <<lock, req, regions, proc>>

\* The pool is exhausted and pmem_map_file fails: exit(1), locks held.
NewChunkExit(t) ==
  /\ proc = "running"
  /\ pc[t] = "new"
  /\ Exhausted(pool)
  /\ proc' = "exited"
  /\ UNCHANGED <<lock, pc, req, ch, tail, mem>>

\* Where chunk c begins in the mapping of its pool.
Offset(c) == (chunks[c].paddr[2] - 1) * ChunkSize

NewRegion(t) ==
  Append(regions, [ch |-> ch[t], at |-> tail[t], size |-> Size(t), req |-> req[t]])

\* Mutant: availsize is not reduced.
AppendUncounted(t) ==
  /\ Go(t, "append", "unlock")
  /\ chunks' = [chunks EXCEPT ![ch[t]].tail = tail[t] + Size(t)]
  /\ regions' = NewRegion(t)
  /\ UNCHANGED <<lock, req, ch, tail, pool, avail_chunks, proc>>

\* arena_pmem_append_region and the region_t that is linked last in
\* chunk->regions.  Nothing tests that a new chunk holds the region, and
\* availsize is unsigned.
AppendRegion(t) ==
  /\ Go(t, "append", "unlock")
  /\ chunks' = [chunks EXCEPT ![ch[t]].tail = tail[t] + Size(t),
                              ![ch[t]].availsize = (@ - Size(t)) % SizeMod]
  /\ regions' = NewRegion(t)
  /\ UNCHANGED <<lock, req, ch, tail, pool, avail_chunks, proc>>

\* The store of the pregion_t goes behind the pool's mapping: nothing need be
\* mapped there.  If something is, AppendRegion has overwritten it.
AppendFaults(t) ==
  /\ proc = "running"
  /\ pc[t] = "append"
  /\ Offset(ch[t]) + tail[t] + PregionSize > PoolBytes
  /\ proc' = "faulted"
  /\ UNCHANGED <<lock, pc, req, ch, tail, mem>>

\* The call returns: its locals are gone.
Unlock(t) ==
  /\ Go(t, "unlock", "idle")
  /\ lock' = NoThread
  /\ req' = [req EXCEPT ![t] = 0]
  /\ ch' = [ch EXCEPT ![t] = 0]
  /\ tail' = [tail EXCEPT ![t] = 0]
  /\ UNCHANGED <<mem, proc>>

\* A small allocation of the same arena takes a chunk, under the same lock.
SmallTakesChunk(t) ==
  /\ proc = "running"
  /\ pc[t] = "idle"
  /\ lock = NoThread
  /\ Cardinality({c \in 1 .. Len(chunks) : chunks[c].type = "slab"}) < MaxObjects
  /\ TakeChunk("slab")
  /\ UNCHANGED <<lock, pc, req, ch, tail, avail_chunks, regions, proc>>

\* The bytes of region i, as offsets in the mapping of the pool base.
RegionEnd(i) == regions[i].at + regions[i].size

Block(i) ==
  LET c == regions[i].ch
  IN  [base   |-> chunks[c].paddr[1],
       header |-> Offset(c) + regions[i].at,
       data   |-> Offset(c) + regions[i].at + PregionSize,
       end    |-> Offset(c) + RegionEnd(i)]

\* The header of chunk c lies in a region of another chunk, or some region
\* reaches behind its pool, where another pool may be mapped.
Overwritten(c) ==
  \E i \in 1 .. Len(regions) :
    \/ Block(i).end > PoolBytes
    \/ /\ regions[i].ch # c
       /\ Block(i).base = chunks[c].paddr[1]
       /\ Block(i).header < Offset(c) + PchunkSize
       /\ Offset(c) < Block(i).end

\* CHUNK_ADDR2BASE(ptr): the chunk in which the data of region i begins.
Addr2Base(i) == <<Block(i).base, Block(i).data \div ChunkSize + 1>>

\* The byte there may be 'l'.  At the beginning of a chunk_t's pmem chunk it
\* is the low byte of the chunk_t's address, elsewhere or overwritten any byte.
MayBeLog(a) ==
  \A c \in 1 .. Len(chunks) :
    chunks[c].paddr = a => Overwritten(c) \/ chunks[c].header = CHUNK_TYPE_LOG

\* lsfree(ptr) of region i.  An object at the beginning of a chunk is taken
\* for a huge one, which asserts that it is in its tree.  Else the chunk's
\* first byte is taken for its type: 'l' leads to the lock of an arena whose
\* address is read from that pmem, any other byte to no effect on a region
\* ('s' writes a byte of the header in front of the object, which no code
\* reads).
FreeMayFault(i) == \/ Block(i).data % ChunkSize = 0
                   \/ MayBeLog(Addr2Base(i))

Free(t, i) ==
  /\ proc = "running"
  /\ pc[t] = "idle"
  /\ \/ proc' = "faulted" /\ FreeMayFault(i)
     \/ proc' = "running" /\ Block(i).data % ChunkSize # 0
  /\ UNCHANGED <<lock, pc, req, ch, tail, mem>>

\* The regions whose address some caller has: all but the one still being
\* returned by the thread that holds the lock.
Returned == IF \E t \in Threads : pc[t] = "unlock"
            THEN 1 .. Len(regions) - 1 ELSE 1 .. Len(regions)

FreeSome(t) == \E i \in Returned : Free(t, i)

Ended == proc # "running" /\ UNCHANGED vars

InCall(t) == \/ Lock(t)
             \/ FirstSuits(t) \/ Retire(t) \/ RetireNull(t)
             \/ NewChunk(t) \/ NewChunkExit(t)
             \/ AppendRegion(t) \/ AppendFaults(t)
             \/ Unlock(t)

Next == \/ \E t \in Threads :
             Malloc(t) \/ InCall(t) \/ SmallTakesChunk(t) \/ FreeSome(t)
        \/ Ended

\* The scheduler runs every thread that is inside a call; nothing is assumed
\* about when threads call, or about the order in which a mutex is granted.
Spec == Init /\ [][Next]_vars /\ \A t \in Threads : WF_vars(InCall(t))

-----------------------------------------------------------------------------
ChunkRec == [type : {"log", "slab"}, paddr : ChunkAddr, header : 0 .. 255,
             tail : Nat, availsize : 0 .. SizeMod - 1, live : BOOLEAN]
RegionRec == [ch : Nat, at : Nat, size : Nat, req : Nat]

CallPoints == {"idle", "lock", "lookup", "new", "append", "unlock"}

TypeOK ==
  /\ lock \in Threads \cup {NoThread}
  /\ pc \in [Threads -> CallPoints]
  /\ req \in [Threads -> Nat] /\ ch \in [Threads -> Nat] /\ tail \in [Threads -> Nat]
  /\ pool \in PoolType
  /\ chunks \in Seq(ChunkRec)
  /\ avail_chunks \in Seq(1 .. Len(chunks))
  /\ regions \in Seq(RegionRec)
  /\ proc \in {"running", "exited", "faulted"}

\* The room in a chunk that holds nothing yet.
Capacity == ChunkSize - PchunkSize

\* Chunk c holds no region that an empty chunk could not hold.
Sound(c) == \A i \in 1 .. Len(regions) :
              regions[i].ch = c => regions[i].size <= Capacity

(***************************************************************************)
(* Large objects are long enough for what was asked, and those of a chunk  *)
(* never share a byte with each other or with its header.  They also stay  *)
(* inside the chunk, unless one of them was asked for with a size that no  *)
(* chunk holds: nothing but such a request makes a chunk overflow.         *)
(***************************************************************************)
RegionsApart ==
  \A i \in 1 .. Len(regions) :
    /\ regions[i].at >= PchunkSize
    /\ regions[i].at + PregionSize + regions[i].req <= RegionEnd(i)
    /\ Sound(regions[i].ch) => RegionEnd(i) <= ChunkSize
    /\ \A j \in 1 .. Len(regions) :
         i # j /\ regions[i].ch = regions[j].ch =>
           RegionEnd(i) <= regions[j].at \/ RegionEnd(j) <= regions[i].at

(***************************************************************************)
(* A chunk's counters say what its list of regions says: the tail is       *)
(* behind all of them and availsize is the rest in size_t arithmetic.      *)
(***************************************************************************)
Sizes == [i \in 1 .. Len(regions) |-> regions[i].size]
RegionsOf(c) == {i \in 1 .. Len(regions) : regions[i].ch = c}
Total(c) == SumFunctionOnSet(Sizes, RegionsOf(c))

ChunkCountersMatch ==
  \A c \in 1 .. Len(chunks) :
    /\ chunks[c].tail = PchunkSize + Total(c)
    /\ chunks[c].availsize = (ChunkSize - chunks[c].tail) % SizeMod

(***************************************************************************)
(* Of the log chunks only the one regions are appended to is live: the     *)
(* collector (src/src/gc.c:36, 163) must leave that one alone.             *)
(***************************************************************************)
Replacing == \E t \in Threads : pc[t] = "new"

LiveIsFirst ==
  \A c \in 1 .. Len(chunks) :
    chunks[c].type = "log" =>
      (chunks[c].live <=> c = Head(avail_chunks) /\ ~Replacing)

-----------------------------------------------------------------------------
(***************************************************************************)
(* The inductive invariant behind RegionsApart and LiveIsFirst: the        *)
(* regions of a chunk lie between its header and its tail, availsize is    *)
(* the rest in size_t arithmetic, regions are appended to a log chunk, and *)
(* the thread that has read a chunk's tail holds the lock.                 *)
(***************************************************************************)
Held == {chunks[c].paddr : c \in 1 .. Len(chunks)}

InCritical(t) == pc[t] \in {"lookup", "new", "append", "unlock"}

LockInv == \A t \in Threads : InCritical(t) <=> lock = t

LocalsInv ==
  \A t \in Threads :
    /\ pc[t] # "idle" => req[t] \in Requests
    /\ pc[t] = "append" =>
         /\ avail_chunks # <<>> /\ ch[t] = Head(avail_chunks)
         /\ tail[t] = chunks[ch[t]].tail
         /\ Sound(ch[t]) /\ Size(t) <= Capacity => tail[t] + Size(t) <= ChunkSize

ChunksInv ==
  \A c \in 1 .. Len(chunks) :
    /\ PchunkSize <= chunks[c].tail
    /\ chunks[c].availsize = (ChunkSize - chunks[c].tail) % SizeMod
    /\ Sound(c) => chunks[c].tail <= ChunkSize

RegionsInv ==
  /\ \A i \in 1 .. Len(regions) :
       /\ regions[i].ch \in 1 .. Len(chunks)
       /\ PchunkSize <= regions[i].at
       /\ RegionEnd(i) <= chunks[regions[i].ch].tail
       /\ regions[i].at + PregionSize + regions[i].req <= RegionEnd(i)
  /\ \A i, j \in 1 .. Len(regions) :
       i # j /\ regions[i].ch = regions[j].ch =>
         RegionEnd(i) <= regions[j].at \/ RegionEnd(j) <= regions[i].at

FirstIsLog ==
  /\ avail_chunks # <<>> => chunks[Head(avail_chunks)].type = "log"
  /\ \A c \in 1 .. Len(chunks) : chunks[c].type = "log" => avail_chunks # <<>>

LogInv == /\ TypeOK /\ PoolOK(pool, Held)
          /\ LockInv /\ LocalsInv
          /\ ChunksInv /\ RegionsInv
          /\ FirstIsLog /\ LiveIsFirst

(***************************************************************************)
(* No request was served that no chunk holds: a chunk holds requests up to *)
(* chunksize less two headers and the rounding, arena_malloc_large is      *)
(* handed those up to arena_maxlarge = chunksize.                          *)
(***************************************************************************)
AllFit == \A i \in 1 .. Len(regions) : regions[i].size <= Capacity

(***************************************************************************)
(* The large path is a store of blocks, like the small one, as long as all *)
(* requests fit: each call seems to take its region at one moment, apart   *)
(* from all others in the mapping of its pool, those of the chunks next to *)
(* it included, and long enough, and no retired chunk, no chunk the small  *)
(* path takes and no lsfree moves it or takes it back.  The first request  *)
(* that does not fit covers the header of the chunk behind, and those that *)
(* follow it in the same chunk what the small path has put there: from     *)
(* then on nothing is promised.                                            *)
(***************************************************************************)
Blocks == {Block(i) : i \in 1 .. Len(regions)}
Serving == [t \in Threads |-> pc[t] = "unlock"]

Store == INSTANCE BlockStore WITH
           asked <- req, served <- Serving, blocks <- Blocks

StoreWhileFitting == Store!Init /\ [][AllFit' => Store!Next]_(Store!vars)

(***************************************************************************)
(* As long as all requests fit, lsfree of a large object finds the chunk   *)
(* the object was taken from, with the header it was given: it is taken    *)
(* neither for a huge object nor for one of an arena whose address is      *)
(* some object's bytes.                                                    *)
(***************************************************************************)
FreesFindTheirChunk == AllFit => \A i \in Returned : ~FreeMayFault(i)

-----------------------------------------------------------------------------
(***************************************************************************)
(* "memset(rd_addr[alloc_object_num], -1, sz)" with any sz up to 10000     *)
(* (src/test/integration/nofree_test.cpp:39, 72): large requests are       *)
(* served, the process does not fault.                                     *)
(***************************************************************************)
NoFault == proc # "faulted"
=============================================================================
