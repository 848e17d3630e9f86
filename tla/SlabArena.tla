------------------------------ MODULE SlabArena ------------------------------
(***************************************************************************)
(* The small-object path of one arena: arena_malloc_small and what it      *)
(* calls (src/src/arena.c, src/src/slab.c), run by several threads bound   *)
(* to the arena, and lsfree of what it returned.                           *)
(*                                                                         *)
(* An arena takes chunks from its pool, carves sregions of SregionSize     *)
(* bytes out of the newest chunk, and hands out slabs from the current     *)
(* sregion of the request's size class by bumping a tail pointer.  DRAM    *)
(* objects (chunk_t, sregion_t) are positions of the sequences chunks and  *)
(* sregions, 0 is NULL, and an address in pmem is a chunk and an offset.   *)
(***************************************************************************)
EXTENDS PmemPoolOps, FiniteSets

CONSTANTS
  Threads,          \* the threads bound to the arena
  NoThread,         \* the owner of a free mutex
  MaxPools,         \* bound: the pool files the pmem device has room for
  MaxFrees,         \* bound: calls of lsfree
  ChunkSize,        \* chunksize
  SregionSize,      \* sregion_size
  PchunkSize,       \* sizeof(pchunk_t), the header of a chunk
  PsregionSize,     \* sizeof(psregion_t), the header of an sregion
  PslabSize,        \* sizeof(pslab_t), the header of a slab
  SizeClass,        \* size_class[]
  LowBytes          \* low bytes of the addresses malloc returns

Classes == 1 .. Len(SizeClass)

\* arena_maxsmall is the last size class, and arena_malloc sends here the
\* sizes below it; lsmalloc(0) asks for one byte.
Requests == 1 .. SizeClass[Len(SizeClass)] - 1

ASSUME SlabSizesAssumption ==
  /\ {ChunkSize, SregionSize, PchunkSize, PsregionSize, PslabSize} \subseteq Nat
  /\ PchunkSize > 0 /\ PsregionSize > 0 /\ PslabSize > 0
  /\ PchunkSize + SregionSize <= ChunkSize
  /\ SizeClass \in Seq(Nat \ {0}) /\ Len(SizeClass) > 0
  /\ \A c \in Classes : PsregionSize + PslabSize + SizeClass[c] <= SregionSize

ASSUME SlabThreadsAssumption ==
  NoThread \notin Threads /\ MaxPools \in Nat \ {0} /\ MaxFrees \in Nat

\* malloc aligns to 16 bytes.
ASSUME LowBytesAssumption == LowBytes \subseteq {b \in 0 .. 255 : b % 16 = 0}

CHUNK_TYPE_SLAB == 115      \* 's'

\* The smallest class that holds size bytes.
SizeToClass(size) ==
  CHOOSE c \in Classes : /\ SizeClass[c] >= size
                         /\ \A d \in 1 .. c - 1 : SizeClass[d] < size

VARIABLES
  lock,             \* arena->lock
  pc, req,          \* each thread's place in its call, and the size asked for
  ch, sr, tail,     \* its locals: chunk, sregion, and the tail it has read
  pool,             \* arena->pool
  chunks,           \* every chunk_t of the arena, in the order of creation
  avail_schunks,    \* arena->avail_schunks, first element first
  sregions,         \* every sregion_t, in the order of creation
  avail_sregion,    \* arena->avail_sregion
  slabs,            \* every slab handed out, in order, as its pmem header says
  freed,            \* history: the slabs passed to lsfree
  gcq,              \* the tasks maybe_gc has put into the thread pool's queue
  exited            \* the process has called exit(1)

mem == <<pool, chunks, avail_schunks, sregions, avail_sregion, slabs, freed, gcq>>
vars == <<lock, pc, req, ch, sr, tail, mem, exited>>

Init ==
  /\ lock = NoThread
  /\ pc = [t \in Threads |-> "idle"]
  /\ req = [t \in Threads |-> 0]
  /\ ch = [t \in Threads |-> 0]
  /\ sr = [t \in Threads |-> 0]
  /\ tail = [t \in Threads |-> 0]
  /\ pool = PmempoolCreate
  /\ chunks = <<>>
  /\ avail_schunks = <<>>
  /\ sregions = <<>>
  /\ avail_sregion = [c \in Classes |-> 0]
  /\ slabs = <<>>
  /\ freed = {}
  /\ gcq = <<>>
  /\ exited = FALSE

Go(t, from, to) == /\ ~exited
                   /\ pc[t] = from
                   /\ pc' = [pc EXCEPT ![t] = to]

-----------------------------------------------------------------------------
\* A thread calls lsmalloc with a small size and stops at arena->lock.
Malloc(t) ==
  /\ Go(t, "idle", "lock")
  /\ \E size \in Requests : req' = [req EXCEPT ![t] = size]
  /\ UNCHANGED <<lock, ch, sr, tail, mem, exited>>

\* Mutant: the lock is not waited for.
LockWithoutWaiting(t) ==
  /\ Go(t, "lock", "lookup")
  /\ lock' = t
  /\ UNCHANGED <<req, ch, sr, tail, mem, exited>>

Lock(t) ==
  /\ Go(t, "lock", "lookup")
  /\ lock = NoThread
  /\ lock' = t
  /\ UNCHANGED <<req, ch, sr, tail, mem, exited>>

Cls(t) == SizeToClass(req[t])
Size(t) == SizeClass[Cls(t)]

\* Mutant: the slab's header is forgotten.
FitsWithoutHeader(s, size) ==
  sregions[s].ptail + size <= sregions[s].paddr + SregionSize

\* One more slab of the given size ends at most at the sregion's end.
Fits(s, size) ==
  sregions[s].ptail + PslabSize + size <= sregions[s].paddr + SregionSize

\* The class's current sregion takes the slab: its tail is read.
LookupEasy(t) ==
  /\ Go(t, "lookup", "easy")
  /\ avail_sregion[Cls(t)] # 0
  /\ Fits(avail_sregion[Cls(t)], Size(t))
  /\ sr' = [sr EXCEPT ![t] = avail_sregion[Cls(t)]]
  /\ tail' = [tail EXCEPT ![t] = sregions[avail_sregion[Cls(t)]].ptail]
  /\ UNCHANGED <<lock, req, ch, mem, exited>>

\* Mutant: the hard path is taken whatever room is left.
LookupHardAlways(t) ==
  /\ Go(t, "lookup", "hard")
  /\ UNCHANGED <<lock, req, ch, sr, tail, mem, exited>>

\* There is no current sregion, or it has no room left.
LookupHard(t) ==
  /\ Go(t, "lookup", "hard")
  /\ avail_sregion[Cls(t)] # 0 => ~Fits(avail_sregion[Cls(t)], Size(t))
  /\ UNCHANGED <<lock, req, ch, sr, tail, mem, exited>>

\* A slab header is written; 'c' is SLAB_CLEAN.
NewSlab(t, s, at) ==
  slabs' = Append(slabs, [sr |-> s, at |-> at, size |-> Size(t),
                          req |-> req[t], attr |-> "c"])

\* Mutant: ptail advances by the size asked for.
EasyByRequest(t) ==
  /\ Go(t, "easy", "unlock")
  /\ NewSlab(t, sr[t], tail[t])
  /\ sregions' = [sregions EXCEPT ![sr[t]].ptail = tail[t] + PslabSize + req[t]]
  /\ UNCHANGED <<lock, req, ch, sr, tail, pool, chunks, avail_schunks,
                 avail_sregion, freed, gcq, exited>>

Easy(t) ==
  /\ Go(t, "easy", "unlock")
  /\ NewSlab(t, sr[t], tail[t])
  /\ sregions' = [sregions EXCEPT ![sr[t]].ptail = tail[t] + PslabSize + Size(t)]
  /\ UNCHANGED <<lock, req, ch, sr, tail, pool, chunks, avail_schunks,
                 avail_sregion, freed, gcq, exited>>

\* The first chunk of avail_schunks has room for an sregion: its tail is read.
HardSameChunk(t) ==
  /\ Go(t, "hard", "carve")
  /\ avail_schunks # <<>>
  /\ chunks[Head(avail_schunks)].availsize >= SregionSize
  /\ ch' = [ch EXCEPT ![t] = Head(avail_schunks)]
  /\ tail' = [tail EXCEPT ![t] = chunks[Head(avail_schunks)].tail]
  /\ UNCHANGED <<lock, req, sr, mem, exited>>

NeedsChunk ==
  avail_schunks # <<>> => chunks[Head(avail_schunks)].availsize < SregionSize

\* maybe_gc: above 70 a fast, above 90 also a slow collection is queued.
MaybeGc(p) ==
  gcq' = gcq \o (IF PmempoolUsedpct(p) >= 70 THEN <<"fastgc">> ELSE <<>>)
             \o (IF PmempoolUsedpct(p) >= 90 THEN <<"slowgc">> ELSE <<>>)

\* arena_chunk_alloc: a chunk of the pool gets a chunk_t (whose address is
\* the chunk's first word in pmem) and becomes the first of avail_schunks.
HardNewChunk(t) ==
  /\ Go(t, "hard", "carve")
  /\ NeedsChunk
  /\ Exhausted(pool) => pool.nfiles < MaxPools
  /\ pool' = ChunkAllocPool(pool)
  /\ \E b \in LowBytes :
       chunks' = Append(chunks, [paddr |-> ChunkAllocAddr(pool),
                                 header |-> b,
                                 tail |-> PchunkSize,
                                 availsize |-> ChunkSize - PchunkSize])
  /\ avail_schunks' = <<Len(chunks) + 1>> \o avail_schunks
  /\ MaybeGc(pool')
  /\ ch' = [ch EXCEPT ![t] = Len(chunks) + 1]
  /\ tail' = [tail EXCEPT ![t] = PchunkSize]
  /\ UNCHANGED <<lock, req, sr, sregions, avail_sregion, slabs, freed, exited>>

\* The pool is exhausted and pmem_map_file fails: exit(1), locks held.
HardExit(t) ==
  /\ ~exited
  /\ pc[t] = "hard"
  /\ NeedsChunk
  /\ Exhausted(pool)
  /\ exited' = TRUE
  /\ UNCHANGED <<lock, pc, req, ch, sr, tail, mem>>

\* Mutant: availsize is not reduced.
CarveUncounted(t) ==
  LET first == tail[t] + PsregionSize
  IN  /\ Go(t, "carve", "unlock")
      /\ chunks' = [chunks EXCEPT ![ch[t]].tail = tail[t] + SregionSize]
      /\ sregions' = Append(sregions,
                            [ch |-> ch[t], paddr |-> tail[t], size |-> Size(t),
                             ptail |-> first + PslabSize + Size(t)])
      /\ avail_sregion' = [avail_sregion EXCEPT ![Cls(t)] = Len(sregions) + 1]
      /\ NewSlab(t, Len(sregions) + 1, first)
      /\ UNCHANGED <<lock, req, ch, sr, tail, pool, avail_schunks, freed, gcq,
                     exited>>

\* An sregion is carved at the chunk's tail, its first slab is the answer,
\* and it becomes the class's current sregion.
Carve(t) ==
  LET first == tail[t] + PsregionSize
  IN  /\ Go(t, "carve", "unlock")
      /\ chunks' = [chunks EXCEPT ![ch[t]].tail = tail[t] + SregionSize,
                                  ![ch[t]].availsize = @ - SregionSize]
      /\ sregions' = Append(sregions,
                            [ch |-> ch[t], paddr |-> tail[t], size |-> Size(t),
                             ptail |-> first + PslabSize + Size(t)])
      /\ avail_sregion' = [avail_sregion EXCEPT ![Cls(t)] = Len(sregions) + 1]
      /\ NewSlab(t, Len(sregions) + 1, first)
      /\ UNCHANGED <<lock, req, ch, sr, tail, pool, avail_schunks, freed, gcq,
                     exited>>

\* Mutant: a return without malloc_mutex_unlock.
ReturnLocked(t) ==
  /\ Go(t, "unlock", "idle")
  /\ req' = [req EXCEPT ![t] = 0]
  /\ ch' = [ch EXCEPT ![t] = 0]
  /\ sr' = [sr EXCEPT ![t] = 0]
  /\ tail' = [tail EXCEPT ![t] = 0]
  /\ UNCHANGED <<lock, mem, exited>>

\* The call returns: its locals are gone.
Unlock(t) ==
  /\ Go(t, "unlock", "idle")
  /\ lock' = NoThread
  /\ req' = [req EXCEPT ![t] = 0]
  /\ ch' = [ch EXCEPT ![t] = 0]
  /\ sr' = [sr EXCEPT ![t] = 0]
  /\ tail' = [tail EXCEPT ![t] = 0]
  /\ UNCHANGED <<mem, exited>>

\* lsfree(ptr): idalloct takes the chunk's first byte for its type.  In pmem
\* that is the low byte of the address of a chunk_t; only 's' leads to
\* arena_dalloc_small, which sets the slab's attr to 'd' without the lock.
Free(t, i) ==
  /\ ~exited
  /\ pc[t] = "idle"
  /\ freed' = freed \cup {i}
  /\ slabs' = IF chunks[sregions[slabs[i].sr].ch].header = CHUNK_TYPE_SLAB
              THEN [slabs EXCEPT ![i].attr = "d"]
              ELSE slabs
  /\ UNCHANGED <<lock, pc, req, ch, sr, tail, pool, chunks, avail_schunks,
                 sregions, avail_sregion, gcq, exited>>

\* The slabs whose address some caller has: all but the one still being
\* returned by the thread that holds the lock.
Returned == IF \E t \in Threads : pc[t] = "unlock"
            THEN 1 .. Len(slabs) - 1 ELSE 1 .. Len(slabs)

FreeSome(t) == /\ Cardinality(freed) < MaxFrees
               /\ \E i \in Returned \ freed : Free(t, i)

Exited == exited /\ UNCHANGED vars

InCall(t) == \/ Lock(t)
             \/ LookupEasy(t) \/ LookupHard(t)
             \/ Easy(t)
             \/ HardSameChunk(t) \/ HardNewChunk(t) \/ HardExit(t)
             \/ Carve(t)
             \/ Unlock(t)

Next == \/ \E t \in Threads : Malloc(t) \/ InCall(t) \/ FreeSome(t)
        \/ Exited

\* The scheduler runs every thread that is inside a call; nothing is assumed
\* about when threads call, or about the order in which a mutex is granted.
Spec == Init /\ [][Next]_vars /\ \A t \in Threads : WF_vars(InCall(t))

-----------------------------------------------------------------------------
ChunkRec == [paddr : ChunkAddr, header : 0 .. 255, tail : Nat, availsize : Int]
SregionRec == [ch : Nat, paddr : Nat, size : Nat, ptail : Nat]
SlabRec == [sr : Nat, at : Nat, size : Nat, req : Nat, attr : {"c", "d"}]

CallPoints == {"idle", "lock", "lookup", "easy", "hard", "carve", "unlock"}

TypeOK ==
  /\ lock \in Threads \cup {NoThread}
  /\ pc \in [Threads -> CallPoints]
  /\ req \in [Threads -> Nat] /\ ch \in [Threads -> Nat]
  /\ sr \in [Threads -> Nat] /\ tail \in [Threads -> Nat]
  /\ pool \in PoolType
  /\ chunks \in Seq(ChunkRec)
  /\ avail_schunks \in Seq(1 .. Len(chunks))
  /\ sregions \in Seq(SregionRec)
  /\ avail_sregion \in [Classes -> 0 .. Len(sregions)]
  /\ slabs \in Seq(SlabRec)
  /\ freed \subseteq 1 .. Len(slabs)
  /\ gcq \in Seq({"fastgc", "slowgc"})
  /\ exited \in BOOLEAN

\* Where an sregion and a slab lie.
SregionBase(s) == chunks[sregions[s].ch].paddr
SlabBase(i) == SregionBase(slabs[i].sr)
SlabEnd(i) == slabs[i].at + PslabSize + slabs[i].size

\* [lo1, hi1) of chunk b1 and [lo2, hi2) of chunk b2 share no byte.
Apart(b1, lo1, hi1, b2, lo2, hi2) == b1 # b2 \/ hi1 <= lo2 \/ hi2 <= lo1

(***************************************************************************)
(* No two slabs share a byte, header or data, whichever threads allocated  *)
(* them in whichever order, and no slab covers the header of its chunk or  *)
(* of any sregion.                                                         *)
(***************************************************************************)
NoOverlap ==
  /\ \A i, j \in 1 .. Len(slabs) : i # j =>
       Apart(SlabBase(i), slabs[i].at, SlabEnd(i),
             SlabBase(j), slabs[j].at, SlabEnd(j))
  /\ \A i \in 1 .. Len(slabs), s \in 1 .. Len(sregions) :
       Apart(SlabBase(i), slabs[i].at, SlabEnd(i),
             SregionBase(s), sregions[s].paddr, sregions[s].paddr + PsregionSize)
  /\ \A i \in 1 .. Len(slabs) : slabs[i].at >= PchunkSize

(***************************************************************************)
(* Every slab lies inside its chunk and its data is at least as long as    *)
(* the caller asked for.                                                   *)
(***************************************************************************)
SlabsHoldRequests ==
  \A i \in 1 .. Len(slabs) : /\ SlabEnd(i) <= ChunkSize
                             /\ slabs[i].size >= slabs[i].req

(***************************************************************************)
(* An sregion can be walked slab by slab from its first one, as the        *)
(* comment at src/src/arena.c:292 says the collector does: its slabs are   *)
(* all of its size and fill it without a gap up to ptail.                  *)
(***************************************************************************)
SlabsIn(s) == {i \in 1 .. Len(slabs) : slabs[i].sr = s}

SregionsWalkable ==
  \A s \in 1 .. Len(sregions) :
    LET first == sregions[s].paddr + PsregionSize
        step == PslabSize + sregions[s].size
        n == Cardinality(SlabsIn(s))
    IN  /\ {slabs[i].at : i \in SlabsIn(s)} = {first + k * step : k \in 0 .. n - 1}
        /\ sregions[s].ptail = first + n * step

(***************************************************************************)
(* Space is given up only when it is of no use: a class leaves its sregion *)
(* only when one more slab would not fit, and a chunk stops being the one  *)
(* sregions are carved from only when one more sregion would not fit.      *)
(***************************************************************************)
SpaceNotAbandoned ==
  [][/\ \A c \in Classes :
          avail_sregion'[c] # avail_sregion[c] /\ avail_sregion[c] # 0 =>
            ~Fits(avail_sregion[c], SizeClass[c])
     /\ avail_schunks' # avail_schunks /\ avail_schunks # <<>> =>
          chunks[Head(avail_schunks)].availsize < SregionSize]_vars

(***************************************************************************)
(* A thread that has taken the arena's lock finishes its call and releases *)
(* it, unless the process exits: no path keeps the lock.                   *)
(***************************************************************************)
HolderReturns ==
  \A t \in Threads : lock = t ~> (lock # t \/ exited)

(***************************************************************************)
(* The small path is a store of blocks: whatever the threads do inside     *)
(* arena_malloc_small, each call seems to take its slab at one moment, the *)
(* slab is apart from all others and long enough, and no later call and no *)
(* lsfree moves or takes it back.                                          *)
(***************************************************************************)
Block(i) == [base |-> SlabBase(i), header |-> slabs[i].at,
             data |-> slabs[i].at + PslabSize, end |-> SlabEnd(i)]
Blocks == {Block(i) : i \in 1 .. Len(slabs)}
Serving == [t \in Threads |-> pc[t] = "unlock"]

Store == INSTANCE BlockStore WITH
           asked <- req, served <- Serving, blocks <- Blocks

ImplementsStore == Store!Spec

-----------------------------------------------------------------------------
(***************************************************************************)
(* The inductive invariant behind NoOverlap and SlabsHoldRequests: chunks  *)
(* are distinct, the sregions of a chunk are disjoint and lie below its    *)
(* tail, the slabs of an sregion are disjoint and lie below its ptail, and *)
(* a thread between a read and the write that uses it holds the lock, so   *)
(* that what it has read is still there.                                   *)
(***************************************************************************)
InCritical(t) == pc[t] \in {"lookup", "easy", "hard", "carve", "unlock"}

LockInv == \A t \in Threads : InCritical(t) <=> lock = t

Held == {chunks[i].paddr : i \in 1 .. Len(chunks)}

ChunksInv ==
  /\ \A i, j \in 1 .. Len(chunks) : chunks[i].paddr = chunks[j].paddr => i = j
  /\ \A i \in 1 .. Len(chunks) :
       /\ PchunkSize <= chunks[i].tail
       /\ chunks[i].tail + chunks[i].availsize = ChunkSize
       /\ 0 <= chunks[i].availsize

SregionEnd(s) == sregions[s].paddr + SregionSize

SregionsInv ==
  /\ \A s \in 1 .. Len(sregions) :
       /\ sregions[s].ch \in 1 .. Len(chunks)
       /\ PchunkSize <= sregions[s].paddr
       /\ SregionEnd(s) <= chunks[sregions[s].ch].tail
       /\ sregions[s].paddr + PsregionSize <= sregions[s].ptail
       /\ sregions[s].ptail <= SregionEnd(s)
  /\ \A s, r \in 1 .. Len(sregions) :
       s # r /\ sregions[s].ch = sregions[r].ch =>
         SregionEnd(s) <= sregions[r].paddr \/ SregionEnd(r) <= sregions[s].paddr

SlabsInv ==
  /\ \A i \in 1 .. Len(slabs) :
       /\ slabs[i].sr \in 1 .. Len(sregions)
       /\ sregions[slabs[i].sr].paddr + PsregionSize <= slabs[i].at
       /\ SlabEnd(i) <= sregions[slabs[i].sr].ptail
       /\ slabs[i].req <= slabs[i].size
  /\ \A i, j \in 1 .. Len(slabs) :
       i # j /\ slabs[i].sr = slabs[j].sr =>
         SlabEnd(i) <= slabs[j].at \/ SlabEnd(j) <= slabs[i].at

LocalsInv ==
  \A t \in Threads :
    /\ pc[t] # "idle" => req[t] \in Requests
    /\ pc[t] = "easy" => /\ sr[t] \in 1 .. Len(sregions)
                         /\ tail[t] = sregions[sr[t]].ptail
                         /\ Fits(sr[t], Size(t))
    /\ pc[t] = "carve" => /\ ch[t] \in 1 .. Len(chunks)
                          /\ tail[t] = chunks[ch[t]].tail
                          /\ chunks[ch[t]].availsize >= SregionSize

SlabArenaInv == /\ TypeOK
                /\ PoolOK(pool, Held)
                /\ LockInv /\ LocalsInv
                /\ ChunksInv /\ SregionsInv /\ SlabsInv
=============================================================================
