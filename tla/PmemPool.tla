------------------------------ MODULE PmemPool ------------------------------
(***************************************************************************)
(* One arena's chunk pool (src/src/pool.c) as a state machine: its callers *)
(* take chunks with pmempool_chunk_alloc and return chunks they hold with  *)
(* pmempool_free.  Every call is made under the arena's lock, so a call is *)
(* one step.                                                               *)
(***************************************************************************)
EXTENDS PmemPoolOps, FiniteSets

CONSTANT MaxPools       \* bound: the pool files the pmem device has room for

ASSUME MaxPoolsAssumption == MaxPools \in Nat \ {0}

VARIABLES pool,         \* the pmempool_t
          out,          \* history: the chunks the callers hold
          exited        \* the process has called exit(1)

vars == <<pool, out, exited>>

\* pmempool_create has returned.
Init == /\ pool = PmempoolCreate
        /\ out = {}
        /\ exited = FALSE

\* A chunk is handed out; a new pool is mapped first if the ring is empty.
ChunkAlloc ==
  /\ ~exited
  /\ Exhausted(pool) => pool.nfiles < MaxPools
  /\ pool' = ChunkAllocPool(pool)
  /\ out' = out \cup {ChunkAllocAddr(pool)}
  /\ UNCHANGED exited

\* pmem_map_file returns NULL: perror and exit(1).
MapFails ==
  /\ ~exited
  /\ Exhausted(pool)
  /\ exited' = TRUE
  /\ UNCHANGED <<pool, out>>

Free(c) ==
  /\ ~exited
  /\ pool' = PmempoolFree(pool, c)
  /\ out' = out \ {c}
  /\ UNCHANGED exited

\* The process is gone.
Exited == exited /\ UNCHANGED vars

Next == ChunkAlloc \/ MapFails \/ (\E c \in out : Free(c)) \/ Exited

Spec == Init /\ [][Next]_vars

-----------------------------------------------------------------------------
TypeOK == /\ pool \in PoolType
          /\ out \in SUBSET ChunkAddr
          /\ exited \in BOOLEAN

(***************************************************************************)
(* Every chunk of every mapped pool is either held by a caller or linked   *)
(* in the ring once, never both and never lost, and the dummy node is      *)
(* always linked exactly once: the pop, the refill at the boundary where   *)
(* only the dummy is left, the step over the dummy and the push agree.     *)
(***************************************************************************)
ChunksConserved == NoNodeTwice(pool) /\ RingAndOutPartition(pool, out)

(***************************************************************************)
(* The two counters maybe_gc's usage figure is made of are right: tot      *)
(* counts every mapped chunk and used the chunks callers hold.             *)
(***************************************************************************)
CountersMatch ==
  /\ pool.chunk_tot = Cardinality(ChunksOf(pool.nfiles))
  /\ pool.chunk_used = Cardinality(out)

-----------------------------------------------------------------------------
\* The free chunks in the order they will be handed out: the ring from
\* fl_now without the dummy node.
HeaderPos == CHOOSE i \in 1 .. Len(pool.ring) : pool.ring[i] = Header

FreeOrder == [i \in 1 .. Len(pool.ring) - 1 |->
                 pool.ring[IF i < HeaderPos THEN i ELSE i + 1]]

\* The pool implements a first-in first-out store of chunks that maps a new
\* pool only when no chunk is free.
ChunkQueue == INSTANCE ChunkQueue WITH avail <- FreeOrder, npools <- pool.nfiles

ImplementsChunkQueue == ChunkQueue!Spec
=============================================================================
