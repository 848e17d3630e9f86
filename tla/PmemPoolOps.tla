---------------------------- MODULE PmemPoolOps ----------------------------
(***************************************************************************)
(* The chunk pool of src/src/pool.c as operators on a record.              *)
(*                                                                         *)
(* The free list is a ring of DRAM nodes (qr.h), one per free chunk plus   *)
(* one dummy node whose paddr is NULL; fl_now points into it.  The ring is *)
(* the sequence of the nodes' addresses read from fl_now along qre_next:   *)
(* its head is fl_now, its last element is qr_prev(fl_now).                *)
(*                                                                         *)
(* A chunk is <<k, i>>: the i-th chunk of the k-th pool mapped for this    *)
(* arena.  Two mappings never overlap (a promise of the kernel's mmap), so *)
(* the pair stands for the address.                                        *)
(***************************************************************************)
EXTENDS Integers, Sequences

CONSTANT PoolChunks     \* PMEMPOOL_SIZE / chunksize, the chunks of one pool

ASSUME PoolChunksAssumption == PoolChunks \in Nat \ {0}

\* paddr of the dummy node: NULL, which is the address of no chunk.
Header == <<0, 0>>

ChunkAddr == (Nat \ {0}) \X (1 .. PoolChunks)

\* The chunks of the first n pools.
ChunksOf(n) == (1 .. n) \X (1 .. PoolChunks)

\* nfiles is the length of the file list without its head, that is, the
\* number of pools mapped so far.
PoolType ==
  [ring : Seq(ChunkAddr \cup {Header}), nfiles : Nat,
   chunk_tot : Nat, chunk_used : Int]

\* The nodes of a freshly mapped pool, in the order they are linked.
NewChunks(k) == [i \in 1 .. PoolChunks |-> <<k, i>>]

\* The new nodes go right after fl_now, and fl_now advances to the first.
PmempoolCreateOne(p) ==
  [ring       |-> NewChunks(p.nfiles + 1) \o Append(Tail(p.ring), Head(p.ring)),
   nfiles     |-> p.nfiles + 1,
   chunk_tot  |-> p.chunk_tot + PoolChunks,
   chunk_used |-> p.chunk_used]

PmempoolCreate ==
  PmempoolCreateOne([ring |-> <<Header>>, nfiles |-> 0,
                     chunk_tot |-> 0, chunk_used |-> 0])

\* qr_next(fl_now) = fl_now: the ring holds one node only.
Exhausted(p) == Len(p.ring) = 1

Refill(p) == IF Exhausted(p) THEN PmempoolCreateOne(p) ELSE p

\* Mutant: the dummy node is not skipped.
SkipNothing(r) == r

\* fl_now steps over the dummy node, if it stands on it.
SkipHeader(r) == IF Head(r) = Header THEN Append(Tail(r), Head(r)) ELSE r

\* The chunk pmempool_chunk_alloc returns, and the pool it leaves.
ChunkAllocAddr(p) == Head(SkipHeader(Refill(p).ring))

ChunkAllocPool(p) ==
  LET q == Refill(p)
  IN  [ring |-> Tail(SkipHeader(q.ring)), nfiles |-> q.nfiles,
       chunk_tot |-> q.chunk_tot, chunk_used |-> q.chunk_used + 1]

\* Mutants: the counter is forgotten; the chunk goes just after fl_now.
FreeWithoutCount(p, c) == [p EXCEPT !.ring = Append(@, c)]

FreeAfterNow(p, c) ==
  [p EXCEPT !.ring = <<Head(@), c>> \o Tail(@), !.chunk_used = @ - 1]

\* The chunk goes back just before fl_now, that is, to the end of the ring.
PmempoolFree(p, c) ==
  [p EXCEPT !.ring = Append(@, c), !.chunk_used = @ - 1]

\* Integer division, as in C.
PmempoolUsedpct(p) == p.chunk_used \div p.chunk_tot

-----------------------------------------------------------------------------
\* The nodes of the ring.
Nodes(p) == {p.ring[i] : i \in 1 .. Len(p.ring)}

\* No node is linked twice.
NoNodeTwice(p) ==
  \A i, j \in 1 .. Len(p.ring) : p.ring[i] = p.ring[j] => i = j

\* Exactly the chunks that are not handed out are in the ring, with the
\* dummy node; nothing is in both places.
RingAndOutPartition(p, out) ==
  /\ Header \in Nodes(p)
  /\ out \cap Nodes(p) = {}
  /\ out \cup (Nodes(p) \ {Header}) = ChunksOf(p.nfiles)

\* A well-formed pool of which the chunks in out are handed out.
PoolOK(p, out) ==
  /\ p \in PoolType
  /\ NoNodeTwice(p)
  /\ RingAndOutPartition(p, out)
=============================================================================
