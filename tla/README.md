# A formal model of lsmalloc

lsmalloc is a memory allocator for persistent memory (pmem).  It hands out
objects from files mapped from a pmem device and keeps its bookkeeping in DRAM.
This directory holds TLA+ modules translated from its source, TLC configurations
that check them on small instances, and theorems about them that TLAPS checks.
Paths are relative to the root of the repository, whose sources are under `src/`.

## 1. The system

| Part | Source | State | Operations |
|---|---|---|---|
| Initialisation and binding | `src/src/lsmalloc.c`, `lsmalloc_internal.h`, `tsd.h` | `malloc_initialized`, `init_lock`, `arenas[]`, `arenas_lock`, `nthreads` of each arena, the `arenas` TLS variable and pthread key of each thread | `lsmalloc` (its test of the flag), `malloc_init_hard`, `choose_arena`, `choose_arena_hard`, `arenas_extend`, `arenas_cleanup` |
| Pool | `src/src/pool.c`, `qr.h` | one ring of free chunks and one of files per arena, two counters | `pmempool_create`, `_create_one`, `_chunk_alloc`, `_free`, `_usedpct`, `_destroy` |
| Pool files | `src/src/pool.c` | `mmap_file`, `pmem_consmp`, `pmem_path`, the files | `pmempool_create_one`, `lspmemdir` |
| Small path | `src/src/arena.c:198-301`, `slab.c` | `avail_schunks`, `avail_sregion[]`, tails of chunks and sregions, slab headers in pmem | `arena_malloc_small` (`_easy`, `_hard`), `arena_chunk_alloc`, `arena_dalloc_small` |
| Large path | `src/src/arena.c:118-195` | `avail_chunks`, regions | `arena_malloc_large`, `arena_region_alloc`, `lsfree` of what they return |
| Collector | `src/src/gc.c` | `gcing`, `gc_lock`, tasks of the thread pool | `maybe_gc`, `fastgc_scheduler`, `slowgc_scheduler`, `do_slowgc` |
| Huge objects | `src/src/huge.c`, `rb.h` | `huge_tree`, `huge_mtx`, one file per object, a node in the frame of each `huge_malloc` | `huge_malloc`, `huge_dalloc` |
| Write lock | `src/src/lsmalloc.c:294-306` | a mutex in the chunk | `lswrite_before`, `lswrite_after` |
| Base, chunk, chunk_mmap | same names | `base_next_addr`, mappings | `base_alloc`, `chunk_alloc`, `chunk_alloc_mmap` |
| Messages | `src/src/util.c` | the buffer of the caller | `malloc_vsnprintf`, `malloc_snprintf`, `malloc_vcprintf`, `malloc_strtoumax` |
| Rings, lists, trees, atomics, mutexes | `qr.h`, `ql.h`, `rb.h`, `atomic.h`, `mutex.c` | | |

How they interact.  A thread calls `lsmalloc`; the first call in the process
initialises everything under `init_lock`.  The thread is bound to an arena, the
one with the fewest threads, under `arenas_lock`, and the binding is kept in its
TLS.  The request goes by its size to the small path, the large path or, above
`chunksize`, to huge objects.  Both paths of an arena run under `arena->lock`;
they take chunks of 4 MB from the arena's pool, which maps another file of
160 MB (40 chunks) when it has none left.  Every new chunk calls `maybe_gc`,
which may queue collections for the thread pool.  `lsfree` finds out the type of
an object from the chunk it lies in.  Arenas share nothing but `mmap_file` and
`pmem_consmp`, two plain global variables, which huge objects use too.

What is hard: the interleavings of threads inside an arena, of arenas on the two
globals, of initialisation with first use, of thread exit with late destructors;
boundaries (a full sregion, chunk, pool, device); process death over files that
survive; and, in the collector, tasks that iterate over lists others change.
`PROJECT.json` lists each hazard at its line with the properties that cover it.

What makes each part correct:

* binding: one initialisation; `nthreads` exact; least loaded choice; no thread
  waits for ever;
* pool: every chunk is free or held, never both, never lost; chunks are handed
  out in the order in which they became free; the counters are right;
* pool files: pools have files of their own, never removed while in use;
* small path: slabs do not overlap, hold what was asked for, can be walked by a
  collector, no space is abandoned, no lock is kept;
* large path: the same for regions, counters that are those of the list, and the
  chunk an address leads back to is the one it was taken from;
* huge objects: the node found for an address is its own, all that was mapped
  for an object is unmapped with it and nothing else, two objects have two files;
* messages: the buffer holds what the format says, cut where it ends; format,
  arguments and output stay in step;
* collector: live data is moved and dead data reclaimed, a chunk goes back to
  the pool once, tasks end.

## 2. The modules

| Module | What it is |
|---|---|
| `PmemPoolOps` | the pool as operators on a record (`Refill`, `ChunkAllocPool`, `PmempoolFree`, ...) with `PoolOK`, the well-formed pools |
| `PmemPool` | the state machine over them, with what callers hold as history |
| `ChunkQueue` | what a pool promises: a FIFO store of chunks that grows when empty |
| `PmemPool_proofs` | theorems of `PmemPool`, and that it implements `ChunkQueue` |
| `SlabArena` | the small path of one arena, with several threads, on top of `PmemPoolOps` |
| `BlockStore` | what an arena promises: one block per call, disjoint from all others |
| `SlabArena_proofs` | theorems of `SlabArena`, and that it implements `BlockStore` |
| `ArenaBinding` | initialisation, choice of an arena, thread exit |
| `PoolFiles` | the files behind the pools of several arenas, across restarts |
| `HugeFiles` | huge objects and their files, composed with `PoolFiles` over the two shared globals |
| `LogArena` | the large path of one arena, with several threads, on top of `PmemPoolOps` |
| `QueueLists`, `QueueRing` | sequences, and the rings and lists of `qr.h` and `ql.h` that implement them, pointer by pointer |
| `RbTree` | the red-black tree of `rb.h`, in which huge objects are found by address |
| `BaseAlloc` | the base allocator over aligned mappings |
| `ArenaBinding_proofs`, `BaseAlloc_proofs` | theorems of these modules |
| `LogArena_proofs` | theorems of `LogArena`, and that it implements `BlockStore` |
| `HugeFiles_proofs` | theorems of `PoolFiles` and `HugeFiles` together |
| `QueueRing_proofs` | theorems of `QueueRing`, and that it implements `QueueLists` |
| `CommonLemmas` | lemmas the proofs share: quotients, least elements and sums, and the operators of the pool |
| `NumberText` | the conversions between numbers and text of `util.c`, with references for them |
| `Text` | `malloc_vsnprintf` label by label, and its callers |
| `MC...` | the instances TLC runs |

Correspondence with the code:

* **`PmemPoolOps`, `PmemPool`.**  The ring of nodes is the sequence of their
  `paddr` read from `fl_now` along `qre_next`.  So `qr_after_insert` at `fl_now`
  puts nodes behind the head, `qr_before_insert` at the end of the sequence, and
  moving `fl_now` rotates it.  The dummy node, whose `paddr` is NULL, is the
  element `Header`.  A chunk is `<<k, i>>`, the i-th chunk of the arena's k-th
  pool.  All calls happen under the arena's lock, so a call is one step.
* **`SlabArena`.**  One action per stretch of `arena_malloc_small` between two
  points of interest: taking the lock, reading the class's sregion, reading a
  tail (`LookupEasy`, `HardSameChunk`), the write that uses what was read
  (`Easy`, `Carve`), taking a chunk (`HardNewChunk`, all of `arena_chunk_alloc`
  with the pool's refill and `maybe_gc`), the unlock.  Reads and writes are
  separate steps so that the properties depend on the lock.  `Free` is `lsfree`
  with its type test: the byte it takes for the chunk's type is in pmem the low
  byte of the address of the `chunk_t`, which malloc aligns to 16, while `'s'`
  is 115 and `'l'` 108.  So `Free` changes nothing but the history of frees.
* **`BlockStore`.**  `SlabArena` implements it with the slabs as blocks: `Malloc`
  is `Ask`, the write of a slab's header (`Easy`, `Carve`) is `Serve`, `Unlock`
  is `Return`, every other step, frees and the end of the process too, a stutter.
  `LogArena` implements it likewise with the regions as blocks and
  `AppendRegion` as `Serve`, up to the first region that overflows its chunk.
  The blocks of `LogArena` are intervals of the mapping of a whole pool, so that
  blocks of two chunks are compared too; those of `SlabArena` are intervals of a
  chunk each, which `SlabsHoldRequests` says they do not leave.
* **`ArenaBinding`.**  `Call` is the unlocked test of the flag, `InitLock` to
  `InitUnlock` are `malloc_init_hard`, `Hit`/`Miss` are `choose_arena`,
  `ArenasLock` to `TsdSet` are `choose_arena_hard`, with the increment of
  `nthreads` as a load and a store and the TSD store after the unlock.  `Exit`,
  `Cleanup` and `Die` are the end of a thread: the C library clears the key and
  calls `arenas_cleanup`; other destructors may call `lsmalloc` before or after.
  With `narenas_auto` 1 `choose_arena_hard` takes arena 0 without a search, which
  is what the search finds in an array of one.
* **`PoolFiles`.**  One action per access of `pmempool_create_one` to the two
  globals and per call of `pmem_map_file` and `remove`.  Nothing orders the
  calls of two arenas: each runs under its own lock.  The library is built
  with `-O0` (`src/CMakeLists.txt`), so an access is a load or a store.  A file
  is an inode, since a path may name another file later.  `Restart` keeps the
  files and resets everything else.
* **`HugeFiles`.**  One action per access to a global, per call of the operating
  system and per critical section of `huge_mtx`.  Sizes are in pages, an object
  is the pages from its address on.  The `huge_t` of an object is a local of the
  call that made it, so it is modelled as one slot per thread, linked in the tree
  or not.  The slot outlives the call, as the tree keeps its address.  Any later
  call of the thread may write over it (`OtherCall`, and `ReuseFrame` where
  `huge_malloc` and `huge_dalloc` begin) or by the layout of its frame may not;
  `huge_malloc` does so when it fills its node (`FillNode`), whose place is the
  same.  `torn` records that a node in use was written over.  From then on a
  search, an insertion or a removal may find or lose any node (`Remains`), and an
  assertion of `rb.h` or `huge_dalloc` may fail.
  `races` is a history: "number" when `mmap_file` was changed while a call was
  between its reading and the use of what it read, "consmp" when `pmem_consmp` was
  changed between load and store of a pool's addition.  Neither restricts what the
  threads do; both appear in properties, as the condition up to which they hold.
  The tree is the set of the nodes linked, as `RbTree` shows, and `huge_boot` is
  taken as called, which only `test/unit/huge.c:47` does: without it the root of
  the tree is NULL and the first insertion faults.
* **`LogArena`.**  Laid out like `SlabArena`: `FirstSuits`, `Retire` and
  `RetireNull` are the test of `arena_region_alloc` with its three outcomes, a
  chunk that takes the region, one that is retired, and none.  In the last case
  `chunk->live = false` stores through NULL, which C leaves undefined.  With
  `NullFaults` the process ends there, as it does on Linux; without it the store
  hits some byte near address 0 that nobody looks at, and the call goes on.  The
  passing run is made without it, since with it no object exists.
  `SmallTakesChunk` is all the small path does to what this one uses.
  The chunks of a pool adjoin (`pool.c:76`), so a place in a chunk is an offset in
  the pool's mapping (`Offset`), and a region that ends behind its chunk lies in
  the next one, over its header (`Overwritten`).  Behind the last chunk of the
  pool nothing need be mapped: the store of a header there may fault
  (`AppendFaults`) or hit what is there.  `lsfree` has an address only:
  `Addr2Base` is the chunk it takes it to be in, `MayBeLog` says whether the first
  byte of that chunk can be `'l'`, which it can when the chunk is no chunk_t's or
  was written over.  Then `lsfree` follows a pointer read from objects and may
  fault; likewise when the address begins a chunk and is taken for a huge object.
  In all other cases it changes nothing, or one byte of a header that nothing
  reads: `arena_dalloc_large` is never called with a chunk of the arena, which is
  why the model has neither its mark nor `dirtysize`.
* **`QueueRing`.**  `qre` holds the two pointers of every element, an operation
  is one function update per assignment.  A list in the sense of the abstract
  `QueueLists` is what `qr_foreach` visits from the first pointer.  `Advance`,
  `AdvanceRemove` and `PushBack` are the steps of `pmempool_chunk_alloc` and
  `pmempool_free`, whose `fl_now` is such a pointer.
* **`RbTree`.**  A tree is the record of its root.  `insert` and `remove` of
  `rb.h` wind an array of nodes down the tree and unwind it; here they recurse,
  and a level is fixed up with what the level below returns.  `short` says that
  a removal left a subtree with one black node less, so that unwinding goes on;
  `ok` collects the assertions met on the way.
* **`BaseAlloc`.**  One action per call of `mmap` and `munmap`, so that other
  code of the process maps and unmaps in between (`OtherMaps`, `OtherUnmaps`).
  Pages belong to this code, to other code or to nobody.
* **`NumberText`, `Text`.**  A text is a sequence of characters, a format the
  concatenation of pieces, each with its arguments and the text C says it stands
  for.  The actions of `Text` are the labels of `malloc_vsnprintf`; `GetArg`,
  `AppendPadded` and the like are its macros.  `int` has `IntBits` bits and all
  longer types `MaxBits`, so that every argument's range has ends.  `util.c`
  defines its `assert` before it includes the one that can be compiled out: a
  failed assertion aborts in every build.  Letters beyond `f` are no digits,
  since no base above 16 is used.

External behaviour, taken from how the code uses it: `pmem_map_file` with
`PMEM_FILE_CREATE` opens a file that exists and makes one that does not, and two
mappings never overlap; `mmap` chooses any free range or fails, `munmap` takes
the pages of a range whoever has them; `malloc` aligns to 16 and never fails in the models of
pool and small path; a `threadpool_create` built with `MAX_THREADS` refuses more
threads.

Definitions named in a comment that starts with "Mutant" are deliberate errors.
Each replaces one definition in a run that must then fail, which shows that
the property can fail; no specification uses them.

## 3. The runs

| Run | Bounds | Shows |
|---|---|---|
| `pool` | 2 chunks per pool, 3 pools | `ChunksConserved`, `CountersMatch`, and `ImplementsChunkQueue`: the ring refines `ChunkQueue`, its free list being the ring without the dummy |
| `slab` | 2 threads, one pool of 2 chunks, 2 sregions per chunk, 2 classes, 1 free | `NoOverlap`, `SlabsHoldRequests`, `SregionsWalkable`, `SpaceNotAbandoned`, `HolderReturns`; `ImplementsStore`: the small path refines `BlockStore`; and `SlabArenaInv`, the invariant that is proved inductive |
| `binding` | 3 threads, 2 arenas, 1 late call per thread | `BindingInv` (types, and: whoever is past the test of the flag finds everything initialised, once; locks exclude; inductive with `NthreadsExact`), `NthreadsExact`, `LeastLoaded`, `CallsEnd` |
| `files` | 2 arenas, 2 threads with huge objects, 2 files per process, 1 restart, `CONSTRAINTS Claimed PathAsBuilt` | `PoolsOwnFiles`, `LiveFilesStay`, `ObjectsShareNoFile`: until `mmap_file` changes under a call; `ObjectsCanBeFreed`, `MappedExactly`: until a node is overwritten; `ConsmpExact`: until an addition is lost or a node overwritten; and `FilesInv`, the invariant they are proved from |
| `log` | 2 threads, 2 pools of 2 chunks, 3 objects, 1 size no chunk holds | `RegionsApart`, `ChunkCountersMatch`, `LogInv` (the inductive invariant: types, what the holder of the lock has read, and only the first log chunk is live), `FreesFindTheirChunk`, `StoreWhileFitting`: the large path refines `BlockStore`, both until a request is served that no chunk holds |
| `lists` | 5 elements, 2 lists | `RingsIntact`, `OperationsKeepOrder`, and `ImplementsSequences`: the rings refine `QueueLists` |
| `rbtree` | 12 addresses | `Balanced`, `AssertionsHold`, `QueriesAgree`, `BehavesLikeASet` over all trees insertions and removals can make |
| `base` | 2 threads, 3 blocks, 9 pages, 1 page of other code | `BaseInv` (the inductive invariant, with which blocks are aligned, long enough, in mapped memory and apart), `NothingLeaks`, `OthersUntouched` |
| `text` | formats of 2 directives, buffers of 1, 4 and 9 bytes, `int` of 4 bits and longer types of 6, number texts of 4 characters in 5 bases | `Expanded`, `ScanInStep`, `NumbersRead` |

The bounds are enough for the interesting cases: in `pool` the dummy node is met
first, last and alone, with chunks of three pools mixed in the ring; in `slab`
an sregion of either class holds two slabs and a remainder, a chunk two sregions
and a remainder, a request below its class size reaches the easy path, and the
pool and the device are exhausted; in `binding` an arena is made lazily, emptied by exits, chosen again
and, with three threads on two arenas, shared; in `files` `pmem_consmp` wraps at
the second file, two refills, two objects or one of each overlap in every order,
with and without a race for the number, a restart finds files of the previous
process, frees unmap while another thread maps, an object is mapped aligned,
misaligned and at once behind another, and a thread that owns one makes another,
frees it or calls something else; in `log` a chunk holds one large region, or two
and a remainder, one request exceeds it and covers the header of the next chunk
or what is behind the pool, and a region behind such a one has data that begin a
chunk; in `lists` a list has a first, a last and inner elements; in `rbtree` trees
have three black levels, and each fix-up case of `insert` and `remove` occurs,
at the root and below; in `base` ranges of one and of two chunks are mapped
aligned, misaligned and not at all; in `text` every conversion meets the flags,
widths and lengths that change it, numbers are the least, the greatest and those
around them, a text ends inside the buffer, at its last byte and behind it, and
the directives the code refuses occur first and second.  Sizes are in
units that put every boundary a few steps away; the proofs do not depend on them.

Runs that must fail show where the code departs from what the repository says:

| Run | The code | The statement |
|---|---|---|
| `files_shared` | `++mmap_file` under no common lock | `pool.c:3`, an arena has its own pool |
| `log_null` | the first large allocation of an arena stores through NULL | the tests write to what such calls return (`nofree_test.cpp:39`) |
| `huge_node` | the second `huge_malloc` of a thread writes over the node of its first object, which is linked, and the assertion of `rb.h:459` fails | `test/unit/huge.c:7-12` makes two objects in a row and asserts that it has each |

Other departures came up while the models were written and have no run of their
own.  `pmempool_usedpct` (`pool.c:151`) divides integers and is 0 or 1, where
`gc.c:218` and 222 compare it with 70 and 90 and line 226 prints it as "Used %d%
of pool"; so no collection ever starts, which is the theorem
`NoCollectionIsQueued` and the opposite of what these lines intend.  A
thread pool built with the 16 threads of `threadpool.h` refuses the 32 asked for
and the assertion at `lsmalloc.c:250` fails in the first call.  `lsfree` of a small
object does nothing, since the byte it tests is never `'s'`, where `arena.c:290`
says that a free marks the slab dirty at once.  Nothing tests that a new chunk
holds the region it was taken for: a request just below `chunksize` ends in the
next chunk of the pool, over its header and its objects, while `lsmalloc.h:24`
declares what is returned to alias nothing; without `AllFit` TLC finds
`FreesFindTheirChunk` violated.  `availsize` has then wrapped, so that all further
large objects are appended to the same chunk: they stay clear of each other for
as long as that lasts, but not of the small objects in the chunks behind.
After `arenas_cleanup` the TLS still points to the arena, so that a later destructor
uses an arena that does not count its thread; `NthreadsExact` counts by the
pthread key.  The `file_no` of a pool (`pool.h:25`) is read from `mmap_file` after
the mapping (`pool.c:63`), when another refill or `huge_malloc` may have moved
it, and is then another file's number; only `pmempool_destroy` would read it.
The `file_no` of a huge object (`huge.h:18`, "用于标识文件": it identifies the
file) is read after the increment (`huge.c:83`) and never is the object's, so
that `huge_dalloc` removes another file and leaves its own; `ObjectsShareNoFile`
and `LiveFilesStay` hold nevertheless.  The path of a pool's file is a literal,
whatever `lspmemdir` was given.

`util.c` departs from the C library in cases the `text` run leaves out or states
as they are: a buffer of size 0 is written to at its place -1; a 0 followed by 8
or 9 is read as 0, so that a width like `08` is read as 0 and the 8 taken for a
conversion, which aborts; overflow is noticed by a smaller sum only, which a
product that wraps further need not have; a precision longer than its string
copies what lies behind it; `%#x` of 0 is `0x0`; `%tu` aborts; precisions of
numbers are ignored; `%lc` and `%ls` are reported and then written as `%c` and
`%s`.

The properties of `files` have the exceptions `races` and `torn` because the code
has them: `files_shared` is a behaviour with "number" in `races` in which two
pools get one file, `huge_node` one that is `torn`, and between load and store of
`pool.c:59` an update of `pmem_consmp` is lost.  What the properties say is that
these three events are all there is to fear: without the first nothing that
refills, objects, their removals of files and restarts do in any order makes a
file shared or lost, and without the second no free goes wrong.  Creation of an
arena is serialised by `arenas_lock`, which the model does not have, so it has
more races than the code: refill against refill, refill against creation and
either against `huge_malloc` are those of the code.  `Claimed` stops the
exploration where both `torn` and a race for the number have happened, since
only the parts of `FilesInv` that always hold are then left to violate, and
`PathAsBuilt` where `lspmemdir` has set a path, which nothing reads; the proofs
have no such bounds.  `binding` sets
`MaxPoolThreads` to 64, the other value in `threadpool.h`, because with the 16
in force nothing after the initialisation exists.

Fairness.  In `SlabArena`, `LogArena`, `BaseAlloc` and `ArenaBinding` each thread inside a call (or with
a destructor to run) is scheduled: weak fairness of `InCall(t)`.  Nothing is
assumed about when threads call, and no mutex is assumed fair.  `HolderReturns`
of `SlabArena` therefore speaks of a thread that has the lock.  `CallsEnd` of
`ArenaBinding` can speak of every call, because a thread takes `init_lock` and
`arenas_lock` a bounded number of times in its life.  The other modules have no
liveness property: their steps are calls nobody is obliged to make, or follow
each other in one thread.

Memory model.  Stores become visible in program order, as on x86, which the
library is written for; the unlocked read of `malloc_initialized` relies on it.

## 4. The proofs

Each theorem is `Spec => []Inv` or an action property or refinement that `Spec`
implies, for every value of the constants that satisfies the assumptions.  Where
a run checks the property, TLC shows it on a small instance and the theorem in
general.  The inductive invariants are defined in the modules themselves and are
checked by the runs, those that only a second layer of a proof needs in the
modules of proofs.

| Module | Theorems |
|---|---|
| `PmemPool_proofs` | `PoolInvariant`, `TypeCorrect`, `ChunksAreConserved`, `CountersAreRight`, `RingIsAQueue` |
| `SlabArena_proofs` | `SlabArenaInvariant`, `TypeCorrect`, `SlabsAreApart`, `SlabsAreLongEnough`, `NoCollectionIsQueued`, `NoSpaceIsAbandoned`, `SmallPathIsAStore`, `SregionsAreWalkable` |
| `ArenaBinding_proofs` | `BindingCorrect`, `NthreadsCorrect`, `LeastLoadedCorrect` |
| `LogArena_proofs` | `LogInvariant`, `RegionsAreApart`, `CountersMatchRegions`, `FreesReturn`, `LargePathIsAStore`, `FittingRequestsStayInside` |
| `HugeFiles_proofs` | `FilesInvariant`, `PoolsNeverShare`, `PoolFilesStay`, `ObjectsNeverShare`, `MappingsAreExact`, `ObjectsAreFreeable`, `ConsmpIsExact` |
| `BaseAlloc_proofs` | `BaseInvariant`, `NothingIsForgotten`, `OthersAreSafe` |
| `QueueRing_proofs` | `RingsAreIntact`, `OperationsAreOrdered`, `RingsAreSequences` |

### The pool

`PoolInv` says that the pool is well formed with the chunks in `out` held
(`PoolOK`).  The lemmas of `CommonLemmas` say that each operator keeps it so,
with one chunk more, or one less, held: rotation keeps the set of nodes, a refill
happens only when all chunks are out, and the node removed after `SkipHeader` is
a chunk.

`RingIsAQueue` is that `PmemPool` implements `ChunkQueue`.  The queue is the ring
read from `fl_now` with the dummy node left out (`Without`).  An allocation that
finds a free chunk takes the first of them, with the dummy at the front or not
(`TakeOldest`); one that finds none takes the first chunk of the new pool and
leaves the others in their order (`TakeFirstOfNew`); a free appends
(`ReturnYoungest`).  So rotating the ring past the dummy, which looks as if it
changed the order, does not.

### The small path

`NoOverlap` is not inductive.  `SlabArenaInv` adds what makes it so: the thread
in the critical section is the owner of the lock (`LockInv`); what it has read
is still there (`LocalsInv`: its tail is the tail, and the slab fits); chunks of
an arena have different addresses, which rests on the pool handing out no chunk
twice (`PoolOK(pool, Held)`); the sregions of a chunk are disjoint and below its
tail (`ChunksInv`, `SregionsInv`), the slabs of an sregion disjoint and below
its `ptail` (`SlabsInv`).  Each action that writes memory has a lemma with one
step per conjunct; actions that change only a thread's locals share three.

Four properties need more, which is proved on top of `SlabArenaInv`.
`NoCollectionIsQueued` needs the counters (`UsageInv`): `chunk_used` is the number of
chunks held, `chunk_tot` that of the chunks mapped, and since the first are
among the second (`PoolOK`) the integer quotient is 0 or 1 (`UsedpctOK`).
`SpaceNotAbandoned` needs that on the hard path the class's sregion still has no
room (`RoomInv`), which the lock guarantees.  `SregionsWalkable` needs that a
class's current sregion has slabs of the class's size (`SizesInv`), and its
slabs counted as a finite set (`WalkInv`): a write to an sregion adds one more
multiple of the step behind the last (`WalkGrows`), all other steps leave its
slabs where they are (`WalkKept`).

The refinement of `BlockStore`, `SmallPathIsAStore`, takes more than the
disjointness of the slabs, since it is about steps.  Blocks are computed from the
whole state: `BlocksStay` says that a slab keeps its place as long as its sregion
and chunk keep theirs, which no step changes; `NewSlabAnchors` and
`SlabArenaInv'` then make the block a `Serve` step adds new, long enough and
apart from the others.  `IdleInv`, that a thread between calls asks for nothing,
is what makes `Malloc` an `Ask`.

### Binding

`BindingInv` and `NthreadsExact` are inductive together.  What a thread reads
under `arenas_lock` stays true until it stores, since nobody else is in that
section (`LocksExclude`); a new arena starts from 0 threads because only
initialised arenas are counted in; and the count is a cardinality, which one
thread's step changes by one or not at all.  `LeastLoaded` is an action property
that follows from it.

### The large path

`LogInv` has the layout of `SlabArenaInv`, and `LiveIsFirst`: of the log chunks
only the first of `avail_chunks` is live, whatever the small path takes from the
pool in between.  `RegionsApart` needs that regions lie between the chunk's header
and its tail, and that the tail is inside the chunk unless a request no chunk
holds was served (`ChunksInv`, `RegionsInv`).  `ChunkCountersMatch` is about sums
over the regions of a chunk, with `availsize` in `size_t` arithmetic; it holds of
chunks that overflow too.

`LargePathIsAStore` goes like `SmallPathIsAStore`, but blocks are places in the
mapping of a pool.  As long as all requests fit, a block lies between the two
ends of its chunk (`BlockShape`, from `RegionsApart`), and two chunks of a pool
lie one behind the other (`ChunksApart`) since their addresses differ
(`AddressesApart`: the address a step takes from the pool, for either path, is not
held, by `PoolOK`); hence `FittingBlocksApart`.  Chunks keep their addresses
(`ChunksAfter`) and regions their places (`RegionsGrow`), so the only block that
comes is the region appended.  `FreesReturn` adds that the data of a block begin
inside its chunk, behind its first byte, so that `Addr2Base` is that chunk
(`OwnChunkFound`); and that its first byte is still one of `LowBytes`, since no
block reaches into another chunk's header (`HeadersStay`).
`FittingRequestsStayInside` has a hypothesis on the constants, that every request
fits into an empty chunk with its header; the sizes of the code that violate it
are the last few up to `chunksize`.

### The files

The theorems have no hypothesis on which calls overlap or what a thread calls
while it owns an object.  `FilesInv` has three parts.  Always: types, one name for
each inode (`OneNameEach`), and `mmap_file` plus the numbers on their way bounded
by the files begun (`CountInv`).  Until `mmap_file` changes under a call: numbers
that pools and creations have are different and not still to come, and a mapping
is that of the file of its name (`PoolFilesInv`); no file of a live object has a
number still to be used, although frees remove files other than their own
(`ObjectFilesInv`), since `mmap_file` only grows.  Until a node is overwritten: a
call knows the sizes of its mapping (`SizesInv`); mappings of live objects and of
calls in progress are disjoint (`ApartInv`) and are all that is mapped (`HeldInv`);
the nodes linked are those of live objects, one each, and no thread is about to
link a node that is linked or being freed (`TreeInv`).  The number of nodes is
that of objects, which gives a free the node of its address.

Each exception is an event, not a restriction of what is called: `races` and `torn` are
history, so each part is inductive with its exception at the end of the step,
and the event that ends it is visible in the behaviours that violate
`PoolsShareNoFile` and `AllocationsReturn`.

`ConsmpExact` speaks of states between calls.  `ConsmpInv` speaks of all states:
`pmem_consmp` counts the pools in their lists and the one about to enter, the
live objects, and what threads owe, which is the size of an object about to be
linked and of one found but not yet subtracted.  An atomic addition or
subtraction moves a size into or out of what is owed (`ConsmpCountedOK`), linking
and finding an object move it between the two sums.  A pool's load and store is one
addition as long as the global is at the store what it was at the load
(`AddersAgree`), which is what "consmp" in `races` says it is not.

### The base allocator

In `BaseInv` whoever is past `Lock` has `base_mtx` (`MutexInv`), and knows on its
way that sizes are positive multiples of the page and addresses aligned
(`CallInv`).  What is in a thread's hand shares no page with any range
(`RangesInv`), so that it stays clear of every block when it becomes one; the
range in use is the last, and the part not yet given out lies in it (`InUseInv`);
each block lies in a range, clear of that part and of earlier blocks
(`BlocksInv`), from which `BlocksApart`.  `NothingLeaks` adds that ranges start
at multiples of `chunksize` and that pages mapped are in a range or in the hand
of the holder of the mutex.  `OthersUntouched` follows since what is unmapped
lies in what is in hand.

### Rings and lists

A list is what `qr_foreach` visits, so that everything said about it is said about
a walk along pointers.  `RingsInv` is that the pointers represent these lists
(`Represents`): `qre_next` and `qre_prev` of an element at a place lead to the
places after and before it, modulo the length; the head points to the first; no
element is on two lists; one on none points to itself.  `VisitsIs` is the link
between the two: if the pointers represent any sequences at all, then these are
the ones `qr_foreach` computes.  The walk with that many steps exists, since a
list has at most as many elements as there are, and is the only one, since two
would differ at a least place, where the pointers before it decide.

What an operation does to the pointers is then a fact about four or fewer of them.
Insertion in front of an element is the general case: behind the last it is
insertion in front of the first of the rotated ring (`RotatedRing`), at the head
it is the same with the head moved, and after an element it is before the next
one (`AfterIsBefore`).  Each operation has a lemma with the sequence it makes of
the one list it changes; the pointers of all others are not touched since lists
share no element (`OneListChanges`), and an element removed is left pointing to
itself.  From these lemmas `RingsAreSequences` is the disjunct of `QueueLists`
for each of them, and `OperationsAreOrdered` the place named by the call.

### What they rest on

`CommonLemmas` has what the others cite: quotients, remainders and multiples, the
least element of a set, sums over a finite set, and what each operator of
`PmemPoolOps` does to a pool.  With the last come the constants of the pool, so
that the proofs about objects without a pool carry `PoolChunksAssumption` too and
do not use it.  A sum is the
fold of the community modules, which is a recursive function on sets; that it is
the sum without one element plus that element is proved for all finite sets by
taking a counterexample of least cardinality (`SmallestSet`, `SumEquation`), as
the induction theorems of the library cannot be used.

Assumptions, each an ASSUME that the runs evaluate: `PoolChunksAssumption` and
`MaxPoolsAssumption`; `SlabSizesAssumption` (a chunk has room for its header and
an sregion, an sregion for its header and one slab of every class; 8 + 1024 <=
4194304 and 8 + 16 + 224 <= 1024 in the code), `SlabThreadsAssumption`;
`LowBytesAssumption` and `LogLowBytesAssumption` (malloc aligns to 16);
`BindingAssumption` (finitely many threads, at least one arena);
`LogSizesAssumption` (a chunk is longer than its header, the large path is asked
for at most a chunk, `size_t` holds a chunk and a header more),
`LogThreadsAssumption`; `PoolFilesAssumption` and `HugeFilesAssumption` (sizes
are positive, threads finitely many); `BaseSizesAssumption` (a page is a multiple
of a cache line, a chunk of a page) and `BaseBoundsAssumption`;
`ElmsAssumption` (finitely many elements, none of them NULL).

Only model-checked:

* `RbTree`, whose descents are RECURSIVE operators on trees, which the provers
  cannot expand;
* `NumberText` and `Text`: what they compute is right by induction over a number's
  digits or the characters of a format, and there is no induction theorem the
  provers can instantiate;
* `HolderReturns` and `CallsEnd`: liveness under fairness, which needs ENABLED;
* the expected violations, which are single behaviours.

## 5. What is not modelled, and the plan

Not modelled because it has no behaviour of its own: the atomic operations other
than the two `huge.c` uses, the wrappers of `errno` and `strerror_r`, templates,
the tests, the thread pool archive beyond its limit.  `pmempool_destroy` and the
fork handlers have no callers.  `lswrite_before` takes a pmem address for that of
a `chunk_t` and locks bytes of objects as a mutex, which C leaves undefined.

The collections of `gc.c` are not modelled either.  `NoCollectionIsQueued` shows
that the small path starts none; the lemma it rests on, `UsedpctOK`, is about
the pool, which the log path shares, and `maybe_gc` has no other caller than the
allocation of a chunk.  `PmemPool` frees any chunk that is held, more than its
only caller (`gc.c:22`), which no execution reaches, would.  `base.c:54` adds an address and a size, a sum that wraps
for sizes near 2^64; nothing in the repository asks for them and `BaseAlloc`
does not.  `BaseAlloc` leaves out the abort of `pages_unmap` on a failing `munmap`
(`chunk_mmap.c:54`), which for a range the process has mapped does not happen.

Next, in this order:

1. Both paths of an arena together, one lock and one pool, implementing
   `BlockStore` with slabs and regions as blocks.
2. `RbTree` with its descents as recursive functions on addresses, so that the
   red and black rules could be proved of one level at a time.
3. Several arenas over `PoolFiles`, with their locks and `arenas_lock`, which
   leave fewer races for `mmap_file` than `HugeFiles` has.
