------------------------------ MODULE BaseAlloc ------------------------------
(***************************************************************************)
(* The base allocator (src/src/base.c) over aligned mappings               *)
(* (src/src/chunk.c, src/src/chunk_mmap.c), called by several threads of a *)
(* process in which other code maps and unmaps memory too.                 *)
(*                                                                         *)
(* Blocks are cut off a range of whole chunks, under base_mtx.  A range is *)
(* mapped exactly; if the kernel has put it at an address that is not a    *)
(* multiple of chunksize, it is given back and a longer one is mapped, of  *)
(* which both ends are cut off.                                            *)
(***************************************************************************)
EXTENDS Integers, Sequences, FiniteSets

CONSTANTS
  Threads,          \* the threads that call base_alloc
  NoThread,         \* the owner of a free mutex
  PageSize,         \* PAGE
  CacheLine,        \* CACHELINE
  ChunkSize,        \* chunksize
  LastPage,         \* bound: the pages of the address space are 1 .. LastPage
  Requests,         \* sizes asked for
  MaxBlocks,        \* bound: blocks handed out
  MaxOthers         \* bound: pages other code has mapped at a time

ASSUME BaseSizesAssumption ==
  /\ {PageSize, CacheLine, ChunkSize} \subseteq Nat \ {0}
  /\ PageSize % CacheLine = 0 /\ ChunkSize % PageSize = 0
  /\ Requests \subseteq Nat

ASSUME BaseBoundsAssumption ==
  NoThread \notin Threads /\ {LastPage, MaxBlocks, MaxOthers} \subseteq Nat

Ceiling(s, alignment) == ((s + alignment - 1) \div alignment) * alignment

\* The pages of the bytes from at to at + size - 1.
Pages(at, size) == at \div PageSize .. (at + size) \div PageSize - 1

VARIABLES
  base_mtx,         \* the mutex's owner
  base_next_addr, base_past_addr,
  pc, req,          \* each thread's place in its call, and the size asked for
  addr, alloc_size, \* its locals: the mapping it has made, and its length
  ours,             \* the pages mapped by this code
  others,           \* the pages mapped by other code
  ranges,           \* history: the ranges that became base_pages
  blocks            \* history: the blocks handed out

base == <<base_next_addr, base_past_addr>>
locals == <<req, addr, alloc_size>>
memory == <<ours, others>>
vars == <<base_mtx, base, pc, locals, memory, ranges, blocks>>

Init ==
  /\ base_mtx = NoThread
  /\ base_next_addr = 0 /\ base_past_addr = 0
  /\ pc = [t \in Threads |-> "idle"]
  /\ req = [t \in Threads |-> 0]
  /\ addr = [t \in Threads |-> 0]
  /\ alloc_size = [t \in Threads |-> 0]
  /\ ours = {} /\ others = {}
  /\ ranges = <<>> /\ blocks = <<>>

Go(t, from, to) == pc[t] = from /\ pc' = [pc EXCEPT ![t] = to]

csize(t) == Ceiling(req[t], CacheLine)
RangeSize(t) == Ceiling(csize(t), ChunkSize)

-----------------------------------------------------------------------------
\* mmap(NULL, size): the kernel chooses any free place, or fails.
Places(size) ==
  {p * PageSize : p \in {q \in 1 .. LastPage :
     /\ q + size \div PageSize - 1 <= LastPage
     /\ Pages(q * PageSize, size) \cap (ours \cup others) = {}}}

Mmap(t, size) == /\ \E a \in Places(size) : addr' = [addr EXCEPT ![t] = a]
                 /\ alloc_size' = [alloc_size EXCEPT ![t] = size]
                 /\ ours' = ours \cup Pages(addr'[t], size)
                 /\ UNCHANGED <<req, others>>

\* munmap takes pages away whoever has mapped them.
Munmap(a, size) == /\ ours' = ours \ Pages(a, size)
                   /\ others' = others \ Pages(a, size)

\* Other code maps or unmaps a page of its own.
OtherMaps == /\ Cardinality(others) < MaxOthers
             /\ \E p \in (1 .. LastPage) \ (ours \cup others) : others' = others \cup {p}
             /\ UNCHANGED <<base_mtx, base, pc, locals, ours, ranges, blocks>>

OtherUnmaps == /\ \E p \in others : others' = others \ {p}
               /\ UNCHANGED <<base_mtx, base, pc, locals, ours, ranges, blocks>>

-----------------------------------------------------------------------------
\* base_alloc: a thread calls, and stops at base_mtx.
Call(t) ==
  /\ Go(t, "idle", "lock")
  /\ Len(blocks) + Cardinality({u \in Threads : pc[u] # "idle"}) < MaxBlocks
  /\ \E size \in Requests : req' = [req EXCEPT ![t] = size]
  /\ UNCHANGED <<base_mtx, base, addr, alloc_size, memory, ranges, blocks>>

\* Mutant: the mutex is not waited for.
LockWithoutWaiting(t) ==
  /\ Go(t, "lock", "test")
  /\ base_mtx' = t
  /\ UNCHANGED <<base, locals, memory, ranges, blocks>>

Lock(t) ==
  /\ Go(t, "lock", "test")
  /\ base_mtx = NoThread
  /\ base_mtx' = t
  /\ UNCHANGED <<base, locals, memory, ranges, blocks>>

Enough(t) == base_next_addr + csize(t) <= base_past_addr

HasSpace(t) == /\ Go(t, "test", "carve")
               /\ Enough(t)
               /\ UNCHANGED <<base_mtx, base, locals, memory, ranges, blocks>>

\* chunk_alloc_mmap, the exact mapping.
MapExact(t) ==
  /\ \/ Go(t, "test", "adopt") /\ Mmap(t, RangeSize(t)) /\ addr'[t] % ChunkSize = 0
     \/ Go(t, "test", "misaligned") /\ Mmap(t, RangeSize(t)) /\ addr'[t] % ChunkSize # 0
  /\ ~Enough(t)
  /\ UNCHANGED <<base_mtx, base, ranges, blocks>>

MapExactFails(t) ==
  /\ Go(t, "test", "fail")
  /\ ~Enough(t)
  /\ UNCHANGED <<base_mtx, base, locals, memory, ranges, blocks>>

\* Mutant: the misaligned mapping stays.
UnmapNothing(t) ==
  /\ Go(t, "misaligned", "slow")
  /\ UNCHANGED <<base_mtx, base, locals, memory, ranges, blocks>>

UnmapExact(t) ==
  /\ Go(t, "misaligned", "slow")
  /\ Munmap(addr[t], alloc_size[t])
  /\ UNCHANGED <<base_mtx, base, locals, ranges, blocks>>

\* chunk_alloc_mmap_slow.  alloc_size cannot wrap, its alignment being that
\* of the size.
MapSlow(t) ==
  /\ Go(t, "slow", "lead")
  /\ Mmap(t, RangeSize(t) + ChunkSize - PageSize)
  /\ UNCHANGED <<base_mtx, base, ranges, blocks>>

MapSlowFails(t) ==
  /\ Go(t, "slow", "fail")
  /\ UNCHANGED <<base_mtx, base, locals, memory, ranges, blocks>>

leadsize(t) == Ceiling(addr[t], ChunkSize) - addr[t]

\* pages_trim: what lies before the first multiple of chunksize is unmapped,
TrimLead(t) ==
  /\ Go(t, "lead", "trail")
  /\ Munmap(addr[t], leadsize(t))
  /\ UNCHANGED <<base_mtx, base, locals, ranges, blocks>>

\* Mutant: leadsize is not taken off.
TrailFromStart(t) == alloc_size[t] - RangeSize(t)

trailsize(t) == alloc_size[t] - leadsize(t) - RangeSize(t)

\* and what lies behind the range.
TrimTrail(t) ==
  /\ Go(t, "trail", "adopt")
  /\ Munmap(addr[t] + leadsize(t) + RangeSize(t), trailsize(t))
  /\ addr' = [addr EXCEPT ![t] = @ + leadsize(t)]
  /\ UNCHANGED <<base_mtx, base, req, alloc_size, ranges, blocks>>

\* base_pages_alloc: the range replaces the one in use.
Adopt(t) ==
  /\ Go(t, "adopt", "carve")
  /\ base_next_addr' = addr[t]
  /\ base_past_addr' = addr[t] + RangeSize(t)
  /\ ranges' = Append(ranges, [at |-> addr[t], size |-> RangeSize(t)])
  /\ UNCHANGED <<base_mtx, locals, memory, blocks>>

Leave(t) == /\ base_mtx' = NoThread
            /\ req' = [req EXCEPT ![t] = 0]
            /\ addr' = [addr EXCEPT ![t] = 0]
            /\ alloc_size' = [alloc_size EXCEPT ![t] = 0]

\* It has failed: base_alloc returns NULL, the old range stays in use.
Fail(t) ==
  /\ Go(t, "fail", "idle")
  /\ Leave(t)
  /\ UNCHANGED <<base, memory, ranges, blocks>>

Carve(t) ==
  /\ Go(t, "carve", "unlock")
  /\ base_next_addr' = base_next_addr + csize(t)
  /\ blocks' = Append(blocks, [at |-> base_next_addr, size |-> csize(t), req |-> req[t]])
  /\ UNCHANGED <<base_mtx, base_past_addr, locals, memory, ranges>>

Unlock(t) ==
  /\ Go(t, "unlock", "idle")
  /\ Leave(t)
  /\ UNCHANGED <<base, memory, ranges, blocks>>

InCall(t) == \/ Lock(t) \/ HasSpace(t)
             \/ MapExact(t) \/ MapExactFails(t) \/ UnmapExact(t)
             \/ MapSlow(t) \/ MapSlowFails(t) \/ TrimLead(t) \/ TrimTrail(t)
             \/ Adopt(t) \/ Fail(t) \/ Carve(t) \/ Unlock(t)

Next == \/ \E t \in Threads : Call(t) \/ InCall(t)
        \/ OtherMaps \/ OtherUnmaps

\* Threads inside a call are scheduled; nobody has to call.
Spec == Init /\ [][Next]_vars /\ \A t \in Threads : WF_vars(InCall(t))

-----------------------------------------------------------------------------
RangeRec == [at : Nat, size : Nat]
BlockRec == [at : Nat, size : Nat, req : Nat]

CallPoints == {"idle", "lock", "test", "misaligned", "slow", "lead", "trail",
               "adopt", "carve", "fail", "unlock"}

TypeOK ==
  /\ base_mtx \in Threads \cup {NoThread}
  /\ base_next_addr \in Nat /\ base_past_addr \in Nat
  /\ pc \in [Threads -> CallPoints]
  /\ req \in [Threads -> Nat] /\ addr \in [Threads -> Nat]
  /\ alloc_size \in [Threads -> Nat]
  /\ ours \subseteq 1 .. LastPage /\ others \subseteq 1 .. LastPage
  /\ ranges \in Seq(RangeRec) /\ blocks \in Seq(BlockRec)

(***************************************************************************)
(* "carved up in cacheline-size quanta, so that there is no chance of      *)
(* false cache line sharing" (src/src/base.c:11): blocks of threads that   *)
(* run at the same time start at cache lines, share none, hold what was    *)
(* asked for and lie in mapped memory, as does the rest of the range in    *)
(* use, also after a mapping has failed.                                   *)
(***************************************************************************)
BlocksApart ==
  /\ \A i \in 1 .. Len(blocks) :
       /\ blocks[i].at % CacheLine = 0
       /\ blocks[i].size >= blocks[i].req
       /\ \A a \in blocks[i].at .. blocks[i].at + blocks[i].size - 1 :
            a \div PageSize \in ours
       /\ \A j \in 1 .. i - 1 :
            \/ blocks[i].at + blocks[i].size <= blocks[j].at
            \/ blocks[j].at + blocks[j].size <= blocks[i].at
  /\ \A a \in base_next_addr .. base_past_addr - 1 :
       /\ a \div PageSize \in ours
       /\ \A i \in 1 .. Len(blocks) :
            a \notin blocks[i].at .. blocks[i].at + blocks[i].size - 1

(***************************************************************************)
(* Nothing mapped is forgotten: what this code has mapped are the ranges   *)
(* it cuts blocks from and, inside a call, the mapping being made.  Every  *)
(* range starts at a multiple of chunksize, as chunk_alloc asserts.        *)
(***************************************************************************)
InHand(t) ==
  CASE pc[t] \in {"misaligned", "lead"} -> Pages(addr[t], alloc_size[t])
    [] pc[t] = "trail" ->
         Pages(addr[t] + leadsize(t), alloc_size[t] - leadsize(t))
    [] pc[t] = "adopt" -> Pages(addr[t], RangeSize(t))
    [] OTHER -> {}

NothingLeaks ==
  /\ ours = UNION ({Pages(ranges[i].at, ranges[i].size) : i \in 1 .. Len(ranges)}
                   \cup {InHand(t) : t \in Threads})
  /\ \A i \in 1 .. Len(ranges) : ranges[i].at % ChunkSize = 0

-----------------------------------------------------------------------------
(***************************************************************************)
(* The inductive invariant.  Whoever is past Lock has base_mtx; the range  *)
(* in use is the last one; what is in hand shares no page with a range,    *)
(* so that it stays clear of every block when it becomes one.              *)
(***************************************************************************)
MutexInv == \A t \in Threads : base_mtx = t <=> pc[t] \notin {"idle", "lock"}

\* What a thread has found out, or made sure of, on its way.
CallInv(t) ==
  /\ pc[t] = "carve" => Enough(t)
  /\ pc[t] \in {"misaligned", "slow", "lead", "trail", "adopt"} => csize(t) > 0
  /\ pc[t] \in {"misaligned", "lead", "trail", "adopt"} => addr[t] % PageSize = 0
  /\ pc[t] = "misaligned" => alloc_size[t] = RangeSize(t)
  /\ pc[t] \in {"lead", "trail"} => alloc_size[t] = RangeSize(t) + ChunkSize - PageSize
  /\ pc[t] = "adopt" => addr[t] % ChunkSize = 0

RangesInv ==
  /\ ours \cap others = {}
  /\ \A i \in 1 .. Len(ranges) :
       /\ ranges[i].size % PageSize = 0 /\ ranges[i].size > 0
       /\ \A t \in Threads : Pages(ranges[i].at, ranges[i].size) \cap InHand(t) = {}

InUseInv ==
  /\ base_next_addr % CacheLine = 0 /\ base_next_addr <= base_past_addr
  /\ IF ranges = <<>>
     THEN base_past_addr = 0
     ELSE LET r == ranges[Len(ranges)]
          IN  r.at <= base_next_addr /\ base_past_addr = r.at + r.size

Clear(b, from, past) == b.at + b.size <= from \/ past <= b.at

BlockInv(b) ==
  /\ b.at % CacheLine = 0 /\ b.size >= b.req
  /\ \/ b.at = 0 /\ b.size = 0
     \/ \E r \in {ranges[i] : i \in 1 .. Len(ranges)} :
          r.at <= b.at /\ b.at + b.size <= r.at + r.size
  /\ Clear(b, base_next_addr, base_past_addr)

BlocksInv ==
  \A i \in 1 .. Len(blocks) :
    /\ BlockInv(blocks[i])
    /\ \A j \in 1 .. i - 1 :
         Clear(blocks[i], blocks[j].at, blocks[j].at + blocks[j].size)

\* With it BlocksApart, which follows.
BaseInv == /\ TypeOK /\ MutexInv /\ (\A t \in Threads : CallInv(t))
           /\ RangesInv /\ InUseInv /\ BlocksInv
           /\ BlocksApart

(***************************************************************************)
(* The mappings given back, exact or trimmed, never take a page of other   *)
(* code, whatever that code maps in between.                               *)
(***************************************************************************)
OthersUntouched ==
  [][\A t \in Threads : InCall(t) => others' = others]_vars
=============================================================================
