------------------------------ MODULE HugeFiles ------------------------------
(***************************************************************************)
(* Objects above arena_maxlarge (src/src/huge.c), together with the pools  *)
(* of PoolFiles, with which they share mmap_file and pmem_consmp: each     *)
(* object is a file of its own, "/mnt/pmem/<i>", mapped at a multiple of   *)
(* chunksize, and is found by its address in a tree of huge_t nodes under  *)
(* huge_mtx.  The node of an object is a local variable of the call of     *)
(* huge_malloc that made it.                                               *)
(*                                                                         *)
(* That the tree of rb.h keeps a set of nodes is what RbTree checks; here  *)
(* it is the set of the nodes linked.  huge_boot has been called.          *)
(***************************************************************************)
EXTENDS PoolFiles

CONSTANTS
  Threads,
  Sizes,            \* sizes of huge objects, in units of the address space
  ChunkUnits,       \* chunksize, in the same units
  Top               \* bound: the units of the address space

ASSUME HugeFilesAssumption ==
  /\ Sizes \subseteq Nat \ {0}
  /\ {ChunkUnits, Top} \subseteq Nat \ {0}
  /\ IsFiniteSet(Threads)

VARIABLES
  hpc,              \* each thread's place in huge_malloc or huge_dalloc
  hstr,             \* the number in its str
  hmap,             \* the mapping it is making: address, length, inode
  hsize,            \* its argument size
  slot,             \* the huge_t in its frame
  tree,             \* the threads whose huge_t is linked in huge_tree
  found,            \* the thread in whose frame is the node it is freeing
  victim,           \* the object it is freeing
  objects,          \* the huge objects of the program
  mapped,           \* the units of the address space mapped for them
  hdisk,            \* the inode of "/mnt/pmem/<i>", NoFile if there is none
  made,             \* objects begun by the process
  torn,             \* whether a node in use has been overwritten
  races             \* history: the globals changed under a call that uses them

hlocals == <<hstr, hmap, hsize, found, victim>>
hshared == <<slot, tree, objects, mapped, hdisk, torn>>
hvars == <<hpc, hlocals, hshared, made>>
poolVars == <<pmem_path, disk, pc, reg, name, ino, pools, crashes>>
allVars == <<vars, hvars, races>>

NoMapping == [addr |-> 0, len |-> 0, ino |-> NoFile]
NoNode == [file_no |-> 0, paddr |-> 0, size |-> 0]

HugeInit ==
  /\ hpc = [t \in Threads |-> "idle"]
  /\ hstr = [t \in Threads |-> 0] /\ hsize = [t \in Threads |-> 0]
  /\ hmap = [t \in Threads |-> NoMapping]
  /\ slot = [t \in Threads |-> NoNode]
  /\ found = [t \in Threads |-> t] /\ victim = [t \in Threads |-> NoMapping]
  /\ tree = {} /\ objects = {} /\ mapped = {} /\ made = 0
  /\ hdisk = [i \in Numbers |-> NoFile]
  /\ torn = FALSE /\ races = {}

FilesInit == Init /\ HugeInit

Creating == {t \in Threads : hpc[t] \in {"count", "map", "unmap", "remove",
                                         "remap", "trim", "consmp", "node",
                                         "insert"}}
Freeing == {t \in Threads : hpc[t] \in {"path", "unmapobject", "sub",
                                        "removefile"}}

\* The frame of t still holds a node that is linked or being freed.
FrameInUse(t) == t \in tree \/ \E u \in Freeing : found[u] = t

\* Another call of t has its frame there: it writes over the node, or by the
\* layout of the two frames it does not.
Overwrite(t) == /\ FrameInUse(t)
                /\ slot' = [slot EXCEPT ![t] = NoNode]
                /\ torn' = TRUE

ReuseFrame(t) == Overwrite(t) \/ UNCHANGED <<slot, torn>>

\* What the functions of the tree leave linked of S: all of it, unless a node
\* was overwritten; then its links and its place in the order are anything.
Remains(S) == IF torn' THEN SUBSET S ELSE {S}

\* The locals of a call end with it; its frame keeps the node.
EndCall(t) == /\ hstr' = [hstr EXCEPT ![t] = 0]
              /\ hsize' = [hsize EXCEPT ![t] = 0]
              /\ hmap' = [hmap EXCEPT ![t] = NoMapping]
              /\ found' = [found EXCEPT ![t] = t]
              /\ victim' = [victim EXCEPT ![t] = NoMapping]

HGo(t, from, to) == hpc[t] = from /\ hpc' = [hpc EXCEPT ![t] = to]

Units(addr, len) == addr .. addr + len - 1

\* ALIGNMENT_CEILING(addr, chunksize), and the test made with it.
Ceiling(addr) == ((addr + ChunkUnits - 1) \div ChunkUnits) * ChunkUnits
Aligned(addr) == addr = Ceiling(addr)

\* atomic_add_uint32 and atomic_sub_uint32 in one step, with their wrap.
AtomicAdd(v, x) == (v + x) % ConsmpMod
AtomicSub(v, x) == (v - x) % ConsmpMod

\* Bound: files of pools and of objects together.
Room == Len(pools) + Cardinality(Busy) + made < MaxFiles

(***************************************************************************)
(* huge_malloc, to which lsmalloc passes every size above arena_maxlarge.  *)
(***************************************************************************)
\* sprintf reads mmap_file, before it is incremented.
HugeMalloc(t) ==
  /\ HGo(t, "idle", "count")
  /\ Room
  /\ ReuseFrame(t)
  /\ hstr' = [hstr EXCEPT ![t] = mmap_file]
  /\ \E size \in Sizes : hsize' = [hsize EXCEPT ![t] = size]
  /\ made' = made + 1
  /\ UNCHANGED <<globals, inodes, poolVars, hmap, found, victim, tree, objects,
                 mapped, hdisk>>

\* Mutant: the number is used and not counted.
CountNoFile(t) ==
  /\ HGo(t, "count", "map")
  /\ UNCHANGED <<globals, inodes, poolVars, hlocals, hshared, made>>

CountFile(t) ==
  /\ HGo(t, "count", "map")
  /\ mmap_file' = mmap_file + 1
  /\ UNCHANGED <<pmem_consmp, inodes, poolVars, hlocals, hshared, made>>

\* pmem_map_file with PMEM_FILE_CREATE, len units long, where the kernel
\* finds room for it.
HugeMap(t, len) ==
  /\ \/ hdisk[hstr[t]] # NoFile /\ UNCHANGED <<hdisk, inodes>>
     \/ /\ hdisk[hstr[t]] = NoFile
        /\ hdisk' = [hdisk EXCEPT ![hstr[t]] = inodes + 1]
        /\ inodes' = inodes + 1
  /\ \E addr \in 0 .. Top - len :
       /\ Units(addr, len) \cap mapped = {}
       /\ mapped' = mapped \cup Units(addr, len)
       /\ hmap' = [hmap EXCEPT ![t] = [addr |-> addr, len |-> len,
                                       ino |-> hdisk'[hstr[t]]]]
  /\ UNCHANGED <<globals, poolVars, hstr, hsize, found, victim, slot, tree,
                 objects, made, torn>>

\* Mutant: any mapping is taken.
MapUnaligned(t) == HGo(t, "map", "consmp") /\ HugeMap(t, hsize[t])

MapObject(t) ==
  /\ hpc[t] = "map"
  /\ HugeMap(t, hsize[t])
  /\ hpc' = [hpc EXCEPT ![t] = IF Aligned(hmap'[t].addr) THEN "consmp"
                                                         ELSE "unmap"]

UnmapMisaligned(t) ==
  /\ HGo(t, "unmap", "remove")
  /\ mapped' = mapped \ Units(hmap[t].addr, hmap[t].len)
  /\ UNCHANGED <<globals, inodes, poolVars, hlocals, slot, tree, objects,
                 hdisk, made, torn>>

RemoveMisaligned(t) ==
  /\ HGo(t, "remove", "remap")
  /\ hdisk' = [hdisk EXCEPT ![hstr[t]] = NoFile]
  /\ UNCHANGED <<globals, inodes, poolVars, hlocals, slot, tree, objects,
                 mapped, made, torn>>

\* The same path with a chunk to spare.
RemapObject(t) == /\ HGo(t, "remap", "trim")
                  /\ HugeMap(t, hsize[t] + ChunkUnits)

\* Mutant: only the front is trimmed.
TrimFront(t) ==
  LET addr == hmap[t].addr
      ret == Ceiling(addr)
  IN  /\ HGo(t, "trim", "consmp")
      /\ mapped' = mapped \ (addr .. ret - 1)
      /\ hmap' = [hmap EXCEPT ![t] = [addr |-> ret, len |-> hsize[t],
                                      ino |-> hmap[t].ino]]
      /\ UNCHANGED <<globals, inodes, poolVars, hstr, hsize, found, victim,
                     slot, tree, objects, hdisk, made, torn>>

\* What lies before the aligned address, and behind the object, is unmapped.
TrimObject(t) ==
  LET addr == hmap[t].addr
      ret == Ceiling(addr)
  IN  /\ HGo(t, "trim", "consmp")
      /\ mapped' = mapped \ (Units(addr, ret - addr)
                   \cup Units(ret + hsize[t], addr + ChunkUnits - ret))
      /\ hmap' = [hmap EXCEPT ![t] = [addr |-> ret, len |-> hsize[t],
                                      ino |-> hmap[t].ino]]
      /\ UNCHANGED <<globals, inodes, poolVars, hstr, hsize, found, victim,
                     slot, tree, objects, hdisk, made, torn>>

AddConsmp(t) ==
  /\ HGo(t, "consmp", "node")
  /\ pmem_consmp' = AtomicAdd(pmem_consmp, hsize[t])
  /\ UNCHANGED <<mmap_file, inodes, poolVars, hlocals, hshared, made>>

\* The node takes its number from mmap_file, which has moved on; it is where
\* that of the thread's last call was.
FillNode(t) ==
  /\ HGo(t, "node", "insert")
  /\ slot' = [slot EXCEPT ![t] = [file_no |-> mmap_file,
                                  paddr |-> hmap[t].addr, size |-> hsize[t]]]
  /\ torn' = (torn \/ FrameInUse(t))
  /\ UNCHANGED <<globals, inodes, poolVars, hlocals, tree, objects, mapped,
                 hdisk, made>>

\* Under huge_mtx.  A node that meets one of its address in the search for its
\* place, or itself because it is linked already, fails an assertion of rb.h.
\* It does meet itself when it is the only one; else it may be missed.
InsertNode(t) ==
  /\ hpc[t] = "insert"
  /\ torn' = torn
  /\ \/ /\ tree # {t}
        /\ torn \/ \A u \in tree : slot[u].paddr # slot[t].paddr
        /\ \E s \in Remains(tree \ {t}) : tree' = s \cup {t}
        /\ objects' = objects \cup {hmap[t]}
        /\ hpc' = [hpc EXCEPT ![t] = "idle"]
     \/ /\ torn \/ \E u \in tree : slot[u].paddr = slot[t].paddr
        /\ hpc' = [hpc EXCEPT ![t] = "aborted"]
        /\ UNCHANGED <<tree, objects>>
  /\ EndCall(t)
  /\ UNCHANGED <<globals, inodes, poolVars, slot, mapped, hdisk, made>>

(***************************************************************************)
(* huge_dalloc, to which lsfree passes every address aligned to chunksize. *)
(***************************************************************************)
\* Under huge_mtx: search, two assertions, remove.
HugeDalloc(t) ==
  /\ hpc[t] = "idle"
  /\ ReuseFrame(t)
  /\ \E o \in objects :
       /\ objects' = objects \ {o}
       /\ victim' = [victim EXCEPT ![t] = o]
       /\ \/ \E u \in tree : /\ slot'[u].paddr = o.addr
                             /\ tree' \in Remains(tree \ {u})
                             /\ found' = [found EXCEPT ![t] = u]
                             /\ hpc' = [hpc EXCEPT ![t] = "path"]
          \/ /\ torn' \/ \A u \in tree : slot[u].paddr # o.addr
             /\ hpc' = [hpc EXCEPT ![t] = "aborted"]
             /\ UNCHANGED <<tree, found>>
  /\ UNCHANGED <<globals, inodes, poolVars, hstr, hmap, hsize, mapped, hdisk,
                 made>>

\* From here on the node is read without the lock.
PrintPath(t) ==
  /\ HGo(t, "path", "unmapobject")
  /\ hstr' = [hstr EXCEPT ![t] = slot[found[t]].file_no]
  /\ UNCHANGED <<globals, inodes, poolVars, hmap, hsize, found, victim,
                 hshared, made>>

UnmapObject(t) ==
  /\ HGo(t, "unmapobject", "sub")
  /\ mapped' = mapped \ Units(slot[found[t]].paddr, slot[found[t]].size)
  /\ UNCHANGED <<globals, inodes, poolVars, hlocals, slot, tree, objects,
                 hdisk, made, torn>>

SubConsmp(t) ==
  /\ HGo(t, "sub", "removefile")
  /\ pmem_consmp' = AtomicSub(pmem_consmp, slot[found[t]].size)
  /\ UNCHANGED <<mmap_file, inodes, poolVars, hlocals, hshared, made>>

\* What the frame holds is then of no use, unless its thread filled it again.
RemoveFile(t) ==
  /\ HGo(t, "removefile", "idle")
  /\ hdisk' = [hdisk EXCEPT ![hstr[t]] = NoFile]
  /\ slot' = IF found[t] \in tree \/ hpc[found[t]] = "insert" THEN slot
             ELSE [slot EXCEPT ![found[t]] = NoNode]
  /\ EndCall(t)
  /\ UNCHANGED <<globals, inodes, poolVars, tree, objects, mapped, made, torn>>

\* The thread calls anything else.
OtherCall(t) ==
  /\ hpc[t] = "idle"
  /\ Overwrite(t)
  /\ UNCHANGED <<globals, inodes, poolVars, hpc, hlocals, tree, objects, mapped,
                 hdisk, made>>

HugeStep(t) ==
  \/ HugeMalloc(t) \/ CountFile(t) \/ MapObject(t) \/ UnmapMisaligned(t)
  \/ RemoveMisaligned(t) \/ RemapObject(t) \/ TrimObject(t) \/ AddConsmp(t)
  \/ FillNode(t) \/ InsertNode(t)
  \/ HugeDalloc(t) \/ PrintPath(t) \/ UnmapObject(t) \/ SubConsmp(t)
  \/ RemoveFile(t) \/ OtherCall(t)

(***************************************************************************)
(* Pools and objects together.                                             *)
(***************************************************************************)
PoolStart == Room /\ \E a \in Arenas : LoadNumber(a)

FilesRestart ==
  /\ Restart
  /\ hpc' = [t \in Threads |-> "idle"]
  /\ hstr' = [t \in Threads |-> 0] /\ hsize' = [t \in Threads |-> 0]
  /\ hmap' = [t \in Threads |-> NoMapping]
  /\ slot' = [t \in Threads |-> NoNode]
  /\ found' = [t \in Threads |-> t] /\ victim' = [t \in Threads |-> NoMapping]
  /\ tree' = {} /\ objects' = {} /\ mapped' = {} /\ made' = 0
  /\ torn' = FALSE /\ races' = {}
  /\ UNCHANGED hdisk

\* The calls that another step finds between their reading of mmap_file and
\* their use of what they read; and those between load and store of pmem_consmp.
NamingStill == \/ \E a \in Arenas : pc[a] \in {"store", "name"} /\ pc'[a] = pc[a]
               \/ \E t \in Threads : hpc[t] = "count" /\ hpc'[t] = hpc[t]
AddingStill == \E a \in Arenas : pc[a] = "add" /\ pc'[a] = pc[a]

\* The history of both: what was changed under a call.
Watch ==
  races' = races \cup {r \in {"number", "consmp"} :
              \/ r = "number" /\ mmap_file' # mmap_file /\ NamingStill
              \/ r = "consmp" /\ pmem_consmp' # pmem_consmp /\ AddingStill}

Aborted == \E t \in Threads : hpc[t] = "aborted"

\* Nothing has to happen between calls, after an abort, and when a mapping
\* finds no room: huge_malloc then ends the process.
FilesRest ==
  /\ \/ Busy \cup Creating \cup Freeing = {}
     \/ Aborted
     \/ \E t \in Threads : hpc[t] \in {"map", "remap"}
  /\ UNCHANGED allVars

FilesNext ==
  \/ /\ ~Aborted
     /\ \/ (Lspmemdir \/ PoolStart \/ \E a \in Arenas : Proceed(a))
           /\ UNCHANGED hvars
        \/ \E t \in Threads : HugeStep(t)
     /\ Watch
  \/ FilesRestart
  \/ FilesRest

FilesSpec == FilesInit /\ [][FilesNext]_allVars

-----------------------------------------------------------------------------
Mapping == [addr : 0 .. Top, len : Nat, ino : 0 .. inodes]

FilesTypeOK ==
  /\ TypeOK
  /\ hpc \in [Threads -> {"idle", "count", "map", "unmap", "remove", "remap",
                          "trim", "consmp", "node", "insert", "path",
                          "unmapobject", "sub", "removefile", "aborted"}]
  /\ hstr \in [Threads -> Numbers] /\ hsize \in [Threads -> Sizes \cup {0}]
  /\ hmap \in [Threads -> Mapping] /\ victim \in [Threads -> Mapping]
  /\ slot \in [Threads -> [file_no : Numbers, paddr : 0 .. Top,
                           size : Sizes \cup {0}]]
  /\ tree \subseteq Threads /\ found \in [Threads -> Threads]
  /\ objects \subseteq Mapping /\ mapped \subseteq 0 .. Top
  /\ hdisk \in [Numbers -> 0 .. inodes] /\ made \in 0 .. MaxFiles
  /\ torn \in BOOLEAN /\ races \subseteq {"number", "consmp"}

(***************************************************************************)
(* "per arena has its own pool" (src/src/pool.c:3), whatever refills and   *)
(* huge_mallocs overlap and over whichever old files, with one exception:  *)
(* mmap_file changed under a call, between its reading (pool.c:36,         *)
(* huge.c:53) and the use of what was read.                                *)
(***************************************************************************)
PoolsOwnFiles == "number" \notin races => PoolsShareNoFile

(***************************************************************************)
(* With the same exception the file of a pool in use is never removed nor  *)
(* replaced, although creations remove files by name (pool.c:49).          *)
(***************************************************************************)
LiveFilesStay ==
  [][\A i \in 1 .. Len(pools) :
       "number" \notin races' /\ Len(pools') >= i => \A k \in Numbers :
         disk[k] = pools[i].ino => disk'[k] = pools[i].ino]_allVars

(***************************************************************************)
(* No two live huge objects are mappings of one file, with the same        *)
(* exception, also when the process started over the files of the last one *)
(* and when frees removed files other than their own.                      *)
(***************************************************************************)
ObjectsShareNoFile ==
  "number" \notin races => \A o, p \in objects : o.ino = p.ino => o = p

(***************************************************************************)
(* Between calls pmem_consmp is the number of bytes mapped, up to the      *)
(* range of its type, when no pool's addition, a load and a store          *)
(* (pool.c:59), had another one in between, and no node was overwritten.   *)
(***************************************************************************)
Lengths == [o \in objects |-> o.len]

ConsmpExact ==
  "consmp" \notin races /\ ~torn /\ Busy \cup Creating \cup Freeing = {} =>
    pmem_consmp = (Len(pools) * PoolSize + SumFunction(Lengths)) % ConsmpMod

(***************************************************************************)
(* As long as no call has overwritten a node that its thread left in its   *)
(* frame (huge.c:51), lsfree of a live huge object ends it, in any thread, *)
(* also the one that made it: its address passes the alignment test of     *)
(* idalloct, one linked node has its address and its size, no other node   *)
(* is linked, and no assertion of the tree or of huge_dalloc fails.        *)
(***************************************************************************)
ObjectsCanBeFreed ==
  ~torn =>
    /\ ~Aborted
    /\ \A o \in objects : /\ Aligned(o.addr)
                          /\ \E t \in tree : /\ slot[t].paddr = o.addr
                                             /\ slot[t].size = o.len
    /\ Cardinality(tree) = Cardinality(objects)

(***************************************************************************)
(* As long as that, what is mapped for huge objects is what live objects   *)
(* occupy and what a call in progress has mapped or has still to unmap:    *)
(* huge_malloc trims all that it mapped in excess and nothing else,        *)
(* huge_dalloc unmaps the whole of its object and nothing of another one.  *)
(***************************************************************************)
Making == {t \in Threads : hpc[t] \in {"unmap", "trim", "consmp", "node",
                                       "insert"}}
Unmapping == {t \in Threads : hpc[t] \in {"path", "unmapobject"}}

Held == objects \cup {hmap[t] : t \in Making} \cup {victim[t] : t \in Unmapping}

Disjoint(m, n) == Units(m.addr, m.len) \cap Units(n.addr, n.len) = {}

HeldInv ==
  /\ mapped = UNION {Units(m.addr, m.len) : m \in Held}
  /\ \A m, n \in Held : m # n => Disjoint(m, n)

MappedExactly == ~torn => HeldInv

(***************************************************************************)
(* src/test/unit/huge.c:8-13 makes two objects one after the other and     *)
(* asserts that it has got each: huge_malloc ends with its node linked.    *)
(***************************************************************************)
AllocationsReturn ==
  [][\A t \in Threads : hpc[t] = "insert" => hpc'[t] # "aborted"]_allVars

-----------------------------------------------------------------------------
(***************************************************************************)
(* The inductive invariant behind these properties: some of it holds       *)
(* always, some until mmap_file is changed under a call, some until a node *)
(* is overwritten.                                                         *)
(***************************************************************************)
\* No number exceeds that of the files begun, less the numbers on their way.
Starting == {a \in Arenas : pc[a] = "store"}
Counting == {t \in Threads : hpc[t] = "count"}

Begun == Len(pools) + Cardinality(Busy) + made
Pending == Cardinality(Starting) + Cardinality(Counting)

CountInv ==
  /\ Begun <= MaxFiles
  /\ mmap_file + Pending <= Begun
  /\ \A a \in Starting : reg[a] + Pending <= Begun

\* One inode has one name.
OneNameEach(d) == \A k, l \in Numbers : d[k] = d[l] /\ d[k] # NoFile => k = l

\* There is a chunk to spare behind the address that is to be trimmed.
SpareInv ==
  \A t \in Threads : hpc[t] = "trim" => hmap[t].addr + ChunkUnits <= Top

\* The pools, and the creations that have a name, have different ones; the
\* numbers still to come are others.
Named(a) == pc[a] \notin {"idle", "store", "name"}
Fresh(n) == n <= mmap_file /\ \A a \in Arenas : pc[a] = "name" => n # mmap_file

PoolsInv ==
  \A i \in 1 .. Len(pools) :
    /\ Fresh(pools[i].name)
    /\ pools[i].ino # NoFile /\ disk[pools[i].name] = pools[i].ino
    /\ \A j \in 1 .. Len(pools) : pools[i].name = pools[j].name => i = j

ArenaInv(a) ==
  /\ pc[a] = "store" => reg[a] = mmap_file
  /\ pc[a] = "name" => \A b \in Arenas : pc[b] = "name" => a = b
  /\ Named(a) =>
       /\ Fresh(name[a])
       /\ \A b \in Arenas : Named(b) /\ name[a] = name[b] => a = b
       /\ \A i \in 1 .. Len(pools) : pools[i].name # name[a]
       /\ pc[a] \in {"consmp", "add", "enlist"} =>
            ino[a] = disk[name[a]] /\ ino[a] # NoFile

PoolFilesInv == PoolsInv /\ \A a \in Arenas : ArenaInv(a)

\* No file that an object is a mapping of has a number that is still to be
\* used, although frees remove other files than their own.
ObjectFileInv(o) ==
  /\ o.ino # NoFile
  /\ \A k \in Numbers : hdisk[k] = o.ino =>
       k < mmap_file /\ \A t \in Creating : k # hstr[t]

NewFileInv(t) ==
  /\ IF hpc[t] = "count" THEN hstr[t] = mmap_file
     ELSE /\ hstr[t] < mmap_file
          /\ \A u \in Creating : hstr[t] = hstr[u] => t = u
  /\ hpc[t] \in {"trim", "consmp", "node", "insert"} =>
       /\ hmap[t].ino # NoFile
       /\ \A k \in Numbers : hdisk[k] = hmap[t].ino => k = hstr[t]
       /\ \A o \in objects : o.ino # hmap[t].ino
       /\ \A u \in Creating :
            hpc[u] \in {"trim", "consmp", "node", "insert"}
              /\ hmap[t].ino = hmap[u].ino => t = u

ObjectFilesInv == /\ \A o, p \in objects : o.ino = p.ino => o = p
                  /\ \A o \in objects : ObjectFileInv(o)
                  /\ \A t \in Creating : NewFileInv(t)

\* What a call in progress knows of its mapping.
CallSizesInv(t) ==
  /\ hsize[t] \in Sizes
  /\ hpc[t] \in {"unmap", "consmp", "node", "insert"} => hmap[t].len = hsize[t]
  /\ hpc[t] = "trim" => hmap[t].len = hsize[t] + ChunkUnits
  /\ hpc[t] \in {"consmp", "node", "insert"} => Aligned(hmap[t].addr)
  /\ hpc[t] = "insert" => /\ slot[t].paddr = hmap[t].addr
                          /\ slot[t].size = hsize[t]

SizesInv ==
  /\ \A t \in Creating : CallSizesInv(t)
  /\ \A o \in objects : Aligned(o.addr) /\ o.len \in Sizes
  /\ \A t \in Unmapping : victim[t].len \in Sizes

\* Mappings are disjoint, also those of two threads that are equal records.
ApartInv ==
  /\ \A o \in objects : /\ \A p \in objects : o # p => Disjoint(o, p)
                        /\ \A t \in Making : Disjoint(o, hmap[t])
                        /\ \A t \in Unmapping : Disjoint(o, victim[t])
  /\ \A t, u \in Making : t # u => Disjoint(hmap[t], hmap[u])
  /\ \A t \in Unmapping : /\ \A u \in Making : Disjoint(hmap[u], victim[t])
                          /\ \A u \in Unmapping :
                               t # u => Disjoint(victim[t], victim[u])

\* The linked nodes are those of the live objects, and none of them, nor one
\* being freed, is also about to be linked.
TreeInv ==
  /\ ~Aborted
  /\ IsFiniteSet(tree) /\ IsFiniteSet(objects)
  /\ Cardinality(tree) = Cardinality(objects)
  /\ \A t \in tree : /\ hpc[t] # "insert"
                     /\ \E o \in objects : /\ slot[t].paddr = o.addr
                                           /\ slot[t].size = o.len
  /\ \A t, u \in tree : slot[t].paddr = slot[u].paddr => t = u
  /\ \A o \in objects : \E t \in tree : /\ slot[t].paddr = o.addr
                                        /\ slot[t].size = o.len
  /\ \A t \in Freeing :
       /\ found[t] \notin tree /\ hpc[found[t]] # "insert"
       /\ \A u \in Freeing : found[t] = found[u] => t = u
       /\ t \in Unmapping => /\ slot[found[t]].paddr = victim[t].addr
                             /\ slot[found[t]].size = victim[t].len

HugeInv == SizesInv /\ HeldInv /\ ApartInv /\ TreeInv

FilesInv == /\ FilesTypeOK
            /\ CountInv /\ SpareInv
            /\ OneNameEach(disk) /\ OneNameEach(hdisk)
            /\ "number" \notin races => PoolFilesInv /\ ObjectFilesInv
            /\ ~torn => HugeInv
=============================================================================
