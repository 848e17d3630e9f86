--------------------------- MODULE HugeFiles_proofs ---------------------------
(***************************************************************************)
(* Theorems about PoolFiles and HugeFiles, for every set of arenas and     *)
(* threads, all sizes, every number of files and restarts, and any overlap *)
(* of the calls.                                                           *)
(***************************************************************************)
EXTENDS HugeFiles, CommonLemmas, FiniteSetTheorems, SequenceTheorems

LEMMA FileConstants ==
  /\ PoolSize \in Nat \ {0} /\ ConsmpMod \in Nat \ {0} /\ MaxFiles \in Nat \ {0}
  /\ ChunkUnits \in Nat \ {0} /\ Top \in Nat \ {0} /\ MaxCrashes \in Nat
  /\ Sizes \subseteq Nat \ {0} /\ Numbers \subseteq Nat /\ 0 \in Numbers
  /\ IsFiniteSet(Arenas) /\ IsFiniteSet(Threads)
BY PoolFilesAssumption, HugeFilesAssumption DEF Numbers

PoolPlaces == {"idle", "store", "name", "map", "remove", "remap", "consmp", "add",
               "enlist"}

\* The types of huge_malloc's and huge_dalloc's state.
HugeTypeOK ==
  /\ hpc \in [Threads -> {"idle", "count", "map", "unmap", "remove", "remap",
                          "trim", "consmp", "node", "insert", "path",
                          "unmapobject", "sub", "removefile", "aborted"}]
  /\ hstr \in [Threads -> Numbers] /\ hsize \in [Threads -> Sizes \cup {0}]
  /\ hmap \in [Threads -> Mapping] /\ victim \in [Threads -> Mapping]
  /\ slot \in [Threads -> [file_no : Numbers, paddr : 0 .. Top,
                           size : Sizes \cup {0}]]
  /\ tree \subseteq Threads /\ found \in [Threads -> Threads]
  /\ objects \subseteq Mapping /\ mapped \subseteq 0 .. Top
  /\ hdisk \in [Numbers -> 0 .. inodes] /\ made \in 0 .. MaxFiles
  /\ torn \in BOOLEAN

LEMMA TypesSplit ==
  FilesTypeOK <=> TypeOK /\ HugeTypeOK /\ races \subseteq {"number", "consmp"}
BY DEF FilesTypeOK, HugeTypeOK

\* What the types say of the pools, their numbers and their files.
LEMMA PoolTypes ==
  ASSUME TypeOK
  PROVE  /\ mmap_file \in Nat /\ inodes \in Nat /\ Len(pools) \in Nat
         /\ pools \in Seq(PoolRec)
         /\ \A i \in 1 .. Len(pools) :
              /\ pools[i].name \in Numbers /\ pools[i].name \in Nat
              /\ pools[i].ino \in Nat
         /\ \A k \in Numbers : disk[k] \in 0 .. inodes
         /\ \A a \in Arenas : /\ name[a] \in Numbers /\ reg[a] \in Nat
                              /\ ino[a] \in 0 .. inodes
<1>1. pools \in Seq(PoolRec)
  BY DEF TypeOK
<1>2. \A i \in 1 .. Len(pools) : pools[i] \in PoolRec
  BY <1>1, ElementOfSeq
<1>3. \A i \in 1 .. Len(pools) : /\ pools[i].name \in Numbers
                                 /\ pools[i].name \in Nat
                                 /\ pools[i].ino \in Nat
  BY <1>2, FileConstants DEF PoolRec
<1>4. mmap_file \in Nat
  BY FileConstants DEF TypeOK
<1>5. Len(pools) \in Nat
  BY <1>1, LenProperties
<1> QED
  BY <1>1, <1>3, <1>4, <1>5 DEF TypeOK

\* The numbers of arenas and threads at the places that CountInv counts.
LEMMA CountsTyped ==
  /\ IsFiniteSet(Busy) /\ IsFiniteSet(Starting) /\ IsFiniteSet(Counting)
  /\ Cardinality(Busy) \in Nat /\ Cardinality(Starting) \in Nat
  /\ Cardinality(Counting) \in Nat
<1>1. Busy \subseteq Arenas /\ Starting \subseteq Arenas /\ Counting \subseteq Threads
  BY DEF Busy, Starting, Counting
<1>2. IsFiniteSet(Busy) /\ IsFiniteSet(Starting) /\ IsFiniteSet(Counting)
  BY <1>1, FileConstants, FS_Subset
<1> QED
  BY <1>2, FS_CardinalityType

-----------------------------------------------------------------------------
(***************************************************************************)
(* Steps of the pools: types, counts, and one name for every inode.        *)
(***************************************************************************)
PoolSide == TypeOK /\ CountInv /\ OneNameEach(disk)

\* An arena moves.
LEMMA ArenaMoves ==
  ASSUME TypeOK, NEW a \in Arenas, NEW to, pc' = [pc EXCEPT ![a] = to]
  PROVE  /\ pc'[a] = to /\ \A b \in Arenas : b # a => pc'[b] = pc[b]
         /\ Busy' = IF to = "idle" THEN Busy \ {a} ELSE Busy \cup {a}
         /\ Starting' = IF to = "store" THEN Starting \cup {a} ELSE Starting \ {a}
<1>1. pc \in [Arenas -> PoolPlaces]
  BY DEF TypeOK, PoolPlaces
<1>2. pc'[a] = to /\ \A b \in Arenas : b # a => pc'[b] = pc[b]
  BY <1>1
<1>3. Busy' = IF to = "idle" THEN Busy \ {a} ELSE Busy \cup {a}
  BY <1>2 DEF Busy
<1>4. Starting' = IF to = "store" THEN Starting \cup {a} ELSE Starting \ {a}
  BY <1>2 DEF Starting
<1> QED
  BY <1>2, <1>3, <1>4

\* A step inside pmempool_create_one that does not count a file.
LEMMA CountsKept ==
  ASSUME PoolSide, NEW a \in Arenas, NEW to \in PoolPlaces \ {"idle", "store"},
         pc[a] # "idle", pc[a] # "store", pc' = [pc EXCEPT ![a] = to],
         UNCHANGED <<mmap_file, pools, hpc, made>>,
         \A b \in Arenas : b # a => reg'[b] = reg[b]
  PROVE  CountInv'
<1>1. a \in Busy /\ a \notin Starting
  BY DEF Busy, Starting
<1>2. Busy' = Busy /\ Starting' = Starting
  <2>1. TypeOK /\ to # "idle" /\ to # "store"
    BY DEF PoolSide
  <2>2. Busy' = Busy \cup {a} /\ Starting' = Starting \ {a}
    BY <2>1, ArenaMoves
  <2> QED
    BY <2>2, <1>1
<1>3. Begun' = Begun /\ Pending' = Pending
  BY <1>2 DEF Begun, Pending, Counting
<1> QED
  BY <1>1, <1>2, <1>3 DEF CountInv, PoolSide, Starting

LEMMA LoadNumberOK ==
  ASSUME PoolSide, NEW a \in Arenas, LoadNumber(a), UNCHANGED hvars, Room,
         made \in Nat
  PROVE  PoolSide'
<1> USE DEF PoolSide
<1>1. /\ pc[a] = "idle" /\ pc' = [pc EXCEPT ![a] = "store"]
      /\ reg' = [reg EXCEPT ![a] = mmap_file]
      /\ UNCHANGED <<mmap_file, pmem_consmp, pmem_path, disk, inodes, name, ino,
                     pools, crashes>>
      /\ UNCHANGED <<hpc, made>>
  BY DEF LoadNumber, Go, globals, device, hvars
<1>t. /\ mmap_file \in Nat /\ reg \in [Arenas -> Nat] /\ Len(pools) \in Nat
      /\ MaxFiles \in Nat
  BY PoolTypes, FileConstants DEF TypeOK
<1>2. /\ Busy' = Busy \cup {a} /\ Starting' = Starting \cup {a}
      /\ a \notin Busy /\ a \notin Starting
  BY <1>1, ArenaMoves DEF Busy, Starting
<1>3. TypeOK'
  <2>1. reg' \in [Arenas -> Nat]
    BY <1>1, <1>t
  <2>2. pc' \in [Arenas -> {"idle", "store", "name", "map", "remove", "remap",
                            "consmp", "add", "enlist"}]
    BY <1>1 DEF TypeOK
  <2> QED
    BY <2>1, <2>2, <1>1 DEF TypeOK
<1>4. CountInv'
  <2>1. PICK b, s, c \in Nat : /\ b = Cardinality(Busy) /\ s = Cardinality(Starting)
                               /\ c = Cardinality(Counting)
    BY CountsTyped
  <2>2. Cardinality(Busy') = b + 1 /\ Cardinality(Starting') = s + 1
    BY <1>2, <2>1, CountsTyped, FS_AddElement
  <2>3. Begun' = Begun + 1 /\ Pending' = Pending + 1 /\ Begun + 1 <= MaxFiles
        /\ Begun \in Nat /\ Pending \in Nat
    <3>1. Begun = Len(pools) + b + made /\ Begun' = Len(pools) + (b + 1) + made
          /\ Pending = s + c /\ Pending' = (s + 1) + c
      BY <2>1, <2>2, <1>1 DEF Begun, Pending, Counting
    <3>2. Len(pools) + b + made < MaxFiles
      BY <2>1 DEF Room
    <3> QED
      BY <3>1, <3>2, <1>t
  <2>4. mmap_file' + Pending' <= Begun'
    BY <2>3, <1>1, <1>t DEF CountInv
  <2>5. \A x \in Starting' : reg'[x] + Pending' <= Begun'
    <3>1. reg'[a] = mmap_file /\ \A x \in Starting : x # a => reg'[x] = reg[x]
      BY <1>1, <1>t DEF Starting
    <3>2. \A x \in Starting : reg[x] + Pending <= Begun /\ reg[x] \in Nat
      BY <1>t DEF CountInv, Starting
    <3> QED
      BY <3>1, <3>2, <1>2, <2>3, <2>4, <1>t, <1>1
  <2>6. Begun' <= MaxFiles
    BY <2>3
  <2> QED
    BY <2>4, <2>5, <2>6 DEF CountInv
<1>5. OneNameEach(disk)'
  BY <1>1 DEF OneNameEach
<1> QED
  BY <1>3, <1>4, <1>5

LEMMA StoreNumberOK ==
  ASSUME PoolSide, NEW a \in Arenas, StoreNumber(a), UNCHANGED hvars, made \in Nat
  PROVE  PoolSide'
<1> USE DEF PoolSide
<1>1. /\ pc[a] = "store" /\ pc' = [pc EXCEPT ![a] = "name"]
      /\ mmap_file' = reg[a] + 1
      /\ UNCHANGED <<pmem_consmp, pmem_path, disk, inodes, reg, name, ino, pools,
                     crashes>>
      /\ UNCHANGED <<hpc, made>>
  BY DEF StoreNumber, Go, device, hvars
<1>t. mmap_file \in Nat /\ Len(pools) \in Nat /\ MaxFiles \in Nat /\ reg[a] \in Nat
      /\ reg \in [Arenas -> Nat]
  BY PoolTypes, FileConstants DEF TypeOK
<1>2. /\ Busy' = Busy /\ Starting' = Starting \ {a} /\ a \in Starting
  BY <1>1, ArenaMoves DEF Busy, Starting
<1>3. PICK b, s, c \in Nat : /\ b = Cardinality(Busy) /\ s = Cardinality(Starting)
                             /\ c = Cardinality(Counting)
  BY CountsTyped
<1>4. Cardinality(Starting') = s - 1 /\ Cardinality(Starting') \in Nat
  BY <1>2, <1>3, CountsTyped, FS_RemoveElement, FS_CardinalityType
<1>5. Begun' = Begun /\ Pending' = Pending - 1 /\ Pending' \in Nat /\ Begun \in Nat
      /\ Pending \in Nat
  <2>1. Begun' = Begun /\ Begun = Len(pools) + b + made
        /\ Pending = s + c /\ Pending' = (s - 1) + c
    BY <1>1, <1>2, <1>3, <1>4 DEF Begun, Pending, Counting
  <2>2. s - 1 \in Nat /\ made \in Nat
    BY <1>4
  <2>3. (s - 1) + c = (s + c) - 1 /\ (s - 1) + c \in Nat /\ s + c \in Nat
    BY <2>2
  <2>4. Len(pools) + b + made \in Nat
    BY <1>t, <2>2
  <2> QED
    BY <2>1, <2>3, <2>4
<1>6. reg[a] + Pending <= Begun /\ Begun <= MaxFiles
      /\ \A x \in Starting : reg[x] + Pending <= Begun /\ reg[x] \in Nat
  <2>1. \A x \in Starting : reg[x] \in Nat
    BY <1>t DEF Starting
  <2> QED
    BY <2>1, <1>2 DEF CountInv
<1>7. CountInv'
  <2>1. Begun' <= MaxFiles
    BY <1>5, <1>6
  <2>2. mmap_file' + Pending' <= Begun'
    BY <1>1, <1>5, <1>6, <1>t
  <2>3. \A x \in Starting' : reg'[x] + Pending' <= Begun'
    BY <1>1, <1>2, <1>5, <1>6, <1>t
  <2> QED
    BY <2>1, <2>2, <2>3 DEF CountInv
<1>8. TypeOK'
  <2>1. mmap_file' \in Numbers
    BY <1>1, <1>5, <1>6, <1>t DEF Numbers
  <2>2. pc' \in [Arenas -> {"idle", "store", "name", "map", "remove", "remap",
                            "consmp", "add", "enlist"}]
    BY <1>1 DEF TypeOK
  <2> QED
    BY <2>1, <2>2, <1>1 DEF TypeOK
<1>9. OneNameEach(disk)'
  BY <1>1 DEF OneNameEach
<1> QED
  BY <1>7, <1>8, <1>9

\* The path is made, pmem_consmp is read and written: no file changes.
LEMMA NoFileChangesOK ==
  ASSUME PoolSide, NEW a \in Arenas, UNCHANGED hvars,
         Name(a) \/ LoadConsmp(a) \/ StoreConsmp(a)
  PROVE  PoolSide'
<1> USE DEF PoolSide
<1>k. UNCHANGED <<mmap_file, disk, inodes, pmem_path, ino, pools, crashes, hpc, made>>
  BY DEF Name, LoadConsmp, StoreConsmp, globals, device, hvars
<1>0. PICK to \in {"map", "add", "enlist"} :
        /\ pc' = [pc EXCEPT ![a] = to] /\ pc[a] # "store" /\ pc[a] # "idle"
        /\ name' = name \/ name' = [name EXCEPT ![a] = mmap_file]
        /\ reg' = reg \/ reg' = [reg EXCEPT ![a] = pmem_consmp]
  BY DEF Name, LoadConsmp, StoreConsmp, Go
<1>1. CountInv'
  <2>1. to \in PoolPlaces \ {"idle", "store"}
    BY DEF PoolPlaces
  <2>2. \A b \in Arenas : b # a => reg'[b] = reg[b]
    BY <1>0 DEF TypeOK
  <2> QED
    BY <2>1, <2>2, <1>0, <1>k, CountsKept
<1>2. TypeOK'
  <2>1. pc' \in [Arenas -> {"idle", "store", "name", "map", "remove", "remap",
                            "consmp", "add", "enlist"}]
    BY <1>0 DEF TypeOK
  <2>2. name' \in [Arenas -> Numbers]
    BY <1>0 DEF TypeOK
  <2>3. reg' \in [Arenas -> Nat]
    <3>1. pmem_consmp \in Nat
      BY FileConstants DEF TypeOK
    <3> QED
      BY <3>1, <1>0 DEF TypeOK
  <2>4. pmem_consmp' \in 0 .. ConsmpMod - 1
    <3>1. CASE StoreConsmp(a)
      <4>1. reg[a] + PoolSize \in Int /\ ConsmpMod \in Nat \ {0}
        BY PoolTypes, FileConstants
      <4>2. (reg[a] + PoolSize) % ConsmpMod \in 0 .. ConsmpMod - 1
        BY <4>1
      <4> QED
        BY <3>1, <4>2 DEF StoreConsmp
    <3>2. CASE Name(a) \/ LoadConsmp(a)
      BY <3>2 DEF Name, LoadConsmp, globals, TypeOK
    <3> QED
      BY <3>1, <3>2
  <2> QED
    BY <2>1, <2>2, <2>3, <2>4, <1>k DEF TypeOK
<1>3. OneNameEach(disk)'
  BY <1>k DEF OneNameEach
<1> QED
  BY <1>1, <1>2, <1>3

\* A name is given to a new inode or taken from an old one.
LEMMA NamesKept ==
  ASSUME NEW n \in Nat, NEW d \in [Numbers -> 0 .. n], OneNameEach(d),
         NEW k \in Numbers, NEW v \in {NoFile, n + 1}, NEW e,
         e = [d EXCEPT ![k] = v]
  PROVE  OneNameEach(e)
<1>1. e[k] = v /\ \A l \in Numbers : l # k => e[l] = d[l]
  OBVIOUS
<1>2. \A l \in Numbers : d[l] # n + 1
  <2>1. \A x \in 0 .. n : x # n + 1
    OBVIOUS
  <2> QED
    BY <2>1
<1> SUFFICES ASSUME NEW l \in Numbers, NEW m \in Numbers, e[l] = e[m], e[l] # NoFile
             PROVE  l = m
  BY DEF OneNameEach
<1>3. CASE l = k \/ m = k
  BY <1>3, <1>1, <1>2
<1>4. CASE l # k /\ m # k
  BY <1>4, <1>1 DEF OneNameEach
<1> QED
  BY <1>3, <1>4

\* The file of a name is made, or taken as it is.
LEMMA FileMade ==
  ASSUME NEW n \in Nat, NEW d \in [Numbers -> 0 .. n], OneNameEach(d),
         NEW k \in Numbers, NEW e, NEW m,
         \/ d[k] # NoFile /\ e = d /\ m = n
         \/ d[k] = NoFile /\ e = [d EXCEPT ![k] = n + 1] /\ m = n + 1
  PROVE  /\ m \in Nat /\ n <= m /\ e \in [Numbers -> 0 .. m]
         /\ e[k] # NoFile /\ e[k] \in 0 .. m
         /\ \A l \in Numbers : l # k => e[l] = d[l]
         /\ OneNameEach(e)
         /\ 0 .. n \subseteq 0 .. m
         /\ e[k] = d[k] \/ e[k] = n + 1
<1>n. NoFile = 0
  BY DEF NoFile
<1>1. CASE d[k] # NoFile /\ e = d /\ m = n
  BY <1>1
<1>2. CASE d[k] = NoFile /\ e = [d EXCEPT ![k] = n + 1] /\ m = n + 1
  <2>1. e[k] = n + 1 /\ \A l \in Numbers : l # k => e[l] = d[l]
    BY <1>2
  <2>2. n + 1 \in 0 .. n + 1 /\ n + 1 # 0 /\ n <= n + 1 /\ n + 1 \in Nat
        /\ 0 .. n \subseteq 0 .. n + 1
    OBVIOUS
  <2>3. e \in [Numbers -> 0 .. n + 1]
    BY <1>2, <2>2
  <2>4. OneNameEach(e)
    BY <1>2, NamesKept
  <2> QED
    BY <1>2, <1>n, <2>1, <2>2, <2>3, <2>4
<1> QED
  BY <1>1, <1>2

LEMMA MapFileOK ==
  ASSUME PoolSide, NEW a \in Arenas, UNCHANGED hvars,
         Map(a) \/ MapMisaligned(a) \/ Remap(a)
  PROVE  PoolSide' /\ inodes <= inodes' /\ 0 .. inodes \subseteq 0 .. inodes'
<1> USE DEF PoolSide
<1>0. PICK to \in {"consmp", "remove"} :
        /\ pc' = [pc EXCEPT ![a] = to] /\ pc[a] \in {"map", "remap"}
        /\ MapFile(a)
  BY DEF Map, MapMisaligned, Remap, Go
<1>1. /\ \/ disk[name[a]] # NoFile /\ disk' = disk /\ inodes' = inodes
         \/ /\ disk[name[a]] = NoFile
            /\ disk' = [disk EXCEPT ![name[a]] = inodes + 1]
            /\ inodes' = inodes + 1
      /\ ino' = [ino EXCEPT ![a] = disk'[name[a]]]
      /\ UNCHANGED <<mmap_file, pmem_consmp, pmem_path, reg, name, pools, crashes>>
  BY <1>0 DEF MapFile, globals, device
<1>t. /\ inodes \in Nat /\ name[a] \in Numbers /\ disk \in [Numbers -> 0 .. inodes]
      /\ ino \in [Arenas -> 0 .. inodes]
  BY PoolTypes DEF TypeOK
<1>2. /\ inodes' \in Nat /\ inodes <= inodes' /\ disk' \in [Numbers -> 0 .. inodes']
      /\ disk'[name[a]] \in 0 .. inodes'
      /\ OneNameEach(disk') /\ 0 .. inodes \subseteq 0 .. inodes'
  BY <1>1, <1>t, FileMade
<1>3. CountInv'
  BY <1>0, <1>1, CountsKept DEF hvars, PoolPlaces
<1>4. TypeOK'
  <2>1. pc' \in [Arenas -> {"idle", "store", "name", "map", "remove", "remap",
                            "consmp", "add", "enlist"}]
    BY <1>0 DEF TypeOK
  <2>2. ino' \in [Arenas -> 0 .. inodes']
    BY <1>1, <1>2, <1>t
  <2> QED
    BY <2>1, <2>2, <1>1, <1>2 DEF TypeOK
<1>5. OneNameEach(disk)'
  BY <1>2 DEF OneNameEach
<1> QED
  BY <1>2, <1>3, <1>4, <1>5

LEMMA RemoveOK ==
  ASSUME PoolSide, NEW a \in Arenas, UNCHANGED hvars, Remove(a)
  PROVE  PoolSide'
<1> USE DEF PoolSide
<1>1. /\ pc[a] = "remove" /\ pc' = [pc EXCEPT ![a] = "remap"]
      /\ disk' = [disk EXCEPT ![name[a]] = NoFile]
      /\ ino' = [ino EXCEPT ![a] = NoFile]
      /\ UNCHANGED <<mmap_file, pmem_consmp, pmem_path, inodes, reg, name, pools,
                     crashes>>
  BY DEF Remove, Go, globals
<1>t. /\ inodes \in Nat /\ name[a] \in Numbers /\ disk \in [Numbers -> 0 .. inodes]
      /\ ino \in [Arenas -> 0 .. inodes]
  BY PoolTypes DEF TypeOK
<1>n. NoFile \in 0 .. inodes
  BY <1>t DEF NoFile
<1>2. CountInv'
  BY <1>1, CountsKept DEF hvars, PoolPlaces
<1>3. TypeOK'
  <2>1. pc' \in [Arenas -> {"idle", "store", "name", "map", "remove", "remap",
                            "consmp", "add", "enlist"}]
    BY <1>1 DEF TypeOK
  <2>2. ino' \in [Arenas -> 0 .. inodes] /\ disk' \in [Numbers -> 0 .. inodes]
    BY <1>1, <1>t, <1>n
  <2> QED
    BY <2>1, <2>2, <1>1 DEF TypeOK
<1>4. OneNameEach(disk)'
  <2>1. OneNameEach(disk')
    BY <1>1, <1>t, NamesKept
  <2> QED
    BY <2>1 DEF OneNameEach
<1> QED
  BY <1>2, <1>3, <1>4

LEMMA EnlistOK ==
  ASSUME PoolSide, NEW a \in Arenas, Enlist(a), UNCHANGED hvars, made \in Nat
  PROVE  PoolSide'
<1> USE DEF PoolSide
<1>0. PICK n, new : n = Len(pools)
                /\ new = [file_no |-> mmap_file, name |-> name[a], ino |-> ino[a]]
  OBVIOUS
<1>1. /\ pc[a] = "enlist" /\ pc' = [pc EXCEPT ![a] = "idle"]
      /\ pools' = Append(pools, new)
      /\ reg' = [reg EXCEPT ![a] = 0] /\ name' = [name EXCEPT ![a] = 0]
      /\ ino' = [ino EXCEPT ![a] = NoFile]
      /\ UNCHANGED <<mmap_file, pmem_consmp, pmem_path, disk, inodes, crashes>>
      /\ UNCHANGED <<hpc, made>>
  BY <1>0 DEF Enlist, Go, globals, device, hvars
<1>t. /\ mmap_file \in Nat /\ mmap_file \in Numbers /\ inodes \in Nat /\ n \in Nat
      /\ name[a] \in Numbers /\ ino[a] \in 0 .. inodes /\ ino[a] \in Nat
      /\ pools \in Seq(PoolRec) /\ MaxFiles \in Nat /\ reg \in [Arenas -> Nat]
  BY <1>0, PoolTypes, FileConstants DEF TypeOK
<1>2. new \in PoolRec
  BY <1>0, <1>t DEF PoolRec
<1>3. pools' \in Seq(PoolRec) /\ Len(pools') = n + 1
  BY <1>0, <1>1, <1>2, <1>t, AppendProperties
<1>4. Busy' = Busy \ {a} /\ Starting' = Starting \ {a} /\ a \in Busy
      /\ a \notin Starting
  BY <1>1, ArenaMoves DEF Busy, Starting
<1>5. TypeOK'
  <2>1. pc' \in [Arenas -> {"idle", "store", "name", "map", "remove", "remap",
                            "consmp", "add", "enlist"}]
    BY <1>1 DEF TypeOK
  <2>2. /\ reg' \in [Arenas -> Nat] /\ name' \in [Arenas -> Numbers]
        /\ ino' \in [Arenas -> 0 .. inodes]
    BY <1>1, <1>t, FileConstants DEF TypeOK, NoFile
  <2> QED
    BY <2>1, <2>2, <1>1, <1>3 DEF TypeOK
<1>6. CountInv'
  <2>1. PICK b \in Nat : b = Cardinality(Busy)
    BY CountsTyped
  <2>2. Cardinality(Busy') = b - 1
    BY <1>4, <2>1, CountsTyped, FS_RemoveElement
  <2>3. Starting' = Starting
    BY <1>4
  <2>4. Begun = n + b + made /\ Begun' = (n + 1) + (b - 1) + made
    BY <1>0, <1>1, <1>3, <2>1, <2>2 DEF Begun
  <2>5. Begun' = Begun /\ Pending' = Pending /\ mmap_file' = mmap_file
    BY <2>3, <2>4, <1>1, <1>t DEF Pending, Counting
  <2>6. \A x \in Starting : reg'[x] = reg[x]
    BY <1>1, <1>4, <1>t DEF Starting
  <2> QED
    BY <2>3, <2>5, <2>6 DEF CountInv
<1>7. OneNameEach(disk)'
  BY <1>1 DEF OneNameEach
<1> QED
  BY <1>5, <1>6, <1>7

\* lspmemdir changes nothing that a pool uses.
LEMMA LspmemdirOK ==
  ASSUME PoolSide, Lspmemdir, UNCHANGED hvars
  PROVE  PoolSide'
<1> USE DEF PoolSide
<1>1. /\ UNCHANGED <<mmap_file, pmem_consmp, disk, inodes, pc, reg, name, ino, pools,
                     crashes, hpc, made>>
      /\ pmem_path' \in Dirs
  BY DEF Lspmemdir, globals, device, hvars
<1>2. TypeOK'
  BY <1>1 DEF TypeOK
<1>3. CountInv'
  BY <1>1 DEF CountInv, Begun, Pending, Busy, Starting, Counting
<1>4. OneNameEach(disk)'
  BY <1>1 DEF OneNameEach
<1> QED
  BY <1>2, <1>3, <1>4

\* The steps of the pools leave the objects alone; the inodes they make are new.
LEMMA HugeTypesKept ==
  ASSUME HugeTypeOK, UNCHANGED hvars,
         inodes \in Nat, inodes' \in Nat, inodes <= inodes'
  PROVE  HugeTypeOK'
<1> USE DEF hvars, hlocals, hshared
<1>1. 0 .. inodes \subseteq 0 .. inodes'
  OBVIOUS
<1>2. Mapping \subseteq Mapping'
  BY <1>1 DEF Mapping
<1>3. /\ hmap' \in [Threads -> Mapping'] /\ victim' \in [Threads -> Mapping']
      /\ objects' \subseteq Mapping'
  <2>1. hmap \in [Threads -> Mapping] /\ victim \in [Threads -> Mapping]
        /\ objects \subseteq Mapping
    BY DEF HugeTypeOK
  <2> HIDE DEF hvars, hlocals, hshared
  <2>2. hmap \in [Threads -> Mapping'] /\ victim \in [Threads -> Mapping']
        /\ objects \subseteq Mapping'
    BY <2>1, <1>2
  <2> QED
    BY <2>2 DEF hvars, hlocals, hshared
<1>4. hdisk' \in [Numbers -> 0 .. inodes']
  <2>1. hdisk \in [Numbers -> 0 .. inodes]
    BY DEF HugeTypeOK
  <2>2. hdisk \in [Numbers -> 0 .. inodes']
    BY <2>1, <1>1
  <2> QED
    BY <2>2
<1> QED
  BY <1>3, <1>4 DEF HugeTypeOK

\* All steps of the pools.
PoolStep == (Lspmemdir \/ PoolStart \/ \E a \in Arenas : Proceed(a)) /\ UNCHANGED hvars

LEMMA PoolStepOK ==
  ASSUME PoolSide, HugeTypeOK, PoolStep
  PROVE  PoolSide' /\ HugeTypeOK' /\ inodes' \in Nat /\ inodes <= inodes'
<1>0. UNCHANGED hvars /\ made \in Nat /\ inodes \in Nat
  BY PoolTypes, FileConstants DEF PoolStep, HugeTypeOK, PoolSide
<1>1. PoolSide' /\ inodes <= inodes'
  <2>1. CASE Lspmemdir
    <3>1. inodes' = inodes
      BY <2>1 DEF Lspmemdir, device
    <3> QED
      BY <2>1, <3>1, <1>0, LspmemdirOK
  <2>2. CASE PoolStart
    <3>1. PICK a \in Arenas : LoadNumber(a) /\ Room
      BY <2>2 DEF PoolStart
    <3>2. inodes' = inodes
      BY <3>1 DEF LoadNumber, device
    <3> QED
      BY <3>1, <3>2, <1>0, LoadNumberOK
  <2>3. ASSUME NEW a \in Arenas, Proceed(a)
        PROVE  PoolSide' /\ inodes <= inodes'
    <3>1. CASE StoreNumber(a)
      <4>1. inodes' = inodes
        BY <3>1 DEF StoreNumber, device
      <4> QED
        BY <3>1, <4>1, <1>0, StoreNumberOK
    <3>2. CASE Name(a) \/ LoadConsmp(a) \/ StoreConsmp(a)
      <4>1. inodes' = inodes
        BY <3>2 DEF Name, LoadConsmp, StoreConsmp, device
      <4> QED
        BY <3>2, <4>1, <1>0, NoFileChangesOK
    <3>3. CASE Map(a) \/ MapMisaligned(a) \/ Remap(a)
      BY <3>3, <1>0, MapFileOK
    <3>4. CASE Remove(a)
      <4>1. inodes' = inodes
        BY <3>4 DEF Remove
      <4> QED
        BY <3>4, <4>1, <1>0, RemoveOK
    <3>5. CASE Enlist(a)
      <4>1. inodes' = inodes
        BY <3>5 DEF Enlist, device
      <4> QED
        BY <3>5, <4>1, <1>0, EnlistOK
    <3> QED
      BY <2>3, <3>1, <3>2, <3>3, <3>4, <3>5 DEF Proceed
  <2> QED
    BY <2>1, <2>2, <2>3 DEF PoolStep
<1>2. inodes' \in Nat
  BY <1>1 DEF PoolSide, TypeOK
<1> QED
  BY <1>0, <1>1, <1>2, HugeTypesKept

-----------------------------------------------------------------------------
(***************************************************************************)
(* Steps of the pools: names and files, as long as mmap_file is not        *)
(* changed under a call.                                                   *)
(***************************************************************************)

\* Nothing that the files of pools depend on has changed, but the counter,
\* which has moved on while no arena was using it.
LEMMA PoolFilesKept ==
  ASSUME TypeOK, PoolFilesInv, UNCHANGED <<pc, reg, name, ino, pools, disk>>,
         mmap_file' \in Nat,
         \/ mmap_file' = mmap_file
         \/ /\ mmap_file <= mmap_file'
            /\ \A a \in Arenas : pc[a] \notin {"store", "name"}
  PROVE  PoolFilesInv'
<1>1. CASE mmap_file' = mmap_file
  BY <1>1 DEF PoolFilesInv, PoolsInv, ArenaInv, Fresh, Named
<1>2. CASE /\ mmap_file <= mmap_file'
           /\ \A a \in Arenas : pc[a] \notin {"store", "name"}
  <2>1. \A n \in Nat : Fresh(n) => Fresh(n)'
    BY <1>2, PoolTypes DEF Fresh
  <2>2. /\ \A i \in 1 .. Len(pools) : pools[i].name \in Nat
        /\ \A a \in Arenas : name[a] \in Nat
    BY PoolTypes, FileConstants
  <2>3. PoolsInv'
    <3>1. \A i \in 1 .. Len(pools') : Fresh(pools[i].name)'
      BY <2>1, <2>2 DEF PoolFilesInv, PoolsInv, Fresh
    <3> QED
      BY <3>1 DEF PoolFilesInv, PoolsInv
  <2>4. ASSUME NEW a \in Arenas
        PROVE  ArenaInv(a)'
    <3>2. Named(a) => Fresh(name[a])'
      BY <2>1, <2>2 DEF PoolFilesInv, ArenaInv, Fresh
    <3>3. ArenaInv(a) /\ (\A b \in Arenas : Named(b)' <=> Named(b))
      BY DEF PoolFilesInv, Named
    <3> QED
      BY <3>2, <3>3, <1>2 DEF ArenaInv
  <2> QED
    BY <2>3, <2>4 DEF PoolFilesInv
<1> QED
  BY <1>1, <1>2

\* A step of an arena after which the names are what they were.
LEMMA PoolNamesKept ==
  ASSUME TypeOK, PoolFilesInv, NEW a \in Arenas, NEW to \in PoolPlaces,
         pc' = [pc EXCEPT ![a] = to], UNCHANGED <<mmap_file, pools, name>>,
         to # "name", Named(a) => to # "idle", Named(a) <=> Named(a)',
         \A b \in Arenas : b # a => reg'[b] = reg[b] /\ ino'[b] = ino[b],
         to = "store" => reg'[a] = mmap_file,
         \A i \in 1 .. Len(pools) : disk'[pools[i].name] = disk[pools[i].name],
         \A b \in Arenas : b # a /\ Named(b) => disk'[name[b]] = disk[name[b]],
         to \in {"consmp", "add", "enlist"} =>
           ino'[a] = disk'[name[a]] /\ ino'[a] # NoFile
  PROVE  PoolFilesInv'
<1>1. pc'[a] = to /\ \A b \in Arenas : b # a => pc'[b] = pc[b]
  BY ArenaMoves
<1>2. \A n : Fresh(n) => Fresh(n)'
  BY <1>1 DEF Fresh
<1>3. \A b \in Arenas : Named(b)' <=> Named(b)
  BY <1>1 DEF Named
<1>4. PoolsInv'
  BY <1>2 DEF PoolFilesInv, PoolsInv
<1>5. ASSUME NEW b \in Arenas
      PROVE  ArenaInv(b)'
  <2>1. ArenaInv(b)
    BY DEF PoolFilesInv
  <2>2. Named(b)' => /\ Fresh(name[b])'
                     /\ \A x \in Arenas : Named(x)' /\ name'[b] = name'[x] => b = x
                     /\ \A i \in 1 .. Len(pools') : pools'[i].name # name'[b]
    BY <2>1, <1>2, <1>3 DEF ArenaInv
  <2>3. CASE b = a
    BY <2>1, <2>2, <2>3, <1>1, <1>3 DEF ArenaInv
  <2>4. CASE b # a
    BY <2>1, <2>2, <2>4, <1>1, <1>3 DEF ArenaInv
  <2> QED
    BY <2>3, <2>4
<1> QED
  BY <1>4, <1>5 DEF PoolFilesInv

\* The counter moves on to a number that no pool has.
LEMMA StoreNumberFiles ==
  ASSUME TypeOK, PoolFilesInv, NEW a \in Arenas, StoreNumber(a),
         mmap_file' # mmap_file => ~NamingStill
  PROVE  PoolFilesInv' /\ mmap_file' = mmap_file + 1
<1>1. /\ pc[a] = "store" /\ pc' = [pc EXCEPT ![a] = "name"]
      /\ mmap_file' = reg[a] + 1
      /\ UNCHANGED <<disk, reg, name, ino, pools>>
  BY DEF StoreNumber, Go, device
<1>t. mmap_file \in Nat
  BY PoolTypes
<1>2. mmap_file' = mmap_file + 1 /\ mmap_file' # mmap_file
  BY <1>1, <1>t DEF PoolFilesInv, ArenaInv
<1>3. /\ pc'[a] = "name"
      /\ \A b \in Arenas : b # a => pc'[b] = pc[b] /\ pc[b] \notin {"store", "name"}
  BY <1>1, <1>2, ArenaMoves DEF NamingStill
<1>4. \A n \in Nat : Fresh(n) => Fresh(n)'
  BY <1>2, <1>t DEF Fresh
<1>5. /\ \A i \in 1 .. Len(pools) : pools[i].name \in Nat
      /\ \A b \in Arenas : name[b] \in Nat
  BY PoolTypes, FileConstants
<1>6. \A b \in Arenas : Named(b)' <=> Named(b)
  BY <1>1, <1>3 DEF Named
<1>7. PoolsInv'
  <2>1. \A i \in 1 .. Len(pools') : Fresh(pools[i].name)'
    BY <1>1, <1>4, <1>5 DEF PoolFilesInv, PoolsInv
  <2> QED
    BY <2>1, <1>1 DEF PoolFilesInv, PoolsInv
<1>8. ASSUME NEW b \in Arenas
      PROVE  ArenaInv(b)'
  <2>1. ArenaInv(b)
    BY DEF PoolFilesInv
  <2>2. Named(b) => Fresh(name[b])'
    BY <2>1, <1>1, <1>4, <1>5 DEF ArenaInv
  <2>3. /\ pc'[b] # "store" /\ pc'[b] = "name" => b = a
        /\ pc'[b] = "name" \/ pc'[b] = pc[b]
    BY <1>3
  <2> QED
    BY <2>1, <2>2, <2>3, <1>1, <1>3, <1>6 DEF ArenaInv
<1> QED
  BY <1>2, <1>7, <1>8 DEF PoolFilesInv

\* The name that is made is the counter's value, which no other creation and
\* no pool has.
LEMMA NameFiles ==
  ASSUME TypeOK, PoolFilesInv, NEW a \in Arenas, Name(a)
  PROVE  PoolFilesInv'
<1>1. /\ pc[a] = "name" /\ pc' = [pc EXCEPT ![a] = "map"]
      /\ name' = [name EXCEPT ![a] = mmap_file]
      /\ UNCHANGED <<mmap_file, disk, reg, ino, pools>>
  BY DEF Name, Go, globals, device
<1>t. mmap_file \in Nat /\ name \in [Arenas -> Numbers]
  BY PoolTypes DEF TypeOK
<1>2. /\ pc'[a] = "map" /\ \A b \in Arenas : b # a => pc'[b] = pc[b] /\ pc'[b] # "name"
  <2>1. \A b \in Arenas : pc[b] = "name" => a = b
    BY <1>1 DEF PoolFilesInv, ArenaInv
  <2> QED
    BY <2>1, <1>1, ArenaMoves
<1>3. \A n : Fresh(n) => Fresh(n)' /\ n # mmap_file
  BY <1>1, <1>2 DEF Fresh
<1>4. Fresh(mmap_file)'
  BY <1>1, <1>2, <1>t DEF Fresh
<1>5. name'[a] = mmap_file /\ \A b \in Arenas : b # a => name'[b] = name[b]
  BY <1>1, <1>t
<1>6. ~Named(a) /\ \A b \in Arenas : b # a => (Named(b)' <=> Named(b))
  BY <1>1, <1>2 DEF Named
<1>7. PoolsInv'
  BY <1>1, <1>3 DEF PoolFilesInv, PoolsInv
<1>8. ArenaInv(a)'
  <2>1. Fresh(name[a])'
    BY <1>1, <1>4, <1>5 DEF Fresh
  <2>2. \A b \in Arenas : Named(b)' /\ name'[a] = name'[b] => a = b
    BY <1>3, <1>5, <1>6 DEF PoolFilesInv, ArenaInv
  <2>3. \A i \in 1 .. Len(pools') : pools'[i].name # name'[a]
    BY <1>1, <1>3, <1>5 DEF PoolFilesInv, PoolsInv
  <2> QED
    BY <2>1, <2>2, <2>3, <1>2 DEF ArenaInv
<1>9. ASSUME NEW b \in Arenas, b # a
      PROVE  ArenaInv(b)'
  <2>1. ArenaInv(b) /\ pc'[b] = pc[b] /\ name'[b] = name[b] /\ pc'[b] # "name"
    BY <1>2, <1>5, <1>9 DEF PoolFilesInv
  <2>2. Named(b) => Fresh(name[b])'
    <3>1. Named(b) => Fresh(name[b])
      BY <2>1 DEF ArenaInv
    <3> QED
      BY <3>1, <2>1, <1>3 DEF Fresh
  <2>3. Named(b) => name[b] # mmap_file
    BY <2>1, <1>3 DEF ArenaInv
  <2>4. \A x \in Arenas : Named(b)' /\ Named(x)' /\ name'[b] = name'[x] => b = x
    BY <2>1, <2>3, <1>5, <1>6, <1>9 DEF ArenaInv
  <2> QED
    BY <2>1, <2>2, <2>4, <1>1, <1>6, <1>9 DEF ArenaInv
<1> QED
  BY <1>7, <1>8, <1>9 DEF PoolFilesInv

\* An arena's file is created, or taken from an earlier process: it is no
\* other arena's and no pool's.
LEMMA MapFileFiles ==
  ASSUME PoolSide, PoolFilesInv, NEW a \in Arenas,
         Map(a) \/ MapMisaligned(a) \/ Remap(a)
  PROVE  PoolFilesInv' /\ mmap_file' = mmap_file
<1>t. /\ TypeOK /\ inodes \in Nat /\ name[a] \in Numbers
      /\ disk \in [Numbers -> 0 .. inodes] /\ ino \in [Arenas -> 0 .. inodes]
      /\ OneNameEach(disk)
      /\ \A i \in 1 .. Len(pools) : pools[i].name \in Numbers
      /\ \A b \in Arenas : name[b] \in Numbers
  BY PoolTypes DEF PoolSide, TypeOK
<1>0. PICK to \in {"consmp", "remove"} :
        /\ pc' = [pc EXCEPT ![a] = to] /\ pc[a] \in {"map", "remap"}
        /\ MapFile(a)
  BY DEF Map, MapMisaligned, Remap, Go
<1>1. /\ \/ disk[name[a]] # NoFile /\ disk' = disk /\ inodes' = inodes
         \/ /\ disk[name[a]] = NoFile
            /\ disk' = [disk EXCEPT ![name[a]] = inodes + 1]
            /\ inodes' = inodes + 1
      /\ ino' = [ino EXCEPT ![a] = disk'[name[a]]]
      /\ UNCHANGED <<mmap_file, reg, name, pools>>
  BY <1>0 DEF MapFile, globals, device
<1>2. disk'[name[a]] # NoFile /\ \A l \in Numbers : l # name[a] => disk'[l] = disk[l]
  BY <1>1, <1>t, FileMade
<1>3. /\ \A i \in 1 .. Len(pools) : pools[i].name # name[a]
      /\ \A b \in Arenas : Named(b) /\ b # a => name[b] # name[a]
  BY <1>0, <1>t DEF PoolFilesInv, ArenaInv, Named
<1>4. /\ \A i \in 1 .. Len(pools) : disk'[pools[i].name] = disk[pools[i].name]
      /\ \A b \in Arenas : b # a /\ Named(b) => disk'[name[b]] = disk[name[b]]
      /\ ino'[a] = disk'[name[a]] /\ ino'[a] # NoFile
      /\ \A b \in Arenas : b # a => ino'[b] = ino[b]
  <2>1. ino'[a] = disk'[name[a]] /\ \A b \in Arenas : b # a => ino'[b] = ino[b]
    BY <1>1, <1>t
  <2>2. \A i \in 1 .. Len(pools) : disk'[pools[i].name] = disk[pools[i].name]
    BY <1>2, <1>3, <1>t
  <2>3. \A b \in Arenas : b # a /\ Named(b) => disk'[name[b]] = disk[name[b]]
    BY <1>2, <1>3, <1>t
  <2> QED
    BY <2>1, <2>2, <2>3, <1>2
<1>5. /\ to \in PoolPlaces /\ to # "name" /\ to # "idle" /\ to # "store"
      /\ (Named(a) <=> Named(a)')
  <2>1. pc'[a] = to
    BY <1>0, <1>t, ArenaMoves
  <2> QED
    BY <1>0, <2>1 DEF PoolPlaces, Named
<1> QED
  BY <1>0, <1>1, <1>4, <1>5, <1>t, PoolNamesKept

\* The file that is removed is the arena's own, which no pool has.
LEMMA RemoveFiles ==
  ASSUME PoolSide, PoolFilesInv, NEW a \in Arenas, Remove(a)
  PROVE  PoolFilesInv'
<1>t. /\ TypeOK /\ disk \in [Numbers -> 0 .. inodes] /\ ino \in [Arenas -> 0 .. inodes]
      /\ \A i \in 1 .. Len(pools) : pools[i].name \in Numbers
      /\ \A b \in Arenas : name[b] \in Numbers
  BY PoolTypes DEF PoolSide, TypeOK
<1>1. /\ pc[a] = "remove" /\ pc' = [pc EXCEPT ![a] = "remap"]
      /\ disk' = [disk EXCEPT ![name[a]] = NoFile]
      /\ ino' = [ino EXCEPT ![a] = NoFile]
      /\ UNCHANGED <<mmap_file, reg, name, pools>>
  BY DEF Remove, Go, globals
<1>2. /\ \A i \in 1 .. Len(pools) : pools[i].name # name[a]
      /\ \A b \in Arenas : Named(b) /\ b # a => name[b] # name[a]
  BY <1>1, <1>t DEF PoolFilesInv, ArenaInv, Named
<1>3. /\ \A i \in 1 .. Len(pools) : disk'[pools[i].name] = disk[pools[i].name]
      /\ \A b \in Arenas : b # a /\ Named(b) => disk'[name[b]] = disk[name[b]]
      /\ \A b \in Arenas : b # a => ino'[b] = ino[b]
  BY <1>1, <1>2, <1>t
<1>4. Named(a) <=> Named(a)'
  <2>1. pc'[a] = "remap"
    BY <1>1, <1>t, ArenaMoves
  <2> QED
    BY <1>1, <2>1 DEF Named
<1>5. "remap" \in PoolPlaces
  BY DEF PoolPlaces
<1> QED
  BY <1>1, <1>3, <1>4, <1>5, <1>t, PoolNamesKept

\* LoadNumber, LoadConsmp and StoreConsmp touch no file.
LEMMA RegisterFiles ==
  ASSUME TypeOK, PoolFilesInv, NEW a \in Arenas,
         LoadNumber(a) \/ LoadConsmp(a) \/ StoreConsmp(a)
  PROVE  PoolFilesInv' /\ mmap_file' = mmap_file
<1>1. UNCHANGED <<mmap_file, disk, name, ino, pools>>
  BY DEF LoadNumber, LoadConsmp, StoreConsmp, globals, device
<1>2. PICK to \in {"store", "add", "enlist"} :
        /\ pc' = [pc EXCEPT ![a] = to]
        /\ to = "store" => pc[a] = "idle" /\ reg' = [reg EXCEPT ![a] = mmap_file]
        /\ to # "store" => /\ pc[a] \in {"consmp", "add"}
                           /\ reg' = reg \/ reg' = [reg EXCEPT ![a] = pmem_consmp]
  BY DEF LoadNumber, LoadConsmp, StoreConsmp, Go, globals
<1>3. reg \in [Arenas -> Nat]
  BY DEF TypeOK
<1>4. /\ to = "store" => reg'[a] = mmap_file'
      /\ \A b \in Arenas : b # a => reg'[b] = reg[b] /\ ino'[b] = ino[b]
  BY <1>1, <1>2, <1>3
<1>5. to \in {"consmp", "add", "enlist"} => ino'[a] = disk'[name[a]] /\ ino'[a] # NoFile
  <2>1. ArenaInv(a)
    BY DEF PoolFilesInv
  <2> QED
    BY <2>1, <1>1, <1>2 DEF ArenaInv, Named
<1>6. Named(a) <=> Named(a)'
  <2>1. pc'[a] = to
    BY <1>2, ArenaMoves
  <2> QED
    BY <1>2, <2>1 DEF Named
<1>7. to \in PoolPlaces /\ to # "name" /\ to # "idle"
  BY DEF PoolPlaces
<1> QED
  BY <1>1, <1>2, <1>4, <1>5, <1>6, <1>7, PoolNamesKept

\* The pool that is enlisted has the arena's name and its file.
LEMMA EnlistFiles ==
  ASSUME TypeOK, PoolFilesInv, NEW a \in Arenas, Enlist(a)
  PROVE  PoolFilesInv'
<1>0. PICK n, new : n = Len(pools)
                /\ new = [file_no |-> mmap_file, name |-> name[a], ino |-> ino[a]]
  OBVIOUS
<1>1. /\ pc[a] = "enlist" /\ pc' = [pc EXCEPT ![a] = "idle"]
      /\ pools' = Append(pools, new)
      /\ reg' = [reg EXCEPT ![a] = 0] /\ name' = [name EXCEPT ![a] = 0]
      /\ ino' = [ino EXCEPT ![a] = NoFile]
      /\ UNCHANGED <<mmap_file, disk>>
  BY <1>0 DEF Enlist, Go, globals, device
<1>t. /\ n \in Nat /\ pools \in Seq(PoolRec) /\ reg \in [Arenas -> Nat]
      /\ name \in [Arenas -> Numbers] /\ ino \in [Arenas -> 0 .. inodes]
      /\ mmap_file \in Numbers
  BY <1>0, PoolTypes DEF TypeOK
<1>2. new \in PoolRec
  BY <1>0, <1>t, PoolTypes, FileConstants DEF PoolRec
<1>3. /\ Len(pools') = n + 1 /\ pools'[n + 1] = new
      /\ \A i \in 1 .. n : pools'[i] = pools[i]
      /\ \A i \in 1 .. n + 1 : i \in 1 .. n \/ i = n + 1
  BY <1>0, <1>1, <1>2, <1>t, AppendProperties
<1>4. /\ pc'[a] = "idle" /\ \A b \in Arenas : b # a => pc'[b] = pc[b]
      /\ \A b \in Arenas : b # a => /\ reg'[b] = reg[b] /\ name'[b] = name[b]
                                    /\ ino'[b] = ino[b]
  BY <1>1, <1>t, ArenaMoves
<1>5. /\ Named(a) /\ \A b \in Arenas : Named(b)' <=> b # a /\ Named(b)
  BY <1>1, <1>4 DEF Named
<1>6. /\ \A x : Fresh(x) => Fresh(x)'
  BY <1>1, <1>4 DEF Fresh
<1>7. /\ Fresh(name[a]) /\ ino[a] = disk[name[a]] /\ ino[a] # NoFile
      /\ \A b \in Arenas : b # a /\ Named(b) => name[b] # name[a]
      /\ \A i \in 1 .. n : pools[i].name # name[a]
  BY <1>0, <1>1, <1>5 DEF PoolFilesInv, ArenaInv
<1>8. PoolsInv'
  <2>1. PICK v : v = name[a] /\ v = new.name /\ new.ino = ino[a]
    BY <1>0
  <2>2. ASSUME NEW i \in 1 .. n + 1
        PROVE  /\ pools'[i].ino # NoFile /\ disk[pools'[i].name] = pools'[i].ino
               /\ \A j \in 1 .. n + 1 : pools'[i].name = pools'[j].name => i = j
               /\ pools'[i].name <= mmap_file'
               /\ \A b \in Arenas : pc'[b] = "name" => pools'[i].name # mmap_file'
    <3>1. CASE i \in 1 .. n
      <4>1. /\ pools[i].ino # NoFile /\ disk[pools[i].name] = pools[i].ino
            /\ \A j \in 1 .. n : pools[i].name = pools[j].name => i = j
            /\ Fresh(pools[i].name) /\ pools[i].name # v
        BY <3>1, <2>1, <1>0, <1>7 DEF PoolFilesInv, PoolsInv
      <4> QED
        BY <4>1, <3>1, <2>1, <1>3, <1>6, <1>t DEF Fresh
    <3>2. CASE i = n + 1
      BY <3>2, <2>1, <1>3, <1>6, <1>7 DEF Fresh
    <3> QED
      BY <3>1, <3>2, <1>3
  <2> QED
    BY <2>2, <1>1, <1>3 DEF PoolsInv, Fresh
<1>9. ASSUME NEW b \in Arenas
      PROVE  ArenaInv(b)'
  <2>1. CASE b = a
    BY <2>1, <1>4, <1>5 DEF ArenaInv
  <2>2. CASE b # a
    <3>1. ArenaInv(b)
      BY DEF PoolFilesInv
    <3>2. /\ pc'[b] = "store" => reg'[b] = mmap_file'
          /\ pc'[b] = "name" => \A x \in Arenas : pc'[x] = "name" => b = x
      BY <3>1, <2>2, <1>1, <1>4 DEF ArenaInv
    <3>3. ASSUME Named(b)'
          PROVE  /\ Fresh(name[b])'
                 /\ \A x \in Arenas : Named(x)' /\ name'[b] = name'[x] => b = x
                 /\ \A i \in 1 .. n + 1 : pools'[i].name # name'[b]
                 /\ pc'[b] \in {"consmp", "add", "enlist"} =>
                      ino'[b] = disk'[name'[b]] /\ ino'[b] # NoFile
      <4>1. Named(b)
        BY <3>3, <1>5
      <4>2. Fresh(name[b])'
        BY <4>1, <3>1, <2>2, <1>4, <1>6 DEF ArenaInv, Fresh
      <4>3. \A x \in Arenas : Named(x)' /\ name'[b] = name'[x] => b = x
        BY <4>1, <3>1, <2>2, <1>4, <1>5 DEF ArenaInv
      <4>4. \A i \in 1 .. n : pools[i].name # name[b]
        BY <4>1, <3>1, <1>0 DEF ArenaInv
      <4>5. \A i \in 1 .. n + 1 : pools'[i].name # name'[b]
        BY <4>1, <4>4, <2>2, <1>0, <1>3, <1>4, <1>7
      <4> QED
        BY <4>1, <4>2, <4>3, <4>5, <3>1, <2>2, <1>1, <1>4 DEF ArenaInv
    <3> QED
      BY <3>2, <3>3, <1>3 DEF ArenaInv
  <2> QED
    BY <2>1, <2>2
<1> QED
  BY <1>8, <1>9 DEF PoolFilesInv

\* All of them.
LEMMA PoolStepFiles ==
  ASSUME PoolSide, PoolFilesInv, PoolStep, mmap_file' # mmap_file => ~NamingStill
  PROVE  PoolFilesInv' /\ mmap_file' \in {mmap_file, mmap_file + 1}
<1>0. TypeOK
  BY DEF PoolSide
<1>1. CASE Lspmemdir
  <2>1. UNCHANGED <<mmap_file, disk, pc, reg, name, ino, pools>>
    BY <1>1 DEF Lspmemdir, globals, device
  <2>2. mmap_file' \in Nat
    BY <2>1, <1>0, PoolTypes
  <2> QED
    BY <2>1, <2>2, <1>0, PoolFilesKept
<1>2. CASE PoolStart
  BY <1>2, <1>0, RegisterFiles DEF PoolStart
<1>3. ASSUME NEW a \in Arenas, Proceed(a)
      PROVE  PoolFilesInv' /\ mmap_file' \in {mmap_file, mmap_file + 1}
  <2>1. CASE StoreNumber(a)
    BY <2>1, <1>0, StoreNumberFiles
  <2>2. CASE Name(a)
    BY <2>2, <1>0, NameFiles DEF Name, globals
  <2>3. CASE LoadConsmp(a) \/ StoreConsmp(a)
    BY <2>3, <1>0, RegisterFiles
  <2>4. CASE Map(a) \/ MapMisaligned(a) \/ Remap(a)
    BY <2>4, MapFileFiles
  <2>5. CASE Remove(a)
    BY <2>5, RemoveFiles DEF Remove, globals
  <2>6. CASE Enlist(a)
    BY <2>6, <1>0, EnlistFiles DEF Enlist, globals
  <2> QED
    BY <1>3, <2>1, <2>2, <2>3, <2>4, <2>5, <2>6 DEF Proceed
<1> QED
  BY <1>1, <1>2, <1>3 DEF PoolStep

\* And the files of the objects, when the counter does not move on under a
\* thread that has read it.
LEMMA ObjectFilesWhilePools ==
  ASSUME HugeTypeOK, ObjectFilesInv, UNCHANGED hvars, mmap_file \in Nat,
         mmap_file' \in {mmap_file, mmap_file + 1},
         mmap_file' # mmap_file => ~NamingStill
  PROVE  ObjectFilesInv'
<1> USE DEF hvars, hlocals, hshared
<1>1. CASE mmap_file' = mmap_file
  BY <1>1 DEF ObjectFilesInv, ObjectFileInv, NewFileInv, Creating
<1>2. CASE mmap_file' = mmap_file + 1
  <2>1. mmap_file' # mmap_file
    BY <1>2
  <2>2. \A t \in Threads : hpc[t] # "count"
    BY <2>1 DEF NamingStill
  <2>3. \A k \in Numbers : k < mmap_file => k < mmap_file'
    BY <1>2, FileConstants
  <2>4. Creating' = Creating /\ Creating \subseteq Threads
    BY DEF Creating
  <2>5. ASSUME NEW o \in objects
        PROVE  ObjectFileInv(o)'
    <3>1. ObjectFileInv(o)
      BY DEF ObjectFilesInv
    <3> QED
      BY <3>1, <2>3, <2>4 DEF ObjectFileInv
  <2>6. ASSUME NEW t \in Creating
        PROVE  NewFileInv(t)'
    <3>1. NewFileInv(t) /\ hpc[t] # "count" /\ hstr[t] \in Numbers
      BY <2>2, <2>4 DEF ObjectFilesInv, HugeTypeOK
    <3> QED
      BY <3>1, <2>3, <2>4 DEF NewFileInv
  <2> QED
    BY <2>4, <2>5, <2>6 DEF ObjectFilesInv
<1> QED
  BY <1>1, <1>2

\* The mappings and the tree are the threads' alone.
LEMMA HugeInvKept ==
  ASSUME HugeInv, UNCHANGED hvars
  PROVE  HugeInv'
<1> USE DEF hvars, hlocals, hshared
<1>1. SizesInv'
  BY DEF HugeInv, SizesInv, CallSizesInv, Creating, Unmapping
<1>2. Making' = Making /\ Unmapping' = Unmapping
  BY DEF Making, Unmapping
<1>3. HeldInv'
  <2>1. Held' = Held
    BY <1>2 DEF Held
  <2> QED
    BY <2>1 DEF HugeInv, HeldInv
<1>4. ApartInv'
  BY <1>2 DEF HugeInv, ApartInv
<1>5. TreeInv'
  BY DEF HugeInv, TreeInv, Aborted, Freeing, Unmapping
<1> QED
  BY <1>1, <1>3, <1>4, <1>5 DEF HugeInv

(***************************************************************************)
(* Steps of huge_malloc and huge_dalloc: what they have in common.         *)
(***************************************************************************)

MakingPlaces == {"unmap", "trim", "consmp", "node", "insert"}
CreatingPlaces == MakingPlaces \cup {"count", "map", "remove", "remap"}
UnmappingPlaces == {"path", "unmapobject"}
FreeingPlaces == UnmappingPlaces \cup {"sub", "removefile"}

\* What the types say of each thread's locals and of each object.
LEMMA HugeTypes ==
  ASSUME HugeTypeOK
  PROVE  /\ \A t \in Threads :
              /\ hstr[t] \in Numbers /\ hstr[t] \in Nat
              /\ hsize[t] \in Sizes \cup {0} /\ hsize[t] \in Nat
              /\ hmap[t] \in Mapping /\ victim[t] \in Mapping
              /\ slot[t].file_no \in Numbers /\ slot[t].paddr \in 0 .. Top
              /\ slot[t].size \in Sizes \cup {0} /\ slot[t].size \in Nat
              /\ found[t] \in Threads
         /\ \A m \in Mapping : /\ m.addr \in 0 .. Top /\ m.addr \in Nat
                               /\ m.len \in Nat /\ m.ino \in 0 .. inodes
         /\ \A o \in objects : o \in Mapping
         /\ \A k \in Numbers : hdisk[k] \in 0 .. inodes
<1>1. \A m \in Mapping : /\ m.addr \in 0 .. Top /\ m.addr \in Nat
                         /\ m.len \in Nat /\ m.ino \in 0 .. inodes
  BY FileConstants DEF Mapping
<1>2. \A t \in Threads : /\ hstr[t] \in Numbers
                         /\ hsize[t] \in Sizes \cup {0}
                         /\ hmap[t] \in Mapping /\ victim[t] \in Mapping
                         /\ found[t] \in Threads
  BY DEF HugeTypeOK
<1>3. \A t \in Threads : /\ slot[t].file_no \in Numbers /\ slot[t].paddr \in 0 .. Top
                         /\ slot[t].size \in Sizes \cup {0}
  BY DEF HugeTypeOK
<1>4. Numbers \subseteq Nat /\ Sizes \cup {0} \subseteq Nat
  BY FileConstants
<1>5. (\A o \in objects : o \in Mapping) /\ \A k \in Numbers : hdisk[k] \in 0 .. inodes
  BY DEF HugeTypeOK
<1> QED
  BY <1>1, <1>2, <1>3, <1>4, <1>5

\* Where the other threads are when one moves.
LEMMA ThreadMoves ==
  ASSUME HugeTypeOK, NEW t \in Threads, NEW to, hpc' = [hpc EXCEPT ![t] = to]
  PROVE  /\ hpc'[t] = to /\ \A u \in Threads : u # t => hpc'[u] = hpc[u]
         /\ Creating' = IF to \in CreatingPlaces THEN Creating \cup {t}
                                                 ELSE Creating \ {t}
         /\ Freeing' = IF to \in FreeingPlaces THEN Freeing \cup {t}
                                               ELSE Freeing \ {t}
         /\ Making' = IF to \in MakingPlaces THEN Making \cup {t} ELSE Making \ {t}
         /\ Unmapping' = IF to \in UnmappingPlaces THEN Unmapping \cup {t}
                                                   ELSE Unmapping \ {t}
         /\ Counting' = IF to = "count" THEN Counting \cup {t} ELSE Counting \ {t}
<1> USE DEF MakingPlaces, CreatingPlaces, UnmappingPlaces, FreeingPlaces
<1>1. hpc'[t] = to /\ \A u \in Threads : u # t => hpc'[u] = hpc[u]
  BY DEF HugeTypeOK
<1>3. Creating' = IF to \in CreatingPlaces THEN Creating \cup {t} ELSE Creating \ {t}
  BY <1>1 DEF Creating
<1>4. Freeing' = IF to \in FreeingPlaces THEN Freeing \cup {t} ELSE Freeing \ {t}
  BY <1>1 DEF Freeing
<1>5. Making' = IF to \in MakingPlaces THEN Making \cup {t} ELSE Making \ {t}
  BY <1>1 DEF Making
<1>6. Unmapping' = IF to \in UnmappingPlaces THEN Unmapping \cup {t} ELSE Unmapping \ {t}
  BY <1>1 DEF Unmapping
<1>7. Counting' = IF to = "count" THEN Counting \cup {t} ELSE Counting \ {t}
  BY <1>1 DEF Counting
<1> QED
  BY <1>1, <1>3, <1>4, <1>5, <1>6, <1>7

LEMMA ThreadReturns ==
  ASSUME HugeTypeOK, NEW t \in Threads, hpc' = [hpc EXCEPT ![t] = "idle"]
  PROVE  /\ hpc'[t] = "idle" /\ \A u \in Threads : u # t => hpc'[u] = hpc[u]
         /\ Creating' = Creating \ {t} /\ Freeing' = Freeing \ {t}
         /\ Making' = Making \ {t} /\ Unmapping' = Unmapping \ {t}
         /\ Counting' = Counting \ {t}
<1>1. /\ "idle" \notin CreatingPlaces /\ "idle" \notin MakingPlaces
      /\ "idle" \notin FreeingPlaces /\ "idle" \notin UnmappingPlaces
      /\ "idle" # "count"
  BY DEF CreatingPlaces, MakingPlaces, FreeingPlaces, UnmappingPlaces
<1> DEFINE to == "idle"
<1>2. hpc' = [hpc EXCEPT ![t] = to]
  OBVIOUS
<1> HIDE DEF to
<1>3. /\ hpc'[t] = to /\ \A u \in Threads : u # t => hpc'[u] = hpc[u]
      /\ Creating' = IF to \in CreatingPlaces THEN Creating \cup {t}
                                              ELSE Creating \ {t}
      /\ Freeing' = IF to \in FreeingPlaces THEN Freeing \cup {t}
                                            ELSE Freeing \ {t}
      /\ Making' = IF to \in MakingPlaces THEN Making \cup {t} ELSE Making \ {t}
      /\ Unmapping' = IF to \in UnmappingPlaces THEN Unmapping \cup {t}
                                                ELSE Unmapping \ {t}
      /\ Counting' = IF to = "count" THEN Counting \cup {t} ELSE Counting \ {t}
  BY <1>2, ThreadMoves
<1> QED
  BY <1>1, <1>3 DEF to

\* A place huge_malloc or huge_dalloc can be at.
LEMMA PlacesTyped ==
  ASSUME HugeTypeOK, NEW t \in Threads,
         NEW to \in CreatingPlaces \cup FreeingPlaces \cup {"idle", "aborted"},
         hpc' = [hpc EXCEPT ![t] = to]
  PROVE  hpc' \in [Threads -> {"idle", "count", "map", "unmap", "remove", "remap",
                               "trim", "consmp", "node", "insert", "path",
                               "unmapobject", "sub", "removefile", "aborted"}]
BY DEF HugeTypeOK, CreatingPlaces, FreeingPlaces, MakingPlaces, UnmappingPlaces

\* The sum stays in its range.
LEMMA ConsmpTyped ==
  ASSUME pmem_consmp \in 0 .. ConsmpMod - 1, NEW x \in Nat
  PROVE  /\ AtomicAdd(pmem_consmp, x) \in 0 .. ConsmpMod - 1
         /\ AtomicSub(pmem_consmp, x) \in 0 .. ConsmpMod - 1
<1>1. ConsmpMod \in Nat \ {0} /\ pmem_consmp + x \in Int /\ pmem_consmp - x \in Int
  BY FileConstants
<1>2. \A y \in Int : y % ConsmpMod \in 0 .. ConsmpMod - 1
  BY <1>1
<1> QED
  BY <1>1, <1>2 DEF AtomicAdd, AtomicSub


\* What every step of a thread keeps.
HugeSide == PoolSide /\ HugeTypeOK /\ OneNameEach(hdisk)

\* The pools do not notice that the counters grow.
LEMMA PoolTypesKept ==
  ASSUME TypeOK, UNCHANGED poolVars, mmap_file' \in Numbers,
         pmem_consmp' \in 0 .. ConsmpMod - 1, inodes' \in Nat, inodes <= inodes'
  PROVE  TypeOK'
<1> USE DEF poolVars
<1>1. 0 .. inodes \subseteq 0 .. inodes'
  BY PoolTypes
<1>2. disk \in [Numbers -> 0 .. inodes] /\ ino \in [Arenas -> 0 .. inodes]
  BY DEF TypeOK
<1>3. disk \in [Numbers -> 0 .. inodes'] /\ ino \in [Arenas -> 0 .. inodes']
  BY <1>1, <1>2
<1> QED
  BY <1>3 DEF TypeOK

\* A step of a thread that counts no file.
LEMMA NothingCounted ==
  ASSUME PoolSide, HugeTypeOK, UNCHANGED poolVars,
         UNCHANGED <<mmap_file, made>>, inodes' \in Nat, inodes <= inodes',
         pmem_consmp' \in 0 .. ConsmpMod - 1,
         NEW t \in Threads, NEW to, hpc[t] # "count", to # "count",
         hpc' = [hpc EXCEPT ![t] = to]
  PROVE  PoolSide'
<1>1. TypeOK'
  <2>1. mmap_file' \in Numbers
    BY DEF PoolSide, TypeOK
  <2> QED
    BY <2>1, PoolTypesKept DEF PoolSide
<1>2. Counting' = Counting
  <2>1. Counting' = Counting \ {t}
    BY ThreadMoves
  <2> QED
    BY <2>1 DEF Counting
<1>3. CountInv'
  <2>1. Begun' = Begun /\ Pending' = Pending /\ Starting' = Starting
    BY <1>2 DEF Begun, Pending, Starting, Busy, poolVars
  <2> QED
    BY <2>1 DEF CountInv, PoolSide, poolVars
<1>4. OneNameEach(disk)'
  BY DEF PoolSide, OneNameEach, poolVars
<1> QED
  BY <1>1, <1>3, <1>4 DEF PoolSide

\* A call leaves the frame as it is, or a node in use is overwritten.
ReuseFrameTyped(t) ==
  /\ slot' \in [Threads -> [file_no : Numbers, paddr : 0 .. Top,
                            size : Sizes \cup {0}]]
  /\ torn' \in BOOLEAN /\ (~torn' => ~torn /\ slot' = slot)

LEMMA FrameTyped ==
  ASSUME HugeTypeOK, NEW t \in Threads, ReuseFrame(t)
  PROVE  ReuseFrameTyped(t)
<1>1. /\ slot \in [Threads -> [file_no : Numbers, paddr : 0 .. Top,
                               size : Sizes \cup {0}]]
      /\ torn \in BOOLEAN
  BY DEF HugeTypeOK
<1>2. NoNode \in [file_no : Numbers, paddr : 0 .. Top, size : Sizes \cup {0}]
  BY FileConstants DEF NoNode
<1>3. CASE UNCHANGED <<slot, torn>>
  BY <1>1, <1>3 DEF ReuseFrameTyped
<1>4. CASE slot' = [slot EXCEPT ![t] = NoNode] /\ torn' = TRUE
  BY <1>1, <1>2, <1>4 DEF ReuseFrameTyped
<1> QED
  BY <1>3, <1>4 DEF ReuseFrame, Overwrite

\* ++mmap_file begins: sprintf has read the counter.
LEMMA HugeMallocTyped ==
  ASSUME HugeSide, NEW t \in Threads, HugeMalloc(t)
  PROVE  HugeSide'
<1> USE DEF HugeSide
<1>1. /\ hpc[t] = "idle" /\ hpc' = [hpc EXCEPT ![t] = "count"]
      /\ Room /\ ReuseFrame(t)
      /\ hstr' = [hstr EXCEPT ![t] = mmap_file] /\ made' = made + 1
      /\ UNCHANGED <<mmap_file, pmem_consmp, inodes>> /\ UNCHANGED poolVars
      /\ UNCHANGED <<hmap, found, victim, tree, objects, mapped, hdisk>>
  BY DEF HugeMalloc, HGo, globals
<1>s. PICK size \in Sizes : hsize' = [hsize EXCEPT ![t] = size]
  BY DEF HugeMalloc
<1>t. /\ mmap_file \in Nat /\ mmap_file \in Numbers /\ made \in Nat
      /\ Len(pools) \in Nat /\ MaxFiles \in Nat /\ inodes \in Nat
      /\ pmem_consmp \in 0 .. ConsmpMod - 1 /\ TypeOK
      /\ \A a \in Arenas : reg[a] \in Nat
  <2>1. TypeOK /\ HugeTypeOK
    BY DEF PoolSide
  <2>2. /\ mmap_file \in Nat /\ Len(pools) \in Nat /\ inodes \in Nat
        /\ \A a \in Arenas : reg[a] \in Nat
    BY <2>1, PoolTypes
  <2>3. mmap_file \in Numbers /\ pmem_consmp \in 0 .. ConsmpMod - 1
    BY <2>1 DEF TypeOK
  <2>4. MaxFiles \in Nat /\ made \in Nat
    BY <2>1, FileConstants DEF HugeTypeOK
  <2> QED
    BY <2>1, <2>2, <2>3, <2>4
<1>2. TypeOK'
  <2>1. inodes <= inodes
    BY <1>t
  <2> QED
    BY <2>1, <1>1, <1>t, PoolTypesKept
<1>3. Counting' = Counting \cup {t} /\ t \notin Counting
  <2>1. Counting' = Counting \cup {t}
    BY <1>1, ThreadMoves
  <2> QED
    BY <2>1, <1>1 DEF Counting
<1>4. CountInv' /\ made' \in 0 .. MaxFiles
  <2>1. PICK b, s, c \in Nat : /\ b = Cardinality(Busy) /\ s = Cardinality(Starting)
                               /\ c = Cardinality(Counting)
    BY CountsTyped
  <2>2. Cardinality(Counting') = c + 1
    BY <1>3, <2>1, CountsTyped, FS_AddElement
  <2>3. Busy' = Busy /\ Starting' = Starting /\ reg' = reg
    BY <1>1 DEF Busy, Starting, poolVars
  <2>4. /\ Begun = Len(pools) + b + made /\ Begun' = Len(pools) + b + (made + 1)
        /\ Pending = s + c /\ Pending' = s + (c + 1)
    BY <2>1, <2>2, <2>3, <1>1 DEF Begun, Pending, poolVars
  <2>5. Len(pools) + b + made < MaxFiles
    BY <2>1, <1>1 DEF Room
  <2>6. Begun' = Begun + 1 /\ Pending' = Pending + 1 /\ Begun + 1 <= MaxFiles
        /\ Begun \in Nat /\ Pending \in Nat /\ made + 1 \in 0 .. MaxFiles
    BY <2>4, <2>5, <1>t
  <2>7. mmap_file + Pending <= Begun /\ \A x \in Starting : reg[x] + Pending <= Begun
    BY DEF PoolSide, CountInv
  <2>8. mmap_file' + Pending' <= Begun' /\ Begun' <= MaxFiles
    BY <2>6, <2>7, <1>1, <1>t
  <2>9. \A x \in Starting' : reg'[x] + Pending' <= Begun'
    <3>1. \A x \in Starting : reg[x] \in Nat
      BY <1>t DEF Starting
    <3> QED
      BY <3>1, <2>3, <2>6, <2>7
  <2> QED
    BY <2>6, <2>8, <2>9, <1>1 DEF CountInv
<1>5. HugeTypeOK'
  <2>1. hpc' \in [Threads -> {"idle", "count", "map", "unmap", "remove", "remap",
                              "trim", "consmp", "node", "insert", "path",
                              "unmapobject", "sub", "removefile", "aborted"}]
    BY <1>1, PlacesTyped DEF CreatingPlaces
  <2>2. hstr' \in [Threads -> Numbers] /\ hsize' \in [Threads -> Sizes \cup {0}]
    BY <1>1, <1>s, <1>t DEF HugeTypeOK
  <2>3. ReuseFrameTyped(t)
    BY <1>1, FrameTyped
  <2> QED
    BY <2>1, <2>2, <2>3, <1>1, <1>4 DEF HugeTypeOK, Mapping, ReuseFrameTyped
<1>6. OneNameEach(disk)' /\ OneNameEach(hdisk)'
  BY <1>1 DEF PoolSide, OneNameEach, poolVars
<1> QED
  BY <1>2, <1>4, <1>5, <1>6 DEF PoolSide

LEMMA CountFileTyped ==
  ASSUME HugeSide, NEW t \in Threads, CountFile(t)
  PROVE  HugeSide'
<1> USE DEF HugeSide
<1>1. /\ hpc[t] = "count" /\ hpc' = [hpc EXCEPT ![t] = "map"]
      /\ mmap_file' = mmap_file + 1
      /\ UNCHANGED <<pmem_consmp, inodes, made, torn>> /\ UNCHANGED poolVars
      /\ UNCHANGED <<hstr, hmap, hsize, found, victim, slot, tree, objects, mapped,
                     hdisk>>
  BY DEF CountFile, HGo, hlocals, hshared
<1>t. /\ mmap_file \in Nat /\ made \in Nat
      /\ Len(pools) \in Nat /\ MaxFiles \in Nat /\ inodes \in Nat
      /\ pmem_consmp \in 0 .. ConsmpMod - 1 /\ TypeOK
      /\ \A a \in Arenas : reg[a] \in Nat
  BY PoolTypes, FileConstants DEF PoolSide, TypeOK, HugeTypeOK
<1>2. Counting' = Counting \ {t} /\ t \in Counting
  <2>1. Counting' = Counting \ {t}
    BY <1>1, ThreadMoves
  <2> QED
    BY <2>1, <1>1 DEF Counting
<1>3. CountInv' /\ mmap_file' \in Numbers
  <2>1. PICK b, s, c \in Nat : /\ b = Cardinality(Busy) /\ s = Cardinality(Starting)
                               /\ c = Cardinality(Counting)
    BY CountsTyped
  <2>2. Cardinality(Counting') = c - 1 /\ Cardinality(Counting') \in Nat
    BY <1>2, <2>1, CountsTyped, FS_RemoveElement, FS_CardinalityType
  <2>3. Busy' = Busy /\ Starting' = Starting /\ reg' = reg
    BY <1>1 DEF Busy, Starting, poolVars
  <2>4. /\ Begun = Len(pools) + b + made /\ Begun' = Begun
        /\ Pending = s + c /\ Pending' = s + (c - 1)
    BY <2>1, <2>2, <2>3, <1>1 DEF Begun, Pending, poolVars
  <2>5. c - 1 \in Nat
    BY <2>2
  <2>6. Pending' = Pending - 1 /\ Begun \in Nat /\ Pending \in Nat
        /\ Pending - 1 \in Nat
    BY <2>4, <2>5, <1>t
  <2>7. /\ mmap_file + Pending <= Begun /\ Begun <= MaxFiles
        /\ \A x \in Starting : reg[x] + Pending <= Begun
    BY DEF PoolSide, CountInv
  <2>8. mmap_file' + Pending' <= Begun' /\ Begun' <= MaxFiles
    BY <2>4, <2>6, <2>7, <1>1, <1>t
  <2>9. \A x \in Starting' : reg'[x] + Pending' <= Begun'
    <3>1. \A x \in Starting : reg[x] \in Nat
      BY <1>t DEF Starting
    <3> QED
      BY <3>1, <2>3, <2>4, <2>6, <2>7
  <2>10. mmap_file' \in Numbers
    BY <2>6, <2>7, <1>1, <1>t DEF Numbers
  <2> QED
    BY <2>8, <2>9, <2>10 DEF CountInv
<1>4. TypeOK'
  <2>1. inodes <= inodes
    BY <1>t
  <2> QED
    BY <2>1, <1>1, <1>3, <1>t, PoolTypesKept
<1>5. HugeTypeOK'
  <2>1. hpc' \in [Threads -> {"idle", "count", "map", "unmap", "remove", "remap",
                              "trim", "consmp", "node", "insert", "path",
                              "unmapobject", "sub", "removefile", "aborted"}]
    BY <1>1, PlacesTyped DEF CreatingPlaces
  <2> QED
    BY <2>1, <1>1 DEF HugeTypeOK, Mapping
<1>6. OneNameEach(disk)' /\ OneNameEach(hdisk)'
  BY <1>1 DEF PoolSide, OneNameEach, poolVars
<1> QED
  BY <1>3, <1>4, <1>5, <1>6 DEF PoolSide

\* A step of a thread that counts no file and makes none.
LEMMA CallTyped ==
  ASSUME HugeSide, NEW t \in Threads,
         NEW to \in CreatingPlaces \cup FreeingPlaces \cup {"idle", "aborted"},
         hpc[t] # "count", to # "count", hpc' = [hpc EXCEPT ![t] = to],
         UNCHANGED poolVars, UNCHANGED <<mmap_file, made, inodes>>,
         pmem_consmp' \in 0 .. ConsmpMod - 1,
         hstr' \in [Threads -> Numbers], hsize' \in [Threads -> Sizes \cup {0}],
         hmap' \in [Threads -> Mapping], victim' \in [Threads -> Mapping],
         slot' \in [Threads -> [file_no : Numbers, paddr : 0 .. Top,
                                size : Sizes \cup {0}]],
         tree' \subseteq Threads, found' \in [Threads -> Threads],
         objects' \subseteq Mapping, mapped' \subseteq 0 .. Top,
         hdisk' = hdisk \/ \E k \in Numbers : hdisk' = [hdisk EXCEPT ![k] = NoFile],
         torn' \in BOOLEAN
  PROVE  HugeSide'
<1> USE DEF HugeSide
<1>1. inodes \in Nat /\ inodes <= inodes /\ hdisk \in [Numbers -> 0 .. inodes]
  BY PoolTypes DEF PoolSide, HugeTypeOK
<1>2. PoolSide'
  BY <1>1, NothingCounted
<1>3. hdisk' \in [Numbers -> 0 .. inodes] /\ OneNameEach(hdisk')
  <2>1. NoFile \in 0 .. inodes
    BY <1>1 DEF NoFile
  <2>2. CASE hdisk' = hdisk
    BY <2>2, <1>1
  <2>3. ASSUME NEW k \in Numbers, hdisk' = [hdisk EXCEPT ![k] = NoFile]
        PROVE  hdisk' \in [Numbers -> 0 .. inodes] /\ OneNameEach(hdisk')
    BY <2>1, <2>3, <1>1, NamesKept
  <2> QED
    BY <2>2, <2>3
<1>4. OneNameEach(hdisk)'
  BY <1>3 DEF OneNameEach
<1>5. hpc' \in [Threads -> {"idle", "count", "map", "unmap", "remove", "remap",
                            "trim", "consmp", "node", "insert", "path",
                            "unmapobject", "sub", "removefile", "aborted"}]
  BY PlacesTyped
<1>6. Mapping' = Mapping /\ made' \in 0 .. MaxFiles /\ inodes' = inodes
  BY DEF Mapping, HugeTypeOK
<1>7. HugeTypeOK'
  BY <1>3, <1>5, <1>6 DEF HugeTypeOK
<1> QED
  BY <1>2, <1>4, <1>7

\* The locals of a call that has ended.
LEMMA EndCallTyped ==
  ASSUME HugeTypeOK, NEW t \in Threads, EndCall(t), inodes \in Nat
  PROVE  /\ hstr' \in [Threads -> Numbers] /\ hsize' \in [Threads -> Sizes \cup {0}]
         /\ hmap' \in [Threads -> Mapping] /\ victim' \in [Threads -> Mapping]
         /\ found' \in [Threads -> Threads]
<1>1. NoMapping \in Mapping
  BY FileConstants DEF NoMapping, Mapping, NoFile
<1> QED
  BY <1>1, FileConstants DEF EndCall, HugeTypeOK

LEMMA UnmapMisalignedTyped ==
  ASSUME HugeSide, NEW t \in Threads, UnmapMisaligned(t)
  PROVE  HugeSide'
<1>1. /\ hpc[t] = "unmap" /\ hpc' = [hpc EXCEPT ![t] = "remove"]
      /\ mapped' = mapped \ Units(hmap[t].addr, hmap[t].len)
      /\ UNCHANGED <<mmap_file, pmem_consmp, inodes, made, torn>> /\ UNCHANGED poolVars
      /\ UNCHANGED <<hstr, hmap, hsize, found, victim, slot, tree, objects, hdisk>>
  BY DEF UnmapMisaligned, HGo, hlocals, globals
<1>2. HugeTypeOK /\ TypeOK
  BY DEF HugeSide, PoolSide
<1>3. /\ "remove" \in CreatingPlaces \cup FreeingPlaces \cup {"idle", "aborted"}
      /\ hpc[t] # "count" /\ "remove" # "count"
  BY <1>1 DEF CreatingPlaces
<1>4. /\ pmem_consmp' \in 0 .. ConsmpMod - 1 /\ mapped' \subseteq 0 .. Top
      /\ hdisk' = hdisk
  BY <1>1, <1>2 DEF TypeOK, HugeTypeOK
<1> QED
  BY <1>1, <1>2, <1>3, <1>4, CallTyped DEF HugeTypeOK

LEMMA RemoveMisalignedTyped ==
  ASSUME HugeSide, NEW t \in Threads, RemoveMisaligned(t)
  PROVE  HugeSide'
<1>1. /\ hpc[t] = "remove" /\ hpc' = [hpc EXCEPT ![t] = "remap"]
      /\ hdisk' = [hdisk EXCEPT ![hstr[t]] = NoFile]
      /\ UNCHANGED <<mmap_file, pmem_consmp, inodes, made, torn>> /\ UNCHANGED poolVars
      /\ UNCHANGED <<hstr, hmap, hsize, found, victim, slot, tree, objects, mapped>>
  BY DEF RemoveMisaligned, HGo, hlocals, globals
<1>2. HugeTypeOK /\ TypeOK
  BY DEF HugeSide, PoolSide
<1>3. /\ "remap" \in CreatingPlaces \cup FreeingPlaces \cup {"idle", "aborted"}
      /\ hpc[t] # "count" /\ "remap" # "count"
  BY <1>1 DEF CreatingPlaces
<1>4. /\ pmem_consmp' \in 0 .. ConsmpMod - 1
      /\ \E k \in Numbers : hdisk' = [hdisk EXCEPT ![k] = NoFile]
  BY <1>1, <1>2 DEF TypeOK, HugeTypeOK
<1> QED
  BY <1>1, <1>2, <1>3, <1>4, CallTyped DEF HugeTypeOK

LEMMA TrimObjectTyped ==
  ASSUME HugeSide, NEW t \in Threads, TrimObject(t), Ceiling(hmap[t].addr) \in 0 .. Top
  PROVE  HugeSide'
<1>1. /\ hpc[t] = "trim" /\ hpc' = [hpc EXCEPT ![t] = "consmp"]
      /\ mapped' \subseteq mapped
      /\ hmap' = [hmap EXCEPT ![t] = [addr |-> Ceiling(hmap[t].addr),
                                      len |-> hsize[t], ino |-> hmap[t].ino]]
      /\ UNCHANGED <<mmap_file, pmem_consmp, inodes, made, torn>> /\ UNCHANGED poolVars
      /\ UNCHANGED <<hstr, hsize, found, victim, slot, tree, objects, hdisk>>
  BY DEF TrimObject, HGo, globals
<1>2. HugeTypeOK /\ TypeOK
  BY DEF HugeSide, PoolSide
<1>3. /\ "consmp" \in CreatingPlaces \cup FreeingPlaces \cup {"idle", "aborted"}
      /\ hpc[t] # "count" /\ "consmp" # "count"
  BY <1>1 DEF CreatingPlaces, MakingPlaces
<1>4. /\ pmem_consmp' \in 0 .. ConsmpMod - 1 /\ mapped' \subseteq 0 .. Top
      /\ hmap' \in [Threads -> Mapping]
  <2>1. [addr |-> Ceiling(hmap[t].addr), len |-> hsize[t], ino |-> hmap[t].ino]
          \in Mapping
    <3>1. hsize[t] \in Nat /\ hmap[t].ino \in 0 .. inodes
      BY <1>2, HugeTypes
    <3> QED
      BY <3>1 DEF Mapping
  <2> QED
    BY <2>1, <1>1, <1>2 DEF TypeOK, HugeTypeOK
<1> QED
  BY <1>1, <1>2, <1>3, <1>4, CallTyped DEF HugeTypeOK

LEMMA AddConsmpTyped ==
  ASSUME HugeSide, NEW t \in Threads, AddConsmp(t)
  PROVE  HugeSide'
<1>1. /\ hpc[t] = "consmp" /\ hpc' = [hpc EXCEPT ![t] = "node"]
      /\ pmem_consmp' = AtomicAdd(pmem_consmp, hsize[t])
      /\ UNCHANGED <<mmap_file, inodes, made, torn>> /\ UNCHANGED poolVars
      /\ UNCHANGED <<hstr, hmap, hsize, found, victim, slot, tree, objects, mapped,
                     hdisk>>
  BY DEF AddConsmp, HGo, hlocals, hshared
<1>2. HugeTypeOK /\ TypeOK
  BY DEF HugeSide, PoolSide
<1>3. /\ "node" \in CreatingPlaces \cup FreeingPlaces \cup {"idle", "aborted"}
      /\ hpc[t] # "count" /\ "node" # "count"
  BY <1>1 DEF CreatingPlaces, MakingPlaces
<1>4. pmem_consmp' \in 0 .. ConsmpMod - 1 /\ hdisk' = hdisk
  BY <1>1, <1>2, HugeTypes, ConsmpTyped DEF TypeOK
<1> QED
  BY <1>1, <1>2, <1>3, <1>4, CallTyped DEF HugeTypeOK

LEMMA FillNodeTyped ==
  ASSUME HugeSide, NEW t \in Threads, FillNode(t)
  PROVE  HugeSide'
<1>1. /\ hpc[t] = "node" /\ hpc' = [hpc EXCEPT ![t] = "insert"]
      /\ slot' = [slot EXCEPT ![t] = [file_no |-> mmap_file,
                                      paddr |-> hmap[t].addr, size |-> hsize[t]]]
      /\ UNCHANGED <<mmap_file, pmem_consmp, inodes, made>> /\ UNCHANGED poolVars
      /\ UNCHANGED <<hstr, hmap, hsize, found, victim, tree, objects, mapped, hdisk>>
      /\ torn' \in BOOLEAN
  BY DEF FillNode, HGo, hlocals, globals, HugeSide, HugeTypeOK
<1>2. HugeTypeOK /\ TypeOK
  BY DEF HugeSide, PoolSide
<1>3. /\ "insert" \in CreatingPlaces \cup FreeingPlaces \cup {"idle", "aborted"}
      /\ hpc[t] # "count" /\ "insert" # "count"
  BY <1>1 DEF CreatingPlaces, MakingPlaces
<1>4. /\ pmem_consmp' \in 0 .. ConsmpMod - 1 /\ hdisk' = hdisk
      /\ slot' \in [Threads -> [file_no : Numbers, paddr : 0 .. Top,
                                size : Sizes \cup {0}]]
  <2>1. [file_no |-> mmap_file, paddr |-> hmap[t].addr, size |-> hsize[t]]
          \in [file_no : Numbers, paddr : 0 .. Top, size : Sizes \cup {0}]
    BY <1>2, HugeTypes DEF TypeOK
  <2> QED
    BY <2>1, <1>1, <1>2 DEF TypeOK, HugeTypeOK
<1> QED
  BY <1>1, <1>2, <1>3, <1>4, CallTyped DEF HugeTypeOK

LEMMA InsertNodeTyped ==
  ASSUME HugeSide, NEW t \in Threads, InsertNode(t)
  PROVE  HugeSide'
<1>1. /\ hpc[t] = "insert" /\ torn' = torn /\ EndCall(t)
      /\ UNCHANGED <<mmap_file, pmem_consmp, inodes, made>> /\ UNCHANGED poolVars
      /\ UNCHANGED <<slot, mapped, hdisk>>
  BY DEF InsertNode, globals
<1>2. HugeTypeOK /\ TypeOK /\ inodes \in Nat
  BY PoolTypes DEF HugeSide, PoolSide
<1>3. PICK to \in {"idle", "aborted"} :
        /\ hpc' = [hpc EXCEPT ![t] = to]
        /\ tree' \subseteq tree \cup {t} /\ objects' \subseteq objects \cup {hmap[t]}
  BY DEF InsertNode, Remains
<1>4. /\ to \in CreatingPlaces \cup FreeingPlaces \cup {"idle", "aborted"}
      /\ hpc[t] # "count" /\ to # "count"
  BY <1>1
<1>5. /\ pmem_consmp' \in 0 .. ConsmpMod - 1 /\ hdisk' = hdisk
      /\ tree' \subseteq Threads /\ objects' \subseteq Mapping
  BY <1>1, <1>2, <1>3, HugeTypes DEF TypeOK, HugeTypeOK
<1>6. /\ hstr' \in [Threads -> Numbers] /\ hsize' \in [Threads -> Sizes \cup {0}]
      /\ hmap' \in [Threads -> Mapping] /\ victim' \in [Threads -> Mapping]
      /\ found' \in [Threads -> Threads]
  BY <1>1, <1>2, EndCallTyped
<1> QED
  BY <1>1, <1>2, <1>3, <1>4, <1>5, <1>6, CallTyped DEF HugeTypeOK

\* A file is mapped, an old one or a new one.
LEMMA HugeMapTyped ==
  ASSUME HugeSide, NEW t \in Threads, NEW len \in Nat, HugeMap(t, len),
         hpc[t] # "count", NEW to \in MakingPlaces, hpc' = [hpc EXCEPT ![t] = to]
  PROVE  HugeSide' /\ inodes' \in Nat /\ inodes <= inodes'
<1>0. HugeTypeOK /\ TypeOK /\ PoolSide /\ OneNameEach(hdisk)
  BY DEF HugeSide, PoolSide
<1>1. /\ \/ hdisk[hstr[t]] # NoFile /\ hdisk' = hdisk /\ inodes' = inodes
         \/ /\ hdisk[hstr[t]] = NoFile
            /\ hdisk' = [hdisk EXCEPT ![hstr[t]] = inodes + 1]
            /\ inodes' = inodes + 1
      /\ UNCHANGED <<mmap_file, pmem_consmp, made, torn>> /\ UNCHANGED poolVars
      /\ UNCHANGED <<hstr, hsize, found, victim, slot, tree, objects>>
  BY DEF HugeMap, globals
<1>2. PICK addr \in 0 .. Top - len :
        /\ mapped' = mapped \cup Units(addr, len)
        /\ hmap' = [hmap EXCEPT ![t] = [addr |-> addr, len |-> len,
                                        ino |-> hdisk'[hstr[t]]]]
  BY DEF HugeMap
<1>t. /\ inodes \in Nat /\ hstr[t] \in Numbers /\ hdisk \in [Numbers -> 0 .. inodes]
      /\ hmap \in [Threads -> Mapping] /\ victim \in [Threads -> Mapping]
      /\ objects \subseteq Mapping /\ mapped \subseteq 0 .. Top
      /\ addr \in Nat /\ Top \in Nat /\ addr + len <= Top
      /\ pmem_consmp \in 0 .. ConsmpMod - 1
  <2>1. Top \in Nat
    BY FileConstants
  <2>2. addr \in Nat /\ addr + len <= Top
    BY <2>1
  <2>3. inodes \in Nat
    BY <1>0, PoolTypes
  <2> QED
    BY <2>1, <2>2, <2>3, <1>0 DEF HugeTypeOK, TypeOK
<1>3. /\ inodes' \in Nat /\ inodes <= inodes' /\ hdisk' \in [Numbers -> 0 .. inodes']
      /\ hdisk'[hstr[t]] \in 0 .. inodes' /\ OneNameEach(hdisk')
      /\ 0 .. inodes \subseteq 0 .. inodes'
  BY <1>0, <1>1, <1>t, FileMade
<1>4. PoolSide'
  <2>1. to # "count"
    BY DEF MakingPlaces
  <2> QED
    BY <2>1, <1>0, <1>1, <1>3, <1>t, NothingCounted
<1>5. HugeTypeOK'
  <2>1. hpc' \in [Threads -> {"idle", "count", "map", "unmap", "remove", "remap",
                              "trim", "consmp", "node", "insert", "path",
                              "unmapobject", "sub", "removefile", "aborted"}]
    BY <1>0, PlacesTyped DEF CreatingPlaces
  <2>2. Mapping \subseteq Mapping'
    BY <1>3 DEF Mapping
  <2>3. hmap' \in [Threads -> Mapping']
    <3>2. [addr |-> addr, len |-> len, ino |-> hdisk'[hstr[t]]] \in Mapping'
      BY <1>3, <1>t DEF Mapping
    <3>3. hmap \in [Threads -> Mapping']
      BY <1>t, <2>2
    <3> QED
      BY <3>2, <3>3, <1>2
  <2>4. victim' \in [Threads -> Mapping'] /\ objects' \subseteq Mapping'
    BY <1>1, <1>t, <2>2
  <2>5. mapped' \subseteq 0 .. Top
    <3>1. Units(addr, len) \subseteq 0 .. Top
      BY <1>t DEF Units
    <3> QED
      BY <3>1, <1>2, <1>t
  <2> QED
    BY <2>1, <2>3, <2>4, <2>5, <1>0, <1>1, <1>3 DEF HugeTypeOK
<1>6. OneNameEach(hdisk)'
  BY <1>3 DEF OneNameEach
<1> QED
  BY <1>3, <1>4, <1>5, <1>6 DEF HugeSide

LEMMA HugeDallocTyped ==
  ASSUME HugeSide, NEW t \in Threads, HugeDalloc(t)
  PROVE  HugeSide'
<1>1. /\ hpc[t] = "idle" /\ ReuseFrame(t)
      /\ UNCHANGED <<mmap_file, pmem_consmp, inodes, made>> /\ UNCHANGED poolVars
      /\ UNCHANGED <<hstr, hmap, hsize, mapped, hdisk>>
  BY DEF HugeDalloc, globals
<1>2. HugeTypeOK /\ TypeOK
  BY DEF HugeSide, PoolSide
<1>3. PICK to \in {"path", "aborted"} :
        /\ hpc' = [hpc EXCEPT ![t] = to]
        /\ \E o \in objects : /\ objects' = objects \ {o}
                              /\ victim' = [victim EXCEPT ![t] = o]
        /\ tree' \subseteq tree
        /\ found' = found \/ \E u \in tree : found' = [found EXCEPT ![t] = u]
  BY DEF HugeDalloc, Remains
<1>4. /\ to \in CreatingPlaces \cup FreeingPlaces \cup {"idle", "aborted"}
      /\ hpc[t] # "count" /\ to # "count"
  BY <1>1 DEF FreeingPlaces, UnmappingPlaces
<1>5. /\ pmem_consmp' \in 0 .. ConsmpMod - 1 /\ hdisk' = hdisk
      /\ tree' \subseteq Threads /\ objects' \subseteq Mapping
      /\ victim' \in [Threads -> Mapping] /\ found' \in [Threads -> Threads]
  <2>1. /\ pmem_consmp' \in 0 .. ConsmpMod - 1 /\ hdisk' = hdisk
        /\ tree' \subseteq Threads
    BY <1>1, <1>2, <1>3 DEF TypeOK, HugeTypeOK
  <2>2. objects \subseteq Mapping /\ victim \in [Threads -> Mapping]
        /\ found \in [Threads -> Threads] /\ tree \subseteq Threads
    BY <1>2 DEF HugeTypeOK
  <2>3. found' \in [Threads -> Threads]
    BY <2>2, <1>3
  <2>4. victim' \in [Threads -> Mapping] /\ objects' \subseteq Mapping
    BY <2>2, <1>3
  <2> QED
    BY <2>1, <2>3, <2>4
<1>6. ReuseFrameTyped(t)
  BY <1>1, <1>2, FrameTyped
<1> QED
  BY <1>1, <1>2, <1>3, <1>4, <1>5, <1>6, CallTyped DEF HugeTypeOK, ReuseFrameTyped

LEMMA PrintPathTyped ==
  ASSUME HugeSide, NEW t \in Threads, PrintPath(t)
  PROVE  HugeSide'
<1>1. /\ hpc[t] = "path" /\ hpc' = [hpc EXCEPT ![t] = "unmapobject"]
      /\ hstr' = [hstr EXCEPT ![t] = slot[found[t]].file_no]
      /\ UNCHANGED <<mmap_file, pmem_consmp, inodes, made, torn>> /\ UNCHANGED poolVars
      /\ UNCHANGED <<hmap, hsize, found, victim, slot, tree, objects, mapped, hdisk>>
  BY DEF PrintPath, HGo, globals, hshared
<1>2. HugeTypeOK /\ TypeOK
  BY DEF HugeSide, PoolSide
<1>3. /\ "unmapobject" \in CreatingPlaces \cup FreeingPlaces \cup {"idle", "aborted"}
      /\ hpc[t] # "count" /\ "unmapobject" # "count"
  BY <1>1 DEF FreeingPlaces, UnmappingPlaces
<1>4. /\ pmem_consmp' \in 0 .. ConsmpMod - 1 /\ hdisk' = hdisk
      /\ hstr' \in [Threads -> Numbers]
  <2>1. slot[found[t]].file_no \in Numbers
    BY <1>2, HugeTypes
  <2> QED
    BY <2>1, <1>1, <1>2 DEF TypeOK, HugeTypeOK
<1> QED
  BY <1>1, <1>2, <1>3, <1>4, CallTyped DEF HugeTypeOK

LEMMA UnmapObjectTyped ==
  ASSUME HugeSide, NEW t \in Threads, UnmapObject(t)
  PROVE  HugeSide'
<1>1. /\ hpc[t] = "unmapobject" /\ hpc' = [hpc EXCEPT ![t] = "sub"]
      /\ mapped' \subseteq mapped
      /\ UNCHANGED <<mmap_file, pmem_consmp, inodes, made, torn>> /\ UNCHANGED poolVars
      /\ UNCHANGED <<hstr, hmap, hsize, found, victim, slot, tree, objects, hdisk>>
  BY DEF UnmapObject, HGo, globals, hlocals
<1>2. HugeTypeOK /\ TypeOK
  BY DEF HugeSide, PoolSide
<1>3. /\ "sub" \in CreatingPlaces \cup FreeingPlaces \cup {"idle", "aborted"}
      /\ hpc[t] # "count" /\ "sub" # "count"
  BY <1>1 DEF FreeingPlaces, UnmappingPlaces
<1>4. /\ pmem_consmp' \in 0 .. ConsmpMod - 1 /\ hdisk' = hdisk
      /\ mapped' \subseteq 0 .. Top
  BY <1>1, <1>2 DEF TypeOK, HugeTypeOK
<1> QED
  BY <1>1, <1>2, <1>3, <1>4, CallTyped DEF HugeTypeOK

LEMMA SubConsmpTyped ==
  ASSUME HugeSide, NEW t \in Threads, SubConsmp(t)
  PROVE  HugeSide'
<1>1. /\ hpc[t] = "sub" /\ hpc' = [hpc EXCEPT ![t] = "removefile"]
      /\ pmem_consmp' = AtomicSub(pmem_consmp, slot[found[t]].size)
      /\ UNCHANGED <<mmap_file, inodes, made, torn>> /\ UNCHANGED poolVars
      /\ UNCHANGED <<hstr, hmap, hsize, found, victim, slot, tree, objects, mapped,
                     hdisk>>
  BY DEF SubConsmp, HGo, hlocals, hshared
<1>2. HugeTypeOK /\ TypeOK
  BY DEF HugeSide, PoolSide
<1>3. /\ "removefile" \in CreatingPlaces \cup FreeingPlaces \cup {"idle", "aborted"}
      /\ hpc[t] # "count" /\ "removefile" # "count"
  BY <1>1 DEF FreeingPlaces, UnmappingPlaces
<1>4. pmem_consmp' \in 0 .. ConsmpMod - 1 /\ hdisk' = hdisk
  <2>1. slot[found[t]].size \in Nat
    BY <1>2, HugeTypes
  <2> QED
    BY <2>1, <1>1, <1>2, ConsmpTyped DEF TypeOK
<1> QED
  BY <1>1, <1>2, <1>3, <1>4, CallTyped DEF HugeTypeOK

LEMMA RemoveFileTyped ==
  ASSUME HugeSide, NEW t \in Threads, RemoveFile(t)
  PROVE  HugeSide'
<1>1. /\ hpc[t] = "removefile" /\ hpc' = [hpc EXCEPT ![t] = "idle"] /\ EndCall(t)
      /\ hdisk' = [hdisk EXCEPT ![hstr[t]] = NoFile]
      /\ slot' = slot \/ slot' = [slot EXCEPT ![found[t]] = NoNode]
      /\ UNCHANGED <<mmap_file, pmem_consmp, inodes, made, torn>> /\ UNCHANGED poolVars
      /\ UNCHANGED <<tree, objects, mapped>>
  BY DEF RemoveFile, HGo, globals
<1>2. HugeTypeOK /\ TypeOK /\ inodes \in Nat
  BY PoolTypes DEF HugeSide, PoolSide
<1>3. /\ "idle" \in CreatingPlaces \cup FreeingPlaces \cup {"idle", "aborted"}
      /\ hpc[t] # "count" /\ "idle" # "count"
  BY <1>1
<1>4. /\ pmem_consmp' \in 0 .. ConsmpMod - 1
      /\ \E k \in Numbers : hdisk' = [hdisk EXCEPT ![k] = NoFile]
      /\ slot' \in [Threads -> [file_no : Numbers, paddr : 0 .. Top,
                                size : Sizes \cup {0}]]
  <2>1. NoNode \in [file_no : Numbers, paddr : 0 .. Top, size : Sizes \cup {0}]
    BY FileConstants DEF NoNode
  <2>2. hstr[t] \in Numbers
    BY <1>2, HugeTypes
  <2>3. slot \in [Threads -> [file_no : Numbers, paddr : 0 .. Top,
                              size : Sizes \cup {0}]]
    BY <1>2 DEF HugeTypeOK
  <2>4. slot' \in [Threads -> [file_no : Numbers, paddr : 0 .. Top,
                               size : Sizes \cup {0}]]
    BY <2>1, <2>3, <1>1
  <2>5. pmem_consmp' \in 0 .. ConsmpMod - 1
    BY <1>1, <1>2 DEF TypeOK
  <2> QED
    BY <2>2, <2>4, <2>5, <1>1
<1>5. /\ hstr' \in [Threads -> Numbers] /\ hsize' \in [Threads -> Sizes \cup {0}]
      /\ hmap' \in [Threads -> Mapping] /\ victim' \in [Threads -> Mapping]
      /\ found' \in [Threads -> Threads]
  BY <1>1, <1>2, EndCallTyped
<1> QED
  BY <1>1, <1>2, <1>3, <1>4, <1>5, CallTyped DEF HugeTypeOK

LEMMA OtherCallTyped ==
  ASSUME HugeSide, NEW t \in Threads, OtherCall(t)
  PROVE  HugeSide'
<1>1. /\ hpc[t] = "idle" /\ ReuseFrame(t)
      /\ UNCHANGED <<mmap_file, pmem_consmp, inodes, made>> /\ UNCHANGED poolVars
      /\ UNCHANGED <<hpc, hstr, hmap, hsize, found, victim, tree, objects, mapped,
                     hdisk>>
  BY DEF OtherCall, ReuseFrame, globals, hlocals
<1>2. HugeTypeOK /\ TypeOK
  BY DEF HugeSide, PoolSide
<1>3. /\ "idle" \in CreatingPlaces \cup FreeingPlaces \cup {"idle", "aborted"}
      /\ hpc[t] # "count" /\ "idle" # "count" /\ hpc' = [hpc EXCEPT ![t] = "idle"]
  BY <1>1, <1>2 DEF HugeTypeOK
<1>4. pmem_consmp' \in 0 .. ConsmpMod - 1 /\ hdisk' = hdisk
  BY <1>1, <1>2 DEF TypeOK
<1>5. ReuseFrameTyped(t)
  BY <1>1, <1>2, FrameTyped
<1> QED
  BY <1>1, <1>2, <1>3, <1>4, <1>5, CallTyped DEF HugeTypeOK, ReuseFrameTyped

LEMMA CeilingIsNextMultiple ==
  ASSUME NEW x \in Nat
  PROVE  /\ Ceiling(x) \in Nat /\ x <= Ceiling(x) /\ Ceiling(x) < x + ChunkUnits
         /\ Aligned(Ceiling(x))
<1> DEFINE c == ((x + ChunkUnits - 1) \div ChunkUnits) * ChunkUnits
<1>1. ChunkUnits \in Nat \ {0}
  BY FileConstants
<1>2. /\ c \in Nat /\ x <= c /\ c < x + ChunkUnits
      /\ \E q \in Nat : c = q * ChunkUnits
  BY <1>1, RoundUp
<1>3. Ceiling(x) = c
  BY DEF Ceiling
<1> HIDE DEF c
<1>4. PICK q \in Nat : c = q * ChunkUnits
  BY <1>2
<1>5. (c + ChunkUnits - 1) \div ChunkUnits = q
  <2> DEFINE y == c + ChunkUnits - 1
             r == ChunkUnits - 1
  <2>1. y \in Int /\ r \in Int /\ 0 <= r /\ r < ChunkUnits
    BY <1>1, <1>2
  <2>2. y = q * ChunkUnits + r
    <3>1. c + ChunkUnits - 1 = c + (ChunkUnits - 1)
      BY <1>1, <1>2
    <3> QED
      BY <3>1, <1>4
  <2> HIDE DEF y, r
  <2>3. y \div ChunkUnits = q
    BY <1>1, <2>1, <2>2, DivModUnique
  <2> QED
    BY <2>3 DEF y
<1>6. Aligned(c)
  BY <1>4, <1>5 DEF Aligned, Ceiling
<1> QED
  BY <1>2, <1>3, <1>6

\* What is unmapped before and behind the object is the excess of its mapping.
LEMMA TrimLeavesTheObject ==
  ASSUME NEW addr \in Nat, NEW size \in Nat, NEW ret \in Nat,
         addr <= ret, ret < addr + ChunkUnits
  PROVE  LET old == Units(addr, size + ChunkUnits)
             cut == Units(addr, ret - addr)
                      \cup Units(ret + size, addr + ChunkUnits - ret)
         IN  /\ old \ cut = Units(ret, size)
             /\ Units(ret, size) \subseteq old /\ cut \subseteq old
             /\ ret \in old
<1>1. ChunkUnits \in Nat \ {0}
  BY FileConstants
<1>2. /\ Units(addr, size + ChunkUnits) = addr .. addr + size + ChunkUnits - 1
      /\ Units(addr, ret - addr) = addr .. ret - 1
      /\ Units(ret + size, addr + ChunkUnits - ret)
           = ret + size .. addr + size + ChunkUnits - 1
      /\ Units(ret, size) = ret .. ret + size - 1
  BY <1>1 DEF Units
<1> QED
  BY <1>1, <1>2

\* The step of a thread that ends or continues a trim, or does not trim.
LEMMA SpareKept ==
  ASSUME HugeTypeOK, SpareInv, NEW t \in Threads, NEW to,
         hpc' = [hpc EXCEPT ![t] = to],
         \A u \in Threads : u # t => hmap'[u] = hmap[u],
         to = "trim" => hmap'[t].addr + ChunkUnits <= Top
  PROVE  SpareInv'
<1>1. hpc'[t] = to /\ \A u \in Threads : u # t => hpc'[u] = hpc[u]
  BY ThreadMoves
<1> QED
  BY <1>1 DEF SpareInv

\* All steps of a thread keep the types.
LEMMA HugeStepTyped ==
  ASSUME HugeSide, SpareInv, NEW t \in Threads, HugeStep(t)
  PROVE  HugeSide' /\ SpareInv' /\ inodes' \in Nat /\ inodes <= inodes'
<1>0. /\ HugeTypeOK /\ TypeOK /\ inodes \in Nat /\ inodes <= inodes
      /\ hmap \in [Threads -> Mapping]
  BY PoolTypes DEF HugeSide, PoolSide, HugeTypeOK
<1>1. CASE MapObject(t)
  <2>1. PICK to \in {"unmap", "consmp"} :
          hpc' = [hpc EXCEPT ![t] = to] /\ hpc[t] = "map" /\ HugeMap(t, hsize[t])
    BY <1>1 DEF MapObject
  <2>2. hsize[t] \in Nat /\ to \in MakingPlaces /\ hpc[t] # "count"
    BY <1>0, <2>1, HugeTypes DEF MakingPlaces
  <2>3. \A u \in Threads : u # t => hmap'[u] = hmap[u]
    BY <1>0, <2>1 DEF HugeMap
  <2>4. HugeSide' /\ inodes' \in Nat /\ inodes <= inodes'
    BY <2>1, <2>2, HugeMapTyped
  <2> QED
    BY <2>1, <2>3, <2>4, <1>0, SpareKept
<1>2. CASE RemapObject(t)
  <2>1. /\ hpc' = [hpc EXCEPT ![t] = "trim"] /\ hpc[t] = "remap"
        /\ HugeMap(t, hsize[t] + ChunkUnits)
    BY <1>2 DEF RemapObject, HGo
  <2>2. /\ hsize[t] \in Nat /\ ChunkUnits \in Nat /\ hsize[t] + ChunkUnits \in Nat
        /\ "trim" \in MakingPlaces /\ hpc[t] # "count"
    BY <1>0, <2>1, HugeTypes, FileConstants DEF MakingPlaces
  <2>3. \A u \in Threads : u # t => hmap'[u] = hmap[u]
    BY <1>0, <2>1 DEF HugeMap
  <2>4. HugeSide' /\ inodes' \in Nat /\ inodes <= inodes'
    BY <2>1, <2>2, HugeMapTyped
  <2>5. hmap'[t].addr + ChunkUnits <= Top
    <3>1. PICK addr \in 0 .. Top - (hsize[t] + ChunkUnits) : hmap'[t].addr = addr
      BY <1>0, <2>1 DEF HugeMap
    <3>2. Top \in Nat /\ addr + hsize[t] + ChunkUnits <= Top /\ addr \in Nat
      BY <2>2, FileConstants
    <3> QED
      BY <3>1, <3>2, <2>2
  <2> QED
    BY <2>1, <2>3, <2>4, <2>5, <1>0, SpareKept
<1>3. CASE TrimObject(t)
  <2>1. /\ hpc[t] = "trim" /\ hpc' = [hpc EXCEPT ![t] = "consmp"]
        /\ inodes' = inodes /\ \A u \in Threads : u # t => hmap'[u] = hmap[u]
    BY <1>0, <1>3 DEF TrimObject, HGo
  <2>2. Ceiling(hmap[t].addr) \in 0 .. Top
    <3>1. hmap[t].addr \in Nat /\ hmap[t].addr + ChunkUnits <= Top
      BY <1>0, <2>1, HugeTypes DEF SpareInv
    <3>2. PICK c \in Nat : c = Ceiling(hmap[t].addr) /\ c < hmap[t].addr + ChunkUnits
      BY <3>1, CeilingIsNextMultiple
    <3> QED
      BY <3>1, <3>2, FileConstants
  <2> QED
    BY <1>0, <1>3, <2>1, <2>2, TrimObjectTyped, SpareKept
<1>4. CASE HugeMalloc(t) \/ CountFile(t) \/ UnmapMisaligned(t) \/ RemoveMisaligned(t)
           \/ AddConsmp(t) \/ FillNode(t) \/ PrintPath(t) \/ UnmapObject(t)
           \/ SubConsmp(t)
  <2>1. HugeSide'
    BY <1>4, HugeMallocTyped, CountFileTyped, UnmapMisalignedTyped,
       RemoveMisalignedTyped, AddConsmpTyped, FillNodeTyped, PrintPathTyped,
       UnmapObjectTyped, SubConsmpTyped
  <2>2. /\ inodes' = inodes /\ hmap' = hmap
        /\ \E to \in {"count", "map", "remove", "remap", "node", "insert",
                      "unmapobject", "sub", "removefile"} :
             hpc' = [hpc EXCEPT ![t] = to]
    BY <1>4 DEF HugeMalloc, CountFile, UnmapMisaligned, RemoveMisaligned, AddConsmp,
       FillNode, PrintPath, UnmapObject, SubConsmp, HGo, hlocals, hshared
  <2>3. SpareInv'
    BY <1>0, <2>2, SpareKept
  <2> QED
    BY <1>0, <2>1, <2>2, <2>3
<1>5. CASE InsertNode(t) \/ HugeDalloc(t) \/ RemoveFile(t) \/ OtherCall(t)
  <2>1. HugeSide'
    BY <1>5, InsertNodeTyped, HugeDallocTyped, RemoveFileTyped, OtherCallTyped
  <2>2. inodes' = inodes /\ \A u \in Threads : u # t => hmap'[u] = hmap[u]
    BY <1>0, <1>5 DEF InsertNode, HugeDalloc, RemoveFile, OtherCall, EndCall, hlocals
  <2>3. \E to \in {"idle", "aborted", "path"} : hpc' = [hpc EXCEPT ![t] = to]
    <3>1. CASE OtherCall(t)
      BY <1>0, <3>1 DEF OtherCall, hlocals, HugeTypeOK
    <3>2. CASE InsertNode(t) \/ HugeDalloc(t) \/ RemoveFile(t)
      BY <3>2 DEF InsertNode, HugeDalloc, RemoveFile, HGo
    <3> QED
      BY <1>5, <3>1, <3>2
  <2>4. SpareInv'
    BY <1>0, <2>2, <2>3, SpareKept
  <2> QED
    BY <1>0, <2>1, <2>2, <2>4
<1> QED
  BY <1>1, <1>2, <1>3, <1>4, <1>5 DEF HugeStep

-----------------------------------------------------------------------------
(***************************************************************************)
(* Steps of a thread: names and files, as long as mmap_file is not changed *)
(* under a call.                                                           *)
(***************************************************************************)

\* A file is removed, or an object ends; the calls that make one stay where
\* they are.
LEMMA FilesOfObjectsKept ==
  ASSUME ObjectFilesInv, objects' \subseteq objects,
         \A k \in Numbers : hdisk'[k] = hdisk[k] \/ hdisk'[k] = NoFile,
         Creating' = Creating, mmap_file' = mmap_file,
         \A t \in Creating : /\ hpc'[t] = hpc[t] /\ hstr'[t] = hstr[t]
                             /\ hmap'[t] = hmap[t]
  PROVE  ObjectFilesInv'
<1>1. ASSUME NEW o \in objects
      PROVE  ObjectFileInv(o)'
  <2>1. ObjectFileInv(o)
    BY DEF ObjectFilesInv
  <2> QED
    BY <2>1 DEF ObjectFileInv
<1>2. ASSUME NEW t \in Creating
      PROVE  NewFileInv(t)'
  <2>1. NewFileInv(t)
    BY DEF ObjectFilesInv
  <2> QED
    BY <2>1 DEF NewFileInv
<1> QED
  BY <1>1, <1>2 DEF ObjectFilesInv

\* huge_malloc goes on with the file it has.
LEMMA FileOfCallKept ==
  ASSUME ObjectFilesInv, NEW t \in Creating, Creating' = Creating,
         UNCHANGED <<objects, mmap_file>>,
         \A k \in Numbers : hdisk'[k] = hdisk[k] \/ hdisk'[k] = NoFile,
         \A u \in Creating : hstr'[u] = hstr[u] /\ hmap'[u].ino = hmap[u].ino,
         \A u \in Creating : u # t => hpc'[u] = hpc[u],
         hpc[t] # "count", hpc'[t] # "count",
         hpc'[t] \in {"trim", "consmp", "node", "insert"} =>
           hpc[t] \in {"trim", "consmp", "node", "insert"}
  PROVE  ObjectFilesInv'
<1>1. ASSUME NEW o \in objects
      PROVE  ObjectFileInv(o)'
  <2>1. ObjectFileInv(o)
    BY DEF ObjectFilesInv
  <2> QED
    BY <2>1 DEF ObjectFileInv
<1>2. ASSUME NEW u \in Creating
      PROVE  NewFileInv(u)'
  <2>1. NewFileInv(u)
    BY DEF ObjectFilesInv
  <2>2. \A w \in Creating :
          hpc'[w] \in {"trim", "consmp", "node", "insert"} =>
            hpc[w] \in {"trim", "consmp", "node", "insert"}
    OBVIOUS
  <2>3. (hpc'[u] = "count") <=> (hpc[u] = "count")
    OBVIOUS
  <2> QED
    BY <2>1, <2>2, <2>3 DEF NewFileInv
<1> QED
  BY <1>1, <1>2 DEF ObjectFilesInv

\* The number in the path is the counter's, which no live object's file has.
LEMMA HugeMallocFiles ==
  ASSUME HugeSide, ObjectFilesInv, NEW t \in Threads, HugeMalloc(t)
  PROVE  ObjectFilesInv'
<1>1. /\ hpc[t] = "idle" /\ hpc' = [hpc EXCEPT ![t] = "count"]
      /\ hstr' = [hstr EXCEPT ![t] = mmap_file]
      /\ UNCHANGED <<mmap_file, hmap, objects, hdisk>>
  BY DEF HugeMalloc, HGo, globals
<1>2. HugeTypeOK /\ mmap_file \in Nat /\ hstr \in [Threads -> Numbers]
  BY PoolTypes DEF HugeSide, PoolSide, HugeTypeOK
<1>3. /\ Creating' = Creating \cup {t} /\ t \notin Creating /\ hpc'[t] = "count"
      /\ \A u \in Threads : u # t => hpc'[u] = hpc[u]
      /\ Creating \subseteq Threads
  <2>1. "count" \in CreatingPlaces
    BY DEF CreatingPlaces
  <2> QED
    BY <1>1, <1>2, <2>1, ThreadMoves DEF Creating
<1>4. hstr'[t] = mmap_file /\ \A u \in Threads : u # t => hstr'[u] = hstr[u]
  BY <1>1, <1>2
<1>5. \A k \in Numbers : k < mmap_file => k # mmap_file
  BY <1>2, FileConstants
<1>6. ASSUME NEW o \in objects
      PROVE  ObjectFileInv(o)'
  <2>1. ObjectFileInv(o)
    BY DEF ObjectFilesInv
  <2> QED
    BY <2>1, <1>1, <1>3, <1>4, <1>5 DEF ObjectFileInv
<1>7. NewFileInv(t)'
  BY <1>1, <1>3, <1>4 DEF NewFileInv
<1>8. ASSUME NEW u \in Creating
      PROVE  NewFileInv(u)'
  <2>1. NewFileInv(u) /\ u \in Threads /\ hstr[u] \in Numbers /\ u # t
    BY <1>2, <1>3 DEF ObjectFilesInv
  <2>2. hpc[u] # "count" => hstr[u] # mmap_file
    BY <2>1, <1>5 DEF NewFileInv
  <2> QED
    BY <2>1, <2>2, <1>1, <1>3, <1>4 DEF NewFileInv
<1> QED
  BY <1>1, <1>3, <1>6, <1>7, <1>8 DEF ObjectFilesInv

\* The counter moves on past the number in the path.
LEMMA CountFileFiles ==
  ASSUME HugeSide, ObjectFilesInv, NEW t \in Threads, CountFile(t),
         mmap_file' # mmap_file => ~NamingStill
  PROVE  ObjectFilesInv'
<1>1. /\ hpc[t] = "count" /\ hpc' = [hpc EXCEPT ![t] = "map"]
      /\ mmap_file' = mmap_file + 1
      /\ UNCHANGED <<hstr, hmap, objects, hdisk>>
  BY DEF CountFile, HGo, hlocals, hshared
<1>2. HugeTypeOK /\ mmap_file \in Nat /\ hstr \in [Threads -> Numbers]
  BY PoolTypes DEF HugeSide, PoolSide, HugeTypeOK
<1>3. /\ hpc'[t] = "map" /\ \A u \in Threads : u # t => hpc'[u] = hpc[u]
      /\ Creating' = Creating /\ t \in Creating /\ Creating \subseteq Threads
  <2>1. "map" \in CreatingPlaces
    BY DEF CreatingPlaces
  <2>2. t \in Creating /\ Creating \subseteq Threads
    BY <1>1 DEF Creating
  <2>3. hpc'[t] = "map" /\ Creating' = Creating \cup {t}
    BY <1>1, <1>2, <2>1, ThreadMoves
  <2>4. \A u \in Threads : u # t => hpc'[u] = hpc[u]
    BY <1>1, <1>2, ThreadMoves
  <2> QED
    BY <2>2, <2>3, <2>4
<1>4. \A u \in Threads : u # t => hpc[u] # "count"
  <2>1. ~NamingStill
    BY <1>1, <1>2
  <2> QED
    BY <2>1, <1>3 DEF NamingStill
<1>5. \A k \in Numbers : k < mmap_file => k < mmap_file' /\ k # mmap_file
  BY <1>1, <1>2, FileConstants
<1>6. hstr[t] = mmap_file /\ mmap_file < mmap_file'
  BY <1>1, <1>2, <1>3 DEF ObjectFilesInv, NewFileInv
<1>7. \A u \in Creating : u # t => hstr[u] < mmap_file /\ hstr[u] \in Numbers
  BY <1>2, <1>3, <1>4 DEF ObjectFilesInv, NewFileInv
<1>8. ASSUME NEW o \in objects
      PROVE  ObjectFileInv(o)'
  <2>1. ObjectFileInv(o)
    BY DEF ObjectFilesInv
  <2> QED
    BY <2>1, <1>1, <1>3, <1>5 DEF ObjectFileInv
<1>9. ASSUME NEW u \in Creating
      PROVE  NewFileInv(u)'
  <2>1. NewFileInv(u)
    BY DEF ObjectFilesInv
  <2>2. hpc'[u] # "count" /\ hstr'[u] < mmap_file'
    BY <1>1, <1>3, <1>4, <1>5, <1>6, <1>7
  <2>3. \A w \in Creating : hstr'[u] = hstr'[w] => u = w
    <3>1. CASE u = t
      BY <3>1, <1>1, <1>5, <1>6, <1>7
    <3>2. CASE u # t
      BY <3>2, <2>1, <1>1, <1>3, <1>4 DEF NewFileInv
    <3> QED
      BY <3>1, <3>2
  <2>4. \A w \in Creating : hpc'[w] \in {"trim", "consmp", "node", "insert"} =>
                              hpc'[w] = hpc[w]
    BY <1>3
  <2> QED
    BY <2>1, <2>2, <2>3, <2>4, <1>1, <1>3 DEF NewFileInv
<1> QED
  BY <1>1, <1>3, <1>8, <1>9 DEF ObjectFilesInv

\* A file is mapped, an old one or a new one: no other call and no object has it.
LEMMA HugeMapFiles ==
  ASSUME HugeSide, ObjectFilesInv, NEW t \in Threads, NEW len, HugeMap(t, len),
         hpc[t] \in {"map", "remap"}, NEW to \in {"unmap", "consmp", "trim"},
         hpc' = [hpc EXCEPT ![t] = to]
  PROVE  ObjectFilesInv'
<1>0. HugeTypeOK /\ OneNameEach(hdisk) /\ inodes \in Nat
  BY PoolTypes DEF HugeSide, PoolSide
<1>1. /\ \/ hdisk[hstr[t]] # NoFile /\ hdisk' = hdisk /\ inodes' = inodes
         \/ /\ hdisk[hstr[t]] = NoFile
            /\ hdisk' = [hdisk EXCEPT ![hstr[t]] = inodes + 1]
            /\ inodes' = inodes + 1
      /\ UNCHANGED <<mmap_file, hstr, objects>>
      /\ \E addr : hmap' = [hmap EXCEPT ![t] = [addr |-> addr, len |-> len,
                                                ino |-> hdisk'[hstr[t]]]]
  BY DEF HugeMap, globals
<1>t. /\ hstr[t] \in Numbers /\ hdisk \in [Numbers -> 0 .. inodes]
      /\ hmap \in [Threads -> Mapping]
      /\ \A o \in objects : o.ino \in 0 .. inodes
      /\ \A u \in Threads : hmap[u].ino \in 0 .. inodes
  BY <1>0, HugeTypes DEF HugeTypeOK
<1>2. /\ hpc'[t] = to /\ \A u \in Threads : u # t => hpc'[u] = hpc[u]
      /\ Creating' = Creating /\ t \in Creating /\ Creating \subseteq Threads
  <2>1. to \in CreatingPlaces
    BY DEF CreatingPlaces, MakingPlaces
  <2>2. t \in Creating /\ Creating \subseteq Threads
    BY DEF Creating
  <2>3. hpc'[t] = to /\ Creating' = Creating \cup {t}
    BY <1>0, <2>1, ThreadMoves
  <2>4. \A u \in Threads : u # t => hpc'[u] = hpc[u]
    BY <1>0, ThreadMoves
  <2> QED
    BY <2>2, <2>3, <2>4
<1>3. PICK k, i : k = hstr[t] /\ i = hdisk'[k]
  OBVIOUS
<1>4. /\ i # NoFile /\ OneNameEach(hdisk') /\ hdisk' \in [Numbers -> 0 .. inodes']
      /\ \A l \in Numbers : l # k => hdisk'[l] = hdisk[l]
      /\ i = hdisk[k] \/ i = inodes + 1
  <2>1. /\ k \in Numbers
        /\ \/ hdisk[k] # NoFile /\ hdisk' = hdisk /\ inodes' = inodes
           \/ /\ hdisk[k] = NoFile /\ hdisk' = [hdisk EXCEPT ![k] = inodes + 1]
              /\ inodes' = inodes + 1
    BY <1>1, <1>3, <1>t
  <2>2. /\ hdisk'[k] # NoFile /\ OneNameEach(hdisk')
        /\ hdisk' \in [Numbers -> 0 .. inodes']
        /\ \A l \in Numbers : l # k => hdisk'[l] = hdisk[l]
        /\ hdisk'[k] = hdisk[k] \/ hdisk'[k] = inodes + 1
    BY <2>1, <1>0, <1>t, FileMade
  <2> QED
    BY <2>2, <1>3
<1>5. \A l \in Numbers : hdisk'[l] = i => l = k
  BY <1>3, <1>4, <1>t DEF OneNameEach
<1>6. /\ hmap'[t].ino = i /\ \A u \in Threads : u # t => hmap'[u] = hmap[u]
  BY <1>1, <1>3, <1>t
<1>n. \A x \in 0 .. inodes : x # inodes + 1
  BY <1>0
<1>7. \A o \in objects : o.ino # i
  <2>1. \A o \in objects : hdisk[k] # o.ino
    BY <1>2, <1>3, <1>t DEF ObjectFilesInv, ObjectFileInv
  <2> QED
    BY <2>1, <1>4, <1>n, <1>t
<1>8. ASSUME NEW u \in Creating, u # t
      PROVE  /\ hstr[u] # k
             /\ hpc[u] \in {"trim", "consmp", "node", "insert"} => hmap[u].ino # i
  <2>1. NewFileInv(t) /\ NewFileInv(u) /\ u \in Threads
    BY <1>2 DEF ObjectFilesInv
  <2>2. hstr[u] # k
    BY <2>1, <1>2, <1>3, <1>8 DEF NewFileInv
  <2>3. hpc[u] \in {"trim", "consmp", "node", "insert"} => hmap[u].ino # hdisk[k]
    BY <2>1, <2>2, <1>3, <1>t DEF NewFileInv
  <2>4. hmap[u].ino # inodes + 1
    BY <2>1, <1>n, <1>t
  <2> QED
    BY <2>2, <2>3, <2>4, <1>4
<1>9. ASSUME NEW o \in objects
      PROVE  ObjectFileInv(o)'
  <2>1. ObjectFileInv(o)
    BY DEF ObjectFilesInv
  <2>2. \A l \in Numbers : hdisk'[l] = o.ino => hdisk[l] = o.ino
    BY <1>3, <1>4, <1>7
  <2> QED
    BY <2>1, <2>2, <1>1, <1>2 DEF ObjectFileInv
<1>10. ASSUME NEW u \in Creating
       PROVE  NewFileInv(u)'
  <2>1. NewFileInv(u) /\ u \in Threads
    BY <1>2 DEF ObjectFilesInv
  <2>2. CASE u = t
    <3>1. hpc[t] # "count" /\ hpc'[t] # "count"
      BY <1>2
    <3> QED
      BY <2>1, <2>2, <3>1, <1>1, <1>2, <1>3, <1>4, <1>5, <1>6, <1>7, <1>8
         DEF NewFileInv
  <2>3. CASE u # t
    <3>1. hpc'[u] = hpc[u] /\ hmap'[u] = hmap[u]
      BY <2>1, <2>3, <1>2, <1>6
    <3>2. hpc[u] \in {"trim", "consmp", "node", "insert"} =>
            /\ hmap[u].ino # i
            /\ \A l \in Numbers : hdisk'[l] = hmap[u].ino => hdisk[l] = hmap[u].ino
      BY <2>3, <1>3, <1>4, <1>8
    <3> QED
      BY <2>1, <2>3, <3>1, <3>2, <1>1, <1>2, <1>6 DEF NewFileInv
  <2> QED
    BY <2>2, <2>3
<1> QED
  BY <1>1, <1>2, <1>9, <1>10 DEF ObjectFilesInv

\* The call ends, and its file is that of an object, or of none.
LEMMA InsertNodeFiles ==
  ASSUME HugeSide, ObjectFilesInv, NEW t \in Threads, InsertNode(t)
  PROVE  ObjectFilesInv'
<1>0. HugeTypeOK /\ inodes \in Nat
  BY PoolTypes DEF HugeSide, PoolSide
<1>1. /\ hpc[t] = "insert" /\ EndCall(t) /\ UNCHANGED <<mmap_file, hdisk>>
  BY DEF InsertNode, globals
<1>2. PICK to \in {"idle", "aborted"} :
        /\ hpc' = [hpc EXCEPT ![t] = to]
        /\ objects' \subseteq objects \cup {hmap[t]}
  BY DEF InsertNode
<1>3. /\ \A u \in Threads : u # t => hpc'[u] = hpc[u]
      /\ Creating' = Creating \ {t} /\ t \in Creating /\ Creating \subseteq Threads
  <2>1. to \notin CreatingPlaces
    BY DEF CreatingPlaces, MakingPlaces
  <2>2. t \in Creating /\ Creating \subseteq Threads
    BY <1>1 DEF Creating
  <2>3. Creating' = Creating \ {t}
    BY <1>0, <1>2, <2>1, ThreadMoves
  <2>4. \A u \in Threads : u # t => hpc'[u] = hpc[u]
    BY <1>0, <1>2, ThreadMoves
  <2> QED
    BY <2>2, <2>3, <2>4
<1>4. \A u \in Threads : u # t => hstr'[u] = hstr[u] /\ hmap'[u] = hmap[u]
  BY <1>0, <1>1 DEF EndCall, HugeTypeOK
<1>5. PICK new : new = hmap[t]
  OBVIOUS
<1>6. /\ new.ino # NoFile
      /\ \A k \in Numbers : hdisk[k] = new.ino => k = hstr[t]
      /\ \A o \in objects : o.ino # new.ino
      /\ hstr[t] < mmap_file
      /\ \A u \in Creating : u # t => hstr[u] # hstr[t]
      /\ \A u \in Creating : hpc[u] \in {"trim", "consmp", "node", "insert"} =>
                              (u # t => hmap[u].ino # new.ino)
  <2>1. NewFileInv(t) /\ hpc[t] # "count"
    BY <1>1, <1>3 DEF ObjectFilesInv
  <2> QED
    BY <2>1, <1>1, <1>5 DEF NewFileInv
<1>7. ASSUME NEW o \in objects \cup {new}
      PROVE  /\ ObjectFileInv(o)'
             /\ \A p \in objects' : o.ino = p.ino => o = p
  <2>1. \A p \in objects' : p \in objects \/ p = new
    BY <1>2, <1>5
  <2>2. \A p \in objects : ObjectFileInv(p) /\ \A q \in objects : p.ino = q.ino => p = q
    BY DEF ObjectFilesInv
  <2>3. \A p \in objects' : o.ino = p.ino => o = p
    BY <2>1, <2>2, <1>6
  <2>4. CASE o \in objects
    <3>1. \A u \in Creating' : u \in Creating /\ hstr'[u] = hstr[u]
      BY <1>3, <1>4
    <3>2. o.ino # NoFile /\ \A k \in Numbers : hdisk[k] = o.ino =>
                              k < mmap_file /\ \A u \in Creating : k # hstr[u]
      BY <2>2, <2>4 DEF ObjectFileInv
    <3>3. \A k \in Numbers : hdisk'[k] = o.ino =>
                              k < mmap_file' /\ \A u \in Creating \ {t} : k # hstr'[u]
      BY <3>1, <3>2, <1>1, <1>3
    <3> QED
      BY <2>3, <3>2, <3>3, <1>3 DEF ObjectFileInv
  <2>5. CASE o = new
    <3>1. \A u \in Creating' : hstr'[u] # hstr[t]
      BY <1>3, <1>4, <1>6
    <3>2. o.ino # NoFile /\ \A k \in Numbers : hdisk'[k] = o.ino =>
                              k < mmap_file' /\ \A u \in Creating \ {t} : k # hstr'[u]
      BY <2>5, <3>1, <1>1, <1>3, <1>6
    <3> QED
      BY <2>3, <3>2, <1>3 DEF ObjectFileInv
  <2> QED
    BY <2>1, <2>3, <2>4, <2>5
<1>8. ASSUME NEW u \in Creating, u # t
      PROVE  NewFileInv(u)'
  <2>1. NewFileInv(u) /\ u \in Threads
    BY <1>3 DEF ObjectFilesInv
  <2>2. hpc[u] \in {"trim", "consmp", "node", "insert"} =>
          \A o \in objects' : o.ino # hmap[u].ino
    BY <2>1, <1>2, <1>5, <1>6, <1>8 DEF NewFileInv
  <2> QED
    BY <2>1, <2>2, <1>1, <1>3, <1>4, <1>8 DEF NewFileInv
<1> QED
  BY <1>2, <1>3, <1>5, <1>7, <1>8 DEF ObjectFilesInv

\* All steps of a thread.
LEMMA HugeStepFiles ==
  ASSUME HugeSide, ObjectFilesInv, NEW t \in Threads, HugeStep(t),
         mmap_file' # mmap_file => ~NamingStill
  PROVE  ObjectFilesInv'
<1>0. /\ HugeTypeOK /\ hdisk \in [Numbers -> 0 .. inodes]
      /\ hmap \in [Threads -> Mapping] /\ Creating \subseteq Threads
  BY DEF HugeSide, HugeTypeOK, Creating
<1>1. CASE HugeMalloc(t)
  BY <1>1, HugeMallocFiles
<1>2. CASE CountFile(t)
  BY <1>2, CountFileFiles
<1>3. CASE MapObject(t) \/ RemapObject(t)
  <2>1. /\ hpc[t] \in {"map", "remap"} /\ \E len : HugeMap(t, len)
        /\ \E to \in {"unmap", "consmp", "trim"} : hpc' = [hpc EXCEPT ![t] = to]
    BY <1>3 DEF MapObject, RemapObject, HGo
  <2> QED
    BY <2>1, HugeMapFiles
<1>4. CASE InsertNode(t)
  BY <1>4, InsertNodeFiles
<1>5. CASE UnmapMisaligned(t) \/ RemoveMisaligned(t) \/ TrimObject(t)
           \/ AddConsmp(t) \/ FillNode(t)
  <2>1. /\ UNCHANGED <<mmap_file, objects, hstr>>
        /\ \A k \in Numbers : hdisk'[k] = hdisk[k] \/ hdisk'[k] = NoFile
        /\ \A u \in Threads : hmap'[u].ino = hmap[u].ino
    <3>1. CASE TrimObject(t)
      BY <1>0, <3>1 DEF TrimObject, globals
    <3>2. CASE RemoveMisaligned(t)
      BY <1>0, <3>2 DEF RemoveMisaligned, globals, hlocals
    <3>3. CASE UnmapMisaligned(t) \/ AddConsmp(t) \/ FillNode(t)
      BY <3>3 DEF UnmapMisaligned, AddConsmp, FillNode, globals, hlocals, hshared
    <3> QED
      BY <1>5, <3>1, <3>2, <3>3
  <2>2. PICK to \in {"remove", "remap", "consmp", "node", "insert"} :
          /\ hpc' = [hpc EXCEPT ![t] = to] /\ t \in Creating /\ hpc[t] # "count"
          /\ to \in {"trim", "consmp", "node", "insert"} =>
               hpc[t] \in {"trim", "consmp", "node", "insert"}
    BY <1>5 DEF UnmapMisaligned, RemoveMisaligned, TrimObject, AddConsmp, FillNode,
       HGo, Creating
  <2>3. /\ hpc'[t] = to /\ \A u \in Threads : u # t => hpc'[u] = hpc[u]
        /\ Creating' = Creating
    <3>1. to \in CreatingPlaces
      BY DEF CreatingPlaces, MakingPlaces
    <3>2. hpc'[t] = to /\ Creating' = Creating \cup {t}
      BY <1>0, <2>2, <3>1, ThreadMoves
    <3>3. \A u \in Threads : u # t => hpc'[u] = hpc[u]
      BY <1>0, <2>2, ThreadMoves
    <3> QED
      BY <2>2, <3>2, <3>3
  <2> QED
    BY <1>0, <2>1, <2>2, <2>3, FileOfCallKept
<1>6. CASE HugeDalloc(t) \/ PrintPath(t) \/ UnmapObject(t) \/ SubConsmp(t)
           \/ RemoveFile(t) \/ OtherCall(t)
  <2>1. /\ objects' \subseteq objects /\ mmap_file' = mmap_file
        /\ \A k \in Numbers : hdisk'[k] = hdisk[k] \/ hdisk'[k] = NoFile
    <3>1. CASE RemoveFile(t)
      BY <1>0, <3>1 DEF RemoveFile, globals
    <3>2. CASE HugeDalloc(t) \/ PrintPath(t) \/ UnmapObject(t) \/ SubConsmp(t)
               \/ OtherCall(t)
      BY <3>2 DEF HugeDalloc, PrintPath, UnmapObject, SubConsmp, OtherCall, globals,
         hlocals, hshared
    <3> QED
      BY <1>6, <3>1, <3>2
  <2>2. \A u \in Threads : u # t => hstr'[u] = hstr[u] /\ hmap'[u] = hmap[u]
    <3>1. HugeTypeOK
      BY <1>0
    <3> QED
      BY <1>6, <3>1 DEF HugeDalloc, PrintPath, UnmapObject, SubConsmp, RemoveFile,
         OtherCall, EndCall, HugeTypeOK, hlocals, hshared
  <2>3. PICK to \in {"path", "unmapobject", "sub", "removefile", "idle", "aborted"} :
          hpc' = [hpc EXCEPT ![t] = to] /\ t \notin Creating
    <3>1. CASE OtherCall(t)
      BY <1>0, <3>1 DEF OtherCall, hlocals, HugeTypeOK, Creating
    <3>2. CASE HugeDalloc(t) \/ PrintPath(t) \/ UnmapObject(t) \/ SubConsmp(t)
               \/ RemoveFile(t)
      BY <3>2 DEF HugeDalloc, PrintPath, UnmapObject, SubConsmp, RemoveFile, HGo,
         Creating
    <3> QED
      BY <1>6, <3>1, <3>2
  <2>4. Creating' = Creating /\ \A u \in Threads : u # t => hpc'[u] = hpc[u]
    <3>1. to \notin CreatingPlaces
      BY DEF CreatingPlaces, MakingPlaces
    <3>2. Creating' = Creating \ {t}
      BY <1>0, <2>3, <3>1, ThreadMoves
    <3>3. \A u \in Threads : u # t => hpc'[u] = hpc[u]
      BY <1>0, <2>3, ThreadMoves
    <3> QED
      BY <2>3, <3>2, <3>3
  <2>5. \A u \in Creating : /\ hpc'[u] = hpc[u] /\ hstr'[u] = hstr[u]
                            /\ hmap'[u] = hmap[u]
    BY <1>0, <2>2, <2>3, <2>4
  <2> QED
    BY <2>1, <2>4, <2>5, FilesOfObjectsKept
<1> QED
  BY <1>1, <1>2, <1>3, <1>4, <1>5, <1>6 DEF HugeStep

\* A thread touches no pool; it moves the counter on, or leaves it.
LEMMA HugeStepPools ==
  ASSUME HugeSide, PoolFilesInv, NEW t \in Threads, HugeStep(t),
         mmap_file' # mmap_file => ~NamingStill
  PROVE  PoolFilesInv'
<1>0. TypeOK /\ mmap_file \in Nat
  BY PoolTypes DEF HugeSide, PoolSide
<1>1. UNCHANGED poolVars /\ (mmap_file' = mmap_file \/ mmap_file' = mmap_file + 1)
  BY DEF HugeStep, HugeMalloc, CountFile, MapObject, RemapObject, HugeMap,
     UnmapMisaligned, RemoveMisaligned, TrimObject, AddConsmp, FillNode, InsertNode,
     HugeDalloc, PrintPath, UnmapObject, SubConsmp, RemoveFile, OtherCall, globals
<1>2. mmap_file' # mmap_file => \A a \in Arenas : pc[a] \notin {"store", "name"}
  BY <1>1 DEF NamingStill, poolVars
<1>3. mmap_file' \in Nat /\ (mmap_file' = mmap_file + 1 => mmap_file <= mmap_file')
  BY <1>0, <1>1
<1> QED
  BY <1>0, <1>1, <1>2, <1>3, PoolFilesKept DEF poolVars

-----------------------------------------------------------------------------
(***************************************************************************)
(* What is mapped, while no node in use has been overwritten.              *)
(***************************************************************************)

\* The units of a set of mappings.
UnitsOf(S) == UNION {Units(m.addr, m.len) : m \in S}

LEMMA UnitsOfWith ==
  ASSUME NEW S, NEW n
  PROVE  UnitsOf(S \cup {n}) = UnitsOf(S) \cup Units(n.addr, n.len)
BY DEF UnitsOf

LEMMA UnitsOfApart ==
  ASSUME NEW S, NEW X, \A m \in S : Units(m.addr, m.len) \cap X = {}
  PROVE  UnitsOf(S) \cap X = {}
BY DEF UnitsOf

\* What is held by all but t: the units of that, and that it is disjoint.
Others(t) == objects \cup {hmap[u] : u \in Making \ {t}}
                     \cup {victim[u] : u \in Unmapping}

ApartOthers(t) ==
  /\ \A o \in objects : /\ \A p \in objects : o # p => Disjoint(o, p)
                        /\ \A u \in Making \ {t} : Disjoint(o, hmap[u])
                        /\ \A u \in Unmapping : Disjoint(o, victim[u])
  /\ \A u, v \in Making \ {t} : u # v => Disjoint(hmap[u], hmap[v])
  /\ \A u \in Unmapping : /\ \A v \in Making \ {t} : Disjoint(hmap[v], victim[u])
                          /\ \A v \in Unmapping :
                               u # v => Disjoint(victim[u], victim[v])

LEMMA HeldSplits ==
  ASSUME NEW t
  PROVE  Held = IF t \in Making THEN Others(t) \cup {hmap[t]} ELSE Others(t)
BY DEF Held, Others

ApartSplit(t) ==
  ApartInv <=> /\ ApartOthers(t)
               /\ t \in Making => \A m \in Others(t) : Disjoint(m, hmap[t])

AllSplit == \A t : ApartSplit(t)

LEMMA ApartSplits == AllSplit
<1> SUFFICES ASSUME NEW t
             PROVE  ApartSplit(t)
  BY DEF AllSplit
<1>0. \A m, n : Disjoint(m, n) <=> Disjoint(n, m)
  BY DEF Disjoint
<1>1. CASE t \in Making
  <2>1. ASSUME ApartInv
        PROVE  ApartOthers(t) /\ \A m \in Others(t) : Disjoint(m, hmap[t])
    <3>1. ApartOthers(t)
      BY <2>1 DEF ApartInv, ApartOthers
    <3>2. \A m \in Others(t) : Disjoint(m, hmap[t])
      BY <2>1, <1>0, <1>1 DEF ApartInv, Others
    <3> QED
      BY <3>1, <3>2
  <2>2. ASSUME ApartOthers(t), \A m \in Others(t) : Disjoint(m, hmap[t])
        PROVE  ApartInv
    <3>1. /\ \A o \in objects : Disjoint(o, hmap[t])
          /\ \A u \in Making \ {t} : Disjoint(hmap[u], hmap[t])
          /\ \A u \in Unmapping : Disjoint(victim[u], hmap[t])
      BY <2>2 DEF Others
    <3>2. /\ \A o \in objects : \A u \in Making : Disjoint(o, hmap[u])
          /\ \A u \in Unmapping : \A v \in Making : Disjoint(hmap[v], victim[u])
      BY <3>1, <2>2, <1>0 DEF ApartOthers
    <3>3. \A u, v \in Making : u # v => Disjoint(hmap[u], hmap[v])
      BY <3>1, <2>2, <1>0 DEF ApartOthers
    <3> QED
      BY <3>2, <3>3, <2>2 DEF ApartInv, ApartOthers
  <2> QED
    BY <2>1, <2>2, <1>1 DEF ApartSplit
<1>2. CASE t \notin Making
  <2>1. Making \ {t} = Making
    BY <1>2
  <2> QED
    BY <2>1, <1>2 DEF ApartInv, ApartOthers, ApartSplit
<1> QED
  BY <1>1, <1>2

\* Disjointness of the threads' mappings gives that of the set.
MappedHeld == mapped = UnitsOf(Held)

LEMMA HeldFollows == ApartInv /\ MappedHeld => HeldInv
<1> SUFFICES ASSUME ApartInv, MappedHeld
             PROVE  HeldInv
  OBVIOUS
<1>1. ASSUME NEW m \in Held, NEW n \in Held, m # n
      PROVE  Disjoint(m, n)
  <2>0. \A x, y : Disjoint(x, y) <=> Disjoint(y, x)
    BY DEF Disjoint
  <2>1. CASE m \in objects
    BY <2>0, <2>1, <1>1 DEF ApartInv, Held
  <2>2. CASE m \in {hmap[t] : t \in Making}
    BY <2>0, <2>2, <1>1 DEF ApartInv, Held
  <2>3. CASE m \in {victim[t] : t \in Unmapping}
    BY <2>0, <2>3, <1>1 DEF ApartInv, Held
  <2> QED
    BY <2>1, <2>2, <2>3 DEF Held
<1> QED
  BY <1>1 DEF HeldInv, UnitsOf, MappedHeld

\* A call of huge_malloc holds other units than before, which nobody else does.
LEMMA CallMapped ==
  ASSUME HeldInv, ApartInv, NEW t, UNCHANGED objects,
         Making' \ {t} = Making \ {t}, Unmapping' = Unmapping,
         \A u \in Making : u # t => hmap'[u] = hmap[u],
         \A u \in Unmapping : victim'[u] = victim[u],
         NEW old, old = IF t \in Making THEN Units(hmap[t].addr, hmap[t].len) ELSE {},
         NEW new, new = IF t \in Making' THEN Units(hmap'[t].addr, hmap'[t].len)
                                         ELSE {},
         mapped' = (mapped \ old) \cup new, new \cap (mapped \ old) = {}
  PROVE  HeldInv' /\ ApartInv'
<1>1. /\ Others(t)' = Others(t) /\ ApartOthers(t)
      /\ t \in Making => \A m \in Others(t) : Disjoint(m, hmap[t])
  <2>1. Others(t)' = Others(t)
    BY DEF Others
  <2> QED
    BY <2>1, ApartSplits DEF AllSplit, ApartSplit
<1>2. ApartOthers(t)'
  BY <1>1 DEF ApartOthers
<1>3. PICK S : S = UnitsOf(Others(t))
  OBVIOUS
<1>4. mapped = S \cup old /\ S \cap old = {}
  <2>1. mapped = UnitsOf(Held)
    BY DEF HeldInv, UnitsOf
  <2>2. CASE t \in Making
    <3>1. UnitsOf(Held) = S \cup old
      BY <2>2, <1>3, HeldSplits, UnitsOfWith
    <3>2. \A m \in Others(t) : Units(m.addr, m.len) \cap old = {}
      BY <2>2, <1>1 DEF Disjoint
    <3> QED
      BY <2>1, <3>1, <3>2, <1>3, UnitsOfApart
  <2>3. CASE t \notin Making
    BY <2>1, <2>3, <1>3, HeldSplits
  <2> QED
    BY <2>2, <2>3
<1>5. mapped' = S \cup new /\ S \cap new = {}
  BY <1>4
<1>6. UnitsOf(Others(t))' = S
  BY <1>1, <1>3 DEF UnitsOf
<1>7. t \in Making' => \A m \in Others(t)' : Disjoint(m, hmap'[t])
  <2> SUFFICES ASSUME t \in Making', NEW m \in Others(t)
               PROVE  Disjoint(m, hmap'[t])
    BY <1>1
  <2>1. Units(m.addr, m.len) \subseteq S
    BY <1>3 DEF UnitsOf
  <2> QED
    BY <2>1, <1>5 DEF Disjoint
<1>8. ApartInv'
  <2>1. AllSplit'
    BY ApartSplits, PTL
  <2>2. ApartSplit(t)'
    BY <2>1 DEF AllSplit
  <2> QED
    BY <2>2, <1>2, <1>7 DEF ApartSplit
<1>9. MappedHeld'
  <2>1. Held' = IF t \in Making' THEN Others(t)' \cup {hmap'[t]} ELSE Others(t)'
    BY DEF Held, Others
  <2>2. CASE t \in Making'
    <3>1. Held' = Others(t)' \cup {hmap'[t]}
      BY <2>1, <2>2
    <3> QED
      BY <3>1, <2>2, <1>5, <1>6, UnitsOfWith DEF UnitsOf, MappedHeld
  <2>3. CASE t \notin Making'
    BY <2>1, <2>3, <1>5, <1>6 DEF UnitsOf, MappedHeld
  <2> QED
    BY <2>2, <2>3
<1>10. HeldInv'
  BY <1>8, <1>9, HeldFollows, PTL
<1> QED
  BY <1>8, <1>10

\* A thread moves, and no node in use changes.
LEMMA TreeKept ==
  ASSUME HugeTypeOK, TreeInv, NEW t \in Threads, NEW to, to # "aborted",
         hpc' = [hpc EXCEPT ![t] = to],
         to = "insert" => ~FrameInUse(t),
         Freeing' \subseteq Freeing, Unmapping' \subseteq Unmapping,
         UNCHANGED <<tree, objects>>,
         \A u \in Freeing' : /\ found'[u] = found[u] /\ victim'[u] = victim[u]
                             /\ slot'[found[u]] = slot[found[u]],
         \A u \in tree : slot'[u] = slot[u]
  PROVE  TreeInv'
<1>1. \A u \in Threads : u # t => hpc'[u] = hpc[u]
  BY DEF HugeTypeOK
<1>2. tree \subseteq Threads /\ \A u \in Freeing : found[u] \in Threads
  BY HugeTypes DEF HugeTypeOK, Freeing
<1>3. ~Aborted'
  BY ThreadMoves DEF TreeInv, Aborted
<1>4. /\ \A u \in tree : slot'[u] = slot[u] /\ hpc'[u] # "insert"
      /\ \A u \in Freeing' : /\ slot'[found[u]] = slot[found[u]]
                             /\ hpc'[found[u]] # "insert"
  <2>1. /\ hpc'[t] = to
        /\ \A u \in tree : hpc[u] # "insert"
        /\ \A u \in Freeing : hpc[found[u]] # "insert"
    BY DEF TreeInv, HugeTypeOK
  <2> QED
    BY <2>1, <1>1, <1>2 DEF FrameInUse
<1>5. /\ IsFiniteSet(tree) /\ IsFiniteSet(objects)
      /\ Cardinality(tree) = Cardinality(objects)
  BY DEF TreeInv
<1>6. /\ \A u \in tree : /\ hpc'[u] # "insert"
                         /\ \E o \in objects : /\ slot'[u].paddr = o.addr
                                               /\ slot'[u].size = o.len
      /\ \A u, v \in tree : slot'[u].paddr = slot'[v].paddr => u = v
      /\ \A o \in objects : \E u \in tree : /\ slot'[u].paddr = o.addr
                                            /\ slot'[u].size = o.len
  BY <1>4 DEF TreeInv
<1>7. \A w \in Freeing' :
        /\ found'[w] \notin tree /\ hpc'[found'[w]] # "insert"
        /\ \A u \in Freeing' : found'[w] = found'[u] => w = u
        /\ w \in Unmapping' => /\ slot'[found'[w]].paddr = victim'[w].addr
                               /\ slot'[found'[w]].size = victim'[w].len
  BY <1>4 DEF TreeInv
<1> QED
  BY <1>3, <1>5, <1>6, <1>7 DEF TreeInv

\* No node in use is about to be linked.
LEMMA CallerHasNoNode ==
  ASSUME TreeInv, NEW t \in Threads, hpc[t] = "insert"
  PROVE  t \notin tree /\ \A u \in Freeing : found[u] # t
BY DEF TreeInv

\* What the calls know of their mappings, but for one that moves.
LEMMA SizesFollow ==
  ASSUME SizesInv, NEW t, Creating' \subseteq Creating \cup {t},
         t \in Creating' => CallSizesInv(t)',
         UNCHANGED objects, Unmapping' \subseteq Unmapping,
         \A u \in Unmapping' : victim'[u] = victim[u],
         \A u \in Creating : u # t => /\ hpc'[u] = hpc[u] /\ hsize'[u] = hsize[u]
                                      /\ hmap'[u] = hmap[u]
                                      /\ hpc[u] = "insert" => slot'[u] = slot[u]
  PROVE  SizesInv'
<1>1. ASSUME NEW u \in Creating, u # t
      PROVE  CallSizesInv(u)'
  <2>1. CallSizesInv(u)
    BY DEF SizesInv
  <2> QED
    BY <1>1, <2>1 DEF CallSizesInv, Aligned, Ceiling
<1> QED
  BY <1>1 DEF SizesInv, Aligned, Ceiling

\* A call of huge_malloc begins or goes on: it is at a place to, and has the
\* units new in the place of old.
CallGoes(t, to, old, new) ==
  /\ to \in CreatingPlaces /\ hpc[t] \in CreatingPlaces \cup {"idle"}
  /\ hpc' = [hpc EXCEPT ![t] = to]
  /\ slot' = slot \/ ~FrameInUse(t)
  /\ to = "insert" => ~FrameInUse(t)
  /\ UNCHANGED <<objects, tree, found, victim>>
  /\ \A u \in Threads : u # t => /\ hsize'[u] = hsize[u] /\ hmap'[u] = hmap[u]
                                 /\ slot'[u] = slot[u]
  /\ old = IF hpc[t] \in MakingPlaces
             THEN Units(hmap[t].addr, hmap[t].len) ELSE {}
  /\ new = IF to \in MakingPlaces
             THEN Units(hmap'[t].addr, hmap'[t].len) ELSE {}
  /\ mapped' = (mapped \ old) \cup new /\ new \cap (mapped \ old) = {}

LEMMA CallKeepsOthers ==
  ASSUME HugeTypeOK, HugeInv, NEW t \in Threads, NEW to, NEW old, NEW new,
         CallGoes(t, to, old, new), CallSizesInv(t)'
  PROVE  HugeInv'
<1> USE DEF CallGoes
<1>0. SizesInv /\ HeldInv /\ ApartInv /\ TreeInv
  BY DEF HugeInv
<1>1. /\ hpc[t] \notin FreeingPlaces /\ hpc[t] \notin UnmappingPlaces
      /\ to \notin FreeingPlaces /\ to \notin UnmappingPlaces
      /\ to # "aborted"
      /\ hpc[t] # "idle" => hpc[t] \in CreatingPlaces
      /\ t \notin Freeing /\ t \notin Unmapping
      /\ t \in Making <=> hpc[t] \in MakingPlaces
  BY DEF CreatingPlaces, MakingPlaces, FreeingPlaces, UnmappingPlaces, Freeing,
     Unmapping, Making
<1>2. /\ \A u \in Threads : u # t => hpc'[u] = hpc[u]
      /\ Creating' = Creating \cup {t} /\ Freeing' = Freeing
      /\ Unmapping' = Unmapping /\ Making' \ {t} = Making \ {t}
      /\ t \in Making' <=> to \in MakingPlaces
  <2>1. /\ \A u \in Threads : u # t => hpc'[u] = hpc[u]
        /\ Creating' = Creating \cup {t} /\ Freeing' = Freeing \ {t}
        /\ Unmapping' = Unmapping \ {t}
    BY <1>1, ThreadMoves
  <2>2. Making' = IF to \in MakingPlaces THEN Making \cup {t} ELSE Making \ {t}
    BY ThreadMoves
  <2> QED
    BY <1>1, <2>1, <2>2
<1>4. SizesInv'
  <2>1. \A u \in Creating : u \in Threads
    BY DEF Creating
  <2> QED
    BY <2>1, <1>0, <1>2, SizesFollow
<1>5. HeldInv' /\ ApartInv'
  <2>1. \A u \in Making : u \in Threads
    BY DEF Making
  <2>2. \A u \in Making : u # t => hmap'[u] = hmap[u]
    BY <2>1
  <2> QED
    BY <2>2, <1>0, <1>1, <1>2, CallMapped
<1>6. TreeInv'
  <2>1. /\ \A u \in tree : slot'[u] = slot[u]
        /\ \A u \in Freeing : slot'[found[u]] = slot[found[u]]
    <3>1. tree \subseteq Threads /\ \A u \in Freeing : found[u] \in Threads
      BY HugeTypes DEF HugeTypeOK, Freeing
    <3> QED
      BY <3>1 DEF FrameInUse
  <2> QED
    BY <2>1, <1>0, <1>1, <1>2, TreeKept
<1> QED
  BY <1>4, <1>5, <1>6 DEF HugeInv

\* The call maps and unmaps nothing.
LEMMA CallKeepsMapping ==
  ASSUME HugeTypeOK, HugeInv, NEW t \in Threads, NEW to \in CreatingPlaces,
         hpc' = [hpc EXCEPT ![t] = to],
         hpc[t] \in CreatingPlaces \cup {"idle"},
         slot' = slot \/ ~FrameInUse(t), to = "insert" => ~FrameInUse(t),
         UNCHANGED <<objects, tree, found, victim, mapped, hmap>>,
         \A u \in Threads : u # t => hsize'[u] = hsize[u] /\ slot'[u] = slot[u],
         CallSizesInv(t)', (to \in MakingPlaces) <=> (hpc[t] \in MakingPlaces)
  PROVE  HugeInv'
<1>1. PICK old : old = IF hpc[t] \in MakingPlaces
                         THEN Units(hmap[t].addr, hmap[t].len) ELSE {}
  OBVIOUS
<1>2. old \subseteq mapped
  <2>1. CASE hpc[t] \in MakingPlaces
    <3>1. hmap[t] \in Held
      BY <2>1 DEF Held, Making, MakingPlaces
    <3> QED
      BY <3>1, <2>1, <1>1 DEF HugeInv, HeldInv
  <2>2. CASE hpc[t] \notin MakingPlaces
    BY <1>1, <2>2
  <2> QED
    BY <2>1, <2>2
<1>3. mapped' = (mapped \ old) \cup old /\ old \cap (mapped \ old) = {}
  BY <1>2
<1>4. old = IF to \in MakingPlaces THEN Units(hmap'[t].addr, hmap'[t].len) ELSE {}
  BY <1>1
<1>5. /\ UNCHANGED <<objects, tree, found, victim>>
      /\ \A u \in Threads : u # t => /\ hsize'[u] = hsize[u] /\ hmap'[u] = hmap[u]
                                     /\ slot'[u] = slot[u]
  OBVIOUS
<1>6. CallGoes(t, to, old, old)
  BY <1>1, <1>3, <1>4, <1>5 DEF CallGoes
<1> QED
  BY <1>6, CallKeepsOthers

\* huge_malloc begins, counts its file, unmaps a misaligned mapping and removes
\* its file, adds to pmem_consmp and fills its node.
LEMMA SimpleStepsOK ==
  ASSUME HugeTypeOK, HugeInv, NEW t \in Threads, ~torn',
         \/ HugeMalloc(t) \/ CountFile(t) \/ RemoveMisaligned(t) \/ AddConsmp(t)
         \/ FillNode(t)
  PROVE  HugeInv'
<1>0. SizesInv
  BY DEF HugeInv
<1>1. CASE HugeMalloc(t)
  <2>1. /\ hpc[t] = "idle" /\ hpc' = [hpc EXCEPT ![t] = "count"]
        /\ ReuseFrame(t) /\ \E size \in Sizes : hsize' = [hsize EXCEPT ![t] = size]
        /\ UNCHANGED <<objects, tree, found, victim, mapped, hmap>>
    BY <1>1 DEF HugeMalloc, HGo
  <2>2. slot' = slot
    BY <2>1 DEF ReuseFrame, Overwrite
  <2>3. hsize'[t] \in Sizes /\ \A u \in Threads : u # t => hsize'[u] = hsize[u]
    BY <2>1 DEF HugeTypeOK
  <2>4. CallSizesInv(t)'
    BY <2>1, <2>3 DEF CallSizesInv, HugeTypeOK
  <2> QED
    BY <2>1, <2>2, <2>3, <2>4, CallKeepsMapping DEF CreatingPlaces, MakingPlaces
<1>2. CASE CountFile(t) \/ RemoveMisaligned(t) \/ AddConsmp(t)
  <2>1. /\ UNCHANGED <<objects, tree, found, victim, mapped, hmap, hsize, slot>>
        /\ \/ hpc[t] = "count" /\ hpc' = [hpc EXCEPT ![t] = "map"]
           \/ hpc[t] = "remove" /\ hpc' = [hpc EXCEPT ![t] = "remap"]
           \/ hpc[t] = "consmp" /\ hpc' = [hpc EXCEPT ![t] = "node"]
    BY <1>2 DEF CountFile, RemoveMisaligned, AddConsmp, HGo, hlocals, hshared
  <2>2. CallSizesInv(t)
    BY <1>0, <2>1 DEF SizesInv, Creating
  <2>3. CallSizesInv(t)'
    BY <2>1, <2>2 DEF CallSizesInv, HugeTypeOK, Aligned, Ceiling
  <2> QED
    BY <2>1, <2>3, CallKeepsMapping DEF CreatingPlaces, MakingPlaces
<1>3. CASE FillNode(t)
  <2>1. /\ UNCHANGED <<objects, tree, found, victim, mapped, hmap, hsize>>
        /\ hpc[t] = "node" /\ hpc' = [hpc EXCEPT ![t] = "insert"]
        /\ slot' = [slot EXCEPT ![t] = [file_no |-> mmap_file,
                                        paddr |-> hmap[t].addr, size |-> hsize[t]]]
        /\ ~FrameInUse(t)
    BY <1>3 DEF FillNode, HGo, hlocals
  <2>2. CallSizesInv(t)
    BY <1>0, <2>1 DEF SizesInv, Creating
  <2>3. /\ slot'[t].paddr = hmap[t].addr /\ slot'[t].size = hsize[t]
        /\ \A u \in Threads : u # t => slot'[u] = slot[u]
    BY <2>1 DEF HugeTypeOK
  <2>4. CallSizesInv(t)'
    BY <2>1, <2>2, <2>3 DEF CallSizesInv, HugeTypeOK, Aligned, Ceiling
  <2> QED
    BY <2>1, <2>3, <2>4, CallKeepsMapping DEF CreatingPlaces, MakingPlaces
<1> QED
  BY <1>1, <1>2, <1>3

LEMMA UnmapMisalignedOK ==
  ASSUME HugeTypeOK, HugeInv, NEW t \in Threads, UnmapMisaligned(t)
  PROVE  HugeInv'
<1>1. /\ UNCHANGED <<objects, tree, found, victim, hmap, hsize, slot>>
      /\ hpc[t] = "unmap" /\ hpc' = [hpc EXCEPT ![t] = "remove"]
      /\ mapped' = mapped \ Units(hmap[t].addr, hmap[t].len)
  BY DEF UnmapMisaligned, HGo, hlocals
<1>2. PICK old : old = Units(hmap[t].addr, hmap[t].len)
  OBVIOUS
<1>3. PICK new : new = {}
  OBVIOUS
<1>4. mapped' = (mapped \ old) \cup new /\ new \cap (mapped \ old) = {}
  BY <1>1, <1>2, <1>3
<1>5. CallSizesInv(t)'
  <2>1. CallSizesInv(t)
    BY <1>1 DEF HugeInv, SizesInv, Creating
  <2> QED
    BY <2>1, <1>1 DEF CallSizesInv, HugeTypeOK
<1>6. /\ "unmap" \in CreatingPlaces /\ "remove" \in CreatingPlaces
      /\ "unmap" \in MakingPlaces /\ "remove" \notin MakingPlaces
  BY DEF CreatingPlaces, MakingPlaces
<1>7. /\ hpc[t] \in CreatingPlaces \cup {"idle"}
      /\ slot' = slot \/ ~FrameInUse(t)
      /\ "remove" = "insert" => ~FrameInUse(t)
      /\ UNCHANGED <<objects, tree, found, victim>>
      /\ hpc' = [hpc EXCEPT ![t] = "remove"]
  BY <1>1, <1>6
<1>8. \A u \in Threads : u # t => /\ hsize'[u] = hsize[u] /\ hmap'[u] = hmap[u]
                                  /\ slot'[u] = slot[u]
  BY <1>1
<1>9. /\ old = IF hpc[t] \in MakingPlaces
                 THEN Units(hmap[t].addr, hmap[t].len) ELSE {}
      /\ new = IF "remove" \in MakingPlaces
                 THEN Units(hmap'[t].addr, hmap'[t].len) ELSE {}
  BY <1>1, <1>2, <1>3, <1>6
<1>10. CallGoes(t, "remove", old, new)
  BY <1>4, <1>6, <1>7, <1>8, <1>9 DEF CallGoes
<1> QED
  BY <1>5, <1>10, CallKeepsOthers

\* What is left of the longer mapping is as long as the object, and aligned.
LEMMA TrimObjectOK ==
  ASSUME HugeTypeOK, HugeInv, NEW t \in Threads, TrimObject(t)
  PROVE  HugeInv'
<1> DEFINE addr == hmap[t].addr
           size == hsize[t]
           ret == Ceiling(addr)
           cut == Units(addr, ret - addr)
                    \cup Units(ret + size, addr + ChunkUnits - ret)
<1>1. /\ hpc[t] = "trim" /\ hpc' = [hpc EXCEPT ![t] = "consmp"]
      /\ mapped' = mapped \ cut
      /\ hmap' = [hmap EXCEPT ![t] = [addr |-> ret, len |-> size,
                                      ino |-> hmap[t].ino]]
      /\ UNCHANGED <<hsize, found, victim, slot, tree, objects>>
  BY DEF TrimObject, HGo
<1>2. /\ addr \in Nat /\ size \in Nat /\ hmap[t].len = size + ChunkUnits
      /\ size \in Sizes
  <2>1. hmap[t] \in Mapping /\ hsize[t] \in Nat
    BY HugeTypes
  <2>2. addr \in Nat
    BY <2>1, HugeTypes
  <2>3. CallSizesInv(t)
    BY <1>1 DEF HugeInv, SizesInv, Creating
  <2> QED
    BY <2>1, <2>2, <2>3, <1>1 DEF CallSizesInv
<1>3. ret \in Nat /\ addr <= ret /\ ret < addr + ChunkUnits /\ Aligned(ret)
  BY <1>2, CeilingIsNextMultiple
<1> HIDE DEF ret
<1>4. /\ Units(addr, hmap[t].len) \ cut = Units(ret, size)
      /\ Units(ret, size) \subseteq Units(addr, hmap[t].len)
      /\ cut \subseteq Units(addr, hmap[t].len)
  BY <1>2, <1>3, TrimLeavesTheObject
<1>5. /\ hmap'[t].addr = ret /\ hmap'[t].len = size
      /\ \A u \in Threads : u # t => hmap'[u] = hmap[u]
  BY <1>1 DEF HugeTypeOK
<1>6. CallSizesInv(t)'
  <2>1. hpc'[t] = "consmp" /\ hsize'[t] = size
    BY <1>1 DEF HugeTypeOK
  <2> QED
    BY <2>1, <1>2, <1>3, <1>5 DEF CallSizesInv, Aligned, Ceiling
<1>7. PICK old : old = Units(addr, hmap[t].len)
  OBVIOUS
<1>8. PICK new : new = Units(ret, size)
  OBVIOUS
<1>9. old \subseteq mapped
  <2>1. hmap[t] \in Held
    BY <1>1 DEF Held, Making
  <2> QED
    BY <2>1, <1>7 DEF HugeInv, HeldInv
<1>10. /\ mapped' = (mapped \ old) \cup new /\ new \cap (mapped \ old) = {}
  BY <1>1, <1>4, <1>7, <1>8, <1>9
<1>11. /\ "trim" \in CreatingPlaces /\ "consmp" \in CreatingPlaces
       /\ "trim" \in MakingPlaces /\ "consmp" \in MakingPlaces
  BY DEF CreatingPlaces, MakingPlaces
<1>12. /\ old = Units(hmap[t].addr, hmap[t].len)
       /\ new = Units(hmap'[t].addr, hmap'[t].len)
  BY <1>5, <1>7, <1>8
<1>13. /\ old = IF hpc[t] \in MakingPlaces THEN Units(hmap[t].addr, hmap[t].len) ELSE {}
       /\ new = IF "consmp" \in MakingPlaces
                  THEN Units(hmap'[t].addr, hmap'[t].len) ELSE {}
       /\ hpc[t] \in CreatingPlaces /\ UNCHANGED <<objects, tree, found, victim>>
       /\ \A u \in Threads : u # t => /\ hsize'[u] = hsize[u] /\ hmap'[u] = hmap[u]
                                     /\ slot'[u] = slot[u]
       /\ slot' = slot
  BY <1>1, <1>5, <1>11, <1>12
<1>14. hpc' = [hpc EXCEPT ![t] = "consmp"] /\ "consmp" # "insert"
  BY <1>1
<1> HIDE DEF addr, size, cut
<1>15. CallGoes(t, "consmp", old, new)
  BY <1>10, <1>11, <1>13, <1>14 DEF CallGoes
<1> QED
  BY <1>6, <1>15, CallKeepsOthers

\* A mapping takes units that were mapped for nothing else.
LEMMA MapsOK ==
  ASSUME HugeTypeOK, HugeInv, NEW t \in Threads, MapObject(t) \/ RemapObject(t)
  PROVE  HugeInv'
<1>1. PICK len : /\ HugeMap(t, len)
                 /\ \/ hpc[t] = "map" /\ len = hsize[t]
                    \/ hpc[t] = "remap" /\ len = hsize[t] + ChunkUnits
  BY DEF MapObject, RemapObject, HGo
<1>2. /\ UNCHANGED <<hsize, found, victim, slot, tree, objects>>
      /\ \E addr, i : /\ Units(addr, len) \cap mapped = {}
                      /\ mapped' = mapped \cup Units(addr, len)
                      /\ hmap' = [hmap EXCEPT ![t] = [addr |-> addr, len |-> len,
                                                      ino |-> i]]
  BY <1>1 DEF HugeMap
<1>3. /\ Units(hmap'[t].addr, hmap'[t].len) \cap mapped = {}
      /\ mapped' = mapped \cup Units(hmap'[t].addr, hmap'[t].len)
      /\ hmap'[t].len = len /\ \A u \in Threads : u # t => hmap'[u] = hmap[u]
  BY <1>2 DEF HugeTypeOK
<1>4. PICK to \in {"unmap", "consmp", "trim"} :
        /\ hpc' = [hpc EXCEPT ![t] = to]
        /\ to = "consmp" => Aligned(hmap'[t].addr)
        /\ to = "trim" <=> hpc[t] = "remap"
  <2>1. CASE MapObject(t)
    BY <2>1 DEF MapObject
  <2>2. CASE RemapObject(t)
    BY <2>2 DEF RemapObject, HGo
  <2> QED
    BY <2>1, <2>2
<1>5. CallSizesInv(t)'
  <2>1. CallSizesInv(t)
    BY <1>1 DEF HugeInv, SizesInv, Creating
  <2>2. hpc'[t] = to /\ hsize'[t] = hsize[t]
    BY <1>2, <1>4 DEF HugeTypeOK
  <2> QED
    BY <2>1, <2>2, <1>1, <1>3, <1>4 DEF CallSizesInv, Aligned, Ceiling
<1>6. /\ hpc[t] \in CreatingPlaces /\ hpc[t] \notin MakingPlaces
      /\ to \in CreatingPlaces /\ to \in MakingPlaces
  BY <1>1 DEF CreatingPlaces, MakingPlaces
<1>7. PICK old : old = {}
  OBVIOUS
<1>8. PICK new : new = Units(hmap'[t].addr, hmap'[t].len)
  OBVIOUS
<1>9. mapped' = (mapped \ old) \cup new /\ new \cap (mapped \ old) = {}
  BY <1>3, <1>7, <1>8
<1>10. /\ hpc[t] \in CreatingPlaces \cup {"idle"}
       /\ slot' = slot \/ ~FrameInUse(t)
       /\ to = "insert" => ~FrameInUse(t)
       /\ UNCHANGED <<objects, tree, found, victim>>
       /\ hpc' = [hpc EXCEPT ![t] = to]
  BY <1>2, <1>4, <1>6
<1>11. \A u \in Threads : u # t => /\ hsize'[u] = hsize[u] /\ hmap'[u] = hmap[u]
                                   /\ slot'[u] = slot[u]
  BY <1>2, <1>3
<1>12. /\ old = IF hpc[t] \in MakingPlaces
                  THEN Units(hmap[t].addr, hmap[t].len) ELSE {}
       /\ new = IF to \in MakingPlaces
                  THEN Units(hmap'[t].addr, hmap'[t].len) ELSE {}
  BY <1>6, <1>7, <1>8
<1>13. CallGoes(t, to, old, new)
  BY <1>6, <1>9, <1>10, <1>11, <1>12 DEF CallGoes
<1> QED
  BY <1>5, <1>13, CallKeepsOthers

\* The end of a call touches no other call.
LEMMA OtherLocalsStay ==
  ASSUME HugeTypeOK, NEW t \in Threads, EndCall(t)
  PROVE  \A u \in Threads : u # t => /\ hstr'[u] = hstr[u] /\ hsize'[u] = hsize[u]
                                     /\ hmap'[u] = hmap[u] /\ victim'[u] = victim[u]
                                     /\ found'[u] = found[u]
BY DEF EndCall, HugeTypeOK

\* Two mappings that have a size and begin at one address are not disjoint.
LEMMA SameAddressMeets ==
  ASSUME NEW m \in Mapping, NEW n \in Mapping, m.addr = n.addr,
         m.len \in Sizes, n.len \in Sizes
  PROVE  ~Disjoint(m, n)
<1>1. m.addr \in Nat /\ m.len \in Nat \ {0} /\ n.len \in Nat \ {0}
  BY FileConstants DEF Mapping
<1>2. m.addr \in Units(m.addr, m.len) /\ m.addr \in Units(n.addr, n.len)
  BY <1>1 DEF Units
<1> QED
  BY <1>2 DEF Disjoint

\* No linked node has the address of the new one; the object is live with it.
LEMMA InsertNodeOK ==
  ASSUME HugeTypeOK, HugeInv, NEW t \in Threads, InsertNode(t), ~torn'
  PROVE  HugeInv'
<1>0. SizesInv /\ HeldInv /\ ApartInv /\ TreeInv
  BY DEF HugeInv
<1>n. PICK new : new = hmap[t]
  OBVIOUS
<1>1. /\ hpc[t] = "insert" /\ EndCall(t) /\ ~torn
      /\ UNCHANGED <<slot, mapped>>
  BY DEF InsertNode
<1>2. /\ t \in Creating /\ t \in Making /\ t \notin Freeing /\ t \notin Unmapping
      /\ t \notin tree
  BY <1>0, <1>1, CallerHasNoNode DEF Creating, Making, Freeing, Unmapping
<1>3. /\ new \in Mapping /\ new.len = hsize[t] /\ new.len \in Sizes
      /\ Aligned(new.addr) /\ slot[t].paddr = new.addr /\ slot[t].size = new.len
  <2>1. CallSizesInv(t) /\ new \in Mapping
    BY <1>0, <1>2, <1>n, HugeTypes DEF SizesInv
  <2> QED
    BY <2>1, <1>1, <1>n DEF CallSizesInv
<1>4. /\ \A o \in objects : /\ o \in Mapping /\ o.len \in Sizes
                            /\ Disjoint(o, new) /\ o.addr # new.addr
      /\ new \notin objects
  <2>1. ASSUME NEW o \in objects
        PROVE  o \in Mapping /\ o.len \in Sizes /\ Disjoint(o, new)
    BY <1>0, <1>2, <1>n, HugeTypes DEF SizesInv, ApartInv
  <2> QED
    BY <2>1, <1>3, SameAddressMeets
<1>5. \A u \in tree : slot[u].paddr # slot[t].paddr
  BY <1>0, <1>3, <1>4 DEF TreeInv
<1>6. /\ tree' = tree \cup {t} /\ objects' = objects \cup {new}
      /\ hpc' = [hpc EXCEPT ![t] = "idle"]
  <2>1. tree \ {t} = tree
    BY <1>2
  <2> QED
    BY <2>1, <1>1, <1>5, <1>n DEF InsertNode, Remains
<1>7. /\ hpc'[t] = "idle" /\ \A u \in Threads : u # t => hpc'[u] = hpc[u]
      /\ Creating' = Creating \ {t} /\ Freeing' = Freeing /\ Unmapping' = Unmapping
      /\ Making' = Making \ {t}
  <2>1. /\ hpc'[t] = "idle" /\ \A u \in Threads : u # t => hpc'[u] = hpc[u]
        /\ Creating' = Creating \ {t} /\ Freeing' = Freeing \ {t}
        /\ Making' = Making \ {t} /\ Unmapping' = Unmapping \ {t}
    BY <1>6, ThreadReturns
  <2> QED
    BY <2>1, <1>2
<1>8. /\ \A u \in Threads : u # t => /\ hsize'[u] = hsize[u] /\ hmap'[u] = hmap[u]
                                     /\ victim'[u] = victim[u] /\ found'[u] = found[u]
  BY <1>1, OtherLocalsStay
<1>9. /\ \A u \in Unmapping : victim'[u] = victim[u]
      /\ \A u \in Freeing : u \in Threads /\ found'[u] = found[u]
      /\ \A u \in Making' : hmap'[u] = hmap[u]
  BY <1>2, <1>7, <1>8 DEF Unmapping, Freeing, Making
<1>14. SizesInv'
  <2>1. \A o \in objects \cup {new} : Aligned(o.addr) /\ o.len \in Sizes
    BY <1>0, <1>3 DEF SizesInv
  <2>2. \A u \in Unmapping : victim'[u].len \in Sizes
    BY <1>0, <1>9 DEF SizesInv
  <2>3. ASSUME NEW u \in Creating \ {t}
        PROVE  CallSizesInv(u)'
    <3>1. CallSizesInv(u) /\ u \in Threads
      BY <1>0 DEF SizesInv, Creating
    <3> QED
      BY <3>1, <1>1, <1>7, <1>8 DEF CallSizesInv, Aligned, Ceiling
  <2> QED
    BY <2>1, <2>2, <2>3, <1>6, <1>7 DEF SizesInv, Aligned, Ceiling
<1>15. HeldInv' /\ ApartInv'
  <2>1. Held' = Held
    BY <1>2, <1>6, <1>7, <1>9, <1>n DEF Held
  <2>2. HeldInv'
    BY <2>1, <1>0, <1>1 DEF HeldInv
  <2>3. \A o, p \in objects \cup {new} : o # p => Disjoint(o, p)
    <3>1. \A o \in objects : Disjoint(o, new) /\ Disjoint(new, o)
      BY <1>4 DEF Disjoint
    <3> QED
      BY <3>1, <1>0 DEF ApartInv
  <2>4. \A u \in Unmapping : /\ \A o \in objects \cup {new} : Disjoint(o, victim'[u])
                             /\ \A v \in Making' : Disjoint(hmap'[v], victim'[u])
                             /\ \A v \in Unmapping : u # v =>
                                  Disjoint(victim'[u], victim'[v])
    BY <1>0, <1>2, <1>7, <1>9, <1>n DEF ApartInv
  <2>5. /\ \A o \in objects \cup {new} : \A v \in Making' : Disjoint(o, hmap'[v])
        /\ \A u, v \in Making' : u # v => Disjoint(hmap'[u], hmap'[v])
    BY <1>0, <1>2, <1>7, <1>9, <1>n DEF ApartInv
  <2>6. ApartInv'
    BY <2>3, <2>4, <2>5, <1>6, <1>7 DEF ApartInv
  <2> QED
    BY <2>2, <2>6
<1>16. TreeInv'
  <2>1. ~Aborted'
    BY <1>0, <1>7 DEF TreeInv, Aborted
  <2>2. /\ IsFiniteSet(tree \cup {t}) /\ IsFiniteSet(objects \cup {new})
        /\ Cardinality(tree \cup {t}) = Cardinality(objects \cup {new})
    <3>1. /\ IsFiniteSet(tree) /\ IsFiniteSet(objects)
          /\ Cardinality(tree) = Cardinality(objects)
      BY <1>0 DEF TreeInv
    <3>2. /\ IsFiniteSet(tree \cup {t})
          /\ Cardinality(tree \cup {t}) = Cardinality(tree) + 1
      BY <3>1, <1>2, FS_AddElement
    <3>3. /\ IsFiniteSet(objects \cup {new})
          /\ Cardinality(objects \cup {new}) = Cardinality(objects) + 1
      BY <3>1, <1>4, FS_AddElement
    <3> QED
      BY <3>1, <3>2, <3>3
  <2>3. \A u \in tree \cup {t} :
          /\ hpc'[u] # "insert"
          /\ \E o \in objects \cup {new} : slot[u].paddr = o.addr /\ slot[u].size = o.len
    <3>1. \A u \in tree : u \in Threads /\ u # t
      BY <1>2 DEF HugeTypeOK
    <3> QED
      BY <3>1, <1>0, <1>3, <1>7 DEF TreeInv
  <2>4. \A u, v \in tree \cup {t} : slot[u].paddr = slot[v].paddr => u = v
    BY <1>0, <1>5 DEF TreeInv
  <2>5. \A o \in objects \cup {new} : \E u \in tree \cup {t} :
          slot[u].paddr = o.addr /\ slot[u].size = o.len
    BY <1>0, <1>3 DEF TreeInv
  <2>6. ASSUME NEW u \in Freeing
        PROVE  /\ found'[u] \notin tree \cup {t} /\ hpc'[found'[u]] # "insert"
               /\ \A v \in Freeing : found'[u] = found'[v] => u = v
               /\ u \in Unmapping => /\ slot[found'[u]].paddr = victim'[u].addr
                                     /\ slot[found'[u]].size = victim'[u].len
    <3>1. /\ found[u] \in Threads /\ found[u] \notin tree /\ hpc[found[u]] # "insert"
          /\ \A v \in Freeing : found[u] = found[v] => u = v
          /\ u \in Unmapping => /\ slot[found[u]].paddr = victim[u].addr
                                /\ slot[found[u]].size = victim[u].len
      BY <1>0, <1>9, HugeTypes DEF TreeInv
    <3>2. found[u] # t /\ hpc'[found[u]] # "insert"
      BY <3>1, <1>1, <1>7
    <3> QED
      BY <3>1, <3>2, <1>9
  <2> QED
    BY <2>1, <2>2, <2>3, <2>4, <2>5, <2>6, <1>1, <1>6, <1>7 DEF TreeInv
<1> QED
  BY <1>14, <1>15, <1>16 DEF HugeInv

\* The node found is the object's, and is its thread's until the end.
LEMMA HugeDallocOK ==
  ASSUME HugeTypeOK, HugeInv, NEW t \in Threads, HugeDalloc(t), ~torn'
  PROVE  HugeInv'
<1>0. SizesInv /\ HeldInv /\ ApartInv /\ TreeInv
  BY DEF HugeInv
<1>1. /\ hpc[t] = "idle" /\ ~torn
      /\ UNCHANGED <<hmap, hsize, slot, mapped>>
  BY DEF HugeDalloc, ReuseFrame, Overwrite
<1>o. PICK o \in objects :
        /\ objects' = objects \ {o}
        /\ victim' = [victim EXCEPT ![t] = o]
        /\ \/ \E u \in tree : /\ slot[u].paddr = o.addr
                              /\ tree' = tree \ {u}
                              /\ found' = [found EXCEPT ![t] = u]
                              /\ hpc' = [hpc EXCEPT ![t] = "path"]
           \/ \A u \in tree : slot[u].paddr # o.addr
  BY <1>1 DEF HugeDalloc, Remains
<1>2. PICK u \in tree : /\ slot[u].paddr = o.addr /\ slot[u].size = o.len
                        /\ tree' = tree \ {u}
                        /\ found' = [found EXCEPT ![t] = u]
                        /\ hpc' = [hpc EXCEPT ![t] = "path"]
  <2>1. PICK v \in tree : slot[v].paddr = o.addr /\ slot[v].size = o.len
    BY <1>0 DEF TreeInv
  <2>2. \A w \in tree : slot[w].paddr = o.addr => w = v
    BY <2>1, <1>0 DEF TreeInv
  <2> QED
    BY <2>1, <2>2, <1>o
<1>3. u \in Threads /\ hpc[u] # "insert"
  BY <1>0, <1>2 DEF TreeInv, HugeTypeOK
<1>4. /\ t \notin Creating /\ t \notin Freeing /\ t \notin Unmapping /\ t \notin Making
  BY <1>1 DEF Creating, Freeing, Unmapping, Making
<1>5. /\ hpc'[t] = "path" /\ \A w \in Threads : w # t => hpc'[w] = hpc[w]
      /\ Creating' = Creating /\ Freeing' = Freeing \cup {t}
      /\ Unmapping' = Unmapping \cup {t} /\ Making' = Making
  <2>1. /\ "path" \notin CreatingPlaces /\ "path" \notin MakingPlaces
        /\ "path" \in FreeingPlaces /\ "path" \in UnmappingPlaces
    BY DEF CreatingPlaces, MakingPlaces, FreeingPlaces, UnmappingPlaces
  <2>2. /\ hpc'[t] = "path" /\ \A w \in Threads : w # t => hpc'[w] = hpc[w]
        /\ Creating' = Creating \ {t} /\ Freeing' = Freeing \cup {t}
        /\ Unmapping' = Unmapping \cup {t} /\ Making' = Making \ {t}
    BY <1>2, <2>1, ThreadMoves
  <2> QED
    BY <2>2, <1>4
<1>6. /\ victim'[t] = o /\ found'[t] = u
      /\ \A w \in Threads : w # t => victim'[w] = victim[w] /\ found'[w] = found[w]
  BY <1>o, <1>2 DEF HugeTypeOK
<1>7. /\ \A w \in Unmapping : victim'[w] = victim[w]
      /\ \A w \in Freeing : w \in Threads /\ found'[w] = found[w]
  BY <1>4, <1>6 DEF Unmapping, Freeing
<1>12. SizesInv'
  <2>1. \A w \in Creating : CallSizesInv(w)'
    <3>1. \A w \in Creating : CallSizesInv(w) /\ hpc'[w] = hpc[w]
      BY <1>0, <1>4, <1>5 DEF SizesInv, Creating
    <3> QED
      BY <3>1, <1>1 DEF CallSizesInv, Aligned, Ceiling
  <2>2. \A w \in Unmapping \cup {t} : victim'[w].len \in Sizes
    BY <1>0, <1>6, <1>7 DEF SizesInv
  <2> QED
    BY <2>1, <2>2, <1>0, <1>o, <1>5 DEF SizesInv, Aligned, Ceiling
<1>13. HeldInv' /\ ApartInv'
  <2>1. Held' = Held
    <3>1. {victim'[w] : w \in Unmapping \cup {t}}
             = {victim[w] : w \in Unmapping} \cup {o}
      BY <1>6, <1>7
    <3>2. (objects \ {o}) \cup {o} = objects
      OBVIOUS
    <3> QED
      BY <3>1, <3>2, <1>1, <1>o, <1>5 DEF Held
  <2>2. HeldInv'
    BY <2>1, <1>0, <1>1 DEF HeldInv
  <2>3. \A p \in objects' : /\ \A q \in objects' : p # q => Disjoint(p, q)
                            /\ \A w \in Making : Disjoint(p, hmap'[w])
                            /\ \A w \in Unmapping \cup {t} : Disjoint(p, victim'[w])
    BY <1>0, <1>1, <1>o, <1>6, <1>7 DEF ApartInv
  <2>4. ASSUME NEW w \in Unmapping \cup {t}
        PROVE  /\ \A v \in Making : Disjoint(hmap'[v], victim'[w])
               /\ \A v \in Unmapping \cup {t} : w # v => Disjoint(victim'[w], victim'[v])
    <3>1. /\ \A v \in Making : Disjoint(hmap[v], o)
          /\ \A v \in Unmapping : Disjoint(victim[v], o) /\ Disjoint(o, victim[v])
      BY <1>0 DEF ApartInv, Disjoint
    <3>2. CASE w = t
      BY <3>1, <3>2, <1>1, <1>6, <1>7
    <3>3. CASE w \in Unmapping
      BY <3>1, <3>3, <1>0, <1>1, <1>6, <1>7 DEF ApartInv
    <3> QED
      BY <3>2, <3>3
  <2>5. \A v, w \in Making : v # w => Disjoint(hmap'[v], hmap'[w])
    BY <1>0, <1>1 DEF ApartInv
  <2>6. ApartInv'
    BY <2>3, <2>4, <2>5, <1>5 DEF ApartInv
  <2> QED
    BY <2>2, <2>6
<1>14. TreeInv'
  <2>1. ~Aborted'
    BY <1>0, <1>5 DEF TreeInv, Aborted
  <2>2. /\ IsFiniteSet(tree \ {u}) /\ IsFiniteSet(objects \ {o})
        /\ Cardinality(tree \ {u}) = Cardinality(objects \ {o})
    <3>1. /\ IsFiniteSet(tree) /\ IsFiniteSet(objects)
          /\ Cardinality(tree) = Cardinality(objects)
      BY <1>0 DEF TreeInv
    <3>2. /\ IsFiniteSet(tree \ {u})
          /\ Cardinality(tree \ {u}) = Cardinality(tree) - 1
      BY <3>1, FS_RemoveElement
    <3>3. /\ IsFiniteSet(objects \ {o})
          /\ Cardinality(objects \ {o}) = Cardinality(objects) - 1
      BY <3>1, FS_RemoveElement
    <3> QED
      BY <3>1, <3>2, <3>3
  <2>3. \A v \in tree \ {u} :
          /\ hpc'[v] # "insert"
          /\ \E p \in objects \ {o} : slot[v].paddr = p.addr /\ slot[v].size = p.len
    <3>1. \A v \in tree \ {u} : v \in Threads /\ slot[v].paddr # o.addr
      BY <1>0, <1>2, <1>3 DEF TreeInv, HugeTypeOK
    <3> QED
      BY <3>1, <1>0, <1>5 DEF TreeInv
  <2>4. \A v, w \in tree \ {u} : slot[v].paddr = slot[w].paddr => v = w
    BY <1>0 DEF TreeInv
  <2>5. \A p \in objects \ {o} : \E v \in tree \ {u} :
          slot[v].paddr = p.addr /\ slot[v].size = p.len
    <3>1. ASSUME NEW p \in objects \ {o}
          PROVE  p.addr # o.addr
      <4>1. /\ p \in Mapping /\ o \in Mapping /\ p.len \in Sizes /\ o.len \in Sizes
            /\ Disjoint(p, o)
        BY <1>0, HugeTypes DEF SizesInv, ApartInv
      <4> QED
        BY <4>1, SameAddressMeets
    <3> QED
      BY <3>1, <1>0, <1>2 DEF TreeInv
  <2>6. ASSUME NEW w \in Freeing \cup {t}
        PROVE  /\ found'[w] \notin tree \ {u} /\ hpc'[found'[w]] # "insert"
               /\ \A v \in Freeing \cup {t} : found'[w] = found'[v] => w = v
               /\ w \in Unmapping \cup {t} =>
                    /\ slot[found'[w]].paddr = victim'[w].addr
                    /\ slot[found'[w]].size = victim'[w].len
    <3>1. \A v \in Freeing : /\ found[v] \in Threads /\ found[v] \notin tree
                             /\ found[v] # u /\ hpc'[found[v]] # "insert"
      BY <1>0, <1>2, <1>3, <1>5, <1>7, HugeTypes DEF TreeInv
    <3>2. CASE w = t
      BY <3>1, <3>2, <1>2, <1>3, <1>5, <1>6, <1>7
    <3>3. CASE w \in Freeing
      <4>1. /\ \A v \in Freeing : found[w] = found[v] => w = v
            /\ w \in Unmapping => /\ slot[found[w]].paddr = victim[w].addr
                                  /\ slot[found[w]].size = victim[w].len
        BY <3>3, <1>0 DEF TreeInv
      <4>2. w # t
        BY <3>3, <1>4
      <4> QED
        BY <3>1, <3>3, <4>1, <4>2, <1>6, <1>7
    <3> QED
      BY <3>2, <3>3
  <2> QED
    BY <2>1, <2>2, <2>3, <2>4, <2>5, <2>6, <1>1, <1>o, <1>2, <1>5 DEF TreeInv
<1> QED
  BY <1>12, <1>13, <1>14 DEF HugeInv

\* A call of huge_dalloc goes on or ends: it keeps the tree, and the calls of
\* the others; what it has unmapped, it no longer has to.
LEMMA FreeGoesOn ==
  ASSUME HugeTypeOK, HugeInv, NEW t \in Threads, hpc[t] \in FreeingPlaces,
         NEW to \in FreeingPlaces \cup {"idle"}, hpc' = [hpc EXCEPT ![t] = to],
         to \in UnmappingPlaces => hpc[t] \in UnmappingPlaces,
         UNCHANGED <<tree, objects>>,
         \A u \in Threads : u # t => /\ hsize'[u] = hsize[u] /\ hmap'[u] = hmap[u]
                                     /\ victim'[u] = victim[u] /\ found'[u] = found[u],
         to # "idle" => victim'[t] = victim[t] /\ found'[t] = found[t],
         \A u \in Threads : slot'[u] = slot[u] \/ (u = found[t] /\ to = "idle")
  PROVE  /\ SizesInv' /\ TreeInv' /\ Making' = Making
         /\ Unmapping' = IF to \in UnmappingPlaces THEN Unmapping \cup {t}
                                                   ELSE Unmapping \ {t}
         /\ \A u \in Making : hmap'[u] = hmap[u]
         /\ \A u \in Unmapping' : victim'[u] = victim[u]
<1>0. SizesInv /\ TreeInv
  BY DEF HugeInv
<1>1. /\ t \in Freeing /\ t \notin Creating /\ t \notin Making
      /\ hpc[t] \in UnmappingPlaces => t \in Unmapping
      /\ hpc[t] # "idle"
  BY DEF Freeing, Creating, Making, Unmapping, FreeingPlaces, UnmappingPlaces
<1>2. /\ to \notin CreatingPlaces /\ to \notin MakingPlaces /\ to # "aborted"
      /\ to = "idle" => to \notin FreeingPlaces /\ to \notin UnmappingPlaces
      /\ to # "idle" => to \in FreeingPlaces
  BY DEF CreatingPlaces, MakingPlaces, FreeingPlaces, UnmappingPlaces
<1>3. /\ \A u \in Threads : u # t => hpc'[u] = hpc[u]
      /\ Creating' = Creating \ {t} /\ Making' = Making \ {t}
      /\ Freeing' = IF to \in FreeingPlaces THEN Freeing \cup {t} ELSE Freeing \ {t}
      /\ Unmapping' = IF to \in UnmappingPlaces THEN Unmapping \cup {t}
                                                ELSE Unmapping \ {t}
  <2>1. /\ \A u \in Threads : u # t => hpc'[u] = hpc[u]
        /\ Freeing' = IF to \in FreeingPlaces THEN Freeing \cup {t} ELSE Freeing \ {t}
        /\ Unmapping' = IF to \in UnmappingPlaces THEN Unmapping \cup {t}
                                                  ELSE Unmapping \ {t}
    BY ThreadMoves
  <2>2. Creating' = Creating \ {t} /\ Making' = Making \ {t}
    BY <1>2, ThreadMoves
  <2> QED
    BY <2>1, <2>2
<1>4. /\ Creating' = Creating /\ Making' = Making /\ Freeing' \subseteq Freeing
      /\ Unmapping' \subseteq Unmapping
      /\ to = "idle" => t \notin Freeing' /\ t \notin Unmapping'
  BY <1>1, <1>2, <1>3
<1>5. /\ Creating \subseteq Threads /\ Making \subseteq Threads
      /\ Freeing \subseteq Threads /\ Unmapping \subseteq Threads
      /\ tree \subseteq Threads /\ \A u \in Freeing : found[u] \in Threads
      /\ Unmapping' \subseteq Freeing'
  <2>1. UnmappingPlaces \subseteq FreeingPlaces /\ Unmapping \subseteq Freeing
    BY DEF UnmappingPlaces, FreeingPlaces, Unmapping, Freeing
  <2> QED
    BY <1>3, <2>1, HugeTypes DEF Creating, Making, Freeing, Unmapping, HugeTypeOK
<1>6. /\ \A u \in Making : hmap'[u] = hmap[u]
      /\ \A u \in Freeing' : victim'[u] = victim[u] /\ found'[u] = found[u]
  BY <1>1, <1>4, <1>5
<1>7. /\ found[t] \in Threads /\ found[t] \notin tree /\ hpc[found[t]] # "insert"
      /\ \A u \in Freeing : found[u] = found[t] => u = t
  BY <1>0, <1>1, <1>5 DEF TreeInv
<1>8. /\ \A u \in Creating : /\ u # t /\ hpc'[u] = hpc[u] /\ hsize'[u] = hsize[u]
                             /\ hmap'[u] = hmap[u]
                             /\ hpc[u] = "insert" => slot'[u] = slot[u]
      /\ \A u \in tree : slot'[u] = slot[u]
      /\ \A u \in Freeing' : slot'[found[u]] = slot[found[u]]
  <2>1. \A u \in Creating : hpc[u] = "insert" => u # found[t]
    BY <1>7
  <2>2. \A u \in Freeing' : slot'[found[u]] = slot[found[u]]
    BY <1>4, <1>5, <1>7
  <2> QED
    BY <2>1, <2>2, <1>1, <1>3, <1>5, <1>7
<1>9. SizesInv'
  BY <1>0, <1>1, <1>4, <1>5, <1>6, <1>8, SizesFollow
<1>10. TreeInv'
  <2>1. to # "insert"
    BY DEF FreeingPlaces, UnmappingPlaces
  <2> QED
    BY <2>1, <1>0, <1>2, <1>4, <1>6, <1>8, TreeKept
<1> QED
  BY <1>3, <1>4, <1>5, <1>6, <1>9, <1>10

\* Nothing is mapped and nothing unmapped.
LEMMA HeldKept ==
  ASSUME HeldInv, ApartInv, UNCHANGED <<objects, mapped>>,
         Making' = Making, Unmapping' = Unmapping,
         \A u \in Making : hmap'[u] = hmap[u],
         \A u \in Unmapping : victim'[u] = victim[u]
  PROVE  HeldInv' /\ ApartInv'
<1>1. Held' = Held
  BY DEF Held
<1>2. HeldInv'
  BY <1>1 DEF HeldInv
<1>3. ApartInv'
  BY DEF ApartInv
<1> QED
  BY <1>2, <1>3

\* The path is printed, the sum is taken back, the file removed.
LEMMA FreeStepsOK ==
  ASSUME HugeTypeOK, HugeInv, NEW t \in Threads,
         PrintPath(t) \/ SubConsmp(t) \/ RemoveFile(t)
  PROVE  HugeInv'
<1>1. PICK to \in FreeingPlaces \cup {"idle"} :
        /\ hpc' = [hpc EXCEPT ![t] = to] /\ hpc[t] \in FreeingPlaces
        /\ (to \in UnmappingPlaces) <=> (hpc[t] \in UnmappingPlaces)
        /\ UNCHANGED <<tree, objects, mapped>>
        /\ \A u \in Threads : u # t => /\ hsize'[u] = hsize[u] /\ hmap'[u] = hmap[u]
                                       /\ victim'[u] = victim[u]
                                       /\ found'[u] = found[u]
        /\ to # "idle" => victim'[t] = victim[t] /\ found'[t] = found[t]
        /\ \A u \in Threads : slot'[u] = slot[u] \/ (u = found[t] /\ to = "idle")
  <2>1. /\ "path" \in FreeingPlaces /\ "path" \in UnmappingPlaces
        /\ "unmapobject" \in FreeingPlaces /\ "unmapobject" \in UnmappingPlaces
        /\ "sub" \in FreeingPlaces /\ "sub" \notin UnmappingPlaces
        /\ "removefile" \in FreeingPlaces /\ "removefile" \notin UnmappingPlaces
        /\ "idle" \notin UnmappingPlaces
    BY DEF FreeingPlaces, UnmappingPlaces
  <2>2. CASE PrintPath(t)
    BY <2>1, <2>2 DEF PrintPath, HGo, hshared
  <2>3. CASE SubConsmp(t)
    BY <2>1, <2>3 DEF SubConsmp, HGo, hlocals, hshared
  <2>4. CASE RemoveFile(t)
    <3>1. /\ hpc[t] = "removefile" /\ hpc' = [hpc EXCEPT ![t] = "idle"]
          /\ EndCall(t) /\ UNCHANGED <<tree, objects, mapped>>
          /\ slot' = slot \/ slot' = [slot EXCEPT ![found[t]] = NoNode]
      BY <2>4 DEF RemoveFile, HGo
    <3>2. \A u \in Threads : slot'[u] = slot[u] \/ u = found[t]
      BY <3>1 DEF HugeTypeOK
    <3> QED
      BY <2>1, <3>1, <3>2, OtherLocalsStay
  <2> QED
    BY <2>2, <2>3, <2>4
<1>2. /\ SizesInv' /\ TreeInv' /\ Making' = Making
      /\ Unmapping' = IF to \in UnmappingPlaces THEN Unmapping \cup {t}
                                                ELSE Unmapping \ {t}
      /\ \A u \in Making : hmap'[u] = hmap[u]
      /\ \A u \in Unmapping' : victim'[u] = victim[u]
  BY <1>1, FreeGoesOn
<1>3. Unmapping' = Unmapping
  <2>1. t \in Unmapping <=> hpc[t] \in UnmappingPlaces
    BY DEF Unmapping, UnmappingPlaces
  <2> QED
    BY <2>1, <1>1, <1>2
<1>4. HeldInv' /\ ApartInv'
  BY <1>1, <1>2, <1>3, HeldKept DEF HugeInv
<1> QED
  BY <1>2, <1>4 DEF HugeInv

\* What the node says is its object's mapping, which no other meets.
LEMMA UnmapObjectOK ==
  ASSUME HugeTypeOK, HugeInv, NEW t \in Threads, UnmapObject(t)
  PROVE  HugeInv'
<1>0. SizesInv /\ HeldInv /\ ApartInv /\ TreeInv
  BY DEF HugeInv
<1>o. PICK o : o = victim[t]
  OBVIOUS
<1>1. /\ hpc[t] = "unmapobject" /\ hpc' = [hpc EXCEPT ![t] = "sub"]
      /\ mapped' = mapped \ Units(slot[found[t]].paddr, slot[found[t]].size)
      /\ UNCHANGED <<hmap, hsize, found, victim, slot, tree, objects>>
  BY DEF UnmapObject, HGo, hlocals
<1>u. t \in Unmapping /\ t \in Freeing
  BY <1>1 DEF Unmapping, Freeing
<1>2. /\ SizesInv' /\ TreeInv' /\ Making' = Making
      /\ Unmapping' = Unmapping \ {t}
      /\ \A u \in Making : hmap'[u] = hmap[u]
      /\ \A u \in Unmapping' : victim'[u] = victim[u]
  <2>1. /\ "sub" \in FreeingPlaces /\ "sub" \notin UnmappingPlaces
        /\ hpc[t] \in FreeingPlaces
    BY <1>1 DEF FreeingPlaces, UnmappingPlaces
  <2> QED
    BY <2>1, <1>1, FreeGoesOn
<1>4. mapped' = mapped \ Units(o.addr, o.len)
  BY <1>0, <1>1, <1>o, <1>u DEF TreeInv
<1>5. PICK others : others = objects \cup {hmap[u] : u \in Making}
                               \cup {victim[u] : u \in Unmapping \ {t}}
  OBVIOUS
<1>6. Held' = others /\ Held = others \cup {o}
  BY <1>1, <1>2, <1>5, <1>o, <1>u DEF Held
<1>7. \A m \in others : Units(m.addr, m.len) \cap Units(o.addr, o.len) = {}
  <2>1. /\ \A p \in objects : Disjoint(p, o)
        /\ \A u \in Making : Disjoint(hmap[u], o)
        /\ \A u \in Unmapping \ {t} : Disjoint(victim[u], o)
    BY <1>0, <1>o, <1>u DEF ApartInv
  <2> QED
    BY <2>1, <1>5 DEF Disjoint
<1>8. ApartInv'
  BY <1>0, <1>1, <1>2 DEF ApartInv
<1>9. mapped' = UnitsOf(others)
  <2>1. mapped = UnitsOf(others) \cup Units(o.addr, o.len)
    BY <1>0, <1>6, UnitsOfWith DEF HeldInv, UnitsOf
  <2>2. UnitsOf(others) \cap Units(o.addr, o.len) = {}
    BY <1>7, UnitsOfApart
  <2> QED
    BY <2>1, <2>2, <1>4
<1>10. HeldInv'
  <2>1. MappedHeld'
    BY <1>6, <1>9 DEF MappedHeld, UnitsOf
  <2> QED
    BY <2>1, <1>8, HeldFollows, PTL
<1> QED
  BY <1>2, <1>8, <1>10 DEF HugeInv

\* All steps of a thread that overwrite no node in use.
LEMMA HugeStepOK ==
  ASSUME HugeTypeOK, HugeInv, NEW t \in Threads, HugeStep(t), ~torn'
  PROVE  HugeInv'
<1>1. CASE \/ HugeMalloc(t) \/ CountFile(t) \/ RemoveMisaligned(t) \/ AddConsmp(t)
           \/ FillNode(t)
  BY <1>1, SimpleStepsOK
<1>2. CASE UnmapMisaligned(t)
  BY <1>2, UnmapMisalignedOK
<1>3. CASE MapObject(t) \/ RemapObject(t)
  BY <1>3, MapsOK
<1>4. CASE TrimObject(t)
  BY <1>4, TrimObjectOK
<1>5. CASE InsertNode(t)
  BY <1>5, InsertNodeOK
<1>6. CASE HugeDalloc(t)
  BY <1>6, HugeDallocOK
<1>7. CASE PrintPath(t) \/ SubConsmp(t) \/ RemoveFile(t)
  BY <1>7, FreeStepsOK
<1>8. CASE UnmapObject(t)
  BY <1>8, UnmapObjectOK
<1>9. CASE OtherCall(t)
  BY <1>9 DEF OtherCall, Overwrite
<1> QED
  BY <1>1, <1>2, <1>3, <1>4, <1>5, <1>6, <1>7, <1>8, <1>9 DEF HugeStep

-----------------------------------------------------------------------------
(***************************************************************************)
(* A process that begins, on any files; and all steps together.            *)
(***************************************************************************)

\* What a process begins with, on files known by one name each.
Begins ==
  /\ mmap_file = 0 /\ pmem_consmp = 0 /\ pmem_path = MntPmem
  /\ pc = [a \in Arenas |-> "idle"]
  /\ reg = [a \in Arenas |-> 0] /\ name = [a \in Arenas |-> 0]
  /\ ino = [a \in Arenas |-> 0] /\ pools = <<>>
  /\ hpc = [t \in Threads |-> "idle"]
  /\ hstr = [t \in Threads |-> 0] /\ hsize = [t \in Threads |-> 0]
  /\ hmap = [t \in Threads |-> NoMapping]
  /\ slot = [t \in Threads |-> NoNode]
  /\ found = [t \in Threads |-> t] /\ victim = [t \in Threads |-> NoMapping]
  /\ tree = {} /\ objects = {} /\ mapped = {} /\ made = 0
  /\ torn = FALSE /\ races = {}
  /\ inodes \in Nat /\ crashes \in 0 .. MaxCrashes
  /\ disk \in [Numbers -> 0 .. inodes] /\ hdisk \in [Numbers -> 0 .. inodes]
  /\ OneNameEach(disk) /\ OneNameEach(hdisk)

LEMMA NewProcessOK == Begins => FilesInv
<1> SUFFICES ASSUME Begins
             PROVE  FilesInv
  OBVIOUS
<1> USE DEF Begins
<1>0. /\ 0 \in Numbers /\ 0 \in 0 .. inodes /\ 0 \in 0 .. Top /\ 0 \in 0 .. MaxFiles
      /\ 0 \in 0 .. ConsmpMod - 1 /\ MntPmem \in Dirs /\ MaxFiles \in Nat
  BY FileConstants, PoolFilesAssumption
<1>1. TypeOK
  <2>1. pools \in Seq(PoolRec)
    BY EmptySeq
  <2> QED
    BY <2>1, <1>0 DEF TypeOK
<1>2. HugeTypeOK
  <2>1. NoMapping \in Mapping
    BY <1>0 DEF NoMapping, Mapping, NoFile
  <2>2. NoNode \in [file_no : Numbers, paddr : 0 .. Top, size : Sizes \cup {0}]
    BY <1>0 DEF NoNode
  <2> QED
    BY <2>1, <2>2, <1>0 DEF HugeTypeOK
<1>3. /\ Busy = {} /\ Starting = {} /\ Creating = {} /\ Freeing = {} /\ Counting = {}
      /\ Making = {} /\ Unmapping = {} /\ ~Aborted
  BY DEF Busy, Starting, Creating, Freeing, Counting, Making, Unmapping, Aborted
<1>5. CountInv
  <2>1. Len(pools) = 0 /\ Cardinality({}) = 0
    BY EmptySeq, FS_EmptySet
  <2> QED
    BY <2>1, <1>0, <1>3 DEF CountInv, Begun, Pending
<1>6. PoolFilesInv
  <2>1. PoolsInv
    BY EmptySeq DEF PoolsInv
  <2>2. \A a \in Arenas : ArenaInv(a)
    BY DEF ArenaInv, Named
  <2> QED
    BY <2>1, <2>2 DEF PoolFilesInv
<1>7. ObjectFilesInv
  BY <1>3 DEF ObjectFilesInv
<1>8. SizesInv /\ HeldInv /\ ApartInv
  BY <1>3 DEF SizesInv, HeldInv, Held, ApartInv
<1>9. TreeInv
  BY <1>3, FS_EmptySet DEF TreeInv
<1>10. SpareInv
  BY DEF SpareInv
<1> QED
  BY <1>1, <1>2, <1>5, <1>6, <1>7, <1>8, <1>9, <1>10, TypesSplit DEF FilesInv, HugeInv

LEMMA InitBegins == FilesInit => Begins
<1> SUFFICES ASSUME FilesInit
             PROVE  Begins
  OBVIOUS
<1>1. /\ inodes = 0 /\ crashes = 0 /\ disk = [i \in Numbers |-> NoFile]
      /\ hdisk = [i \in Numbers |-> NoFile]
  BY DEF FilesInit, Init, HugeInit
<1>2. /\ inodes \in Nat /\ crashes \in 0 .. MaxCrashes
      /\ disk \in [Numbers -> 0 .. inodes] /\ hdisk \in [Numbers -> 0 .. inodes]
      /\ OneNameEach(disk) /\ OneNameEach(hdisk)
  BY <1>1, FileConstants DEF NoFile, OneNameEach
<1> QED
  BY <1>2 DEF Begins, FilesInit, Init, HugeInit, NewProcess

LEMMA InitOK == FilesInit => FilesInv
BY InitBegins, NewProcessOK

\* The files of the last process stay, and its counter starts again.
LEMMA RestartBegins == FilesInv /\ FilesRestart => Begins'
<1> SUFFICES ASSUME FilesInv, FilesRestart
             PROVE  Begins'
  OBVIOUS
<1>1. TypeOK /\ HugeTypeOK /\ OneNameEach(disk) /\ OneNameEach(hdisk)
  BY TypesSplit DEF FilesInv
<1>2. /\ crashes' \in 0 .. MaxCrashes
      /\ UNCHANGED <<inodes, disk, hdisk>>
  <2>1. /\ crashes < MaxCrashes /\ crashes' = crashes + 1
        /\ UNCHANGED <<inodes, disk, hdisk>>
    BY DEF FilesRestart, Restart, device
  <2>2. crashes \in 0 .. MaxCrashes /\ MaxCrashes \in Nat
    BY <1>1, FileConstants DEF TypeOK
  <2> QED
    BY <2>1, <2>2
<1>3. /\ inodes' \in Nat
      /\ disk' \in [Numbers -> 0 .. inodes'] /\ hdisk' \in [Numbers -> 0 .. inodes']
      /\ OneNameEach(disk)' /\ OneNameEach(hdisk)'
  BY <1>1, <1>2 DEF TypeOK, HugeTypeOK, OneNameEach
<1> QED
  BY <1>2, <1>3 DEF Begins, FilesRestart, Restart, NewProcess

LEMMA RestartOK == FilesInv /\ FilesRestart => FilesInv'
<1>1. Begins => FilesInv
  BY NewProcessOK
<1> QED
  BY <1>1, RestartBegins, PTL

LEMMA InvAfter ==
  ASSUME TypeOK', HugeTypeOK', races' \subseteq {"number", "consmp"},
         CountInv', SpareInv', OneNameEach(disk)', OneNameEach(hdisk)',
         "number" \notin races' => PoolFilesInv' /\ ObjectFilesInv',
         ~torn' => HugeInv'
  PROVE  FilesInv'
BY DEF FilesInv, FilesTypeOK, HugeTypeOK

LEMMA StutterOK == FilesInv /\ UNCHANGED allVars => FilesInv'
<1> SUFFICES ASSUME FilesInv, UNCHANGED allVars
             PROVE  FilesInv'
  OBVIOUS
<1>1. /\ UNCHANGED <<mmap_file, pmem_consmp, pmem_path, disk, inodes, pc, reg, name,
                     ino, pools, crashes, races>>
      /\ UNCHANGED hvars
  BY DEF allVars, vars, globals, device
<1>2. /\ TypeOK /\ HugeTypeOK /\ CountInv /\ SpareInv
      /\ OneNameEach(disk) /\ OneNameEach(hdisk)
      /\ races \subseteq {"number", "consmp"}
      /\ "number" \notin races => PoolFilesInv /\ ObjectFilesInv
  BY TypesSplit DEF FilesInv
<1>3. HugeTypeOK' /\ (~torn' => HugeInv')
  <2>1. inodes \in Nat /\ inodes <= inodes
    BY <1>2, PoolTypes
  <2>2. HugeTypeOK'
    BY <2>1, <1>1, <1>2, HugeTypesKept
  <2>3. torn' = torn
    BY <1>1 DEF hvars, hshared
  <2> QED
    BY <2>2, <2>3, <1>1, HugeInvKept DEF FilesInv
<1>4. TypeOK' /\ CountInv' /\ SpareInv' /\ OneNameEach(disk)' /\ OneNameEach(hdisk)'
  <2>1. TypeOK'
    BY <1>1, <1>2 DEF TypeOK
  <2>2. /\ Busy' = Busy /\ Starting' = Starting /\ Counting' = Counting
    BY <1>1 DEF Busy, Starting, Counting, hvars
  <2>3. CountInv'
    BY <2>2, <1>1, <1>2 DEF CountInv, Begun, Pending, hvars
  <2>4. SpareInv'
    BY <1>1, <1>2 DEF SpareInv, hvars, hlocals
  <2>5. OneNameEach(disk)' /\ OneNameEach(hdisk)'
    BY <1>1, <1>2 DEF OneNameEach, hvars, hshared
  <2> QED
    BY <2>1, <2>3, <2>4, <2>5
<1>5. "number" \notin races' => PoolFilesInv' /\ ObjectFilesInv'
  <2> SUFFICES ASSUME "number" \notin races'
               PROVE  PoolFilesInv' /\ ObjectFilesInv'
    OBVIOUS
  <2>1. PoolFilesInv /\ ObjectFilesInv
    BY <1>1, <1>2
  <2>2. mmap_file \in Nat /\ mmap_file' = mmap_file
    BY <1>1, <1>2, PoolTypes
  <2>3. ObjectFilesInv'
    BY <2>1, <2>2, <1>1, <1>2, ObjectFilesWhilePools
  <2>4. PoolFilesInv'
    BY <2>1, <2>2, <1>1, <1>2, PoolFilesKept
  <2> QED
    BY <2>3, <2>4
<1> QED
  BY <1>1, <1>2, <1>3, <1>4, <1>5, InvAfter

\* What the history says of a step.
LEMMA Watched ==
  ASSUME Watch, races \subseteq {"number", "consmp"}
  PROVE  /\ races' \subseteq {"number", "consmp"} /\ races \subseteq races'
         /\ "number" \notin races' =>
              "number" \notin races /\ (mmap_file' # mmap_file => ~NamingStill)
         /\ "consmp" \notin races' =>
              "consmp" \notin races /\ (pmem_consmp' # pmem_consmp => ~AddingStill)
BY DEF Watch

\* An overwritten node is never made whole.
LEMMA TornStays ==
  ASSUME HugeTypeOK, NEW t \in Threads, HugeStep(t), torn
  PROVE  torn'
<1>1. CASE HugeMalloc(t) \/ HugeDalloc(t) \/ OtherCall(t)
  BY <1>1 DEF HugeMalloc, HugeDalloc, OtherCall, ReuseFrame, Overwrite, HugeTypeOK
<1>2. CASE ~(HugeMalloc(t) \/ HugeDalloc(t) \/ OtherCall(t))
  BY <1>2 DEF HugeStep, CountFile, MapObject, HugeMap, UnmapMisaligned,
     RemoveMisaligned, RemapObject, TrimObject, AddConsmp, FillNode, InsertNode,
     PrintPath, UnmapObject, SubConsmp, RemoveFile, hshared, HugeTypeOK
<1> QED
  BY <1>1, <1>2

LEMMA PoolNextOK ==
  ASSUME FilesInv, PoolStep, Watch
  PROVE  FilesInv'
<1>1. /\ PoolSide /\ HugeTypeOK /\ TypeOK /\ SpareInv /\ OneNameEach(hdisk)
      /\ races \subseteq {"number", "consmp"} /\ UNCHANGED hvars
  BY TypesSplit DEF FilesInv, PoolSide, PoolStep
<1>2. PoolSide' /\ HugeTypeOK'
  BY <1>1, PoolStepOK
<1>3. SpareInv' /\ OneNameEach(hdisk)' /\ torn' = torn
  BY <1>1 DEF SpareInv, OneNameEach, hvars, hlocals, hshared
<1>4. ASSUME "number" \notin races'
      PROVE  PoolFilesInv' /\ ObjectFilesInv'
  <2>1. /\ PoolFilesInv /\ ObjectFilesInv
        /\ mmap_file' # mmap_file => ~NamingStill
    BY <1>1, <1>4, Watched DEF FilesInv
  <2>2. PoolFilesInv' /\ mmap_file' \in {mmap_file, mmap_file + 1}
    BY <2>1, <1>1, PoolStepFiles
  <2>3. ObjectFilesInv'
    BY <2>1, <2>2, <1>1, PoolTypes, ObjectFilesWhilePools
  <2> QED
    BY <2>2, <2>3
<1>5. ~torn' => HugeInv'
  BY <1>1, <1>3, HugeInvKept DEF FilesInv
<1> QED
  BY <1>1, <1>2, <1>3, <1>4, <1>5, Watched, InvAfter DEF PoolSide

LEMMA ThreadNextOK ==
  ASSUME FilesInv, NEW t \in Threads, HugeStep(t), Watch
  PROVE  FilesInv'
<1>1. /\ HugeSide /\ HugeTypeOK /\ SpareInv /\ races \subseteq {"number", "consmp"}
  BY TypesSplit DEF FilesInv, HugeSide, PoolSide
<1>2. HugeSide' /\ SpareInv'
  BY <1>1, HugeStepTyped
<1>3. ASSUME "number" \notin races'
      PROVE  PoolFilesInv' /\ ObjectFilesInv'
  <2>1. /\ PoolFilesInv /\ ObjectFilesInv
        /\ mmap_file' # mmap_file => ~NamingStill
    BY <1>1, <1>3, Watched DEF FilesInv
  <2> QED
    BY <2>1, <1>1, HugeStepFiles, HugeStepPools
<1>4. ASSUME ~torn'
      PROVE  HugeInv'
  <2>1. HugeInv
    BY <1>1, <1>4, TornStays DEF FilesInv
  <2> QED
    BY <2>1, <1>1, <1>4, HugeStepOK
<1> QED
  BY <1>1, <1>2, <1>3, <1>4, Watched, InvAfter DEF HugeSide, PoolSide

LEMMA FilesNextOK == FilesInv /\ [FilesNext]_allVars => FilesInv'
<1> SUFFICES ASSUME FilesInv, [FilesNext]_allVars
             PROVE  FilesInv'
  OBVIOUS
<1>1. CASE PoolStep /\ Watch
  BY <1>1, PoolNextOK
<1>2. ASSUME NEW t \in Threads, HugeStep(t), Watch
      PROVE  FilesInv'
  BY <1>2, ThreadNextOK
<1>3. CASE FilesRestart
  BY <1>3, RestartOK
<1>4. CASE UNCHANGED allVars
  BY <1>4, StutterOK
<1> QED
  BY <1>1, <1>2, <1>3, <1>4 DEF FilesNext, FilesRest, PoolStep

-----------------------------------------------------------------------------
(***************************************************************************)
(* The theorems: of every interleaving of pool creations, huge_malloc and  *)
(* huge_dalloc in any number of arenas and threads.                        *)
(***************************************************************************)

(***************************************************************************)
(* The inductive invariant of the files of pools and objects holds, over   *)
(* any number of processes that start on each other's files.               *)
(***************************************************************************)
THEOREM FilesInvariant == FilesSpec => []FilesInv
<1>1. FilesInit => FilesInv
  BY InitOK
<1>2. FilesInv /\ [FilesNext]_allVars => FilesInv'
  BY FilesNextOK
<1> QED
  BY <1>1, <1>2, PTL DEF FilesSpec

LEMMA NumbersKeepPoolsApart == FilesInv => PoolsOwnFiles
<1> SUFFICES ASSUME FilesInv, "number" \notin races
             PROVE  PoolsShareNoFile
  BY DEF PoolsOwnFiles
<1>1. TypeOK /\ PoolsInv /\ OneNameEach(disk)
  BY TypesSplit DEF FilesInv, PoolFilesInv
<1>2. \A i \in 1 .. Len(pools) : pools[i].name \in Numbers
  BY <1>1, PoolTypes
<1> QED
  BY <1>1, <1>2 DEF PoolsShareNoFile, PoolsInv, OneNameEach

(***************************************************************************)
(* As long as no call finds mmap_file changed between its reading and its  *)
(* use, no two pools are mappings of one file, whatever else overlaps.     *)
(***************************************************************************)
THEOREM PoolsNeverShare == FilesSpec => []PoolsOwnFiles
BY NumbersKeepPoolsApart, FilesInvariant, PTL

(***************************************************************************)
(* As long as that, a file that a pool is a mapping of keeps its name:     *)
(* neither another pool nor an object removes or replaces it.              *)
(***************************************************************************)
THEOREM PoolFilesStay == FilesSpec => LiveFilesStay
<1> DEFINE Stay == \A i \in 1 .. Len(pools) :
                     "number" \notin races' /\ Len(pools') >= i => \A k \in Numbers :
                       disk[k] = pools[i].ino => disk'[k] = pools[i].ino
<1>1. ASSUME FilesInv, [FilesNext]_allVars
      PROVE  Stay
  <2>0. TypeOK /\ OneNameEach(disk) /\ races \subseteq {"number", "consmp"}
    BY <1>1, TypesSplit DEF FilesInv
  <2>1. CASE UNCHANGED disk
    BY <2>1
  <2>2. CASE FilesRestart
    <3>1. Len(pools') = 0
      BY <2>2, EmptySeq DEF FilesRestart, Restart
    <3> QED
      BY <3>1
  <2>3. ASSUME NEW a \in Arenas, Watch,
               Map(a) \/ MapMisaligned(a) \/ Remap(a) \/ Remove(a)
        PROVE  Stay
    <3> SUFFICES ASSUME NEW i \in 1 .. Len(pools), NEW k \in Numbers,
                        "number" \notin races', disk[k] = pools[i].ino
                 PROVE  disk'[k] = pools[i].ino
      OBVIOUS
    <3>1. /\ pc[a] \in {"map", "remap", "remove"}
          /\ disk' = disk \/ disk' = [disk EXCEPT ![name[a]] = inodes + 1]
                          \/ disk' = [disk EXCEPT ![name[a]] = NoFile]
      BY <2>3 DEF Map, MapMisaligned, Remap, Remove, MapFile, Go, device
    <3>2. PoolsInv /\ ArenaInv(a)
      BY <1>1, <2>0, <2>3, Watched DEF FilesInv, PoolFilesInv
    <3>3. pools[i].name # name[a]
      BY <3>1, <3>2 DEF ArenaInv, Named
    <3>4. pools[i].ino # NoFile /\ disk[pools[i].name] = pools[i].ino
          /\ pools[i].name \in Numbers
      BY <3>2, <2>0, PoolTypes DEF PoolsInv
    <3>5. k = pools[i].name
      BY <3>4, <2>0 DEF OneNameEach
    <3>6. disk \in [Numbers -> 0 .. inodes]
      BY <2>0 DEF TypeOK
    <3> QED
      BY <3>1, <3>3, <3>5, <3>6
  <2>4. ASSUME NEW t \in Threads, HugeStep(t)
        PROVE  UNCHANGED disk
    BY <2>4 DEF HugeStep, HugeMalloc, CountFile, MapObject, HugeMap, UnmapMisaligned,
                RemoveMisaligned, RemapObject, TrimObject, AddConsmp, FillNode,
                InsertNode, HugeDalloc, PrintPath, UnmapObject, SubConsmp, RemoveFile,
                OtherCall, poolVars
  <2>5. ASSUME NEW a \in Arenas, Proceed(a),
               ~(Map(a) \/ MapMisaligned(a) \/ Remap(a) \/ Remove(a))
        PROVE  UNCHANGED disk
    BY <2>5 DEF Proceed, StoreNumber, Name, LoadConsmp, StoreConsmp, Enlist, device
  <2>6. CASE Lspmemdir \/ PoolStart
    BY <2>6 DEF Lspmemdir, PoolStart, LoadNumber, device
  <2>7. CASE UNCHANGED allVars
    BY <2>7 DEF allVars, vars, device
  <2> HIDE DEF Stay
  <2> QED
    BY <1>1, <2>1, <2>2, <2>3, <2>4, <2>5, <2>6, <2>7 DEF FilesNext, FilesRest
<1>2. FilesInv /\ [FilesNext]_allVars => [Stay]_allVars
  BY <1>1
<1> QED
  BY <1>2, FilesInvariant, PTL DEF FilesSpec, LiveFilesStay

LEMMA ObjectsOwnMappings ==
  FilesInv => ObjectsShareNoFile /\ MappedExactly /\ ObjectsCanBeFreed
BY DEF FilesInv, HugeInv, ObjectFilesInv, ObjectsShareNoFile, MappedExactly,
   ObjectsCanBeFreed, TreeInv, SizesInv

(***************************************************************************)
(* As long as no call finds mmap_file changed, live objects are mappings   *)
(* of different files, also when the process found files of an earlier one *)
(* and when a free removes another file than its object's.                 *)
(***************************************************************************)
THEOREM ObjectsNeverShare == FilesSpec => []ObjectsShareNoFile
BY ObjectsOwnMappings, FilesInvariant, PTL

(***************************************************************************)
(* As long as no node in use is overwritten, what is mapped is what live   *)
(* objects and calls in progress hold, and no unit of it belongs to two:   *)
(* huge_malloc trims all its excess, huge_dalloc unmaps the whole of its   *)
(* object, and neither touches another one.                                *)
(***************************************************************************)
THEOREM MappingsAreExact == FilesSpec => []MappedExactly
BY ObjectsOwnMappings, FilesInvariant, PTL

(***************************************************************************)
(* As long as that, every live object can be freed by any thread, the one  *)
(* in whose frame the node is not excepted: its address passes the         *)
(* alignment test, huge_dalloc finds its node and no other, and no         *)
(* assertion of rb.h or huge.c fails.                                      *)
(***************************************************************************)
THEOREM ObjectsAreFreeable == FilesSpec => []ObjectsCanBeFreed
BY ObjectsOwnMappings, FilesInvariant, PTL

-----------------------------------------------------------------------------
(***************************************************************************)
(* pmem_consmp.  In the middle of calls it counts, besides pools and live  *)
(* objects, the pools about to enter a list, the objects about to be       *)
(* linked and those found but not yet subtracted.                          *)
(***************************************************************************)
Entering == {a \in Arenas : pc[a] = "enlist"}

Owes(t) == IF hpc[t] \in {"node", "insert"} THEN hsize[t]
           ELSE IF hpc[t] \in {"path", "unmapobject", "sub"} THEN slot[found[t]].size
           ELSE 0

Owed == [t \in Threads |-> Owes(t)]

PoolBytes == (Len(pools) + Cardinality(Entering)) * PoolSize
ObjectBytes == SumFunctionOnSet(Lengths, objects)
OwedBytes == SumFunctionOnSet(Owed, Threads)

Counted == pmem_consmp = (PoolBytes + ObjectBytes + OwedBytes) % ConsmpMod
AddersAgree == \A a \in Arenas : pc[a] = "add" => reg[a] = pmem_consmp

ConsmpInv == "consmp" \notin races => AddersAgree /\ (~torn => Counted)

\* A state in which every mapping is known.
Known == FilesInv /\ ~torn

BytesOK ==
  /\ PoolBytes \in Nat /\ ObjectBytes \in Nat /\ OwedBytes \in Nat
  /\ Len(pools) \in Nat /\ pmem_consmp \in Nat
  /\ IsFiniteSet(Entering) /\ Cardinality(Entering) \in Nat
  /\ IsFiniteSet(Threads) /\ IsFiniteSet(objects)
  /\ \A t \in Threads : Owes(t) \in Nat /\ Owed[t] = Owes(t)
  /\ \A o \in objects : Lengths[o] = o.len /\ o.len \in Nat

LEMMA BytesTyped == Known => BytesOK
<1> SUFFICES ASSUME Known PROVE BytesOK
  OBVIOUS
<1>0. TypeOK /\ HugeTypeOK /\ TreeInv
  BY TypesSplit DEF Known, FilesInv, HugeInv
<1>1. IsFiniteSet(Threads) /\ IsFiniteSet(objects)
  BY <1>0, FileConstants DEF TreeInv
<1>2. \A o \in objects : Lengths[o] = o.len /\ o.len \in Nat
  BY <1>0, HugeTypes DEF Lengths
<1>3. \A t \in Threads : Owes(t) \in Nat /\ Owed[t] = Owes(t)
  <2>1. \A t \in Threads : /\ found[t] \in Threads /\ hsize[t] \in Nat
                           /\ slot[t].size \in Nat
    BY <1>0, HugeTypes
  <2>2. \A t \in Threads : slot[found[t]].size \in Nat
    BY <2>1
  <2> QED
    BY <2>1, <2>2 DEF Owes, Owed
<1>4. Len(pools) \in Nat /\ pmem_consmp \in Nat
  BY <1>0, FileConstants, PoolTypes DEF TypeOK
<1>5. IsFiniteSet(Entering) /\ Cardinality(Entering) \in Nat
  <2>1. Entering \subseteq Arenas
    BY DEF Entering
  <2>2. IsFiniteSet(Entering)
    BY <2>1, FileConstants, FS_Subset
  <2> QED
    BY <2>2, FS_CardinalityType
<1>6. PoolBytes \in Nat
  <2>1. Len(pools) + Cardinality(Entering) \in Nat /\ PoolSize \in Nat
    BY <1>4, <1>5, FileConstants
  <2> QED
    BY <2>1 DEF PoolBytes
<1>7. ObjectBytes \in Nat
  BY <1>1, <1>2, SumType DEF ObjectBytes
<1>8. OwedBytes \in Nat
  BY <1>1, <1>3, SumType DEF OwedBytes
<1> QED
  BY <1>1, <1>2, <1>3, <1>4, <1>5, <1>6, <1>7, <1>8 DEF BytesOK

\* What one thread owes changes the sum by as much.
LEMMA OneOwes ==
  ASSUME Known, Known', NEW t \in Threads,
         \A u \in Threads : u # t => Owes(u)' = Owes(u)
  PROVE  OwedBytes' + Owes(t) = OwedBytes + Owes(t)'
<1>1. \A u \in Threads : /\ Owed[u] \in Nat /\ Owed'[u] \in Nat
                         /\ Owed[u] = Owes(u) /\ Owed'[u] = Owes(u)'
  <2>1. BytesOK /\ BytesOK'
    BY BytesTyped, PTL
  <2> QED
    BY <2>1 DEF BytesOK
<1>2. IsFiniteSet(Threads)
  BY FileConstants
<1>3. SumFunctionOnSet(Owed', Threads) + Owed[t] = SumFunctionOnSet(Owed, Threads) + Owed'[t]
  BY <1>1, <1>2, SumUpdate
<1> QED
  BY <1>1, <1>3 DEF OwedBytes

LEMMA NobodyOwes ==
  ASSUME \A t \in Threads : Owes(t)' = Owes(t)
  PROVE  OwedBytes' = OwedBytes
<1>1. Owed' = Owed
  BY DEF Owed
<1> QED
  BY <1>1 DEF OwedBytes

\* A thread of huge.c that moves leaves alone what the others owe.
LEMMA OthersOwe ==
  ASSUME NEW t \in Threads,
         \A u \in Threads : u # t => /\ hpc'[u] = hpc[u] /\ hsize'[u] = hsize[u]
                                     /\ found'[u] = found[u],
         \A u \in Freeing : u # t => slot'[found[u]].size = slot[found[u]].size
  PROVE  \A u \in Threads : u # t => Owes(u)' = Owes(u)
BY DEF Owes, Freeing

\* A step that counts nothing, enlists nothing and links nothing.
LEMMA ConsmpKept ==
  ASSUME Counted, UNCHANGED <<pools, objects, pmem_consmp>>,
         Entering' = Entering, \A t \in Threads : Owes(t)' = Owes(t)
  PROVE  Counted'
<1>1. PoolBytes' = PoolBytes
  BY DEF PoolBytes
<1>2. ObjectBytes' = ObjectBytes
  BY DEF ObjectBytes, Lengths
<1>3. OwedBytes' = OwedBytes
  BY NobodyOwes
<1> QED
  BY <1>1, <1>2, <1>3 DEF Counted

\* A step that counts x bytes, or uncounts them, and is right about it.
LEMMA ConsmpFollows ==
  ASSUME Known, Counted, NEW x \in Int,
         pmem_consmp' = (pmem_consmp + x) % ConsmpMod,
         PoolBytes' + ObjectBytes' + OwedBytes' = PoolBytes + ObjectBytes + OwedBytes + x
  PROVE  Counted'
<1>1. PICK m, v : m = PoolBytes + ObjectBytes + OwedBytes /\ v = 0 - x
  OBVIOUS
<1>2. m \in Int /\ v \in Int /\ ConsmpMod \in Nat \ {0} /\ pmem_consmp = m % ConsmpMod
  BY <1>1, BytesTyped, FileConstants DEF Counted, BytesOK
<1>3. ((m % ConsmpMod) - v) % ConsmpMod = (m - v) % ConsmpMod
  BY <1>2, ModSub
<1>4. pmem_consmp + x = (m % ConsmpMod) - v
  <2>1. pmem_consmp \in Nat
    BY BytesTyped DEF BytesOK
  <2> QED
    BY <1>1, <1>2, <2>1
<1>5. m - v = PoolBytes' + ObjectBytes' + OwedBytes'
  BY <1>1, <1>2
<1> QED
  BY <1>3, <1>4, <1>5 DEF Counted

\* A step that moves bytes from one place to another.
LEMMA ConsmpMoves ==
  ASSUME Counted, UNCHANGED pmem_consmp,
         PoolBytes' + ObjectBytes' + OwedBytes' = PoolBytes + ObjectBytes + OwedBytes
  PROVE  Counted'
BY DEF Counted

\* No addition of a pool is under way that has read another value.
LEMMA AddersStay ==
  ASSUME FilesInv, AddersAgree, pmem_consmp' # pmem_consmp => ~AddingStill,
         \/ PoolStep
         \/ \E t \in Threads : HugeStep(t)
  PROVE  AddersAgree'
<1>0. /\ TypeOK
      /\ pc \in [Arenas -> {"idle", "store", "name", "map", "remove", "remap",
                            "consmp", "add", "enlist"}]
      /\ reg \in [Arenas -> Nat]
  BY TypesSplit DEF FilesInv, TypeOK
<1>1. ASSUME NEW a \in Arenas, pc'[a] = "add", pc[a] = "add", reg'[a] = reg[a]
      PROVE  reg'[a] = pmem_consmp'
  BY <1>1 DEF AddersAgree, AddingStill
<1>2. ASSUME NEW b \in Arenas, NEW from, NEW to, Go(b, from, to),
             to = "add" => reg'[b] = pmem_consmp',
             \A c \in Arenas : c # b => reg'[c] = reg[c]
      PROVE  AddersAgree'
  <2> SUFFICES ASSUME NEW a \in Arenas, pc'[a] = "add"
               PROVE  reg'[a] = pmem_consmp'
    BY DEF AddersAgree
  <2>1. pc'[b] = to /\ (a # b => pc'[a] = pc[a])
    BY <1>0, <1>2 DEF Go
  <2> QED
    BY <2>1, <1>1, <1>2
<1>3. CASE UNCHANGED <<pc, reg>>
  <2> SUFFICES ASSUME NEW a \in Arenas, pc'[a] = "add"
               PROVE  reg'[a] = pmem_consmp'
    BY DEF AddersAgree
  <2> QED
    BY <1>3, <1>1
<1>4. CASE Lspmemdir
  BY <1>3, <1>4 DEF Lspmemdir
<1>5. ASSUME NEW b \in Arenas, LoadNumber(b)
      PROVE  AddersAgree'
  <2>1. Go(b, "idle", "store") /\ \A c \in Arenas : c # b => reg'[c] = reg[c]
    BY <1>0, <1>5 DEF LoadNumber
  <2> QED
    BY <2>1, <1>2
<1>6. ASSUME NEW b \in Arenas, Proceed(b)
      PROVE  AddersAgree'
  <2>1. \A c \in Arenas : c # b => reg'[c] = reg[c]
    BY <1>0, <1>6 DEF Proceed, StoreNumber, Name, Map, MapMisaligned, Remove, Remap,
       MapFile, LoadConsmp, StoreConsmp, Enlist
  <2>2. CASE LoadConsmp(b)
    <3>1. Go(b, "consmp", "add") /\ reg'[b] = pmem_consmp'
      BY <1>0, <2>2 DEF LoadConsmp, globals
    <3> QED
      BY <2>1, <3>1, <1>2
  <2>3. CASE ~LoadConsmp(b)
    <3>1. \E from, to : Go(b, from, to) /\ to # "add"
      BY <1>6, <2>3 DEF Proceed, StoreNumber, Name, Map, MapMisaligned, Remove, Remap,
         StoreConsmp, Enlist
    <3> QED
      BY <2>1, <3>1, <1>2
  <2> QED
    BY <2>2, <2>3
<1>7. ASSUME NEW t \in Threads, HugeStep(t)
      PROVE  UNCHANGED <<pc, reg>>
  BY <1>7 DEF HugeStep, HugeMalloc, CountFile, MapObject, HugeMap, UnmapMisaligned,
              RemoveMisaligned, RemapObject, TrimObject, AddConsmp, FillNode,
              InsertNode, HugeDalloc, PrintPath, UnmapObject, SubConsmp, RemoveFile,
              OtherCall, poolVars
<1> QED
  BY <1>3, <1>4, <1>5, <1>6, <1>7 DEF PoolStep, PoolStart

\* A step of pmempool_create_one.
LEMMA ConsmpPoolStepOK ==
  ASSUME Known, Counted, AddersAgree, PoolStep
  PROVE  Counted'
<1>0. /\ TypeOK /\ UNCHANGED hvars
      /\ pc \in [Arenas -> {"idle", "store", "name", "map", "remove", "remap",
                            "consmp", "add", "enlist"}]
  BY TypesSplit DEF Known, FilesInv, PoolStep, TypeOK
<1>1. UNCHANGED objects /\ \A t \in Threads : Owes(t)' = Owes(t)
  BY <1>0 DEF Owes, hvars, hlocals, hshared
<1>2. ObjectBytes' = ObjectBytes /\ OwedBytes' = OwedBytes
  BY <1>1, NobodyOwes DEF ObjectBytes, Lengths
<1>b. /\ PoolBytes \in Nat /\ ObjectBytes \in Nat /\ OwedBytes \in Nat
      /\ Len(pools) \in Nat /\ PoolSize \in Nat
      /\ IsFiniteSet(Entering) /\ Cardinality(Entering) \in Nat
  BY BytesTyped, FileConstants DEF BytesOK
<1>3. CASE Lspmemdir
  <2>1. UNCHANGED <<pools, pmem_consmp, pc>>
    BY <1>3 DEF Lspmemdir, globals
  <2>2. Entering' = Entering
    BY <2>1 DEF Entering
  <2> QED
    BY <1>1, <2>1, <2>2, ConsmpKept
<1>4. ASSUME NEW a \in Arenas, NEW from, NEW to, Go(a, from, to), from # "enlist",
             to # "enlist", UNCHANGED <<pools, pmem_consmp>>
      PROVE  Counted'
  <2>1. /\ pc[a] = from /\ pc'[a] = to
        /\ \A b \in Arenas : b # a => pc'[b] = pc[b]
    BY <1>0, <1>4 DEF Go
  <2>2. Entering' = Entering
    BY <1>4, <2>1 DEF Entering
  <2> QED
    BY <1>1, <1>4, <2>2, ConsmpKept
<1>5. ASSUME NEW a \in Arenas, LoadNumber(a) PROVE Counted'
  <2>1. Go(a, "idle", "store") /\ UNCHANGED <<pools, pmem_consmp>>
    BY <1>5 DEF LoadNumber, globals
  <2> QED
    BY <1>4, <2>1
<1>6. ASSUME NEW a \in Arenas,
             \/ StoreNumber(a) \/ Name(a) \/ Map(a) \/ MapMisaligned(a) \/ Remove(a)
             \/ Remap(a) \/ LoadConsmp(a)
      PROVE  Counted'
  <2>1. /\ UNCHANGED <<pools, pmem_consmp>>
        /\ \E from, to : Go(a, from, to) /\ from # "enlist" /\ to # "enlist"
    BY <1>6 DEF StoreNumber, Name, Map, MapMisaligned, MapFile, Remove, Remap,
                LoadConsmp, globals
  <2> QED
    BY <1>4, <2>1
<1>14. ASSUME NEW a \in Arenas, StoreConsmp(a) PROVE Counted'
  <2>1. /\ pc[a] = "add" /\ pc' = [pc EXCEPT ![a] = "enlist"] /\ UNCHANGED pools
        /\ pmem_consmp' = (reg[a] + PoolSize) % ConsmpMod
    BY <1>14 DEF StoreConsmp, Go
  <2>2. a \notin Entering /\ Entering' = Entering \cup {a}
    BY <1>0, <2>1 DEF Entering
  <2>3. Cardinality(Entering') = Cardinality(Entering) + 1
    BY <1>b, <2>2, FS_AddElement
  <2>4. PoolBytes' = PoolBytes + PoolSize
    <3>1. PICK n \in Nat, c \in Nat : n = Len(pools) /\ c = Cardinality(Entering)
      BY <1>b
    <3>2. PoolBytes = (n + c) * PoolSize /\ PoolBytes' = (n + (c + 1)) * PoolSize
      BY <2>1, <2>3, <3>1 DEF PoolBytes
    <3> QED
      BY <3>2, <1>b
  <2>5. PoolBytes' + ObjectBytes' + OwedBytes'
          = PoolBytes + ObjectBytes + OwedBytes + PoolSize
    BY <1>2, <1>b, <2>4
  <2>6. pmem_consmp' = (pmem_consmp + PoolSize) % ConsmpMod /\ PoolSize \in Int
    BY <1>b, <2>1 DEF AddersAgree
  <2> QED
    BY <2>5, <2>6, ConsmpFollows
<1>15. ASSUME NEW a \in Arenas, Enlist(a) PROVE Counted'
  <2>1. /\ pc[a] = "enlist" /\ pc' = [pc EXCEPT ![a] = "idle"]
        /\ UNCHANGED pmem_consmp /\ Len(pools') = Len(pools) + 1
    <3>1. pools \in Seq(PoolRec)
      BY <1>0 DEF TypeOK
    <3> QED
      BY <3>1, <1>15 DEF Enlist, Go, globals
  <2>2. a \in Entering /\ Entering' = Entering \ {a}
    BY <1>0, <2>1 DEF Entering
  <2>3. Cardinality(Entering') = Cardinality(Entering) - 1
    BY <1>b, <2>2, FS_RemoveElement
  <2>4. PoolBytes' = PoolBytes
    <3>1. PICK n \in Nat, c \in Nat : n = Len(pools) /\ c = Cardinality(Entering)
      BY <1>b
    <3>2. n + c = (n + 1) + (c - 1)
      BY <3>1
    <3> QED
      BY <2>1, <2>3, <3>1, <3>2 DEF PoolBytes
  <2> QED
    BY <1>2, <2>1, <2>4, ConsmpMoves
<1> QED
  BY <1>3, <1>5, <1>6, <1>14, <1>15 DEF PoolStep, PoolStart, Proceed

\* A thread that counts nothing: it owes nothing, or the same, afterwards.
LEMMA ConsmpThreadKept ==
  ASSUME Known, Counted, NEW t \in Threads, NEW to,
         hpc' = [hpc EXCEPT ![t] = to], UNCHANGED poolVars,
         UNCHANGED <<objects, pmem_consmp>>,
         \A u \in Threads : u # t => hsize'[u] = hsize[u] /\ found'[u] = found[u],
         \A u \in Freeing : u # t => slot'[found[u]].size = slot[found[u]].size,
         Owes(t)' = Owes(t)
  PROVE  Counted'
<1>0. HugeTypeOK
  BY TypesSplit DEF Known, FilesInv
<1>1. \A u \in Threads : u # t => hpc'[u] = hpc[u]
  BY <1>0 DEF HugeTypeOK
<1>2. \A u \in Threads : Owes(u)' = Owes(u)
  BY <1>1, OthersOwe
<1>3. UNCHANGED <<pools, pc>> /\ Entering' = Entering
  BY DEF poolVars, Entering
<1> QED
  BY <1>2, <1>3, ConsmpKept

\* The places at which a thread owes nothing.
FreePlaces == {"idle", "count", "map", "unmap", "remove", "remap", "trim", "consmp",
               "removefile"}

LEMMA ConsmpCallOK ==
  ASSUME Known, Known', Counted, NEW t \in Threads,
         \/ HugeMalloc(t) \/ CountFile(t) \/ MapObject(t) \/ UnmapMisaligned(t)
         \/ RemoveMisaligned(t) \/ RemapObject(t) \/ TrimObject(t)
  PROVE  Counted'
<1>0. HugeTypeOK /\ hpc \in [Threads -> {"idle", "count", "map", "unmap", "remove",
        "remap", "trim", "consmp", "node", "insert", "path", "unmapobject", "sub",
        "removefile", "aborted"}] /\ hsize \in [Threads -> Sizes \cup {0}]
  BY TypesSplit DEF Known, FilesInv, HugeTypeOK
<1>1. PICK to \in FreePlaces : hpc[t] \in FreePlaces /\ hpc' = [hpc EXCEPT ![t] = to]
  <2>1. CASE MapObject(t)
    <3>1. \/ hpc' = [hpc EXCEPT ![t] = "consmp"]
          \/ hpc' = [hpc EXCEPT ![t] = "unmap"]
      BY <2>1 DEF MapObject
    <3> QED
      BY <2>1, <3>1 DEF MapObject, FreePlaces
  <2>2. CASE ~MapObject(t)
    BY <2>2 DEF HugeMalloc, CountFile, UnmapMisaligned, RemoveMisaligned, RemapObject,
                TrimObject, HGo, FreePlaces
  <2> QED
    BY <2>1, <2>2
<1>2. UNCHANGED poolVars /\ UNCHANGED <<objects, pmem_consmp, found, slot>>
  <2>1. CASE HugeMalloc(t)
    BY <2>1 DEF HugeMalloc, ReuseFrame, Overwrite, Known, globals
  <2>2. CASE ~HugeMalloc(t)
    BY <2>2 DEF CountFile, MapObject, HugeMap, UnmapMisaligned, RemoveMisaligned,
       RemapObject, TrimObject, globals, hlocals, hshared
  <2> QED
    BY <2>1, <2>2
<1>3. \A u \in Threads : u # t => hsize'[u] = hsize[u]
  BY <1>0 DEF HugeMalloc, CountFile, MapObject, HugeMap, UnmapMisaligned,
              RemoveMisaligned, RemapObject, TrimObject, hlocals
<1>4. Owes(t)' = Owes(t)
  <2>1. hpc'[t] = to
    BY <1>0, <1>1
  <2> QED
    BY <1>1, <2>1 DEF Owes, FreePlaces
<1> QED
  BY <1>1, <1>2, <1>3, <1>4, ConsmpThreadKept

LEMMA ConsmpFillNodeOK ==
  ASSUME Known, Known', Counted, NEW t \in Threads, FillNode(t)
  PROVE  Counted'
<1>0. HugeTypeOK /\ TreeInv /\ hpc \in [Threads -> {"idle", "count", "map", "unmap",
        "remove", "remap", "trim", "consmp", "node", "insert", "path", "unmapobject",
        "sub", "removefile", "aborted"}]
  BY TypesSplit DEF Known, FilesInv, HugeTypeOK, HugeInv
<1>1. /\ hpc[t] = "node" /\ hpc' = [hpc EXCEPT ![t] = "insert"]
      /\ UNCHANGED poolVars /\ UNCHANGED <<objects, pmem_consmp, hsize, found>>
      /\ slot' = [slot EXCEPT ![t] = [file_no |-> mmap_file, paddr |-> hmap[t].addr,
                                      size |-> hsize[t]]]
      /\ ~FrameInUse(t)
  BY DEF FillNode, HGo, globals, hlocals, Known
<1>2. \A u \in Freeing : slot'[found[u]] = slot[found[u]]
  <2>1. \A u \in Freeing : found[u] # t /\ found[u] \in Threads
    BY <1>0, <1>1, HugeTypes DEF FrameInUse, Freeing
  <2> QED
    BY <1>0, <1>1, <2>1 DEF HugeTypeOK
<1>3. Owes(t)' = Owes(t)
  BY <1>0, <1>1 DEF Owes
<1> QED
  BY <1>1, <1>2, <1>3, ConsmpThreadKept

LEMMA ConsmpFreeOK ==
  ASSUME Known, Counted, NEW t \in Threads,
         PrintPath(t) \/ UnmapObject(t) \/ RemoveFile(t)
  PROVE  Counted'
<1>0. HugeTypeOK /\ TreeInv /\ hpc \in [Threads -> {"idle", "count", "map", "unmap",
        "remove", "remap", "trim", "consmp", "node", "insert", "path", "unmapobject",
        "sub", "removefile", "aborted"}]
      /\ hsize \in [Threads -> Sizes \cup {0}] /\ found \in [Threads -> Threads]
  BY TypesSplit DEF Known, FilesInv, HugeTypeOK, HugeInv
<1>1. CASE PrintPath(t)
  <2>1. /\ hpc[t] = "path" /\ hpc' = [hpc EXCEPT ![t] = "unmapobject"]
        /\ UNCHANGED poolVars /\ UNCHANGED <<objects, pmem_consmp, hsize, found, slot>>
    BY <1>1 DEF PrintPath, HGo, globals, hshared
  <2>2. Owes(t)' = Owes(t)
    BY <1>0, <2>1 DEF Owes
  <2> QED
    BY <2>1, <2>2, ConsmpThreadKept
<1>2. CASE UnmapObject(t)
  <2>1. /\ hpc[t] = "unmapobject" /\ hpc' = [hpc EXCEPT ![t] = "sub"]
        /\ UNCHANGED poolVars /\ UNCHANGED <<objects, pmem_consmp, hsize, found, slot>>
    BY <1>2 DEF UnmapObject, HGo, globals, hlocals
  <2>2. Owes(t)' = Owes(t)
    BY <1>0, <2>1 DEF Owes
  <2> QED
    BY <2>1, <2>2, ConsmpThreadKept
<1>3. CASE RemoveFile(t)
  <2>1. /\ hpc[t] = "removefile" /\ hpc' = [hpc EXCEPT ![t] = "idle"]
        /\ UNCHANGED poolVars /\ UNCHANGED <<objects, pmem_consmp>>
        /\ hsize' = [hsize EXCEPT ![t] = 0] /\ found' = [found EXCEPT ![t] = t]
        /\ \/ slot' = slot
           \/ slot' = [slot EXCEPT ![found[t]] = NoNode]
    BY <1>3 DEF RemoveFile, HGo, EndCall, globals
  <2>2. \A u \in Threads : u # t => hsize'[u] = hsize[u] /\ found'[u] = found[u]
    BY <1>0, <2>1
  <2>3. \A u \in Freeing : u # t => slot'[found[u]].size = slot[found[u]].size
    <3>1. t \in Freeing
      BY <2>1 DEF Freeing
    <3>2. \A u \in Freeing : u # t => found[u] # found[t] /\ found[u] \in Threads
      BY <1>0, <3>1, HugeTypes DEF TreeInv, Freeing
    <3> QED
      BY <1>0, <2>1, <3>2 DEF HugeTypeOK
  <2>4. Owes(t)' = Owes(t)
    BY <1>0, <2>1 DEF Owes
  <2> QED
    BY <2>1, <2>2, <2>3, <2>4, ConsmpThreadKept
<1> QED
  BY <1>1, <1>2, <1>3

\* The two atomic operations.
LEMMA ConsmpCountedOK ==
  ASSUME Known, Known', Counted, NEW t \in Threads, AddConsmp(t) \/ SubConsmp(t)
  PROVE  Counted'
<1>0. HugeTypeOK /\ hpc \in [Threads -> {"idle", "count", "map", "unmap",
        "remove", "remap", "trim", "consmp", "node", "insert", "path", "unmapobject",
        "sub", "removefile", "aborted"}]
  BY TypesSplit DEF Known, FilesInv, HugeTypeOK
<1>1. /\ hpc[t] \in {"consmp", "sub"} /\ UNCHANGED poolVars
      /\ UNCHANGED <<objects, hsize, found, slot>>
      /\ hpc' = [hpc EXCEPT ![t] = IF hpc[t] = "consmp" THEN "node" ELSE "removefile"]
      /\ pmem_consmp' = IF hpc[t] = "consmp" THEN (pmem_consmp + hsize[t]) % ConsmpMod
                        ELSE (pmem_consmp - slot[found[t]].size) % ConsmpMod
  BY DEF AddConsmp, SubConsmp, HGo, AtomicAdd, AtomicSub, hlocals, hshared
<1>3. UNCHANGED <<pools, pc>>
  BY <1>1 DEF poolVars
<1>4. PoolBytes' = PoolBytes /\ ObjectBytes' = ObjectBytes
  BY <1>1, <1>3 DEF PoolBytes, Entering, ObjectBytes, Lengths
<1>5. \A u \in Threads : u # t => Owes(u)' = Owes(u)
  BY <1>0, <1>1 DEF Owes
<1>6. OwedBytes' + Owes(t) = OwedBytes + Owes(t)'
  BY <1>5, OneOwes
<1>7. BytesOK /\ BytesOK'
  BY BytesTyped, PTL
<1>8. PICK x \in Int : x = Owes(t)' - Owes(t)
  <2>1. Owes(t) \in Nat /\ Owes(t)' \in Nat
    BY <1>7 DEF BytesOK
  <2> QED
    BY <2>1
<1>9. pmem_consmp' = (pmem_consmp + x) % ConsmpMod
  <2>0. pmem_consmp \in Nat /\ Owes(t) \in Nat /\ Owes(t)' \in Nat
    BY <1>7 DEF BytesOK
  <2>1. CASE hpc[t] = "consmp"
    <3>1. Owes(t) = 0 /\ Owes(t)' = hsize[t]
      BY <2>1, <1>0, <1>1 DEF Owes
    <3>2. x = hsize[t]
      BY <2>0, <3>1, <1>8
    <3> QED
      BY <2>1, <3>2, <1>1
  <2>2. CASE hpc[t] = "sub"
    <3>1. Owes(t) = slot[found[t]].size /\ Owes(t)' = 0
      BY <2>2, <1>0, <1>1 DEF Owes
    <3>2. pmem_consmp + x = pmem_consmp - slot[found[t]].size
      BY <2>0, <3>1, <1>8
    <3> QED
      BY <2>2, <3>2, <1>1
  <2> QED
    BY <2>1, <2>2, <1>1
<1>10. PoolBytes' + ObjectBytes' + OwedBytes' = PoolBytes + ObjectBytes + OwedBytes + x
  <2>1. /\ PoolBytes \in Nat /\ ObjectBytes \in Nat /\ OwedBytes \in Nat
        /\ OwedBytes' \in Nat /\ Owes(t) \in Nat /\ Owes(t)' \in Nat
    BY <1>7 DEF BytesOK
  <2>2. PICK p \in Nat, b \in Nat, d \in Nat, e \in Nat, v \in Nat, w \in Nat :
          /\ p = PoolBytes /\ b = ObjectBytes /\ d = OwedBytes
          /\ e = OwedBytes' /\ v = Owes(t) /\ w = Owes(t)'
    BY <2>1
  <2>3. e = d + x
    <3>1. e + v = d + w /\ x = w - v
      BY <2>2, <1>6, <1>8
    <3> QED
      BY <3>1
  <2>4. p + b + e = p + b + d + x
    BY <2>3
  <2> QED
    BY <2>2, <2>4, <1>4
<1> QED
  BY <1>9, <1>10, ConsmpFollows

\* An object that is linked was owed for until now.
LEMMA ConsmpInsertOK ==
  ASSUME Known, Known', Counted, NEW t \in Threads, InsertNode(t)
  PROVE  Counted'
<1>0. /\ HugeTypeOK /\ SizesInv /\ ApartInv
      /\ hpc \in [Threads -> {"idle", "count", "map", "unmap",
           "remove", "remap", "trim", "consmp", "node", "insert", "path", "unmapobject",
           "sub", "removefile", "aborted"}]
      /\ hsize \in [Threads -> Sizes \cup {0}] /\ found \in [Threads -> Threads]
  BY TypesSplit DEF Known, FilesInv, HugeTypeOK, HugeInv
<1>1. ~Aborted'
  <2>1. TreeInv'
    BY DEF Known, FilesInv, HugeInv
  <2> QED
    BY <2>1 DEF TreeInv
<1>2. /\ hpc[t] = "insert" /\ hpc' = [hpc EXCEPT ![t] = "idle"]
      /\ objects' = objects \cup {hmap[t]} /\ UNCHANGED poolVars
      /\ UNCHANGED <<pmem_consmp, slot>>
      /\ hsize' = [hsize EXCEPT ![t] = 0] /\ found' = [found EXCEPT ![t] = t]
  <2>1. hpc'[t] # "aborted"
    BY <1>1 DEF Aborted
  <2>2. hpc' # [hpc EXCEPT ![t] = "aborted"]
    BY <1>0, <2>1
  <2> QED
    BY <2>2 DEF InsertNode, EndCall, globals
<1>3. PICK new : new = hmap[t]
  OBVIOUS
<1>4. new \in Mapping /\ new.len = hsize[t] /\ new.len \in Sizes /\ new.addr \in Nat
      /\ new.len \in Nat \ {0}
  <2>1. t \in Creating
    BY <1>2 DEF Creating
  <2>2. CallSizesInv(t)
    BY <2>1, <1>0 DEF SizesInv
  <2>3. new \in Mapping
    BY <1>0, <1>3, HugeTypes
  <2> QED
    BY <1>0, <1>2, <1>3, <2>2, <2>3, HugeTypes, FileConstants DEF CallSizesInv
<1>5. new \notin objects
  <2>1. t \in Making
    BY <1>2 DEF Making
  <2>2. \A o \in objects : Disjoint(o, new)
    BY <1>0, <1>3, <2>1 DEF ApartInv
  <2>3. new.addr \in Units(new.addr, new.len)
    BY <1>4 DEF Units
  <2> QED
    BY <2>2, <2>3 DEF Disjoint
<1>7. BytesOK /\ BytesOK'
  BY BytesTyped, PTL
<1>8. ObjectBytes' = ObjectBytes + hsize[t]
  <2>1. IsFiniteSet(objects) /\ IsFiniteSet(objects')
    BY <1>7 DEF BytesOK
  <2>2. \A o \in objects' : Lengths'[o] = o.len /\ Lengths'[o] \in Nat
    BY <1>7 DEF BytesOK
  <2>3. \A o \in objects : Lengths'[o] = Lengths[o] /\ o \in objects'
    BY <1>2, <1>7, <2>2 DEF BytesOK
  <2>4. objects' = objects \cup {new} /\ Lengths'[new] = hsize[t]
    BY <1>2, <1>3, <1>4, <2>2
  <2>5. SumFunctionOnSet(Lengths', objects \cup {new})
          = SumFunctionOnSet(Lengths', objects) + Lengths'[new]
    BY <1>5, <2>1, <2>2, <2>4, SumAdd
  <2>6. SumFunctionOnSet(Lengths', objects) = SumFunctionOnSet(Lengths, objects)
    BY <2>1, <2>3, SumSame
  <2> QED
    BY <2>4, <2>5, <2>6 DEF ObjectBytes
<1>9. OwedBytes' + hsize[t] = OwedBytes
  <2>1. Owes(t) = hsize[t] /\ Owes(t)' = 0
    BY <1>0, <1>2 DEF Owes
  <2>2. \A u \in Threads : u # t => Owes(u)' = Owes(u)
    BY <1>0, <1>2 DEF Owes
  <2>3. OwedBytes' + Owes(t) = OwedBytes + Owes(t)'
    BY <2>2, OneOwes
  <2>4. OwedBytes \in Nat
    BY <1>7 DEF BytesOK
  <2> QED
    BY <2>1, <2>3, <2>4
<1>10. PoolBytes' = PoolBytes
  BY <1>2 DEF poolVars, PoolBytes, Entering
<1>11. PoolBytes' + ObjectBytes' + OwedBytes' = PoolBytes + ObjectBytes + OwedBytes
  <2>1. /\ PoolBytes \in Nat /\ ObjectBytes \in Nat /\ OwedBytes \in Nat
        /\ OwedBytes' \in Nat /\ hsize[t] \in Nat
    BY <1>4, <1>7 DEF BytesOK
  <2>2. PICK p \in Nat, b \in Nat, d \in Nat, e \in Nat, v \in Nat :
          /\ p = PoolBytes /\ b = ObjectBytes /\ d = OwedBytes
          /\ e = OwedBytes' /\ v = hsize[t]
    BY <2>1
  <2>3. e + v = d
    BY <2>2, <1>9
  <2>4. p + (b + v) + e = p + b + d
    BY <2>3
  <2> QED
    BY <2>2, <2>4, <1>8, <1>10
<1> QED
  BY <1>2, <1>11, ConsmpMoves

\* An object found by lsfree is owed for from now on.
LEMMA ConsmpDallocOK ==
  ASSUME Known, Known', Counted, NEW t \in Threads, HugeDalloc(t)
  PROVE  Counted'
<1>0. /\ HugeTypeOK /\ TreeInv
      /\ hpc \in [Threads -> {"idle", "count", "map", "unmap",
           "remove", "remap", "trim", "consmp", "node", "insert", "path", "unmapobject",
           "sub", "removefile", "aborted"}]
      /\ found \in [Threads -> Threads]
  BY TypesSplit DEF Known, FilesInv, HugeTypeOK, HugeInv
<1>1. /\ hpc[t] = "idle" /\ UNCHANGED poolVars
      /\ UNCHANGED <<pmem_consmp, hsize, slot>>
  BY DEF HugeDalloc, ReuseFrame, Overwrite, Known, globals
<1>2. PICK o \in objects :
        /\ objects' = objects \ {o}
        /\ \/ \E u \in tree : /\ slot[u].paddr = o.addr
                              /\ found' = [found EXCEPT ![t] = u]
                              /\ hpc' = [hpc EXCEPT ![t] = "path"]
           \/ \A u \in tree : slot[u].paddr # o.addr
  BY <1>1 DEF HugeDalloc, Known
<1>3. PICK u \in tree : /\ slot[u].size = o.len
                        /\ found' = [found EXCEPT ![t] = u]
                        /\ hpc' = [hpc EXCEPT ![t] = "path"]
  <2>1. PICK v \in tree : slot[v].paddr = o.addr /\ slot[v].size = o.len
    BY <1>0 DEF TreeInv
  <2>2. \A w \in tree : slot[w].paddr = o.addr => w = v
    BY <2>1, <1>0 DEF TreeInv
  <2> QED
    BY <2>1, <2>2, <1>2
<1>7. BytesOK /\ BytesOK'
  BY BytesTyped, PTL
<1>8. ObjectBytes = ObjectBytes' + o.len
  <2>1. IsFiniteSet(objects) /\ IsFiniteSet(objects')
        /\ \A p \in objects : Lengths[p] = p.len /\ Lengths[p] \in Nat
    BY <1>7 DEF BytesOK
  <2>2. \A p \in objects' : Lengths'[p] = Lengths[p]
    BY <1>2, <1>7 DEF BytesOK
  <2>3. SumFunctionOnSet(Lengths, objects)
          = SumFunctionOnSet(Lengths, objects \ {o}) + Lengths[o]
    BY <2>1, SumRemove
  <2>4. SumFunctionOnSet(Lengths', objects') = SumFunctionOnSet(Lengths, objects')
    BY <2>1, <2>2, SumSame
  <2> QED
    BY <1>2, <2>1, <2>3, <2>4 DEF ObjectBytes
<1>9. OwedBytes' = OwedBytes + o.len
  <2>1. Owes(t) = 0 /\ Owes(t)' = o.len
    BY <1>0, <1>1, <1>3 DEF Owes
  <2>2. \A w \in Threads : w # t => Owes(w)' = Owes(w)
    BY <1>0, <1>1, <1>3 DEF Owes
  <2>3. OwedBytes' + Owes(t) = OwedBytes + Owes(t)'
    BY <2>2, OneOwes
  <2>4. OwedBytes' \in Nat
    BY <1>7 DEF BytesOK
  <2> QED
    BY <2>1, <2>3, <2>4
<1>10. PoolBytes' = PoolBytes
  BY <1>1 DEF poolVars, PoolBytes, Entering
<1>11. PoolBytes' + ObjectBytes' + OwedBytes' = PoolBytes + ObjectBytes + OwedBytes
  <2>1. /\ PoolBytes \in Nat /\ ObjectBytes \in Nat /\ OwedBytes \in Nat
        /\ ObjectBytes' \in Nat /\ o.len \in Nat
    BY <1>7 DEF BytesOK
  <2> QED
    BY <2>1, <1>8, <1>9, <1>10
<1> QED
  BY <1>1, <1>11, ConsmpMoves

\* A process begins with nothing mapped.
LEMMA ConsmpBegins == Begins => ConsmpInv
<1> SUFFICES ASSUME Begins PROVE AddersAgree /\ Counted
  BY DEF ConsmpInv
<1>1. /\ pmem_consmp = 0 /\ pools = <<>> /\ objects = {}
      /\ (\A a \in Arenas : pc[a] = "idle") /\ (\A t \in Threads : hpc[t] = "idle")
  BY DEF Begins
<1>2. PoolBytes = 0
  <2>1. Entering = {} /\ Len(pools) = 0 /\ Cardinality({}) = 0
    BY <1>1, EmptySeq, FS_EmptySet DEF Entering
  <2> QED
    BY <2>1, FileConstants DEF PoolBytes
<1>3. ObjectBytes = 0
  BY <1>1, SumEmpty DEF ObjectBytes
<1>4. OwedBytes = 0
  <2>1. \A t \in Threads : Owed[t] = 0
    BY <1>1 DEF Owed, Owes
  <2>2. SumFunctionOnSet(Owed, Threads) = 0
    BY <2>1, FileConstants, SumZero
  <2> QED
    BY <2>2 DEF OwedBytes
<1>5. 0 % ConsmpMod = 0
  BY FileConstants
<1> QED
  BY <1>1, <1>2, <1>3, <1>4, <1>5 DEF AddersAgree, Counted

LEMMA ConsmpNextOK ==
  ASSUME FilesInv, FilesInv', ConsmpInv, [FilesNext]_allVars
  PROVE  ConsmpInv'
<1>0. HugeTypeOK /\ races \subseteq {"number", "consmp"}
  BY TypesSplit DEF FilesInv
<1>1. CASE PoolStep /\ Watch
  <2> SUFFICES ASSUME "consmp" \notin races'
               PROVE  AddersAgree' /\ (~torn' => Counted')
    BY DEF ConsmpInv
  <2>1. AddersAgree /\ (~torn => Counted) /\ (pmem_consmp' # pmem_consmp => ~AddingStill)
    BY <1>0, <1>1, Watched DEF ConsmpInv
  <2>2. torn' = torn
    BY <1>1 DEF PoolStep, hvars, hshared
  <2>3. AddersAgree'
    BY <2>1, <1>1, AddersStay
  <2>4. ~torn' => Counted'
    BY <2>1, <2>2, <1>1, ConsmpPoolStepOK DEF Known
  <2> QED
    BY <2>3, <2>4
<1>2. ASSUME NEW t \in Threads, HugeStep(t), Watch
      PROVE  ConsmpInv'
  <2> SUFFICES ASSUME "consmp" \notin races'
               PROVE  AddersAgree' /\ (~torn' => Counted')
    BY DEF ConsmpInv
  <2>1. AddersAgree /\ (~torn => Counted) /\ (pmem_consmp' # pmem_consmp => ~AddingStill)
    BY <1>0, <1>2, Watched DEF ConsmpInv
  <2>2. AddersAgree'
    BY <2>1, <1>2, AddersStay
  <2>3. ASSUME ~torn'
        PROVE  Counted'
    <3>1. Known /\ Known' /\ Counted
      BY <2>1, <2>3, <1>0, <1>2, TornStays DEF Known
    <3>2. ~OtherCall(t)
      BY <2>3 DEF OtherCall, Overwrite
    <3> QED
      BY <3>1, <3>2, <1>2, ConsmpCallOK, ConsmpFillNodeOK, ConsmpFreeOK,
         ConsmpCountedOK, ConsmpInsertOK, ConsmpDallocOK DEF HugeStep
  <2> QED
    BY <2>2, <2>3
<1>3. CASE FilesRestart
  <2>1. Begins'
    BY <1>3, RestartBegins
  <2> QED
    BY <2>1, ConsmpBegins, PTL
<1>4. CASE UNCHANGED allVars
  <2>1. /\ UNCHANGED <<pools, objects, pmem_consmp, pc, reg, races, torn>>
        /\ UNCHANGED <<hpc, hsize, slot, found>>
    BY <1>4 DEF allVars, vars, globals, hvars, hlocals, hshared
  <2>2. Entering' = Entering /\ \A t \in Threads : Owes(t)' = Owes(t)
    BY <2>1 DEF Entering, Owes
  <2>3. (Counted => Counted') /\ (AddersAgree => AddersAgree')
    BY <2>1, <2>2, ConsmpKept DEF AddersAgree
  <2> QED
    BY <2>1, <2>3 DEF ConsmpInv
<1> QED
  BY <1>1, <1>2, <1>3, <1>4 DEF FilesNext, FilesRest, PoolStep

(***************************************************************************)
(* Between calls pmem_consmp is, in the arithmetic of its 32 bits, exactly *)
(* the number of bytes of the pools and live huge objects of the process,  *)
(* however calls overlapped, unless a pool's addition met another in       *)
(* between load and store: neither the longer second mapping of a          *)
(* misaligned file nor a free among other calls leaves a trace.            *)
(***************************************************************************)
THEOREM ConsmpIsExact == FilesSpec => []ConsmpExact
<1>1. FilesInit => ConsmpInv
  BY InitBegins, ConsmpBegins
<1>2. FilesInv /\ FilesInv' /\ ConsmpInv /\ [FilesNext]_allVars => ConsmpInv'
  BY ConsmpNextOK
<1>3. FilesInv /\ ConsmpInv => ConsmpExact
  <2> SUFFICES ASSUME FilesInv, ConsmpInv, "consmp" \notin races, ~torn,
                      Busy \cup Creating \cup Freeing = {}
               PROVE  pmem_consmp =
                        (Len(pools) * PoolSize + SumFunction(Lengths)) % ConsmpMod
    BY DEF ConsmpExact
  <2>1. Busy = {} /\ Creating = {} /\ Freeing = {}
    OBVIOUS
  <2>2. Entering = {} /\ Cardinality({}) = 0
    BY <2>1, FS_EmptySet DEF Entering, Busy
  <2>b. Len(pools) \in Nat /\ PoolBytes \in Nat /\ ObjectBytes \in Nat
    BY BytesTyped DEF BytesOK, Known
  <2>3. PoolBytes = Len(pools) * PoolSize
    BY <2>2, <2>b DEF PoolBytes
  <2>4. \A t \in Threads : Owed[t] = 0
    BY <2>1 DEF Owed, Owes, Creating, Freeing
  <2>5. OwedBytes = 0
    BY <2>4, FileConstants, SumZero DEF OwedBytes
  <2>6. ObjectBytes = SumFunction(Lengths)
    BY DEF ObjectBytes, SumFunction, Lengths
  <2>7. PoolBytes + ObjectBytes + OwedBytes = Len(pools) * PoolSize + SumFunction(Lengths)
    BY <2>b, <2>3, <2>5, <2>6
  <2> QED
    BY <2>7 DEF ConsmpInv, Counted
<1> QED
  BY <1>1, <1>2, <1>3, FilesInvariant, PTL DEF FilesSpec
=============================================================================
