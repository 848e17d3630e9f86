------------------------------ MODULE PoolFiles ------------------------------
(***************************************************************************)
(* The files behind the pools: pmempool_create_one (src/src/pool.c) run by *)
(* several arenas of one process.  It names a file with the global counter *)
(* mmap_file, maps it, maps it again if the mapping is not aligned, adds   *)
(* to the global pmem_consmp, and notes the file's number.  Each arena     *)
(* runs it under its own lock, so nothing orders the accesses of two       *)
(* arenas to the globals.  They are plain variables, built without         *)
(* optimisation: every access is one load or one store.                    *)
(*                                                                         *)
(* The files outlive the process; a new process starts with mmap_file = 0. *)
(***************************************************************************)
EXTENDS Integers, Sequences, FiniteSets, Functions

CONSTANTS
  Arenas,
  Dirs,             \* the directories a program may give to lspmemdir
  MntPmem,          \* "/mnt/pmem", the one in the format string
  PoolSize,         \* PMEMPOOL_SIZE
  ConsmpMod,        \* the range of pmem_consmp, an unsigned int
  MaxFiles,         \* bound: files created by one process
  MaxCrashes        \* bound: ends of the process

ASSUME PoolFilesAssumption ==
  /\ MntPmem \in Dirs /\ IsFiniteSet(Arenas)
  /\ {PoolSize, ConsmpMod, MaxFiles} \subseteq Nat \ {0} /\ MaxCrashes \in Nat

Numbers == 0 .. MaxFiles     \* what mmap_file can be
NoFile == 0

VARIABLES
  mmap_file, pmem_consmp, pmem_path,
  disk,             \* the inode of "lspmemfile<i>", NoFile if there is none
  inodes,           \* inodes made so far
  pc,               \* each arena's place in pmempool_create_one
  reg,              \* the value it has loaded from a global
  name,             \* the number in str, the path it uses
  ino,              \* the inode it has mapped
  pools,            \* the pools of the process, as they entered a file list
  crashes

globals == <<mmap_file, pmem_consmp>>
device == <<disk, inodes>>
vars == <<globals, pmem_path, device, pc, reg, name, ino, pools, crashes>>

NewProcess ==
  [mmap_file |-> 0, pmem_consmp |-> 0, pmem_path |-> MntPmem,
   local |-> [a \in Arenas |-> 0], pc |-> [a \in Arenas |-> "idle"]]

Init ==
  /\ mmap_file = NewProcess.mmap_file /\ pmem_consmp = NewProcess.pmem_consmp
  /\ pmem_path = NewProcess.pmem_path /\ pc = NewProcess.pc
  /\ reg = NewProcess.local /\ name = NewProcess.local /\ ino = NewProcess.local
  /\ pools = <<>>
  /\ disk = [i \in Numbers |-> NoFile] /\ inodes = 0
  /\ crashes = 0

Busy == {a \in Arenas : pc[a] # "idle"}

Go(a, from, to) == pc[a] = from /\ pc' = [pc EXCEPT ![a] = to]

\* The program calls lspmemdir.  pmempool_create_one does not use pmem_path.
Lspmemdir == /\ Busy = {} /\ pools = <<>>
             /\ pmem_path' \in Dirs
             /\ UNCHANGED <<globals, device, pc, reg, name, ino, pools, crashes>>

\* ++mmap_file, a load and a store.
LoadNumber(a) ==
  /\ Go(a, "idle", "store")
  /\ Len(pools) + Cardinality(Busy) < MaxFiles
  /\ reg' = [reg EXCEPT ![a] = mmap_file]
  /\ UNCHANGED <<globals, pmem_path, device, name, ino, pools, crashes>>

\* Mutant: the counter is not incremented after the first pool.
StoreSameNumber(a) ==
  /\ Go(a, "store", "name")
  /\ mmap_file' = 1
  /\ UNCHANGED <<pmem_consmp, pmem_path, device, reg, name, ino, pools, crashes>>

StoreNumber(a) ==
  /\ Go(a, "store", "name")
  /\ mmap_file' = reg[a] + 1
  /\ UNCHANGED <<pmem_consmp, pmem_path, device, reg, name, ino, pools, crashes>>

\* The value of the expression is read back from the variable for sprintf.
Name(a) ==
  /\ Go(a, "name", "map")
  /\ name' = [name EXCEPT ![a] = mmap_file]
  /\ UNCHANGED <<globals, pmem_path, device, reg, ino, pools, crashes>>

\* pmem_map_file with PMEM_FILE_CREATE: an existing file is taken as it is.
MapFile(a) ==
  /\ \/ disk[name[a]] # NoFile /\ UNCHANGED device
     \/ /\ disk[name[a]] = NoFile
        /\ disk' = [disk EXCEPT ![name[a]] = inodes + 1]
        /\ inodes' = inodes + 1
  /\ ino' = [ino EXCEPT ![a] = disk'[name[a]]]
  /\ UNCHANGED <<globals, pmem_path, reg, name, pools, crashes>>

\* The mapping is aligned to chunksize, or it is unmapped.
Map(a) == Go(a, "map", "consmp") /\ MapFile(a)

MapMisaligned(a) == Go(a, "map", "remove") /\ MapFile(a)

\* Mutant: the path is made again from the counter's old value.
RemoveOldNumber(a) ==
  /\ Go(a, "remove", "remap")
  /\ disk' = [disk EXCEPT ![reg[a]] = NoFile]
  /\ ino' = [ino EXCEPT ![a] = NoFile]
  /\ UNCHANGED <<globals, pmem_path, inodes, reg, name, pools, crashes>>

\* remove(str), whatever file has that name by now.
Remove(a) ==
  /\ Go(a, "remove", "remap")
  /\ disk' = [disk EXCEPT ![name[a]] = NoFile]
  /\ ino' = [ino EXCEPT ![a] = NoFile]
  /\ UNCHANGED <<globals, pmem_path, inodes, reg, name, pools, crashes>>

\* Mutant: the second mapping is not counted.
RemapUncounted(a) == Go(a, "remap", "enlist") /\ MapFile(a)

\* A longer mapping of the same path, trimmed to an aligned one.
Remap(a) == Go(a, "remap", "consmp") /\ MapFile(a)

\* pmem_consmp += size, a load and a store.
LoadConsmp(a) ==
  /\ Go(a, "consmp", "add")
  /\ reg' = [reg EXCEPT ![a] = pmem_consmp]
  /\ UNCHANGED <<globals, pmem_path, device, name, ino, pools, crashes>>

\* Mutant: a counter that does not wrap.
StoreConsmpWide(a) ==
  /\ Go(a, "add", "enlist")
  /\ pmem_consmp' = reg[a] + PoolSize
  /\ UNCHANGED <<mmap_file, pmem_path, device, reg, name, ino, pools, crashes>>

StoreConsmp(a) ==
  /\ Go(a, "add", "enlist")
  /\ pmem_consmp' = (reg[a] + PoolSize) % ConsmpMod
  /\ UNCHANGED <<mmap_file, pmem_path, device, reg, name, ino, pools, crashes>>

\* The pool enters the arena's file list; its number is read from mmap_file.
\* The locals end with the call.
Enlist(a) ==
  /\ Go(a, "enlist", "idle")
  /\ pools' = Append(pools, [file_no |-> mmap_file, name |-> name[a],
                             ino |-> ino[a]])
  /\ reg' = [reg EXCEPT ![a] = 0] /\ name' = [name EXCEPT ![a] = 0]
  /\ ino' = [ino EXCEPT ![a] = NoFile]
  /\ UNCHANGED <<globals, pmem_path, device, crashes>>

\* The process ends, by a crash, by its own exit or because a mapping fails,
\* and is started again.
Restart ==
  /\ crashes < MaxCrashes
  /\ crashes' = crashes + 1
  /\ mmap_file' = NewProcess.mmap_file /\ pmem_consmp' = NewProcess.pmem_consmp
  /\ pmem_path' = NewProcess.pmem_path /\ pc' = NewProcess.pc
  /\ reg' = NewProcess.local /\ name' = NewProcess.local
  /\ ino' = NewProcess.local
  /\ pools' = <<>>
  /\ UNCHANGED device

\* What follows LoadNumber in pmempool_create_one.
Proceed(a) == \/ StoreNumber(a) \/ Name(a)
              \/ Map(a) \/ MapMisaligned(a) \/ Remove(a) \/ Remap(a)
              \/ LoadConsmp(a) \/ StoreConsmp(a) \/ Enlist(a)

-----------------------------------------------------------------------------
PoolRec == [file_no : Numbers, name : Numbers, ino : Nat]

TypeOK ==
  /\ mmap_file \in Numbers /\ pmem_consmp \in 0 .. ConsmpMod - 1
  /\ pmem_path \in Dirs
  /\ disk \in [Numbers -> 0 .. inodes] /\ inodes \in Nat
  /\ pc \in [Arenas -> {"idle", "store", "name", "map", "remove", "remap",
                        "consmp", "add", "enlist"}]
  /\ reg \in [Arenas -> Nat] /\ name \in [Arenas -> Numbers]
  /\ ino \in [Arenas -> 0 .. inodes]
  /\ pools \in Seq(PoolRec) /\ crashes \in 0 .. MaxCrashes

(***************************************************************************)
(* "per arena has its own pool" (src/src/pool.c:3): no two pools of the    *)
(* process are mappings of the same file.  Nothing in the code makes sure  *)
(* of it; HugeFiles says as long as what it is so.                         *)
(***************************************************************************)
PoolsShareNoFile ==
  \A i, j \in 1 .. Len(pools) : pools[i].ino = pools[j].ino => i = j

=============================================================================
