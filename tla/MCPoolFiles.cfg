CONSTANTS
  a1 = a1
  a2 = a2
  mnt = mnt
  other = other
  t1 = t1
  t2 = t2
  Arenas <- MCArenas
  Dirs <- MCDirs
  Threads <- MCThreads
  MntPmem = mnt
  Sizes = {3}
  ChunkUnits = 2
  Top = 8
  PoolSize = 2
  ConsmpMod = 4
  MaxFiles = 2
  MaxCrashes = 1
SPECIFICATION FilesSpec
SYMMETRY MCSymmetry
INVARIANTS FilesInv PoolsOwnFiles ConsmpExact ObjectsCanBeFreed MappedExactly
  ObjectsShareNoFile
PROPERTY LiveFilesStay
CONSTRAINTS Claimed PathAsBuilt
