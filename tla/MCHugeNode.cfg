CONSTANTS
  a1 = a1
  a2 = a2
  mnt = mnt
  other = other
  t1 = t1
  t2 = t2
  Arenas <- MCArenas
  Dirs <- MCDirs
  Threads <- MCThreads
  MntPmem = mnt
  Sizes = {3}
  ChunkUnits = 2
  Top = 8
  PoolSize = 2
  ConsmpMod = 5
  MaxFiles = 2
  MaxCrashes = 0
SPECIFICATION FilesSpec
PROPERTY AllocationsReturn
