CONSTANTS
  t1 = t1
  t2 = t2
  NoThread = NoThread
  Threads <- MCThreads
  NullFaults = TRUE
  MaxPools = 2
  MaxObjects = 3
  PoolChunks = 2
  ChunkSize = 16
  PchunkSize = 2
  PregionSize = 2
  Alignment = 2
  SizeMod = 64
  Requests <- MCRequests
  LowBytes <- MCLowBytes
SPECIFICATION Spec
INVARIANT NoFault
