CONSTANTS
  t1 = t1
  t2 = t2
  NoThread = NoThread
  Threads <- MCThreads
  PoolChunks = 2
  MaxPools = 1
  MaxFrees = 1
  ChunkSize = 42
  SregionSize = 20
  PchunkSize = 1
  PsregionSize = 1
  PslabSize = 6
  SizeClass <- MCSizeClass
  LowBytes <- MCLowBytes
SPECIFICATION Spec
INVARIANTS SlabArenaInv NoOverlap SlabsHoldRequests SregionsWalkable
PROPERTIES SpaceNotAbandoned HolderReturns ImplementsStore
