CONSTANTS
  PoolChunks = 2
  MaxPools = 3
SPECIFICATION Spec
INVARIANTS ChunksConserved CountersMatch
PROPERTY ImplementsChunkQueue
