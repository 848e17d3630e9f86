CONSTANTS
  t1 = t1
  t2 = t2
  NoThread = NoThread
  Threads <- MCThreads
  PageSize = 4
  CacheLine = 2
  ChunkSize = 8
  LastPage = 9
  Requests <- MCRequests
  MaxBlocks = 3
  MaxOthers = 1
SPECIFICATION Spec
INVARIANTS BaseInv NothingLeaks
PROPERTY OthersUntouched
