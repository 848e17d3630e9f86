CONSTANTS
  t1 = t1
  t2 = t2
  t3 = t3
  NoThread = NoThread
  Threads <- MCThreads
  NArenas = 2
  PoolThreads = 32
  MaxPoolThreads = 64
  MaxLate = 1
SPECIFICATION Spec
INVARIANTS BindingInv NthreadsExact
PROPERTIES LeastLoaded CallsEnd
