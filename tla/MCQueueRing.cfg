CONSTANTS
  e1 = e1
  e2 = e2
  e3 = e3
  e4 = e4
  e5 = e5
  h1 = h1
  h2 = h2
  NULL = NULL
  Elms <- MCElms
  Heads <- MCHeads
SPECIFICATION Spec
INVARIANT RingsIntact
PROPERTIES ImplementsSequences OperationsKeepOrder
