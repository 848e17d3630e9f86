CONSTANTS
  IntBits = 4
  MaxBits = 6
  Items <- MCItems
  MaxItems = 2
  Sizes = {1, 4, 9}
  Spare = 3
  Numbers <- MCNumbers
  Bases = {0, 1, 8, 10, 16}
SPECIFICATION Spec
INVARIANTS Expanded ScanInStep NumbersRead
