SPECIFICATION Spec
CONSTANTS
  r1 = r1
  r2 = r2
  w1 = w1
  c1 = c1
  Requests <- None
  Reconnectors <- None
  Closers <- C1
  MaxGen = 4
  ManualCap = 1
  Options <- Full
INVARIANTS
  CloseStopsReaders
