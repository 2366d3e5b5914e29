SPECIFICATION FairSpec
CONSTANTS
  r1 = r1
  r2 = r2
  w1 = w1
  c1 = c1
  Requests <- R12
  Reconnectors <- None
  Closers <- C1
  MaxGen = 1
  ManualCap = 1
  Options <- Linger12
INVARIANTS
  LastFrame
  NobodyLeftWaiting
PROPERTIES
  InvokeReturns
