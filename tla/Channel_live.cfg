SPECIFICATION FairSpec
CONSTANTS
  r1 = r1
  r2 = r2
  c1 = c1
  c2 = c2
  Requests <- R1
  Cancellable <- None
  Closers <- C1
  MaxGen = 3
  Options <- HookedOrNone
PROPERTIES
  InvokeReturns
  CloseReturns
  Recovers
