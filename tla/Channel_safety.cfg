SPECIFICATION Spec
CONSTANTS
  r1 = r1
  r2 = r2
  c1 = c1
  c2 = c2
  Requests <- R12
  Cancellable <- R12
  Closers <- C1
  MaxGen = 2
  Options <- Redialling
SYMMETRY Calls
INVARIANTS
  OneAnswer
  AbandonedNeverSent
  QueuedGoFirst
  DrainedOnSettledGen
  CloseIsFinal
PROPERTIES
  KeepsContract
