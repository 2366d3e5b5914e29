SPECIFICATION Spec
CONSTANTS
  r1 = r1
  r2 = r2
  w1 = w1
  c1 = c1
  Requests <- R1
  Reconnectors <- W1
  Closers <- C1
  MaxGen = 2
  ManualCap = 1
  Options <- FullOrManual
INVARIANTS
  OneResult
  CloseIsFinal
PROPERTIES
  TerminalIsFinal
  NoStartAfterClose
