SPECIFICATION OpenSpec
CONSTANTS
  c1 = c1
  Requests <- None
  Reconnectors <- None
  Closers <- C1
  MaxGen = 2
  ManualCap = 1
  Options <- Options2
  Asks <- AllAsks
  HelloRetries = 1
  Top = 128
  Milli = 2
  Second = 2
  Byte = 5
  MaxTicketLen = 6
  FlowIDLen = 3
INVARIANTS
  OwnInstance
  GapIsOutlasted
  HelloIsWhole
  NoSocketLeft
  KeptAlive
