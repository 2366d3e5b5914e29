SPECIFICATION Spec
CONSTANTS
  Base = 128
  Magic <- ATLS
  DefaultVersion = 1
  PayloadVersions = {1, 2, 3}
  MaxBodySize = 44
  MaxOperationLen = 4
  MaxSessionLen = 4
  MaxRequestIDLen = 4
  VarintLen = 3
  VarintTop = 1
  Int32Range = 4096
  Writers = {1, 2}
  Calls <- Asks
  Answers <- Peers
  Options <- All
  FlowPrefix <- Flow
  OtherPrefix <- Other
  DatagramMax = 58
  MaxMishaps = 1
INVARIANTS
  InOrder
  NothingMadeUp
  EndsForAReason
  AllArrive
