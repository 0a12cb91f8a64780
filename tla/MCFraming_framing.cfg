SPECIFICATION Spec
CONSTANTS
  Radix = 2
  RemLens = {0, 2, 3, 5}
  ReadBufSize = 3
  MaxPackets = 2
  MaxRecords = 2
  CanCut = TRUE
INVARIANTS
  TypeOK
  InStep
CHECK_DEADLOCK FALSE
PROPERTIES
  InOrderOnce
