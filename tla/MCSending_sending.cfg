SPECIFICATION FairSpec
CONSTANTS
  Radix = 4
  TxBufLens <- MCTxBufLens
  MaxFragment = 40
  Requests <- MCRequests
  Garbage <- MCGarbage
INVARIANTS
  TypeOK
  LengthExact
  RoundTrip
  OnWirePrefix
  ReturnTrue
PROPERTIES
  SendEnds
