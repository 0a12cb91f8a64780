SPECIFICATION Spec
CONSTANTS
  Sizes <- MCSizes
  Fields <- MCFields
  TokenLen = 3
  IndexLimit = 3
  MaxFields = 4
  SizeT = 1000
INVARIANTS
  TypeOK
  DocumentExact
  EnoughIsEnough
