SPECIFICATION Spec
CONSTANTS
  FilterLevels <- MCFilterLevels
  NameLevels <- MCNameLevels
  MaxLevels = 3
INVARIANTS
  TypeOK
  Sound
  Complete
CHECK_DEADLOCK FALSE
