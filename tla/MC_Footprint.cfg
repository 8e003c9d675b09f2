CONSTANTS
  N = 3
  Capacity = 2
  CanFail = {2}
SPECIFICATION Spec
CHECK_DEADLOCK FALSE
INVARIANTS
  TypeOK
  OrphansOnlyFromTimeouts
PROPERTIES
  LoopEnds
