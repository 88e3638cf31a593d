CONSTANTS
  N = 3
  MaxCalls = 2
  MaxForeign = 1
SPECIFICATION Spec
INVARIANTS
  BackupsComplete
PROPERTIES
  BackupsKept
  ImplementsSafeReplace
CHECK_DEADLOCK FALSE
