CONSTANTS
  N = 4
  KindOf <- MCKindOf
  Markers <- MCMarkers
  MaxCalls = 2
  MaxForeign = 1
SPECIFICATION Spec
PROPERTIES
  OnlyBackedUpReplaced
  ImplementsSafeReplace
CHECK_DEADLOCK FALSE
