CONSTANTS
  N = 3
  MaxForeign = 2
SPECIFICATION FairSpec
INVARIANTS
  OriginalsOrWholeCandidate
PROPERTIES
  ImplementsSafeReplace
  Returns
CHECK_DEADLOCK FALSE
