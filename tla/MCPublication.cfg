CONSTANTS
  Lanes <- MCAllLanes
  MaxEdits = 2
SPECIFICATION PublicationSpec
INVARIANTS
  WholeOrWithdrawn
  MadeFromHashedSource
  RuntimeLast
CHECK_DEADLOCK FALSE
