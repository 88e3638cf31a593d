CONSTANTS
  Trees <- MCTrees
  Documents <- MCDocuments
  Adapters <- MCAdapters
  MaxFiles = 7
  MaxDepth = 4
  MaxGroups = 2
  MaxOptions = 2
  MaxMappings = 5
  MaxTouches = 1
SPECIFICATION Spec
INVARIANTS
  TypeOK
  OnlyOwnedDiffer
  NoChoiceGuessed
  PayloadsClaimed
CHECK_DEADLOCK FALSE
