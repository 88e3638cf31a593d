CONSTANTS
  Stores <- MCStores
  Sound <- MCSound
  StockMain <- MCStock
  Global <- MCGlobal
  Selections <- MCSelections
  Connections <- MCConnections
  Installations <- MCInstallations
  Games <- MCGames
  MaxProviders = 6
  MaxPackages = 7
  MaxEdges = 4
  MaxChunk = 3
SPECIFICATION Spec
INVARIANTS
  TypeOK
  ReachesExactly
  ProbesAgree
  OnlyCopiesPassedOver
  TiesAreWarned
CHECK_DEADLOCK FALSE
