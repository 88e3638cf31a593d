CONSTANTS
  Mods <- MCMods
  Setups <- MCSetups
  Views <- MCViews
  MaxScanEntries = 9
SPECIFICATION FairAnalysisSpec
INVARIANTS
  AnalysisTypeOK
  AdapterIsUnique
  OutputApart
  UpdateHasRuntime
  NamelessEdgeStops
PROPERTIES
  Reports
CHECK_DEADLOCK FALSE
