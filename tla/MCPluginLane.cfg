SPECIFICATION Spec
CONSTANTS
  Worlds <- MCWorlds
  Lanes = {"additive", "magicloader", "mixed", "plugin_only"}
INVARIANTS
  MergeKeepsBoth
  StubsKeepObject
  OnlyPlannedDiffers
CHECK_DEADLOCK FALSE
