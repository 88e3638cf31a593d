SPECIFICATION RebuildSpec
CONSTANTS
  Worlds <- MCWorlds
  Lanes = {"composite", "additive"}
  Corrupt = 9
INVARIANTS
  RebuildTypeOK
  NothingDangles
  AuthoredPayload
  NoImportLost
