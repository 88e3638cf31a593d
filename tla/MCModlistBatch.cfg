CONSTANTS
  K = 2
  MaxPatch = 2
SPECIFICATION FairSpec
INVARIANTS
  NoopIsForFingerprint
  ReportAgrees
  AtMostOneUnrecorded
PROPERTIES
  EndsComplete
CHECK_DEADLOCK FALSE
