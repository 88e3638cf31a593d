CONSTANTS
  g1 = g1
  g2 = g2
  Games <- MCGames
  MaxJobs = 5
SPECIFICATION FairSpec
INVARIANTS
  OneJob
  InstallIsOfOffered
PROPERTIES
  JobsEnd
CHECK_DEADLOCK FALSE
