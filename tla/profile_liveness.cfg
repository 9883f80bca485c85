SPECIFICATION FairSpec
CONSTANTS
  Tracks = {t1}
  Medias = {m1, m2}
  Tokens = {k1, k2}
  None = None
  Gone = Gone
  ScanMedia <- AllScans
  RetryLimit = 2
  MaxGeneration = 3
  MaxVersion = 1
  MaxJobs = 1
  MaxInterruptions = 2
INVARIANT RetryBudget
PROPERTIES Convergence ClaimsEnd
CHECK_DEADLOCK FALSE
