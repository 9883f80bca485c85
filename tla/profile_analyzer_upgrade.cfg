SPECIFICATION Spec
CONSTANTS
  Tracks = {t1}
  Medias = {m1, m2}
  Tokens = {k1, k2, k3}
  None = None
  Gone = Gone
  ScanMedia <- AllScans
  RetryLimit = 1
  MaxGeneration = 3
  MaxVersion = 2
  MaxJobs = 2
  MaxInterruptions = 1
SYMMETRY Interchangeable
INVARIANTS RetryBudget
CHECK_DEADLOCK FALSE
