SPECIFICATION RekeySpec
CONSTANTS
  Tracks = {t1, t2}
  Medias = {m1, m2}
  Tokens = {k1, k2, k3}
  None = None
  Gone = Gone
  ScanMedia <- KnownScans
  RetryLimit = 1
  MaxGeneration = 3
  MaxVersion = 1
  MaxJobs = 1
  MaxInterruptions = 0
SYMMETRY InterchangeableTracks
INVARIANTS ServiceSurvivesRekey
PROPERTIES NoEdgeResurrection
CHECK_DEADLOCK FALSE
