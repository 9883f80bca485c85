SPECIFICATION SmallSpec
CONSTANTS
  TrackCount = 1
  Medias = {m1, m2}
  Waves = {w1, w2}
  Digests = {d1}
  Clients = {c1}
  None = None
  Limits = {1, 2}
  Multiplier = 2
  MaxAdvance = 1
  MaxSessions = 1
  MaxSeq = 3
SYMMETRY Interchangeable
INVARIANTS TypeOK ReadersConverge JournalDense HeldSessionsReadable
CHECK_DEADLOCK FALSE
