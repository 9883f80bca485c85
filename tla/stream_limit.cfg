SPECIFICATION SmallSpec
CONSTANTS
  TrackCount = 1
  Medias = {m1}
  Waves = {w1}
  Digests = {d1}
  Clients = {c1}
  None = None
  Limits = {1, 2}
  Multiplier = 2
  MaxAdvance = 1
  MaxSessions = 1
  MaxSeq = 4
SYMMETRY Interchangeable
INVARIANTS CatchupFits
CHECK_DEADLOCK FALSE
