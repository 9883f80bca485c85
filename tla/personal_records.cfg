SPECIFICATION PersonalSpec
CONSTANTS
  Stores = {"vibes", "covers", "journeys", "shelves"}
  Ids = {x, y}
  Songs = {"old"}
  Requests = {r1, r2}
  Images = {i1}
  Procs = {p1, p2}
  None = None
  Gone = Gone
  MaxSeq = 3
  MaxImages = 1
  PageLimit = 1
  Wants = {w1, w2}
  Intros = {n1}
  Identities = {k1}
  Notes = {a, b}
  Mutations = {u1, u2, u3}
  MaxHead = 4
  Collections = {c1, c2}
  Items = {j1, j2}
SYMMETRY Interchangeable
INVARIANTS FeedsComplete RecordsKept OneWantPerIdentity KeyedOnce
PROPERTIES NewestStays
CHECK_DEADLOCK FALSE
