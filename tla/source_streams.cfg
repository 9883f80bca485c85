SPECIFICATION SuiteSpec
CONSTANTS
  Entities = {1, 2}
  p1 = p1
  p2 = p2
  Procs = {p1, p2}
  None = None
  Clients = {r1}
  Groups = {1, 2}
  Inputs = {x, y}
  Threads = {t1, t2}
  Main = t0
  Lookups = {j1, j2}
  Peers = {1}
  Syncers = {s1}
  MaxAttempts = 2
  Shared = {1}
  MaxEdge = 1
  MaxVersion = 1
  MaxAsks = 2
  Order <- TwoInOrder
  Decoders = {1, 2, 3}
  Units = 2
  MaxPasses = 2
  MaxJobs = 2
  MaxRaises = 1
  MaxFiles = 3
  MaxDeaths = 1
  PendingLimit = 2
  Allowance = 2
  MaxSubmits = 2
  MaxDays = 1
  MaxFails = 1
  History = 2
  MaxRequests = 1
  MaxChanges = 2
  MaxCrashes = 1
  MaxClaims = 2
  PageLimit = 1
  Retain = 1
INVARIANTS BuildsFromInputs LeasesKeepCatalogue AlbumsFollowCatalogue FollowersHoldStreams FilesFinishedOnce CopiesAreTheirs AllowanceKept
SYMMETRY Twins
CHECK_DEADLOCK FALSE
