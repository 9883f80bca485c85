SPECIFICATION SuiteSpec
CONSTANTS
  Tracks = {t1}
  Runs = {r1}
  MaxFails = 1
  MaxCrashes = 1
  MaxAsks = 1
  None = None
  Inputs = {x, y}
  Refreshers = {1}
  Titles = {s1, s2}
  Files = {1, 2, 3}
  Folders = {"l", "m"}
  SongAt <- OneSong
  FolderOf <- ThirdElsewhere
  Grace = 2
  MaxFailures = 2
  MaxUpgrades = 1
  MaxFaults = 1
  MaxMoves = 2
  MaxJobs = 1
  MaxLeaders = 2
  MaxRuns = 2
  MaxLost = 1
INVARIANTS WorkIsDone AloneAtWork
PROPERTIES RekeysKeepRows TransitionsEnd WorkEnds StreamsCatchUp
CHECK_DEADLOCK FALSE
