SPECIFICATION MCSpec
CONSTANTS
 s1=s1
 w1=w1
 w2=w2
 l1=l1
 h1=h1
 ServerProcs = {s1}
 WorkerProcs = {w1, w2}
 Demands = {d1}
 Light = {l1}
 Heavy = {h1}
 None = None
 MaxCrashes = 1
 MaxFailures = 1
 MaxHostJobs = 1
INVARIANT SleepersMissNothing
PROPERTIES HeldClaimsStay WorkComesBack
CHECK_DEADLOCK FALSE
