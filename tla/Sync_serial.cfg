\* Two replicas, one of them in server mode, two files; scans of one replica one after the other; liveness.
SPECIFICATION FairSpec
CONSTANTS
  r1 = r1
  r2 = r2
  Replicas = {r1, r2}
  PermanentHosts <- MCServerMode
  Files = {f1, f2}
  MaxEdits = 2
  MaxTime = 12
  MaxFaults = 1
  Concurrent = FALSE
  Coarse = FALSE
INVARIANTS TypeOK MetafileCurrent 
PROPERTIES UnchangedKeepsTime SettledStable 
