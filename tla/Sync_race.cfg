\* Two replicas, one file, both threads may scan at the same time.
SPECIFICATION Spec
CONSTANTS
  r1 = r1
  r2 = r2
  Replicas = {r1, r2}
  PermanentHosts <- MCMutual
  Files = {f1}
  MaxEdits = 1
  MaxTime = 12
  MaxFaults = 0
  Concurrent = TRUE
  Coarse = FALSE
PROPERTIES UnchangedKeepsTime
