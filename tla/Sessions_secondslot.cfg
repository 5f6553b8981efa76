\* Two clients of version 2, nothing lost.
SPECIFICATION Spec
CONSTANTS
  Clients = {c1, c2}
  Slots = 2
  Versions = {2}
  Retries = 5
  MaxFaults = 0
  Surplus = FALSE
PROPERTIES DownloadsComplete
