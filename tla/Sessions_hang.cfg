\* One client, one lost and one duplicated datagram; liveness.
SPECIFICATION FairSpec
CONSTANTS
  Clients = {c1}
  Slots = 2
  Versions = {2}
  Retries = 1
  MaxFaults = 2
  Surplus = TRUE
PROPERTIES Returns
