\* One client, three lost datagrams, none late or duplicated; liveness.
SPECIFICATION FairSpec
CONSTANTS
  Clients = {c1}
  Slots = 2
  Versions = {1, 2}
  Retries = 5
  MaxFaults = 3
  Surplus = FALSE
PROPERTIES Resyncs Returns
