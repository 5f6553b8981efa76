\* One client, two lost, duplicated or late datagrams.
SPECIFICATION Spec
CONSTANTS
  Clients = {c1}
  Slots = 2
  Versions = {1, 2}
  Retries = 1
  MaxFaults = 2
  Surplus = TRUE
INVARIANTS KeyAgreement OneSessionPerHandshake
PROPERTIES EstablishedHasSession
