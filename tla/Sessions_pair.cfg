\* Two clients, both versions, nothing lost.
SPECIFICATION Spec
CONSTANTS
  Clients = {c1, c2}
  Slots = 2
  Versions = {1, 2}
  Retries = 1
  MaxFaults = 0
  Surplus = TRUE
SYMMETRY Symmetry
INVARIANTS TypeOK KeyAgreement
PROPERTIES SlotKeptV2
