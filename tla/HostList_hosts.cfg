\* Two hosts of the command line, two announced ones, memory for four nodes; liveness.
SPECIFICATION FairSpec
CONSTANTS
  p1 = p1
  p2 = p2
  a1 = a1
  a2 = a2
  PermanentHosts <- MCPermanentHosts
  Temporary = {a1, a2}
  MaxNodes = 4
  Overlap = FALSE
  FreedKept = TRUE
INVARIANTS TypeOK PermanentKept NoDuplicates
PROPERTIES Refreshes  SetSpec
