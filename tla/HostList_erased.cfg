\* The same, but the allocator writes into memory that is freed.
SPECIFICATION FairSpec
CONSTANTS
  p1 = p1
  p2 = p2
  a1 = a1
  a2 = a2
  PermanentHosts <- MCPermanentHosts
  Temporary = {a1, a2}
  MaxNodes = 4
  Overlap = FALSE
  FreedKept = FALSE
PROPERTIES Refreshes
CHECK_DEADLOCK FALSE
