\* Three chunks, so that windows are partly received; one lost or duplicated datagram; liveness.
SPECIFICATION FairSpec
CONSTANTS
  ChunkPackets = 2
  FilePackets = 5
  NChunks <- MCNChunks
  Bound <- MCBound
  Retries = 5
  WindowMod = 65536
  MaxFaults = 1
  Patient = TRUE
INVARIANTS CompletionNotMissed
PROPERTIES TransferCompletes
