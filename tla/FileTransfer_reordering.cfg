\* Two chunks of two packets: every loss, duplication, reordering and timeout.
SPECIFICATION Spec
CONSTANTS
  ChunkPackets = 2
  FilePackets = 4
  NChunks <- MCNChunks
  Bound <- MCBound
  Retries = 1
  WindowMod = 65536
  MaxFaults = 1
  Patient = FALSE
INVARIANTS TypeOK IInv AcksCoverWritten
PROPERTIES FlowFreedWhenWritten CopySpec
