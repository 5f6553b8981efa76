--------------------------- MODULE MCFileTransfer ---------------------------
EXTENDS FileTransfer

CONSTANTS ChunkPackets, FilePackets

\* A file of FilePackets packets in chunks of ChunkPackets, the last one short.
MCNChunks == (FilePackets + ChunkPackets - 1) \div ChunkPackets
MCBound == [c \in 0..MCNChunks |-> SmallerOf(c * ChunkPackets, FilePackets)]
=============================================================================
