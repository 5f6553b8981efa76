\* Three headers, two payloads, two keys, two sources; memory for three payloads.
SPECIFICATION Spec
CONSTANTS
  Addresses <- MCAddresses
  Peer <- MCPeer
  Keys = {k1, k2}
  Key = k1
  Version = 2
  Settings <- MCSettings
  Payloads <- MCPayloads
  MaxBlocks = 3
INVARIANTS TypeOK PayloadsOwned ContentsFreed Delivered Authentic
