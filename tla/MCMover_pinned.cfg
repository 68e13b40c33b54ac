\* the lowest of three peers was started with --layers
SPECIFICATION FairSpec
CONSTANTS
  Peer = {1, 2, 3}
  Manifests <- OnlyHalves
  Gib <- FirstLarge
  Backend <- FirstCPU
  Disk <- MiddleHere
  Pinned = {1}
  MaxFaults = 0
PROPERTIES SpareMoves
CHECK_DEADLOCK FALSE
