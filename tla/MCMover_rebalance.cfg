\* three peers, a network of two stages or a planned one of three, a fault
SPECIFICATION FairSpec
CONSTANTS
  Peer = {1, 2, 3}
  Manifests <- All
  Gib <- FirstLarge
  Backend <- FirstCPU
  Disk <- MiddleHere
  Pinned = {}
  MaxFaults = 1
INVARIANTS RoutesSound
PROPERTIES LastHolderStays PlannedCloses SpareMoves
CHECK_DEADLOCK FALSE
