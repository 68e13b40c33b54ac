\* a machine that sleeps once
SPECIFICATION Spec
CONSTANTS
  Net = {"open", "nat", "down"}
  Cfg <- BehindRouter
  Ip = {1, 2}
  Dials = 2
  MaxIds = 2
  MaxSleeps = 1
  MaxMoves = 0
  MaxFaults = 1
INVARIANTS TunnelKept
CHECK_DEADLOCK FALSE
