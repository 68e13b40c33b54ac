\* one listed server, and a network that lists it and another
SPECIFICATION FairSpec
CONSTANTS
  s1 = s1
  s2 = s2
  a = a
  b = b
  Server = {s1, s2}
  Known <- OneServer
  Network = TRUE
  Token = {a, b}
  MaxPiece = 2
  MaxLen = 3
  MaxFaults = 2
  MaxPolls = 2
INVARIANTS FailoverSound
PROPERTIES LoopSpec Terminates
CHECK_DEADLOCK FALSE
