\* two peers for each stage, two faults
SPECIFICATION FairSpec
CONSTANTS
  p1 = p1
  p2 = p2
  q1 = q1
  q2 = q2
  a = a
  b = b
  Token = {a, b}
  Known <- TwoEach
  MaxPiece = 2
  MaxLen = 3
  MaxSends = 2
  MaxFaults = 2
INVARIANTS ChainSound
PROPERTIES LoopSpec Terminates
CHECK_DEADLOCK FALSE
