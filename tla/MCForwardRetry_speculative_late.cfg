\* speculative decoding, abandoned attempts run whenever they like
SPECIFICATION Spec
CONSTANTS
  a = a
  b = b
  Token = {a, b}
  MaxPiece = 2
  MaxLen = 6
  MaxSends = 2
  MaxCrashes = 0
  MaxLate = 1
  Mode <- BothHazards
INVARIANTS AcceptedFaithful
CHECK_DEADLOCK FALSE
