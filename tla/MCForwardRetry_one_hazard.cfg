\* drafts in order, or plain decoding with late attempts
SPECIFICATION FairSpec
CONSTANTS
  a = a
  b = b
  Token = {a, b}
  MaxPiece = 3
  MaxLen = 5
  MaxSends = 2
  MaxCrashes = 1
  MaxLate = 2
  Mode <- OneHazard
INVARIANTS AcceptedFaithful AcceptedKept ServerSound
PROPERTIES Terminates
PROPERTIES LoopSpec
CHECK_DEADLOCK FALSE
