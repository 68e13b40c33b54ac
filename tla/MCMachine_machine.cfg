\* the parts one by one, each at the bounds the module gives it
SPECIFICATION MachineSpec
CONSTANTS
  Vocab = {1, 2}
  Stop = {2}
  MaxNew = 4
  K = 3
INVARIANTS DraftsSound FetchedWhole ReportsSound ServicesSound
PROPERTIES PlainText RetriesComplete ServicesLive
CHECK_DEADLOCK FALSE
