\* the parts one by one, each at the bounds the module gives it
SPECIFICATION NetworkSpec
CONSTANTS
  n1 = n1
  n2 = n2
  Peer = {n1, n2}
  Client = {n2}
  LIVE = 1
  TOMBSTONE = 1
  FORGET = 2
  SKEW = 1
  ClockBack = 0
  MaxClock = 4
  MaxSigned = 2
INVARIANTS NoRegress NeverFresher DhtSound DirectorySound PlanSound
PROPERTIES SeqIncreases NoReturn SeenAgain NothingOlder DhtServes UpIsListed Stable
CHECK_DEADLOCK FALSE
