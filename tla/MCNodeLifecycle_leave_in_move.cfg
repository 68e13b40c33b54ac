\* a signal while the maintenance thread is at work
SPECIFICATION Spec
CONSTANTS
  front = front
  rest = rest
  Window = {front, rest}
  None = None
  MaxEvents = 1
  Exits = FALSE
PROPERTIES LeavingStands
CHECK_DEADLOCK FALSE
