\* cloudflared starts and gives no address
SPECIFICATION Spec
CONSTANTS
  front = front
  rest = rest
  Window = {front, rest}
  None = None
  MaxEvents = 3
  Exits = TRUE
PROPERTIES RecordSettles
CHECK_DEADLOCK FALSE
