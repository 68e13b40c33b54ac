\* the parts one by one, each at the bounds the module gives it
SPECIFICATION ServingSpec
CONSTANTS
  front = front
  rest = rest
  Window = {front, rest}
  None = None
  MaxEvents = 3
  Exits = FALSE
INVARIANTS PublishedIsServed ApiSound AddressSound LinksSound
PROPERTIES NodeLives AnswersEnd
CHECK_DEADLOCK FALSE
