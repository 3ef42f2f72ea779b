SPECIFICATION LoopSpec
CONSTANTS
  Bytes = {0, 1, 2}
  Size = 3
  MaxOutput = 7
PROPERTIES
  UpdateReturns
CHECK_DEADLOCK FALSE
