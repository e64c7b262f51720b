SPECIFICATION Spec
CONSTANTS
  Byte = 4
  BufLen = 6
  RespCap = 6
  MaxCalls = 1
  Operations <- WordsAtTheEnd
INVARIANT BoundaryIsChecked
CHECK_DEADLOCK FALSE
