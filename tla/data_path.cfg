SPECIFICATION Spec
CONSTANTS
  Byte = 4
  BufLen = 6
  RespCap = 6
  MaxCalls = 3
  Operations <- Calls
INVARIANT TypeOK
INVARIANT ReadsBack
INVARIANT AnswersAreMemory
INVARIANT WellAskedReadsReturn
INVARIANT PanicsOnlyWild
INVARIANT NoFatalOnUserClose
PROPERTY OwnDataOnly
PROPERTY KeepsMemory
CHECK_DEADLOCK FALSE
