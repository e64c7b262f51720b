SPECIFICATION Spec
CONSTANTS
  Callers = {a, b}
  NoCaller = NoCaller
  NSid = 2
  MaxReq = 3
  Ops = {"bytes"}
  Timeouts = {TRUE}
  EndCodes = {"normal"}
  Faults = {"leftover", "duplicate"}
SYMMETRY CallerSymmetry
INVARIANT TypeOK
INVARIANT AnswerBelongsToCall
INVARIANT HeldAnswerCanBeTaken
INVARIANT WaitsOnOwnChannel
