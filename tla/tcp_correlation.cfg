SPECIFICATION Spec
CONSTANTS
  Callers = {a, b}
  NoCaller = NoCaller
  NSid = 2
  MaxReq = 3
  Ops = {"typed", "bytes"}
  Timeouts = {TRUE}
  EndCodes = {"normal"}
  Window = 4
  Faults = {"coalesce", "split"}
SYMMETRY CallerSymmetry
INVARIANT TypeOK
INVARIANT AnswerBelongsToCall
INVARIANT HeldAnswerCanBeTaken
