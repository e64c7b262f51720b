SPECIFICATION Spec
CONSTANTS
  Callers = {a}
  NoCaller = NoCaller
  NSid = 2
  MaxReq = 2
  Ops = {"typed"}
  Timeouts = {TRUE}
  EndCodes = {"normal"}
  Window = 2
  Faults = {"coalesce"}
INVARIANT LengthErrorIsTrue
