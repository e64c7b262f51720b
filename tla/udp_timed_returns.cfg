SPECIFICATION Spec
CONSTANTS
  Callers = {a, b}
  NoCaller = NoCaller
  NSid = 2
  MaxReq = 3
  Ops = {"words", "bytes"}
  Timeouts = {TRUE}
  EndCodes = {"normal"}
  Faults = {"loss", "refuse", "close"}
PROPERTY EveryCallReturns
