SPECIFICATION Spec
CONSTANTS
  Callers = {a}
  NoCaller = NoCaller
  NSid = 2
  MaxReq = 4
  Ops = {"typed"}
  Timeouts = {TRUE}
  EndCodes = {"normal", "error"}
  Faults = {}
INVARIANT ClearedCellFreesListener
