SPECIFICATION SysSpec
CONSTANTS
  Callers = {a, b}
  NoCaller = NoCaller
  NSid = 2
  MaxReq = 3
  Ops = {"typed", "string"}
  Timeouts = {TRUE, FALSE}
  EndCodes = {"normal"}
  Faults = {"close", "loss", "duplicate"}
PROPERTY KeepsPromise
INVARIANT LockedCallsShareNoCell
INVARIANT NoComplaintOnUserClose
CHECK_DEADLOCK FALSE
