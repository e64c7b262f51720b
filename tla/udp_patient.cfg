SPECIFICATION Spec
CONSTANTS
  Callers = {a, b}
  NoCaller = NoCaller
  NSid = 3
  MaxReq = 4
  Ops = {"string", "float"}
  Timeouts = {FALSE}
  EndCodes = {"normal", "error"}
  Faults = {}
INVARIANT ListenerNeverStuck
PROPERTY EveryCallReturns
CHECK_DEADLOCK FALSE
