SPECIFICATION Spec
CONSTANTS
  Callers = {a, b}
  NoCaller = NoCaller
  NSid = 2
  MaxReq = 4
  Ops = {"words"}
  Timeouts = {TRUE}
  EndCodes = {"normal"}
  Window = 1
  Faults = {"silent", "decline", "stall", "hangup", "close"}
PROPERTY RequestsKnowNode
PROPERTY EveryCallReturnsOrBlocks
