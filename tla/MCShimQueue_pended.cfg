SPECIFICATION Spec
CONSTANTS
  ta = ta
  tb = tb
  isr = isr
  NoProc = NoProc
  Tasks = {ta, tb}
  Isrs = {}
  Prio <- MCPrio
  Ops <- LiveOps
  Tmos = {"forever"}
  Depth = 2
  DtqCnt = 2
  MaxSend = 2
  MaxNest = 1
INVARIANTS
  PendedItemIsPosted
CHECK_DEADLOCK FALSE
