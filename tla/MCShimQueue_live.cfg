SPECIFICATION FairSpec
CONSTANTS
  ta = ta
  tb = tb
  isr = isr
  NoProc = NoProc
  Tasks = {ta, tb}
  Isrs = {isr}
  Prio <- MCPrio
  Ops <- LiveOps
  Tmos = {"forever"}
  Depth = 2
  DtqCnt = 2
  MaxSend = 4
  MaxNest = 1
INVARIANTS
  NoStrandedItem
PROPERTIES
  AcceptedIsDelivered
  SendReturns
CHECK_DEADLOCK FALSE
