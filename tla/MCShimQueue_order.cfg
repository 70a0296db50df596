SPECIFICATION Spec
CONSTANTS
  ta = ta
  tb = tb
  isr = isr
  NoProc = NoProc
  Tasks = {ta, tb}
  Isrs = {}
  Prio <- MCPrio
  Ops <- OrderOps
  Tmos = {"poll", "timed", "forever"}
  Depth = 2
  DtqCnt = 3
  MaxSend = 4
  MaxNest = 2
PROPERTIES
  SendOrderKept
CHECK_DEADLOCK FALSE
