SPECIFICATION Spec
CONSTANTS
  ta = ta
  tb = tb
  isr = isr
  NoProc = NoProc
  Tasks = {ta, tb}
  Isrs = {isr}
  Prio <- MCEqualPrio
  Ops <- PlainOps
  Tmos = {"forever"}
  Depth = 1
  DtqCnt = 1
  MaxSend = 3
  MaxNest = 0
INVARIANTS
  TokenMeansSlot
CHECK_DEADLOCK FALSE
