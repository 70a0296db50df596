SPECIFICATION Spec
CONSTANTS
  ta = ta
  tb = tb
  isr = isr
  NoProc = NoProc
  Tasks = {ta, tb}
  Isrs = {isr}
  Prio <- MCEqualPrio
  Ops <- PlainOps
  Tmos = {"poll", "timed", "forever"}
  Depth = 2
  DtqCnt = 2
  MaxSend = 4
  MaxNest = 0
PROPERTIES
  IsBoundedChannel
CHECK_DEADLOCK FALSE
