SPECIFICATION Spec
CONSTANTS
  ta = ta
  tb = tb
  isr = isr
  NoProc = NoProc
  Tasks = {ta, tb}
  Isrs = {isr}
  Prio <- MCEqualPrio
  Ops <- FullOps
  Tmos = {"poll", "forever"}
  Depth = 2
  DtqCnt = 2
  MaxSend = 3
  MaxNest = 2
INVARIANTS
  TypeOK
  Accounts
  RoomForSlot
  ItemIntegrity
PROPERTIES
  FateIsFinal
CHECK_DEADLOCK FALSE
