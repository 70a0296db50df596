SPECIFICATION FairSpec
CONSTANTS
  hi = hi
  lo = lo
  isr = isr
  Tasks = {hi, lo}
  Isrs = {isr}
  NoProc = NoProc
  Prio <- MCPrio
  Ops <- OwnerOps
  NumSem = 2
  MaxInit = 1
  MaxCreate = 2
  MaxGive = 3
  MaxNest = 2
INVARIANTS TypeOK TotalIsSum GiveConservation NoStrandedGive
PROPERTY PendedGiveWakes
CHECK_DEADLOCK FALSE
