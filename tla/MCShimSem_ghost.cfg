SPECIFICATION Spec
CONSTANTS
  hi = hi
  lo = lo
  isr = isr
  Tasks = {hi, lo}
  Isrs = {isr}
  NoProc = NoProc
  Prio <- MCPrio
  Ops <- PreemptOps
  NumSem = 2
  MaxInit = 1
  MaxCreate = 3
  MaxGive = 3
  MaxNest = 2
INVARIANT NoGhostGive
CHECK_DEADLOCK FALSE
