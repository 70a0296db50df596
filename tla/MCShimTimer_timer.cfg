SPECIFICATION FairSpec
CONSTANTS
  tim = tim
  lo = lo
  isr = isr
  TimerTask = tim
  Tasks = {tim, lo}
  Isrs = {isr}
  Keys = {k1, k2}
  Nodes = {n1, n2, n3}
  NoProc = NoProc
  NoKey = NoKey
  NoNode = NoNode
  Prio <- MCPrio
  Ops <- MCOps
  Delays = {1, 4}
  MinSleep = 2
  MaxSleep = 3
  MaxTime = 3
  MaxCalls = 4
INVARIANTS TypeOK ListMatchesDue SleepCovered WakeupNotStranded
PROPERTIES IsAlarmClock OverdueIsServed
CHECK_DEADLOCK FALSE
