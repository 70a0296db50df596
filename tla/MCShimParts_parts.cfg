SPECIFICATION Spec
CONSTANTS
  BtTask = tsk
  BtHost = host
  BtIsr = isr
  BtTimers = {ta, tb, tc}
  BT_TIMER_NUM = 2
  BtDelays = {1, 2}
  BtMaxSleep = 1
  BtMaxTime = 3
  BtMaxCalls = 4
  BtNone = none
  HRTCNT_BOUND = 5
  HrtDelays = {0, 1, 2}
  HrtMaxCnt = 4
  HrtMaxCalls = 3
  SerMaxBuf = 2
  SerMaxRx = 2
  SerMaxCalls = 6
  NetMboxSize = 2
  NetRetries = 3
  NetMaxEvents = 7
  SysClients = {ca, cb}
  SYS_ARCH_NUM_SEM = 1
  SYS_ARCH_NUM_MBOX = 1
  SYS_ARCH_MBOX_DEPTH = 2
  SysMaxCalls = 6
  TskCreators = {ca, cb}
  ESP_SHIM_NUM_TSK = 2
  TskMaxCreates = 4
  MtxTasks = {ca, cb, cc}
  ESP_SHIM_NUM_MTX = 2
  MtxMaxDepth = 2
  MtxMaxCreates = 3
  MtxNobody = none
  HeapTasks = {ca, cb, cc}
  HEAP_UNITS = 11
  HeapRequests = {0, 9, 24}
  HeapMaxCalls = 5
  QueTasks = {qa, qb}
  ESP_SHIM_NUM_DTQ = 1
  ESP_SHIM_DTQ_CNT = 2
  QueLens = {1, 3}
  QueNumBlocks = 6
  QueMaxCalls = 5
  ClicSources = {sa, sb, sc}
  ClicFromCpus = {sb}
  ClicLines = {l1, l2}
  ClicPriorities = {1, 2}
  ClicNone = none
  ClicMaxDepth = 3
  ClicMaxCalls = 4
  ThrPool = {ta1, ta2}
  ThrOutside = {to1, to2}
  ThrMain = main
  THR_NUM_SEM = 3
  ThrNobody = nobody
INVARIANTS
  PartsTypeOK
  BtTimersKept
  HrtLossNorFlood
  SerNothingStranded
  NetFollowsLink
  NetRetryNotLost
  SysOwnEvents
  TskEachOnce
  MtxExclusive
  HeapSound
  QueReusedClean
  ClicLevelsRight
  ThrSemsApart
PROPERTY BtIsAlarmClock
SYMMETRY Symmetry
CHECK_DEADLOCK FALSE
