SPECIFICATION ChicFairSpec
CONSTANTS
  s1 = s1
  NoProg = NoProg
  MAX_PCB = 5
  TIME_SLICE = 2
  MAX_TIME_MORE_PAGES = 2
  TOTAL_TRACKS = 1
  DISK_SLICE = 0
  H_MOD = 2
  I8_MAX = 127
  WAITERS_NUM = 9
  RW_MAX = 1
  Sems = {s1}
  Programs <- MCPrograms
  Code <- MCCode
  Declares <- MCDeclares
  Broken <- MCBroken
  Loads <- MCLoads
  LOAD_MAX = 4
  should_render = FALSE
  UserPrograms = {}
  MaxUser = 0
  StaleCode <- FormerTake
  MutexInit = {0, 1}
INVARIANTS ValueCountsWaiters WaitingIsQueued BlockedIsServed DownIsExplained
PROPERTIES KernelUntilRaced TerminateUnlessTainted
CHECK_DEADLOCK FALSE
