SPECIFICATION HistFairSpec
CONSTANTS
  s1 = s1
  s2 = s2
  NoProg = NoProg
  MAX_PCB = 4
  TIME_SLICE = 2
  MAX_TIME_MORE_PAGES = 2
  TOTAL_TRACKS = 1
  H_MOD = 2
  I8_MAX = 2
  WAITERS_NUM = 9
  RW_MAX = 1
  Sems = {s1, s2}
  Programs <- MCPrograms
  Code <- MCCode
  Declares <- MCDeclares
  Broken <- MCBroken
  Loads <- LoadSems
  LOAD_MAX = 3
  should_render = FALSE
  UserPrograms = {}
  MaxUser = 0
  StaleCode <- FormerLock
  MutexInit = {0, 1}
INVARIANTS ExclusionUnlessStray NoFault
PROPERTIES TerminateUnlessStray
CHECK_DEADLOCK FALSE
