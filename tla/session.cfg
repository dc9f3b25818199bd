SPECIFICATION FairSpec
CONSTANTS
  Workers <- TwoWorkers
  Builds <- AllBuilds
  Screens <- AllScreens
  MaxSignals = 2
  MaxResizes = 1
INVARIANTS TypeOK PoolOutlivesThreads SemBalanced
PROPERTIES NoLateWriters QuitEnds
CHECK_DEADLOCK FALSE
