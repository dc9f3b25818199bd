SPECIFICATION FairSpec
CONSTANTS
  Workers <- AllWorkers
  Builds <- Release
  Screens <- WithScreen
  MaxSignals = 1
  MaxResizes = 0
PROPERTY CtrlCQuits
