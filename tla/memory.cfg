SPECIFICATION HistSpec
CONSTANTS
  LEN = 3
  U32 = 16
  Threads = {cpu, render}
  Checked = {}
  Sizes = {1, 2}
  MaxAlloc = 5
INVARIANTS TypeOK CountCovers RegionsDisjoint CountExact
PROPERTY AllocReturns
CHECK_DEADLOCK FALSE
