SPECIFICATION Spec
CONSTANTS
  LEN = 3
  U32 = 16
  Threads = {cpu, render}
  Checked = {}
  Sizes = {1, 2}
  MaxAlloc = 7
INVARIANT FreeAtMostAll
CHECK_DEADLOCK FALSE
