SPECIFICATION Spec
CONSTANTS
  Nodes = {n1, n2, n3}
  NULL = NULL
  Pids = {1, 2}
  MAX_TIME = 2
  MaxJobs = 3
PROPERTY ShownIsAllocated
