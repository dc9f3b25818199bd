SPECIFICATION RaceFairSpec
CONSTANTS
  MAX_PCB = 4
  DISK_SLICE = 2
  TOTAL_TRACKS = 2
  Procs = {0, 1, 2}
  MaxReq <- MCRequests
INVARIANTS TypeOK QueueExact OneInService
PROPERTIES ClosestFirst Unblocked
