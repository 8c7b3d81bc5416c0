SPECIFICATION Spec
CONSTANTS
  p1 = p1
  p2 = p2
  Procs <- MCProcs
  Tasks <- MCTasks
  MemTTL = 2
  LockTTL = 2
  FailTTL = 2
  FetchTTL = 3
  Grace = 3
  PrevTTL = 4
  Refresh = 0
  MaxCall = 0
  MaxEvents = 2
  MaxBusy = 2
  MaxFaults = 1
  MaxTime = 7
INVARIANTS TypeOK GraceBound RenewalShows
PROPERTY GraceHeld
CHECK_DEADLOCK FALSE
