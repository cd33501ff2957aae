SPECIFICATION FairSpec
CONSTANTS
  Procs = {p1, p2, p3}
  None = None
  MinDelay = 1
  MaxDelay = 3
INVARIANTS TypeOK OneProcess StopReachesRecorded
PROPERTIES StopReturns CrashIsRepaired
CHECK_DEADLOCK FALSE
