SPECIFICATION FairSpec
CONSTANTS
  Pulls = {g1, g2}
  Callers = {c1, c2}
  None = None
  MediaMTXEnabled = TRUE
INVARIANTS RegisteredStreamIsOpen NoOrphanStream SessionIsAlive NoDuplicateIngest
PROPERTIES StoppedPullEnds
CHECK_DEADLOCK FALSE
