\* Two sessions, a request at any moment, a late reaper, sessions entered late.
SPECIFICATION Spec
CONSTANTS
  Ids = {i1, i2}
  Requests = {q1}
  ProtocolLists <- Lists
  Idle = 1
  Period = 2
  Delay = 1
  Lag = 1
  TokenLife = 3
  MaxTime = 7
  None = None
INVARIANTS ClosedIsRefused IdleIsReaped
PROPERTY ReapedWasIdle
