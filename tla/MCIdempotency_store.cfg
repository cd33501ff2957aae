SPECIFICATION FairSpec
CONSTANTS
  Requests = {"r0", "r1", "r2", "r3"}
  Keys = {"a", "b"}
  KeyOf <- TwoKeys
  TTL = 1
  MaxKeys = 1
  MaxTime = 2
  NoKey = NoKey
  None = None
INVARIANTS ProducerOwnsEntry WaitersHaveProducer ReplaysAreSuccesses OncePerTTL
PROPERTIES InsertRespectsLimit ImplementsSingleFlight EveryCallReturns
CHECK_DEADLOCK FALSE
