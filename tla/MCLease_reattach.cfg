SPECIFICATION Spec
CONSTANTS
  Creates = {"c1", "c2"}
  Reattaches = {r1, r2}
  Keyed = {"c1", "c2"}
  Nodes = {"a", "b", "m"}
  Entry <- Routes
  Stores = {"redis", "mem"}
  StoreOf <- TheStores
  Memory = {"mem"}
  Drift <- TheDrift
  Second = 3
  TTL = 2
  Skew = 4
  IdemTTL = 3
  MaxTime = 8
  MaxDrift = 1
  None = None
INVARIANTS NoFalseRejection NoLateAcceptance LeaseOutlivesToken
SYMMETRY Symmetry
CHECK_DEADLOCK FALSE
