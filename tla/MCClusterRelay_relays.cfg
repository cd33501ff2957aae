\* Two nodes, two relays, crashes and broken connections.
SPECIFICATION FairSpec
CONSTANTS
  Nodes = {n1, n2}
  Pulls = {p1, p2}
  Camera = Camera
  None = None
  MaxPending = 1
INVARIANTS OneRelayPerEntry RelayStreamHasRelay
 
