\* A stream ends at its source while another node relays it.
SPECIFICATION FairSpec
CONSTANTS
  Nodes = {n1, n2}
  Pulls = {p1, p2}
  Camera = Camera
  None = None
  MaxPending = 1
PROPERTY RelayEndsWithStream
