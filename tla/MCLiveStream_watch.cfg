SPECIFICATION Spec
CONSTANTS
  Packets = {p1, p2, p3}
  Subs <- WatchSubs
  SubIDs <- WatchIDs
  Kind <- WatchKind
  ID <- WatchID
  Frames <- GopFrames
  IngestBufSize = 1
  SubBufSize = 1
  GopCacheMax = 2
  NoSub = NoSub
  NoPacket = NoPacket
INVARIANTS RefsMatchHolders DepartedViewerHoldsNothing PumpNeverBlocked
PROPERTY ImplementsFlow
SYMMETRY Symmetry
CHECK_DEADLOCK FALSE
