SPECIFICATION FairSpec
CONSTANTS
  Packets = {p1, p2}
  Subs <- RelayedSubs
  SubIDs <- RelayedIDs
  Kind <- RelayedKind
  ID <- RelayedID
  Frames <- TwoFrames
  IngestBufSize = 1
  SubBufSize = 1
  GopCacheMax = 2
  NoSub = NoSub
  NoPacket = NoPacket
INVARIANTS RefsMatchHolders WritesInOrder
PROPERTY ClosedGoroutinesExit
CHECK_DEADLOCK FALSE
