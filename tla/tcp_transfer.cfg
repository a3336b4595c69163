CONSTANTS
  AWS = 3
  max_seg_size = 1
  First = 1
  DupAcks = 1
  MaxSeq = 4
  MaxInFlight = 1
  MaxLosses = 2
SPECIFICATION FairSpec
INVARIANT NothingSkipped
INVARIANT WithinAdvertisedWindow
PROPERTY WindowNeverMovesBack
PROPERTY WaitEnds
CHECK_DEADLOCK FALSE
