CONSTANTS
  AWS = 2
  max_seg_size = 1
  First = 1
  DupAcks = 1
  MaxSeq = 2
  MaxInFlight = 2
  MaxLosses = 2
SPECIFICATION FairSpec
PROPERTY RetransmissionEnds
CHECK_DEADLOCK FALSE
