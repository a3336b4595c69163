CONSTANTS
  MAX_CAPACITY = 8
  max_seg_size = 2
  First = 1
  SeqNos <- MCSeqNos
SPECIFICATION Spec
INVARIANT SlotsConsecutive
INVARIANT AcksCoverArrivals
PROPERTY AckNeverFalls
PROPERTY ImplementsInOrderReceiver
