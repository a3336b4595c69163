CONSTANTS
  Attempts = 2
  MaxLosses = 1
  MaxData = 0
SPECIFICATION HandshakeFairSpec
PROPERTY HandshakeWaitEnds
CHECK_DEADLOCK FALSE
