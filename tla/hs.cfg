CONSTANTS
  Attempts = 3
  MaxLosses = 3
  MaxData = 2
SPECIFICATION HandshakeFairSpec
INVARIANT SameNumbers
PROPERTY WaitEndsUnlessLate
CHECK_DEADLOCK FALSE
