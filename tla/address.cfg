CONSTANTS
  PageBits = 6
  OffsetBits = 6
  MaxChars = 4
  Alphabet = {0, 1, 5, 6, 10, 15, 16}
  MaxStale = 1
  Bytes <- StaleBytes
SPECIFICATION AddressSpec
INVARIANTS
  PageIsHighBits
  PageInTable
CHECK_DEADLOCK FALSE
