---------------------------- MODULE TraceAddress ----------------------------
(***************************************************************************)
(* The address of a trace line, read one character at a time, and the      *)
(* string that the buffer of convertHexToBinaryAddress holds when malloc   *)
(* returns it.                                                             *)
(***************************************************************************)
EXTENDS AddressTranslation

CONSTANTS
  MaxChars,   \* bound: the characters of an address
  Alphabet,   \* bound: the characters it is made of
  MaxStale,   \* bound: the characters of the stale string
  Bytes       \* bound: the characters that is made of

ASSUME AlphabetAssumption == Alphabet \subseteq Chars

VARIABLES buffer, chars

AddressInit ==
  /\ buffer \in UNION {[1 .. n -> Bytes] : n \in 0 .. MaxStale}
  /\ chars = <<>>

ReadChar ==
  /\ Len(chars) < MaxChars
  /\ \E c \in Alphabet : chars' = Append(chars, c)
  /\ UNCHANGED buffer

AddressSpec == AddressInit /\ [][ReadChar]_<<buffer, chars>>

-----------------------------------------------------------------------------
RightLength == 4 * Len(chars) = PageBits + OffsetBits
IsDigit(i)  == chars[i] # Other

PowerOfTwo(n) ==
  LET power[i \in 0 .. n] == IF i = 0 THEN 1 ELSE 2 * power[i - 1] IN power[n]

\* "converts hexadecimal address and get the page number" (ReadMe.txt:26): with a
\* clean buffer an address of the right length is accepted (checkIfAddressValid)
\* exactly if it has digits only, and then its page number (getPageNumber) is the
\* address without its offset.
PageIsHighBits ==
  buffer = <<>> /\ RightLength =>
    LET bits == ConvertHexToBinaryAddress(buffer, chars)
    IN  IF CheckIfAddressValid(bits)
        THEN /\ \A i \in DOMAIN chars : IsDigit(i)
             /\ GetPageNumber(buffer, chars) = NumberOf(16, chars) \div PowerOfTwo(OffsetBits)
        ELSE \E i \in DOMAIN chars : ~IsDigit(i)

\* With a clean buffer no address, of whatever length and with whatever
\* characters, indexes the page table out of range, although the answer of
\* checkIfAddressValid is only printed; one without a digit ends the MMU.
PageInTable ==
  buffer = <<>> =>
    IF \E i \in DOMAIN chars : IsDigit(i)
    THEN GetPageNumber(buffer, chars) \in 0 .. PowerOfTwo(PageBits) - 1
    ELSE GetPageNumber(buffer, chars) = Runaway
=============================================================================
