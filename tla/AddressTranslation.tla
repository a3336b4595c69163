------------------------- MODULE AddressTranslation -------------------------
(***************************************************************************)
(* How MMU.cpp turns the hexadecimal address of a trace line into a page   *)
(* number.  An address is the sequence of its characters after the "0x":   *)
(* a digit is its value, any other character is Other.  The characters of  *)
(* a binary string are given by their distance from '0'.                   *)
(***************************************************************************)
EXTENDS Integers, Sequences, FiniteSetsExt

CONSTANTS
  PageBits,    \* page_num_bits, third argument of mmu.out
  OffsetBits   \* offset, fourth argument

ASSUME BitsAssumption == PageBits \in Nat \ {0} /\ OffsetBits \in Nat

Other == 16
Chars == 0 .. Other

\* The switch of convertHexToBinaryAddress: four bits for a digit, nothing for
\* any other character.
Nibble(c) ==
  IF c = Other THEN <<>> ELSE <<c \div 8, (c \div 4) % 2, (c \div 2) % 2, c % 2>>

\* The bits are appended to a buffer that malloc does not clear: whatever string
\* it holds stays in front of them.
ConvertHexToBinaryAddress(buffer, chars) ==
  LET binary[i \in 0 .. Len(chars)] == IF i = 0 THEN buffer ELSE binary[i - 1] \o Nibble(chars[i])
  IN  binary[Len(chars)]

CheckIfAddressValid(bits) == Len(bits) = PageBits + OffsetBits

\* The number that digits write, the most significant first.
NumberOf(base, digits) ==
  LET number[i \in 0 .. Len(digits)] == IF i = 0 THEN 0 ELSE base * number[i - 1] + digits[i]
  IN  number[Len(digits)]

\* The loop runs to strlen - 1, an unsigned number: for an empty string it runs
\* off the string and the process dies.
Runaway == -1

ConvertBinaryToDecimal(bits) == IF bits = <<>> THEN Runaway ELSE NumberOf(2, bits)

\* Mutants of GetPageNumber: the low bits; one bit too many.
GetPageNumberLow(buffer, chars) ==
  LET bits == ConvertHexToBinaryAddress(buffer, chars)
  IN  ConvertBinaryToDecimal(SubSeq(bits, OffsetBits + 1, Len(bits)))
GetPageNumberLong(buffer, chars) ==
  LET bits == ConvertHexToBinaryAddress(buffer, chars)
  IN  ConvertBinaryToDecimal(SubSeq(bits, 1, Min({PageBits + 1, Len(bits)})))

\* substr(0, page_num_bits); an address of the wrong length is reported and used
\* all the same.
GetPageNumber(buffer, chars) ==
  LET bits == ConvertHexToBinaryAddress(buffer, chars)
  IN  ConvertBinaryToDecimal(SubSeq(bits, 1, Min({PageBits, Len(bits)})))
=============================================================================
