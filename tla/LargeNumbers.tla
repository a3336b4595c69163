---------------------------- MODULE LargeNumbers ----------------------------
(***************************************************************************)
(* The mantissa and exponent numbers in which the activity recogniser      *)
(* multiplies and adds probabilities (ar.c).  The mantissa is a long       *)
(* double; here it is a fraction, digits / Radix^places, and exact.        *)
(* Only numbers that are not negative occur: nothing calls subtract.       *)
(***************************************************************************)
EXTENDS Integers

CONSTANTS
  Radix,          \* 10; with a smaller one short logs change the exponent
  DOUBLELIMIT     \* orders beyond which the smaller term is dropped

ASSUME NumbersAssumption == Radix \in Nat \ {0, 1} /\ DOUBLELIMIT \in Nat \ {0}

Number(n, p, e) == [digits |-> n, places |-> p, exponent |-> e]

NumberOfDigits(n) == CHOOSE d \in 1 .. 30 : Radix^(d - 1) <= n /\ n < Radix^d

TrailingZeros(n) ==
  CHOOSE t \in 0 .. 29 : n % Radix^t = 0 /\ n % Radix^(t + 1) # 0

\* One digit before the point of the mantissa, and no zeros at its end.
standardize(x) ==
  IF x.digits = 0 THEN Number(0, 0, 0)
  ELSE LET zeros == TrailingZeros(x.digits)
           places == NumberOfDigits(x.digits) - 1
       IN  Number(x.digits \div Radix^zeros, places - zeros, x.exponent + places - x.places)

makeLargeNumber(n) == standardize(Number(n, 0, 0))

Larger(m, n) == IF m > n THEN m ELSE n

\* The mantissa of x + the mantissa of y, over Radix^p, when x is raised by d orders.
AlignedSum(x, d, y) ==
  LET p == Larger(x.places, y.places)
  IN  [digits |-> x.digits * Radix^(p - x.places + d) + y.digits * Radix^(p - y.places), places |-> p]

Zero(x) == x.digits = 0 /\ x.exponent = 0

\* x and y, y the one of the smaller exponent.
AddOrdered(x, y) ==
  LET diff == x.exponent - y.exponent
      sum == AlignedSum(x, diff, y)
  IN  standardize(IF diff < DOUBLELIMIT THEN Number(sum.digits, sum.places, y.exponent) ELSE x)

\* Mutant of add: the sum is not put back into standard form.
AddUnstandardized(x, y) ==
  LET hi == IF x.exponent < y.exponent THEN y ELSE x
      lo == IF x.exponent < y.exponent THEN x ELSE y
      diff == hi.exponent - lo.exponent
      sum == AlignedSum(hi, diff, lo)
  IN  IF Zero(y) THEN x ELSE IF Zero(x) THEN y
      ELSE IF diff < DOUBLELIMIT THEN Number(sum.digits, sum.places, lo.exponent) ELSE hi

add(x, y) ==
  IF Zero(y) THEN x ELSE IF Zero(x) THEN y
  ELSE IF x.exponent < y.exponent THEN AddOrdered(y, x) ELSE AddOrdered(x, y)

MantissaGreater(x, y) == x.digits * Radix^y.places > y.digits * Radix^x.places

\* The exponent of zero is 0: no number below 1 is greater than zero.
isGreaterThan(x, y) ==
  \/ x.exponent > y.exponent
  \/ x.exponent = y.exponent /\ MantissaGreater(x, y)

\* The value in units of Radix^-k, for a k with no digit beyond it.
Units(x, k) == x.digits * Radix^(x.exponent - x.places + k)
=============================================================================
