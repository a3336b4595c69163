----------------------------- MODULE MCActivity -----------------------------
(* The activity recogniser on short logs: two activities, an event every few *)
(* hours, two folds.                                                         *)
EXTENDS ActivityRecognition

MCHour(n) == 3 + 5 * n

MCnumfeaturevalues == [TIME |-> 4, LENGTH |-> 2]

MCLinesOf == [TRAIN |-> 2, TEST |-> 2, BOTH |-> 5]

\* A half and a quarter: the radix is 2.
MCTerms == {Number(1, 0, -1), Number(1, 0, -2)}
=============================================================================
