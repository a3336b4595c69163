-------------------------- MODULE InOrderReceiver --------------------------
(***************************************************************************)
(* What the server of SYSTEM_LAB/TCP promises about the segments of a      *)
(* transfer: it keeps a set of them and acknowledges the first one that is *)
(* missing.  Which of the segments ahead of that one it keeps depends on   *)
(* its window, whose last place it may be unable to offer.                 *)
(***************************************************************************)
EXTENDS Integers, FiniteSetsExt

CONSTANTS First, Step, Window, SeqNos

VARIABLES kept, ack, arrived

vars == <<kept, ack, arrived>>

\* The n segments from the acknowledged one on.
Ahead(n) == {ack + k * Step : k \in 0 .. n - 1}

Guaranteed == Ahead(IF Window > 1 THEN Window - 1 ELSE 1)

FirstMissing(K) ==
  Min({First + k * Step : k \in 0 .. Cardinality(K)} \ K)

Init == kept = {} /\ ack = First /\ arrived = {}

Arrive(s) ==
  /\ \/ s \in Ahead(Window) /\ kept' = kept \cup {s}
     \/ s \notin Guaranteed \ kept /\ kept' = kept
  /\ ack' = FirstMissing(kept')
  /\ arrived' = arrived \cup {s}

Next == \E s \in SeqNos : Arrive(s)

Spec == Init /\ [][Next]_vars
=============================================================================
