------------------------------ MODULE Schedule ------------------------------
(***************************************************************************)
(* What the input file of generateVerilog.cpp describes, abstractly: a     *)
(* flow graph of control steps.  A step with one successor assigns its     *)
(* registers and goes on; a step with two tests a register, as it was when *)
(* the step began; a step with none goes back to the first.                *)
(***************************************************************************)
EXTENDS Integers, Sequences

VARIABLES
  flow,      \* [first, next, test, writes]: the graph
  position,  \* the control step, in a sequence that is empty before the first
  zero       \* the tested registers that are zero

Tested == {flow.test[s][1] : s \in {r \in DOMAIN flow.test : flow.test[r] # <<>>}}

\* The assigned registers may become zero or not.
Assign(registers) ==
  /\ zero' \in SUBSET Tested
  /\ zero' \ registers = zero \ registers

Init == position = <<>> /\ zero = {}

Reset ==
  /\ Len(flow.next[flow.first]) = 1
  /\ position' = <<flow.first>>
  /\ Assign(flow.writes[flow.first])
  /\ UNCHANGED flow

GoOn(s) ==
  /\ Len(flow.next[s]) = 1
  /\ position' = flow.next[s]
  /\ Assign(flow.writes[s])

\* next: the step if the test is true, then the one if it is false.
Branch(s) ==
  /\ Len(flow.next[s]) = 2
  /\ position' = <<flow.next[s][IF flow.test[s][1] \in zero THEN 2 ELSE 1]>>
  /\ Assign(flow.writes[s])

Finish(s) ==
  /\ flow.next[s] = <<>>
  /\ position' = <<flow.first>>
  /\ UNCHANGED zero

Step ==
  /\ position # <<>>
  /\ GoOn(position[1]) \/ Branch(position[1]) \/ Finish(position[1])
  /\ UNCHANGED flow

Next == Reset \/ Step

Spec == Init /\ [][Next]_<<flow, position, zero>>
=============================================================================
