------------------------------ MODULE MCVerilog -----------------------------
(***************************************************************************)
(* Input files for the generator: designs in the manner of CAD/input.txt,  *)
(* with an adder and a comparator, five states and a loop; each varies one *)
(* thing.  The CAP lines follow from the register transfers, as in the     *)
(* inputs of the repository; other files have one line that is wrong.      *)
(***************************************************************************)
EXTENDS GeneratedFsm

R(n) == <<"R", ToString(n)>>
ADDER == <<"ADDER">>
COMP  == <<"COMP">>

MCInputPorts == {<<"RP1">>}
MCIndeterminate == {-1, 1}

Read(b, ts, port, reg) == [op |-> "R", block |-> b, timestep |-> ts, in1 |-> port, out |-> reg,
                           fu |-> <<>>, width |-> 16]
Write(b, ts, port, reg) == [Read(b, ts, reg, port) EXCEPT !.op = "O"]
Do(b, ts, out, in1, fu, operation, in2) ==
  [op |-> "A", block |-> b, timestep |-> ts, out |-> out, in1 |-> in1, in2 |-> in2,
   fu |-> fu, operation |-> operation, width |-> 16]

\* carries: the operand a multiplexer is for; 0 if it is in front of a register.
Mux(name, inputs, output, bits, carries) ==
  [name |-> name, inputs |-> [k \in DOMAIN inputs |-> <<inputs[k], getBinary(k - 1, bits)>>],
   output |-> output, bits |-> bits, carries |-> carries]

M1 == Mux(<<"M1">>, <<R(1), R(2)>>, ADDER, 1, 1)
M2 == Mux(<<"M2">>, <<R(2), R(3)>>, ADDER, 1, 2)
M3 == Mux(<<"M3">>, <<COMP, ADDER>>, R(3), 1, 0)
M4 == Mux(<<"M4">>, <<R(3), R(1)>>, ADDER, 1, 1)
Wide == Mux(<<"M1">>, <<R(1), R(2), R(3)>>, ADDER, 2, 1)

Base ==
  [fu  |-> <<[name |-> ADDER, operations |-> <<"ADD", "SUB">>, bits |-> 1],
             [name |-> COMP, operations |-> <<"LT">>, bits |-> 0]>>,
   mux |-> <<M1, M2, M3>>,
   rt  |-> <<Read(1, 1, <<"RP1">>, R(1)), Do(5, 1, R(3), R(1), COMP, "LT", R(2)),
             Do(2, 1, R(1), R(1), ADDER, "ADD", R(2)), Do(2, 2, R(3), R(2), ADDER, "SUB", R(3)),
             Write(3, 1, <<"OP1">>, R(1))>>,
   fsm |-> <<<<11, 1, <<<<TRUE, 51>>>>>>, <<51, 2, <<<<TRUE, 21>>, <<FALSE, 31>>>>>>,
             <<21, 1, <<<<TRUE, 22>>>>>>, <<22, 1, <<<<TRUE, 51>>>>>>,
             <<31, 1, <<<<TRUE, 32>>>>>>, <<32, 0, <<>>>>>>,
   cap |-> <<11, 51, 21, 22, 31>>]

\* One multiplexer and a direct second operand.
OneMux == [Base EXCEPT !.mux = <<M4, M3>>, !.rt[3] = Do(2, 1, R(1), R(1), ADDER, "ADD", R(2)),
                       !.rt[4] = Do(2, 2, R(3), R(3), ADDER, "SUB", R(2))]

Designs ==
  {Base, OneMux,
   [Base EXCEPT !.mux = <<M3, M1, M2>>],
   [Base EXCEPT !.mux = <<M2, M1, M3>>],                              \* operands swapped
   [Base EXCEPT !.mux = <<M1, M2, M4, M3>>],                          \* a third is lost
   [Base EXCEPT !.mux = <<Wide, M2, M3>>,                             \* two select lines
                !.rt[4] = Do(2, 2, R(3), R(3), ADDER, "SUB", R(3))],
   [Base EXCEPT !.fu[1].operations = <<"XOR", "ADD", "SUB">>],        \* one is unknown
   [Base EXCEPT !.mux = <<M1, M2>>,                                   \* no mux to R3
                !.rt[4] = Do(2, 2, R(2), R(2), ADDER, "SUB", R(3))],
   [OneMux EXCEPT !.rt[3].in2 = R(3), !.rt[4].in2 = R(3)],            \* not wired
   [Base EXCEPT !.fsm[2] = <<51, 2, <<<<FALSE, 31>>, <<TRUE, 21>>>>>>],
   [Base EXCEPT !.fsm = Append(@, Base.fsm[3]) \o <<Base.fsm[4], <<21, 1, <<<<TRUE, 11>>>>>>>>],
   [Base EXCEPT !.fsm = <<@[2], @[1]>> \o SubSeq(@, 3, 6)],           \* no reset
   [Base EXCEPT !.cap = <<51, 21, 22, 31>>],
   [Base EXCEPT !.cap = <<11, 21, 22, 31>>],                          \* nothing is tested
   [Base EXCEPT !.cap = <<31, 22, 51, 21, 11>>],
   [Base EXCEPT !.fsm[5] = <<31, 1, <<<<TRUE, 33>>>>>>],              \* no such state
   [Base EXCEPT !.rt = Append(@, [@[1] EXCEPT !.op = "X"])]}          \* no such operation

\* The digits of a CAP line.
Zeros(n) == [k \in 1 .. n |-> 0]
CodeOf(mux, x) == LET hit == SelectSeq(mux.inputs, LAMBDA p : p[1] = x)
                  IN  IF hit = <<>> THEN Zeros(mux.bits) ELSE hit[1][2]
MuxDigits(mux, ops) ==
  LET served == {o \in ops : o.op = "A" /\ mux.output = IF mux.carries = 0 THEN o.out ELSE o.fu}
      o == CHOOSE x \in served : TRUE
  IN  IF served = {} THEN Zeros(mux.bits)
      ELSE CodeOf(mux, CASE mux.carries = 0 -> o.fu [] mux.carries = 1 -> o.in1 [] OTHER -> o.in2)
FuDigits(fu, ops) ==
  LET served == {o \in ops : o.op = "A" /\ o.fu = fu.name}
      o == CHOOSE x \in served : TRUE
  IN  IF served = {} THEN Zeros(fu.bits)
      ELSE getBinary((CHOOSE k \in DOMAIN fu.operations : fu.operations[k] = o.operation) - 1, fu.bits)
CapLine(d, s) ==
  LET ops == {o \in ToSet(d.rt) : o.block * 10 + o.timestep = s}
  IN  [state |-> s,
       mux |-> FlattenSeq([k \in DOMAIN d.mux |-> MuxDigits(d.mux[k], ops)]),
       reg |-> [k \in 1 .. 3 |-> IF \E o \in ops : o.out = R(k) THEN 1 ELSE 0],
       fu  |-> FlattenSeq([k \in DOMAIN d.fu |-> FuDigits(d.fu[k], ops)])]

Line(sec, fields) == fields @@ [kind |-> "data", section |-> sec]
Section(sec, lines) ==
  <<[kind |-> "header", section |-> sec]>> \o [k \in DOMAIN lines |-> Line(sec, lines[k])]
    \o <<[kind |-> "blank"]>>
Pairs(structures) == <<[pairs |-> [k \in DOMAIN structures |-> <<structures[k].name, structures[k].bits>>]]>>

Named(text) ==
  [k \in DOMAIN text |-> IF text[k].kind = "blank" THEN text[k]
                         ELSE text[k] @@ [text |-> <<"line", ToString(k)>>]]

Text(d) == Named(
  <<[kind |-> "other"]>>
    \o Section("registers", [k \in 1 .. 3 |-> [name |-> R(k), width |-> 16]])
    \o Section("fu", d.fu)
    \o Section("rt", d.rt)
    \o Section("mux", d.mux)
    \o Section("fsm", [k \in DOMAIN d.fsm |-> [name |-> d.fsm[k][1], ways |-> d.fsm[k][2], arms |-> d.fsm[k][3]]])
    \o Section("csmux", Pairs(d.mux))
    \o Section("csfu", Pairs(d.fu))
    \o Section("cap", [k \in DOMAIN d.cap |-> CapLine(d, d.cap[k])]))

\* Files with a wrong line; the position of a line is found by what it is.
At(text, sec, n) ==
  (CHOOSE i \in DOMAIN text : text[i].kind = "header" /\ text[i].section = sec) + n
Without(text, sec, n) == RemoveAt(text, At(text, sec, n))
Faulty ==
  LET t == Text(Base)
      fu == At(t, "fu", 0)
  IN  {[t EXCEPT ![At(t, "fsm", 2)].arms = <<<<TRUE, 21>>, <<TRUE, 31>>>>],
       [t EXCEPT ![At(t, "fsm", 3)].arms = <<>>],
       [t EXCEPT ![At(t, "csmux", 1)].pairs = <<<<<<"M9">>, 1>>>>],
       [t EXCEPT ![At(t, "csfu", 1)].pairs = <<<<<<"DIVIDER">>, 0>>>>],
       [t EXCEPT ![At(t, "cap", 2)].state = 99],
       [t EXCEPT ![At(t, "cap", 2)].mux = <<>>],
       Without(t, "fu", -1),                                      \* the blank line before it
       Without(t, "csmux", -1),
       Without(t, "fsm", -1),                                     \* read as multiplexers
       InsertAt(t, At(t, "mux", 2), t[At(t, "mux", 0)]),
       Without(t, "csmux", 1),                                    \* no bits are given
       Without(t, "csfu", 1),
       SubSeq(t, 1, fu - 1) \o SubSeq(t, fu + 4, Len(t)) \o SubSeq(t, fu, fu + 3)} \* the units last

MCFiles == {Text(d) : d \in Designs} \cup Faulty
=============================================================================
