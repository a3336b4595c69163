--------------------------- MODULE DatapathTables ---------------------------
(***************************************************************************)
(* The tables generateVerilog.cpp fills from its input file, and what each *)
(* line of a section does to them.  A name is the sequence of its parts,   *)
(* so that gluing names is concatenation and the empty name is <<>>; a     *)
(* string of binary digits is the sequence of its digits; a state, a block *)
(* and its time step, is the number its digits write.                      *)
(* bits_selectLines of a multiplexer or unit is not initialized: `bits' is *)
(* what happens to be there.                                               *)
(***************************************************************************)
EXTENDS Integers, FiniteSetsExt, SequencesExt

CONSTANT InputPorts   \* the names that start with port_identifier, "RP"

KnownOperations ==
  {"ADD", "SUB", "MULT", "DIV", "LT", "GT", "LTE", "GTE", "E", "RS", "LS"}

OperationTypes == {"A", "R", "O"}

HighZ == <<"1'bz">>

IsList(s) == s \in Seq(ToSet(s))

\* std::map::insert: the entry of a key that is there stays.
Insert(map, key, value) ==
  [k \in DOMAIN map \cup {key} |-> IF k \in DOMAIN map THEN map[k] ELSE value]

\* The entries of a map, and those of another whose keys it does not have.
Completed(map, other) ==
  [k \in DOMAIN map \cup DOMAIN other |-> IF k \in DOMAIN map THEN map[k] ELSE other[k]]

\* A number shifted to the right so many times, a digit at a time.
Shifted(number, times) ==
  LET shift[c \in 0 .. times] == IF c = 0 THEN number ELSE shift[c - 1] \div 2
  IN  shift[times]

\* The low digits of a number, most significant first.
getBinary(number, bits) == [i \in 1 .. bits |-> Shifted(number, bits - i) % 2]

\* A unit that fuList[...] adds: all of it is initialized.
EmptyFu ==
  [operations |-> <<>>, bits |-> 0, select |-> <<>>,
   input1 |-> <<>>, input2 |-> <<>>, output |-> <<>>]

EmptyTables ==
  [registers |-> <<>>, regSeqList |-> <<>>,
   muxList |-> <<>>, muxSeqList |-> <<>>, muxLinks |-> <<>>, mux_count |-> 0,
   is_mux_in_file |-> {},
   fuList |-> <<>>, fuSeqList |-> <<>>, regFuLinkList |-> <<>>,
   regWireList |-> <<>>,
   stateList |-> <<>>, stateSeqList |-> <<>>, no_states |-> 0, bits_req |-> 0,
   rtOperationsList |-> <<>>, portWidth |-> <<>>, status |-> "ok"]

\* The program ends, by exit, by an exception or by a crash.
Ended(t) == [t EXCEPT !.status = "ended"]

-----------------------------------------------------------------------------
(* One operator per kind of line.  l is the line, its fields parsed.         *)

populateRegisters(t, l) ==
  [t EXCEPT !.registers = Insert(@, l.name, l.width), !.regSeqList = Append(@, l.name)]

\* l.inputs: the pairs of an input and its code; the first input of a code counts.
populateMux(t, l, bits) ==
  LET First(code) == Min({k \in DOMAIN l.inputs : l.inputs[k][2] = code})
      mux == [output   |-> l.output,
              input_cs |-> [code \in {x[2] : x \in ToSet(l.inputs)} |-> l.inputs[First(code)][1]],
              bits     |-> bits,
              select   |-> <<"select", ToString(t.mux_count + 1)>>,
              wire     |-> <<>>]
  IN  [t EXCEPT !.mux_count = @ + 1,
                !.muxList = Insert(@, l.name, mux),
                !.muxSeqList = Append(@, l.name),
                !.muxLinks = Insert(@, l.name, {x[1] : x \in ToSet(l.inputs)} \cup {l.output})]

populateFu(t, l, bits) ==
  [t EXCEPT !.fuList = Insert(@, l.name,
                [EmptyFu EXCEPT !.operations = l.operations, !.bits = bits,
                                !.output = l.name \o <<"_wire">>]),
            !.fuSeqList = Append(@, l.name)]

\* l.arms: the pairs <<token is "T", next state>>; one without a label for a
\* state with one way.
WellFormed(l) ==
  \/ l.ways = 0
  \/ l.ways = 1 /\ Len(l.arms) = 1
  \/ l.ways = 2 /\ Len(l.arms) = 2 /\ l.arms[1][1] # l.arms[2][1]

\* next: <<next>>, or <<true next, false next>>.
populatefSM(t, l) ==
  IF ~WellFormed(l) THEN Ended(t)
  ELSE LET next == CASE l.ways = 0 -> <<>>
                     [] l.ways = 1 -> <<l.arms[1][2]>>
                     [] OTHER -> IF l.arms[1][1] THEN <<l.arms[1][2], l.arms[2][2]>>
                                                 ELSE <<l.arms[2][2], l.arms[1][2]>>
           newState == [no_ways |-> l.ways, next |-> next, code |-> <<>>,
                        mux_select |-> <<>>, reg_select |-> <<>>, fu_select |-> <<>>]
       IN  [t EXCEPT !.no_states = @ + 1,
                     !.stateList = Insert(@, l.name, newState),
                     !.stateSeqList = Append(@, l.name)]

\* The codes no input has are given the high impedance.
populateImpedenceIfEmpty(mux) ==
  [mux EXCEPT !.input_cs =
     Completed(@, [code \in {getBinary(i, mux.bits) : i \in 0 .. 2^mux.bits - 1} |-> HighZ])]

\* l.pairs: the pairs of a structure and its bits; the last of a structure counts (the labels
\* of a width that is replaced are never used).
NamedIn(l) == {x[1] : x \in ToSet(l.pairs)}
LastPlace(l, name) == Max({k \in DOMAIN l.pairs : l.pairs[k][1] = name})
BitsIn(l, name) == l.pairs[LastPlace(l, name)][2]

\* A name that is not there ends the program.  The module of a new width is written at once.
populateBitsInMux(t, l) ==
  IF ~(NamedIn(l) \subseteq DOMAIN t.muxList) THEN Ended(t)
  ELSE [t EXCEPT !.muxList = [m \in DOMAIN @ |->
                    IF m \in NamedIn(l)
                    THEN populateImpedenceIfEmpty([@[m] EXCEPT !.bits = BitsIn(l, m)])
                    ELSE @[m]],
                 !.is_mux_in_file = @ \cup {x[2] : x \in ToSet(l.pairs)}]

\* The units that have a select line are numbered within the line.
populateBitsInFU(t, l) ==
  LET Numbered(k) == Cardinality({j \in 1 .. k - 1 : l.pairs[j][2] > 0})
      Select(fu) == <<"fu", ToString(Numbered(LastPlace(l, fu))), "_select">>
      Stored(fu) == [t.fuList[fu] EXCEPT !.bits = BitsIn(l, fu),
                                         !.select = IF BitsIn(l, fu) > 0 THEN Select(fu) ELSE @]
  IN  IF ~(NamedIn(l) \subseteq DOMAIN t.fuList) THEN Ended(t)
      ELSE [t EXCEPT !.fuList = [fu \in DOMAIN @ |-> IF fu \in NamedIn(l) THEN Stored(fu) ELSE @[fu]]]

\* A negative length is a great one: the rest of the digits.  Outside them it throws.
substr(digits, start, length) ==
  IF start \notin 0 .. Len(digits) THEN <<>>
  ELSE SubSeq(digits, start + 1,
              IF length < 0 THEN Len(digits) ELSE Min({start + length, Len(digits)}))

\* The digits the first n fields take together.
Taken(fields, n) ==
  LET taken[k \in 0 .. n] == IF k = 0 THEN 0 ELSE taken[k - 1] + fields[k][2]
  IN  taken[n]

\* Mutant of Cut: the fields are cut from the end.
CutBackwards(fields, digits) ==
  LET Start(k) == Taken(Reverse(fields), Len(fields) - k)
      First(name) == Min({k \in DOMAIN fields : fields[k][1] = name})
  IN  [fits |-> \A k \in DOMAIN fields : Start(k) \in 0 .. Len(digits),
       map  |-> [name \in {f[1] : f \in ToSet(fields)} |->
                   substr(digits, Start(First(name)), fields[First(name)][2])]]

\* The digits cut into consecutive fields, each <<name, length>>; substr throws if a
\* field starts beyond the end, or before the beginning, which wraps around.
Cut(fields, digits) ==
  LET Start(k) == Taken(fields, k - 1)
      First(name) == Min({k \in DOMAIN fields : fields[k][1] = name})
  IN  [fits |-> \A k \in DOMAIN fields : Start(k) \in 0 .. Len(digits),
       map  |-> [name \in {f[1] : f \in ToSet(fields)} |->
                   substr(digits, Start(First(name)), fields[First(name)][2])]]

parseBlockMuxSelectLines(t, digits) ==
  Cut([k \in DOMAIN t.muxSeqList |->
         LET mux == t.muxList[t.muxSeqList[k]] IN <<mux.select, mux.bits>>], digits)

parseBlockRegSelectLines(t, digits) ==
  Cut([k \in DOMAIN t.regSeqList |-> <<t.regSeqList[k], 1>>], digits)

parseBlockFUSelectLines(t, digits) ==
  LET selected == SelectSeq(t.fuSeqList, LAMBDA fu : t.fuList[fu].bits > 0)
  IN  Cut([k \in DOMAIN selected |->
             LET fu == t.fuList[selected[k]] IN <<fu.select, fu.bits>>], digits)

populateCAP(t, l) ==
  LET mux == parseBlockMuxSelectLines(t, l.mux)
      reg == parseBlockRegSelectLines(t, l.reg)
      fu  == parseBlockFUSelectLines(t, l.fu)
      Stored(st) == [st EXCEPT !.mux_select = mux.map, !.reg_select = reg.map,
                               !.fu_select = fu.map]
  IN  IF l.state \notin DOMAIN t.stateList THEN Ended(t)
      ELSE IF ~(mux.fits /\ reg.fits /\ fu.fits) THEN Ended(t)
      ELSE [t EXCEPT !.stateList[l.state] = Stored(@)]

\* A port has the greatest of its widths and the direction it was first used in.
insertPort(t, port, width, isInput) ==
  LET entered == Insert(t.portWidth, port, [width |-> width, isInput |-> isInput])
  IN  [t EXCEPT !.portWidth = [entered EXCEPT ![port].width = Max({@, width})]]

\* What is recorded for a letter the code does not know.
NoOperation == [op |-> "", out |-> <<>>, in1 |-> <<>>, wire |-> <<>>, state |-> -1]

\* l.op "A": l.out, l.fu and the registers l.in1, l.in2; "R": l.in1 to l.out; "O":
\* l.in1 to the port l.out.  fuList[...] adds a unit that was not specified.
functionUnitRegLinker(t, l) ==
  LET fuOutputWire == IF l.fu \in DOMAIN t.fuList THEN t.fuList[l.fu].output ELSE <<>>
      s == [t EXCEPT !.rtOperationsList =
              Append(@, [op |-> l.op, out |-> l.out, in1 |-> l.in1, wire |-> fuOutputWire,
                         state |-> l.block * 10 + l.timestep])]
  IN  CASE l.op = "A" ->
             [s EXCEPT !.regFuLinkList = Insert(@, l.fu, <<l.in1, l.in2>>),
                       !.fuList = Insert(@, l.fu, EmptyFu)]
        [] l.op = "R" -> IF l.in1 \in InputPorts THEN insertPort(s, l.in1, l.width, TRUE) ELSE s
        [] l.op = "O" -> insertPort(s, l.out, l.width, FALSE)
        [] OTHER      -> [t EXCEPT !.rtOperationsList = Append(@, NoOperation)]
=============================================================================
