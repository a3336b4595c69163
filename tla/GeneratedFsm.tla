---------------------------- MODULE GeneratedFsm ----------------------------
(***************************************************************************)
(* The controller generateVerilog.cpp writes, module fsm, run as Verilog   *)
(* would run it: one block, `always @(posedge clk or posedge rst)', whose  *)
(* assignments take effect together.  Of the registers, only the ones a    *)
(* state tests are kept, and of their values whether they are zero.        *)
(***************************************************************************)
EXTENDS VerilogGenerator

VARIABLES
  state,    \* the code in register `state'; <<>> until the first reset
  selects,  \* the digits in the select registers that have been assigned
  zero      \* the tested registers that are zero

controllerVars == <<state, selects, zero>>
vars == <<generatorVars, controllerVars>>

-----------------------------------------------------------------------------
(* The file, read on its own.                                                *)

Places(file, sec) == {i \in DOMAIN file : file[i].kind = "data" /\ file[i].section = sec}
LinesOf(file, sec) == {file[i] : i \in Places(file, sec)}

\* The first line of a state counts.
FlowStates(file) == {l.name : l \in LinesOf(file, "fsm")}
FlowLine(file, s) == file[Min({i \in Places(file, "fsm") : file[i].name = s})]
ControlStates(file) == {s \in FlowStates(file) : FlowLine(file, s).ways = 2}
Operations(file) == {l \in LinesOf(file, "rt") : l.op \in OperationTypes}
OperationsIn(file, s) == {l \in Operations(file) : l.block * 10 + l.timestep = s}
HasCap(file, s) == \E l \in LinesOf(file, "cap") : l.state = s

ArmOf(l, answer) == (CHOOSE a \in ToSet(l.arms) : a[1] = answer)[2]
Successors(l) ==
  CASE l.ways = 0 -> <<>>
    [] l.ways = 1 -> <<l.arms[1][2]>>
    [] l.ways = 2 -> <<ArmOf(l, TRUE), ArmOf(l, FALSE)>>

\* The register the comparison of a control state is stored in.
Compared(file, s) == (CHOOSE l \in OperationsIn(file, s) : l.op = "A").out

\* A control state branches on the register its comparison is stored in.
FlowOf(file) ==
  LET states == FlowStates(file)
  IN  [first  |-> file[Min(Places(file, "fsm"))].name,
       next   |-> [s \in states |-> Successors(FlowLine(file, s))],
       test   |-> [s \in states |-> IF s \in ControlStates(file) THEN <<Compared(file, s)>> ELSE <<>>],
       writes |-> [s \in states |-> {l.out : l \in OperationsIn(file, s)}]]

Flow == FlowOf(input)

\* The digits of a CAP line are for the registers in file order.
RegisterDigit(file, l, i) ==
  LET k == Cardinality({j \in Places(file, "registers") : j <= i})
  IN  IF k <= Len(l.reg) THEN l.reg[k] ELSE 0

\* A blank line ends every section.
Separated(file) ==
  \A i \in DOMAIN file : file[i].kind = "header" =>
    ~ \E h \in DOMAIN file : SectionBegun(file, h, i - 1)

\* A file the format allows: its sections are apart, each state that is entered is there, and
\* a control state does one operation, a comparison, and enables no register but the one that
\* stores it.
Consistent(file) ==
  /\ Separated(file)
  /\ FlowStates(file) # {}
  /\ \A s \in FlowStates(file) : ToSet(Successors(FlowLine(file, s))) \subseteq FlowStates(file)
  /\ \A s \in ControlStates(file) :
       /\ Cardinality(OperationsIn(file, s)) = 1
       /\ \A l \in LinesOf(file, "cap"), i \in Places(file, "registers") :
            l.state = s /\ RegisterDigit(file, l, i) = 1 => file[i].name = Compared(file, s)

NamesIn(file, sec) == {l.name : l \in LinesOf(file, sec)}
InputsOf(l) == {x[1] : x \in ToSet(l.inputs)}

\* The pairs of a structure and its bits, in the sections that give them.
PairsIn(file, sec) == UNION {ToSet(l.pairs) : l \in LinesOf(file, sec)}

\* A file that says what its names are: its sections are apart; a multiplexer or a unit has one
\* line, and a number of bits; a multiplexer connects registers, or, in front of a register,
\* also units; an operation is done on registers, by a unit that has a line above; a port is
\* read into a register or written from one; and a unit is used and knows an operation.
NamesGiven(file) ==
  LET registers == NamesIn(file, "registers")
      units == NamesIn(file, "fu")
      operations == Operations(file)
  IN  /\ Separated(file)
      /\ \A sec \in {"mux", "fu"} : \A i, j \in Places(file, sec) :
           file[i].name = file[j].name => i = j
      /\ registers \cap units = {}
      /\ \A l \in LinesOf(file, "mux") :
           /\ \/ l.output \in units /\ InputsOf(l) \subseteq registers
              \/ l.output \in registers /\ InputsOf(l) \subseteq registers \cup units
           /\ \E x \in PairsIn(file, "csmux") : x[1] = l.name
      /\ \A x, y \in PairsIn(file, "csmux") : x[1] = y[1] => x[2] = y[2]
      /\ \A l \in operations :
           /\ l.op = "A" => {l.out, l.in1, l.in2} \subseteq registers
           /\ l.op = "R" => l.out \in registers /\ l.in1 \in registers \cup InputPorts
           /\ l.op = "O" => l.in1 \in registers
      /\ \A i \in Places(file, "rt") : file[i].op = "A" =>
           \E j \in Places(file, "fu") : j < i /\ file[j].name = file[i].fu
      /\ \A l \in LinesOf(file, "fu") :
           /\ \E o \in operations : o.op = "A" /\ o.fu = l.name
           /\ \E x \in PairsIn(file, "csfu") : x[1] = l.name
           /\ \E k \in DOMAIN l.operations :
                /\ l.operations[k] \in KnownOperations
                /\ k = 1 \/ \A x \in PairsIn(file, "csfu") : x[1] = l.name => x[2] > 0

-----------------------------------------------------------------------------

TestedRegisters == {CaseItem(tables, s).test : s \in DOMAIN tables.stateList} \ {<<>>}

AssignRegisters(writes) ==
  LET registers == {w[1] : w \in writes}
  IN  /\ zero' \in SUBSET TestedRegisters
      /\ zero' \ registers = zero \ registers

\* The select registers a state does not assign keep their digits.
Enter(info) ==
  /\ state' = info.code
  /\ selects' = Completed(info.selects, selects)

\* The file is written without an error and its modules can be compiled.
Running == pc = "written" /\ Consistent(input)

\* A reset does nothing to a first state that does not have one way.
Reset ==
  LET first == tables.stateSeqList[1]
  IN  /\ Running
      /\ tables.stateList[first].no_ways = 1
      /\ Enter(writeStateInfo(tables, first))
      /\ AssignRegisters(writeToFromReg(tables, first))
      /\ UNCHANGED generatorVars

Clock ==
  /\ Running
  /\ \E s \in DOMAIN tables.stateList :
       LET item == CaseItem(tables, s)
       IN  /\ state = tables.stateList[s].code
           /\ \A r \in DOMAIN tables.stateList : r < s => tables.stateList[r].code # state
           /\ Enter(IF item.test \in zero THEN item.zero ELSE item.other)
           /\ AssignRegisters(item.writes)
  /\ UNCHANGED generatorVars

Init == GeneratorInit /\ state = <<>> /\ selects = <<>> /\ zero = {}

Next == (GeneratorNext /\ UNCHANGED controllerVars) \/ Reset \/ Clock

Spec == Init /\ [][Next]_vars

-----------------------------------------------------------------------------
(* Properties.                                                               *)

\* The states that were read have different codes, and each fills the state register,
\* whatever the number of lines the flow section repeats (bits_req counts the lines).
CodesDistinct ==
  pc \in {"processed", "written"} =>
    \A s, r \in ToSet(tables.stateSeqList) :
      /\ Len(tables.stateList[s].code) = tables.bits_req
      /\ tables.stateList[s].code = tables.stateList[r].code => s = r

PositionOf(code) ==
  IF code = <<>> THEN <<>>
  ELSE <<CHOOSE s \in DOMAIN tables.stateList : tables.stateList[s].code = code>>

\* The controller follows the flow graph of the file: it is always in a state of the
\* graph, takes the arm the tested register calls for, and starts again from the
\* first state after a final one and on reset.
schedule == INSTANCE Schedule WITH flow <- Flow, position <- PositionOf(state)
ImplementsSchedule == [][schedule!Next]_<<state, selects, zero>>

-----------------------------------------------------------------------------
(* The data path, while a state is active.                                   *)

Muxes == instantiateMux(tables)
Units == instantiateFU(tables)

\* The register a name stands for, given the select registers: the output of a
\* multiplexer is the input whose label its one-bit port equals.
SourceOf(name, sel) ==
  LET driving == {m \in DOMAIN Muxes : Muxes[m].out = name}
  IN  IF driving = {} THEN name
      ELSE LET m == CHOOSE x \in driving : TRUE
           IN  tables.muxList[m].input_cs[SelectPort(sel[Muxes[m].select])]

OperationOf(fu, sel) ==
  OperationCodes(tables.fuList[fu])
    [IF Units[fu].select = <<>> THEN <<>> ELSE SelectPort(sel[Units[fu].select])]

\* What the 1-bit select ports and the wiring by file order can express: bits that are given,
\* one at most, operations that are known, the multiplexer of the first operand before that of
\* the second, and a direct operand that no multiplexer names beside the unit, as an input or
\* as its output.
MuxesOf(fu) == {i \in Places(input, "mux") : input[i].output = fu}
NamedTogether(fu, reg) ==
  \E l \in LinesOf(input, "mux") : {fu, reg} \subseteq InputsOf(l) \cup {l.output}
UnitOperations(fu) == {l \in LinesOf(input, "rt") : l.op = "A" /\ l.fu = fu}
InOperandOrder(fu) ==
  LET ms == MuxesOf(fu)
      ops == UnitOperations(fu)
      many == Cardinality(ms)
      first == input[Min(ms)]
      second == input[Max(ms)]
  IN  /\ many <= 2
      /\ many = 0 => \A o, p \in ops : o.in1 = p.in1 /\ o.in2 = p.in2
      /\ many >= 1 => \A o \in ops : o.in1 \in InputsOf(first)
      /\ many = 1 => \A o, p \in ops : o.in2 = p.in2 /\ ~NamedTogether(fu, o.in2)
      /\ many = 2 => /\ \A o \in ops : o.in2 \in InputsOf(second)
                     /\ \E o \in ops : o.in1 \notin InputsOf(second)
Expressible(s) ==
  /\ HasCap(input, s)
  /\ NamesIn(input, "mux") \subseteq {x[1] : x \in PairsIn(input, "csmux")}
  /\ NamesIn(input, "fu") \subseteq {x[1] : x \in PairsIn(input, "csfu")}
  /\ \A x \in PairsIn(input, "csmux") \cup PairsIn(input, "csfu") : x[2] <= 1
  /\ \A l \in LinesOf(input, "fu") : ToSet(l.operations) \subseteq KnownOperations
  /\ \A o \in OperationsIn(input, s) : o.op = "A" => InOperandOrder(o.fu)

\* A state that is entered over an edge of the graph, or by a reset, computes its
\* register transfers: both operands reach the unit in their order, the unit does the
\* operation, and the destination takes the result.
Computes(s, sel) ==
  \A o \in {p \in OperationsIn(input, s) : p.op = "A"} :
    /\ SourceOf(Units[o.fu].inputs[1], sel) = o.in1
    /\ SourceOf(Units[o.fu].inputs[2], sel) = o.in2
    /\ OperationOf(o.fu, sel) = o.operation
    /\ \E w \in writeToFromReg(tables, s) :
         w[1] = o.out /\ SourceOf(w[2], sel) = Units[o.fu].out

EnteredStatesCompute ==
  [][ LET s == PositionOf(state')[1]
          from == PositionOf(state)
      IN  /\ state' # <<>>
          /\ from # <<>> => Flow.next[from[1]] # <<>>
          /\ Expressible(s)
          => Computes(s, selects') ]_<<state, selects>>

\* Every name an instance or an assignment of the written module uses is declared, every unit
\* has a module and both of its inputs, and of the multiplexers the widths have modules.
NamesResolve ==
  Running /\ NamesGiven(input) /\ (\A fu \in ToSet(tables.fuSeqList) : InOperandOrder(fu)) =>
    LET declared == DeclaredNames(tables)
    IN  /\ \A m \in DOMAIN Muxes :
             {Muxes[m].select, Muxes[m].out} \cup ToSet(Muxes[m].inputs) \subseteq declared
        /\ \A f \in DOMAIN Units :
             /\ {Units[f].out} \cup ToSet(Units[f].inputs) \subseteq declared
             /\ OperationCodes(tables.fuList[f]) # <<>>
        /\ \A s \in DOMAIN tables.stateList :
             \A w \in CaseItem(tables, s).writes : {w[1], w[2]} \subseteq declared
        /\ {2^tables.muxList[m].bits : m \in DOMAIN Muxes} =
             {2^b : b \in tables.is_mux_in_file}
=============================================================================
