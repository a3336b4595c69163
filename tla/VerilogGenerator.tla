-------------------------- MODULE VerilogGenerator --------------------------
(***************************************************************************)
(* generateVerilog.cpp: the input file is read line by line into the       *)
(* tables, the tables are completed, and the modules are written.  What is *)
(* written is kept as operators on the tables, one per function that       *)
(* writes; module GeneratedFsm runs it.                                    *)
(***************************************************************************)
EXTENDS DatapathTables

CONSTANTS
  Files,          \* the input files: sequences of lines
  Indeterminate   \* what bits_selectLines may hold before it is stored

Sections == {"registers", "mux", "fu", "fsm", "csmux", "csfu", "cap", "rt"}

\* After line n, and without a blank line, the file is in the section of the header h.
SectionBegun(file, h, n) ==
  /\ h \in 1 .. n /\ file[h].kind = "header"
  /\ \A j \in h + 1 .. n : file[j].kind \notin {"header", "blank"}

ASSUME IndeterminateAssumption == Indeterminate \subseteq Int /\ Indeterminate # {}

\* A line that is not blank has a text.  What is in a section, up to a blank line or another
\* header, is data of the section; a state is a number, an arm a truth value and a state,
\* and a name has a part.
ASSUME FilesAssumption ==
  \A file \in Files :
    /\ Len(file) \in Nat /\ DOMAIN file = 1 .. Len(file)
    /\ \A i \in DOMAIN file :
         LET headers == {h \in DOMAIN file : SectionBegun(file, h, i - 1)}
         IN  /\ file[i].kind \in {"header", "blank", "data", "other"}
             /\ file[i].kind # "blank" => file[i].text \in Seq(STRING) \ {<<>>}
             /\ file[i].kind = "header" => file[i].section \in Sections
             /\ file[i].kind = "data" => headers # {}
             /\ file[i].kind = "other" => headers = {}
             /\ file[i].kind = "data" => \A h \in headers : file[h].section = file[i].section
    /\ \A i \in DOMAIN file :
         file[i].kind = "data" =>
           /\ file[i].section = "fsm" =>
                file[i].name \in Nat /\ file[i].arms \in Seq(BOOLEAN \X Nat)
           /\ file[i].section = "cap" => file[i].reg \in Seq({0, 1})
           /\ file[i].section = "mux" =>
                /\ file[i].name \in Seq(STRING) \ {<<>>} /\ file[i].output \in Seq(STRING)
                /\ IsList(file[i].inputs)
           /\ file[i].section = "fu" => IsList(file[i].operations)
           /\ file[i].section \in {"csmux", "csfu"} =>
                IsList(file[i].pairs) /\ \A x \in ToSet(file[i].pairs) : x[2] \in Nat

VARIABLES
  input,     \* the file, and how many of its lines have been read
  line,
  section,   \* which of the is...Enabled flags is set, or "none"
  pc,        \* "reading", "processed", "written", "exited"
  tables

generatorVars == <<input, line, section, pc, tables>>

-----------------------------------------------------------------------------
(* Reading.                                                                  *)

checkIdentifier(l) == IF l.kind = "header" THEN l.section ELSE "none"

\* A line that is not a multiplexer's gives one all the same.  Its name, its output and its one
\* input stand for the line or a part of it, and so does the code, which no digits are.
NoDigits == <<-1>>
AsMultiplexer(l) ==
  IF l.kind = "data" /\ l.section = "mux" THEN l
  ELSE [name |-> l.text, output |-> l.text, inputs |-> << <<l.text, NoDigits>> >>]

\* The header of a section that no blank line precedes is a line of the section before: the
\* multiplexers, whose section then goes on, take it; the others fail for want of a field.
parseLine(t, sec, l, bits) ==
  IF l.kind = "header" /\ sec # "mux" THEN Ended(t)
  ELSE CASE sec = "registers" -> populateRegisters(t, l)
         [] sec = "mux"       -> populateMux(t, AsMultiplexer(l), bits)
         [] sec = "fu"        -> populateFu(t, l, bits)
         [] sec = "fsm"       -> populatefSM(t, l)
         [] sec = "csmux"     -> populateBitsInMux(t, l)
         [] sec = "csfu"      -> populateBitsInFU(t, l)
         [] sec = "cap"       -> populateCAP(t, l)
         [] OTHER             -> functionUnitRegLinker(t, l)

Current == input[line + 1]

ReadingLine ==
  /\ pc = "reading"
  /\ line < Len(input)
  /\ line' = line + 1
  /\ UNCHANGED input

\* Outside a section only the headers mean anything.
IdentifySection ==
  /\ ReadingLine
  /\ section = "none"
  /\ section' = checkIdentifier(Current)
  /\ UNCHANGED <<pc, tables>>

\* A blank line ends the section.
EndSection ==
  /\ ReadingLine
  /\ section # "none" /\ Current.kind = "blank"
  /\ section' = "none"
  /\ UNCHANGED <<pc, tables>>

ParseLine ==
  /\ ReadingLine
  /\ section # "none" /\ Current.kind # "blank"
  /\ \E bits \in Indeterminate : tables' = parseLine(tables, section, Current, bits)
  /\ pc' = IF tables'.status = "ok" THEN "reading" ELSE "exited"
  /\ UNCHANGED section

-----------------------------------------------------------------------------
(* Completing the tables.                                                    *)

\* The place of a state in the order of the map.
Rank(t, s) == Cardinality({r \in DOMAIN t.stateList : r < s})

\* Mutant of populateVerilogStateRepresentations: the loop stops a bit too early.
OneBitLess(t) ==
  LET bits == Min({b \in 0 .. t.no_states : Shifted(t.no_states, b) <= 1})
  IN  [t EXCEPT !.bits_req = bits,
                !.stateList = [s \in DOMAIN @ |->
                                 [@[s] EXCEPT !.code = getBinary(Rank(t, s), bits)]]]

\* The bits of no_states, which counts the lines; the codes count the states,
\* in the order of the map.
populateVerilogStateRepresentations(t) ==
  LET bits == Min({b \in 0 .. t.no_states : Shifted(t.no_states, b) = 0})
  IN  [t EXCEPT !.bits_req = bits,
                !.stateList = [s \in DOMAIN @ |->
                                 [@[s] EXCEPT !.code = getBinary(Rank(t, s), bits)]]]

\* The places of the multiplexers in front of a unit or a register.
Feeding(t, out) == {k \in DOMAIN t.muxSeqList : t.muxList[t.muxSeqList[k]].output = out}

\* A multiplexer whose output is no unit but a register drives <register>_wire.
FeedsRegister(t, m) ==
  t.muxList[m].output \notin DOMAIN t.fuList /\ t.muxList[m].output \in DOMAIN t.registers

\* In file order, the first multiplexer in front of a unit feeds its first input, the second
\* its second; the units among the inputs of one in front of a register become their outputs.
populateMuxFuLinkNames(t) ==
  LET Wire(m) == m \o t.muxList[m].output
      WireAt(k) == Wire(t.muxSeqList[k])
      UnitWire(x) == IF x \in DOMAIN t.fuList THEN t.fuList[x].output ELSE x
      BeforeUnit(m) == [t.muxList[m] EXCEPT !.wire = Wire(m)]
      BeforeRegister(m) ==
        [t.muxList[m] EXCEPT !.wire = t.muxList[m].output \o <<"_wire">>,
                             !.input_cs = [code \in DOMAIN @ |-> UnitWire(@[code])]]
      Fed(f) ==
        LET places == Feeding(t, f)
            later == {k \in places : k > Min(places)}
        IN  [t.fuList[f] EXCEPT !.input1 = IF places = {} THEN @ ELSE WireAt(Min(places)),
                                !.input2 = IF later = {} THEN @ ELSE WireAt(Min(later))]
  IN  [t EXCEPT
         !.muxList = [m \in DOMAIN @ |-> IF FeedsRegister(t, m) THEN BeforeRegister(m) ELSE BeforeUnit(m)],
         !.fuList = [f \in DOMAIN @ |-> Fed(f)],
         !.regWireList = [r \in {t.muxList[m].output : m \in {x \in DOMAIN t.muxList : FeedsRegister(t, x)}} |->
                            r \o <<"_wire">>]]

\* Mutant of isRegMuxLinkedToFU: a multiplexer of the unit is enough.
MuxOfUnit(t, fu, reg) == \E m \in DOMAIN t.muxLinks : fu \in t.muxLinks[m]

isRegMuxLinkedToFU(t, fu, reg) == \E m \in DOMAIN t.muxLinks : {fu, reg} \subseteq t.muxLinks[m]

\* The registers of the first operation of a unit feed the inputs that no
\* multiplexer feeds; beside a multiplexer, the first that none names with the unit.
LinkUnit(t, name) ==
  LET fu  == t.fuList[name]
      reg == IF name \in DOMAIN t.regFuLinkList THEN t.regFuLinkList[name] ELSE <<<<>>, <<>>>>
      Linked(r) == isRegMuxLinkedToFU(t, name, r)
  IN  CASE fu.input1 = <<>> /\ fu.input2 = <<>> ->
             [fu EXCEPT !.input1 = reg[1], !.input2 = reg[2]]
        [] fu.input1 # <<>> /\ fu.input2 = <<>> /\ ~Linked(reg[1]) ->
             [fu EXCEPT !.input2 = reg[1]]
        [] fu.input1 # <<>> /\ fu.input2 = <<>> /\ Linked(reg[1]) /\ ~Linked(reg[2]) ->
             [fu EXCEPT !.input2 = reg[2]]
        [] OTHER -> fu

populateRegFuLinkNames(t) ==
  [t EXCEPT !.fuList = [f \in DOMAIN @ |-> IF f \in ToSet(t.fuSeqList) THEN LinkUnit(t, f) ELSE @[f]]]

PostProcess ==
  /\ pc = "reading" /\ line = Len(input)
  /\ pc' = "processed"
  /\ tables' = populateRegFuLinkNames(
                 populateMuxFuLinkNames(populateVerilogStateRepresentations(tables)))
  /\ UNCHANGED <<input, line, section>>

-----------------------------------------------------------------------------
(* Writing.                                                                  *)

\* A unit without an operation, or with a negative number of bits, ends the program.
generateFunctionModule(t) ==
  IF \E fu \in ToSet(t.fuSeqList) : t.fuList[fu].operations = <<>> \/ t.fuList[fu].bits < 0
  THEN Ended(t) ELSE t

\* The codes of the operations in the module of a unit; only those it knows count.
\* A unit without a select line has the first operation of its line.
OperationCodes(fu) ==
  LET known == {k \in DOMAIN fu.operations :
                  fu.operations[k] \in KnownOperations /\ (fu.bits = 0 => k = 1)}
      Code(k) == getBinary(Cardinality({j \in known : j < k}), fu.bits)
      First(code) == Min({k \in known : Code(k) = code})
  IN  [code \in {Code(k) : k \in known} |-> fu.operations[First(code)]]

\* The module of a multiplexer or of a unit declares `input select', one bit, and
\* compares it with labels of all the bits.
SelectPort(digits) ==
  IF digits = <<>> THEN <<>> ELSE getBinary(digits[Len(digits)], Len(digits))

\* What is assigned in a state: pairs of a destination and a source.
writeToFromReg(t, s) ==
  LET ops == {op \in ToSet(t.rtOperationsList) : op.state = s /\ op.op \in OperationTypes}
      Computed(op) == IF op.out \in DOMAIN t.regWireList THEN t.regWireList[op.out] ELSE op.wire
      Source(op) == IF op.op = "A" THEN Computed(op) ELSE op.in1
  IN  {<<op.out, Source(op)>> : op \in ops}

\* The code and the select lines of the state s that is entered.
writeStateInfo(t, s) ==
  [code |-> t.stateList[s].code,
   selects |-> Completed(t.stateList[s].mux_select, t.stateList[s].fu_select)]

\* Mutant of EnabledRegisters: the enable digits are not looked at.
AllRegisters(t, s) == DOMAIN t.regSeqList

\* The places of the registers the CAP of a state enables.
EnabledRegisters(t, s) ==
  LET enable == t.stateList[s].reg_select
  IN  {k \in DOMAIN t.regSeqList :
         t.regSeqList[k] \in DOMAIN enable /\ enable[t.regSeqList[k]] = <<1>>}

\* The register a control state tests: the first, in file order.
TestedRegister(t, s) == t.regSeqList[Min(EnabledRegisters(t, s))]

\* The item of a state in the case statement: what is assigned in it, and what is
\* entered if the tested register is zero and if not.
CaseItem(t, s) ==
  LET st == t.stateList[s]
      tested == TestedRegister(t, s)
      enabled == EnabledRegisters(t, s)
      Stay == [code |-> st.code, selects |-> <<>>]
  IN  CASE st.no_ways = 1 ->
             [writes |-> writeToFromReg(t, s), test |-> <<>>,
              zero |-> writeStateInfo(t, st.next[1]), other |-> writeStateInfo(t, st.next[1])]
        [] st.no_ways = 2 /\ enabled # {} ->
             [writes |-> writeToFromReg(t, s), test |-> tested,
              zero |-> writeStateInfo(t, st.next[2]), other |-> writeStateInfo(t, st.next[1])]
        [] st.no_ways = 2 /\ enabled = {} ->
             [writes |-> {}, test |-> <<>>, zero |-> Stay, other |-> Stay]
        [] st.no_ways = 0 ->
             LET first == [code |-> t.stateList[t.stateSeqList[1]].code, selects |-> <<>>]
             IN  [writes |-> {}, test |-> <<>>, zero |-> first, other |-> first]

\* The names the declarations of module fsm introduce.
DeclaredNames(t) ==
  {HighZ} \cup DOMAIN t.portWidth \cup ToSet(t.regSeqList)
    \cup {t.muxList[m].select : m \in DOMAIN t.muxList}
    \cup {t.fuList[f].select : f \in {g \in DOMAIN t.fuList : t.fuList[g].bits > 0}}
    \cup {t.muxList[m].wire : m \in ToSet(t.muxSeqList)}
    \cup {t.fuList[f].output : f \in ToSet(t.fuSeqList)}

instantiateMux(t) ==
  [m \in DOMAIN t.muxList |->
     LET mux == t.muxList[m]
         Input(code) == IF code \in DOMAIN mux.input_cs THEN mux.input_cs[code] ELSE <<>>
         last == IF mux.bits < 0 THEN -1 ELSE 2^mux.bits - 1
     IN  [inputs |-> [i \in 0 .. last |-> Input(getBinary(i, mux.bits))],
          select |-> mux.select, out |-> mux.wire]]

instantiateFU(t) ==
  [f \in DOMAIN t.fuList |->
     LET fu == t.fuList[f]
     IN  [out |-> fu.output, inputs |-> <<fu.input1, fu.input2>>,
          select |-> IF fu.bits > 0 THEN fu.select ELSE <<>>]]

\* The states that are entered; stateList[...] adds those that are not there.
EnteredStates(t) ==
  UNION {CASE t.stateList[s].no_ways = 1 -> ToSet(t.stateList[s].next)
           [] t.stateList[s].no_ways = 2 /\ EnabledRegisters(t, s) # {} -> ToSet(t.stateList[s].next)
           [] OTHER -> {} : s \in DOMAIN t.stateList}

EmptyState ==
  [no_ways |-> 0, next |-> <<>>, code |-> <<>>,
   mux_select |-> <<>>, reg_select |-> <<>>, fu_select |-> <<>>]

\* The reset goes to the first state, so that there must be one.
writeFSM(t) ==
  IF t.stateSeqList = <<>> THEN Ended(t)
  ELSE [t EXCEPT !.stateList = Completed(@, [s \in EnteredStates(t) |-> EmptyState])]

WriteFile ==
  /\ pc = "processed"
  /\ LET t == generateFunctionModule(tables)
     IN  tables' = IF t.status = "ok" THEN writeFSM(t) ELSE t
  /\ pc' = IF tables'.status = "ok" THEN "written" ELSE "exited"
  /\ UNCHANGED <<input, line, section>>

-----------------------------------------------------------------------------

GeneratorInit ==
  /\ input \in Files
  /\ line = 0
  /\ section = "none"
  /\ pc = "reading"
  /\ tables = EmptyTables

GeneratorNext == IdentifySection \/ EndSection \/ ParseLine \/ PostProcess \/ WriteFile
=============================================================================
