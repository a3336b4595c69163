------------------------- MODULE GeneratedFsmProofs -------------------------
(***************************************************************************)
(* Theorems about the generator and the controller it writes, for every    *)
(* set of input files.                                                     *)
(***************************************************************************)
EXTENDS GeneratedFsm, ListLemmas

-----------------------------------------------------------------------------
(***************************************************************************)
(* Binary codes.                                                           *)
(***************************************************************************)

\* K lists a number shifted 0, 1, ... N times.
ShiftsOf(K, number, N) ==
  /\ K \in [0 .. N -> Nat] /\ K[0] = number
  /\ \A c \in 1 .. N : K[c] = K[c - 1] \div 2

LEMMA ShiftedIs ==
  ASSUME NEW number \in Nat, NEW N \in Nat
  PROVE  \E K : ShiftsOf(K, number, N) /\ Shifted(number, N) = K[N]
<1> DEFINE F == [p \in (1 .. N) \X Nat |-> p[2] \div 2]
           Eq(K) == K = [c \in 0 .. N |-> IF c = 0 THEN number ELSE K[c - 1] \div 2]
           C == CHOOSE K : Eq(K)
<1>1. F \in [(1 .. N) \X Nat -> Nat] /\ \A n \in 1 .. N, x \in Nat : F[<<n, x>>] = x \div 2
  OBVIOUS
<1> HIDE DEF F
<1>2. PICK f \in [0 .. N -> Nat] : IsRecursive(f, N, number, F)
  BY <1>1, RecursionExists
<1>3. Eq(f)
  <2>1. f = [n \in 0 .. N |-> IF n = 0 THEN number ELSE F[<<n, f[n - 1]>>]]
    BY <1>2 DEF IsRecursive
  <2>2. ASSUME NEW n \in 0 .. N, n # 0 PROVE F[<<n, f[n - 1]>>] = f[n - 1] \div 2
    <3>1. n \in 1 .. N /\ n - 1 \in 0 .. N
      BY <2>2
    <3> QED BY <1>2, <1>1, <3>1
  <2> QED BY <2>1, <2>2
<1>4. Eq(C)
  BY <1>3
<1>5. Shifted(number, N) = C[N]
  BY DEF Shifted
<1> HIDE DEF C
<1>e. \A i \in 0 .. N : C[i] = IF i = 0 THEN number ELSE C[i - 1] \div 2
  BY <1>4, Zenon
<1>6. Follows(C, N, Nat, number, F)
  <2>1. C = [n \in 0 .. N |-> C[n]]
    BY <1>4
  <2>2. C[0] = number
    BY <1>e
  <2>3. ASSUME NEW n \in 1 .. N, C[n - 1] \in Nat PROVE C[n] = F[<<n, C[n - 1]>>]
    <3>1. C[n] = C[n - 1] \div 2
      BY <1>e
    <3> QED BY <1>1, <2>3, <3>1
  <2> QED BY <2>1, <2>2, <2>3 DEF Follows
<1>7. C \in [0 .. N -> Nat]
  BY <1>1, <1>6, FollowedValues
<1>8. ASSUME NEW i \in 1 .. N PROVE C[i] = C[i - 1] \div 2
  BY <1>e
<1>9. C[0] = number
  BY <1>6 DEF Follows
<1> QED BY <1>5, <1>7, <1>8, <1>9 DEF ShiftsOf

LEMMA OneShiftMore ==
  ASSUME NEW number \in Nat
  PROVE  /\ Shifted(number, 0) = number
         /\ \A n \in Nat : Shifted(number, n) \in Nat /\ Shifted(number, n + 1) = Shifted(number, n) \div 2
<1>1. Shifted(number, 0) = number
  BY ShiftedIs DEF ShiftsOf
<1>2. ASSUME NEW n \in Nat
      PROVE  Shifted(number, n) \in Nat /\ Shifted(number, n + 1) = Shifted(number, n) \div 2
  <2>1. PICK K : ShiftsOf(K, number, n) /\ Shifted(number, n) = K[n]
    BY ShiftedIs
  <2>2. PICK L : ShiftsOf(L, number, n + 1) /\ Shifted(number, n + 1) = L[n + 1]
    BY ShiftedIs
  <2> DEFINE G == {i \in Nat : i <= n => K[i] = L[i]}
  <2>3. ASSUME NEW i \in Nat, i # 0 => i - 1 \in G PROVE i \in G
    <3>1. CASE i = 0
      BY <2>1, <2>2, <3>1 DEF ShiftsOf
    <3>2. CASE i # 0 /\ i <= n
      <4>1. i \in 1 .. n /\ i \in 1 .. n + 1 /\ K[i - 1] = L[i - 1]
        BY <2>3, <3>2
      <4> QED BY <2>1, <2>2, <4>1 DEF ShiftsOf
    <3> QED BY <3>1, <3>2
  <2> HIDE DEF G
  <2>4. \A i \in Nat : i \in G
    BY <2>3, NatInductionSet
  <2>5. K[n] = L[n]
    BY <2>4 DEF G
  <2>6. L[n + 1] = L[n] \div 2 /\ K[n] \in Nat
    BY <2>1, <2>2 DEF ShiftsOf
  <2> QED BY <2>1, <2>2, <2>5, <2>6
<1> QED BY <1>1, <1>2

\* Shifting keeps the order, and shifts a number as often as it says to 0.
LEMMA ShiftsFall ==
  /\ \A a, b, n \in Nat : a <= b => Shifted(a, n) <= Shifted(b, n)
  /\ \A a \in Nat : Shifted(a, a) = 0
<1>1. ASSUME NEW a \in Nat, NEW b \in Nat, a <= b PROVE \A n \in Nat : Shifted(a, n) <= Shifted(b, n)
  <2> DEFINE G == {n \in Nat : Shifted(a, n) <= Shifted(b, n)}
  <2>1. ASSUME NEW n \in Nat, n # 0 => n - 1 \in G PROVE n \in G
    <3>1. CASE n = 0
      BY <1>1, <3>1, OneShiftMore
    <3>2. CASE n # 0
      <4>1. PICK m \in Nat : n = m + 1 /\ m \in G
        <5>1. n - 1 \in Nat /\ n = (n - 1) + 1
          BY <3>2
        <5> QED BY <2>1, <3>2, <5>1
      <4>2. /\ Shifted(a, n) = Shifted(a, m) \div 2 /\ Shifted(b, n) = Shifted(b, m) \div 2
            /\ Shifted(a, m) \in Nat /\ Shifted(b, m) \in Nat /\ Shifted(a, m) <= Shifted(b, m)
        BY <4>1, OneShiftMore
      <4>3. \A x, y \in Nat : x <= y => x \div 2 <= y \div 2
        OBVIOUS
      <4> QED BY <4>2, <4>3
    <3> QED BY <3>1, <3>2
  <2> HIDE DEF G
  <2>2. \A n \in Nat : n \in G
    BY <2>1, NatInductionSet
  <2> QED BY <2>2 DEF G
<1>2. ASSUME NEW a \in Nat PROVE Shifted(a, a) = 0
  <2> DEFINE G == {n \in Nat : n <= a => Shifted(a, n) + n <= a}
  <2>1. ASSUME NEW n \in Nat, n # 0 => n - 1 \in G PROVE n \in G
    <3>1. CASE n = 0
      BY <3>1, OneShiftMore
    <3>2. CASE n # 0 /\ n <= a
      <4>1. PICK m \in Nat : n = m + 1 /\ m \in G /\ m <= a
        <5>1. n - 1 \in Nat /\ n = (n - 1) + 1 /\ n - 1 <= a
          BY <3>2
        <5> QED BY <2>1, <3>2, <5>1
      <4>2. Shifted(a, n) = Shifted(a, m) \div 2 /\ Shifted(a, m) \in Nat /\ Shifted(a, m) + m <= a
        BY <4>1, OneShiftMore
      <4>3. \A x \in Nat : x \div 2 \in Nat /\ (x = 0 => x \div 2 = 0) /\ (x # 0 => x \div 2 <= x - 1)
        OBVIOUS
      <4>4. CASE Shifted(a, m) = 0
        BY <3>2, <4>1, <4>2, <4>3, <4>4
      <4>5. CASE Shifted(a, m) # 0
        <5>1. Shifted(a, n) \in Nat /\ Shifted(a, n) <= Shifted(a, m) - 1
          BY <4>2, <4>3, <4>5
        <5> QED BY <4>1, <4>2, <5>1
      <4> QED BY <4>4, <4>5
    <3> QED BY <3>1, <3>2
  <2> HIDE DEF G
  <2>2. a \in G
    BY <2>1, NatInductionSet
  <2>3. Shifted(a, a) \in Nat /\ Shifted(a, a) + a <= a
    BY <2>2, OneShiftMore DEF G
  <2> QED BY <2>3
<1> QED BY <1>1, <1>2

\* The digits of numbers that the bits suffice for tell them apart.
LEMMA CodesDiffer ==
  ASSUME NEW a \in Nat, NEW b \in Nat, NEW bits \in Nat,
         Shifted(a, bits) = 0, Shifted(b, bits) = 0, getBinary(a, bits) = getBinary(b, bits)
  PROVE  a = b
<1>1. ASSUME NEW c \in 0 .. bits - 1 PROVE Shifted(a, c) % 2 = Shifted(b, c) % 2
  <2> DEFINE i == bits - c
  <2>1. i \in 1 .. bits /\ bits - i = c
    OBVIOUS
  <2>2. getBinary(a, bits)[i] = Shifted(a, bits - i) % 2 /\ getBinary(b, bits)[i] = Shifted(b, bits - i) % 2
    BY <2>1 DEF getBinary
  <2> HIDE DEF i
  <2> QED BY <2>1, <2>2
<1> DEFINE G == {n \in Nat : n <= bits => Shifted(a, bits - n) = Shifted(b, bits - n)}
<1>2. ASSUME NEW n \in Nat, n # 0 => n - 1 \in G PROVE n \in G
  <2>1. CASE n = 0
    BY <2>1
  <2>2. CASE n # 0 /\ n <= bits
    <3>1. PICK c \in 0 .. bits - 1 : c = bits - n
      BY <2>2
    <3>2. c \in Nat /\ c + 1 = bits - (n - 1) /\ n - 1 \in Nat /\ n - 1 <= bits
      BY <2>2, <3>1
    <3>3. Shifted(a, c + 1) = Shifted(b, c + 1)
      BY <1>2, <2>2, <3>2
    <3>4. Shifted(a, c) % 2 = Shifted(b, c) % 2
      BY <1>1
    <3>5. /\ Shifted(a, c) \in Nat /\ Shifted(b, c) \in Nat
          /\ Shifted(a, c) \div 2 = Shifted(b, c) \div 2
      <4>1. c \in Nat
        OBVIOUS
      <4>2. Shifted(a, c + 1) = Shifted(a, c) \div 2 /\ Shifted(b, c + 1) = Shifted(b, c) \div 2
            /\ Shifted(a, c) \in Nat /\ Shifted(b, c) \in Nat
        BY <4>1, OneShiftMore
      <4> QED BY <3>3, <4>2
    <3>6. \A x, y \in Nat : x \div 2 = y \div 2 /\ x % 2 = y % 2 => x = y
      OBVIOUS
    <3> QED BY <3>1, <3>4, <3>5, <3>6
  <2> QED BY <2>1, <2>2
<1> HIDE DEF G
<1>3. bits \in G
  BY <1>2, NatInductionSet
<1>4. Shifted(a, 0) = Shifted(b, 0)
  BY <1>3 DEF G
<1> QED BY <1>4, OneShiftMore

LEMMA BitsSuffice ==
  ASSUME NEW n \in Nat
  PROVE  LET bits == Min({b \in 0 .. n : Shifted(n, b) = 0})
         IN  bits \in Nat /\ \A a \in Nat : a <= n => Shifted(a, bits) = 0
<1> DEFINE S == {b \in 0 .. n : Shifted(n, b) = 0}
           bits == Min(S)
<1>1. S \subseteq Nat /\ S # {}
  BY ShiftsFall
<1>2. bits \in S
  BY <1>1, LeastNat
<1>3. bits \in Nat /\ Shifted(n, bits) = 0
  BY <1>2
<1> HIDE DEF bits
<1>4. ASSUME NEW a \in Nat, a <= n PROVE Shifted(a, bits) = 0
  <2>1. Shifted(a, bits) <= Shifted(n, bits) /\ Shifted(a, bits) \in Nat
    BY <1>3, <1>4, ShiftsFall, OneShiftMore
  <2> QED BY <1>3, <2>1
<1>5. bits \in Nat /\ \A a \in Nat : a <= n => Shifted(a, bits) = 0
  BY <1>3, <1>4
<1> QED BY <1>5 DEF bits

-----------------------------------------------------------------------------
(***************************************************************************)
(* The states.                                                             *)
(***************************************************************************)

\* The states are numbered in their order, from 0.
LEMMA RanksDiffer ==
  ASSUME NEW t, DOMAIN t.stateList \subseteq Nat, IsFiniteSet(DOMAIN t.stateList)
  PROVE  /\ \A s \in DOMAIN t.stateList :
              Rank(t, s) \in Nat /\ Rank(t, s) < Cardinality(DOMAIN t.stateList)
         /\ \A s, r \in DOMAIN t.stateList : Rank(t, s) = Rank(t, r) => s = r
<1> DEFINE D == DOMAIN t.stateList
           Below(s) == {r \in D : r < s}
<1>0. D \subseteq Nat /\ IsFiniteSet(D) /\ \A s : Rank(t, s) = Cardinality(Below(s))
  BY DEF Rank
<1> HIDE DEF D
<1>1. ASSUME NEW s \in D PROVE IsFiniteSet(Below(s)) /\ Cardinality(Below(s)) \in Nat
  <2>1. Below(s) \subseteq D
    OBVIOUS
  <2> QED BY <1>0, <2>1, FS_Subset, FS_CardinalityType
<1>2. ASSUME NEW s \in D, NEW S, S \subseteq D, Below(s) \subseteq S, s \in S
      PROVE  Cardinality(Below(s)) < Cardinality(S)
  <2>1. s \notin Below(s)
    <3>1. s \in Nat
      BY <1>0
    <3> QED BY <3>1
  <2>2. IsFiniteSet(S)
    BY <1>0, <1>2, FS_Subset
  <2>3. Below(s) # S
    BY <1>2, <2>1
  <2> HIDE DEF Below
  <2>4. Cardinality(Below(s)) <= Cardinality(S) /\ Cardinality(Below(s)) # Cardinality(S)
    BY <1>2, <2>2, <2>3, FS_Subset
  <2>5. Cardinality(Below(s)) \in Nat /\ Cardinality(S) \in Nat
    BY <1>1, <2>2, FS_CardinalityType
  <2> QED BY <2>4, <2>5
<1>3. ASSUME NEW s \in D PROVE Cardinality(Below(s)) < Cardinality(D)
  <2>1. Below(s) \subseteq D
    OBVIOUS
  <2> QED BY <1>2, <2>1
<1>4. ASSUME NEW s \in D, NEW r \in D, s < r PROVE Cardinality(Below(s)) < Cardinality(Below(r))
  <2>0. \A x \in D : x < s => x < r
    BY <1>0, <1>4
  <2>1. Below(s) \subseteq Below(r) /\ s \in Below(r) /\ Below(r) \subseteq D
    BY <1>4, <2>0
  <2> HIDE DEF Below
  <2> QED BY <1>2, <2>1
<1>5. ASSUME NEW s \in D, NEW r \in D, Cardinality(Below(s)) = Cardinality(Below(r)) PROVE s = r
  <2>1. s \in Nat /\ r \in Nat
    BY <1>0
  <2>2. ~(s < r) /\ ~(r < s)
    <3> HIDE DEF Below
    <3> QED BY <1>1, <1>4, <1>5
  <2> QED BY <2>1, <2>2
<1> HIDE DEF Below
<1> QED BY <1>0, <1>1, <1>3, <1>5 DEF D

\* The tables of the states: a name has a line, so there are as many lines as names at
\* least, and a state is a structure of the code.
StatesOK(t) ==
  /\ DOMAIN t = DOMAIN EmptyTables
  /\ IsList(t.stateSeqList) /\ DOMAIN t.stateList = ToSet(t.stateSeqList)
  /\ DOMAIN t.stateList \subseteq Nat /\ IsFiniteSet(DOMAIN t.stateList)
  /\ t.no_states \in Nat /\ Cardinality(DOMAIN t.stateList) <= t.no_states
  /\ \A s \in DOMAIN t.stateList :
       {"no_ways", "next", "code", "reg_select"} \subseteq DOMAIN t.stateList[s]

\* The fields of a table.
LEMMA TableFields ==
  {"stateList", "stateSeqList", "no_states", "bits_req", "status", "registers", "regSeqList",
   "rtOperationsList", "regFuLinkList", "portWidth", "muxList", "muxSeqList", "muxLinks",
   "mux_count", "is_mux_in_file", "fuList", "fuSeqList", "regWireList"}
    \subseteq DOMAIN EmptyTables
BY DEF EmptyTables

-----------------------------------------------------------------------------
(***************************************************************************)
(* Lists, and the lines of a section that have been read.                  *)
(***************************************************************************)

LEMMA EmptyList == IsList(<<>>) /\ Len(<<>>) = 0 /\ ToSet(<<>>) = {} /\ DOMAIN <<>> = {}
BY DEF IsList, ToSet

LEMMA ListAppended ==
  ASSUME NEW s, IsList(s), NEW e
  PROVE  LET a == Append(s, e)
         IN  /\ IsList(a) /\ Len(s) \in Nat /\ Len(a) = Len(s) + 1
             /\ DOMAIN s = 1 .. Len(s) /\ DOMAIN a = 1 .. Len(s) + 1
             /\ ToSet(a) = ToSet(s) \cup {e}
             /\ \A i \in 1 .. Len(s) : a[i] = s[i]
             /\ a[Len(s) + 1] = e
<1> DEFINE S == ToSet(s) \cup {e}
           a == Append(s, e)
<1>1. s \in Seq(S)
  <2>1. s \in Seq(ToSet(s)) /\ ToSet(s) \subseteq S
    BY DEF IsList
  <2> HIDE DEF S
  <2> QED BY <2>1, SeqMonotonic
<1>2. /\ a \in Seq(S) /\ Len(a) = Len(s) + 1 /\ a[Len(s) + 1] = e
      /\ \A i \in 1 .. Len(s) : a[i] = s[i]
  <2>1. e \in S
    OBVIOUS
  <2> HIDE DEF S
  <2> QED BY <1>1, <2>1, AppendProperties
<1> HIDE DEF a
<1>3. Len(s) \in Nat /\ DOMAIN s = 1 .. Len(s) /\ DOMAIN a = 1 .. Len(s) + 1
  <2> HIDE DEF S
  <2> QED BY <1>1, <1>2, LenProperties
<1>4. ToSet(s) = {s[i] : i \in 1 .. Len(s)} /\ ToSet(a) = {a[i] : i \in 1 .. Len(s) + 1}
  BY <1>3 DEF ToSet
<1>5. ToSet(a) = S
  <2>1. \A i \in 1 .. Len(s) + 1 : i \in 1 .. Len(s) \/ i = Len(s) + 1
    BY <1>3
  <2>2. \A i \in 1 .. Len(s) : i \in 1 .. Len(s) + 1
    BY <1>3
  <2>3. Len(s) + 1 \in 1 .. Len(s) + 1
    BY <1>3
  <2>4. ASSUME NEW x \in ToSet(a) PROVE x \in S
    BY <1>2, <1>4, <2>1
  <2>5. ASSUME NEW x \in ToSet(s) PROVE x \in ToSet(a)
    BY <1>2, <1>4, <2>2
  <2>6. e \in ToSet(a)
    BY <1>2, <1>4, <2>3
  <2> QED BY <2>4, <2>5, <2>6
<1>6. IsList(a)
  BY <1>2, <1>5 DEF IsList
<1> QED BY <1>2, <1>3, <1>5, <1>6 DEF a

\* The places of the data of a section among the first n lines.
Before(file, sec, n) == {i \in Places(file, sec) : i <= n}

LEMMA PlacesAre ==
  ASSUME NEW file \in Files
  PROVE  /\ \A sec : \A i \in Places(file, sec) :
              i \in Nat /\ 1 <= i /\ i <= Len(file) /\ file[i].section = sec /\ file[i].kind = "data"
         /\ \A i \in Places(file, "fsm") :
              file[i].name \in Nat /\ file[i].arms \in Seq(BOOLEAN \X Nat)
         /\ \A i \in Places(file, "cap") : file[i].reg \in Seq({0, 1})
<1>1. Len(file) \in Nat /\ DOMAIN file = 1 .. Len(file)
  BY FilesAssumption
<1> QED BY <1>1, FilesAssumption DEF Places

LEMMA BeforeFinite ==
  ASSUME NEW file \in Files, NEW sec, NEW n
  PROVE  /\ IsFiniteSet(Before(file, sec, n)) /\ Cardinality(Before(file, sec, n)) \in Nat
         /\ Before(file, sec, 0) = {} /\ Before(file, sec, Len(file)) = Places(file, sec)
         /\ Cardinality(Before(file, sec, 0)) = 0
<1>1. Before(file, sec, n) \subseteq 1 .. Len(file)
  BY PlacesAre, FilesAssumption DEF Before
<1>2. IsFiniteSet(1 .. Len(file))
  BY FilesAssumption, FS_Interval
<1>3. Before(file, sec, 0) = {} /\ Before(file, sec, Len(file)) = Places(file, sec)
  BY PlacesAre, FilesAssumption DEF Before
<1>4. Cardinality({}) = 0
  BY FS_EmptySet
<1> QED BY <1>1, <1>2, <1>3, <1>4, FS_Subset, FS_CardinalityType

LEMMA BeforeNext ==
  ASSUME NEW file \in Files, NEW n \in Nat, NEW sec
  PROVE  /\ n + 1 \in Places(file, sec) =>
              /\ Before(file, sec, n + 1) = Before(file, sec, n) \cup {n + 1}
              /\ n + 1 \notin Before(file, sec, n)
              /\ Cardinality(Before(file, sec, n + 1)) = Cardinality(Before(file, sec, n)) + 1
         /\ n + 1 \notin Places(file, sec) => Before(file, sec, n + 1) = Before(file, sec, n)
<1>1. \A i \in Places(file, sec) : i \in Nat
  BY PlacesAre
<1>2. \A i \in Nat : (i <= n + 1 <=> (i <= n \/ i = n + 1)) /\ ~(n + 1 <= n)
  OBVIOUS
<1>3. n + 1 \in Places(file, sec) =>
        /\ Before(file, sec, n + 1) = Before(file, sec, n) \cup {n + 1}
        /\ n + 1 \notin Before(file, sec, n)
  BY <1>1, <1>2 DEF Before
<1>4. n + 1 \notin Places(file, sec) => Before(file, sec, n + 1) = Before(file, sec, n)
  BY <1>1, <1>2 DEF Before
<1> QED BY <1>3, <1>4, BeforeFinite, FS_AddElement

-----------------------------------------------------------------------------
(***************************************************************************)
(* What has been read.                                                     *)
(***************************************************************************)

\* The states of the lines so far, each as its first line says.
StatesRead(file, t, n) ==
  /\ DOMAIN t.stateList = {file[i].name : i \in Before(file, "fsm", n)}
  /\ \A s \in DOMAIN t.stateList :
       LET l == FlowLine(file, s)
       IN  /\ l.ways \in 0 .. 2
           /\ t.stateList[s].no_ways = l.ways /\ t.stateList[s].next = Successors(l)
  /\ IsList(t.stateSeqList)
  /\ Len(t.stateSeqList) = 0 <=> Before(file, "fsm", n) = {}
  /\ Before(file, "fsm", n) # {} => t.stateSeqList[1] = file[Min(Places(file, "fsm"))].name

\* The registers in the order of their lines.
RegistersRead(file, t, n) ==
  /\ IsList(t.regSeqList)
  /\ Len(t.regSeqList) = Cardinality(Before(file, "registers", n))
  /\ \A k \in DOMAIN t.regSeqList :
       \E i \in Before(file, "registers", n) :
         file[i].name = t.regSeqList[k] /\ Cardinality(Before(file, "registers", i)) = k

\* When the destinations are assigned.
Recorded(t) == {op \in ToSet(t.rtOperationsList) : op.op \in OperationTypes}
OperationsBefore(file, n) == {i \in Before(file, "rt", n) : file[i].op \in OperationTypes}
TransfersRead(file, t, n) ==
  /\ IsList(t.rtOperationsList)
  /\ {<<op.state, op.out>> : op \in Recorded(t)} =
       {<<file[i].block * 10 + file[i].timestep, file[i].out>> : i \in OperationsBefore(file, n)}

\* A CAP line of the file enables the register in the state.
Enabled(file, s, r) ==
  \E l \in LinesOf(file, "cap"), i \in Places(file, "registers") :
    l.state = s /\ RegisterDigit(file, l, i) = 1 /\ file[i].name = r

EnablesRead(file, t) ==
  \A s \in DOMAIN t.stateList : \A r \in DOMAIN t.stateList[s].reg_select :
    t.stateList[s].reg_select[r] = << 1 >> => Enabled(file, s, r)

TablesRead(file, t, n) ==
  /\ StatesOK(t) /\ StatesRead(file, t, n) /\ EnablesRead(file, t)
  /\ RegistersRead(file, t, n) /\ TransfersRead(file, t, n)

\* What a line of another section leaves alone.
LEMMA OtherTables ==
  ASSUME NEW file \in Files, NEW n \in Nat, NEW sec, n + 1 \in Places(file, sec),
         NEW t, NEW u, TablesRead(file, t, n), DOMAIN u = DOMAIN t
  PROVE  /\ sec # "fsm" /\ u.stateList = t.stateList /\ u.stateSeqList = t.stateSeqList
              /\ u.no_states = t.no_states
            => StatesOK(u) /\ StatesRead(file, u, n + 1) /\ EnablesRead(file, u)
         /\ sec # "registers" /\ u.regSeqList = t.regSeqList => RegistersRead(file, u, n + 1)
         /\ sec # "rt" /\ u.rtOperationsList = t.rtOperationsList => TransfersRead(file, u, n + 1)
<1>1. ASSUME NEW other, other # sec PROVE Before(file, other, n + 1) = Before(file, other, n)
  <2>1. n + 1 \notin Places(file, other)
    BY <1>1 DEF Places
  <2> QED BY <2>1, BeforeNext
<1>2. ASSUME sec # "fsm", u.stateList = t.stateList, u.stateSeqList = t.stateSeqList,
             u.no_states = t.no_states
      PROVE  StatesOK(u) /\ StatesRead(file, u, n + 1) /\ EnablesRead(file, u)
  <2>1. StatesOK(u)
    BY <1>2 DEF TablesRead, StatesOK
  <2>2. EnablesRead(file, u)
    BY <1>2 DEF TablesRead, EnablesRead
  <2>3. StatesRead(file, u, n + 1)
    BY <1>1, <1>2 DEF TablesRead, StatesRead
  <2> QED BY <2>1, <2>2, <2>3
<1>3. ASSUME sec # "registers", u.regSeqList = t.regSeqList PROVE RegistersRead(file, u, n + 1)
  BY <1>1, <1>3 DEF TablesRead, RegistersRead
<1>4. ASSUME sec # "rt", u.rtOperationsList = t.rtOperationsList PROVE TransfersRead(file, u, n + 1)
  BY <1>1, <1>4 DEF TablesRead, TransfersRead, Recorded, OperationsBefore
<1> QED BY <1>2, <1>3, <1>4

-----------------------------------------------------------------------------
(***************************************************************************)
(* One line of each section.                                               *)
(***************************************************************************)

LEMMA RegisterLineRead ==
  ASSUME NEW file \in Files, NEW n \in Nat, n + 1 \in Places(file, "registers"),
         NEW t, TablesRead(file, t, n)
  PROVE  TablesRead(file, populateRegisters(t, file[n + 1]), n + 1)
<1> DEFINE l == file[n + 1]
           u == populateRegisters(t, l)
           B(i) == Before(file, "registers", i)
<1>1. /\ DOMAIN u = DOMAIN t /\ u.stateList = t.stateList /\ u.stateSeqList = t.stateSeqList
      /\ u.no_states = t.no_states /\ u.rtOperationsList = t.rtOperationsList
      /\ u.regSeqList = Append(t.regSeqList, l.name)
  BY TableFields DEF populateRegisters, TablesRead, StatesOK
<1> HIDE DEF u
<1>2. StatesOK(u) /\ StatesRead(file, u, n + 1) /\ EnablesRead(file, u) /\ TransfersRead(file, u, n + 1)
  BY <1>1, OtherTables
<1>3. /\ B(n + 1) = B(n) \cup {n + 1}
      /\ Cardinality(B(n + 1)) = Cardinality(B(n)) + 1 /\ Cardinality(B(n)) \in Nat
  BY BeforeNext, BeforeFinite
<1>4. RegistersRead(file, u, n + 1)
  <2>1. /\ IsList(t.regSeqList) /\ Len(t.regSeqList) = Cardinality(B(n))
        /\ \A k \in DOMAIN t.regSeqList :
             \E i \in B(n) : file[i].name = t.regSeqList[k] /\ Cardinality(B(i)) = k
    BY DEF TablesRead, RegistersRead
  <2> HIDE DEF B, l
  <2>2. /\ IsList(u.regSeqList) /\ Len(u.regSeqList) = Len(t.regSeqList) + 1
        /\ DOMAIN t.regSeqList = 1 .. Len(t.regSeqList)
        /\ DOMAIN u.regSeqList = 1 .. Len(t.regSeqList) + 1
        /\ \A i \in 1 .. Len(t.regSeqList) : u.regSeqList[i] = t.regSeqList[i]
        /\ u.regSeqList[Len(t.regSeqList) + 1] = l.name
    BY <1>1, <2>1, ListAppended
  <2>3. ASSUME NEW k \in DOMAIN u.regSeqList
        PROVE  \E i \in B(n + 1) : file[i].name = u.regSeqList[k] /\ Cardinality(B(i)) = k
    <3>1. k \in 1 .. Len(t.regSeqList) \/ k = Len(t.regSeqList) + 1
      BY <1>3, <2>1, <2>2
    <3>2. CASE k \in 1 .. Len(t.regSeqList)
      BY <1>3, <2>1, <2>2, <3>2
    <3>3. CASE k = Len(t.regSeqList) + 1
      BY <1>3, <2>1, <2>2, <3>3 DEF l
    <3> QED BY <3>1, <3>2, <3>3
  <2> QED BY <1>3, <2>1, <2>2, <2>3 DEF RegistersRead, B
<1> QED BY <1>2, <1>4 DEF TablesRead, u

\* The states, the registers and the transfers are as they were.
KeepsController(t, u) ==
  /\ DOMAIN u = DOMAIN t /\ u.stateList = t.stateList /\ u.stateSeqList = t.stateSeqList
  /\ u.no_states = t.no_states /\ u.regSeqList = t.regSeqList
  /\ u.rtOperationsList = t.rtOperationsList

\* Lines that touch other tables only.
LEMMA StructureLineKeeps ==
  ASSUME NEW t, DOMAIN t = DOMAIN EmptyTables, NEW l, NEW bits
  PROVE  /\ KeepsController(t, populateMux(t, l, bits))
         /\ KeepsController(t, populateFu(t, l, bits))
         /\ KeepsController(t, populateBitsInMux(t, l))
         /\ KeepsController(t, populateBitsInFU(t, l))
<1>1. KeepsController(t, populateMux(t, l, bits))
  BY TableFields DEF populateMux, KeepsController
<1>2. KeepsController(t, populateFu(t, l, bits))
  BY TableFields DEF populateFu, KeepsController
<1>3. KeepsController(t, populateBitsInMux(t, l))
  BY TableFields DEF populateBitsInMux, Ended, KeepsController
<1>4. KeepsController(t, populateBitsInFU(t, l))
  BY TableFields DEF populateBitsInFU, Ended, KeepsController
<1> QED BY <1>1, <1>2, <1>3, <1>4

LEMMA StructureLineRead ==
  ASSUME NEW file \in Files, NEW n \in Nat, NEW sec \in {"mux", "fu", "csmux", "csfu"},
         n + 1 \in Places(file, sec), NEW t, TablesRead(file, t, n), NEW u, KeepsController(t, u)
  PROVE  TablesRead(file, u, n + 1)
BY OtherTables DEF TablesRead, KeepsController

LEMMA SuccessorsAgree ==
  ASSUME NEW l, WellFormed(l), l.arms \in Seq(BOOLEAN \X Nat)
  PROVE  /\ l.ways \in 0 .. 2
         /\ Successors(l) = CASE l.ways = 0 -> <<>>
                              [] l.ways = 1 -> <<l.arms[1][2]>>
                              [] OTHER -> IF l.arms[1][1] THEN <<l.arms[1][2], l.arms[2][2]>>
                                                          ELSE <<l.arms[2][2], l.arms[1][2]>>
<1>1. l.ways \in 0 .. 2
  BY DEF WellFormed
<1>2. CASE l.ways = 2
  <2>0. l.ways # 0 /\ l.ways # 1
    BY <1>2
  <2>1. Len(l.arms) = 2 /\ l.arms[1][1] # l.arms[2][1]
    BY <1>2 DEF WellFormed
  <2>2. PICK a, b : a = l.arms[1] /\ b = l.arms[2]
    OBVIOUS
  <2>3. DOMAIN l.arms = 1 .. 2
    BY <2>1, LenProperties
  <2>4. a \in BOOLEAN \X Nat /\ b \in BOOLEAN \X Nat
    BY <2>1, <2>2, ElementOfSeq
  <2>5. ToSet(l.arms) = {a, b}
    BY <2>2, <2>3 DEF ToSet
  <2>6. a[1] \in BOOLEAN /\ b[1] \in BOOLEAN /\ a[1] # b[1]
    BY <2>1, <2>2, <2>4
  <2>7. CASE a[1] = TRUE
    <3>1. b[1] = FALSE
      BY <2>6, <2>7
    <3>2. (CHOOSE x \in {a, b} : x[1] = TRUE) = a /\ (CHOOSE x \in {a, b} : x[1] = FALSE) = b
      BY <2>6, <2>7, <3>1, Zenon
    <3>3. ArmOf(l, TRUE) = a[2] /\ ArmOf(l, FALSE) = b[2]
      BY <2>5, <3>2, Zenon DEF ArmOf
    <3>4. Successors(l) = <<a[2], b[2]>>
      BY <1>2, <2>0, <3>3, Zenon DEF Successors
    <3> QED BY <1>2, <2>2, <2>7, <3>4
  <2>8. CASE a[1] = FALSE
    <3>1. b[1] = TRUE
      BY <2>6, <2>8
    <3>2. (CHOOSE x \in {a, b} : x[1] = TRUE) = b /\ (CHOOSE x \in {a, b} : x[1] = FALSE) = a
      BY <2>6, <2>8, <3>1, Zenon
    <3>3. ArmOf(l, TRUE) = b[2] /\ ArmOf(l, FALSE) = a[2]
      BY <2>5, <3>2, Zenon DEF ArmOf
    <3>4. Successors(l) = <<b[2], a[2]>>
      BY <1>2, <2>0, <3>3, Zenon DEF Successors
    <3> QED BY <1>2, <2>2, <2>8, <3>4
  <2> QED BY <2>6, <2>7, <2>8
<1>3. CASE l.ways # 2
  BY <1>1, <1>3 DEF Successors
<1> QED BY <1>1, <1>2, <1>3

LEMMA StateLineKeeps ==
  ASSUME NEW file \in Files, NEW n \in Nat, n + 1 \in Places(file, "fsm"),
         NEW t, StatesOK(t), WellFormed(file[n + 1])
  PROVE  StatesOK(populatefSM(t, file[n + 1]))
<1> DEFINE l == file[n + 1]
           next == CASE l.ways = 0 -> <<>>
                     [] l.ways = 1 -> <<l.arms[1][2]>>
                     [] OTHER -> IF l.arms[1][1] THEN <<l.arms[1][2], l.arms[2][2]>>
                                                 ELSE <<l.arms[2][2], l.arms[1][2]>>
           new == [no_ways |-> l.ways, next |-> next, code |-> <<>>,
                   mux_select |-> <<>>, reg_select |-> <<>>, fu_select |-> <<>>]
           u == populatefSM(t, l)
           D == DOMAIN t.stateList
<1>1. u = [t EXCEPT !.no_states = @ + 1, !.stateList = Insert(@, l.name, new),
                    !.stateSeqList = Append(@, l.name)]
  BY DEF populatefSM
<1>2. /\ l.name \in Nat /\ l.ways \in 0 .. 2 /\ next = Successors(l)
  BY PlacesAre, SuccessorsAgree
<1>3. /\ {"no_ways", "next", "code", "reg_select"} \subseteq DOMAIN new
      /\ new.no_ways = l.ways /\ new.next = Successors(l) /\ DOMAIN new.reg_select = {}
  <2> HIDE DEF l, next
  <2> QED BY <1>2
<1> HIDE DEF new, u
<1>4. /\ DOMAIN u = DOMAIN t /\ u.no_states = t.no_states + 1
      /\ u.stateList = Insert(t.stateList, l.name, new)
      /\ u.stateSeqList = Append(t.stateSeqList, l.name)
      /\ u.regSeqList = t.regSeqList /\ u.rtOperationsList = t.rtOperationsList
  BY <1>1, TableFields DEF StatesOK
<1>5. /\ DOMAIN u.stateList = D \cup {l.name}
      /\ \A s \in D : u.stateList[s] = t.stateList[s]
      /\ l.name \notin D => u.stateList[l.name] = new
  BY <1>4 DEF Insert
<1> HIDE DEF l
<1>6. StatesOK(u)
  <2>1. IsFiniteSet(D) /\ Cardinality(D) \in Nat /\ Cardinality(D) <= t.no_states /\ t.no_states \in Nat
    BY FS_CardinalityType DEF StatesOK
  <2>2. /\ IsFiniteSet(D \cup {l.name})
        /\ Cardinality(D \cup {l.name}) = IF l.name \in D THEN Cardinality(D) ELSE Cardinality(D) + 1
    BY <2>1, FS_AddElement
  <2>3. Cardinality(D \cup {l.name}) <= t.no_states + 1
    BY <2>1, <2>2
  <2>4. D \subseteq Nat /\ DOMAIN t = DOMAIN EmptyTables
        /\ \A s \in D : {"no_ways", "next", "code", "reg_select"} \subseteq DOMAIN t.stateList[s]
    BY DEF StatesOK
  <2>a. /\ IsList(t.stateSeqList) /\ D = ToSet(t.stateSeqList)
        /\ IsList(u.stateSeqList) /\ ToSet(u.stateSeqList) = ToSet(t.stateSeqList) \cup {l.name}
    BY <1>4, ListAppended DEF StatesOK
  <2> HIDE DEF D
  <2>b. IsList(u.stateSeqList) /\ DOMAIN u.stateList = ToSet(u.stateSeqList)
    BY <1>5, <2>a
  <2>5. /\ DOMAIN u = DOMAIN EmptyTables /\ u.no_states \in Nat
        /\ DOMAIN u.stateList \subseteq Nat /\ IsFiniteSet(DOMAIN u.stateList)
        /\ Cardinality(DOMAIN u.stateList) <= u.no_states
    BY <1>2, <1>4, <1>5, <2>1, <2>2, <2>3, <2>4
  <2>6. ASSUME NEW s \in DOMAIN u.stateList
        PROVE  {"no_ways", "next", "code", "reg_select"} \subseteq DOMAIN u.stateList[s]
    <3>1. CASE s \in D
      BY <1>5, <2>4, <3>1
    <3>2. CASE s \notin D
      <4>1. u.stateList[s] = new
        BY <1>5, <3>2
      <4> QED BY <1>3, <4>1
    <3> QED BY <3>1, <3>2
  <2> QED BY <2>b, <2>5, <2>6 DEF StatesOK
<1> QED BY <1>6 DEF u, l

LEMMA StateLineRead ==
  ASSUME NEW file \in Files, NEW n \in Nat, n + 1 \in Places(file, "fsm"),
         NEW t, TablesRead(file, t, n), WellFormed(file[n + 1])
  PROVE  TablesRead(file, populatefSM(t, file[n + 1]), n + 1)
<1> DEFINE l == file[n + 1]
           next == CASE l.ways = 0 -> <<>>
                     [] l.ways = 1 -> <<l.arms[1][2]>>
                     [] OTHER -> IF l.arms[1][1] THEN <<l.arms[1][2], l.arms[2][2]>>
                                                 ELSE <<l.arms[2][2], l.arms[1][2]>>
           new == [no_ways |-> l.ways, next |-> next, code |-> <<>>,
                   mux_select |-> <<>>, reg_select |-> <<>>, fu_select |-> <<>>]
           u == populatefSM(t, l)
           D == DOMAIN t.stateList
           B(i) == Before(file, "fsm", i)
           P == Places(file, "fsm")
<1>1. u = [t EXCEPT !.no_states = @ + 1, !.stateList = Insert(@, l.name, new),
                    !.stateSeqList = Append(@, l.name)]
  BY DEF populatefSM
<1>2. /\ l.name \in Nat /\ l.ways \in 0 .. 2 /\ next = Successors(l)
  BY PlacesAre, SuccessorsAgree
<1>3. /\ {"no_ways", "next", "code", "reg_select"} \subseteq DOMAIN new
      /\ new.no_ways = l.ways /\ new.next = Successors(l) /\ DOMAIN new.reg_select = {}
  <2> HIDE DEF l, next
  <2> QED BY <1>2
<1> HIDE DEF new, u
<1>4. /\ DOMAIN u = DOMAIN t /\ u.no_states = t.no_states + 1
      /\ u.stateList = Insert(t.stateList, l.name, new)
      /\ u.stateSeqList = Append(t.stateSeqList, l.name)
      /\ u.regSeqList = t.regSeqList /\ u.rtOperationsList = t.rtOperationsList
  BY <1>1, TableFields DEF TablesRead, StatesOK
<1>5. /\ DOMAIN u.stateList = D \cup {l.name}
      /\ \A s \in D : u.stateList[s] = t.stateList[s]
      /\ l.name \notin D => u.stateList[l.name] = new
  BY <1>4 DEF Insert
<1> HIDE DEF l
<1>6. StatesOK(u)
  <2>1. StatesOK(t)
    BY DEF TablesRead
  <2> QED BY <2>1, StateLineKeeps DEF u, l
<1>7. /\ B(n + 1) = B(n) \cup {n + 1} /\ \A i \in P : i \in Nat /\ (i <= n => i \in B(n))
  BY BeforeNext, PlacesAre DEF Before
<1>8. /\ D = {file[i].name : i \in B(n)}
      /\ \A s \in D :
           LET f == FlowLine(file, s)
           IN  /\ f.ways \in 0 .. 2
               /\ t.stateList[s].no_ways = f.ways /\ t.stateList[s].next = Successors(f)
      /\ IsList(t.stateSeqList)
      /\ Len(t.stateSeqList) = 0 <=> B(n) = {}
      /\ B(n) # {} => t.stateSeqList[1] = file[Min(P)].name
  BY DEF TablesRead, StatesRead
<1>9. StatesRead(file, u, n + 1)
  <2> HIDE DEF D, B, P
  <2>1. DOMAIN u.stateList = {file[i].name : i \in B(n + 1)}
    BY <1>5, <1>7, <1>8 DEF l
  <2>2. ASSUME NEW s \in DOMAIN u.stateList
        PROVE  LET f == FlowLine(file, s)
               IN  /\ f.ways \in 0 .. 2
                   /\ u.stateList[s].no_ways = f.ways /\ u.stateList[s].next = Successors(f)
    <3>1. CASE s \in D
      BY <1>5, <1>8, <3>1
    <3>2. CASE s \notin D
      <4> DEFINE S == {i \in P : file[i].name = s}
      <4>1. s = l.name /\ n + 1 \in S /\ S \subseteq Nat
        BY <1>5, <1>7, <3>2 DEF l, P
      <4>2. \A i \in S : ~(i <= n)
        BY <1>7, <1>8, <3>2
      <4> HIDE DEF S
      <4>3. Min(S) \in S /\ Min(S) <= n + 1
        BY <4>1, LeastNat
      <4>4. Min(S) = n + 1
        <5>1. Min(S) \in Nat /\ ~(Min(S) <= n)
          BY <4>1, <4>2, <4>3
        <5> QED BY <4>3, <5>1
      <4>5. FlowLine(file, s) = l
        BY <4>4 DEF FlowLine, S, l, P
      <4>6. u.stateList[s] = new
        BY <1>5, <3>2, <4>1
      <4> QED BY <1>2, <1>3, <4>5, <4>6
    <3> QED BY <3>1, <3>2
  <2>3. /\ IsList(u.stateSeqList) /\ Len(t.stateSeqList) \in Nat
        /\ Len(u.stateSeqList) = Len(t.stateSeqList) + 1
        /\ Len(t.stateSeqList) = 0 => u.stateSeqList[1] = l.name
        /\ Len(t.stateSeqList) # 0 => u.stateSeqList[1] = t.stateSeqList[1]
    <3>1. \A k \in Nat : k # 0 => 1 \in 1 .. k
      OBVIOUS
    <3> QED BY <1>4, <1>8, <3>1, ListAppended
  <2>4. ASSUME B(n) = {} PROVE Min(P) = n + 1
    <3>1. n + 1 \in P /\ P \subseteq Nat /\ \A i \in P : ~(i <= n)
      BY <1>7, <2>4 DEF P
    <3>2. Min(P) \in P /\ Min(P) <= n + 1
      BY <3>1, LeastNat
    <3>3. Min(P) \in Nat /\ ~(Min(P) <= n)
      BY <3>1, <3>2
    <3> QED BY <3>2, <3>3
  <2>5. u.stateSeqList[1] = file[Min(P)].name
    BY <1>8, <2>3, <2>4 DEF l
  <2>6. B(n + 1) # {} /\ Len(u.stateSeqList) # 0
    <3>1. n + 1 \in B(n + 1)
      BY <1>7
    <3> QED BY <2>3, <3>1
  <2> QED BY <2>1, <2>2, <2>3, <2>5, <2>6 DEF StatesRead, B, P
<1>10. EnablesRead(file, u)
  <2> HIDE DEF D
  <2>1. ASSUME NEW s \in DOMAIN u.stateList, NEW r \in DOMAIN u.stateList[s].reg_select,
               u.stateList[s].reg_select[r] = << 1 >>
        PROVE  Enabled(file, s, r)
    <3>1. s \in D
      <4>1. s \notin D => u.stateList[s] = new
        BY <1>5
      <4> QED BY <1>3, <2>1, <4>1
    <3>2. EnablesRead(file, t) /\ u.stateList[s] = t.stateList[s]
      BY <1>5, <3>1 DEF TablesRead
    <3> QED BY <2>1, <3>1, <3>2 DEF EnablesRead, D
  <2> QED BY <2>1 DEF EnablesRead
<1>11. RegistersRead(file, u, n + 1) /\ TransfersRead(file, u, n + 1)
  BY <1>4, OtherTables
<1> QED BY <1>6, <1>9, <1>10, <1>11 DEF TablesRead, u, l

\* A transfer is recorded, of a kind that the code knows or of none.
RecordOf(l, op) ==
  IF l.op \in OperationTypes
  THEN op.op = l.op /\ op.state = l.block * 10 + l.timestep /\ op.out = l.out
  ELSE op.op \notin OperationTypes

LEMMA TransferLineKeeps ==
  ASSUME NEW t, DOMAIN t = DOMAIN EmptyTables, NEW l
  PROVE  LET u == functionUnitRegLinker(t, l)
         IN  /\ DOMAIN u = DOMAIN t /\ u.stateList = t.stateList /\ u.stateSeqList = t.stateSeqList
             /\ u.no_states = t.no_states /\ u.regSeqList = t.regSeqList
             /\ \E op : RecordOf(l, op) /\ u.rtOperationsList = Append(t.rtOperationsList, op)
<1> DEFINE wire == IF l.fu \in DOMAIN t.fuList THEN t.fuList[l.fu].output ELSE <<>>
           op == [op |-> l.op, out |-> l.out, in1 |-> l.in1, wire |-> wire,
                  state |-> l.block * 10 + l.timestep]
           s == [t EXCEPT !.rtOperationsList = Append(@, op)]
           unit == [s EXCEPT !.regFuLinkList = Insert(@, l.fu, <<l.in1, l.in2>>),
                             !.fuList = Insert(@, l.fu, EmptyFu)]
           none == [t EXCEPT !.rtOperationsList = Append(@, NoOperation)]
           u == functionUnitRegLinker(t, l)
           Same(x, o) ==
             /\ DOMAIN x = DOMAIN t /\ x.stateList = t.stateList /\ x.stateSeqList = t.stateSeqList
             /\ x.no_states = t.no_states /\ x.regSeqList = t.regSeqList
             /\ x.rtOperationsList = Append(t.rtOperationsList, o)
<1>1. /\ l.op \in OperationTypes =>
           u = unit \/ u = s \/ \E port, isInput : u = insertPort(s, port, l.width, isInput)
      /\ l.op \notin OperationTypes => u = none
  <2>1. u = CASE l.op = "A" -> unit
              [] l.op = "R" -> IF l.in1 \in InputPorts THEN insertPort(s, l.in1, l.width, TRUE) ELSE s
              [] l.op = "O" -> insertPort(s, l.out, l.width, FALSE)
              [] OTHER -> none
    BY Zenon DEF functionUnitRegLinker
  <2> HIDE DEF unit, s, u, none
  <2> QED BY <2>1 DEF OperationTypes
<1>2. op.state = l.block * 10 + l.timestep /\ op.out = l.out /\ op.op = l.op
  OBVIOUS
<1>3. NoOperation.op \notin OperationTypes
  BY DEF NoOperation, OperationTypes
<1> HIDE DEF op, u
<1>4. Same(s, op)
  BY TableFields
<1>5. Same(unit, op)
  <2> HIDE DEF s
  <2> QED BY <1>4, TableFields
<1>6. ASSUME NEW port, NEW isInput, u = insertPort(s, port, l.width, isInput)
      PROVE  Same(u, op)
  <2> HIDE DEF s
  <2> QED BY <1>4, <1>6, TableFields DEF insertPort
<1>7. Same(none, NoOperation)
  BY TableFields
<1> HIDE DEF unit, s, none
<1>8. /\ l.op \in OperationTypes => Same(u, op)
      /\ l.op \notin OperationTypes => Same(u, NoOperation)
  <2> HIDE DEF Same
  <2> QED BY <1>1, <1>4, <1>5, <1>6, <1>7
<1>9. \E o : RecordOf(l, o) /\ Same(u, o)
  <2>1. CASE l.op \in OperationTypes
    <3>1. RecordOf(l, op)
      BY <1>2, <2>1 DEF RecordOf
    <3> HIDE DEF Same
    <3> QED BY <1>8, <2>1, <3>1
  <2>2. CASE l.op \notin OperationTypes
    <3>1. RecordOf(l, NoOperation)
      BY <1>3, <2>2 DEF RecordOf
    <3> HIDE DEF Same
    <3> QED BY <1>8, <2>2, <3>1
  <2> QED BY <2>1, <2>2
<1>10. PICK o : RecordOf(l, o) /\ Same(u, o)
  BY <1>9
<1>11. /\ DOMAIN u = DOMAIN t /\ u.stateList = t.stateList /\ u.stateSeqList = t.stateSeqList
       /\ u.no_states = t.no_states /\ u.regSeqList = t.regSeqList
       /\ \E e : RecordOf(l, e) /\ u.rtOperationsList = Append(t.rtOperationsList, e)
  BY <1>10
<1> QED BY <1>11 DEF u

LEMMA TransferLineRead ==
  ASSUME NEW file \in Files, NEW n \in Nat, n + 1 \in Places(file, "rt"),
         NEW t, TablesRead(file, t, n)
  PROVE  TablesRead(file, functionUnitRegLinker(t, file[n + 1]), n + 1)
<1> DEFINE l == file[n + 1]
           u == functionUnitRegLinker(t, l)
           B(i) == OperationsBefore(file, i)
           At(i) == <<file[i].block * 10 + file[i].timestep, file[i].out>>
<1>1. DOMAIN t = DOMAIN EmptyTables
  BY DEF TablesRead, StatesOK
<1>2. /\ DOMAIN u = DOMAIN t /\ u.stateList = t.stateList /\ u.stateSeqList = t.stateSeqList
      /\ u.no_states = t.no_states /\ u.regSeqList = t.regSeqList
      /\ \E op : RecordOf(l, op) /\ u.rtOperationsList = Append(t.rtOperationsList, op)
  BY <1>1, TransferLineKeeps
<1> HIDE DEF u
<1>3. StatesOK(u) /\ StatesRead(file, u, n + 1) /\ EnablesRead(file, u) /\ RegistersRead(file, u, n + 1)
  BY <1>2, OtherTables
<1>4. PICK op : RecordOf(l, op) /\ u.rtOperationsList = Append(t.rtOperationsList, op)
  BY <1>2
<1>5. /\ IsList(t.rtOperationsList)
      /\ {<<o.state, o.out>> : o \in Recorded(t)} = {At(i) : i \in B(n)}
  BY DEF TablesRead, TransfersRead
<1>6. /\ IsList(u.rtOperationsList)
      /\ ToSet(u.rtOperationsList) = ToSet(t.rtOperationsList) \cup {op}
  BY <1>4, <1>5, ListAppended
<1>7. Before(file, "rt", n + 1) = Before(file, "rt", n) \cup {n + 1}
  BY BeforeNext
<1>8. {<<o.state, o.out>> : o \in Recorded(u)} = {At(i) : i \in B(n + 1)}
  <2>1. CASE l.op \in OperationTypes
    <3>1. op.op \in OperationTypes /\ <<op.state, op.out>> = At(n + 1)
      BY <1>4, <2>1 DEF RecordOf
    <3>2. Recorded(u) = Recorded(t) \cup {op}
      BY <1>6, <3>1 DEF Recorded
    <3>3. B(n + 1) = B(n) \cup {n + 1}
      BY <1>7, <2>1 DEF OperationsBefore
    <3> HIDE DEF At, B
    <3> QED BY <1>5, <3>1, <3>2, <3>3
  <2>2. CASE l.op \notin OperationTypes
    <3>1. op.op \notin OperationTypes
      BY <1>4, <2>2 DEF RecordOf
    <3>2. Recorded(u) = Recorded(t)
      BY <1>6, <3>1 DEF Recorded
    <3>3. B(n + 1) = B(n)
      BY <1>7, <2>2 DEF OperationsBefore
    <3> HIDE DEF At, B
    <3> QED BY <1>5, <3>2, <3>3
  <2> QED BY <2>1, <2>2
<1>9. TransfersRead(file, u, n + 1)
  BY <1>6, <1>8 DEF TransfersRead
<1> QED BY <1>3, <1>9 DEF TablesRead, u, l

-----------------------------------------------------------------------------
(***************************************************************************)
(* The digits of a CAP line, cut into fields.                              *)
(***************************************************************************)

\* K lists the digits the first 0, 1, ... N fields take, of one digit each.
FieldsOfOne(K, N) ==
  /\ K \in [0 .. N -> Nat] /\ K[0] = 0
  /\ \A k \in 1 .. N : K[k] = K[k - 1] + 1

LEMMA OneDigitFields ==
  ASSUME NEW fields, NEW N \in Nat, \A k \in 1 .. N : fields[k][2] = 1
  PROVE  Taken(fields, N) = N
<1> DEFINE F == [p \in (1 .. N) \X Nat |-> p[2] + 1]
           Eq(K) == K = [k \in 0 .. N |-> IF k = 0 THEN 0 ELSE K[k - 1] + fields[k][2]]
           C == CHOOSE K : Eq(K)
<1>1. F \in [(1 .. N) \X Nat -> Nat] /\ \A n \in 1 .. N, x \in Nat : F[<<n, x>>] = x + 1
  OBVIOUS
<1> HIDE DEF F
<1>2. PICK f \in [0 .. N -> Nat] : IsRecursive(f, N, 0, F)
  BY <1>1, RecursionExists
<1>3. Eq(f)
  <2>1. f = [n \in 0 .. N |-> IF n = 0 THEN 0 ELSE F[<<n, f[n - 1]>>]]
    BY <1>2 DEF IsRecursive
  <2>2. ASSUME NEW n \in 0 .. N, n # 0 PROVE F[<<n, f[n - 1]>>] = f[n - 1] + fields[n][2]
    <3>1. n \in 1 .. N /\ n - 1 \in 0 .. N
      BY <2>2
    <3> QED BY <1>2, <1>1, <3>1
  <2> QED BY <2>1, <2>2
<1>4. Eq(C)
  BY <1>3
<1>5. Taken(fields, N) = C[N]
  BY DEF Taken
<1> HIDE DEF C
<1>e. \A i \in 0 .. N : C[i] = IF i = 0 THEN 0 ELSE C[i - 1] + fields[i][2]
  BY <1>4, Zenon
<1>6. Follows(C, N, Nat, 0, F)
  <2>1. C = [n \in 0 .. N |-> C[n]]
    BY <1>4
  <2>2. C[0] = 0
    BY <1>e
  <2>3. ASSUME NEW n \in 1 .. N, C[n - 1] \in Nat PROVE C[n] = F[<<n, C[n - 1]>>]
    <3>1. n \in 0 .. N /\ n # 0 /\ fields[n][2] = 1
      OBVIOUS
    <3>2. C[n] = C[n - 1] + 1
      BY <1>e, <3>1
    <3> QED BY <1>1, <2>3, <3>2
  <2> QED BY <2>1, <2>2, <2>3 DEF Follows
<1>7. C \in [0 .. N -> Nat] /\ C[0] = 0
  <2>1. C \in [0 .. N -> Nat]
    BY <1>1, <1>6, FollowedValues
  <2> QED BY <1>6, <2>1 DEF Follows
<1>8. ASSUME NEW i \in 1 .. N PROVE C[i] = C[i - 1] + 1
  <2>1. i \in 0 .. N /\ i # 0 /\ fields[i][2] = 1
    OBVIOUS
  <2> QED BY <1>e, <2>1
<1> DEFINE G == {n \in Nat : n <= N => C[n] = n}
<1>9. ASSUME NEW n \in Nat, n # 0 => n - 1 \in G PROVE n \in G
  <2>1. CASE n = 0
    BY <1>7, <2>1
  <2>2. CASE n # 0 /\ n <= N
    <3>1. n \in 1 .. N /\ n - 1 \in G /\ n - 1 <= N
      BY <1>9, <2>2
    <3>2. C[n] = C[n - 1] + 1 /\ C[n - 1] = n - 1
      BY <1>8, <3>1
    <3> QED BY <3>2
  <2> QED BY <2>1, <2>2
<1> HIDE DEF G
<1>10. N \in G
  BY <1>9, NatInductionSet
<1> QED BY <1>5, <1>10 DEF G

LEMMA LeastOfTwo ==
  ASSUME NEW a \in Nat, NEW b \in Nat
  PROVE  Min({a, b}) = IF a <= b THEN a ELSE b
<1>1. {a, b} \subseteq Nat /\ {a, b} # {}
  OBVIOUS
<1>2. Min({a, b}) \in {a, b} /\ \A n \in {a, b} : Min({a, b}) <= n
  BY <1>1, LeastNat
<1> QED BY <1>2

\* A register whose field is the digit 1 has a 1 at its place.
LEMMA EnabledDigit ==
  ASSUME NEW names, IsList(names), NEW digits \in Seq({0, 1}), NEW r,
         NEW fields, fields = [k \in DOMAIN names |-> <<names[k], 1>>],
         NEW c, c = Cut(fields, digits), r \in DOMAIN c.map, c.map[r] = << 1 >>
  PROVE  \E k \in DOMAIN names : names[k] = r /\ k <= Len(digits) /\ digits[k] = 1
<1> DEFINE K == {k \in DOMAIN fields : fields[k][1] = r}
           k == Min(K)
           start == Taken(fields, k - 1)
<1>1. /\ DOMAIN names = 1 .. Len(names) /\ Len(names) \in Nat
      /\ DOMAIN fields = DOMAIN names
      /\ \A j \in DOMAIN names : fields[j][1] = names[j] /\ fields[j][2] = 1
  BY LenProperties DEF IsList
<1>2. /\ DOMAIN c.map = {f[1] : f \in ToSet(fields)}
      /\ r \in DOMAIN c.map => c.map[r] = substr(digits, Taken(fields, k - 1), fields[k][2])
  BY DEF Cut
<1>3. PICK j \in DOMAIN fields : fields[j][1] = r
  BY <1>2 DEF ToSet
<1>4. K \subseteq Nat /\ K # {}
  BY <1>1, <1>3
<1> HIDE DEF K
<1>5. k \in K
  BY <1>4, LeastNat
<1>6. k \in DOMAIN names /\ names[k] = r /\ fields[k][2] = 1 /\ k \in Nat /\ 1 <= k
  <2>1. k \in DOMAIN names /\ fields[k][1] = r
    BY <1>1, <1>5 DEF K
  <2> HIDE DEF k
  <2> QED BY <1>1, <2>1
<1> HIDE DEF k
<1>7. start = k - 1
  <2>1. k - 1 \in Nat /\ \A i \in 1 .. k - 1 : i \in DOMAIN names
    BY <1>1, <1>6
  <2>2. \A i \in 1 .. k - 1 : fields[i][2] = 1
    BY <1>1, <2>1
  <2> QED BY <2>1, <2>2, OneDigitFields
<1> HIDE DEF start
<1>8. SubSeq(digits, k, Min({k, Len(digits)})) = << 1 >>
  <2>1. c.map[r] = substr(digits, k - 1, 1)
    BY <1>2, <1>6, <1>7 DEF start, k
  <2>2. (k - 1) + 1 = k /\ ~(1 < 0)
    BY <1>6
  <2>3. << 1 >> # <<>>
    <3>1. Len(<< 1 >>) = 1 /\ Len(<<>>) = 0
      OBVIOUS
    <3> QED BY <3>1
  <2> QED BY <2>1, <2>2, <2>3 DEF substr
<1>9. Len(digits) \in Nat
  BY LenProperties
<1>10. Min({k, Len(digits)}) = IF k <= Len(digits) THEN k ELSE Len(digits)
  BY <1>6, <1>9, LeastOfTwo
<1>11. CASE k <= Len(digits)
  <2>1. SubSeq(digits, k, k) = << 1 >>
    BY <1>8, <1>10, <1>11
  <2>2. k \in 1 .. Len(digits) + 1 /\ k \in k - 1 .. Len(digits) /\ 1 \in 1 .. (k - k) + 1
    BY <1>6, <1>9, <1>11
  <2>3. SubSeq(digits, k, k)[1] = digits[(k + 1) - 1]
    BY <2>2, SubSeqProperties
  <2>4. (k + 1) - 1 = k
    BY <1>6
  <2> QED BY <1>6, <1>11, <2>1, <2>3, <2>4
<1>12. CASE ~(k <= Len(digits))
  <2>1. SubSeq(digits, k, Len(digits)) = << 1 >>
    BY <1>8, <1>10, <1>12
  <2>2. Len(SubSeq(digits, k, Len(digits))) = 0
    BY <1>6, <1>9, <1>12
  <2> QED BY <2>1, <2>2
<1> QED BY <1>11, <1>12

LEMMA CapLineKeeps ==
  ASSUME NEW t, StatesOK(t), NEW l, populateCAP(t, l).status = "ok"
  PROVE  StatesOK(populateCAP(t, l))
<1> DEFINE mux == parseBlockMuxSelectLines(t, l.mux)
           reg == parseBlockRegSelectLines(t, l.reg)
           fu  == parseBlockFUSelectLines(t, l.fu)
           u == populateCAP(t, l)
           fits == mux.fits /\ reg.fits /\ fu.fits
           old == t.stateList[l.state]
           new == [old EXCEPT !.mux_select = mux.map, !.reg_select = reg.map,
                              !.fu_select = fu.map]
           D == DOMAIN t.stateList
<1>1. l.state \in D /\ u = [t EXCEPT !.stateList[l.state] = new]
  <2>1. u = IF l.state \notin D THEN Ended(t)
            ELSE IF ~fits THEN Ended(t)
            ELSE [t EXCEPT !.stateList[l.state] = new]
    BY DEF populateCAP
  <2>2. Ended(t).status # "ok"
    BY TableFields DEF Ended, StatesOK
  <2> HIDE DEF new, u, fits
  <2>3. u.status = "ok"
    BY DEF u
  <2> QED BY <2>1, <2>2, <2>3
<1>2. {"no_ways", "next", "code", "reg_select"} \subseteq DOMAIN old
  BY <1>1 DEF StatesOK
<1>3. /\ DOMAIN new = DOMAIN old /\ new.no_ways = old.no_ways /\ new.next = old.next
      /\ new.reg_select = reg.map
  <2> HIDE DEF old, mux, reg, fu
  <2> QED BY <1>2
<1> HIDE DEF new, u, old
<1>4. /\ DOMAIN u = DOMAIN t /\ u.no_states = t.no_states /\ u.stateSeqList = t.stateSeqList
      /\ u.regSeqList = t.regSeqList /\ u.rtOperationsList = t.rtOperationsList
      /\ u.stateList = [t.stateList EXCEPT ![l.state] = new]
  BY <1>1, TableFields DEF StatesOK
<1>5. /\ DOMAIN u.stateList = D
      /\ u.stateList[l.state] = new
      /\ \A s \in D : s # l.state => u.stateList[s] = t.stateList[s]
  BY <1>1, <1>4
<1>6. \A s \in D : /\ DOMAIN u.stateList[s] = DOMAIN t.stateList[s]
                   /\ u.stateList[s].no_ways = t.stateList[s].no_ways
                   /\ u.stateList[s].next = t.stateList[s].next
  BY <1>3, <1>5 DEF old
<1> HIDE DEF D
<1>7. StatesOK(u)
  BY <1>4, <1>5, <1>6 DEF StatesOK, D
<1> QED BY <1>7 DEF u

LEMMA CapLineRead ==
  ASSUME NEW file \in Files, NEW n \in Nat, n + 1 \in Places(file, "cap"),
         NEW t, TablesRead(file, t, n),
         populateCAP(t, file[n + 1]).status = "ok"
  PROVE  TablesRead(file, populateCAP(t, file[n + 1]), n + 1)
<1> DEFINE l == file[n + 1]
           mux == parseBlockMuxSelectLines(t, l.mux)
           reg == parseBlockRegSelectLines(t, l.reg)
           fu  == parseBlockFUSelectLines(t, l.fu)
           u == populateCAP(t, l)
           fits == mux.fits /\ reg.fits /\ fu.fits
           old == t.stateList[l.state]
           new == [old EXCEPT !.mux_select = mux.map, !.reg_select = reg.map,
                              !.fu_select = fu.map]
           D == DOMAIN t.stateList
<1>1. l.state \in D /\ u = [t EXCEPT !.stateList[l.state] = new]
  <2>1. u = IF l.state \notin D THEN Ended(t)
            ELSE IF ~fits THEN Ended(t)
            ELSE [t EXCEPT !.stateList[l.state] = new]
    BY DEF populateCAP
  <2>2. Ended(t).status # "ok"
    BY TableFields DEF Ended, TablesRead, StatesOK
  <2> HIDE DEF new, u, fits
  <2>3. u.status = "ok"
    BY DEF u
  <2> QED BY <2>1, <2>2, <2>3
<1>2. {"no_ways", "next", "code", "reg_select"} \subseteq DOMAIN old
  BY <1>1 DEF TablesRead, StatesOK
<1>3. /\ DOMAIN new = DOMAIN old /\ new.no_ways = old.no_ways /\ new.next = old.next
      /\ new.reg_select = reg.map
  <2> HIDE DEF old, mux, reg, fu
  <2> QED BY <1>2
<1> HIDE DEF new, u, old
<1>4. /\ DOMAIN u = DOMAIN t /\ u.no_states = t.no_states /\ u.stateSeqList = t.stateSeqList
      /\ u.regSeqList = t.regSeqList /\ u.rtOperationsList = t.rtOperationsList
      /\ u.stateList = [t.stateList EXCEPT ![l.state] = new]
  BY <1>1, TableFields DEF TablesRead, StatesOK
<1>5. /\ DOMAIN u.stateList = D
      /\ u.stateList[l.state] = new
      /\ \A s \in D : s # l.state => u.stateList[s] = t.stateList[s]
  BY <1>1, <1>4
<1>6. \A s \in D : /\ DOMAIN u.stateList[s] = DOMAIN t.stateList[s]
                   /\ u.stateList[s].no_ways = t.stateList[s].no_ways
                   /\ u.stateList[s].next = t.stateList[s].next
  BY <1>3, <1>5 DEF old
<1> HIDE DEF D
<1>7. StatesOK(u)
  <2>1. StatesOK(t)
    BY DEF TablesRead
  <2> QED BY <2>1, CapLineKeeps DEF u
<1>8. StatesRead(file, u, n + 1)
  <2>1. n + 1 \notin Places(file, "fsm")
    BY DEF Places
  <2>2. Before(file, "fsm", n + 1) = Before(file, "fsm", n)
    BY <2>1, BeforeNext
  <2> QED BY <1>4, <1>5, <1>6, <2>2 DEF TablesRead, StatesRead, D
<1>9. ASSUME NEW r \in DOMAIN reg.map, reg.map[r] = << 1 >> PROVE Enabled(file, l.state, r)
  <2> DEFINE rs == t.regSeqList
             fields == [k \in DOMAIN rs |-> <<rs[k], 1>>]
             B(i) == Before(file, "registers", i)
  <2>1. IsList(rs) /\ \A k \in DOMAIN rs :
                        \E i \in B(n) : file[i].name = rs[k] /\ Cardinality(B(i)) = k
    BY DEF TablesRead, RegistersRead
  <2>2. reg = Cut(fields, l.reg) /\ l.reg \in Seq({0, 1})
    BY PlacesAre DEF parseBlockRegSelectLines
  <2> HIDE DEF fields, reg
  <2>3. \E k \in DOMAIN rs : rs[k] = r /\ k <= Len(l.reg) /\ l.reg[k] = 1
    <3> HIDE DEF rs, l
    <3> QED BY <1>9, <2>1, <2>2, EnabledDigit DEF fields
  <2>4. PICK k \in DOMAIN rs : rs[k] = r /\ k <= Len(l.reg) /\ l.reg[k] = 1
    BY <2>3
  <2>5. PICK i \in B(n) : file[i].name = r /\ Cardinality(B(i)) = k
    BY <2>1, <2>4
  <2>6. i \in Places(file, "registers") /\ RegisterDigit(file, l, i) = 1
    BY <2>4, <2>5 DEF RegisterDigit, Before
  <2>7. l \in LinesOf(file, "cap")
    BY DEF LinesOf
  <2> QED BY <2>5, <2>6, <2>7 DEF Enabled
<1>10. EnablesRead(file, u)
  <2> HIDE DEF reg, l
  <2>1. ASSUME NEW s \in DOMAIN u.stateList, NEW r \in DOMAIN u.stateList[s].reg_select,
               u.stateList[s].reg_select[r] = << 1 >>
        PROVE  Enabled(file, s, r)
    <3>1. CASE s = l.state
      BY <1>3, <1>5, <1>9, <2>1, <3>1
    <3>2. CASE s # l.state
      <4>1. EnablesRead(file, t) /\ u.stateList[s] = t.stateList[s] /\ s \in D
        BY <1>5, <3>2 DEF TablesRead
      <4> QED BY <2>1, <4>1 DEF EnablesRead, D
    <3> QED BY <3>1, <3>2
  <2> QED BY <2>1 DEF EnablesRead
<1>11. RegistersRead(file, u, n + 1) /\ TransfersRead(file, u, n + 1)
  BY <1>4, OtherTables
<1> QED BY <1>7, <1>8, <1>10, <1>11 DEF TablesRead, u, l

\* A line of any section, as long as it is not an error.
LEMMA LineRead ==
  ASSUME NEW file \in Files, NEW n \in Nat, NEW sec \in Sections, n + 1 \in Places(file, sec),
         NEW t, TablesRead(file, t, n), NEW bits,
         parseLine(t, sec, file[n + 1], bits).status = "ok"
  PROVE  TablesRead(file, parseLine(t, sec, file[n + 1], bits), n + 1)
<1> DEFINE l == file[n + 1]
           u == parseLine(t, sec, l, bits)
<1>0. DOMAIN t = DOMAIN EmptyTables
  BY DEF TablesRead, StatesOK
<1>1. l.kind = "data" /\ l.kind # "header" /\ l.section = sec
  BY PlacesAre
<1>2. u = CASE sec = "registers" -> populateRegisters(t, l)
            [] sec = "mux"       -> populateMux(t, AsMultiplexer(l), bits)
            [] sec = "fu"        -> populateFu(t, l, bits)
            [] sec = "fsm"       -> populatefSM(t, l)
            [] sec = "csmux"     -> populateBitsInMux(t, l)
            [] sec = "csfu"      -> populateBitsInFU(t, l)
            [] sec = "cap"       -> populateCAP(t, l)
            [] OTHER             -> functionUnitRegLinker(t, l)
  BY <1>1 DEF parseLine
<1> HIDE DEF u
<1>3. CASE sec = "registers"
  <2>1. u = populateRegisters(t, l)
    BY <1>2, <1>3
  <2> QED BY <1>3, <2>1, RegisterLineRead DEF u
<1>4. CASE sec \in {"mux", "fu", "csmux", "csfu"}
  <2>1. u \in {populateMux(t, AsMultiplexer(l), bits), populateFu(t, l, bits),
               populateBitsInMux(t, l), populateBitsInFU(t, l)}
    BY <1>2, <1>4
  <2>2. KeepsController(t, u)
    BY <1>0, <2>1, StructureLineKeeps
  <2>3. TablesRead(file, u, n + 1)
    BY <1>4, <2>2, StructureLineRead
  <2> QED BY <2>3 DEF u
<1>5. CASE sec = "fsm"
  <2>1. u = populatefSM(t, l) /\ u.status = "ok"
    BY <1>2, <1>5 DEF u
  <2>2. Ended(t).status # "ok"
    BY <1>0, TableFields DEF Ended
  <2>3. WellFormed(l)
    BY <2>1, <2>2 DEF populatefSM
  <2>4. TablesRead(file, u, n + 1)
    BY <1>5, <2>1, <2>3, StateLineRead
  <2> QED BY <2>4 DEF u
<1>6. CASE sec = "cap"
  <2>1. u = populateCAP(t, l) /\ u.status = "ok"
    BY <1>2, <1>6 DEF u
  <2>2. TablesRead(file, u, n + 1)
    BY <1>6, <2>1, CapLineRead
  <2> QED BY <2>2 DEF u
<1>7. CASE sec = "rt"
  <2>1. u = functionUnitRegLinker(t, l)
    BY <1>2, <1>7
  <2>2. TablesRead(file, u, n + 1)
    BY <1>7, <2>1, TransferLineRead
  <2> QED BY <2>2 DEF u
<1> QED BY <1>3, <1>4, <1>5, <1>6, <1>7 DEF Sections

\* The same line, whatever was read before; and any line, read as a multiplexer.
LEMMA LineKeepsStates ==
  ASSUME NEW file \in Files, NEW n \in Nat, NEW sec \in Sections,
         sec # "mux" => n + 1 \in Places(file, sec),
         NEW t, StatesOK(t), NEW bits,
         parseLine(t, sec, file[n + 1], bits).status = "ok"
  PROVE  StatesOK(parseLine(t, sec, file[n + 1], bits))
<1> DEFINE l == file[n + 1]
           u == parseLine(t, sec, l, bits)
<1>0. DOMAIN t = DOMAIN EmptyTables
  BY DEF StatesOK
<1>1. ~(l.kind = "header" /\ sec # "mux")
  BY PlacesAre
<1>2. u = CASE sec = "registers" -> populateRegisters(t, l)
            [] sec = "mux"       -> populateMux(t, AsMultiplexer(l), bits)
            [] sec = "fu"        -> populateFu(t, l, bits)
            [] sec = "fsm"       -> populatefSM(t, l)
            [] sec = "csmux"     -> populateBitsInMux(t, l)
            [] sec = "csfu"      -> populateBitsInFU(t, l)
            [] sec = "cap"       -> populateCAP(t, l)
            [] OTHER             -> functionUnitRegLinker(t, l)
  BY <1>1 DEF parseLine
<1> HIDE DEF u
<1>3. ASSUME DOMAIN u = DOMAIN t, u.stateList = t.stateList, u.stateSeqList = t.stateSeqList,
             u.no_states = t.no_states
      PROVE  StatesOK(u)
  BY <1>3 DEF StatesOK
<1>4. CASE sec = "registers"
  <2>1. u = populateRegisters(t, l)
    BY <1>2, <1>4
  <2> QED BY <1>0, <1>3, <2>1, TableFields DEF populateRegisters, u
<1>5. CASE sec \in {"mux", "fu", "csmux", "csfu"}
  <2>1. u \in {populateMux(t, AsMultiplexer(l), bits), populateFu(t, l, bits),
               populateBitsInMux(t, l), populateBitsInFU(t, l)}
    BY <1>2, <1>5
  <2>2. KeepsController(t, u)
    BY <1>0, <2>1, StructureLineKeeps
  <2> QED BY <1>3, <2>2 DEF KeepsController, u
<1>6. CASE sec = "fsm"
  <2>1. u = populatefSM(t, l) /\ u.status = "ok" /\ n + 1 \in Places(file, "fsm")
    BY <1>2, <1>6 DEF u
  <2>2. Ended(t).status # "ok"
    BY <1>0, TableFields DEF Ended
  <2>3. WellFormed(l)
    BY <2>1, <2>2 DEF populatefSM
  <2>4. StatesOK(u)
    BY <2>1, <2>3, StateLineKeeps
  <2> QED BY <2>4 DEF u
<1>7. CASE sec = "cap"
  <2>1. u = populateCAP(t, l) /\ u.status = "ok"
    BY <1>2, <1>7 DEF u
  <2> QED BY <2>1, CapLineKeeps DEF u
<1>8. CASE sec = "rt"
  <2>1. u = functionUnitRegLinker(t, l)
    BY <1>2, <1>8
  <2> QED BY <1>0, <1>3, <2>1, TransferLineKeeps DEF u
<1> QED BY <1>4, <1>5, <1>6, <1>7, <1>8 DEF Sections

-----------------------------------------------------------------------------
(***************************************************************************)
(* Completing the tables.                                                  *)
(***************************************************************************)

\* The states that were read have different codes of the length of the state register, which
\* is not empty.
Coded(t) ==
  /\ ToSet(t.stateSeqList) # {} => t.bits_req # 0
  /\ \A s, r \in ToSet(t.stateSeqList) :
       /\ Len(t.stateList[s].code) = t.bits_req
       /\ t.stateList[s].code = t.stateList[r].code => s = r

\* The same lists of states, registers and transfers, the states as they were but for their
\* codes.
KeepsLists(t, c) ==
  /\ DOMAIN c = DOMAIN t /\ c.no_states = t.no_states
  /\ c.stateSeqList = t.stateSeqList /\ c.regSeqList = t.regSeqList
  /\ c.rtOperationsList = t.rtOperationsList
  /\ DOMAIN c.stateList = DOMAIN t.stateList
  /\ \A s \in DOMAIN t.stateList :
       /\ DOMAIN c.stateList[s] = DOMAIN t.stateList[s]
       /\ c.stateList[s].no_ways = t.stateList[s].no_ways
       /\ c.stateList[s].next = t.stateList[s].next
       /\ c.stateList[s].reg_select = t.stateList[s].reg_select

LEMMA ListsKept ==
  ASSUME NEW t, NEW c, KeepsLists(t, c)
  PROVE  /\ StatesOK(t) => StatesOK(c)
         /\ \A file, n : TablesRead(file, t, n) => TablesRead(file, c, n)
<1>1. StatesOK(t) => StatesOK(c)
  BY DEF KeepsLists, StatesOK
<1>2. ASSUME NEW file, NEW n, TablesRead(file, t, n) PROVE TablesRead(file, c, n)
  <2>1. StatesOK(c)
    BY <1>1, <1>2 DEF TablesRead
  <2>2. StatesRead(file, c, n)
    BY <1>2 DEF KeepsLists, TablesRead, StatesRead
  <2>3. EnablesRead(file, c)
    BY <1>2 DEF KeepsLists, TablesRead, EnablesRead
  <2>4. RegistersRead(file, c, n) /\ TransfersRead(file, c, n)
    BY <1>2 DEF KeepsLists, TablesRead, RegistersRead, TransfersRead, Recorded
  <2> QED BY <2>1, <2>2, <2>3, <2>4 DEF TablesRead
<1> QED BY <1>1, <1>2

\* Codes for every state, of the bits that the number of lines needs.
LEMMA StatesCoded ==
  ASSUME NEW t, StatesOK(t)
  PROVE  LET c == populateVerilogStateRepresentations(t)
         IN  Coded(c) /\ KeepsLists(t, c)
<1> DEFINE N == t.no_states
           bits == Min({b \in 0 .. N : Shifted(N, b) = 0})
           c == populateVerilogStateRepresentations(t)
           D == DOMAIN t.stateList
<1>1. bits \in Nat /\ \A a \in Nat : a <= N => Shifted(a, bits) = 0
  BY BitsSuffice DEF StatesOK
<1>2. /\ DOMAIN c = DOMAIN t /\ c.bits_req = bits /\ c.no_states = N
      /\ c.stateList = [s \in D |-> [t.stateList[s] EXCEPT !.code = getBinary(Rank(t, s), bits)]]
      /\ c.stateSeqList = t.stateSeqList /\ c.regSeqList = t.regSeqList
      /\ c.rtOperationsList = t.rtOperationsList
  BY TableFields DEF populateVerilogStateRepresentations, StatesOK
<1> HIDE DEF bits, c
<1>3. /\ DOMAIN c.stateList = D
      /\ \A s \in D : /\ c.stateList[s].code = getBinary(Rank(t, s), bits)
                      /\ DOMAIN c.stateList[s] = DOMAIN t.stateList[s]
                      /\ c.stateList[s].no_ways = t.stateList[s].no_ways
                      /\ c.stateList[s].next = t.stateList[s].next
                      /\ c.stateList[s].reg_select = t.stateList[s].reg_select
  BY <1>2 DEF StatesOK
<1>4. /\ Cardinality(D) \in Nat /\ Cardinality(D) <= N /\ N \in Nat
      /\ \A s \in D : Rank(t, s) \in Nat /\ Rank(t, s) < Cardinality(D)
  BY RanksDiffer, FS_CardinalityType DEF StatesOK
<1>5. ASSUME NEW s \in D PROVE Rank(t, s) \in Nat /\ Shifted(Rank(t, s), bits) = 0
  <2>1. Rank(t, s) \in Nat /\ Rank(t, s) <= N
    BY <1>4
  <2> QED BY <1>1, <2>1
<1>6. ASSUME NEW s \in D PROVE Len(getBinary(Rank(t, s), bits)) = bits
  BY <1>1 DEF getBinary
<1>7. ASSUME NEW s \in D, NEW r \in D, getBinary(Rank(t, s), bits) = getBinary(Rank(t, r), bits)
      PROVE  s = r
  <2>1. Rank(t, s) = Rank(t, r)
    BY <1>1, <1>5, <1>7, CodesDiffer
  <2> QED BY <2>1, RanksDiffer DEF StatesOK
<1>8. ASSUME D # {} PROVE bits # 0
  <2>1. PICK s \in D : Rank(t, s) \in Nat /\ Rank(t, s) < Cardinality(D)
    BY <1>4, <1>8
  <2>2. N # 0
    BY <1>4, <2>1
  <2>3. Shifted(N, bits) = 0 /\ Shifted(N, 0) = N
    <3>1. N \in Nat /\ N <= N
      BY <1>4
    <3> QED BY <1>1, <3>1, OneShiftMore
  <2> QED BY <2>2, <2>3
<1>9. ToSet(c.stateSeqList) = D
  BY <1>2 DEF StatesOK
<1>10. Coded(c)
  BY <1>2, <1>3, <1>6, <1>7, <1>8, <1>9 DEF Coded
<1>11. KeepsLists(t, c)
  BY <1>2, <1>3 DEF KeepsLists
<1> QED BY <1>10, <1>11 DEF c

\* The wires, and an error, leave alone what the controller is written from.
OtherThanStates(t, u) ==
  /\ DOMAIN u = DOMAIN t /\ u.stateList = t.stateList /\ u.stateSeqList = t.stateSeqList
  /\ u.no_states = t.no_states /\ u.bits_req = t.bits_req /\ u.regSeqList = t.regSeqList
  /\ u.rtOperationsList = t.rtOperationsList

LEMMA OthersComplete ==
  ASSUME NEW t, NEW u, OtherThanStates(t, u)
  PROVE  KeepsLists(t, u) /\ (Coded(t) => Coded(u))
BY DEF OtherThanStates, KeepsLists, Coded

LEMMA LinkingKeepsStates ==
  ASSUME NEW t, DOMAIN t = DOMAIN EmptyTables
  PROVE  OtherThanStates(t, populateRegFuLinkNames(populateMuxFuLinkNames(t)))
<1> DEFINE m == populateMuxFuLinkNames(t)
           u == populateRegFuLinkNames(m)
<1>1. OtherThanStates(t, m)
  BY TableFields DEF populateMuxFuLinkNames, OtherThanStates
<1> HIDE DEF m
<1>2. OtherThanStates(m, u)
  BY <1>1, TableFields DEF populateRegFuLinkNames, OtherThanStates
<1> HIDE DEF u
<1>3. OtherThanStates(t, u)
  BY <1>1, <1>2 DEF OtherThanStates
<1> QED BY <1>3 DEF u, m

-----------------------------------------------------------------------------
(***************************************************************************)
(* The invariant of the generator.                                         *)
(***************************************************************************)

\* The flag that is set is that of the section the file is in, or of the multiplexers, who
\* go on to the next blank line.
SectionFlag(file, sec, n) ==
  /\ sec # "none" => \E h \in 1 .. n : SectionBegun(file, h, n)
  /\ \A h \in 1 .. n : SectionBegun(file, h, n) => sec \in {"mux", file[h].section}

OwnSection(file, sec, n) ==
  \A h \in 1 .. n : SectionBegun(file, h, n) => sec = file[h].section

\* Of a file whose sections are apart: what has been read.
FileRead ==
  /\ pc = "reading" => TablesRead(input, tables, line) /\ OwnSection(input, section, line)
  /\ pc = "processed" => TablesRead(input, tables, Len(input))

\* While the file is read each state has its line, and if the sections are apart the tables
\* hold the lines so far; afterwards they hold all of them, and the states are coded; and
\* writing a consistent file leaves them as they are.  The select registers have one value
\* each.
GeneratorInv ==
  /\ input \in Files /\ line \in Nat
  /\ pc = "reading" => StatesOK(tables) /\ SectionFlag(input, section, line)
  /\ pc = "processed" => StatesOK(tables)
  /\ pc \in {"processed", "written"} => Coded(tables)
  /\ Separated(input) => FileRead
  /\ pc = "written" /\ Consistent(input) => TablesRead(input, tables, Len(input))
  /\ selects = [r \in DOMAIN selects |-> selects[r]]

LEMMA InitInv == Init => GeneratorInv
<1> SUFFICES ASSUME Init PROVE GeneratorInv
  OBVIOUS
<1>1. /\ input \in Files /\ line = 0 /\ section = "none" /\ pc = "reading" /\ tables = EmptyTables
      /\ selects = <<>>
  BY DEF Init, GeneratorInit
<1> DEFINE E == EmptyTables
<1>2. /\ E.stateList = <<>> /\ E.no_states = 0 /\ E.stateSeqList = <<>> /\ E.regSeqList = <<>>
      /\ E.rtOperationsList = <<>>
  BY DEF EmptyTables
<1>3. DOMAIN E.stateList = {}
  BY <1>2
<1> HIDE DEF E
<1>4. StatesOK(E)
  BY <1>2, <1>3, EmptyList, FS_EmptySet DEF StatesOK, E
<1>5. \A sec : Before(input, sec, 0) = {} /\ Cardinality(Before(input, sec, 0)) = 0
  BY <1>1, BeforeFinite
<1>6. StatesRead(input, E, 0) /\ EnablesRead(input, E)
  BY <1>2, <1>3, <1>5, EmptyList DEF StatesRead, EnablesRead
<1>7. RegistersRead(input, E, 0)
  BY <1>2, <1>5, EmptyList DEF RegistersRead
<1>8. TransfersRead(input, E, 0)
  BY <1>2, <1>5, EmptyList DEF TransfersRead, Recorded, OperationsBefore
<1>9. TablesRead(input, tables, line)
  BY <1>1, <1>4, <1>6, <1>7, <1>8 DEF TablesRead, E
<1>10. SectionFlag(input, section, line) /\ OwnSection(input, section, line)
  BY <1>1 DEF SectionFlag, OwnSection
<1>11. selects = [r \in DOMAIN selects |-> selects[r]]
  BY <1>1
<1>12. StatesOK(tables)
  BY <1>1, <1>4 DEF E
<1> QED BY <1>1, <1>9, <1>10, <1>11, <1>12 DEF GeneratorInv, FileRead

\* How the section goes on with the next line.
LEMMA NextLine ==
  ASSUME NEW file \in Files, NEW n \in Nat, n < Len(file), NEW sec, SectionFlag(file, sec, n)
  PROVE  LET l == file[n + 1]
         IN  /\ n + 1 \in DOMAIN file
             /\ sec = "none" => /\ l.kind # "data"
                                /\ SectionFlag(file, checkIdentifier(l), n + 1)
             /\ l.kind = "blank" => l.kind # "data" /\ SectionFlag(file, "none", n + 1)
             /\ sec # "none" /\ l.kind # "blank" /\ (l.kind = "header" => sec = "mux") =>
                  /\ sec \in Sections /\ SectionFlag(file, sec, n + 1)
                  /\ sec # "mux" => n + 1 \in Places(file, sec)
<1> DEFINE l == file[n + 1]
           Begun == {h \in DOMAIN file : SectionBegun(file, h, n)}
<1>1. /\ Len(file) \in Nat /\ DOMAIN file = 1 .. Len(file) /\ n + 1 \in DOMAIN file
      /\ \A h \in 1 .. n : h \in DOMAIN file
  BY FilesAssumption
<1>2. (n + 1) - 1 = n
  OBVIOUS
<1>3. /\ l.kind \in {"header", "blank", "data", "other"}
      /\ l.kind = "header" => l.section \in Sections
      /\ l.kind = "data" => Begun # {}
      /\ l.kind = "other" => Begun = {}
      /\ l.kind = "data" => \A h \in Begun : file[h].section = l.section
  BY <1>1, <1>2, FilesAssumption
<1>4. \A h \in Begun : h \in 1 .. n /\ file[h].kind = "header" /\ file[h].section \in Sections
  BY <1>1, FilesAssumption DEF SectionBegun
<1>5. \A h \in 1 .. n + 1 : SectionBegun(file, h, n + 1) <=>
         \/ h = n + 1 /\ l.kind = "header"
         \/ h \in 1 .. n /\ SectionBegun(file, h, n) /\ l.kind \notin {"header", "blank"}
  <2> SUFFICES ASSUME NEW h \in 1 .. n + 1
               PROVE  SectionBegun(file, h, n + 1) <=>
                        \/ h = n + 1 /\ l.kind = "header"
                        \/ h \in 1 .. n /\ SectionBegun(file, h, n) /\ l.kind \notin {"header", "blank"}
    OBVIOUS
  <2>1. CASE h = n + 1
    <3>1. h + 1 .. n + 1 = {} /\ h \notin 1 .. n
      BY <2>1
    <3> QED BY <2>1, <3>1 DEF SectionBegun
  <2>2. CASE h \in 1 .. n
    <3>1. \A j : j \in h + 1 .. n + 1 <=> j \in h + 1 .. n \/ j = n + 1
      BY <2>2
    <3>2. h # n + 1
      BY <2>2
    <3> QED BY <2>2, <3>1, <3>2 DEF SectionBegun
  <2> QED BY <2>1, <2>2
<1>6. \A s \in Sections : s # "none"
  BY DEF Sections
<1>7. \A h \in 1 .. n : SectionBegun(file, h, n) => h \in Begun /\ sec \in {"mux", file[h].section}
  BY <1>1 DEF SectionFlag
<1>8. \A h \in Begun : h \in 1 .. n /\ SectionBegun(file, h, n)
  BY <1>4
<1>9. sec # "none" => Begun # {}
  BY <1>7 DEF SectionFlag
<1> HIDE DEF Begun, l
<1>10. ASSUME sec = "none" PROVE l.kind # "data" /\ SectionFlag(file, checkIdentifier(l), n + 1)
  <2>1. Begun = {}
    BY <1>4, <1>6, <1>7, <1>8, <1>10
  <2>2. \A h \in 1 .. n + 1 : SectionBegun(file, h, n + 1) <=> h = n + 1 /\ l.kind = "header"
    BY <1>5, <1>7, <2>1
  <2>3. n + 1 \in 1 .. n + 1
    OBVIOUS
  <2> QED BY <1>3, <2>1, <2>2, <2>3 DEF SectionFlag, checkIdentifier, l
<1>11. ASSUME l.kind = "blank" PROVE SectionFlag(file, "none", n + 1)
  BY <1>5, <1>11 DEF SectionFlag
<1>12. ASSUME sec # "none", l.kind # "blank", l.kind = "header" => sec = "mux"
       PROVE  /\ sec \in Sections /\ SectionFlag(file, sec, n + 1)
              /\ sec # "mux" => n + 1 \in Places(file, sec)
  <2>1. PICK h \in Begun : h \in 1 .. n /\ sec \in {"mux", file[h].section} /\ SectionBegun(file, h, n)
    BY <1>7, <1>8, <1>9, <1>12
  <2>2. sec \in Sections
    BY <1>4, <2>1 DEF Sections
  <2>3. ASSUME sec # "mux" PROVE n + 1 \in Places(file, sec)
    <3>1. l.kind = "data" /\ l.section = sec
      BY <1>3, <1>12, <2>1, <2>3
    <3> QED BY <1>1, <3>1 DEF Places, l
  <2>4. \A i \in 1 .. n + 1 : SectionBegun(file, i, n + 1) => sec \in {"mux", file[i].section}
    BY <1>5, <1>7, <1>12 DEF l
  <2>5. \E i \in 1 .. n + 1 : SectionBegun(file, i, n + 1)
    <3>1. h \in 1 .. n + 1 /\ n + 1 \in 1 .. n + 1
      BY <2>1
    <3> QED BY <1>5, <1>12, <2>1, <3>1
  <2> QED BY <2>2, <2>3, <2>4, <2>5 DEF SectionFlag
<1> QED BY <1>1, <1>10, <1>11, <1>12 DEF l

\* How it goes on if the sections are apart.
LEMMA NextOwnLine ==
  ASSUME NEW file \in Files, Separated(file), NEW n \in Nat, n < Len(file), NEW sec,
         SectionFlag(file, sec, n), OwnSection(file, sec, n)
  PROVE  LET l == file[n + 1]
         IN  /\ sec = "none" => OwnSection(file, checkIdentifier(l), n + 1)
             /\ l.kind = "blank" => OwnSection(file, "none", n + 1)
             /\ sec # "none" /\ l.kind # "blank" =>
                  /\ l.kind # "header" /\ n + 1 \in Places(file, sec)
                  /\ OwnSection(file, sec, n + 1)
<1> DEFINE l == file[n + 1]
<1>1. /\ Len(file) \in Nat /\ DOMAIN file = 1 .. Len(file) /\ n + 1 \in DOMAIN file
      /\ (n + 1) - 1 = n /\ \A h \in 1 .. n : h \in DOMAIN file
  BY FilesAssumption
<1>2. \A h \in 1 .. n + 1 : SectionBegun(file, h, n + 1) =>
         \/ h = n + 1 /\ l.kind = "header"
         \/ h \in 1 .. n /\ SectionBegun(file, h, n) /\ l.kind \notin {"header", "blank"}
  <2> SUFFICES ASSUME NEW h \in 1 .. n + 1, SectionBegun(file, h, n + 1)
               PROVE  \/ h = n + 1 /\ l.kind = "header"
                      \/ h \in 1 .. n /\ SectionBegun(file, h, n) /\ l.kind \notin {"header", "blank"}
    OBVIOUS
  <2>1. CASE h = n + 1
    BY <2>1 DEF SectionBegun
  <2>2. CASE h \in 1 .. n
    <3>1. n + 1 \in h + 1 .. n + 1 /\ \A j \in h + 1 .. n : j \in h + 1 .. n + 1
      BY <2>2
    <3> QED BY <2>2, <3>1 DEF SectionBegun
  <2> QED BY <2>1, <2>2
<1>3. \A h \in 1 .. n : SectionBegun(file, h, n) =>
        l.kind # "header" /\ (l.kind = "data" => l.section = sec) /\ l.kind # "other"
  <2> SUFFICES ASSUME NEW h \in 1 .. n, SectionBegun(file, h, n)
               PROVE  l.kind # "header" /\ (l.kind = "data" => l.section = sec) /\ l.kind # "other"
    OBVIOUS
  <2>1. h \in {k \in DOMAIN file : SectionBegun(file, k, (n + 1) - 1)}
    BY <1>1
  <2>2. sec = file[h].section
    BY DEF OwnSection
  <2>3. l.kind # "header"
    BY <1>1, <2>1 DEF Separated
  <2> QED BY <1>1, <2>1, <2>2, <2>3, FilesAssumption
<1>4. l.kind \in {"header", "blank", "data", "other"}
  BY <1>1, FilesAssumption
<1>5. ASSUME sec = "none" PROVE OwnSection(file, checkIdentifier(l), n + 1)
  <2>1. \A h \in 1 .. n : ~SectionBegun(file, h, n)
    <3> SUFFICES ASSUME NEW h \in 1 .. n, SectionBegun(file, h, n) PROVE FALSE
      OBVIOUS
    <3>1. file[h].section = "none" /\ file[h].section \in Sections
      BY <1>1, <1>5, FilesAssumption DEF OwnSection, SectionBegun
    <3> QED BY <3>1 DEF Sections
  <2> HIDE DEF l
  <2> QED BY <1>2, <2>1 DEF OwnSection, checkIdentifier, l
<1>6. ASSUME l.kind = "blank" PROVE OwnSection(file, "none", n + 1)
  <2> HIDE DEF l
  <2> QED BY <1>2, <1>6 DEF OwnSection
<1>7. ASSUME sec # "none", l.kind # "blank"
      PROVE  l.kind # "header" /\ n + 1 \in Places(file, sec) /\ OwnSection(file, sec, n + 1)
  <2>1. PICK h \in 1 .. n : SectionBegun(file, h, n)
    BY <1>7 DEF SectionFlag
  <2>2. l.kind = "data" /\ l.section = sec
    BY <1>3, <1>4, <1>7, <2>1
  <2>3. n + 1 \in Places(file, sec)
    BY <1>1, <2>2 DEF Places
  <2>4. OwnSection(file, sec, n + 1)
    <3> HIDE DEF l
    <3> QED BY <1>2, <2>2 DEF OwnSection
  <2> QED BY <2>2, <2>3, <2>4
<1> QED BY <1>5, <1>6, <1>7

\* A line that is not data does not count.
LEMMA NoData ==
  ASSUME NEW file \in Files, NEW n \in Nat, file[n + 1].kind # "data", NEW t, TablesRead(file, t, n)
  PROVE  TablesRead(file, t, n + 1)
<1>1. ASSUME NEW sec PROVE Before(file, sec, n + 1) = Before(file, sec, n)
  <2>1. n + 1 \notin Places(file, sec)
    BY DEF Places
  <2> QED BY <2>1, BeforeNext
<1>2. StatesRead(file, t, n + 1)
  BY <1>1 DEF TablesRead, StatesRead
<1>3. RegistersRead(file, t, n + 1) /\ TransfersRead(file, t, n + 1)
  BY <1>1 DEF TablesRead, RegistersRead, TransfersRead, OperationsBefore
<1> QED BY <1>2, <1>3 DEF TablesRead

LEMMA ReadingKeeps ==
  ASSUME GeneratorInv, IdentifySection \/ EndSection \/ ParseLine, UNCHANGED controllerVars
  PROVE  GeneratorInv'
<1>0. /\ pc = "reading" /\ line < Len(input) /\ line' = line + 1 /\ input' = input
      /\ input \in Files /\ line \in Nat /\ StatesOK(tables)
      /\ SectionFlag(input, section, line) /\ selects' = selects
      /\ selects = [r \in DOMAIN selects |-> selects[r]]
  BY DEF GeneratorInv, IdentifySection, EndSection, ParseLine, ReadingLine, controllerVars
<1>1. /\ section = "none" => /\ Current.kind # "data"
                             /\ SectionFlag(input, checkIdentifier(Current), line + 1)
      /\ Current.kind = "blank" => Current.kind # "data" /\ SectionFlag(input, "none", line + 1)
      /\ section # "none" /\ Current.kind # "blank" /\ (Current.kind = "header" => section = "mux") =>
           /\ section \in Sections /\ SectionFlag(input, section, line + 1)
           /\ section # "mux" => line + 1 \in Places(input, section)
  BY <1>0, NextLine DEF Current
<1>2. ASSUME Separated(input)
      PROVE  /\ TablesRead(input, tables, line)
             /\ section = "none" => OwnSection(input, checkIdentifier(Current), line + 1)
             /\ Current.kind = "blank" => OwnSection(input, "none", line + 1)
             /\ section # "none" /\ Current.kind # "blank" =>
                  /\ Current.kind # "header" /\ line + 1 \in Places(input, section)
                  /\ OwnSection(input, section, line + 1)
  <2>1. TablesRead(input, tables, line) /\ OwnSection(input, section, line)
    BY <1>0, <1>2 DEF GeneratorInv, FileRead
  <2> QED BY <1>0, <1>2, <2>1, NextOwnLine DEF Current
<1>3. CASE IdentifySection
  <2>1. /\ pc' = pc /\ tables' = tables /\ section' = checkIdentifier(Current) /\ section = "none"
    BY <1>3 DEF IdentifySection
  <2>2. Separated(input) => TablesRead(input, tables, line + 1)
    BY <1>0, <1>1, <1>2, <2>1, NoData DEF Current
  <2> QED BY <1>0, <1>1, <1>2, <2>1, <2>2 DEF GeneratorInv, FileRead
<1>4. CASE EndSection
  <2>1. /\ pc' = pc /\ tables' = tables /\ section' = "none" /\ Current.kind = "blank"
    BY <1>4 DEF EndSection
  <2>2. Separated(input) => TablesRead(input, tables, line + 1)
    BY <1>0, <1>1, <1>2, <2>1, NoData DEF Current
  <2> QED BY <1>0, <1>1, <1>2, <2>1, <2>2 DEF GeneratorInv, FileRead
<1>5. CASE ParseLine
  <2>1. /\ section # "none" /\ Current.kind # "blank" /\ section' = section
        /\ pc' = IF tables'.status = "ok" THEN "reading" ELSE "exited"
        /\ \E bits \in Indeterminate : tables' = parseLine(tables, section, Current, bits)
    BY <1>5 DEF ParseLine
  <2>2. PICK bits \in Indeterminate : tables' = parseLine(tables, section, Current, bits)
    BY <2>1
  <2>3. CASE tables'.status # "ok"
    BY <1>0, <2>1, <2>3 DEF GeneratorInv, FileRead
  <2>4. CASE tables'.status = "ok"
    <3>1. Current.kind = "header" => section = "mux"
      <4>1. Ended(tables).status # "ok"
        BY <1>0, TableFields DEF Ended, StatesOK
      <4> QED BY <2>2, <2>4, <4>1 DEF parseLine
    <3>2. /\ section \in Sections /\ SectionFlag(input, section, line + 1)
          /\ section # "mux" => line + 1 \in Places(input, section)
      BY <1>1, <2>1, <3>1
    <3>3. StatesOK(tables')
      BY <1>0, <2>2, <2>4, <3>2, LineKeepsStates DEF Current
    <3>4. ASSUME Separated(input)
          PROVE  TablesRead(input, tables', line + 1) /\ OwnSection(input, section, line + 1)
      <4>1. line + 1 \in Places(input, section) /\ OwnSection(input, section, line + 1)
        BY <1>2, <2>1, <3>4
      <4>2. TablesRead(input, tables, line)
        BY <1>2, <3>4
      <4> QED BY <1>0, <2>2, <2>4, <3>2, <4>1, <4>2, LineRead DEF Current
    <3> QED BY <1>0, <2>1, <2>4, <3>2, <3>3, <3>4 DEF GeneratorInv, FileRead
  <2> QED BY <2>3, <2>4
<1> QED BY <1>3, <1>4, <1>5

\* Writing adds the states that are entered and not there.
LEMMA Written ==
  ASSUME DOMAIN tables = DOMAIN EmptyTables, WriteFile
  PROVE  /\ input' = input /\ line' = line /\ pc = "processed" /\ pc' \in {"written", "exited"}
         /\ pc' = "written" =>
              /\ tables' = writeFSM(tables) /\ tables.stateSeqList # <<>>
              /\ \A fu \in ToSet(tables.fuSeqList) :
                   tables.fuList[fu].operations # <<>> /\ ~(tables.fuList[fu].bits < 0)
<1> DEFINE t == generateFunctionModule(tables)
<1>1. /\ tables' = IF t.status = "ok" THEN writeFSM(t) ELSE t
      /\ pc' = IF tables'.status = "ok" THEN "written" ELSE "exited"
      /\ input' = input /\ line' = line /\ pc = "processed"
  BY Zenon DEF WriteFile
<1>2. Ended(tables).status # "ok"
  BY TableFields DEF Ended
<1>3. t.status = "ok" =>
        /\ t = tables
        /\ \A fu \in ToSet(tables.fuSeqList) :
             tables.fuList[fu].operations # <<>> /\ ~(tables.fuList[fu].bits < 0)
  BY <1>2 DEF generateFunctionModule
<1>4. writeFSM(tables).status = "ok" => tables.stateSeqList # <<>>
  BY <1>2 DEF writeFSM
<1> HIDE DEF t
<1> QED BY <1>1, <1>3, <1>4

LEMMA WritingKeepsStates ==
  ASSUME NEW t, StatesOK(t), t.stateSeqList # <<>>
  PROVE  LET u == writeFSM(t)
         IN  /\ DOMAIN u = DOMAIN t /\ u.no_states = t.no_states /\ u.bits_req = t.bits_req
             /\ u.stateSeqList = t.stateSeqList /\ u.regSeqList = t.regSeqList
             /\ u.rtOperationsList = t.rtOperationsList
             /\ DOMAIN u.stateList = DOMAIN t.stateList \cup EnteredStates(t)
             /\ \A s \in DOMAIN t.stateList : u.stateList[s] = t.stateList[s]
<1> DEFINE u == writeFSM(t)
           new == [s \in EnteredStates(t) |-> EmptyState]
<1>1. /\ DOMAIN u = DOMAIN t /\ u.no_states = t.no_states /\ u.bits_req = t.bits_req
      /\ u.stateSeqList = t.stateSeqList /\ u.regSeqList = t.regSeqList
      /\ u.rtOperationsList = t.rtOperationsList
      /\ u.stateList = Completed(t.stateList, new)
  BY TableFields DEF writeFSM, StatesOK
<1>2. /\ DOMAIN u.stateList = DOMAIN t.stateList \cup EnteredStates(t)
      /\ \A s \in DOMAIN t.stateList : u.stateList[s] = t.stateList[s]
  BY <1>1 DEF Completed
<1> QED BY <1>1, <1>2

\* A consistent file has every state that is entered.
LEMMA WritingAddsNothing ==
  ASSUME NEW file \in Files, NEW t, TablesRead(file, t, Len(file)), Consistent(file),
         t.stateSeqList # <<>>
  PROVE  KeepsLists(t, writeFSM(t))
<1> DEFINE D == DOMAIN t.stateList
<1>1. D = FlowStates(file)
  BY BeforeFinite DEF TablesRead, StatesRead, FlowStates, LinesOf
<1>2. ASSUME NEW s \in D PROVE ToSet(t.stateList[s].next) \subseteq D
  <2>1. t.stateList[s].next = Successors(FlowLine(file, s))
    BY DEF TablesRead, StatesRead
  <2> HIDE DEF D
  <2> QED BY <1>1, <2>1 DEF Consistent
<1>3. EnteredStates(t) \subseteq D
  <2> SUFFICES ASSUME NEW e \in EnteredStates(t) PROVE e \in D
    OBVIOUS
  <2> DEFINE After(s) == CASE t.stateList[s].no_ways = 1 -> ToSet(t.stateList[s].next)
                           [] t.stateList[s].no_ways = 2 /\ EnabledRegisters(t, s) # {} ->
                               ToSet(t.stateList[s].next)
                           [] OTHER -> {}
  <2>1. PICK s \in D : e \in After(s)
    BY DEF EnteredStates
  <2>2. After(s) = {} \/ After(s) = ToSet(t.stateList[s].next)
    OBVIOUS
  <2> HIDE DEF After, D
  <2> QED BY <1>2, <2>1, <2>2
<1> HIDE DEF D
<1>4. StatesOK(t)
  BY DEF TablesRead
<1> QED BY <1>3, <1>4, WritingKeepsStates DEF KeepsLists, D

LEMMA CompletingKeeps ==
  ASSUME GeneratorInv, PostProcess \/ WriteFile, UNCHANGED controllerVars
  PROVE  GeneratorInv'
<1>0. selects' = selects /\ selects = [r \in DOMAIN selects |-> selects[r]]
  BY DEF GeneratorInv, controllerVars
<1>1. CASE PostProcess
  <2> DEFINE c == populateVerilogStateRepresentations(tables)
             u == populateRegFuLinkNames(populateMuxFuLinkNames(c))
  <2>1. /\ StatesOK(tables) /\ input \in Files /\ line \in Nat
        /\ input' = input /\ line' = line /\ pc' = "processed" /\ tables' = u
        /\ Separated(input) => TablesRead(input, tables, Len(input))
    BY <1>1 DEF PostProcess, GeneratorInv, FileRead
  <2>2. KeepsLists(tables, c) /\ Coded(c)
    BY <2>1, StatesCoded
  <2> HIDE DEF c
  <2>3. StatesOK(c) /\ (Separated(input) => TablesRead(input, c, Len(input)))
    BY <2>1, <2>2, ListsKept
  <2>4. DOMAIN c = DOMAIN EmptyTables
    BY <2>3 DEF StatesOK
  <2>5. KeepsLists(c, u) /\ Coded(u)
    BY <2>2, <2>4, LinkingKeepsStates, OthersComplete
  <2> HIDE DEF u
  <2>6. StatesOK(u) /\ (Separated(input) => TablesRead(input, u, Len(input)))
    BY <2>3, <2>5, ListsKept
  <2> QED BY <1>0, <2>1, <2>5, <2>6 DEF GeneratorInv, FileRead
<1>2. CASE WriteFile
  <2>1. pc = "processed"
    BY <1>2 DEF WriteFile
  <2>2. /\ StatesOK(tables) /\ Coded(tables) /\ input \in Files /\ line \in Nat
        /\ Separated(input) => TablesRead(input, tables, Len(input))
    BY <2>1 DEF GeneratorInv, FileRead
  <2>3. DOMAIN tables = DOMAIN EmptyTables
    BY <2>2 DEF StatesOK
  <2>4. /\ input' = input /\ line' = line /\ pc' \in {"written", "exited"}
        /\ pc' = "written" => tables' = writeFSM(tables) /\ tables.stateSeqList # <<>>
    BY <1>2, <2>3, Written
  <2>5. CASE pc' = "exited"
    BY <1>0, <2>2, <2>4, <2>5 DEF GeneratorInv, FileRead
  <2>6. CASE pc' = "written"
    <3> DEFINE u == writeFSM(tables)
    <3>1. /\ u.bits_req = tables.bits_req /\ u.stateSeqList = tables.stateSeqList
          /\ \A s \in DOMAIN tables.stateList : u.stateList[s] = tables.stateList[s]
          /\ DOMAIN tables.stateList = ToSet(tables.stateSeqList)
      BY <2>2, <2>4, <2>6, WritingKeepsStates DEF StatesOK
    <3> HIDE DEF u
    <3>2. Coded(u)
      BY <2>2, <3>1 DEF Coded
    <3>3. ASSUME Consistent(input) PROVE TablesRead(input, u, Len(input))
      <4>1. TablesRead(input, tables, Len(input))
        BY <2>2, <3>3 DEF Consistent
      <4>2. KeepsLists(tables, u)
        BY <2>2, <2>4, <2>6, <3>3, <4>1, WritingAddsNothing DEF u
      <4> QED BY <4>1, <4>2, ListsKept
    <3>4. tables' = u
      BY <2>4, <2>6 DEF u
    <3> QED BY <1>0, <2>2, <2>4, <2>6, <3>2, <3>3, <3>4 DEF GeneratorInv, FileRead
  <2> QED BY <2>4, <2>5, <2>6
<1> QED BY <1>1, <1>2

LEMMA NextInv == GeneratorInv /\ [Next]_vars => GeneratorInv'
<1> SUFFICES ASSUME GeneratorInv, [Next]_vars PROVE GeneratorInv'
  OBVIOUS
<1>1. CASE GeneratorNext /\ UNCHANGED controllerVars
  BY <1>1, ReadingKeeps, CompletingKeeps DEF GeneratorNext
<1>2. CASE UNCHANGED generatorVars /\ \E info : Enter(info)
  <2>1. selects' = [r \in DOMAIN selects' |-> selects'[r]]
    <3>1. PICK info :
            selects' = [r \in DOMAIN info.selects \cup DOMAIN selects |->
                         IF r \in DOMAIN info.selects THEN info.selects[r] ELSE selects[r]]
      BY <1>2 DEF Enter, Completed
    <3> QED BY <3>1
  <2> QED BY <1>2, <2>1 DEF GeneratorInv, FileRead, generatorVars
<1>3. CASE UNCHANGED vars
  BY <1>3 DEF GeneratorInv, FileRead, vars, generatorVars, controllerVars
<1>4. Reset \/ Clock => UNCHANGED generatorVars /\ \E info : Enter(info)
  BY DEF Reset, Clock
<1> QED BY <1>1, <1>2, <1>3, <1>4 DEF Next

\* For every file the states that were read have their codes; and if a blank line ends each
\* section, the tables follow its lines: a state is as its first line says, the registers are
\* in their order, and only lines of the controller's section are states.
THEOREM GeneratorInvariant == Spec => []GeneratorInv
<1> QED BY InitInv, NextInv, PTL DEF Spec

\* The states have different codes, each as long as the state register, also when the
\* file gives a state two lines: bits_req counts the lines, the codes count the states
\* (populateVerilogStateRepresentations), and shifting a smaller number by the bits of
\* a greater one leaves 0.
THEOREM StatesHaveOwnCodes == Spec => []CodesDistinct
<1>1. GeneratorInv => CodesDistinct
  BY DEF GeneratorInv, CodesDistinct, Coded
<1> QED BY <1>1, GeneratorInvariant, PTL

-----------------------------------------------------------------------------
(***************************************************************************)
(* The controller and the flow graph.                                      *)
(***************************************************************************)

\* What is written for a consistent file agrees with its flow graph.
LEMMA TablesAreFlow ==
  ASSUME NEW file \in Files, NEW t, TablesRead(file, t, Len(file)), Consistent(file)
  PROVE  LET F == FlowOf(file)
             D == DOMAIN t.stateList
         IN  /\ D = DOMAIN F.next
             /\ t.stateSeqList[1] = F.first /\ F.first \in D
             /\ \A s \in D :
                  LET st == t.stateList[s]
                  IN  /\ st.no_ways \in 0 .. 2 /\ F.next[s] = st.next
                      /\ st.no_ways = 0 => st.next = <<>>
                      /\ st.no_ways = 1 => st.next = <<st.next[1]>> /\ st.next[1] \in D
                      /\ st.no_ways = 2 => /\ st.next = <<st.next[1], st.next[2]>>
                                           /\ st.next[1] \in D /\ st.next[2] \in D
             /\ \A s \in D : F.writes[s] = {w[1] : w \in writeToFromReg(t, s)}
             /\ \A s \in D : t.stateList[s].no_ways = 2 /\ EnabledRegisters(t, s) # {} =>
                  s \in DOMAIN F.test /\ F.test[s] = <<TestedRegister(t, s)>>
<1> DEFINE F == FlowOf(file)
           D == DOMAIN t.stateList
           P(sec) == Places(file, sec)
<1>1. \A sec : Before(file, sec, Len(file)) = P(sec)
  BY BeforeFinite
<1>2. /\ DOMAIN F.next = FlowStates(file) /\ DOMAIN F.test = FlowStates(file)
      /\ F.first = file[Min(P("fsm"))].name
      /\ \A s \in FlowStates(file) :
           /\ F.next[s] = Successors(FlowLine(file, s))
           /\ F.test[s] = IF s \in ControlStates(file) THEN <<Compared(file, s)>> ELSE <<>>
           /\ F.writes[s] = {l.out : l \in OperationsIn(file, s)}
  BY DEF FlowOf
<1> HIDE DEF F
<1>3. D = FlowStates(file)
  <2>1. D = {file[i].name : i \in P("fsm")}
    BY <1>1 DEF TablesRead, StatesRead
  <2> QED BY <2>1 DEF FlowStates, LinesOf
<1>4. t.stateSeqList[1] = F.first /\ F.first \in D
  <2>1. P("fsm") # {}
    BY DEF Consistent, FlowStates, LinesOf
  <2>2. P("fsm") \subseteq Nat
    BY PlacesAre
  <2>3. Min(P("fsm")) \in P("fsm")
    <3> HIDE DEF P
    <3> QED BY <2>1, <2>2, LeastNat
  <2>4. t.stateSeqList[1] = F.first
    BY <1>1, <1>2, <2>1 DEF TablesRead, StatesRead
  <2> QED BY <1>2, <1>3, <2>3, <2>4 DEF FlowStates, LinesOf
<1>5. ASSUME NEW s \in D
      PROVE  LET st == t.stateList[s]
             IN  /\ st.no_ways \in 0 .. 2 /\ F.next[s] = st.next
                 /\ st.no_ways = 0 => st.next = <<>>
                 /\ st.no_ways = 1 => st.next = <<st.next[1]>> /\ st.next[1] \in D
                 /\ st.no_ways = 2 => /\ st.next = <<st.next[1], st.next[2]>>
                                      /\ st.next[1] \in D /\ st.next[2] \in D
  <2> DEFINE st == t.stateList[s]
             l == FlowLine(file, s)
  <2>1. /\ l.ways \in 0 .. 2 /\ st.no_ways = l.ways /\ st.next = Successors(l)
    BY DEF TablesRead, StatesRead
  <2>2. F.next[s] = st.next
    BY <1>2, <1>3, <2>1
  <2>3. ToSet(st.next) \subseteq D
    BY <1>3, <2>1 DEF Consistent
  <2> HIDE DEF st, l
  <2>4. CASE l.ways = 0
    <3>1. st.next = <<>>
      BY <2>1, <2>4 DEF Successors
    <3> QED BY <2>1, <2>2, <2>4, <3>1 DEF st
  <2>5. CASE l.ways = 1
    <3>1. st.next = <<l.arms[1][2]>>
      BY <2>1, <2>5 DEF Successors
    <3>2. st.next[1] \in ToSet(st.next) /\ st.next = <<st.next[1]>>
      BY <3>1 DEF ToSet
    <3> QED BY <2>1, <2>2, <2>3, <2>5, <3>2 DEF st
  <2>6. CASE l.ways = 2
    <3>0. l.ways # 0 /\ l.ways # 1
      BY <2>6
    <3>1. st.next = <<ArmOf(l, TRUE), ArmOf(l, FALSE)>>
      BY <2>1, <2>6, <3>0, Zenon DEF Successors
    <3>2. PICK a, b : st.next = <<a, b>>
      BY <3>1, Zenon
    <3>3. st.next[1] \in ToSet(st.next) /\ st.next[2] \in ToSet(st.next)
          /\ st.next = <<st.next[1], st.next[2]>>
      BY <3>2 DEF ToSet
    <3> QED BY <2>1, <2>2, <2>3, <2>6, <3>3 DEF st
  <2> QED BY <2>1, <2>4, <2>5, <2>6
<1>6. ASSUME NEW s \in D PROVE F.writes[s] = {w[1] : w \in writeToFromReg(t, s)}
  <2> DEFINE Ops == Recorded(t)
             When(l) == l.block * 10 + l.timestep
             Q == {i \in P("rt") : file[i].op \in OperationTypes}
  <2>1. {<<o.state, o.out>> : o \in Ops} = {<<When(file[i]), file[i].out>> : i \in Q}
    BY <1>1 DEF TablesRead, TransfersRead, OperationsBefore
  <2>2. ASSUME NEW x PROVE x \in F.writes[s] <=> \E i \in Q : When(file[i]) = s /\ file[i].out = x
    <3>1. F.writes[s] = {l.out : l \in OperationsIn(file, s)}
      BY <1>2, <1>3
    <3>2. \A l : l \in OperationsIn(file, s) <=> \E i \in Q : l = file[i] /\ When(l) = s
      BY DEF OperationsIn, Operations, LinesOf
    <3> HIDE DEF Q, When
    <3> QED BY <3>1, <3>2
  <2>3. {w[1] : w \in writeToFromReg(t, s)} = {o.out : o \in {x \in Ops : x.state = s}}
    <3> DEFINE Computed(op) == IF op.out \in DOMAIN t.regWireList THEN t.regWireList[op.out] ELSE op.wire
               Source(op) == IF op.op = "A" THEN Computed(op) ELSE op.in1
               Now == {x \in ToSet(t.rtOperationsList) : x.state = s /\ x.op \in OperationTypes}
    <3>1. writeToFromReg(t, s) = {<<o.out, Source(o)>> : o \in Now}
      BY Zenon DEF writeToFromReg
    <3> HIDE DEF Source, Now, Computed
    <3>2. ASSUME NEW x PROVE x \in {w[1] : w \in writeToFromReg(t, s)} <=> \E o \in Now : x = o.out
      <4> DEFINE W == writeToFromReg(t, s)
      <4>1. \A o \in Now : <<o.out, Source(o)>> \in W
        BY <3>1
      <4>2. \A w \in W : \E o \in Now : w = <<o.out, Source(o)>>
        BY <3>1
      <4> HIDE DEF W
      <4>3. \A o \in Now : \E w \in W : o.out = w[1]
        BY <4>1
      <4>4. \A w \in W : \E o \in Now : w[1] = o.out
        BY <4>2
      <4>5. x \in {w[1] : w \in W} <=> \E o \in Now : x = o.out
        BY <4>3, <4>4
      <4> QED BY <4>5 DEF W
    <3>3. \A x : x \in {w[1] : w \in writeToFromReg(t, s)} <=> x \in {o.out : o \in Now}
      BY <3>2
    <3>4. Now = {x \in Ops : x.state = s}
      BY DEF Now, Recorded
    <3> QED BY <3>3, <3>4
  <2> HIDE DEF Ops, When, Q
  <2>4. ASSUME NEW x PROVE x \in F.writes[s] <=> <<s, x>> \in {<<When(file[i]), file[i].out>> : i \in Q}
    BY <2>2
  <2>5. ASSUME NEW x PROVE x \in {w[1] : w \in writeToFromReg(t, s)} <=> <<s, x>> \in {<<o.state, o.out>> : o \in Ops}
    <3>1. x \in {w[1] : w \in writeToFromReg(t, s)} <=> \E o \in Ops : o.state = s /\ o.out = x
      BY <2>3
    <3> QED BY <3>1
  <2>6. \A x : x \in F.writes[s] <=> x \in {w[1] : w \in writeToFromReg(t, s)}
    BY <2>1, <2>4, <2>5
  <2> QED BY <2>6
<1>7. ASSUME NEW s \in D, t.stateList[s].no_ways = 2, EnabledRegisters(t, s) # {}
      PROVE  s \in DOMAIN F.test /\ F.test[s] = <<TestedRegister(t, s)>>
  <2> DEFINE enable == t.stateList[s].reg_select
             K == EnabledRegisters(t, s)
             k == Min(K)
             r == t.regSeqList[k]
  <2>1. K \subseteq Nat
    <3>1. IsList(t.regSeqList)
      BY DEF TablesRead, RegistersRead
    <3>2. DOMAIN t.regSeqList = 1 .. Len(t.regSeqList) /\ Len(t.regSeqList) \in Nat
      BY <3>1, LenProperties DEF IsList
    <3> QED BY <3>2 DEF EnabledRegisters
  <2>2. k \in K
    <3> HIDE DEF K
    <3> QED BY <1>7, <2>1, LeastNat DEF K
  <2>3. r \in DOMAIN enable /\ enable[r] = << 1 >>
    <3> HIDE DEF k
    <3> QED BY <2>2 DEF EnabledRegisters
  <2> HIDE DEF k
  <2>4. Enabled(file, s, r)
    BY <2>3 DEF TablesRead, EnablesRead
  <2>5. s \in ControlStates(file)
    <3>1. t.stateList[s].no_ways = FlowLine(file, s).ways
      BY DEF TablesRead, StatesRead
    <3> QED BY <1>3, <1>7, <3>1 DEF ControlStates
  <2>6. r = Compared(file, s)
    BY <2>4, <2>5 DEF Enabled, Consistent
  <2>7. TestedRegister(t, s) = r
    BY DEF TestedRegister, k
  <2> QED BY <1>2, <1>3, <2>5, <2>6, <2>7
<1> QED BY <1>2, <1>3, <1>4, <1>5, <1>6, <1>7 DEF F

\* The case statement of the controller.
LEMMA ItemsAre ==
  ASSUME NEW t, NEW s, t.stateList[s].no_ways \in 0 .. 2
  PROVE  LET st == t.stateList[s]
             item == CaseItem(t, s)
         IN  /\ st.no_ways = 1 =>
                  /\ item.test = <<>> /\ item.writes = writeToFromReg(t, s)
                  /\ item.zero = writeStateInfo(t, st.next[1])
                  /\ item.other = writeStateInfo(t, st.next[1])
             /\ st.no_ways = 2 /\ EnabledRegisters(t, s) # {} =>
                  /\ item.test = TestedRegister(t, s) /\ item.writes = writeToFromReg(t, s)
                  /\ item.zero = writeStateInfo(t, st.next[2])
                  /\ item.other = writeStateInfo(t, st.next[1])
             /\ st.no_ways = 2 /\ EnabledRegisters(t, s) = {} =>
                  /\ item.test = <<>> /\ item.writes = {}
                  /\ item.zero = [code |-> st.code, selects |-> <<>>] /\ item.other = item.zero
             /\ st.no_ways = 0 =>
                  /\ item.test = <<>> /\ item.writes = {}
                  /\ item.zero.code = t.stateList[t.stateSeqList[1]].code
                  /\ item.other = item.zero
<1> DEFINE st == t.stateList[s]
           item == CaseItem(t, s)
           Stay == [code |-> st.code, selects |-> <<>>]
           first == [code |-> t.stateList[t.stateSeqList[1]].code, selects |-> <<>>]
<1>1. ASSUME st.no_ways = 1
      PROVE  item = [writes |-> writeToFromReg(t, s), test |-> <<>>,
                     zero |-> writeStateInfo(t, st.next[1]), other |-> writeStateInfo(t, st.next[1])]
  BY <1>1 DEF CaseItem
<1>2. ASSUME st.no_ways = 2, EnabledRegisters(t, s) # {}
      PROVE  item = [writes |-> writeToFromReg(t, s), test |-> TestedRegister(t, s),
                     zero |-> writeStateInfo(t, st.next[2]), other |-> writeStateInfo(t, st.next[1])]
  BY <1>2 DEF CaseItem
<1>3. ASSUME st.no_ways = 2, EnabledRegisters(t, s) = {}
      PROVE  item = [writes |-> {}, test |-> <<>>, zero |-> Stay, other |-> Stay]
  BY <1>3 DEF CaseItem
<1>4. ASSUME st.no_ways = 0
      PROVE  item = [writes |-> {}, test |-> <<>>, zero |-> first, other |-> first]
  BY <1>4 DEF CaseItem
<1> HIDE DEF item, st
<1>5. st.no_ways = 1 => /\ item.test = <<>> /\ item.writes = writeToFromReg(t, s)
                        /\ item.zero = writeStateInfo(t, st.next[1])
                        /\ item.other = writeStateInfo(t, st.next[1])
  BY <1>1
<1>6. st.no_ways = 2 /\ EnabledRegisters(t, s) # {} =>
        /\ item.test = TestedRegister(t, s) /\ item.writes = writeToFromReg(t, s)
        /\ item.zero = writeStateInfo(t, st.next[2])
        /\ item.other = writeStateInfo(t, st.next[1])
  BY <1>2
<1>7. st.no_ways = 2 /\ EnabledRegisters(t, s) = {} =>
        item.test = <<>> /\ item.writes = {} /\ item.zero = Stay /\ item.other = item.zero
  BY <1>3
<1>8. st.no_ways = 0 =>
        /\ item.test = <<>> /\ item.writes = {}
        /\ item.zero.code = t.stateList[t.stateSeqList[1]].code /\ item.other = item.zero
  BY <1>4
<1> QED BY <1>5, <1>6, <1>7, <1>8 DEF item, st

\* A list of one entry, and a list of two.
LEMMA OneOrTwo ==
  ASSUME NEW L, NEW a, NEW b
  PROVE  /\ L = <<a>> => Len(L) = 1 /\ L[1] = a
         /\ L = <<a, b>> => Len(L) = 2 /\ L[1] = a /\ L[2] = b
<1>1. Len(<<a>>) = 1 /\ <<a>>[1] = a
  OBVIOUS
<1>2. Len(<<a, b>>) = 2 /\ <<a, b>>[1] = a /\ <<a, b>>[2] = b
  OBVIOUS
<1> QED BY <1>1, <1>2

\* A code is found again.
LEMMA CodeFound ==
  ASSUME NEW L, NEW r \in DOMAIN L, \A x \in DOMAIN L : L[x].code = L[r].code => x = r
  PROVE  (CHOOSE x \in DOMAIN L : L[x].code = L[r].code) = r
OBVIOUS

\* The position of the controller while it has the code of a state.
LEMMA PositionIs ==
  ASSUME GeneratorInv, pc = "written", StatesOK(tables), NEW r \in DOMAIN tables.stateList
  PROVE  /\ tables.stateList[r].code = state => PositionOf(state) = <<r>>
         /\ tables.stateList[r].code = state' /\ tables' = tables => PositionOf(state)' = <<r>>
<1> DEFINE L == tables.stateList
<1>1. Coded(tables) /\ DOMAIN L = ToSet(tables.stateSeqList)
  BY DEF GeneratorInv, StatesOK
<1>2. \A x \in DOMAIN L : L[x].code = L[r].code => x = r
  BY <1>1 DEF Coded
<1>3. L[r].code # <<>>
  <2>1. Len(L[r].code) = tables.bits_req /\ tables.bits_req # 0
    BY <1>1 DEF Coded
  <2> QED BY <2>1
<1>4. (CHOOSE x \in DOMAIN L : L[x].code = L[r].code) = r
  <2> HIDE DEF L
  <2> QED BY <1>2, CodeFound DEF L
<1>5. ASSUME L[r].code = state PROVE PositionOf(state) = <<r>>
  BY <1>3, <1>4, <1>5, Zenon DEF PositionOf
<1>6. ASSUME L[r].code = state', tables' = tables PROVE PositionOf(state)' = <<r>>
  BY <1>3, <1>4, <1>6, Zenon DEF PositionOf
<1> QED BY <1>5, <1>6

LEMMA StepImplements ==
  ASSUME GeneratorInv, Reset \/ Clock
  PROVE  [schedule!Next]_<<state, selects, zero>>
<1> DEFINE D == DOMAIN tables.stateList
           F == Flow
           st(s) == tables.stateList[s]
<1>1. /\ pc = "written" /\ Consistent(input) /\ input \in Files
      /\ TablesRead(input, tables, Len(input))
      /\ tables' = tables /\ input' = input
      /\ selects = [r \in DOMAIN selects |-> selects[r]]
  BY DEF GeneratorInv, FileRead, Reset, Clock, Running, generatorVars
<1>2. Flow' = Flow
  BY <1>1 DEF Flow
<1>3. /\ D = DOMAIN F.next
      /\ tables.stateSeqList[1] = F.first /\ F.first \in D
      /\ \A s \in D :
           /\ st(s).no_ways \in 0 .. 2 /\ F.next[s] = st(s).next
           /\ st(s).no_ways = 0 => st(s).next = <<>>
           /\ st(s).no_ways = 1 => st(s).next = <<st(s).next[1]>> /\ st(s).next[1] \in D
           /\ st(s).no_ways = 2 => /\ st(s).next = <<st(s).next[1], st(s).next[2]>>
                                   /\ st(s).next[1] \in D /\ st(s).next[2] \in D
      /\ \A s \in D : F.writes[s] = {w[1] : w \in writeToFromReg(tables, s)}
      /\ \A s \in D : st(s).no_ways = 2 /\ EnabledRegisters(tables, s) # {} =>
           s \in DOMAIN F.test /\ F.test[s] = <<TestedRegister(tables, s)>>
  BY <1>1, TablesAreFlow DEF Flow
<1>4. \A r \in D : /\ st(r).code = state => PositionOf(state) = <<r>>
                   /\ st(r).code = state' => PositionOf(state)' = <<r>>
  BY <1>1, PositionIs DEF TablesRead
<1> HIDE DEF F
<1>5. \A r \in D : writeStateInfo(tables, r).code = st(r).code
  BY DEF writeStateInfo
<1>6. TestedRegisters \subseteq schedule!Tested
  <2>1. ASSUME NEW s \in D, CaseItem(tables, s).test # <<>>
        PROVE  CaseItem(tables, s).test \in schedule!Tested
    <3>1. st(s).no_ways = 2 /\ EnabledRegisters(tables, s) # {}
          /\ CaseItem(tables, s).test = TestedRegister(tables, s)
      <4>1. st(s).no_ways \in 0 .. 2
        BY <1>3
      <4> DEFINE item == CaseItem(tables, s)
      <4>2. /\ st(s).no_ways = 1 => item.test = <<>>
            /\ st(s).no_ways = 0 => item.test = <<>>
            /\ st(s).no_ways = 2 /\ EnabledRegisters(tables, s) = {} => item.test = <<>>
            /\ st(s).no_ways = 2 /\ EnabledRegisters(tables, s) # {} =>
                 item.test = TestedRegister(tables, s)
        BY <4>1, ItemsAre DEF st
      <4> HIDE DEF item, st, D
      <4>3. st(s).no_ways = 0 \/ st(s).no_ways = 1 \/ st(s).no_ways = 2
        BY <4>1
      <4>4. item.test # <<>>
        BY <2>1 DEF item
      <4> QED BY <4>2, <4>3, <4>4, Zenon DEF item
    <3>2. s \in DOMAIN F.test /\ F.test[s] = <<TestedRegister(tables, s)>>
      BY <1>3, <3>1
    <3>3. F.test[s] # <<>> /\ F.test[s][1] = CaseItem(tables, s).test
      BY <3>1, <3>2
    <3> QED BY <3>2, <3>3 DEF schedule!Tested, F
  <2> QED BY <2>1 DEF TestedRegisters
<1>7. ASSUME NEW s \in D, AssignRegisters(writeToFromReg(tables, s))
      PROVE  schedule!Assign(F.writes[s])
  <2>1. F.writes[s] = {w[1] : w \in writeToFromReg(tables, s)}
    BY <1>3
  <2>2. zero' \in SUBSET TestedRegisters /\ zero' \ F.writes[s] = zero \ F.writes[s]
    BY <1>7, <2>1 DEF AssignRegisters
  <2> QED BY <1>6, <2>2 DEF schedule!Assign
<1> HIDE DEF D, st
<1>8. CASE Reset
  <2> DEFINE first == tables.stateSeqList[1]
  <2>1. /\ st(first).no_ways = 1 /\ state' = writeStateInfo(tables, first).code
        /\ AssignRegisters(writeToFromReg(tables, first))
    BY <1>8 DEF Reset, Enter, st
  <2>2. first = F.first /\ first \in D
    BY <1>3
  <2> HIDE DEF first
  <2>3. Len(F.next[F.first]) = 1
    <3>1. st(first).no_ways = 1 => st(first).next = <<st(first).next[1]>>
      BY <1>3, <2>2
    <3>2. F.next[F.first] = <<st(first).next[1]>>
      BY <1>3, <2>1, <2>2, <3>1
    <3> QED BY <3>2, OneOrTwo, Zenon
  <2>4. PositionOf(state)' = <<F.first>>
    BY <1>4, <1>5, <2>1, <2>2
  <2>5. schedule!Assign(F.writes[F.first])
    BY <1>7, <2>1, <2>2
  <2>6. schedule!Reset
    BY <1>2, <2>3, <2>4, <2>5 DEF schedule!Reset, F
  <2> QED BY <2>6 DEF schedule!Next
<1>9. CASE Clock
  <2>1. PICK s \in D :
          LET item == CaseItem(tables, s)
          IN  /\ state = st(s).code
              /\ Enter(IF item.test \in zero THEN item.zero ELSE item.other)
              /\ AssignRegisters(item.writes)
    BY <1>9 DEF Clock, D, st
  <2> DEFINE item == CaseItem(tables, s)
             info == IF item.test \in zero THEN item.zero ELSE item.other
  <2>2. /\ state' = info.code
        /\ selects' = [r \in DOMAIN info.selects \cup DOMAIN selects |->
                         IF r \in DOMAIN info.selects THEN info.selects[r] ELSE selects[r]]
        /\ AssignRegisters(item.writes) /\ PositionOf(state) = <<s>>
    BY <1>4, <2>1 DEF Enter, Completed
  <2>3. s \in D /\ st(s).no_ways \in 0 .. 2
    BY <1>3
  <2>i. /\ st(s).no_ways = 1 =>
             /\ item.writes = writeToFromReg(tables, s)
             /\ info = writeStateInfo(tables, st(s).next[1])
        /\ st(s).no_ways = 2 /\ EnabledRegisters(tables, s) # {} =>
             /\ item.writes = writeToFromReg(tables, s)
             /\ info = writeStateInfo(tables, st(s).next[IF TestedRegister(tables, s) \in zero THEN 2 ELSE 1])
        /\ st(s).no_ways = 2 /\ EnabledRegisters(tables, s) = {} =>
             item.writes = {} /\ info = [code |-> st(s).code, selects |-> <<>>]
        /\ st(s).no_ways = 0 =>
             item.writes = {} /\ info.code = st(tables.stateSeqList[1]).code
    BY <2>3, ItemsAre DEF st
  <2> HIDE DEF item, info
  <2>w. zero' \in SUBSET TestedRegisters /\ zero' \ {w[1] : w \in item.writes} = zero \ {w[1] : w \in item.writes}
    BY <2>2 DEF AssignRegisters
  <2>u. ASSUME item.writes = {} PROVE zero' = zero
    <3>1. {w[1] : w \in item.writes} = {}
      BY <2>u
    <3>2. zero' \ {} = zero \ {}
      BY <2>w, <3>1
    <3> QED BY <3>2
  <2>4. CASE st(s).no_ways = 1
    <3>0. F.next[s] = <<st(s).next[1]>> /\ st(s).next[1] \in D
      BY <1>3, <2>3, <2>4
    <3>1. Len(F.next[s]) = 1 /\ F.next[s] = <<st(s).next[1]>> /\ st(s).next[1] \in D
      BY <3>0, OneOrTwo, Zenon
    <3>2. state' = st(st(s).next[1]).code
      BY <1>5, <2>2, <2>4, <2>i, <3>1
    <3>3. PositionOf(state)' = F.next[s]
      BY <1>4, <3>1, <3>2
    <3>4. schedule!Assign(F.writes[s])
      BY <1>7, <2>2, <2>3, <2>4, <2>i
    <3>5. schedule!GoOn(PositionOf(state)[1])
      BY <2>2, <3>1, <3>3, <3>4 DEF schedule!GoOn, F
    <3>6. PositionOf(state) # <<>>
      BY <2>2
    <3> QED BY <1>2, <3>5, <3>6 DEF schedule!Next, schedule!Step
  <2>5. CASE st(s).no_ways = 2 /\ EnabledRegisters(tables, s) # {}
    <3> DEFINE k == IF TestedRegister(tables, s) \in zero THEN 2 ELSE 1
    <3>a. /\ F.next[s] = st(s).next /\ st(s).next[1] \in D /\ st(s).next[2] \in D
          /\ F.next[s] = <<st(s).next[1], st(s).next[2]>>
          /\ F.test[s] = <<TestedRegister(tables, s)>>
      <4>1. F.next[s] = st(s).next /\ st(s).next = <<st(s).next[1], st(s).next[2]>>
        BY <1>3, <2>3, <2>5
      <4>2. st(s).next[1] \in D /\ st(s).next[2] \in D
        BY <1>3, <2>3, <2>5
      <4>3. F.test[s] = <<TestedRegister(tables, s)>>
        BY <1>3, <2>3, <2>5
      <4> QED BY <4>1, <4>2, <4>3
    <3>b. k = 1 \/ k = 2
      OBVIOUS
    <3>c. st(s).next[k] \in D
      BY <3>a, <3>b
    <3>d. F.test[s][1] = TestedRegister(tables, s)
      BY <3>a, OneOrTwo, Zenon
    <3>e. Len(F.next[s]) = 2
      BY <3>a, OneOrTwo, Zenon
    <3>1. /\ Len(F.next[s]) = 2 /\ F.next[s] = st(s).next /\ st(s).next[k] \in D
          /\ F.test[s][1] = TestedRegister(tables, s)
      BY <3>a, <3>c, <3>d, <3>e
    <3>2. state' = st(st(s).next[k]).code
      BY <1>5, <2>2, <2>5, <2>i, <3>1
    <3>3. PositionOf(state)' = <<F.next[s][IF F.test[s][1] \in zero THEN 2 ELSE 1]>>
      BY <1>4, <3>1, <3>2
    <3>4. schedule!Assign(F.writes[s])
      BY <1>7, <2>2, <2>3, <2>5, <2>i
    <3>5. schedule!Branch(PositionOf(state)[1])
      BY <2>2, <3>1, <3>3, <3>4 DEF schedule!Branch, F
    <3>6. PositionOf(state) # <<>>
      BY <2>2
    <3> QED BY <1>2, <3>5, <3>6 DEF schedule!Next, schedule!Step
  <2>6. CASE st(s).no_ways = 2 /\ EnabledRegisters(tables, s) = {}
    <3>1. state' = state /\ info.selects = <<>>
      BY <2>1, <2>2, <2>6, <2>i
    <3>2. selects' = selects
      <4>1. DOMAIN info.selects = {}
        BY <3>1
      <4>2. DOMAIN info.selects \cup DOMAIN selects = DOMAIN selects
        BY <4>1
      <4>3. selects' = [r \in DOMAIN selects |-> selects[r]]
        BY <2>2, <4>1, <4>2
      <4> QED BY <1>1, <4>3
    <3> QED BY <2>6, <2>i, <2>u, <3>1, <3>2
  <2>7. CASE st(s).no_ways = 0
    <3>1. F.next[s] = <<>>
      BY <1>3, <2>3, <2>7
    <3>2. state' = st(F.first).code /\ F.first \in D
      BY <1>3, <2>2, <2>7, <2>i
    <3>3. PositionOf(state)' = <<F.first>>
      BY <1>4, <3>2
    <3>4. zero' = zero
      BY <2>7, <2>i, <2>u
    <3>5. schedule!Finish(PositionOf(state)[1])
      BY <2>2, <3>1, <3>3, <3>4 DEF schedule!Finish, F
    <3>6. PositionOf(state) # <<>>
      BY <2>2
    <3> QED BY <1>2, <3>5, <3>6 DEF schedule!Next, schedule!Step
  <2> QED BY <2>3, <2>4, <2>5, <2>6, <2>7
<1> QED BY <1>8, <1>9

\* The written controller implements the flow graph of every consistent file: whatever the
\* tests and resets, it is in a state of the graph, assigns what the state assigns, takes
\* the arm the tested register calls for, and starts again after a final state (writeFSM).
THEOREM ControllerImplementsSchedule == Spec => ImplementsSchedule
<1>1. GeneratorInv /\ [Next]_vars => [schedule!Next]_<<state, selects, zero>>
  <2> SUFFICES ASSUME GeneratorInv, [Next]_vars PROVE [schedule!Next]_<<state, selects, zero>>
    OBVIOUS
  <2>1. CASE Reset \/ Clock
    BY <2>1, StepImplements
  <2>2. CASE UNCHANGED controllerVars
    BY <2>2 DEF controllerVars
  <2> QED BY <2>1, <2>2 DEF Next, vars, controllerVars
<1> QED BY <1>1, GeneratorInvariant, PTL DEF Spec, ImplementsSchedule

-----------------------------------------------------------------------------
(***************************************************************************)
(* The tables of the data path, while the file is read.                    *)
(***************************************************************************)

\* The names, and the pairs of a structure and its bits, of the lines so far.
NamesBefore(file, sec, n) == {file[i].name : i \in Before(file, sec, n)}
PairsBefore(file, sec, n) == UNION {ToSet(file[i].pairs) : i \in Before(file, sec, n)}

RegistersNamed(file, t, n) ==
  DOMAIN t.registers = NamesBefore(file, "registers", n) /\ ToSet(t.regSeqList) = DOMAIN t.registers

\* A multiplexer as its line says, which codes besides those of the line may have no input.
MuxIs(t, l) ==
  LET mux == t.muxList[l.name]
  IN  /\ {"output", "input_cs", "bits", "select", "wire"} \subseteq DOMAIN mux
      /\ mux.output = l.output /\ t.muxLinks[l.name] = InputsOf(l) \cup {l.output}
      /\ \A c \in DOMAIN mux.input_cs : mux.input_cs[c] \in InputsOf(l) \cup {HighZ}

\* A multiplexer has the bits of its pair, and an input, or none, for each of their codes.
BitsAre(mux, bits) ==
  mux.bits = bits /\ {getBinary(i, bits) : i \in 0 .. 2^bits - 1} \subseteq DOMAIN mux.input_cs

MuxesRead(file, t, n) ==
  /\ DOMAIN t.muxList = NamesBefore(file, "mux", n) /\ DOMAIN t.muxLinks = DOMAIN t.muxList
  /\ IsList(t.muxSeqList) /\ ToSet(t.muxSeqList) = DOMAIN t.muxList
  /\ \A i \in Before(file, "mux", n) : MuxIs(t, file[i])
  /\ \A x \in PairsBefore(file, "csmux", n) : x[1] \in DOMAIN t.muxList /\ BitsAre(t.muxList[x[1]], x[2])
  /\ t.is_mux_in_file = {x[2] : x \in PairsBefore(file, "csmux", n)}

\* A unit as its line says, not connected yet.
UnitIs(fu, l) ==
  /\ DOMAIN EmptyFu \subseteq DOMAIN fu
  /\ fu.operations = l.operations /\ fu.output = l.name \o <<"_wire">>
  /\ fu.input1 = <<>> /\ fu.input2 = <<>>

\* The bits of a unit are those of a pair.
BitsGiven(file, t, n, x) ==
  /\ x[1] \in DOMAIN t.fuList
  /\ \E y \in PairsBefore(file, "csfu", n) : y[1] = x[1] /\ y[2] = t.fuList[x[1]].bits

UnitsRead(file, t, n) ==
  /\ DOMAIN t.fuList = NamesBefore(file, "fu", n)
  /\ IsList(t.fuSeqList) /\ ToSet(t.fuSeqList) = DOMAIN t.fuList
  /\ \A i \in Before(file, "fu", n) : UnitIs(t.fuList[file[i].name], file[i])
  /\ \A x \in PairsBefore(file, "csfu", n) : BitsGiven(file, t, n, x)

\* What an operation names is a register, a port that has been entered, or the wire of a unit.
OperationNamed(file, t, op) ==
  LET registers == NamesIn(file, "registers")
      ports == DOMAIN t.portWidth
  IN  /\ op.op = "A" => op.out \in registers /\ \E f \in NamesIn(file, "fu") : op.wire = f \o <<"_wire">>
      /\ op.op \in {"R", "O"} => op.out \in registers \cup ports /\ op.in1 \in registers \cup ports

OperationsNamed(file, t, n) ==
  /\ \A op \in ToSet(t.rtOperationsList) : OperationNamed(file, t, op)
  /\ \A i \in Before(file, "rt", n) : file[i].op = "A" => file[i].fu \in DOMAIN t.regFuLinkList
  /\ \A f \in DOMAIN t.regFuLinkList : \E i \in Before(file, "rt", n) :
       file[i].op = "A" /\ file[i].fu = f /\ t.regFuLinkList[f] = <<file[i].in1, file[i].in2>>

DataPathRead(file, t, n) ==
  /\ RegistersNamed(file, t, n) /\ MuxesRead(file, t, n) /\ UnitsRead(file, t, n)
  /\ OperationsNamed(file, t, n)

\* Every name the written modules use is declared in them; NamesResolve says it of `tables'.
MuxesResolve(t) ==
  /\ \A m \in DOMAIN t.muxList :
       LET mux == instantiateMux(t)[m]
       IN  {mux.select, mux.out} \cup ToSet(mux.inputs) \subseteq DeclaredNames(t)
  /\ {2^t.muxList[m].bits : m \in DOMAIN t.muxList} = {2^b : b \in t.is_mux_in_file}

UnitsResolve(t) ==
  \A f \in DOMAIN t.fuList :
    LET fu == instantiateFU(t)[f]
    IN  /\ {fu.out} \cup ToSet(fu.inputs) \subseteq DeclaredNames(t)
        /\ OperationCodes(t.fuList[f]) # <<>>

WritesResolve(t) ==
  \A s : \A w \in writeToFromReg(t, s) : {w[1], w[2]} \subseteq DeclaredNames(t)

\* While a file that says what its names are is read, the tables hold the data path so far;
\* afterwards every name resolves.
DataPathInv ==
  NamesGiven(input) =>
    /\ pc = "reading" => DataPathRead(input, tables, line)
    /\ pc \in {"processed", "written"} /\ (\A fu \in ToSet(tables.fuSeqList) : InOperandOrder(fu)) =>
         MuxesResolve(tables) /\ UnitsResolve(tables) /\ WritesResolve(tables)

LEMMA BeforeNamed ==
  ASSUME NEW file \in Files, NEW sec
  PROVE  /\ NamesBefore(file, sec, 0) = {} /\ PairsBefore(file, sec, 0) = {}
         /\ NamesBefore(file, sec, Len(file)) = NamesIn(file, sec)
         /\ PairsBefore(file, sec, Len(file)) = PairsIn(file, sec)
<1>1. Before(file, sec, 0) = {} /\ Before(file, sec, Len(file)) = Places(file, sec)
  BY BeforeFinite
<1>2. NamesIn(file, sec) = {file[i].name : i \in Places(file, sec)}
  BY DEF NamesIn, LinesOf
<1>3. PairsIn(file, sec) = UNION {ToSet(file[i].pairs) : i \in Places(file, sec)}
  BY DEF PairsIn, LinesOf
<1> QED BY <1>1, <1>2, <1>3 DEF NamesBefore, PairsBefore

LEMMA NamesNext ==
  ASSUME NEW file \in Files, NEW n \in Nat, NEW sec
  PROVE  /\ n + 1 \in Places(file, sec) =>
              /\ NamesBefore(file, sec, n + 1) = NamesBefore(file, sec, n) \cup {file[n + 1].name}
              /\ PairsBefore(file, sec, n + 1) = PairsBefore(file, sec, n) \cup ToSet(file[n + 1].pairs)
              /\ Before(file, sec, n + 1) = Before(file, sec, n) \cup {n + 1}
         /\ n + 1 \notin Places(file, sec) =>
              /\ NamesBefore(file, sec, n + 1) = NamesBefore(file, sec, n)
              /\ PairsBefore(file, sec, n + 1) = PairsBefore(file, sec, n)
              /\ Before(file, sec, n + 1) = Before(file, sec, n)
<1>1. n + 1 \in Places(file, sec) => Before(file, sec, n + 1) = Before(file, sec, n) \cup {n + 1}
  BY BeforeNext
<1>2. n + 1 \notin Places(file, sec) => Before(file, sec, n + 1) = Before(file, sec, n)
  BY BeforeNext
<1> QED BY <1>1, <1>2 DEF NamesBefore, PairsBefore

\* Tables that a line of another section leaves alone, or a line that is not data.
LEMMA OtherPaths ==
  ASSUME NEW file \in Files, NEW n \in Nat, NEW t, NEW u, DataPathRead(file, t, n)
  PROVE  /\ n + 1 \notin Places(file, "registers") /\ u.registers = t.registers
             /\ u.regSeqList = t.regSeqList => RegistersNamed(file, u, n + 1)
         /\ n + 1 \notin Places(file, "mux") /\ n + 1 \notin Places(file, "csmux")
             /\ u.muxList = t.muxList /\ u.muxSeqList = t.muxSeqList /\ u.muxLinks = t.muxLinks
             /\ u.is_mux_in_file = t.is_mux_in_file => MuxesRead(file, u, n + 1)
         /\ n + 1 \notin Places(file, "fu") /\ n + 1 \notin Places(file, "csfu")
             /\ u.fuList = t.fuList /\ u.fuSeqList = t.fuSeqList => UnitsRead(file, u, n + 1)
         /\ n + 1 \notin Places(file, "rt") /\ u.rtOperationsList = t.rtOperationsList
             /\ u.regFuLinkList = t.regFuLinkList
             /\ u.portWidth = t.portWidth => OperationsNamed(file, u, n + 1)
<1>1. ASSUME NEW sec, n + 1 \notin Places(file, sec)
      PROVE  /\ NamesBefore(file, sec, n + 1) = NamesBefore(file, sec, n)
             /\ PairsBefore(file, sec, n + 1) = PairsBefore(file, sec, n)
             /\ Before(file, sec, n + 1) = Before(file, sec, n)
  BY <1>1, NamesNext
<1>2. ASSUME n + 1 \notin Places(file, "registers"), u.registers = t.registers,
             u.regSeqList = t.regSeqList
      PROVE  RegistersNamed(file, u, n + 1)
  BY <1>1, <1>2 DEF DataPathRead, RegistersNamed
<1>3. ASSUME n + 1 \notin Places(file, "mux"), n + 1 \notin Places(file, "csmux"),
             u.muxList = t.muxList, u.muxSeqList = t.muxSeqList, u.muxLinks = t.muxLinks,
             u.is_mux_in_file = t.is_mux_in_file
      PROVE  MuxesRead(file, u, n + 1)
  BY <1>1, <1>3 DEF DataPathRead, MuxesRead, MuxIs
<1>4. ASSUME n + 1 \notin Places(file, "fu"), n + 1 \notin Places(file, "csfu"),
             u.fuList = t.fuList, u.fuSeqList = t.fuSeqList
      PROVE  UnitsRead(file, u, n + 1)
  BY <1>1, <1>4 DEF DataPathRead, UnitsRead, BitsGiven
<1>5. ASSUME n + 1 \notin Places(file, "rt"), u.rtOperationsList = t.rtOperationsList,
             u.regFuLinkList = t.regFuLinkList, u.portWidth = t.portWidth
      PROVE  OperationsNamed(file, u, n + 1)
  BY <1>1, <1>5 DEF DataPathRead, OperationsNamed, OperationNamed
<1> QED BY <1>2, <1>3, <1>4, <1>5

LEMMA RegisterLineNamed ==
  ASSUME NEW file \in Files, NEW n \in Nat, n + 1 \in Places(file, "registers"),
         NEW t, DataPathRead(file, t, n), TablesRead(file, t, n)
  PROVE  DataPathRead(file, populateRegisters(t, file[n + 1]), n + 1)
<1> DEFINE l == file[n + 1]
           u == populateRegisters(t, l)
<1>1. /\ u.registers = Insert(t.registers, l.name, l.width)
      /\ u.regSeqList = Append(t.regSeqList, l.name)
      /\ u.muxList = t.muxList /\ u.muxSeqList = t.muxSeqList /\ u.muxLinks = t.muxLinks
      /\ u.is_mux_in_file = t.is_mux_in_file /\ u.fuList = t.fuList /\ u.fuSeqList = t.fuSeqList
      /\ u.rtOperationsList = t.rtOperationsList /\ u.regFuLinkList = t.regFuLinkList
      /\ u.portWidth = t.portWidth
  BY TableFields DEF populateRegisters, TablesRead, StatesOK
<1> HIDE DEF u
<1>2. \A sec : sec # "registers" => n + 1 \notin Places(file, sec)
  BY DEF Places
<1>3. MuxesRead(file, u, n + 1) /\ UnitsRead(file, u, n + 1) /\ OperationsNamed(file, u, n + 1)
  BY <1>1, <1>2, OtherPaths
<1>4. DOMAIN u.registers = DOMAIN t.registers \cup {l.name}
  BY <1>1 DEF Insert
<1>5. ToSet(u.regSeqList) = ToSet(t.regSeqList) \cup {l.name}
  BY <1>1, ListAppended DEF TablesRead, RegistersRead
<1>6. RegistersNamed(file, u, n + 1)
  BY <1>4, <1>5, NamesNext DEF DataPathRead, RegistersNamed
<1> QED BY <1>3, <1>6 DEF DataPathRead, u

LEMMA LinesAre ==
  ASSUME NEW file \in Files
  PROVE  /\ \A i \in Places(file, "mux") : IsList(file[i].inputs) /\ file[i].name # <<>>
                                           /\ file[i].name \in Seq(STRING) /\ file[i].output \in Seq(STRING)
         /\ \A i \in Places(file, "fu") : IsList(file[i].operations)
         /\ \A sec \in {"csmux", "csfu"} : \A i \in Places(file, sec) :
              IsList(file[i].pairs) /\ \A x \in ToSet(file[i].pairs) : x[2] \in Nat
<1>1. \A sec : \A i \in Places(file, sec) :
        i \in DOMAIN file /\ file[i].kind = "data" /\ file[i].section = sec
  BY DEF Places
<1> QED BY <1>1, FilesAssumption

\* A place in a list, and what is there.
LEMMA PlacesInList ==
  ASSUME NEW s, IsList(s)
  PROVE  /\ DOMAIN s \subseteq Nat /\ DOMAIN s = 1 .. Len(s) /\ Len(s) \in Nat
         /\ \A k \in DOMAIN s : s[k] \in ToSet(s)
         /\ \A x \in ToSet(s) : \E k \in DOMAIN s : s[k] = x
<1>1. DOMAIN s = 1 .. Len(s) /\ Len(s) \in Nat
  BY LenProperties DEF IsList
<1> QED BY <1>1 DEF ToSet

\* The name of a line that comes next is new.
LEMMA NameIsNew ==
  ASSUME NEW file \in Files, NamesGiven(file), NEW n \in Nat, NEW sec \in {"mux", "fu"},
         n + 1 \in Places(file, sec)
  PROVE  file[n + 1].name \notin NamesBefore(file, sec, n)
<1>1. \A i \in Before(file, sec, n) : i \in Places(file, sec) /\ i \in Nat /\ i <= n
  BY PlacesAre DEF Before
<1>2. \A i \in Nat : i <= n => i # n + 1
  OBVIOUS
<1> QED BY <1>1, <1>2 DEF NamesGiven, NamesBefore

LEMMA MuxLineNamed ==
  ASSUME NEW file \in Files, NamesGiven(file), NEW n \in Nat, n + 1 \in Places(file, "mux"),
         NEW t, DataPathRead(file, t, n), TablesRead(file, t, n), NEW bits
  PROVE  DataPathRead(file, populateMux(t, file[n + 1], bits), n + 1)
<1> DEFINE l == file[n + 1]
           u == populateMux(t, l, bits)
           First(code) == Min({k \in DOMAIN l.inputs : l.inputs[k][2] = code})
           mux == [output   |-> l.output,
                   input_cs |-> [code \in {x[2] : x \in ToSet(l.inputs)} |-> l.inputs[First(code)][1]],
                   bits     |-> bits,
                   select   |-> <<"select", ToString(t.mux_count + 1)>>,
                   wire     |-> <<>>]
<1>1. /\ u.muxList = Insert(t.muxList, l.name, mux)
      /\ u.muxSeqList = Append(t.muxSeqList, l.name)
      /\ u.muxLinks = Insert(t.muxLinks, l.name, InputsOf(l) \cup {l.output})
      /\ u.is_mux_in_file = t.is_mux_in_file
      /\ u.registers = t.registers /\ u.regSeqList = t.regSeqList
      /\ u.fuList = t.fuList /\ u.fuSeqList = t.fuSeqList
      /\ u.rtOperationsList = t.rtOperationsList /\ u.regFuLinkList = t.regFuLinkList
      /\ u.portWidth = t.portWidth
  BY TableFields DEF populateMux, TablesRead, StatesOK, InputsOf
<1>2. /\ {"output", "input_cs", "bits", "select", "wire"} \subseteq DOMAIN mux
      /\ mux.output = l.output
      /\ \A c \in DOMAIN mux.input_cs : mux.input_cs[c] \in InputsOf(l)
  <2>1. ASSUME NEW c \in {x[2] : x \in ToSet(l.inputs)} PROVE l.inputs[First(c)][1] \in InputsOf(l)
    <3> DEFINE K == {k \in DOMAIN l.inputs : l.inputs[k][2] = c}
    <3>1. IsList(l.inputs)
      BY LinesAre
    <3>2. K \subseteq Nat /\ K # {}
      BY <2>1, <3>1, PlacesInList
    <3>3. Min(K) \in K
      BY <3>2, LeastNat
    <3>4. l.inputs[First(c)] \in ToSet(l.inputs)
      BY <3>1, <3>3, PlacesInList
    <3> QED BY <3>4 DEF InputsOf
  <2> HIDE DEF First
  <2>2. /\ mux.input_cs = [code \in {x[2] : x \in ToSet(l.inputs)} |-> l.inputs[First(code)][1]]
        /\ {"output", "input_cs", "bits", "select", "wire"} \subseteq DOMAIN mux /\ mux.output = l.output
    OBVIOUS
  <2> HIDE DEF mux
  <2> QED BY <2>1, <2>2
<1> HIDE DEF u, mux
<1>3. \A sec : sec # "mux" => n + 1 \notin Places(file, sec)
  BY DEF Places
<1>4. RegistersNamed(file, u, n + 1) /\ UnitsRead(file, u, n + 1) /\ OperationsNamed(file, u, n + 1)
  BY <1>1, <1>3, OtherPaths
<1>5. /\ DOMAIN t.muxList = NamesBefore(file, "mux", n) /\ DOMAIN t.muxLinks = DOMAIN t.muxList
      /\ l.name \notin DOMAIN t.muxList
  BY NameIsNew DEF DataPathRead, MuxesRead
<1>6. /\ DOMAIN u.muxList = DOMAIN t.muxList \cup {l.name} /\ DOMAIN u.muxLinks = DOMAIN u.muxList
      /\ u.muxList[l.name] = mux /\ u.muxLinks[l.name] = InputsOf(l) \cup {l.output}
      /\ \A m \in DOMAIN t.muxList : u.muxList[m] = t.muxList[m] /\ u.muxLinks[m] = t.muxLinks[m]
  BY <1>1, <1>5 DEF Insert
<1>7. /\ NamesBefore(file, "mux", n + 1) = NamesBefore(file, "mux", n) \cup {l.name}
      /\ Before(file, "mux", n + 1) = Before(file, "mux", n) \cup {n + 1}
      /\ PairsBefore(file, "csmux", n + 1) = PairsBefore(file, "csmux", n)
  BY <1>3, NamesNext
<1>8. IsList(u.muxSeqList) /\ ToSet(u.muxSeqList) = ToSet(t.muxSeqList) \cup {l.name}
  BY <1>1, ListAppended DEF DataPathRead, MuxesRead
<1>9. ASSUME NEW i \in Before(file, "mux", n + 1) PROVE MuxIs(u, file[i])
  <2>1. CASE i = n + 1
    BY <1>2, <1>6, <2>1 DEF MuxIs
  <2>2. CASE i \in Before(file, "mux", n)
    <3>1. file[i].name \in DOMAIN t.muxList /\ MuxIs(t, file[i])
      BY <2>2 DEF DataPathRead, MuxesRead, NamesBefore
    <3> QED BY <1>6, <3>1 DEF MuxIs
  <2> QED BY <1>7, <1>9, <2>1, <2>2
<1>10. \A x \in PairsBefore(file, "csmux", n + 1) : x[1] \in DOMAIN u.muxList /\ BitsAre(u.muxList[x[1]], x[2])
  BY <1>6, <1>7 DEF DataPathRead, MuxesRead
<1>11. MuxesRead(file, u, n + 1)
  <2> HIDE DEF l
  <2>1. u.is_mux_in_file = {x[2] : x \in PairsBefore(file, "csmux", n + 1)}
    BY <1>1, <1>7 DEF DataPathRead, MuxesRead
  <2>2. ToSet(u.muxSeqList) = DOMAIN u.muxList /\ DOMAIN u.muxList = NamesBefore(file, "mux", n + 1)
    BY <1>5, <1>6, <1>7, <1>8 DEF DataPathRead, MuxesRead
  <2> QED BY <1>6, <1>8, <1>9, <1>10, <2>1, <2>2 DEF MuxesRead
<1> QED BY <1>4, <1>11 DEF DataPathRead, u

\* The last pair of a line that names a structure.
LEMMA LastPair ==
  ASSUME NEW l, IsList(l.pairs), NEW m \in NamedIn(l)
  PROVE  \E x \in ToSet(l.pairs) : x[1] = m /\ x[2] = BitsIn(l, m)
<1> DEFINE K == {k \in DOMAIN l.pairs : l.pairs[k][1] = m}
<1>1. DOMAIN l.pairs = 1 .. Len(l.pairs) /\ Len(l.pairs) \in Nat
  BY PlacesInList
<1>2. IsFiniteSet(K) /\ K \subseteq Int
  <2>1. K \subseteq 1 .. Len(l.pairs) /\ IsFiniteSet(1 .. Len(l.pairs))
    BY <1>1, FS_Interval
  <2>2. 1 .. Len(l.pairs) \subseteq Int
    BY <1>1
  <2> HIDE DEF K
  <2> QED BY <2>1, <2>2, FS_Subset
<1>3. K # {}
  <2>1. PICK x \in ToSet(l.pairs) : x[1] = m
    BY DEF NamedIn
  <2> QED BY <2>1, PlacesInList
<1> HIDE DEF K
<1>4. Max(K) \in K
  <2>1. \E k \in K : \A x \in K : x <= k
    BY <1>2, <1>3, Extremes
  <2>2. \E k \in K : \A x \in K : k >= x
    BY <1>2, <2>1
  <2> QED BY <2>2 DEF Max
<1>5. l.pairs[Max(K)] \in ToSet(l.pairs) /\ l.pairs[Max(K)][1] = m
  BY <1>4, PlacesInList DEF K
<1>6. l.pairs[Max(K)][2] = BitsIn(l, m)
  BY DEF BitsIn, LastPlace, K
<1> QED BY <1>5, <1>6

\* A multiplexer whose bits are stored, and what is completed for them.
LEMMA BitsStored ==
  ASSUME NEW mux, {"output", "input_cs", "bits", "select", "wire"} \subseteq DOMAIN mux, NEW bits
  PROVE  LET new == populateImpedenceIfEmpty([mux EXCEPT !.bits = bits])
         IN  /\ DOMAIN new = DOMAIN mux /\ new.output = mux.output /\ BitsAre(new, bits)
             /\ \A c \in DOMAIN new.input_cs :
                  new.input_cs[c] = HighZ \/ (c \in DOMAIN mux.input_cs /\ new.input_cs[c] = mux.input_cs[c])
<1> DEFINE set == [mux EXCEPT !.bits = bits]
           new == populateImpedenceIfEmpty(set)
           Codes == {getBinary(i, bits) : i \in 0 .. 2^bits - 1}
           none == [code \in Codes |-> HighZ]
<1>1. /\ DOMAIN set = DOMAIN mux /\ set.output = mux.output /\ set.bits = bits
      /\ set.input_cs = mux.input_cs
  OBVIOUS
<1> HIDE DEF set
<1>2. new = [set EXCEPT !.input_cs = Completed(@, none)]
  BY <1>1 DEF populateImpedenceIfEmpty
<1> HIDE DEF new
<1>3. /\ DOMAIN new = DOMAIN mux /\ new.output = mux.output /\ new.bits = bits
      /\ new.input_cs = Completed(mux.input_cs, none)
  BY <1>1, <1>2
<1>4. DOMAIN none = Codes /\ \A c \in Codes : none[c] = HighZ
  OBVIOUS
<1> HIDE DEF none
<1>5. /\ DOMAIN new.input_cs = DOMAIN mux.input_cs \cup Codes
      /\ \A c \in DOMAIN new.input_cs :
           new.input_cs[c] = IF c \in DOMAIN mux.input_cs THEN mux.input_cs[c] ELSE none[c]
  BY <1>3, <1>4 DEF Completed
<1>6. BitsAre(new, bits)
  BY <1>3, <1>5 DEF BitsAre
<1> HIDE DEF Codes
<1>7. ASSUME NEW c \in DOMAIN new.input_cs
      PROVE  new.input_cs[c] = HighZ \/ (c \in DOMAIN mux.input_cs /\ new.input_cs[c] = mux.input_cs[c])
  <2>1. c \in DOMAIN mux.input_cs \/ c \in Codes
    BY <1>5
  <2>2. CASE c \in DOMAIN mux.input_cs
    BY <1>5, <2>2
  <2>3. CASE c \in Codes /\ c \notin DOMAIN mux.input_cs
    <3>1. none[c] = HighZ
      BY <1>4, <2>3
    <3>2. new.input_cs[c] = none[c]
      BY <1>5, <2>3
    <3> QED BY <3>1, <3>2
  <2> QED BY <2>1, <2>2, <2>3
<1> QED BY <1>3, <1>6, <1>7 DEF new, set

LEMMA MuxBitsNamed ==
  ASSUME NEW file \in Files, NamesGiven(file), NEW n \in Nat, n + 1 \in Places(file, "csmux"),
         NEW t, DataPathRead(file, t, n), TablesRead(file, t, n),
         populateBitsInMux(t, file[n + 1]).status = "ok"
  PROVE  DataPathRead(file, populateBitsInMux(t, file[n + 1]), n + 1)
<1> DEFINE l == file[n + 1]
           u == populateBitsInMux(t, l)
           New(m) == populateImpedenceIfEmpty([t.muxList[m] EXCEPT !.bits = BitsIn(l, m)])
<1>1. /\ NamedIn(l) \subseteq DOMAIN t.muxList
      /\ u.muxList = [m \in DOMAIN t.muxList |-> IF m \in NamedIn(l) THEN New(m) ELSE t.muxList[m]]
      /\ u.is_mux_in_file = t.is_mux_in_file \cup {x[2] : x \in ToSet(l.pairs)}
      /\ u.muxSeqList = t.muxSeqList /\ u.muxLinks = t.muxLinks
      /\ u.registers = t.registers /\ u.regSeqList = t.regSeqList
      /\ u.fuList = t.fuList /\ u.fuSeqList = t.fuSeqList
      /\ u.rtOperationsList = t.rtOperationsList /\ u.regFuLinkList = t.regFuLinkList
      /\ u.portWidth = t.portWidth
  <2>1. Ended(t).status # "ok"
    BY TableFields DEF Ended, TablesRead, StatesOK
  <2>2. NamedIn(l) \subseteq DOMAIN t.muxList
    BY <2>1 DEF populateBitsInMux
  <2> QED BY <2>2, TableFields DEF populateBitsInMux, TablesRead, StatesOK
<1> HIDE DEF u, New
<1>2. \A sec : sec # "csmux" => n + 1 \notin Places(file, sec)
  BY DEF Places
<1>3. RegistersNamed(file, u, n + 1) /\ UnitsRead(file, u, n + 1) /\ OperationsNamed(file, u, n + 1)
  BY <1>1, <1>2, OtherPaths
<1>4. /\ PairsBefore(file, "csmux", n + 1) = PairsBefore(file, "csmux", n) \cup ToSet(l.pairs)
      /\ NamesBefore(file, "mux", n + 1) = NamesBefore(file, "mux", n)
      /\ Before(file, "mux", n + 1) = Before(file, "mux", n)
  BY <1>2, NamesNext
<1>5. IsList(l.pairs)
  BY LinesAre
<1>6. \A i \in Before(file, "mux", n) : file[i].name \in DOMAIN t.muxList /\ MuxIs(t, file[i])
  BY DEF DataPathRead, MuxesRead, NamesBefore
<1>7. ASSUME NEW i \in Before(file, "mux", n) PROVE MuxIs(u, file[i])
  <2> DEFINE m == file[i].name
             old == t.muxList[m]
  <2>1. /\ m \in DOMAIN t.muxList /\ u.muxLinks[m] = InputsOf(file[i]) \cup {file[i].output}
        /\ {"output", "input_cs", "bits", "select", "wire"} \subseteq DOMAIN old
        /\ old.output = file[i].output
        /\ \A c \in DOMAIN old.input_cs : old.input_cs[c] \in InputsOf(file[i]) \cup {HighZ}
    BY <1>1, <1>6 DEF MuxIs
  <2>2. CASE m \notin NamedIn(l)
    BY <1>1, <2>1, <2>2 DEF MuxIs
  <2>3. CASE m \in NamedIn(l)
    <3> HIDE DEF l
    <3>1. /\ DOMAIN New(m) = DOMAIN old /\ New(m).output = old.output
          /\ \A c \in DOMAIN New(m).input_cs :
               \/ New(m).input_cs[c] = HighZ
               \/ c \in DOMAIN old.input_cs /\ New(m).input_cs[c] = old.input_cs[c]
      BY <2>1, BitsStored DEF New
    <3>2. u.muxList[m] = New(m)
      BY <1>1, <2>1, <2>3
    <3> HIDE DEF old
    <3> QED BY <2>1, <3>1, <3>2 DEF MuxIs
  <2> QED BY <2>2, <2>3
<1>8. ASSUME NEW x \in PairsBefore(file, "csmux", n + 1)
      PROVE  x[1] \in DOMAIN u.muxList /\ BitsAre(u.muxList[x[1]], x[2])
  <2>1. x[1] \in DOMAIN t.muxList
    <3>1. x \in PairsBefore(file, "csmux", n) => x[1] \in DOMAIN t.muxList
      BY DEF DataPathRead, MuxesRead
    <3>2. x \in ToSet(l.pairs) => x[1] \in DOMAIN t.muxList
      BY <1>1 DEF NamedIn
    <3> QED BY <1>4, <3>1, <3>2
  <2>2. CASE x[1] \notin NamedIn(l)
    <3>1. x \in PairsBefore(file, "csmux", n)
      BY <1>4, <2>2 DEF NamedIn
    <3> QED BY <1>1, <2>1, <2>2, <3>1 DEF DataPathRead, MuxesRead
  <2>3. CASE x[1] \in NamedIn(l)
    <3>1. PICK y \in ToSet(l.pairs) : y[1] = x[1] /\ y[2] = BitsIn(l, x[1])
      BY <1>5, <2>3, LastPair
    <3>2. x \in PairsIn(file, "csmux") /\ y \in PairsIn(file, "csmux")
      <4>1. PairsBefore(file, "csmux", n + 1) \subseteq PairsIn(file, "csmux")
        BY DEF PairsBefore, PairsIn, LinesOf, Before
      <4> QED BY <1>4, <3>1, <4>1
    <3>3. x[2] = BitsIn(l, x[1])
      BY <3>1, <3>2 DEF NamesGiven
    <3>4. \E i \in Before(file, "mux", n) : file[i].name = x[1]
      BY <2>1 DEF DataPathRead, MuxesRead, NamesBefore
    <3>5. {"output", "input_cs", "bits", "select", "wire"} \subseteq DOMAIN t.muxList[x[1]]
      BY <1>6, <3>4 DEF MuxIs
    <3>6. BitsAre(New(x[1]), BitsIn(l, x[1]))
      BY <3>5, BitsStored DEF New
    <3> QED BY <1>1, <2>1, <2>3, <3>3, <3>6
  <2> QED BY <2>2, <2>3
<1>9. u.is_mux_in_file = {x[2] : x \in PairsBefore(file, "csmux", n + 1)}
  BY <1>1, <1>4 DEF DataPathRead, MuxesRead
<1>10. DOMAIN u.muxList = DOMAIN t.muxList
  BY <1>1
<1>11. MuxesRead(file, u, n + 1)
  BY <1>1, <1>4, <1>7, <1>8, <1>9, <1>10 DEF DataPathRead, MuxesRead
<1> QED BY <1>3, <1>11 DEF DataPathRead, u

LEMMA UnitLineNamed ==
  ASSUME NEW file \in Files, NamesGiven(file), NEW n \in Nat, n + 1 \in Places(file, "fu"),
         NEW t, DataPathRead(file, t, n), TablesRead(file, t, n), NEW bits
  PROVE  DataPathRead(file, populateFu(t, file[n + 1], bits), n + 1)
<1> DEFINE l == file[n + 1]
           u == populateFu(t, l, bits)
           fu == [EmptyFu EXCEPT !.operations = l.operations, !.bits = bits,
                                 !.output = l.name \o <<"_wire">>]
<1>1. /\ u.fuList = Insert(t.fuList, l.name, fu) /\ u.fuSeqList = Append(t.fuSeqList, l.name)
      /\ u.muxList = t.muxList /\ u.muxSeqList = t.muxSeqList /\ u.muxLinks = t.muxLinks
      /\ u.is_mux_in_file = t.is_mux_in_file
      /\ u.registers = t.registers /\ u.regSeqList = t.regSeqList
      /\ u.rtOperationsList = t.rtOperationsList /\ u.regFuLinkList = t.regFuLinkList
      /\ u.portWidth = t.portWidth
  BY TableFields DEF populateFu, TablesRead, StatesOK
<1>2. UnitIs(fu, l)
  <2>1. {"bits", "operations", "input1", "input2", "output", "select"} = DOMAIN EmptyFu
        /\ EmptyFu.input1 = <<>> /\ EmptyFu.input2 = <<>>
    BY DEF EmptyFu
  <2>2. /\ DOMAIN fu = DOMAIN EmptyFu /\ fu.operations = l.operations
        /\ fu.output = l.name \o <<"_wire">> /\ fu.input1 = <<>> /\ fu.input2 = <<>>
    BY <2>1
  <2> HIDE DEF fu
  <2> QED BY <2>2 DEF UnitIs
<1> HIDE DEF u, fu
<1>3. \A sec : sec # "fu" => n + 1 \notin Places(file, sec)
  BY DEF Places
<1>4. RegistersNamed(file, u, n + 1) /\ MuxesRead(file, u, n + 1) /\ OperationsNamed(file, u, n + 1)
  BY <1>1, <1>3, OtherPaths
<1>5. DOMAIN t.fuList = NamesBefore(file, "fu", n) /\ l.name \notin DOMAIN t.fuList
  BY NameIsNew DEF DataPathRead, UnitsRead
<1>6. /\ DOMAIN u.fuList = DOMAIN t.fuList \cup {l.name}
      /\ u.fuList[l.name] = fu /\ \A f \in DOMAIN t.fuList : u.fuList[f] = t.fuList[f]
  BY <1>1, <1>5 DEF Insert
<1>7. /\ NamesBefore(file, "fu", n + 1) = NamesBefore(file, "fu", n) \cup {l.name}
      /\ Before(file, "fu", n + 1) = Before(file, "fu", n) \cup {n + 1}
  BY NamesNext
<1>8. IsList(u.fuSeqList) /\ ToSet(u.fuSeqList) = ToSet(t.fuSeqList) \cup {l.name}
  BY <1>1, ListAppended DEF DataPathRead, UnitsRead
<1>9. ASSUME NEW i \in Before(file, "fu", n + 1) PROVE UnitIs(u.fuList[file[i].name], file[i])
  <2>1. CASE i = n + 1
    BY <1>2, <1>6, <2>1
  <2>2. CASE i \in Before(file, "fu", n)
    <3>1. file[i].name \in DOMAIN t.fuList /\ UnitIs(t.fuList[file[i].name], file[i])
      BY <2>2 DEF DataPathRead, UnitsRead, NamesBefore
    <3> QED BY <1>6, <3>1
  <2> QED BY <1>7, <1>9, <2>1, <2>2
<1>b. \A x \in PairsBefore(file, "csfu", n + 1) : BitsGiven(file, u, n + 1, x)
  <2>1. PairsBefore(file, "csfu", n + 1) = PairsBefore(file, "csfu", n)
    BY <1>3, NamesNext
  <2> QED BY <1>6, <2>1 DEF DataPathRead, UnitsRead, BitsGiven
<1>10. UnitsRead(file, u, n + 1)
  <2> HIDE DEF l
  <2> QED BY <1>5, <1>6, <1>7, <1>8, <1>9, <1>b DEF DataPathRead, UnitsRead
<1> QED BY <1>4, <1>10 DEF DataPathRead, u

LEMMA UnitBitsNamed ==
  ASSUME NEW file \in Files, NEW n \in Nat, n + 1 \in Places(file, "csfu"),
         NEW t, DataPathRead(file, t, n), TablesRead(file, t, n),
         populateBitsInFU(t, file[n + 1]).status = "ok"
  PROVE  DataPathRead(file, populateBitsInFU(t, file[n + 1]), n + 1)
<1> DEFINE l == file[n + 1]
           u == populateBitsInFU(t, l)
<1>1. /\ DOMAIN u.fuList = DOMAIN t.fuList
      /\ \A f \in DOMAIN t.fuList :
           \/ f \notin NamedIn(l) /\ u.fuList[f] = t.fuList[f]
           \/ /\ f \in NamedIn(l)
              /\ \E select : u.fuList[f] = [t.fuList[f] EXCEPT !.bits = BitsIn(l, f), !.select = select]
      /\ u.fuSeqList = t.fuSeqList
      /\ u.muxList = t.muxList /\ u.muxSeqList = t.muxSeqList /\ u.muxLinks = t.muxLinks
      /\ u.is_mux_in_file = t.is_mux_in_file
      /\ u.registers = t.registers /\ u.regSeqList = t.regSeqList
      /\ u.rtOperationsList = t.rtOperationsList /\ u.regFuLinkList = t.regFuLinkList
      /\ u.portWidth = t.portWidth
  <2>1. Ended(t).status # "ok"
    BY TableFields DEF Ended, TablesRead, StatesOK
  <2>2. NamedIn(l) \subseteq DOMAIN t.fuList
    BY <2>1 DEF populateBitsInFU
  <2> DEFINE Numbered(k) == Cardinality({j \in 1 .. k - 1 : l.pairs[j][2] > 0})
             Select(f) == <<"fu", ToString(Numbered(LastPlace(l, f))), "_select">>
             Stored(f) == [t.fuList[f] EXCEPT !.bits = BitsIn(l, f),
                                           !.select = IF BitsIn(l, f) > 0 THEN Select(f) ELSE @]
  <2>3. u = [t EXCEPT !.fuList = [f \in DOMAIN @ |-> IF f \in NamedIn(l) THEN Stored(f) ELSE @[f]]]
    BY <2>2 DEF populateBitsInFU
  <2>4. ASSUME NEW f PROVE \E select : Stored(f) = [t.fuList[f] EXCEPT !.bits = BitsIn(l, f), !.select = select]
    <3> DEFINE select == IF BitsIn(l, f) > 0 THEN Select(f) ELSE t.fuList[f].select
    <3>1. Stored(f) = [t.fuList[f] EXCEPT !.bits = BitsIn(l, f), !.select = select]
      OBVIOUS
    <3> HIDE DEF Stored, select
    <3> QED BY <3>1
  <2> HIDE DEF Stored, l, u
  <2>5. /\ u.fuList = [f \in DOMAIN t.fuList |-> IF f \in NamedIn(l) THEN Stored(f) ELSE t.fuList[f]]
        /\ u.fuSeqList = t.fuSeqList
        /\ u.muxList = t.muxList /\ u.muxSeqList = t.muxSeqList /\ u.muxLinks = t.muxLinks
        /\ u.is_mux_in_file = t.is_mux_in_file
        /\ u.registers = t.registers /\ u.regSeqList = t.regSeqList
        /\ u.rtOperationsList = t.rtOperationsList /\ u.regFuLinkList = t.regFuLinkList
        /\ u.portWidth = t.portWidth
    BY <2>3, TableFields DEF TablesRead, StatesOK
  <2>6. ASSUME NEW f \in DOMAIN t.fuList
        PROVE  \/ f \notin NamedIn(l) /\ u.fuList[f] = t.fuList[f]
               \/ /\ f \in NamedIn(l)
                  /\ \E select : u.fuList[f] = [t.fuList[f] EXCEPT !.bits = BitsIn(l, f), !.select = select]
    <3>1. u.fuList[f] = IF f \in NamedIn(l) THEN Stored(f) ELSE t.fuList[f]
      BY <2>5
    <3>2. f \in NamedIn(l) => u.fuList[f] = Stored(f)
      BY <3>1
    <3>3. f \notin NamedIn(l) => u.fuList[f] = t.fuList[f]
      BY <3>1
    <3> QED BY <2>4, <3>2, <3>3, Zenon
  <2>7. DOMAIN u.fuList = DOMAIN t.fuList
    BY <2>5
  <2> QED BY <2>5, <2>6, <2>7, Zenon DEF l, u
<1>2. NamedIn(l) \subseteq DOMAIN t.fuList
  <2>1. Ended(t).status # "ok"
    BY TableFields DEF Ended, TablesRead, StatesOK
  <2> QED BY <2>1 DEF populateBitsInFU
<1> HIDE DEF u
<1>3. \A sec : sec # "csfu" => n + 1 \notin Places(file, sec)
  BY DEF Places
<1>4. RegistersNamed(file, u, n + 1) /\ MuxesRead(file, u, n + 1) /\ OperationsNamed(file, u, n + 1)
  BY <1>1, <1>3, OtherPaths
<1>5. /\ NamesBefore(file, "fu", n + 1) = NamesBefore(file, "fu", n)
      /\ Before(file, "fu", n + 1) = Before(file, "fu", n)
  BY <1>3, NamesNext
<1>6. ASSUME NEW i \in Before(file, "fu", n) PROVE UnitIs(u.fuList[file[i].name], file[i])
  <2> DEFINE f == file[i].name
             old == t.fuList[f]
             new == u.fuList[f]
  <2>1. f \in DOMAIN t.fuList /\ UnitIs(old, file[i])
    BY DEF DataPathRead, UnitsRead, NamesBefore
  <2>2. CASE f \notin NamedIn(l)
    BY <1>1, <2>1, <2>2
  <2>3. CASE f \in NamedIn(l)
    <3>1. PICK select : new = [old EXCEPT !.bits = BitsIn(l, f), !.select = select]
      BY <1>1, <2>1, <2>3
    <3> HIDE DEF new, old
    <3>2. {"bits", "operations", "input1", "input2", "output", "select"} \subseteq DOMAIN old
      BY <2>1 DEF UnitIs, EmptyFu
    <3>3. /\ DOMAIN new = DOMAIN old /\ new.bits = BitsIn(l, f)
          /\ new.operations = old.operations /\ new.output = old.output
          /\ new.input1 = old.input1 /\ new.input2 = old.input2
      BY <3>1, <3>2
    <3>5. UnitIs(new, file[i])
      <4> HIDE DEF l
      <4> QED BY <2>1, <3>3 DEF UnitIs
    <3> QED BY <3>5 DEF new
  <2> QED BY <2>2, <2>3
<1>b. ASSUME NEW x \in PairsBefore(file, "csfu", n + 1) PROVE BitsGiven(file, u, n + 1, x)
  <2>1. PairsBefore(file, "csfu", n + 1) = PairsBefore(file, "csfu", n) \cup ToSet(l.pairs)
    BY NamesNext
  <2>2. CASE x[1] \in NamedIn(l)
    <3>1. PICK y \in ToSet(l.pairs) : y[1] = x[1] /\ y[2] = BitsIn(l, x[1])
      <4>1. IsList(l.pairs)
        BY LinesAre
      <4> QED BY <2>2, <4>1, LastPair
    <3>2. x[1] \in DOMAIN t.fuList
      BY <1>2, <2>2
    <3>3. PICK select : u.fuList[x[1]] = [t.fuList[x[1]] EXCEPT !.bits = BitsIn(l, x[1]), !.select = select]
      BY <1>1, <2>2, <3>2
    <3>4. PICK i \in Before(file, "fu", n) : file[i].name = x[1]
      BY <3>2 DEF DataPathRead, UnitsRead, NamesBefore
    <3>5. {"bits", "select"} \subseteq DOMAIN t.fuList[x[1]]
      BY <3>4 DEF DataPathRead, UnitsRead, UnitIs, EmptyFu
    <3>6. u.fuList[x[1]].bits = BitsIn(l, x[1])
      BY <3>3, <3>5
    <3> QED BY <1>1, <2>1, <3>1, <3>2, <3>6 DEF BitsGiven
  <2>3. CASE x[1] \notin NamedIn(l)
    <3>1. x \in PairsBefore(file, "csfu", n)
      BY <2>1, <2>3 DEF NamedIn
    <3>2. BitsGiven(file, t, n, x)
      BY <3>1 DEF DataPathRead, UnitsRead
    <3> QED BY <1>1, <2>1, <2>3, <3>2 DEF BitsGiven
  <2> QED BY <2>2, <2>3
<1>7. UnitsRead(file, u, n + 1)
  BY <1>1, <1>5, <1>6, <1>b DEF DataPathRead, UnitsRead
<1> QED BY <1>4, <1>7 DEF DataPathRead, u

LEMMA TransferLineNamed ==
  ASSUME NEW file \in Files, NamesGiven(file), NEW n \in Nat, n + 1 \in Places(file, "rt"),
         NEW t, DataPathRead(file, t, n), TablesRead(file, t, n)
  PROVE  DataPathRead(file, functionUnitRegLinker(t, file[n + 1]), n + 1)
<1> DEFINE l == file[n + 1]
           wire == IF l.fu \in DOMAIN t.fuList THEN t.fuList[l.fu].output ELSE <<>>
           op == [op |-> l.op, out |-> l.out, in1 |-> l.in1, wire |-> wire,
                  state |-> l.block * 10 + l.timestep]
           s == [t EXCEPT !.rtOperationsList = Append(@, op)]
           unit == [s EXCEPT !.regFuLinkList = Insert(@, l.fu, <<l.in1, l.in2>>),
                             !.fuList = Insert(@, l.fu, EmptyFu)]
           none == [t EXCEPT !.rtOperationsList = Append(@, NoOperation)]
           u == functionUnitRegLinker(t, l)
           record == IF l.op \in OperationTypes THEN op ELSE NoOperation
           registers == NamesIn(file, "registers")
           Same(x, e) ==
             /\ x.rtOperationsList = Append(t.rtOperationsList, e)
             /\ x.muxList = t.muxList /\ x.muxSeqList = t.muxSeqList /\ x.muxLinks = t.muxLinks
             /\ x.is_mux_in_file = t.is_mux_in_file /\ x.fuSeqList = t.fuSeqList
             /\ x.registers = t.registers /\ x.regSeqList = t.regSeqList
           Entered(x, port) ==
             /\ Same(x, op) /\ x.fuList = t.fuList /\ x.regFuLinkList = t.regFuLinkList
             /\ DOMAIN x.portWidth = DOMAIN t.portWidth \cup {port}
<1>1. /\ l.op = "A" => u = unit
      /\ l.op = "R" => u = IF l.in1 \in InputPorts THEN insertPort(s, l.in1, l.width, TRUE) ELSE s
      /\ l.op = "O" => u = insertPort(s, l.out, l.width, FALSE)
      /\ l.op \notin OperationTypes => u = none
  <2>1. u = CASE l.op = "A" -> unit
              [] l.op = "R" -> IF l.in1 \in InputPorts THEN insertPort(s, l.in1, l.width, TRUE) ELSE s
              [] l.op = "O" -> insertPort(s, l.out, l.width, FALSE)
              [] OTHER -> none
    BY Zenon DEF functionUnitRegLinker
  <2> HIDE DEF unit, s, u, none
  <2> QED BY <2>1 DEF OperationTypes
<1>2. op.op = l.op /\ op.out = l.out /\ op.in1 = l.in1 /\ op.wire = wire
  OBVIOUS
<1> HIDE DEF op, u
<1>d. DOMAIN t = DOMAIN EmptyTables
  BY DEF TablesRead, StatesOK
<1>n. /\ Same(none, NoOperation) /\ none.fuList = t.fuList
      /\ none.regFuLinkList = t.regFuLinkList /\ none.portWidth = t.portWidth
  BY <1>d, TableFields
<1>3. /\ Same(s, op) /\ DOMAIN s = DOMAIN t
      /\ s.fuList = t.fuList /\ s.regFuLinkList = t.regFuLinkList /\ s.portWidth = t.portWidth
  BY <1>d, TableFields
<1>4. /\ Same(unit, op) /\ unit.portWidth = t.portWidth
      /\ unit.fuList = Insert(t.fuList, l.fu, EmptyFu)
      /\ unit.regFuLinkList = Insert(t.regFuLinkList, l.fu, <<l.in1, l.in2>>)
  <2> HIDE DEF s
  <2> QED BY <1>d, <1>3, TableFields
<1>5. ASSUME NEW port, NEW width, NEW isInput PROVE Entered(insertPort(s, port, width, isInput), port)
  <2> DEFINE x == insertPort(s, port, width, isInput)
             entered == Insert(t.portWidth, port, [width |-> width, isInput |-> isInput])
             ports == [entered EXCEPT ![port].width = Max({@, width})]
  <2> HIDE DEF s
  <2>1. x = [s EXCEPT !.portWidth = ports]
    BY <1>3 DEF insertPort
  <2>2. DOMAIN ports = DOMAIN entered /\ DOMAIN entered = DOMAIN t.portWidth \cup {port}
    BY DEF Insert
  <2> HIDE DEF x, ports, entered
  <2>3. /\ Same(x, op) /\ x.fuList = t.fuList /\ x.regFuLinkList = t.regFuLinkList
        /\ x.portWidth = ports
    BY <1>d, <1>3, <2>1, TableFields
  <2> QED BY <2>2, <2>3 DEF x
<1> HIDE DEF unit, s, none
<1>c. /\ l.op = "R" => IF l.in1 \in InputPorts THEN Entered(u, l.in1) ELSE u = s
      /\ l.op = "O" => Entered(u, l.out)
  <2> HIDE DEF Entered
  <2>1. ASSUME l.op = "R", l.in1 \in InputPorts PROVE Entered(u, l.in1)
    <3>1. u = insertPort(s, l.in1, l.width, TRUE)
      BY <1>1, <2>1, Zenon
    <3> QED BY <1>5, <3>1, Zenon
  <2>2. ASSUME l.op = "R", l.in1 \notin InputPorts PROVE u = s
    BY <1>1, <2>2
  <2>3. ASSUME l.op = "O" PROVE Entered(u, l.out)
    <3>1. u = insertPort(s, l.out, l.width, FALSE)
      BY <1>1, <2>3, Zenon
    <3> QED BY <1>5, <3>1, Zenon
  <2> QED BY <2>1, <2>2, <2>3
<1>6. \A sec : sec # "rt" => n + 1 \notin Places(file, sec)
  BY DEF Places
<1>7. Before(file, "rt", n + 1) = Before(file, "rt", n) \cup {n + 1}
  BY NamesNext
<1>8. l \in LinesOf(file, "rt")
  BY DEF LinesOf
<1>k. l.op = "A" \/ l.op = "R" \/ l.op = "O" \/ l.op \notin OperationTypes
  BY DEF OperationTypes
<1>o. /\ l.op # "A" => u.fuList = t.fuList /\ u.regFuLinkList = t.regFuLinkList
      /\ DOMAIN t.portWidth \subseteq DOMAIN u.portWidth
  <2>1. CASE l.op = "A"
    BY <1>1, <1>4, <2>1
  <2>2. CASE l.op = "R"
    BY <1>3, <1>c, <2>2
  <2>3. CASE l.op = "O"
    BY <1>c, <2>3
  <2>4. CASE l.op \notin OperationTypes
    BY <1>1, <1>n, <2>4 DEF OperationTypes
  <2> QED BY <1>k, <2>1, <2>2, <2>3, <2>4
<1>9. Same(u, record)
  <2>0. l.op \in OperationTypes <=> l.op = "A" \/ l.op = "R" \/ l.op = "O"
    BY DEF OperationTypes
  <2>1. l.op \in OperationTypes => Same(u, op)
    <3>1. Entered(u, l.in1) => Same(u, op)
      BY Zenon
    <3>2. Entered(u, l.out) => Same(u, op)
      BY Zenon
    <3> HIDE DEF Same, Entered
    <3> QED BY <1>1, <1>3, <1>4, <1>c, <2>0, <3>1, <3>2
  <2>2. l.op \notin OperationTypes => Same(u, NoOperation)
    <3> HIDE DEF Same
    <3> QED BY <1>1, <1>n
  <2> HIDE DEF Same
  <2> QED BY <2>1, <2>2
<1>10. RegistersNamed(file, u, n + 1) /\ MuxesRead(file, u, n + 1)
  BY <1>6, <1>9, OtherPaths
<1>11. l.op = "A" =>
         /\ l.fu \in DOMAIN t.fuList /\ t.fuList[l.fu].output = l.fu \o <<"_wire">>
         /\ l.fu \in NamesIn(file, "fu")
  <2> SUFFICES ASSUME l.op = "A"
               PROVE  /\ l.fu \in DOMAIN t.fuList /\ t.fuList[l.fu].output = l.fu \o <<"_wire">>
                      /\ l.fu \in NamesIn(file, "fu")
    OBVIOUS
  <2>1. PICK j \in Places(file, "fu") : j < n + 1 /\ file[j].name = l.fu
    BY DEF NamesGiven
  <2>2. j \in Before(file, "fu", n)
    BY <2>1, PlacesAre DEF Before
  <2>3. UnitIs(t.fuList[l.fu], file[j]) /\ l.fu \in DOMAIN t.fuList
    BY <2>1, <2>2 DEF DataPathRead, UnitsRead, NamesBefore
  <2>4. l.fu \in NamesIn(file, "fu")
    BY <2>1 DEF NamesIn, LinesOf
  <2> QED BY <2>1, <2>3, <2>4 DEF UnitIs
<1>12. /\ DOMAIN u.fuList = DOMAIN t.fuList
       /\ \A f \in DOMAIN t.fuList : u.fuList[f] = t.fuList[f]
  <2>1. CASE l.op = "A"
    BY <1>1, <1>4, <1>11, <2>1 DEF Insert
  <2>2. CASE l.op # "A"
    <3>1. u.fuList = t.fuList
      BY <1>o, <2>2
    <3> QED BY <3>1
  <2> QED BY <2>1, <2>2
<1>13. UnitsRead(file, u, n + 1)
  <2>1. /\ NamesBefore(file, "fu", n + 1) = NamesBefore(file, "fu", n)
        /\ Before(file, "fu", n + 1) = Before(file, "fu", n)
        /\ PairsBefore(file, "csfu", n + 1) = PairsBefore(file, "csfu", n)
    BY <1>6, NamesNext
  <2>2. \A i \in Before(file, "fu", n) : file[i].name \in DOMAIN t.fuList
    BY DEF DataPathRead, UnitsRead, NamesBefore
  <2>3. \A x \in PairsBefore(file, "csfu", n) : BitsGiven(file, u, n + 1, x)
    BY <1>12, <2>1 DEF DataPathRead, UnitsRead, BitsGiven
  <2> QED BY <1>9, <1>12, <2>1, <2>2, <2>3 DEF DataPathRead, UnitsRead
<1>p. l.op \in OperationTypes => l \in Operations(file)
  BY <1>8 DEF Operations
<1>15. OperationNamed(file, u, record)
  <2>0. l.op \in OperationTypes => record = op
    OBVIOUS
  <2>1. CASE l.op = "A"
    <3>1. l \in Operations(file) /\ record = op
      BY <1>p, <2>0, <2>1 DEF OperationTypes
    <3>2. op.out \in registers
      BY <1>2, <2>1, <3>1 DEF NamesGiven
    <3>3. op.wire = l.fu \o <<"_wire">> /\ l.fu \in NamesIn(file, "fu")
      BY <1>2, <1>11, <2>1
    <3> HIDE DEF record
    <3> QED BY <1>2, <2>1, <3>1, <3>2, <3>3 DEF OperationNamed
  <2>2. CASE l.op = "R"
    <3>1. l.in1 \in InputPorts => l.in1 \in DOMAIN u.portWidth
      BY <1>c, <2>2
    <3>2. l \in Operations(file) /\ record = op
      BY <1>p, <2>0, <2>2 DEF OperationTypes
    <3>3. op.out \in registers /\ op.in1 \in registers \cup InputPorts
      BY <1>2, <2>2, <3>2 DEF NamesGiven
    <3> HIDE DEF record
    <3> QED BY <1>2, <2>2, <3>1, <3>2, <3>3 DEF OperationNamed
  <2>3. CASE l.op = "O"
    <3>1. l.out \in DOMAIN u.portWidth
      BY <1>c, <2>3
    <3>2. l \in Operations(file) /\ record = op
      BY <1>p, <2>0, <2>3 DEF OperationTypes
    <3>3. op.in1 \in registers
      BY <1>2, <2>3, <3>2 DEF NamesGiven
    <3> HIDE DEF record
    <3> QED BY <1>2, <2>3, <3>1, <3>2, <3>3 DEF OperationNamed
  <2>4. CASE l.op \notin OperationTypes
    <3>1. record = NoOperation /\ NoOperation.op = ""
      BY <2>4 DEF NoOperation
    <3> HIDE DEF record
    <3> QED BY <3>1 DEF OperationNamed
  <2> QED BY <1>k, <2>1, <2>2, <2>3, <2>4
<1> HIDE DEF record
<1>16. \A o \in ToSet(u.rtOperationsList) : OperationNamed(file, u, o)
  <2>1. ToSet(u.rtOperationsList) = ToSet(t.rtOperationsList) \cup {record}
    BY <1>9, ListAppended DEF TablesRead, TransfersRead
  <2>2. \A o \in ToSet(t.rtOperationsList) : OperationNamed(file, u, o)
    BY <1>o DEF DataPathRead, OperationsNamed, OperationNamed
  <2> QED BY <1>15, <2>1, <2>2
<1>17. /\ \A i \in Before(file, "rt", n + 1) : file[i].op = "A" => file[i].fu \in DOMAIN u.regFuLinkList
       /\ \A f \in DOMAIN u.regFuLinkList : \E i \in Before(file, "rt", n + 1) :
            file[i].op = "A" /\ file[i].fu = f /\ u.regFuLinkList[f] = <<file[i].in1, file[i].in2>>
  <2>1. /\ \A i \in Before(file, "rt", n) : file[i].op = "A" => file[i].fu \in DOMAIN t.regFuLinkList
        /\ \A f \in DOMAIN t.regFuLinkList : \E i \in Before(file, "rt", n) :
             file[i].op = "A" /\ file[i].fu = f /\ t.regFuLinkList[f] = <<file[i].in1, file[i].in2>>
    BY DEF DataPathRead, OperationsNamed
  <2>2. CASE l.op # "A"
    <3>1. u.regFuLinkList = t.regFuLinkList
      BY <1>o, <2>2
    <3> QED BY <1>7, <2>1, <2>2, <3>1
  <2>3. CASE l.op = "A"
    <3>1. /\ DOMAIN u.regFuLinkList = DOMAIN t.regFuLinkList \cup {l.fu}
          /\ \A f \in DOMAIN t.regFuLinkList : u.regFuLinkList[f] = t.regFuLinkList[f]
          /\ l.fu \notin DOMAIN t.regFuLinkList => u.regFuLinkList[l.fu] = <<l.in1, l.in2>>
      BY <1>1, <1>4, <2>3 DEF Insert
    <3>2. \A i \in Before(file, "rt", n + 1) : file[i].op = "A" => file[i].fu \in DOMAIN u.regFuLinkList
      BY <1>7, <2>1, <3>1
    <3>3. ASSUME NEW f \in DOMAIN u.regFuLinkList
          PROVE  \E i \in Before(file, "rt", n + 1) :
                   file[i].op = "A" /\ file[i].fu = f /\ u.regFuLinkList[f] = <<file[i].in1, file[i].in2>>
      <4>1. CASE f \in DOMAIN t.regFuLinkList
        BY <1>7, <2>1, <3>1, <4>1
      <4>2. CASE f \notin DOMAIN t.regFuLinkList
        BY <1>7, <2>3, <3>1, <3>3, <4>2
      <4> QED BY <4>1, <4>2
    <3> QED BY <3>2, <3>3
  <2> QED BY <2>2, <2>3
<1>18. OperationsNamed(file, u, n + 1)
  BY <1>16, <1>17 DEF OperationsNamed
<1> QED BY <1>10, <1>13, <1>18 DEF DataPathRead, u

\* Lines of the controller's sections leave the data path alone.
LEMMA ControlLineNamed ==
  ASSUME NEW file \in Files, NEW n \in Nat, NEW sec \in {"fsm", "cap"}, n + 1 \in Places(file, sec),
         NEW t, DataPathRead(file, t, n), TablesRead(file, t, n), NEW l
  PROVE  DataPathRead(file, populatefSM(t, l), n + 1) /\ DataPathRead(file, populateCAP(t, l), n + 1)
<1> DEFINE Same(u) ==
             /\ u.registers = t.registers /\ u.regSeqList = t.regSeqList
             /\ u.muxList = t.muxList /\ u.muxSeqList = t.muxSeqList /\ u.muxLinks = t.muxLinks
             /\ u.is_mux_in_file = t.is_mux_in_file /\ u.fuList = t.fuList /\ u.fuSeqList = t.fuSeqList
             /\ u.rtOperationsList = t.rtOperationsList /\ u.regFuLinkList = t.regFuLinkList
             /\ u.portWidth = t.portWidth
<1>1. DOMAIN t = DOMAIN EmptyTables
  BY DEF TablesRead, StatesOK
<1>2. Same(Ended(t))
  BY <1>1, TableFields DEF Ended
<1>3. Same(populatefSM(t, l))
  <2>1. \/ populatefSM(t, l) = Ended(t)
        \/ \E count, list, seq :
             populatefSM(t, l) = [t EXCEPT !.no_states = count, !.stateList = list, !.stateSeqList = seq]
    BY DEF populatefSM
  <2>2. ASSUME NEW count, NEW list, NEW seq,
               populatefSM(t, l) = [t EXCEPT !.no_states = count, !.stateList = list, !.stateSeqList = seq]
        PROVE  Same(populatefSM(t, l))
    BY <1>1, <2>2, TableFields
  <2> HIDE DEF Same
  <2> QED BY <1>2, <2>1, <2>2, Zenon
<1>4. Same(populateCAP(t, l))
  <2> DEFINE mux == parseBlockMuxSelectLines(t, l.mux)
             reg == parseBlockRegSelectLines(t, l.reg)
             fu  == parseBlockFUSelectLines(t, l.fu)
             fits == mux.fits /\ reg.fits /\ fu.fits
             new == [t.stateList[l.state] EXCEPT !.mux_select = mux.map, !.reg_select = reg.map,
                                                 !.fu_select = fu.map]
  <2>1. populateCAP(t, l) = IF l.state \notin DOMAIN t.stateList THEN Ended(t)
                            ELSE IF ~fits THEN Ended(t)
                            ELSE [t EXCEPT !.stateList[l.state] = new]
    BY DEF populateCAP
  <2> HIDE DEF new, fits
  <2>2. ASSUME populateCAP(t, l) = [t EXCEPT !.stateList[l.state] = new] PROVE Same(populateCAP(t, l))
    BY <1>1, <2>2, TableFields
  <2> HIDE DEF Same
  <2> QED BY <1>2, <2>1, <2>2
<1>5. ASSUME NEW u, Same(u) PROVE DataPathRead(file, u, n + 1)
  <2>1. \A s \in {"registers", "mux", "csmux", "fu", "csfu", "rt"} : n + 1 \notin Places(file, s)
    BY DEF Places
  <2> QED BY <1>5, <2>1, OtherPaths DEF DataPathRead
<1> HIDE DEF Same
<1> QED BY <1>3, <1>4, <1>5

LEMMA LineNamed ==
  ASSUME NEW file \in Files, NamesGiven(file), NEW n \in Nat, NEW sec \in Sections,
         n + 1 \in Places(file, sec), NEW t, DataPathRead(file, t, n), TablesRead(file, t, n),
         NEW bits, parseLine(t, sec, file[n + 1], bits).status = "ok"
  PROVE  DataPathRead(file, parseLine(t, sec, file[n + 1], bits), n + 1)
<1> DEFINE l == file[n + 1]
           u == parseLine(t, sec, l, bits)
<1>1. l.kind # "header" /\ (sec = "mux" => AsMultiplexer(l) = l)
  BY PlacesAre DEF AsMultiplexer
<1>2. u = CASE sec = "registers" -> populateRegisters(t, l)
            [] sec = "mux"       -> populateMux(t, AsMultiplexer(l), bits)
            [] sec = "fu"        -> populateFu(t, l, bits)
            [] sec = "fsm"       -> populatefSM(t, l)
            [] sec = "csmux"     -> populateBitsInMux(t, l)
            [] sec = "csfu"      -> populateBitsInFU(t, l)
            [] sec = "cap"       -> populateCAP(t, l)
            [] OTHER             -> functionUnitRegLinker(t, l)
  BY <1>1 DEF parseLine
<1>3. u.status = "ok"
  OBVIOUS
<1> HIDE DEF u
<1>4. DataPathRead(file, u, n + 1)
  <2>1. CASE sec = "registers"
    <3>1. u = populateRegisters(t, l)
      BY <1>2, <2>1
    <3> QED BY <2>1, <3>1, RegisterLineNamed
  <2>2. CASE sec = "mux"
    <3>1. u = populateMux(t, l, bits)
      BY <1>1, <1>2, <2>2
    <3> QED BY <2>2, <3>1, MuxLineNamed
  <2>3. CASE sec = "fu"
    <3>1. u = populateFu(t, l, bits)
      BY <1>2, <2>3
    <3> QED BY <2>3, <3>1, UnitLineNamed
  <2>4. CASE sec \in {"fsm", "cap"}
    <3>1. u = populatefSM(t, l) \/ u = populateCAP(t, l)
      BY <1>2, <2>4
    <3> QED BY <2>4, <3>1, ControlLineNamed
  <2>5. CASE sec = "csmux"
    <3>1. u = populateBitsInMux(t, l)
      BY <1>2, <2>5
    <3> QED BY <1>3, <2>5, <3>1, MuxBitsNamed
  <2>6. CASE sec = "csfu"
    <3>1. u = populateBitsInFU(t, l)
      BY <1>2, <2>6
    <3> QED BY <1>3, <2>6, <3>1, UnitBitsNamed
  <2>7. CASE sec = "rt"
    <3>1. u = functionUnitRegLinker(t, l)
      BY <1>2, <2>7
    <3> QED BY <2>7, <3>1, TransferLineNamed
  <2> QED BY <2>1, <2>2, <2>3, <2>4, <2>5, <2>6, <2>7 DEF Sections
<1> QED BY <1>4 DEF u

LEMMA NothingRead == ASSUME NEW file \in Files PROVE DataPathRead(file, EmptyTables, 0)
<1> DEFINE E == EmptyTables
<1>1. /\ E.registers = <<>> /\ E.regSeqList = <<>> /\ E.muxList = <<>> /\ E.muxSeqList = <<>>
      /\ E.muxLinks = <<>> /\ E.is_mux_in_file = {} /\ E.fuList = <<>> /\ E.fuSeqList = <<>>
      /\ E.rtOperationsList = <<>> /\ E.regFuLinkList = <<>>
  BY DEF EmptyTables
<1> HIDE DEF E
<1>2. \A sec : /\ NamesBefore(file, sec, 0) = {} /\ PairsBefore(file, sec, 0) = {}
               /\ Before(file, sec, 0) = {}
  BY BeforeNamed, BeforeFinite
<1>3. RegistersNamed(file, E, 0) /\ UnitsRead(file, E, 0) /\ OperationsNamed(file, E, 0)
  BY <1>1, <1>2, EmptyList DEF RegistersNamed, UnitsRead, OperationsNamed
<1>4. MuxesRead(file, E, 0)
  BY <1>1, <1>2, EmptyList DEF MuxesRead
<1> QED BY <1>3, <1>4 DEF DataPathRead, E

-----------------------------------------------------------------------------
(***************************************************************************)
(* The wires.                                                              *)
(***************************************************************************)

UnitWireOf(t, x) == IF x \in DOMAIN t.fuList THEN t.fuList[x].output ELSE x

\* A multiplexer with its wire: in front of a register it takes the outputs of units.
MuxWired(t, m, new) ==
  LET old == t.muxList[m]
  IN  /\ new.select = old.select /\ new.bits = old.bits
      /\ DOMAIN new.input_cs = DOMAIN old.input_cs
      /\ FeedsRegister(t, m) =>
           /\ new.wire = old.output \o <<"_wire">>
           /\ \A c \in DOMAIN old.input_cs : new.input_cs[c] = UnitWireOf(t, old.input_cs[c])
      /\ ~FeedsRegister(t, m) =>
           /\ new.wire = m \o old.output
           /\ \A c \in DOMAIN old.input_cs : new.input_cs[c] = old.input_cs[c]

\* The wire of the multiplexer at a place.
WireOf(t, k) == t.muxSeqList[k] \o t.muxList[t.muxSeqList[k]].output
Later(places) == {k \in places : k > Min(places)}

\* The inputs of a unit that multiplexers feed.
UnitFed(t, f, new) ==
  LET old == t.fuList[f]
      places == Feeding(t, f)
  IN  /\ DOMAIN new = DOMAIN old
      /\ new.output = old.output /\ new.bits = old.bits /\ new.operations = old.operations
      /\ new.input1 = IF places = {} THEN old.input1 ELSE WireOf(t, Min(places))
      /\ new.input2 = IF Later(places) = {} THEN old.input2 ELSE WireOf(t, Min(Later(places)))

LEMMA MuxesWired ==
  ASSUME NEW file \in Files, NEW n, NEW t, DataPathRead(file, t, n), DOMAIN t = DOMAIN EmptyTables
  PROVE  LET w == populateMuxFuLinkNames(t)
         IN  /\ DOMAIN w = DOMAIN t /\ w.muxSeqList = t.muxSeqList /\ w.fuSeqList = t.fuSeqList
             /\ w.regSeqList = t.regSeqList /\ w.portWidth = t.portWidth
             /\ w.muxLinks = t.muxLinks /\ w.regFuLinkList = t.regFuLinkList
             /\ w.is_mux_in_file = t.is_mux_in_file /\ w.stateList = t.stateList
             /\ w.rtOperationsList = t.rtOperationsList
             /\ DOMAIN w.muxList = DOMAIN t.muxList
             /\ \A m \in DOMAIN t.muxList : MuxWired(t, m, w.muxList[m])
             /\ DOMAIN w.fuList = DOMAIN t.fuList
             /\ \A f \in DOMAIN t.fuList : UnitFed(t, f, w.fuList[f])
             /\ \A r \in DOMAIN w.regWireList :
                  /\ w.regWireList[r] = r \o <<"_wire">>
                  /\ \E m \in DOMAIN t.muxList : FeedsRegister(t, m) /\ t.muxList[m].output = r
<1> DEFINE w == populateMuxFuLinkNames(t)
           Wire(m) == m \o t.muxList[m].output
           WireAt(k) == Wire(t.muxSeqList[k])
           UnitWire(x) == IF x \in DOMAIN t.fuList THEN t.fuList[x].output ELSE x
           BeforeUnit(m) == [t.muxList[m] EXCEPT !.wire = Wire(m)]
           BeforeRegister(m) ==
             [t.muxList[m] EXCEPT !.wire = t.muxList[m].output \o <<"_wire">>,
                                  !.input_cs = [code \in DOMAIN @ |-> UnitWire(@[code])]]
           Fed(f) ==
             LET places == Feeding(t, f)
                 later == {k \in places : k > Min(places)}
             IN  [t.fuList[f] EXCEPT !.input1 = IF places = {} THEN @ ELSE WireAt(Min(places)),
                                     !.input2 = IF later = {} THEN @ ELSE WireAt(Min(later))]
           Fronts == {t.muxList[m].output : m \in {x \in DOMAIN t.muxList : FeedsRegister(t, x)}}
           Wired(m) == IF FeedsRegister(t, m) THEN BeforeRegister(m) ELSE BeforeUnit(m)
<1>1. w = [t EXCEPT !.muxList = [m \in DOMAIN @ |-> Wired(m)],
                    !.fuList = [f \in DOMAIN @ |-> Fed(f)],
                    !.regWireList = [r \in Fronts |-> r \o <<"_wire">>]]
  BY DEF populateMuxFuLinkNames
<1>2. ASSUME NEW m \in DOMAIN t.muxList PROVE MuxWired(t, m, Wired(m))
  <2> DEFINE old == t.muxList[m]
  <2>1. {"output", "input_cs", "bits", "select", "wire"} \subseteq DOMAIN old
    BY DEF DataPathRead, MuxesRead, MuxIs, NamesBefore
  <2>2. CASE FeedsRegister(t, m)
    <3> DEFINE inputs == [code \in DOMAIN old.input_cs |-> UnitWire(old.input_cs[code])]
               new == [old EXCEPT !.wire = old.output \o <<"_wire">>, !.input_cs = inputs]
    <3>1. Wired(m) = new
      BY <2>2
    <3>2. DOMAIN inputs = DOMAIN old.input_cs /\ \A c \in DOMAIN old.input_cs : inputs[c] = UnitWireOf(t, old.input_cs[c])
      BY DEF UnitWireOf
    <3> HIDE DEF inputs, old
    <3>3. /\ new.select = old.select /\ new.bits = old.bits /\ new.input_cs = inputs
          /\ new.wire = old.output \o <<"_wire">>
      BY <2>1
    <3> HIDE DEF new, Wired
    <3> QED BY <2>2, <3>1, <3>2, <3>3 DEF MuxWired, old
  <2>3. CASE ~FeedsRegister(t, m)
    <3> DEFINE new == [old EXCEPT !.wire = Wire(m)]
    <3>1. Wired(m) = new
      BY <2>3
    <3> HIDE DEF old
    <3>2. /\ new.select = old.select /\ new.bits = old.bits /\ new.input_cs = old.input_cs
          /\ new.wire = Wire(m)
      BY <2>1
    <3> HIDE DEF new, Wired
    <3> QED BY <2>3, <3>1, <3>2 DEF MuxWired, old
  <2> QED BY <2>2, <2>3
<1>3. ASSUME NEW f \in DOMAIN t.fuList PROVE UnitFed(t, f, Fed(f))
  <2> DEFINE old == t.fuList[f]
             places == Feeding(t, f)
             in1 == IF places = {} THEN old.input1 ELSE WireOf(t, Min(places))
             in2 == IF Later(places) = {} THEN old.input2 ELSE WireOf(t, Min(Later(places)))
             new == [old EXCEPT !.input1 = in1, !.input2 = in2]
  <2>1. {"bits", "operations", "input1", "input2", "output", "select"} \subseteq DOMAIN old
    BY DEF DataPathRead, UnitsRead, UnitIs, EmptyFu, NamesBefore
  <2>2. Fed(f) = new
    BY DEF WireOf, Later
  <2> HIDE DEF old, in1, in2, Fed
  <2>3. /\ DOMAIN new = DOMAIN old /\ new.output = old.output /\ new.bits = old.bits
        /\ new.operations = old.operations /\ new.input1 = in1 /\ new.input2 = in2
    BY <2>1
  <2> HIDE DEF new
  <2> QED BY <2>2, <2>3 DEF UnitFed, old, in1, in2
<1>4. \A r \in Fronts : \E m \in DOMAIN t.muxList : FeedsRegister(t, m) /\ t.muxList[m].output = r
  OBVIOUS
<1> HIDE DEF w, Wired, Fed, Fronts
<1>5. /\ DOMAIN w = DOMAIN t /\ w.muxSeqList = t.muxSeqList /\ w.fuSeqList = t.fuSeqList
      /\ w.regSeqList = t.regSeqList /\ w.portWidth = t.portWidth
      /\ w.muxLinks = t.muxLinks /\ w.regFuLinkList = t.regFuLinkList
      /\ w.is_mux_in_file = t.is_mux_in_file /\ w.stateList = t.stateList
      /\ w.rtOperationsList = t.rtOperationsList
      /\ w.muxList = [m \in DOMAIN t.muxList |-> Wired(m)]
      /\ w.fuList = [f \in DOMAIN t.fuList |-> Fed(f)]
      /\ w.regWireList = [r \in Fronts |-> r \o <<"_wire">>]
  BY <1>1, TableFields
<1> HIDE DEF Wire
<1> QED BY <1>2, <1>3, <1>4, <1>5 DEF w

LEMMA UnitsLinked ==
  ASSUME NEW t, DOMAIN t = DOMAIN EmptyTables, ToSet(t.fuSeqList) = DOMAIN t.fuList
  PROVE  LET u == populateRegFuLinkNames(t)
         IN  /\ DOMAIN u = DOMAIN t /\ u.muxSeqList = t.muxSeqList /\ u.fuSeqList = t.fuSeqList
             /\ u.regSeqList = t.regSeqList /\ u.portWidth = t.portWidth
             /\ u.is_mux_in_file = t.is_mux_in_file /\ u.stateList = t.stateList
             /\ u.rtOperationsList = t.rtOperationsList /\ u.regWireList = t.regWireList
             /\ u.muxList = t.muxList /\ DOMAIN u.fuList = DOMAIN t.fuList
             /\ \A f \in DOMAIN t.fuList : u.fuList[f] = LinkUnit(t, f)
BY TableFields DEF populateRegFuLinkNames

\* What the registers of its first operation are to a unit.
LEMMA LinkedInputs ==
  ASSUME NEW t, NEW f \in DOMAIN t.fuList, {"input1", "input2"} \subseteq DOMAIN t.fuList[f],
         f \in DOMAIN t.regFuLinkList, NEW in1, NEW in2, t.regFuLinkList[f] = <<in1, in2>>
  PROVE  LET fu == t.fuList[f]
             new == LinkUnit(t, f)
         IN  /\ DOMAIN new = DOMAIN fu
             /\ \A field \in DOMAIN fu \ {"input1", "input2"} : new[field] = fu[field]
             /\ fu.input1 = <<>> /\ fu.input2 = <<>> => new.input1 = in1 /\ new.input2 = in2
             /\ fu.input1 # <<>> => new.input1 = fu.input1
             /\ fu.input1 # <<>> /\ fu.input2 # <<>> => new.input2 = fu.input2
             /\ fu.input1 # <<>> /\ fu.input2 = <<>> /\ isRegMuxLinkedToFU(t, f, in1)
                  /\ ~isRegMuxLinkedToFU(t, f, in2) => new.input2 = in2
<1> DEFINE fu == t.fuList[f]
           new == LinkUnit(t, f)
           Linked(r) == isRegMuxLinkedToFU(t, f, r)
<1>1. in1 = t.regFuLinkList[f][1] /\ in2 = t.regFuLinkList[f][2]
  OBVIOUS
<1>2. new = CASE fu.input1 = <<>> /\ fu.input2 = <<>> ->
                   [fu EXCEPT !.input1 = in1, !.input2 = in2]
              [] fu.input1 # <<>> /\ fu.input2 = <<>> /\ ~Linked(in1) ->
                   [fu EXCEPT !.input2 = in1]
              [] fu.input1 # <<>> /\ fu.input2 = <<>> /\ Linked(in1) /\ ~Linked(in2) ->
                   [fu EXCEPT !.input2 = in2]
              [] OTHER -> fu
  BY <1>1 DEF LinkUnit
<1> HIDE DEF new, fu, Linked
<1>3. /\ fu.input1 = <<>> /\ fu.input2 = <<>> => new = [fu EXCEPT !.input1 = in1, !.input2 = in2]
      /\ fu.input1 # <<>> /\ fu.input2 = <<>> /\ Linked(in1) /\ ~Linked(in2) => new = [fu EXCEPT !.input2 = in2]
      /\ fu.input1 # <<>> /\ fu.input2 = <<>> /\ ~Linked(in1) => new = [fu EXCEPT !.input2 = in1]
      /\ fu.input1 # <<>> /\ fu.input2 # <<>> => new = fu
      /\ \/ new = [fu EXCEPT !.input1 = in1, !.input2 = in2]
         \/ new = [fu EXCEPT !.input2 = in2] \/ new = [fu EXCEPT !.input2 = in1] \/ new = fu
  BY <1>2
<1>4. {"input1", "input2"} \subseteq DOMAIN fu
  BY DEF fu
<1>5. DOMAIN new = DOMAIN fu /\ \A field \in DOMAIN fu \ {"input1", "input2"} : new[field] = fu[field]
  BY <1>3
<1>6. fu.input1 = <<>> /\ fu.input2 = <<>> => new.input1 = in1 /\ new.input2 = in2
  BY <1>3, <1>4
<1>7. fu.input1 # <<>> => new.input1 = fu.input1
  <2>1. fu.input1 # <<>> /\ fu.input2 = <<>> =>
          new = [fu EXCEPT !.input2 = in2] \/ new = [fu EXCEPT !.input2 = in1] \/ new = fu
    BY <1>2
  <2> QED BY <1>3, <1>4, <2>1
<1>8. /\ fu.input1 # <<>> /\ fu.input2 # <<>> => new.input2 = fu.input2
      /\ fu.input1 # <<>> /\ fu.input2 = <<>> /\ Linked(in1) /\ ~Linked(in2) => new.input2 = in2
  BY <1>3, <1>4
<1> QED BY <1>5, <1>6, <1>7, <1>8 DEF new, fu, Linked

\* The multiplexers in front of a unit.
LEMMA FeedingUnit ==
  ASSUME NEW file \in Files, NamesGiven(file), NEW t, DataPathRead(file, t, Len(file)),
         NEW f \in DOMAIN t.fuList
  PROVE  /\ Feeding(t, f) \subseteq Nat
         /\ \A k \in Feeding(t, f) :
              /\ t.muxSeqList[k] \in DOMAIN t.muxList /\ t.muxList[t.muxSeqList[k]].output = f
              /\ ~FeedsRegister(t, t.muxSeqList[k]) /\ WireOf(t, k) # <<>>
              /\ \E i \in Places(file, "mux") : file[i].name = t.muxSeqList[k] /\ file[i].output = f
         /\ \A i \in Places(file, "mux") : file[i].output = f =>
              \E k \in Feeding(t, f) : t.muxSeqList[k] = file[i].name
<1>1. /\ IsList(t.muxSeqList) /\ ToSet(t.muxSeqList) = DOMAIN t.muxList
      /\ DOMAIN t.muxList = {file[i].name : i \in Places(file, "mux")}
      /\ \A i \in Places(file, "mux") : MuxIs(t, file[i])
  BY BeforeFinite DEF DataPathRead, MuxesRead, NamesBefore
<1>2. Feeding(t, f) \subseteq Nat
  BY <1>1, PlacesInList DEF Feeding
<1>3. ASSUME NEW k \in Feeding(t, f)
      PROVE  /\ t.muxSeqList[k] \in DOMAIN t.muxList /\ t.muxList[t.muxSeqList[k]].output = f
             /\ ~FeedsRegister(t, t.muxSeqList[k]) /\ WireOf(t, k) # <<>>
             /\ \E i \in Places(file, "mux") : file[i].name = t.muxSeqList[k] /\ file[i].output = f
  <2> DEFINE m == t.muxSeqList[k]
  <2>1. m \in DOMAIN t.muxList /\ t.muxList[m].output = f
    BY <1>1, PlacesInList DEF Feeding
  <2>2. ~FeedsRegister(t, m)
    BY <2>1 DEF FeedsRegister
  <2>3. PICK i \in Places(file, "mux") : file[i].name = m
    BY <1>1, <2>1
  <2>4. file[i].output = f
    BY <1>1, <2>1, <2>3 DEF MuxIs
  <2>5. m \o f # <<>>
    <3>1. m \in Seq(STRING) /\ m # <<>> /\ f \in Seq(STRING)
      BY <2>3, <2>4, LinesAre
    <3> HIDE DEF m
    <3>2. Len(m \o f) = Len(m) + Len(f) /\ Len(m) \in Nat /\ Len(f) \in Nat
      BY <3>1, ConcatProperties, LenProperties
    <3>3. Len(m) # 0
      BY <3>1, EmptySeq
    <3>4. Len(<<>>) = 0
      OBVIOUS
    <3> QED BY <3>2, <3>3, <3>4
  <2> QED BY <2>1, <2>2, <2>3, <2>4, <2>5 DEF WireOf
<1>4. ASSUME NEW i \in Places(file, "mux"), file[i].output = f
      PROVE  \E k \in Feeding(t, f) : t.muxSeqList[k] = file[i].name
  <2>1. file[i].name \in ToSet(t.muxSeqList) /\ t.muxList[file[i].name].output = f
    BY <1>1, <1>4 DEF MuxIs
  <2>2. PICK k \in DOMAIN t.muxSeqList : t.muxSeqList[k] = file[i].name
    BY <1>1, <2>1, PlacesInList
  <2> QED BY <2>1, <2>2 DEF Feeding
<1> QED BY <1>2, <1>3, <1>4

\* A unit has two inputs: the wires of its multiplexers, and registers where it has none.
LEMMA UnitInputs ==
  ASSUME input \in Files, NamesGiven(input), NEW t, DataPathRead(input, t, Len(input)),
         NEW f \in DOMAIN t.fuList, InOperandOrder(f),
         NEW w, w.muxLinks = t.muxLinks, w.regFuLinkList = t.regFuLinkList,
         DOMAIN w.fuList = DOMAIN t.fuList, UnitFed(t, f, w.fuList[f])
  PROVE  LET old == t.fuList[f]
             new == LinkUnit(w, f)
             connections == NamesIn(input, "registers") \cup {WireOf(t, k) : k \in Feeding(t, f)}
         IN  /\ new.output = old.output /\ new.bits = old.bits /\ new.operations = old.operations
             /\ new.input1 \in connections /\ new.input2 \in connections
<1> DEFINE old == t.fuList[f]
           fed == w.fuList[f]
           new == LinkUnit(w, f)
           places == Feeding(t, f)
           registers == NamesIn(input, "registers")
           wires == {WireOf(t, k) : k \in places}
<1>1. /\ {"bits", "operations", "input1", "input2", "output", "select"} \subseteq DOMAIN old
      /\ old.input1 = <<>> /\ old.input2 = <<>>
  BY DEF DataPathRead, UnitsRead, UnitIs, EmptyFu, NamesBefore
<1>2. /\ DOMAIN fed = DOMAIN old /\ fed.output = old.output /\ fed.bits = old.bits
      /\ fed.operations = old.operations
      /\ fed.input1 = IF places = {} THEN <<>> ELSE WireOf(t, Min(places))
      /\ fed.input2 = IF Later(places) = {} THEN <<>> ELSE WireOf(t, Min(Later(places)))
  BY <1>1 DEF UnitFed
<1>3. \E i \in Places(input, "fu") : input[i].name = f
  BY BeforeFinite DEF DataPathRead, UnitsRead, NamesBefore
<1>4. PICK o \in Places(input, "rt") :
         input[o].op = "A" /\ input[o].fu = f /\ w.regFuLinkList[f] = <<input[o].in1, input[o].in2>>
  <2>1. \E l \in LinesOf(input, "rt") : l.op = "A" /\ l.fu = f
    BY <1>3 DEF NamesGiven, LinesOf, Operations
  <2>2. f \in DOMAIN t.regFuLinkList
    BY <2>1, BeforeFinite DEF DataPathRead, OperationsNamed, LinesOf
  <2> QED BY <2>2, BeforeFinite DEF DataPathRead, OperationsNamed
<1> DEFINE in1 == input[o].in1
           in2 == input[o].in2
<1>5. f \in DOMAIN w.regFuLinkList
  <2>1. \E l \in LinesOf(input, "rt") : l.op = "A" /\ l.fu = f
    BY <1>3 DEF NamesGiven, LinesOf, Operations
  <2> QED BY <2>1, BeforeFinite DEF DataPathRead, OperationsNamed, LinesOf
<1>6. in1 \in registers /\ in2 \in registers /\ input[o] \in UnitOperations(f)
  <2>1. input[o] \in LinesOf(input, "rt")
    BY DEF LinesOf
  <2>2. input[o] \in Operations(input)
    BY <1>4, <2>1 DEF Operations, OperationTypes
  <2> QED BY <1>4, <2>1, <2>2 DEF NamesGiven, UnitOperations
<1>7. /\ DOMAIN new = DOMAIN fed
      /\ \A field \in DOMAIN fed \ {"input1", "input2"} : new[field] = fed[field]
      /\ fed.input1 = <<>> /\ fed.input2 = <<>> => new.input1 = in1 /\ new.input2 = in2
      /\ fed.input1 # <<>> => new.input1 = fed.input1
      /\ fed.input1 # <<>> /\ fed.input2 # <<>> => new.input2 = fed.input2
      /\ fed.input1 # <<>> /\ fed.input2 = <<>> /\ isRegMuxLinkedToFU(w, f, in1)
           /\ ~isRegMuxLinkedToFU(w, f, in2) => new.input2 = in2
  <2>1. {"input1", "input2"} \subseteq DOMAIN fed /\ f \in DOMAIN w.fuList
    BY <1>1, <1>2
  <2> HIDE DEF registers
  <2> QED BY <1>4, <1>5, <2>1, LinkedInputs
<1> HIDE DEF new, fed, old
<1>8. new.output = old.output /\ new.bits = old.bits /\ new.operations = old.operations
  BY <1>1, <1>2, <1>7
<1>9. /\ places \subseteq Nat
      /\ \A k \in places :
           /\ t.muxSeqList[k] \in DOMAIN t.muxList /\ WireOf(t, k) # <<>>
           /\ \E i \in Places(input, "mux") : input[i].name = t.muxSeqList[k] /\ input[i].output = f
      /\ \A i \in Places(input, "mux") : input[i].output = f =>
           \E k \in places : t.muxSeqList[k] = input[i].name
  BY FeedingUnit
<1> HIDE DEF places
<1>10. places # {} => Min(places) \in places
  BY <1>9, LeastNat
<1>11. Later(places) # {} => Min(Later(places)) \in places
  <2>1. Later(places) \subseteq places /\ Later(places) \subseteq Nat
    BY <1>9 DEF Later
  <2> QED BY <2>1, LeastNat
<1>12. CASE places = {}
  <2>1. Later(places) = {}
    BY <1>12 DEF Later
  <2>2. new.input1 = in1 /\ new.input2 = in2
    BY <1>2, <1>7, <1>12, <2>1
  <2> QED BY <1>6, <1>8, <2>2 DEF new, old, places
<1>13. CASE places # {} /\ Later(places) # {}
  <2>1. fed.input1 \in wires /\ fed.input1 # <<>> /\ fed.input2 \in wires /\ fed.input2 # <<>>
    BY <1>2, <1>9, <1>10, <1>11, <1>13
  <2>2. new.input1 \in wires /\ new.input2 \in wires
    BY <1>7, <2>1
  <2> QED BY <1>8, <2>2 DEF new, old, places
<1>14. CASE places # {} /\ Later(places) = {}
  <2>1. fed.input1 \in wires /\ fed.input1 # <<>> /\ fed.input2 = <<>>
    BY <1>2, <1>9, <1>10, <1>14
  <2>2. \A k \in places : k = Min(places)
    <3>1. \A k \in places : Min(places) <= k
      BY <1>9, LeastNat
    <3>2. Min(places) \in Nat
      BY <1>9, <1>10, <1>14
    <3> QED BY <1>9, <1>14, <3>1, <3>2 DEF Later
  <2>3. PICK i \in Places(input, "mux") :
          input[i].name = t.muxSeqList[Min(places)] /\ input[i].output = f
    BY <1>9, <1>10, <1>14
  <2>4. MuxesOf(f) = {i}
    <3>1. ASSUME NEW j \in MuxesOf(f) PROVE j = i
      <4>1. j \in Places(input, "mux") /\ input[j].output = f
        BY DEF MuxesOf
      <4>2. input[j].name = t.muxSeqList[Min(places)]
        BY <1>9, <2>2, <4>1
      <4> QED BY <2>3, <4>1, <4>2 DEF NamesGiven
    <3>2. i \in MuxesOf(f)
      BY <2>3 DEF MuxesOf
    <3> QED BY <3>1, <3>2
  <2>5. Cardinality(MuxesOf(f)) = 1 /\ Min(MuxesOf(f)) = i
    <3>1. Cardinality({i}) = 1
      BY FS_Singleton
    <3>2. {i} \subseteq Nat /\ {i} # {}
      BY PlacesAre
    <3>3. Min({i}) = i
      BY <3>2, LeastNat
    <3> QED BY <2>4, <3>1, <3>3
  <2>6. in1 \in InputsOf(input[i]) /\ ~NamedTogether(f, in2)
    BY <1>6, <2>5 DEF InOperandOrder
  <2>7. /\ DOMAIN t.muxLinks = {input[j].name : j \in Places(input, "mux")}
        /\ \A j \in Places(input, "mux") :
             t.muxLinks[input[j].name] = InputsOf(input[j]) \cup {input[j].output}
    BY BeforeFinite DEF DataPathRead, MuxesRead, NamesBefore, MuxIs
  <2>8. isRegMuxLinkedToFU(w, f, in1)
    BY <2>3, <2>6, <2>7 DEF isRegMuxLinkedToFU
  <2>9. ~isRegMuxLinkedToFU(w, f, in2)
    BY <2>6, <2>7 DEF isRegMuxLinkedToFU, NamedTogether, LinesOf
  <2>10. new.input1 \in wires /\ new.input2 = in2
    BY <1>7, <2>1, <2>8, <2>9
  <2> QED BY <1>6, <1>8, <2>10 DEF new, old, places
<1> QED BY <1>12, <1>13, <1>14

\* The tables of the data path when the wires have been named: what of them is declared.
LEMMA DeclaredAre ==
  ASSUME NEW file \in Files, NamesGiven(file), NEW t, DataPathRead(file, t, Len(file)),
         DOMAIN t = DOMAIN EmptyTables, NEW u, u.regSeqList = t.regSeqList, u.portWidth = t.portWidth,
         u.muxSeqList = t.muxSeqList, u.fuSeqList = t.fuSeqList,
         DOMAIN u.muxList = DOMAIN t.muxList, DOMAIN u.fuList = DOMAIN t.fuList,
         \A m \in DOMAIN t.muxList : MuxWired(t, m, u.muxList[m]),
         \A f \in DOMAIN t.fuList : u.fuList[f].output = t.fuList[f].output
  PROVE  /\ NamesIn(file, "registers") \cup DOMAIN t.portWidth \cup {HighZ} \subseteq DeclaredNames(u)
         /\ \A m \in DOMAIN t.muxList : {u.muxList[m].select, u.muxList[m].wire} \subseteq DeclaredNames(u)
         /\ \A f \in DOMAIN t.fuList :
              /\ t.fuList[f].output = f \o <<"_wire">> /\ t.fuList[f].output \in DeclaredNames(u)
              /\ \A k \in Feeding(t, f) : WireOf(t, k) \in DeclaredNames(u)
<1>1. ToSet(t.regSeqList) = NamesIn(file, "registers")
  BY BeforeNamed DEF DataPathRead, RegistersNamed
<1>2. NamesIn(file, "registers") \cup DOMAIN t.portWidth \cup {HighZ} \subseteq DeclaredNames(u)
  BY <1>1 DEF DeclaredNames
<1>3. ToSet(u.muxSeqList) = DOMAIN t.muxList /\ ToSet(u.fuSeqList) = DOMAIN t.fuList
  BY DEF DataPathRead, MuxesRead, UnitsRead
<1>4. \A m \in DOMAIN t.muxList : {u.muxList[m].select, u.muxList[m].wire} \subseteq DeclaredNames(u)
  BY <1>3 DEF DeclaredNames
<1>5. ASSUME NEW f \in DOMAIN t.fuList
      PROVE  t.fuList[f].output = f \o <<"_wire">> /\ t.fuList[f].output \in DeclaredNames(u)
  <2>1. t.fuList[f].output = f \o <<"_wire">>
    <3>1. PICK i \in Before(file, "fu", Len(file)) : file[i].name = f
      BY DEF DataPathRead, UnitsRead, NamesBefore
    <3>2. UnitIs(t.fuList[f], file[i])
      BY <3>1 DEF DataPathRead, UnitsRead
    <3> QED BY <3>1, <3>2 DEF UnitIs
  <2>2. u.fuList[f].output \in DeclaredNames(u)
    BY <1>3 DEF DeclaredNames
  <2> QED BY <2>1, <2>2
<1>6. ASSUME NEW f \in DOMAIN t.fuList, NEW k \in Feeding(t, f) PROVE WireOf(t, k) \in DeclaredNames(u)
  <2> DEFINE m == t.muxSeqList[k]
  <2>1. m \in DOMAIN t.muxList /\ ~FeedsRegister(t, m)
    BY FeedingUnit
  <2>2. u.muxList[m].wire = WireOf(t, k)
    BY <2>1 DEF MuxWired, WireOf
  <2> QED BY <1>4, <2>1, <2>2
<1> QED BY <1>2, <1>4, <1>5, <1>6

\* The inputs of a multiplexer are declared, and its width has a module.
LEMMA MuxesAreDeclared ==
  ASSUME NEW file \in Files, NamesGiven(file), NEW t, DataPathRead(file, t, Len(file)),
         DOMAIN t = DOMAIN EmptyTables, NEW u, u.regSeqList = t.regSeqList, u.portWidth = t.portWidth,
         u.muxSeqList = t.muxSeqList, u.fuSeqList = t.fuSeqList, u.is_mux_in_file = t.is_mux_in_file,
         DOMAIN u.muxList = DOMAIN t.muxList, DOMAIN u.fuList = DOMAIN t.fuList,
         \A m \in DOMAIN t.muxList : MuxWired(t, m, u.muxList[m]),
         \A f \in DOMAIN t.fuList : u.fuList[f].output = t.fuList[f].output
  PROVE  MuxesResolve(u)
<1> DEFINE declared == DeclaredNames(u)
           registers == NamesIn(file, "registers")
           units == NamesIn(file, "fu")
           M == DOMAIN t.muxList
<1>1. /\ registers \subseteq declared /\ HighZ \in declared
      /\ \A m \in M : {u.muxList[m].select, u.muxList[m].wire} \subseteq declared
      /\ \A f \in DOMAIN t.fuList : t.fuList[f].output \in declared
  BY DeclaredAre
<1>2. /\ M = {file[i].name : i \in Places(file, "mux")}
      /\ \A i \in Places(file, "mux") : MuxIs(t, file[i])
      /\ \A x \in PairsIn(file, "csmux") : x[1] \in M /\ BitsAre(t.muxList[x[1]], x[2])
      /\ t.is_mux_in_file = {x[2] : x \in PairsIn(file, "csmux")}
  BY BeforeFinite, BeforeNamed DEF DataPathRead, MuxesRead, NamesBefore
<1>3. DOMAIN t.fuList = units /\ DOMAIN t.registers = registers
  BY BeforeNamed DEF DataPathRead, UnitsRead, RegistersNamed
<1>4. \A m \in M : \E x \in PairsIn(file, "csmux") : x[1] = m
  BY <1>2 DEF NamesGiven, LinesOf
<1> HIDE DEF declared, registers, units
<1>5. ASSUME NEW i \in Places(file, "mux"), NEW c \in DOMAIN t.muxList[file[i].name].input_cs
      PROVE  u.muxList[file[i].name].input_cs[c] \in declared
  <2> DEFINE m == file[i].name
             old == t.muxList[m]
             new == u.muxList[m]
  <2>1. m \in M /\ MuxWired(t, m, new) /\ file[i] \in LinesOf(file, "mux")
    BY <1>2 DEF LinesOf
  <2>2. old.output = file[i].output /\ old.input_cs[c] \in InputsOf(file[i]) \cup {HighZ}
    BY <1>2 DEF MuxIs
  <2>3. CASE file[i].output \in units /\ InputsOf(file[i]) \subseteq registers
    <3>1. ~FeedsRegister(t, m)
      BY <1>3, <2>2, <2>3 DEF FeedsRegister
    <3>2. new.input_cs[c] = old.input_cs[c]
      BY <2>1, <3>1 DEF MuxWired
    <3> QED BY <1>1, <2>2, <2>3, <3>2
  <2>4. CASE file[i].output \in registers /\ InputsOf(file[i]) \subseteq registers \cup units
    <3>1. registers \cap units = {}
      BY DEF NamesGiven, registers, units
    <3>2. FeedsRegister(t, m)
      BY <1>3, <2>2, <2>4, <3>1 DEF FeedsRegister
    <3>3. new.input_cs[c] = UnitWireOf(t, old.input_cs[c])
      BY <2>1, <3>2 DEF MuxWired
    <3> HIDE DEF new, old
    <3>4. CASE old.input_cs[c] \in DOMAIN t.fuList
      BY <1>1, <3>3, <3>4 DEF UnitWireOf, new
    <3>5. CASE old.input_cs[c] \notin DOMAIN t.fuList
      BY <1>1, <1>3, <2>2, <2>4, <3>3, <3>5 DEF UnitWireOf, new
    <3> QED BY <3>4, <3>5
  <2> QED BY <2>1, <2>3, <2>4 DEF NamesGiven, registers, units
<1>6. \A m \in M : /\ DOMAIN u.muxList[m].input_cs = DOMAIN t.muxList[m].input_cs
                   /\ u.muxList[m].bits = t.muxList[m].bits
  BY DEF MuxWired
<1>7. ASSUME NEW m \in DOMAIN u.muxList
      PROVE  LET mux == instantiateMux(u)[m]
             IN  {mux.select, mux.out} \cup ToSet(mux.inputs) \subseteq declared
  <2> DEFINE mux == instantiateMux(u)[m]
             bits == u.muxList[m].bits
             inputs == [i \in 0 .. 2^bits - 1 |-> u.muxList[m].input_cs[getBinary(i, bits)]]
  <2>2. PICK x \in PairsIn(file, "csmux") : x[1] = m
    BY <1>4
  <2>n. bits = x[2] /\ ~(bits < 0)
    <3>1. x[2] \in Nat
      <4>1. PICK p \in Places(file, "csmux") : x \in ToSet(file[p].pairs)
        BY DEF PairsIn, LinesOf
      <4> QED BY <4>1, LinesAre
    <3>2. bits = x[2]
      BY <1>2, <1>6, <2>2 DEF BitsAre
    <3> QED BY <3>1, <3>2
  <2>3. {getBinary(i, bits) : i \in 0 .. 2^bits - 1} \subseteq DOMAIN t.muxList[m].input_cs
    BY <1>2, <1>6, <2>2 DEF BitsAre
  <2>1. mux.select = u.muxList[m].select /\ mux.out = u.muxList[m].wire /\ mux.inputs = inputs
    <3> DEFINE Input(code) ==
                 IF code \in DOMAIN u.muxList[m].input_cs THEN u.muxList[m].input_cs[code] ELSE <<>>
               last == IF bits < 0 THEN -1 ELSE 2^bits - 1
               given == [i \in 0 .. last |-> Input(getBinary(i, bits))]
    <3>1. mux = [inputs |-> given, select |-> u.muxList[m].select, out |-> u.muxList[m].wire]
      BY DEF instantiateMux
    <3>2. last = 2^bits - 1
      BY <2>n
    <3>3. DOMAIN u.muxList[m].input_cs = DOMAIN t.muxList[m].input_cs
      BY <1>6
    <3> HIDE DEF bits, mux, last
    <3>4. \A i \in 0 .. 2^bits - 1 : Input(getBinary(i, bits)) = u.muxList[m].input_cs[getBinary(i, bits)]
      BY <2>3, <3>3
    <3> HIDE DEF Input
    <3>5. given = inputs
      BY <3>2, <3>4
    <3> HIDE DEF given, inputs
    <3> QED BY <3>1, <3>5
  <2>4. PICK p \in Places(file, "mux") : file[p].name = m
    BY <1>2
  <2>5. \A c \in DOMAIN t.muxList[m].input_cs : u.muxList[m].input_cs[c] \in declared
    BY <1>5, <2>4
  <2> HIDE DEF mux, bits
  <2>6. ToSet(inputs) = {u.muxList[m].input_cs[getBinary(i, bits)] : i \in 0 .. 2^bits - 1}
    BY DEF ToSet
  <2>7. ToSet(inputs) \subseteq declared
    BY <2>3, <2>5, <2>6
  <2> HIDE DEF inputs
  <2> QED BY <1>1, <2>1, <2>7 DEF mux
<1>8. {2^u.muxList[m].bits : m \in DOMAIN u.muxList} = {2^b : b \in u.is_mux_in_file}
  <2>1. \A x \in PairsIn(file, "csmux") : x[1] \in M /\ u.muxList[x[1]].bits = x[2]
    BY <1>2, <1>6 DEF BitsAre
  <2>2. \A m \in M : u.muxList[m].bits \in u.is_mux_in_file
    <3>1. ASSUME NEW m \in M PROVE u.muxList[m].bits \in u.is_mux_in_file
      <4>1. PICK x \in PairsIn(file, "csmux") : x[1] = m
        BY <1>4
      <4> QED BY <1>2, <2>1, <4>1
    <3> QED BY <3>1
  <2>3. \A b \in u.is_mux_in_file : \E m \in M : u.muxList[m].bits = b
    BY <1>2, <2>1
  <2> QED BY <2>2, <2>3
<1> QED BY <1>7, <1>8 DEF MuxesResolve, declared

\* A unit that knows an operation has a code for one.
LEMMA UnitKnowsOperation ==
  ASSUME NEW file \in Files, NamesGiven(file), NEW t, DataPathRead(file, t, Len(file)),
         NEW f \in DOMAIN t.fuList, NEW fu, fu.bits = t.fuList[f].bits,
         fu.operations = t.fuList[f].operations
  PROVE  OperationCodes(fu) # <<>>
<1>1. PICK i \in Places(file, "fu") : file[i].name = f /\ UnitIs(t.fuList[f], file[i])
  <2>1. PICK i \in Before(file, "fu", Len(file)) : file[i].name = f
    BY DEF DataPathRead, UnitsRead, NamesBefore
  <2> QED BY <2>1, BeforeFinite DEF DataPathRead, UnitsRead
<1> DEFINE known == {k \in DOMAIN fu.operations :
                       fu.operations[k] \in KnownOperations /\ (fu.bits = 0 => k = 1)}
           Code(k) == getBinary(Cardinality({j \in known : j < k}), fu.bits)
           First(code) == Min({k \in known : Code(k) = code})
<1>2. known # {}
  <2>1. PICK k \in DOMAIN file[i].operations :
          /\ file[i].operations[k] \in KnownOperations
          /\ k = 1 \/ \A x \in PairsIn(file, "csfu") : x[1] = file[i].name => x[2] > 0
    BY <1>1 DEF NamesGiven, LinesOf
  <2>2. fu.operations = file[i].operations
    BY <1>1 DEF UnitIs
  <2>3. \E y \in PairsIn(file, "csfu") : y[1] = file[i].name /\ y[2] = fu.bits
    <3>1. PICK x \in PairsIn(file, "csfu") : x[1] = file[i].name
      BY <1>1 DEF NamesGiven, LinesOf
    <3> QED BY <1>1, <3>1, BeforeNamed DEF DataPathRead, UnitsRead, BitsGiven
  <2>4. fu.bits = 0 => k = 1
    BY <2>1, <2>3
  <2> QED BY <2>1, <2>2, <2>4
<1>3. OperationCodes(fu) = [code \in {Code(k) : k \in known} |-> fu.operations[First(code)]]
  BY DEF OperationCodes
<1> HIDE DEF Code, First, known
<1>4. DOMAIN OperationCodes(fu) # {}
  BY <1>2, <1>3
<1>5. DOMAIN <<>> = {}
  OBVIOUS
<1> QED BY <1>4, <1>5

LEMMA PathsResolve ==
  ASSUME input \in Files, NamesGiven(input), NEW t, DataPathRead(input, t, Len(input)),
         DOMAIN t = DOMAIN EmptyTables,
         NEW u, u = populateRegFuLinkNames(populateMuxFuLinkNames(t)),
         \A fu \in ToSet(u.fuSeqList) : InOperandOrder(fu)
  PROVE  MuxesResolve(u) /\ UnitsResolve(u) /\ WritesResolve(u)
<1> DEFINE w == populateMuxFuLinkNames(t)
           registers == NamesIn(input, "registers")
           declared == DeclaredNames(u)
<1>1. /\ DOMAIN w = DOMAIN EmptyTables /\ w.muxSeqList = t.muxSeqList /\ w.fuSeqList = t.fuSeqList
      /\ w.regSeqList = t.regSeqList /\ w.portWidth = t.portWidth
      /\ w.muxLinks = t.muxLinks /\ w.regFuLinkList = t.regFuLinkList
      /\ w.is_mux_in_file = t.is_mux_in_file /\ w.stateList = t.stateList
      /\ w.rtOperationsList = t.rtOperationsList
      /\ DOMAIN w.muxList = DOMAIN t.muxList
      /\ \A m \in DOMAIN t.muxList : MuxWired(t, m, w.muxList[m])
      /\ DOMAIN w.fuList = DOMAIN t.fuList
      /\ \A f \in DOMAIN t.fuList : UnitFed(t, f, w.fuList[f])
      /\ \A r \in DOMAIN w.regWireList :
           /\ w.regWireList[r] = r \o <<"_wire">>
           /\ \E m \in DOMAIN t.muxList : FeedsRegister(t, m) /\ t.muxList[m].output = r
  BY MuxesWired
<1> HIDE DEF w
<1>2. ToSet(t.fuSeqList) = DOMAIN t.fuList
  BY DEF DataPathRead, UnitsRead
<1>3. /\ u.muxSeqList = t.muxSeqList /\ u.fuSeqList = t.fuSeqList /\ u.regSeqList = t.regSeqList
      /\ u.portWidth = t.portWidth /\ u.is_mux_in_file = t.is_mux_in_file
      /\ u.rtOperationsList = t.rtOperationsList /\ u.regWireList = w.regWireList
      /\ u.muxList = w.muxList /\ DOMAIN u.fuList = DOMAIN t.fuList
      /\ \A f \in DOMAIN t.fuList : u.fuList[f] = LinkUnit(w, f)
  BY <1>1, <1>2, UnitsLinked DEF w
<1>4. ASSUME NEW f \in DOMAIN t.fuList
      PROVE  LET new == u.fuList[f]
                 old == t.fuList[f]
                 connections == registers \cup {WireOf(t, k) : k \in Feeding(t, f)}
             IN  /\ new.output = old.output /\ new.bits = old.bits /\ new.operations = old.operations
                 /\ new.input1 \in connections /\ new.input2 \in connections
  <2>1. InOperandOrder(f)
    BY <1>2, <1>3
  <2> HIDE DEF registers
  <2> QED BY <1>1, <1>3, <2>1, UnitInputs DEF registers
<1>5. /\ DOMAIN u.muxList = DOMAIN t.muxList
      /\ \A m \in DOMAIN t.muxList : MuxWired(t, m, u.muxList[m])
      /\ \A f \in DOMAIN t.fuList : u.fuList[f].output = t.fuList[f].output
  BY <1>1, <1>3, <1>4
<1>6. /\ registers \cup DOMAIN t.portWidth \cup {HighZ} \subseteq declared
      /\ \A m \in DOMAIN t.muxList : {u.muxList[m].select, u.muxList[m].wire} \subseteq declared
      /\ \A f \in DOMAIN t.fuList :
           /\ t.fuList[f].output = f \o <<"_wire">> /\ t.fuList[f].output \in declared
           /\ \A k \in Feeding(t, f) : WireOf(t, k) \in declared
  BY <1>3, <1>5, DeclaredAre
<1>7. MuxesResolve(u)
  BY <1>3, <1>5, MuxesAreDeclared
<1> HIDE DEF declared, registers
<1>8. UnitsResolve(u)
  <2>1. ASSUME NEW f \in DOMAIN u.fuList
        PROVE  LET fu == instantiateFU(u)[f]
               IN  /\ {fu.out} \cup ToSet(fu.inputs) \subseteq declared
                   /\ OperationCodes(u.fuList[f]) # <<>>
    <3> DEFINE fu == instantiateFU(u)[f]
               new == u.fuList[f]
    <3>1. fu.out = new.output /\ fu.inputs = <<new.input1, new.input2>>
      BY DEF instantiateFU
    <3>2. f \in DOMAIN t.fuList
      BY <1>3
    <3>3. new.output \in declared /\ new.input1 \in declared /\ new.input2 \in declared
      BY <1>4, <1>6, <3>2
    <3> HIDE DEF fu, new
    <3>4. ToSet(fu.inputs) = {new.input1, new.input2}
      <4>1. DOMAIN <<new.input1, new.input2>> = {1, 2}
        OBVIOUS
      <4> QED BY <3>1, <4>1 DEF ToSet
    <3>5. OperationCodes(new) # <<>>
      BY <1>4, <3>2, UnitKnowsOperation DEF new
    <3> QED BY <3>1, <3>3, <3>4, <3>5 DEF fu, new
  <2> QED BY <2>1 DEF UnitsResolve, declared
<1>9. ASSUME NEW op \in ToSet(u.rtOperationsList), op.op \in OperationTypes
      PROVE  /\ op.out \in declared /\ (op.op # "A" => op.in1 \in declared)
             /\ op.op = "A" => op.wire \in declared
             /\ op.out \in DOMAIN u.regWireList => u.regWireList[op.out] \in declared
  <2>1. OperationNamed(input, t, op)
    BY <1>3 DEF DataPathRead, OperationsNamed
  <2>2. op.out \in declared /\ (op.op # "A" => op.in1 \in declared)
    <3>1. op.op = "A" \/ op.op \in {"R", "O"}
      BY <1>9 DEF OperationTypes
    <3> QED BY <1>6, <2>1, <3>1 DEF OperationNamed, registers
  <2>3. op.op = "A" => op.wire \in declared
    <3>1. DOMAIN t.fuList = NamesIn(input, "fu")
      BY BeforeNamed DEF DataPathRead, UnitsRead
    <3>2. \A f \in NamesIn(input, "fu") : f \o <<"_wire">> \in declared
      BY <1>6, <3>1
    <3> QED BY <2>1, <3>2 DEF OperationNamed
  <2>4. ASSUME op.out \in DOMAIN u.regWireList PROVE u.regWireList[op.out] \in declared
    <3>1. PICK m \in DOMAIN t.muxList : FeedsRegister(t, m) /\ t.muxList[m].output = op.out
      BY <1>1, <1>3, <2>4
    <3>2. u.muxList[m].wire = op.out \o <<"_wire">>
      BY <1>5, <3>1 DEF MuxWired
    <3>3. u.regWireList[op.out] = op.out \o <<"_wire">>
      BY <1>1, <1>3, <2>4
    <3> QED BY <1>6, <3>2, <3>3
  <2> QED BY <2>2, <2>3, <2>4
<1>10. WritesResolve(u)
  <2>1. ASSUME NEW s, NEW v \in writeToFromReg(u, s) PROVE {v[1], v[2]} \subseteq declared
    <3> DEFINE Computed(op) == IF op.out \in DOMAIN u.regWireList THEN u.regWireList[op.out] ELSE op.wire
               Source(op) == IF op.op = "A" THEN Computed(op) ELSE op.in1
    <3>1. PICK op \in ToSet(u.rtOperationsList) : op.op \in OperationTypes /\ v = <<op.out, Source(op)>>
      BY DEF writeToFromReg
    <3>2. Source(op) \in declared
      <4>1. CASE op.op # "A"
        BY <1>9, <3>1, <4>1
      <4>2. CASE op.op = "A" /\ op.out \in DOMAIN u.regWireList
        BY <1>9, <3>1, <4>2
      <4>3. CASE op.op = "A" /\ op.out \notin DOMAIN u.regWireList
        BY <1>9, <3>1, <4>3
      <4> QED BY <4>1, <4>2, <4>3
    <3> HIDE DEF Source, Computed
    <3> QED BY <1>9, <3>1, <3>2
  <2> QED BY <2>1 DEF WritesResolve, declared
<1> QED BY <1>7, <1>8, <1>10

-----------------------------------------------------------------------------
(***************************************************************************)
(* The data path of a file, and the names in the written modules.          *)
(***************************************************************************)

\* A line without data leaves the tables as they are.
LEMMA NoDataNamed ==
  ASSUME NEW file \in Files, NEW n \in Nat, file[n + 1].kind # "data",
         NEW t, DataPathRead(file, t, n)
  PROVE  DataPathRead(file, t, n + 1)
<1>1. \A sec : n + 1 \notin Places(file, sec)
  BY DEF Places
<1> QED BY <1>1, OtherPaths DEF DataPathRead

LEMMA InitDataPath == Init => DataPathInv
<1> SUFFICES ASSUME Init PROVE DataPathInv
  OBVIOUS
<1>1. input \in Files /\ line = 0 /\ pc = "reading" /\ tables = EmptyTables
  BY DEF Init, GeneratorInit
<1> QED BY <1>1, NothingRead DEF DataPathInv

LEMMA ReadingKeepsPaths ==
  ASSUME GeneratorInv, DataPathInv, IdentifySection \/ EndSection \/ ParseLine
  PROVE  DataPathInv'
<1> SUFFICES ASSUME NamesGiven(input), pc' = "reading"
             PROVE  DataPathRead(input, tables', line + 1)
  BY DEF DataPathInv, IdentifySection, EndSection, ParseLine, ReadingLine
<1>1. /\ pc = "reading" /\ line < Len(input) /\ line \in Nat /\ input \in Files
      /\ TablesRead(input, tables, line) /\ DataPathRead(input, tables, line)
      /\ SectionFlag(input, section, line) /\ OwnSection(input, section, line) /\ Separated(input)
  BY DEF GeneratorInv, FileRead, NamesGiven, DataPathInv, IdentifySection, EndSection, ParseLine,
         ReadingLine
<1>2. /\ section = "none" => Current.kind # "data"
      /\ Current.kind = "blank" => Current.kind # "data"
      /\ section # "none" /\ Current.kind # "blank" =>
           Current.kind # "header" /\ line + 1 \in Places(input, section)
      /\ section # "none" /\ Current.kind # "blank" /\ Current.kind # "header" => section \in Sections
  BY <1>1, NextLine, NextOwnLine DEF Current
<1>3. CASE tables' = tables /\ (section = "none" \/ Current.kind = "blank")
  <2>1. Current.kind # "data"
    BY <1>2, <1>3
  <2> QED BY <1>1, <1>3, <2>1, NoDataNamed DEF Current
<1>4. CASE ParseLine
  <2>1. /\ section # "none" /\ Current.kind # "blank"
        /\ \E bits \in Indeterminate : tables' = parseLine(tables, section, Current, bits)
        /\ tables'.status = "ok"
    BY <1>4 DEF ParseLine
  <2>2. PICK bits \in Indeterminate : tables' = parseLine(tables, section, Current, bits)
    BY <2>1
  <2>3. section \in Sections /\ line + 1 \in Places(input, section)
    BY <1>2, <2>1
  <2> QED BY <1>1, <2>1, <2>2, <2>3, LineNamed DEF Current
<1> QED BY <1>3, <1>4 DEF IdentifySection, EndSection

LEMMA CompletingKeepsPaths ==
  ASSUME GeneratorInv, DataPathInv, PostProcess \/ WriteFile
  PROVE  DataPathInv'
<1> DEFINE Ordered(t) == \A fu \in ToSet(t.fuSeqList) : InOperandOrder(fu)
           Resolve(t) == MuxesResolve(t) /\ UnitsResolve(t) /\ WritesResolve(t)
<1>1. input' = input /\ pc' # "reading"
  BY DEF PostProcess, WriteFile
<1>2. (\A fu : InOperandOrder(fu)' <=> InOperandOrder(fu)) /\ (NamesGiven(input)' <=> NamesGiven(input))
  BY <1>1 DEF InOperandOrder, MuxesOf, NamedTogether, UnitOperations
<1>3. ASSUME NamesGiven(input), pc' \in {"processed", "written"}, Ordered(tables') PROVE Resolve(tables')
  <2>1. CASE PostProcess
    <3> DEFINE c == populateVerilogStateRepresentations(tables)
    <3>1. /\ input \in Files /\ tables' = populateRegFuLinkNames(populateMuxFuLinkNames(c))
          /\ DataPathRead(input, tables, Len(input)) /\ TablesRead(input, tables, Len(input))
      BY <1>3, <2>1 DEF PostProcess, GeneratorInv, FileRead, NamesGiven, DataPathInv
    <3>2. DOMAIN tables = DOMAIN EmptyTables
      BY <3>1 DEF TablesRead, StatesOK
    <3>3. /\ DOMAIN c = DOMAIN tables /\ c.registers = tables.registers
          /\ c.regSeqList = tables.regSeqList /\ c.muxList = tables.muxList
          /\ c.muxSeqList = tables.muxSeqList /\ c.muxLinks = tables.muxLinks
          /\ c.is_mux_in_file = tables.is_mux_in_file /\ c.fuList = tables.fuList
          /\ c.fuSeqList = tables.fuSeqList /\ c.rtOperationsList = tables.rtOperationsList
          /\ c.regFuLinkList = tables.regFuLinkList /\ c.portWidth = tables.portWidth
      <4>1. \E b, s : c = [tables EXCEPT !.bits_req = b, !.stateList = s]
        BY DEF populateVerilogStateRepresentations
      <4> HIDE DEF c
      <4> QED BY <3>2, <4>1, TableFields
    <3> HIDE DEF c
    <3>4. DataPathRead(input, c, Len(input))
      <4>1. RegistersNamed(input, c, Len(input)) /\ UnitsRead(input, c, Len(input))
        BY <3>1, <3>3 DEF DataPathRead, RegistersNamed, UnitsRead, BitsGiven
      <4>2. MuxesRead(input, c, Len(input))
        <5>1. \A l : MuxIs(c, l) <=> MuxIs(tables, l)
          BY <3>3 DEF MuxIs
        <5> QED BY <3>1, <3>3, <5>1 DEF DataPathRead, MuxesRead
      <4>3. OperationsNamed(input, c, Len(input))
        <5>1. \A op : OperationNamed(input, c, op) <=> OperationNamed(input, tables, op)
          BY <3>3 DEF OperationNamed
        <5> QED BY <3>1, <3>3, <5>1 DEF DataPathRead, OperationsNamed
      <4> QED BY <4>1, <4>2, <4>3 DEF DataPathRead
    <3> QED BY <1>3, <3>1, <3>2, <3>3, <3>4, PathsResolve
  <2>2. CASE WriteFile
    <3> DEFINE u == writeFSM(tables)
    <3>1. pc = "processed" /\ StatesOK(tables)
      BY <2>2 DEF WriteFile, GeneratorInv
    <3>2. tables' = u /\ tables.stateSeqList # <<>>
      <4>1. DOMAIN tables = DOMAIN EmptyTables /\ (pc' = "processed" => FALSE)
        BY <3>1, <2>2 DEF StatesOK, WriteFile
      <4> QED BY <1>3, <2>2, <4>1, Written
    <3>3. /\ u.muxList = tables.muxList /\ u.muxSeqList = tables.muxSeqList
          /\ u.is_mux_in_file = tables.is_mux_in_file /\ u.fuList = tables.fuList
          /\ u.fuSeqList = tables.fuSeqList /\ u.regSeqList = tables.regSeqList
          /\ u.portWidth = tables.portWidth /\ u.regWireList = tables.regWireList
          /\ u.rtOperationsList = tables.rtOperationsList
      BY <3>1, <3>2, TableFields DEF writeFSM, StatesOK
    <3> HIDE DEF u
    <3>4. DeclaredNames(u) = DeclaredNames(tables)
      BY <3>3 DEF DeclaredNames
    <3>5. MuxesResolve(tables) => MuxesResolve(u)
      <4>1. instantiateMux(u) = instantiateMux(tables)
        BY <3>3 DEF instantiateMux
      <4> QED BY <3>3, <3>4, <4>1 DEF MuxesResolve
    <3>6. UnitsResolve(tables) => UnitsResolve(u)
      BY <3>3, <3>4 DEF UnitsResolve, instantiateFU
    <3>7. WritesResolve(tables) => WritesResolve(u)
      <4>1. \A x : writeToFromReg(u, x) = writeToFromReg(tables, x)
        BY <3>3 DEF writeToFromReg
      <4> QED BY <3>4, <4>1 DEF WritesResolve
    <3> QED BY <1>3, <3>1, <3>2, <3>3, <3>5, <3>6, <3>7 DEF DataPathInv
  <2> QED BY <2>1, <2>2
<1>4. /\ MuxesResolve(tables)' <=> MuxesResolve(tables')
      /\ UnitsResolve(tables)' <=> UnitsResolve(tables')
      /\ WritesResolve(tables)' <=> WritesResolve(tables')
  OBVIOUS
<1> QED BY <1>1, <1>2, <1>3, <1>4 DEF DataPathInv

LEMMA NextDataPath == GeneratorInv /\ DataPathInv /\ [Next]_vars => DataPathInv'
<1> SUFFICES ASSUME GeneratorInv, DataPathInv, [Next]_vars PROVE DataPathInv'
  OBVIOUS
<1>1. CASE GeneratorNext
  BY <1>1, ReadingKeepsPaths, CompletingKeepsPaths DEF GeneratorNext
<1>2. CASE UNCHANGED generatorVars
  <2>1. input' = input /\ line' = line /\ pc' = pc /\ tables' = tables
    BY <1>2 DEF generatorVars
  <2>2. \A fu : InOperandOrder(fu)' <=> InOperandOrder(fu)
    BY <2>1 DEF InOperandOrder, MuxesOf, NamedTogether, UnitOperations
  <2> QED BY <2>1, <2>2 DEF DataPathInv
<1>3. GeneratorNext \/ UNCHANGED generatorVars
  BY DEF Next, Reset, Clock, vars
<1> QED BY <1>1, <1>2, <1>3

\* For every file that says what its names are the tables hold the data path of the lines so far
\* (populateMux, populateBitsInMux, functionUnitRegLinker), and completing them gives every
\* multiplexer, unit and assignment declared names (populateMuxFuLinkNames, populateRegFuLinkNames).
THEOREM DataPathInvariant == Spec => []DataPathInv
<1> QED BY InitDataPath, NextDataPath, GeneratorInvariant, PTL DEF Spec

\* What is assigned in a state is what its transfers say, or nothing.
LEMMA ItemWrites ==
  ASSUME GeneratorInv, pc = "written", Consistent(input), NEW s \in DOMAIN tables.stateList
  PROVE  CaseItem(tables, s).writes \in {writeToFromReg(tables, s), {}}
<1> DEFINE ways == tables.stateList[s].no_ways
           writes == CaseItem(tables, s).writes
<1>1. ways \in 0 .. 2
  BY DEF GeneratorInv, TablesRead, StatesRead
<1>2. /\ ways = 1 => writes = writeToFromReg(tables, s)
      /\ ways = 2 /\ EnabledRegisters(tables, s) # {} => writes = writeToFromReg(tables, s)
      /\ ways = 2 /\ EnabledRegisters(tables, s) = {} => writes = {}
      /\ ways = 0 => writes = {}
  BY <1>1, ItemsAre
<1> HIDE DEF ways, writes
<1> QED BY <1>1, <1>2 DEF writes

\* Whatever a file with given names describes, the module written for it uses no name it does
\* not declare: the wires between multiplexers, units and registers, the select lines, and
\* what a state assigns; and each multiplexer's width has a module (populateBitsInMux,
\* instantiateMux, instantiateFU, writeToFromReg).
THEOREM NamesAreDeclared == Spec => []NamesResolve
<1>1. GeneratorInv /\ DataPathInv => NamesResolve
  <2> SUFFICES ASSUME GeneratorInv, DataPathInv, Running, NamesGiven(input),
                      \A fu \in ToSet(tables.fuSeqList) : InOperandOrder(fu)
               PROVE  LET declared == DeclaredNames(tables)
                      IN  /\ \A m \in DOMAIN Muxes :
                               {Muxes[m].select, Muxes[m].out} \cup ToSet(Muxes[m].inputs) \subseteq declared
                          /\ \A f \in DOMAIN Units :
                               /\ {Units[f].out} \cup ToSet(Units[f].inputs) \subseteq declared
                               /\ OperationCodes(tables.fuList[f]) # <<>>
                          /\ \A s \in DOMAIN tables.stateList :
                               \A w \in CaseItem(tables, s).writes : {w[1], w[2]} \subseteq declared
                          /\ {2^tables.muxList[m].bits : m \in DOMAIN Muxes} =
                               {2^b : b \in tables.is_mux_in_file}
    BY DEF NamesResolve
  <2>1. pc = "written" /\ Consistent(input)
    BY DEF Running
  <2>2. MuxesResolve(tables) /\ UnitsResolve(tables) /\ WritesResolve(tables)
    BY <2>1 DEF DataPathInv
  <2>3. DOMAIN Muxes = DOMAIN tables.muxList /\ DOMAIN Units = DOMAIN tables.fuList
    BY DEF Muxes, Units, instantiateMux, instantiateFU
  <2>4. \A m \in DOMAIN Muxes :
          {Muxes[m].select, Muxes[m].out} \cup ToSet(Muxes[m].inputs) \subseteq DeclaredNames(tables)
    BY <2>2, <2>3 DEF MuxesResolve, Muxes
  <2>5. \A f \in DOMAIN Units :
          /\ {Units[f].out} \cup ToSet(Units[f].inputs) \subseteq DeclaredNames(tables)
          /\ OperationCodes(tables.fuList[f]) # <<>>
    BY <2>2, <2>3 DEF UnitsResolve, Units
  <2>6. \A s \in DOMAIN tables.stateList :
          \A w \in CaseItem(tables, s).writes : {w[1], w[2]} \subseteq DeclaredNames(tables)
    BY <2>1, <2>2, ItemWrites DEF WritesResolve
  <2>7. {2^tables.muxList[m].bits : m \in DOMAIN Muxes} = {2^b : b \in tables.is_mux_in_file}
    BY <2>2, <2>3 DEF MuxesResolve
  <2> QED BY <2>4, <2>5, <2>6, <2>7
<1> QED BY <1>1, GeneratorInvariant, DataPathInvariant, PTL
=============================================================================
