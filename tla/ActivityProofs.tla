--------------------------- MODULE ActivityProofs ---------------------------
(***************************************************************************)
(* The activity recogniser, for every number of activities, of folds and   *)
(* of ranges, every capacity and every log.  First the reader of the log:  *)
(* it keeps the occurrences of the activities apart in its one array, and  *)
(* counts the open ones.  Then the whole program: its ranges, its folds,   *)
(* what it trains with and what it tests.                                  *)
(***************************************************************************)
EXTENDS ActivityRecognition, ListLemmas, FunctionTheorems

-----------------------------------------------------------------------------
(***************************************************************************)
(* A finite set of integers can be listed in order: by rank.               *)
(***************************************************************************)

UpTo(S, x) == {y \in S : y <= x}

LEMMA RankIncreases ==
  ASSUME NEW S, S \subseteq Int, IsFiniteSet(S)
  PROVE  /\ \A x \in S : Cardinality(UpTo(S, x)) \in 1 .. Cardinality(S)
         /\ \A x, y \in S : x < y => Cardinality(UpTo(S, x)) < Cardinality(UpTo(S, y))
<1>1. ASSUME NEW x \in S
      PROVE  /\ IsFiniteSet(UpTo(S, x))
             /\ Cardinality(UpTo(S, x)) \in 1 .. Cardinality(S)
  <2>1. UpTo(S, x) \in SUBSET S /\ x \in UpTo(S, x)
    BY DEF UpTo
  <2>2. /\ IsFiniteSet(UpTo(S, x)) /\ Cardinality(UpTo(S, x)) <= Cardinality(S)
    BY <2>1, FS_Subset
  <2>3. Cardinality(UpTo(S, x)) # 0
    BY <2>1, <2>2, FS_EmptySet
  <2> QED BY <2>2, <2>3, FS_CardinalityType
<1>2. ASSUME NEW x \in S, NEW y \in S, x < y
      PROVE  Cardinality(UpTo(S, x)) < Cardinality(UpTo(S, y))
  <2>0. \A z \in S : z \in Int
    OBVIOUS
  <2>1. /\ UpTo(S, x) \in SUBSET UpTo(S, y)
        /\ y \in UpTo(S, y) /\ y \notin UpTo(S, x)
    <3>1. x \in Int /\ y \in Int
      BY <2>0
    <3>2. ASSUME NEW z \in UpTo(S, x) PROVE z \in UpTo(S, y)
      <4>1. z \in S /\ z \in Int /\ z <= x
        BY <2>0 DEF UpTo
      <4> QED BY <1>2, <3>1, <4>1 DEF UpTo
    <3>3. y <= y /\ ~(y <= x)
      BY <1>2, <3>1
    <3> QED BY <3>2, <3>3 DEF UpTo
  <2>2. /\ Cardinality(UpTo(S, x)) <= Cardinality(UpTo(S, y))
        /\ Cardinality(UpTo(S, x)) # Cardinality(UpTo(S, y))
    BY <1>1, <2>1, FS_Subset
  <2>3. Cardinality(UpTo(S, x)) \in Nat /\ Cardinality(UpTo(S, y)) \in Nat
    BY <1>1, FS_CardinalityType
  <2> QED BY <2>2, <2>3
<1> QED BY <1>1, <1>2

LEMMA InOrderProperties ==
  ASSUME NEW S, S \subseteq Activities
  PROVE  InOrder(S) \in Seq(S)
<1>1. S \subseteq Int /\ IsFiniteSet(S)
  <2>1. Activities \subseteq Int /\ IsFiniteSet(Activities)
    BY LogAssumption, FS_Interval DEF Activities
  <2> QED BY <2>1, FS_Subset
<1> DEFINE n == Cardinality(S)
           rank == [x \in S |-> Cardinality(UpTo(S, x))]
           list == [i \in 1 .. n |-> CHOOSE x \in S : rank[x] = i]
<1>2. n \in Nat /\ IsFiniteSet(1 .. n) /\ Cardinality(1 .. n) = n
  BY <1>1, FS_CardinalityType, FS_Interval
<1>3. /\ rank \in [S -> 1 .. n]
      /\ \A x, y \in S : x < y => rank[x] < rank[y]
  BY <1>1, RankIncreases
<1> HIDE DEF n, rank
<1>4. \A x, y \in S : rank[x] = rank[y] => x = y
  <2> SUFFICES ASSUME NEW x \in S, NEW y \in S, rank[x] = rank[y] PROVE x = y
    OBVIOUS
  <2>1. x < y \/ y < x \/ x = y
    BY <1>1
  <2>2. rank[x] \in Nat /\ rank[y] \in Nat
    BY <1>2, <1>3
  <2> QED BY <1>3, <2>1, <2>2
<1>5. rank \in Injection(S, 1 .. n)
  BY <1>3, <1>4, Fun_IsInj
<1>6. \A i \in 1 .. n : \E x \in S : rank[x] = i
  <2>1. rank \in Surjection(S, 1 .. n)
    BY <1>2, <1>5, FS_Injection DEF n
  <2> QED BY <2>1 DEF Surjection
<1>7. /\ list \in [1 .. n -> S]
      /\ \A i \in 1 .. n : rank[list[i]] = i
  BY <1>6
<1> HIDE DEF list
<1>8. \A i, j \in DOMAIN list : i < j => list[i] < list[j]
  <2> SUFFICES ASSUME NEW i \in 1 .. n, NEW j \in 1 .. n, i < j PROVE list[i] < list[j]
    BY <1>7
  <2>1. list[i] \in S /\ list[j] \in S /\ rank[list[i]] = i /\ rank[list[j]] = j
    BY <1>7
  <2>2. ~(list[j] < list[i]) /\ list[i] # list[j]
    BY <1>2, <1>3, <2>1
  <2>3. list[i] \in Int /\ list[j] \in Int
    BY <1>1, <2>1
  <2> QED BY <2>2, <2>3
<1>9. InOrder(S) \in [1 .. n -> S]
  BY <1>7, <1>8 DEF InOrder, n
<1> QED BY <1>2, <1>9, SeqDef

-----------------------------------------------------------------------------
(***************************************************************************)
(* The inductive invariant.                                                *)
(***************************************************************************)

Event == [label : Activities, time : Int, hour : Int, occurrence : Nat \ {0}]
Occurrence == [start : Nat, length : Nat, previous : Activities]

LogTypeOK ==
  /\ lines \in 0 .. MaxLines
  /\ aevents \in Seq(Event) /\ evnum <= MAXALENGTH
  /\ open \subseteq Activities
  /\ current \in [Activities -> Occurrence]
  /\ finished \in [Activities -> Seq(Occurrence)]
  /\ previous \in Activities

\* Events are of the finished occurrences and of those that are open.
NumberedIn(E, S) ==
  \A i \in 1 .. Len(E) :
    /\ E[i].occurrence <= afreq(E[i].label) + 1
    /\ E[i].occurrence = afreq(E[i].label) + 1 => E[i].label \in S

\* The events of an activity are in the order of its occurrences.
NumbersRise(E) ==
  \A i, k \in 1 .. Len(E) :
    i <= k /\ E[i].label = E[k].label => E[i].occurrence <= E[k].occurrence

AddedIn(E, a, j) == {i \in 1 .. Len(E) : E[i].label = a /\ E[i].occurrence = j}

\* The start of an occurrence separates its events from those of the earlier ones.
Separates(E, a, j, start) ==
  /\ start > 0
  /\ \A i \in 1 .. Len(E) :
       E[i].label = a => /\ E[i].occurrence = j => start <= i
                         /\ start <= i => j <= E[i].occurrence

Apart(E, a, j, occ) ==
  /\ occ.length = Cardinality(AddedIn(E, a, j))
  /\ occ.length > 0 => Separates(E, a, j, occ.start)

OccurrencesApart ==
  \A a \in Activities :
    /\ \A j \in 1 .. afreq(a) : Apart(aevents, a, j, finished[a][j])
    /\ Apart(aevents, a, afreq(a) + 1, current[a])

\* An open activity has an event, unless there was no room for it.
OpenHasEvent == \A a \in open : current[a].length = 0 => evnum = MAXALENGTH

LogInv ==
  /\ LogTypeOK
  /\ NumberedIn(aevents, open)
  /\ NumbersRise(aevents)
  /\ OccurrencesApart
  /\ OpenHasEvent

-----------------------------------------------------------------------------
(***************************************************************************)
(* AddActivity.                                                            *)
(***************************************************************************)

LEMMA StoredProperties ==
  ASSUME LogTypeOK, NEW T, NEW targets \in Seq(T)
  PROVE  LET s == Stored(targets)
         IN  /\ s \in Seq(T) /\ Len(s) \in Nat
             /\ evnum \in Nat /\ evnum + Len(s) <= MAXALENGTH
             /\ \A k \in 1 .. Len(s) : k \in 1 .. Len(targets) /\ s[k] = targets[k]
             /\ targets # <<>> /\ Len(s) = 0 => evnum = MAXALENGTH
<1> DEFINE n == IF Len(targets) < MAXALENGTH - evnum THEN Len(targets) ELSE MAXALENGTH - evnum
<1>1. evnum \in Nat /\ MAXALENGTH \in Nat /\ evnum <= MAXALENGTH /\ Len(targets) \in Nat
  BY LogAssumption, LenProperties DEF LogTypeOK, evnum
<1>2. n \in Nat /\ n <= Len(targets) /\ evnum + n <= MAXALENGTH
  BY <1>1
<1>3. \A k \in 1 .. n : k \in 1 .. Len(targets) /\ targets[k] \in T
  BY <1>1, <1>2, ElementOfSeq
<1>4. Stored(targets) = SubSeq(targets, 1, n)
  BY DEF Stored
<1>5. n = 0 => evnum = MAXALENGTH \/ Len(targets) = 0
  BY <1>1
<1> HIDE DEF n
<1>6. /\ SubSeq(targets, 1, n) \in Seq(T)
      /\ Len(SubSeq(targets, 1, n)) = n
      /\ \A k \in 1 .. n : SubSeq(targets, 1, n)[k] = targets[k]
  <2>1. \A i \in 1 .. n : targets[i] \in T
    BY <1>3
  <2>2. /\ SubSeq(targets, 1, n) \in Seq(T)
        /\ Len(SubSeq(targets, 1, n)) = IF 1 <= n THEN n - 1 + 1 ELSE 0
        /\ \A i \in 1 .. n - 1 + 1 : SubSeq(targets, 1, n)[i] = targets[1 + i - 1]
    BY <1>2, <2>1, SubSeqProperties
  <2> QED BY <1>2, <2>2
<1>7. targets # <<>> => Len(targets) # 0
  BY <1>1, EmptySeq
<1> QED BY <1>1, <1>2, <1>3, <1>4, <1>5, <1>6, <1>7

\* The events that are there stay, and those of the targets follow.
LEMMA EventsAppended ==
  ASSUME LogTypeOK, lines < MaxLines,
         NEW T, T \subseteq Activities, NEW targets \in Seq(T), AddEvents(targets)
  PROVE  LET s == Stored(targets)
         IN  /\ aevents' \in Seq(Event)
             /\ Len(aevents') = evnum + Len(s)
             /\ \A i \in 1 .. evnum : aevents'[i] = aevents[i]
             /\ \A i \in 1 .. Len(aevents') : i > evnum =>
                  /\ i - evnum \in 1 .. Len(s)
                  /\ aevents'[i].label = s[i - evnum]
                  /\ aevents'[i].occurrence = afreq(s[i - evnum]) + 1
                  /\ aevents'[i].time = aevents'[i].hour
<1> DEFINE s == Stored(targets)
           e(k) == [label |-> s[k], time |-> Hour(lines + 1), hour |-> Hour(lines + 1),
                    occurrence |-> afreq(s[k]) + 1]
           new == [k \in 1 .. Len(s) |-> e(k)]
<1>1. s \in Seq(T) /\ Len(s) \in Nat /\ evnum \in Nat
  BY StoredProperties
<1>2. \A k \in 1 .. Len(s) : e(k) \in Event
  <2> SUFFICES ASSUME NEW k \in 1 .. Len(s) PROVE e(k) \in Event
    OBVIOUS
  <2>1. s[k] \in Activities
    BY <1>1, ElementOfSeq
  <2>2. Hour(lines + 1) \in Int
    <3>1. lines + 1 \in 1 .. MaxLines
      BY LogAssumption DEF LogTypeOK
    <3> QED BY <3>1, LogAssumption
  <2>3. afreq(s[k]) \in Nat
    BY <2>1, LenProperties DEF LogTypeOK, afreq
  <2> HIDE DEF s
  <2> QED BY <2>1, <2>2, <2>3 DEF Event
<1>3. aevents' = aevents \o new
  <2>1. DOMAIN s = 1 .. Len(s)
    BY <1>1, LenProperties
  <2> QED BY <2>1 DEF AddEvents
<1>4. new \in Seq(Event) /\ Len(new) = Len(s)
  <2> HIDE DEF s, e
  <2>1. new \in [1 .. Len(s) -> Event]
    BY <1>2
  <2>2. new \in Seq(Event)
    BY <1>1, <2>1, SeqDef
  <2> QED BY <1>1, <2>1, <2>2, LenProperties
<1>5. \A k \in 1 .. Len(s) : new[k] = e(k)
  OBVIOUS
<1> HIDE DEF new
<1>6. /\ aevents' \in Seq(Event) /\ Len(aevents') = evnum + Len(s)
      /\ \A i \in 1 .. evnum + Len(s) :
           aevents'[i] = IF i <= evnum THEN aevents[i] ELSE new[i - evnum]
  <2>1. aevents \in Seq(Event) /\ Len(aevents) = evnum
    BY DEF LogTypeOK, evnum
  <2> HIDE DEF s, e
  <2>2. /\ aevents \o new \in Seq(Event)
        /\ Len(aevents \o new) = Len(aevents) + Len(new)
        /\ \A i \in 1 .. Len(aevents) + Len(new) :
             (aevents \o new)[i] = IF i <= Len(aevents) THEN aevents[i] ELSE new[i - Len(aevents)]
    BY <1>4, <2>1, ConcatProperties
  <2> QED BY <1>3, <1>4, <2>1, <2>2
<1>7. \A i \in 1 .. evnum : aevents'[i] = aevents[i]
  BY <1>1, <1>6
<1>8. ASSUME NEW i \in 1 .. Len(aevents'), i > evnum
      PROVE  i - evnum \in 1 .. Len(s) /\ aevents'[i] = e(i - evnum)
  <2> HIDE DEF s, e
  <2>1. i \in 1 .. evnum + Len(s) /\ ~(i <= evnum) /\ i - evnum \in 1 .. Len(s)
    BY <1>1, <1>6, <1>8
  <2> QED BY <1>5, <1>6, <2>1
<1>9. \A k : /\ e(k).label = s[k] /\ e(k).occurrence = afreq(s[k]) + 1
             /\ e(k).time = e(k).hour
  OBVIOUS
<1> HIDE DEF s, e
<1>10. \A i \in 1 .. Len(aevents') : i > evnum =>
         /\ i - evnum \in 1 .. Len(s)
         /\ aevents'[i].label = s[i - evnum]
         /\ aevents'[i].occurrence = afreq(s[i - evnum]) + 1
         /\ aevents'[i].time = aevents'[i].hour
  BY <1>8, <1>9
<1> QED BY <1>6, <1>7, <1>10 DEF s

-----------------------------------------------------------------------------
(***************************************************************************)
(* What events of the open occurrences, put at the end of the array, do to *)
(* each occurrence.                                                        *)
(***************************************************************************)

ExtendedBy(E, F, s) ==
  /\ Len(F) = Len(E) + Len(s)
  /\ \A i \in 1 .. Len(E) : F[i] = E[i]
  /\ \A i \in 1 .. Len(F) : i > Len(E) =>
       /\ i - Len(E) \in 1 .. Len(s)
       /\ F[i].label = s[i - Len(E)]
       /\ F[i].occurrence = afreq(s[i - Len(E)]) + 1

LEMMA ExtendedElements ==
  ASSUME NEW E \in Seq(Event), NEW F \in Seq(Event), NEW s \in Seq(Activities),
         ExtendedBy(E, F, s), NEW i \in 1 .. Len(F)
  PROVE  /\ Len(E) \in Nat /\ Len(F) \in Nat /\ Len(s) \in Nat
         /\ F[i].label \in Activities /\ F[i].occurrence \in Nat
         /\ \/ i \in 1 .. Len(E) /\ F[i] = E[i]
            \/ /\ i > Len(E) /\ i - Len(E) \in 1 .. Len(s)
               /\ F[i].label = s[i - Len(E)]
               /\ F[i].occurrence = afreq(F[i].label) + 1
<1>1. Len(E) \in Nat /\ Len(F) \in Nat /\ Len(s) \in Nat /\ F[i] \in Event
  BY LenProperties, ElementOfSeq
<1>2. i \in 1 .. Len(E) \/ i > Len(E)
  BY <1>1
<1> QED BY <1>1, <1>2 DEF ExtendedBy, Event

LEMMA AddedGrows ==
  ASSUME NEW E \in Seq(Event), NEW F \in Seq(Event), NEW s \in Seq(Activities),
         ExtendedBy(E, F, s), NEW a \in Activities
  PROVE  /\ Count(s, a) \in Nat
         /\ Count(s, a) = 0 => \A k \in 1 .. Len(s) : s[k] # a
         /\ (\A k \in 1 .. Len(s) : s[k] # a) => Count(s, a) = 0
         /\ \A j : j # afreq(a) + 1 => AddedIn(F, a, j) = AddedIn(E, a, j)
         /\ \A j : IsFiniteSet(AddedIn(E, a, j)) /\ Cardinality(AddedIn(E, a, j)) \in Nat
         /\ Cardinality(AddedIn(F, a, afreq(a) + 1))
              = Cardinality(AddedIn(E, a, afreq(a) + 1)) + Count(s, a)
<1> DEFINE own == {k \in DOMAIN s : s[k] = a}
           f == [k \in own |-> Len(E) + k]
           late == {Len(E) + k : k \in own}
           j0 == afreq(a) + 1
<1>1. Len(E) \in Nat /\ Len(F) \in Nat /\ Len(s) \in Nat /\ DOMAIN s = 1 .. Len(s)
  BY LenProperties
<1>2. IsFiniteSet(own) /\ Cardinality(own) \in Nat /\ own \subseteq 1 .. Len(s)
  <2>1. own \in SUBSET (1 .. Len(s)) /\ IsFiniteSet(1 .. Len(s))
    BY <1>1, FS_Interval
  <2> HIDE DEF own
  <2> QED BY <2>1, FS_Subset, FS_CardinalityType
<1>3. Count(s, a) = Cardinality(own)
  BY DEF Count
<1>4. (own = {} <=> \A k \in 1 .. Len(s) : s[k] # a) /\ (Cardinality(own) = 0 <=> own = {})
  <2>1. own = {} <=> \A k \in 1 .. Len(s) : s[k] # a
    BY <1>1
  <2> HIDE DEF own
  <2> QED BY <1>2, <2>1, FS_EmptySet
<1>5. \A j : IsFiniteSet(AddedIn(E, a, j)) /\ Cardinality(AddedIn(E, a, j)) \in Nat
  <2> SUFFICES ASSUME NEW j
               PROVE  IsFiniteSet(AddedIn(E, a, j)) /\ Cardinality(AddedIn(E, a, j)) \in Nat
    OBVIOUS
  <2>1. AddedIn(E, a, j) \in SUBSET (1 .. Len(E)) /\ IsFiniteSet(1 .. Len(E))
    BY <1>1, FS_Interval DEF AddedIn
  <2> QED BY <2>1, FS_Subset, FS_CardinalityType
<1>6. \A j : j # j0 => AddedIn(F, a, j) = AddedIn(E, a, j)
  <2> SUFFICES ASSUME NEW j, j # j0 PROVE AddedIn(F, a, j) = AddedIn(E, a, j)
    OBVIOUS
  <2>1. ASSUME NEW i \in AddedIn(F, a, j) PROVE i \in AddedIn(E, a, j)
    <3>1. i \in 1 .. Len(F) /\ F[i].label = a /\ F[i].occurrence = j
      BY DEF AddedIn
    <3>2. i \in 1 .. Len(E) /\ F[i] = E[i]
      BY <3>1, ExtendedElements
    <3> QED BY <3>1, <3>2 DEF AddedIn
  <2>2. ASSUME NEW i \in AddedIn(E, a, j) PROVE i \in AddedIn(F, a, j)
    <3>1. i \in 1 .. Len(E) /\ E[i].label = a /\ E[i].occurrence = j
      BY DEF AddedIn
    <3>2. i \in 1 .. Len(F) /\ F[i] = E[i]
      BY <1>1, <3>1 DEF ExtendedBy
    <3> QED BY <3>1, <3>2 DEF AddedIn
  <2> QED BY <2>1, <2>2
<1>7. AddedIn(F, a, j0) = AddedIn(E, a, j0) \cup late
  <2>1. ASSUME NEW i \in AddedIn(F, a, j0) PROVE i \in AddedIn(E, a, j0) \cup late
    <3>1. i \in 1 .. Len(F) /\ F[i].label = a /\ F[i].occurrence = j0
      BY DEF AddedIn
    <3>2. CASE i \in 1 .. Len(E) /\ F[i] = E[i]
      BY <3>1, <3>2 DEF AddedIn
    <3>3. CASE i > Len(E) /\ i - Len(E) \in 1 .. Len(s) /\ F[i].label = s[i - Len(E)]
      <4>1. i - Len(E) \in own /\ i = Len(E) + (i - Len(E))
        BY <1>1, <3>1, <3>3
      <4> QED BY <4>1
    <3> QED BY <3>1, <3>2, <3>3, ExtendedElements
  <2>2. ASSUME NEW i \in AddedIn(E, a, j0) PROVE i \in AddedIn(F, a, j0)
    <3>1. i \in 1 .. Len(E) /\ E[i].label = a /\ E[i].occurrence = j0
      BY DEF AddedIn
    <3>2. i \in 1 .. Len(F) /\ F[i] = E[i]
      BY <1>1, <3>1 DEF ExtendedBy
    <3> QED BY <3>1, <3>2 DEF AddedIn
  <2>3. ASSUME NEW k \in own PROVE Len(E) + k \in AddedIn(F, a, j0)
    <3>1. k \in 1 .. Len(s) /\ s[k] = a
      BY <1>1
    <3>2. Len(E) + k \in 1 .. Len(F) /\ Len(E) + k > Len(E) /\ (Len(E) + k) - Len(E) = k
      BY <1>1, <3>1 DEF ExtendedBy
    <3>3. F[Len(E) + k].label = a /\ F[Len(E) + k].occurrence = j0
      BY <3>1, <3>2 DEF ExtendedBy
    <3> QED BY <3>2, <3>3 DEF AddedIn
  <2> QED BY <2>1, <2>2, <2>3
<1>8. IsFiniteSet(late) /\ Cardinality(late) = Cardinality(own)
  <2>1. f \in [own -> late] /\ \A k \in own : f[k] = Len(E) + k
    OBVIOUS
  <2>2. \A i \in late : \E k \in own : f[k] = i
    OBVIOUS
  <2> HIDE DEF f, own
  <2>3. \A k, l \in own : f[k] = f[l] => k = l
    BY <1>1, <1>2, <2>1
  <2> HIDE DEF late
  <2>4. f \in Bijection(own, late)
    BY <2>1, <2>2, <2>3, Fun_IsBij
  <2> QED BY <1>2, <2>4, FS_Bijection DEF ExistsBijection
<1>9. AddedIn(E, a, j0) \cap late = {}
  <2> SUFFICES ASSUME NEW i \in 1 .. Len(E), NEW k \in 1 .. Len(s), i = Len(E) + k PROVE FALSE
    BY <1>2 DEF AddedIn
  <2> QED BY <1>1
<1> HIDE DEF own, late, j0
<1>10. Cardinality(AddedIn(F, a, j0)) = Cardinality(AddedIn(E, a, j0)) + Cardinality(own)
  <2>1. Cardinality(AddedIn(E, a, j0) \cup late)
          = Cardinality(AddedIn(E, a, j0)) + Cardinality(late) - Cardinality({})
    BY <1>5, <1>8, <1>9, FS_Union
  <2>2. Cardinality({}) = 0 /\ Cardinality(AddedIn(E, a, j0)) \in Nat
    BY <1>5, FS_EmptySet
  <2> QED BY <1>2, <1>7, <1>8, <2>1, <2>2
<1> QED BY <1>2, <1>3, <1>4, <1>5, <1>6, <1>10 DEF j0

\* A finished occurrence takes no event, and none of an earlier one follows its start.
LEMMA FinishedApart ==
  ASSUME NEW E \in Seq(Event), NEW F \in Seq(Event), NEW s \in Seq(Activities),
         ExtendedBy(E, F, s), NEW a \in Activities, afreq(a) \in Nat,
         NEW j \in 1 .. afreq(a), NEW occ, Apart(E, a, j, occ)
  PROVE  Apart(F, a, j, occ)
<1>1. j # afreq(a) + 1
  OBVIOUS
<1>2. AddedIn(F, a, j) = AddedIn(E, a, j)
  BY <1>1, AddedGrows
<1>3. ASSUME Separates(E, a, j, occ.start) PROVE Separates(F, a, j, occ.start)
  <2> SUFFICES ASSUME NEW i \in 1 .. Len(F), F[i].label = a
               PROVE  /\ F[i].occurrence = j => occ.start <= i
                      /\ occ.start <= i => j <= F[i].occurrence
    BY <1>3 DEF Separates
  <2>1. CASE i \in 1 .. Len(E) /\ F[i] = E[i]
    BY <1>3, <2>1 DEF Separates
  <2>2. CASE F[i].occurrence = afreq(a) + 1
    BY <2>2
  <2> QED BY <2>1, <2>2, ExtendedElements
<1> QED BY <1>2, <1>3 DEF Apart

\* The occurrence that is open, or begins, takes the events of its activity.
LEMMA CurrentApart ==
  ASSUME NEW E \in Seq(Event), NEW F \in Seq(Event), NEW s \in Seq(Activities),
         ExtendedBy(E, F, s), NEW a \in Activities, afreq(a) \in Nat,
         NEW old \in Occurrence, Apart(E, a, afreq(a) + 1, old),
         NEW occ, occ.length = old.length + Count(s, a),
         \/ old.length > 0 /\ occ.start = old.start
         \/ old.length = 0 /\ occ.start = Len(E) + 1
         \/ occ.length = 0
  PROVE  Apart(F, a, afreq(a) + 1, occ)
<1> DEFINE j == afreq(a) + 1
<1>1. /\ j \in Nat /\ Len(E) \in Nat /\ old.length \in Nat /\ old.start \in Nat
      /\ Count(s, a) \in Nat
  BY LenProperties, AddedGrows DEF Occurrence
<1>2. /\ IsFiniteSet(AddedIn(E, a, j))
      /\ old.length = Cardinality(AddedIn(E, a, j))
      /\ occ.length = Cardinality(AddedIn(F, a, j))
  BY AddedGrows DEF Apart
<1> HIDE DEF j
<1>3. ASSUME old.length > 0, occ.start = old.start PROVE Separates(F, a, j, occ.start)
  <2>1. Separates(E, a, j, old.start)
    BY <1>3 DEF Apart, j
  <2>2. old.start <= Len(E)
    <3>1. AddedIn(E, a, j) # {}
      BY <1>1, <1>2, <1>3, FS_EmptySet
    <3>2. PICK i \in 1 .. Len(E) : E[i].label = a /\ E[i].occurrence = j
      BY <3>1 DEF AddedIn
    <3> QED BY <1>1, <2>1, <3>2 DEF Separates
  <2> SUFFICES ASSUME NEW i \in 1 .. Len(F), F[i].label = a
               PROVE  /\ F[i].occurrence = j => occ.start <= i
                      /\ occ.start <= i => j <= F[i].occurrence
    BY <1>3, <2>1 DEF Separates
  <2>3. CASE i \in 1 .. Len(E) /\ F[i] = E[i]
    BY <1>3, <2>1, <2>3 DEF Separates
  <2>4. CASE i > Len(E) /\ F[i].occurrence = j
    BY <1>1, <1>3, <2>2, <2>4
  <2> QED BY <2>3, <2>4, ExtendedElements DEF j
<1>4. ASSUME old.length = 0, occ.start = Len(E) + 1 PROVE Separates(F, a, j, occ.start)
  <2>1. AddedIn(E, a, j) = {}
    BY <1>2, <1>4, FS_EmptySet
  <2> SUFFICES ASSUME NEW i \in 1 .. Len(F), F[i].label = a
               PROVE  /\ F[i].occurrence = j => occ.start <= i
                      /\ occ.start <= i => j <= F[i].occurrence
    BY <1>1, <1>4 DEF Separates
  <2>2. CASE i \in 1 .. Len(E) /\ F[i] = E[i]
    <3>1. F[i].occurrence # j
      BY <2>1, <2>2 DEF AddedIn
    <3>2. ~(occ.start <= i)
      BY <1>1, <1>4, <2>2
    <3> QED BY <3>1, <3>2
  <2>3. CASE i > Len(E) /\ F[i].occurrence = j
    BY <1>1, <1>4, <2>3
  <2> QED BY <2>2, <2>3, ExtendedElements DEF j
<1> QED BY <1>1, <1>2, <1>3, <1>4 DEF Apart, j

\* The occurrence after the one that finishes has no event.
LEMMA NextApart ==
  ASSUME NEW E \in Seq(Event), NEW F \in Seq(Event), NEW s \in Seq(Activities),
         ExtendedBy(E, F, s), NEW a \in Activities, afreq(a) \in Nat,
         NEW S, NumberedIn(E, S), NEW occ, occ.length = 0
  PROVE  Apart(F, a, afreq(a) + 2, occ)
<1>1. AddedIn(E, a, afreq(a) + 2) = {}
  <2> SUFFICES ASSUME NEW i \in 1 .. Len(E), E[i].label = a, E[i].occurrence = afreq(a) + 2
               PROVE  FALSE
    BY DEF AddedIn
  <2> QED BY DEF NumberedIn
<1>2. AddedIn(F, a, afreq(a) + 2) = AddedIn(E, a, afreq(a) + 2)
  <2>1. afreq(a) + 2 # afreq(a) + 1
    OBVIOUS
  <2> QED BY <2>1, AddedGrows
<1> QED BY <1>1, <1>2, FS_EmptySet DEF Apart

LEMMA StillNumbered ==
  ASSUME NEW E \in Seq(Event), NEW F \in Seq(Event), NEW s \in Seq(Activities),
         ExtendedBy(E, F, s), NEW S, NEW T, s \in Seq(T),
         \A a \in Activities : afreq(a) \in Nat,
         NumberedIn(E, S), NumbersRise(E)
  PROVE  NumberedIn(F, S \cup T) /\ NumbersRise(F)
<1>1. ASSUME NEW i \in 1 .. Len(F)
      PROVE  /\ F[i].occurrence <= afreq(F[i].label) + 1
             /\ F[i].occurrence = afreq(F[i].label) + 1 => F[i].label \in S \cup T
  <2>1. CASE i \in 1 .. Len(E) /\ F[i] = E[i]
    BY <2>1 DEF NumberedIn
  <2>2. CASE /\ i - Len(E) \in 1 .. Len(s) /\ F[i].label = s[i - Len(E)]
             /\ F[i].occurrence = afreq(F[i].label) + 1
    <3>1. F[i].label \in T
      BY <2>2, ElementOfSeq
    <3>2. afreq(F[i].label) \in Nat
      BY ExtendedElements
    <3> QED BY <2>2, <3>1, <3>2
  <2> QED BY <2>1, <2>2, ExtendedElements
<1>2. ASSUME NEW i \in 1 .. Len(F), NEW k \in 1 .. Len(F), i <= k, F[i].label = F[k].label
      PROVE  F[i].occurrence <= F[k].occurrence
  <2>1. CASE k \in 1 .. Len(E) /\ F[k] = E[k]
    <3>1. i \in 1 .. Len(E) /\ F[i] = E[i]
      BY <1>2, <2>1 DEF ExtendedBy
    <3> QED BY <1>2, <2>1, <3>1 DEF NumbersRise
  <2>2. CASE F[k].occurrence = afreq(F[k].label) + 1
    BY <1>1, <1>2, <2>2
  <2> QED BY <2>1, <2>2, ExtendedElements
<1> QED BY <1>1, <1>2 DEF NumberedIn, NumbersRise

-----------------------------------------------------------------------------
(***************************************************************************)
(* A line.                                                                 *)
(***************************************************************************)

LEMMA TargetsProperties ==
  ASSUME NEW a \in Activities, NEW S, S \subseteq Activities
  PROVE  /\ <<a>> \o InOrder(S) \in Seq(S \cup {a})
         /\ <<a>> \o InOrder(S) # <<>>
         /\ (<<a>> \o InOrder(S))[1] = a
<1>1. <<a>> \in Seq(S \cup {a}) /\ InOrder(S) \in Seq(S \cup {a}) /\ Len(<<a>>) = 1
  BY InOrderProperties, SeqMonotonic
<1>2. Len(InOrder(S)) \in Nat
  BY <1>1, LenProperties
<1> DEFINE rest == InOrder(S)
<1> HIDE DEF rest
<1>3. /\ <<a>> \o rest \in Seq(S \cup {a})
      /\ Len(<<a>> \o rest) = 1 + Len(rest)
      /\ (<<a>> \o rest)[1] = <<a>>[1]
  <2>1. rest \in Seq(S \cup {a}) /\ Len(rest) \in Nat
    BY <1>1, <1>2 DEF rest
  <2>2. 1 \in 1 .. 1 + Len(rest) /\ 1 <= Len(<<a>>)
    BY <1>1, <2>1
  <2> QED BY <1>1, <2>1, <2>2, ConcatProperties
<1>4. <<a>> \o rest # <<>>
  BY <1>2, <1>3, EmptySeq DEF rest
<1> QED BY <1>3, <1>4 DEF rest

LEMMA OccurrenceChanges ==
  ASSUME LogTypeOK, NEW a \in Activities, NEW targets, Count(Stored(targets), a) \in Nat
  PROVE  /\ Lengthened(a, targets) \in Occurrence
         /\ Lengthened(a, targets).length = current[a].length + Count(Stored(targets), a)
         /\ Lengthened(a, targets).start = current[a].start
         /\ Lengthened(a, targets).previous = current[a].previous
         /\ Opened(a, targets) \in Occurrence
         /\ Opened(a, targets).length = current[a].length + Count(Stored(targets), a)
         /\ Opened(a, targets).start = StartOf(a, targets)
         /\ Opened(a, targets).previous = previous
<1>1. current[a] \in Occurrence /\ previous \in Activities /\ evnum \in Nat
  BY LenProperties DEF LogTypeOK, evnum
<1>2. StartOf(a, targets) \in Nat
  BY <1>1 DEF StartOf
<1> DEFINE c == Count(Stored(targets), a)
           b == StartOf(a, targets)
<1>3. Lengthened(a, targets) = [current[a] EXCEPT !.length = @ + c]
  BY DEF Lengthened
<1>4. Opened(a, targets) = [Lengthened(a, targets) EXCEPT !.start = b, !.previous = previous]
  BY DEF Opened
<1> HIDE DEF c, b
<1>5. c \in Nat /\ b \in Nat
  BY <1>2 DEF c, b
<1>6. /\ Lengthened(a, targets) \in Occurrence
      /\ Lengthened(a, targets).length = current[a].length + c
      /\ Lengthened(a, targets).start = current[a].start
      /\ Lengthened(a, targets).previous = current[a].previous
  BY <1>1, <1>3, <1>5 DEF Occurrence
<1>7. /\ Opened(a, targets) \in Occurrence
      /\ Opened(a, targets).length = current[a].length + c
      /\ Opened(a, targets).start = b
      /\ Opened(a, targets).previous = previous
  BY <1>1, <1>4, <1>5, <1>6 DEF Occurrence
<1> QED BY <1>6, <1>7 DEF c, b

LEMMA EventsTaken ==
  ASSUME LogInv, lines < MaxLines,
         NEW T, T \subseteq Activities, NEW targets \in Seq(T), AddEvents(targets)
  PROVE  LET s == Stored(targets)
         IN  /\ aevents' \in Seq(Event) /\ Len(aevents') <= MAXALENGTH
             /\ evnum = MAXALENGTH => Len(aevents') = MAXALENGTH
             /\ NumberedIn(aevents', open \cup T) /\ NumbersRise(aevents')
             /\ \A a \in Activities :
                  /\ Count(s, a) \in Nat
                  /\ \A j \in 1 .. afreq(a) : Apart(aevents', a, j, finished[a][j])
                  /\ \A occ :
                       /\ occ.length = current[a].length + Count(s, a)
                       /\ \/ (a \in open \/ a \notin T) /\ occ.start = current[a].start
                          \/ a \notin open /\ occ.start = StartOf(a, targets)
                       => Apart(aevents', a, afreq(a) + 1, occ)
                  /\ \A occ : occ.length = 0 => Apart(aevents', a, afreq(a) + 2, occ)
                  /\ a \notin open => current[a].length = 0
                  /\ targets # <<>> /\ targets[1] = a /\ Count(s, a) = 0 =>
                       Len(aevents') = MAXALENGTH
                  /\ a \notin T => Count(s, a) = 0
<1> DEFINE s == Stored(targets)
<1>1. /\ s \in Seq(T) /\ Len(s) \in Nat
      /\ evnum \in Nat /\ evnum + Len(s) <= MAXALENGTH
      /\ \A k \in 1 .. Len(s) : s[k] = targets[k]
      /\ targets # <<>> /\ Len(s) = 0 => evnum = MAXALENGTH
  BY StoredProperties DEF LogInv
<1>2. /\ aevents' \in Seq(Event) /\ aevents \in Seq(Event)
      /\ Len(aevents) = evnum /\ Len(aevents') = evnum + Len(s)
      /\ ExtendedBy(aevents, aevents', s)
  <2>1. /\ aevents' \in Seq(Event)
        /\ Len(aevents') = evnum + Len(s)
        /\ \A i \in 1 .. evnum : aevents'[i] = aevents[i]
        /\ \A i \in 1 .. Len(aevents') : i > evnum =>
             /\ i - evnum \in 1 .. Len(s)
             /\ aevents'[i].label = s[i - evnum]
             /\ aevents'[i].occurrence = afreq(s[i - evnum]) + 1
    BY EventsAppended DEF LogInv
  <2>2. aevents \in Seq(Event) /\ Len(aevents) = evnum
    BY DEF LogInv, LogTypeOK, evnum
  <2> HIDE DEF s
  <2> QED BY <2>1, <2>2 DEF ExtendedBy
<1>3. s = <<>> <=> Len(s) = 0
  BY <1>1, EmptySeq
<1>4. \A a \in Activities : afreq(a) \in Nat
  BY LenProperties DEF LogInv, LogTypeOK, afreq
<1>5. s \in Seq(Activities)
  BY <1>1, SeqMonotonic
<1> HIDE DEF s
<1>6. NumberedIn(aevents', open \cup T) /\ NumbersRise(aevents')
  BY <1>1, <1>2, <1>4, <1>5, StillNumbered DEF LogInv
<1>7. ASSUME NEW a \in Activities
      PROVE  /\ Count(s, a) \in Nat
             /\ \A j \in 1 .. afreq(a) : Apart(aevents', a, j, finished[a][j])
             /\ \A occ :
                  /\ occ.length = current[a].length + Count(s, a)
                  /\ \/ (a \in open \/ a \notin T) /\ occ.start = current[a].start
                     \/ a \notin open /\ occ.start = StartOf(a, targets)
                  => Apart(aevents', a, afreq(a) + 1, occ)
             /\ \A occ : occ.length = 0 => Apart(aevents', a, afreq(a) + 2, occ)
             /\ a \notin open => current[a].length = 0
             /\ targets # <<>> /\ targets[1] = a /\ Count(s, a) = 0 =>
                  Len(aevents') = MAXALENGTH
             /\ a \notin T => Count(s, a) = 0
  <2>1. /\ Count(s, a) \in Nat
        /\ Count(s, a) = 0 => \A k \in 1 .. Len(s) : s[k] # a
        /\ (\A k \in 1 .. Len(s) : s[k] # a) => Count(s, a) = 0
    BY <1>2, <1>5, AddedGrows
  <2>2. a \notin T => Count(s, a) = 0
    BY <1>1, <2>1, ElementOfSeq
  <2>3. Len(s) = 0 => Count(s, a) = 0
    BY <2>1
  <2>4. \A j \in 1 .. afreq(a) : Apart(aevents', a, j, finished[a][j])
    <3>1. \A j \in 1 .. afreq(a) : Apart(aevents, a, j, finished[a][j])
      BY DEF LogInv, OccurrencesApart
    <3> QED BY <1>2, <1>4, <1>5, <3>1, FinishedApart
  <2>5. /\ current[a] \in Occurrence /\ current[a].length \in Nat
        /\ Apart(aevents, a, afreq(a) + 1, current[a])
    BY DEF LogInv, OccurrencesApart, LogTypeOK, Occurrence
  <2>6. ASSUME a \notin open PROVE current[a].length = 0
    <3>1. AddedIn(aevents, a, afreq(a) + 1) = {}
      <4> SUFFICES ASSUME NEW i \in 1 .. Len(aevents), aevents[i].label = a,
                          aevents[i].occurrence = afreq(a) + 1
                   PROVE  FALSE
        BY DEF AddedIn
      <4> QED BY <2>6 DEF LogInv, NumberedIn
    <3> QED BY <2>5, <3>1, FS_EmptySet DEF Apart
  <2>7. ASSUME a \in open, current[a].length = 0 PROVE Count(s, a) = 0
    <3>1. evnum = MAXALENGTH
      BY <2>7 DEF LogInv, OpenHasEvent
    <3>2. Len(s) = 0
      BY <1>1, <3>1
    <3> QED BY <2>3, <3>2
  <2>8. ASSUME NEW occ, occ.length = current[a].length + Count(s, a),
               \/ (a \in open \/ a \notin T) /\ occ.start = current[a].start
               \/ a \notin open /\ occ.start = StartOf(a, targets)
        PROVE  Apart(aevents', a, afreq(a) + 1, occ)
    <3>1. \/ current[a].length > 0 /\ occ.start = current[a].start
          \/ current[a].length = 0 /\ occ.start = Len(aevents) + 1
          \/ occ.length = 0
      <4>1. CASE (a \in open \/ a \notin T) /\ occ.start = current[a].start
        <5>1. CASE current[a].length > 0
          BY <4>1, <5>1
        <5>2. CASE current[a].length = 0
          BY <2>2, <2>7, <2>8, <4>1, <5>2
        <5> QED BY <2>5, <5>1, <5>2
      <4>2. CASE a \notin open /\ occ.start = StartOf(a, targets)
        <5>1. CASE Len(s) = 0
          BY <2>3, <2>6, <2>8, <4>2, <5>1
        <5>2. CASE Len(s) # 0
          BY <1>2, <1>3, <2>6, <4>2, <5>2 DEF StartOf, s
        <5> QED BY <5>1, <5>2
      <4> QED BY <2>8, <4>1, <4>2
    <3> QED BY <1>2, <1>4, <1>5, <2>5, <2>8, <3>1, CurrentApart
  <2>9. \A occ : occ.length = 0 => Apart(aevents', a, afreq(a) + 2, occ)
    BY <1>2, <1>4, <1>5, NextApart DEF LogInv
  <2>10. ASSUME targets # <<>>, targets[1] = a, Count(s, a) = 0 PROVE Len(aevents') = MAXALENGTH
    <3>1. Len(s) = 0
      <4> SUFFICES ASSUME Len(s) # 0 PROVE FALSE
        OBVIOUS
      <4>1. 1 \in 1 .. Len(s)
        BY <1>1
      <4> QED BY <1>1, <2>1, <2>10, <4>1
    <3> QED BY <1>1, <1>2, <2>10, <3>1
  <2> QED BY <2>1, <2>2, <2>4, <2>6, <2>8, <2>9, <2>10
<1>8. /\ Len(aevents') <= MAXALENGTH
      /\ evnum = MAXALENGTH => Len(aevents') = MAXALENGTH
  <2>1. MAXALENGTH \in Nat
    BY LogAssumption
  <2> QED BY <1>1, <1>2, <2>1
<1> QED BY <1>2, <1>6, <1>7, <1>8 DEF s

\* A line that opens no occurrence, or one, and finishes none: each occurrence that is
\* open or begins takes its events.
LEMMA NoneFinished ==
  ASSUME LogInv, NextLine, UNCHANGED finished, previous' \in Activities,
         NEW T, T \subseteq Activities, NEW targets \in Seq(T), AddEvents(targets),
         open' = open \cup T,
         current' \in [Activities -> Occurrence],
         \A x \in Activities :
           /\ current'[x].length = current[x].length + Count(Stored(targets), x)
           /\ current'[x].start = IF x \in open' \ open THEN StartOf(x, targets)
                                 ELSE current[x].start,
         \A x \in open' \ open : targets # <<>> /\ targets[1] = x
  PROVE  LogInv'
<1> DEFINE s == Stored(targets)
<1>1. lines < MaxLines /\ lines' = lines + 1
  BY DEF NextLine
<1>2. /\ aevents' \in Seq(Event) /\ Len(aevents') <= MAXALENGTH
      /\ evnum = MAXALENGTH => Len(aevents') = MAXALENGTH
      /\ NumberedIn(aevents', open \cup T) /\ NumbersRise(aevents')
      /\ \A x \in Activities :
           /\ Count(s, x) \in Nat
           /\ \A j \in 1 .. afreq(x) : Apart(aevents', x, j, finished[x][j])
           /\ \A occ :
                /\ occ.length = current[x].length + Count(s, x)
                /\ \/ (x \in open \/ x \notin T) /\ occ.start = current[x].start
                   \/ x \notin open /\ occ.start = StartOf(x, targets)
                => Apart(aevents', x, afreq(x) + 1, occ)
           /\ targets # <<>> /\ targets[1] = x /\ Count(s, x) = 0 =>
                Len(aevents') = MAXALENGTH
  BY <1>1, EventsTaken
<1>3. LogTypeOK
  BY DEF LogInv
<1>4. \A x \in Activities :
        /\ current[x].length \in Nat
        /\ current'[x].length = current[x].length + Count(s, x)
  BY <1>3 DEF LogTypeOK, Occurrence
<1> HIDE DEF s
<1>5. LogTypeOK'
  <2>1. lines' \in 0 .. MaxLines
    BY <1>1, <1>3, LogAssumption DEF LogTypeOK
  <2> QED BY <1>2, <1>3, <2>1 DEF LogTypeOK, evnum
<1>6. NumberedIn(aevents, open)' /\ NumbersRise(aevents)'
  BY <1>2 DEF NumberedIn, NumbersRise, afreq
<1>7. OccurrencesApart'
  <2> SUFFICES ASSUME NEW x \in Activities
               PROVE  /\ \A j \in 1 .. afreq(x)' : Apart(aevents', x, j, finished'[x][j])
                      /\ Apart(aevents', x, afreq(x)' + 1, current'[x])
    BY DEF OccurrencesApart, Apart, AddedIn, Separates
  <2>1. afreq(x)' = afreq(x) /\ finished' = finished
    BY DEF afreq
  <2>2. Apart(aevents', x, afreq(x) + 1, current'[x])
    <3>1. CASE x \in open' \ open
      BY <1>2, <1>4, <3>1
    <3>2. CASE x \notin open' \ open
      BY <1>2, <1>4, <3>2
    <3> QED BY <3>1, <3>2
  <2> QED BY <1>2, <2>1, <2>2
<1>8. OpenHasEvent'
  <2> SUFFICES ASSUME NEW x \in open', current'[x].length = 0 PROVE Len(aevents') = MAXALENGTH
    BY DEF OpenHasEvent, evnum
  <2>1. x \in Activities
    BY <1>3 DEF LogTypeOK
  <2>2. current[x].length = 0 /\ Count(s, x) = 0
    BY <1>2, <1>4, <2>1
  <2>3. CASE x \in open
    BY <1>2, <2>2, <2>3 DEF LogInv, OpenHasEvent
  <2>4. CASE x \notin open
    BY <1>2, <2>1, <2>2, <2>4
  <2> QED BY <2>3, <2>4
<1> QED BY <1>5, <1>6, <1>7, <1>8 DEF LogInv

\* A line that finishes an occurrence of a, one that was open or a new one.
LEMMA OneFinished ==
  ASSUME LogInv, NextLine, NEW a \in Activities, previous' \in Activities,
         NEW T, T \subseteq Activities, NEW targets \in Seq(T), AddEvents(targets),
         open' = open \ {a}, T \subseteq open \cup {a},
         NEW occ \in Occurrence,
         occ.length = current[a].length + Count(Stored(targets), a),
         \/ a \in open /\ occ.start = current[a].start
         \/ a \notin open /\ occ.start = StartOf(a, targets),
         finished' = [finished EXCEPT ![a] = Append(@, occ)],
         current' \in [Activities -> Occurrence],
         current'[a].length = 0,
         \A x \in Activities \ {a} :
           /\ current'[x].length = current[x].length + Count(Stored(targets), x)
           /\ current'[x].start = current[x].start
  PROVE  LogInv'
<1> DEFINE s == Stored(targets)
<1>1. lines < MaxLines /\ lines' = lines + 1
  BY DEF NextLine
<1>2. /\ aevents' \in Seq(Event) /\ Len(aevents') <= MAXALENGTH
      /\ evnum = MAXALENGTH => Len(aevents') = MAXALENGTH
      /\ NumberedIn(aevents', open \cup T) /\ NumbersRise(aevents')
      /\ \A x \in Activities :
           /\ Count(s, x) \in Nat
           /\ \A j \in 1 .. afreq(x) : Apart(aevents', x, j, finished[x][j])
           /\ \A o :
                /\ o.length = current[x].length + Count(s, x)
                /\ \/ (x \in open \/ x \notin T) /\ o.start = current[x].start
                   \/ x \notin open /\ o.start = StartOf(x, targets)
                => Apart(aevents', x, afreq(x) + 1, o)
           /\ \A o : o.length = 0 => Apart(aevents', x, afreq(x) + 2, o)
  BY <1>1, EventsTaken
<1>3. LogTypeOK
  BY DEF LogInv
<1> HIDE DEF s
<1>4. /\ \A x \in Activities \ {a} : finished'[x] = finished[x] /\ afreq(x)' = afreq(x)
      /\ afreq(a) \in Nat /\ afreq(a)' = afreq(a) + 1
      /\ \A j \in 1 .. afreq(a) : finished'[a][j] = finished[a][j]
      /\ finished'[a][afreq(a) + 1] = occ
      /\ finished' \in [Activities -> Seq(Occurrence)]
  <2>1. finished \in [Activities -> Seq(Occurrence)] /\ finished[a] \in Seq(Occurrence)
    BY <1>3 DEF LogTypeOK
  <2>2. /\ Append(finished[a], occ) \in Seq(Occurrence)
        /\ Len(Append(finished[a], occ)) = Len(finished[a]) + 1
        /\ \A j \in 1 .. Len(finished[a]) : Append(finished[a], occ)[j] = finished[a][j]
        /\ Append(finished[a], occ)[Len(finished[a]) + 1] = occ
    BY <2>1, AppendProperties
  <2>3. finished'[a] = Append(finished[a], occ) /\ Len(finished[a]) \in Nat
    BY <2>1, LenProperties
  <2> QED BY <2>1, <2>2, <2>3 DEF afreq
<1>5. LogTypeOK'
  <2>1. lines' \in 0 .. MaxLines
    BY <1>1, <1>3, LogAssumption DEF LogTypeOK
  <2> QED BY <1>2, <1>3, <1>4, <2>1 DEF LogTypeOK, evnum
<1>6. NumberedIn(aevents, open)' /\ NumbersRise(aevents)'
  <2>1. ASSUME NEW i \in 1 .. Len(aevents')
        PROVE  LET n == Len(finished'[aevents'[i].label])
               IN  /\ aevents'[i].occurrence <= n + 1
                   /\ aevents'[i].occurrence = n + 1 => aevents'[i].label \in open'
    <3>0. aevents'[i].label \in Activities /\ aevents'[i].occurrence \in Nat
      <4>1. aevents' \in Seq(Event)
        BY <1>2
      <4>2. aevents'[i] \in Event
        BY <4>1, ElementOfSeq
      <4> QED BY <4>2 DEF Event
    <3>1. /\ aevents'[i].occurrence <= afreq(aevents'[i].label) + 1
          /\ aevents'[i].occurrence = afreq(aevents'[i].label) + 1 => aevents'[i].label \in open \cup T
      BY <1>2 DEF NumberedIn
    <3>2. CASE aevents'[i].label = a
      BY <1>4, <3>0, <3>1, <3>2 DEF afreq
    <3>3. CASE aevents'[i].label # a
      BY <1>4, <3>0, <3>1, <3>3 DEF afreq
    <3> QED BY <3>2, <3>3
  <2> QED BY <1>2, <2>1 DEF NumberedIn, NumbersRise, afreq
<1>7. OccurrencesApart'
  <2> SUFFICES ASSUME NEW x \in Activities
               PROVE  /\ \A j \in 1 .. afreq(x)' : Apart(aevents', x, j, finished'[x][j])
                      /\ Apart(aevents', x, afreq(x)' + 1, current'[x])
    BY DEF OccurrencesApart, Apart, AddedIn, Separates
  <2>1. CASE x = a
    <3>1. Apart(aevents', a, afreq(a) + 1, occ)
      BY <1>2 DEF s
    <3>2. Apart(aevents', a, afreq(a) + 2, current'[a])
      BY <1>2
    <3>3. \A j \in 1 .. afreq(a) + 1 : Apart(aevents', a, j, finished'[a][j])
      <4>1. \A j \in 1 .. afreq(a) + 1 : j \in 1 .. afreq(a) \/ j = afreq(a) + 1
        BY <1>4
      <4> QED BY <1>2, <1>4, <3>1, <4>1
    <3>4. (afreq(a) + 1) + 1 = afreq(a) + 2
      BY <1>4
    <3> QED BY <1>4, <2>1, <3>2, <3>3, <3>4
  <2>2. CASE x # a
    <3>1. Apart(aevents', x, afreq(x) + 1, current'[x])
      BY <1>2, <2>2 DEF s
    <3> QED BY <1>2, <1>4, <2>2, <3>1
  <2> QED BY <2>1, <2>2
<1>8. OpenHasEvent'
  <2> SUFFICES ASSUME NEW x \in open', current'[x].length = 0 PROVE Len(aevents') = MAXALENGTH
    BY DEF OpenHasEvent, evnum
  <2>1. x \in Activities \ {a} /\ x \in open
    BY <1>3 DEF LogTypeOK
  <2>2. current[x].length = 0
    <3>1. current[x].length \in Nat /\ Count(s, x) \in Nat
      BY <1>2, <1>3, <2>1 DEF LogTypeOK, Occurrence
    <3>2. current'[x].length = current[x].length + Count(s, x)
      BY <2>1 DEF s
    <3> QED BY <3>1, <3>2
  <2> QED BY <1>2, <2>1, <2>2 DEF LogInv, OpenHasEvent
<1> QED BY <1>5, <1>6, <1>7, <1>8 DEF LogInv

LEMMA BeginStep ==
  ASSUME LogInv, NextLine, NEW a \in Activities, Begin(a)
  PROVE  LogInv'
<1> DEFINE targets == <<a>> \o InOrder(open)
           T == open \cup {a}
<1>1. LogTypeOK /\ open \subseteq Activities /\ lines < MaxLines
  BY DEF LogInv, LogTypeOK, NextLine
<1>2. T \subseteq Activities /\ targets \in Seq(T) /\ targets # <<>> /\ targets[1] = a
  BY <1>1, TargetsProperties
<1>3. /\ AddEvents(targets) /\ a \notin open
      /\ open' = open \cup {a}
      /\ current' = [x \in Activities |-> IF x = a THEN Opened(a, targets) ELSE Lengthened(x, targets)]
      /\ previous' \in {a, previous} /\ finished' = finished
  BY DEF Begin
<1> HIDE DEF targets
<1>4. \A x \in Activities : Count(Stored(targets), x) \in Nat
  BY <1>1, <1>2, <1>3, EventsTaken
<1>5. \A x \in Activities :
        /\ current'[x] \in Occurrence
        /\ current'[x].length = current[x].length + Count(Stored(targets), x)
        /\ current'[x].start = IF x \in open' \ open THEN StartOf(x, targets) ELSE current[x].start
  <2> SUFFICES ASSUME NEW x \in Activities
               PROVE  /\ current'[x] \in Occurrence
                      /\ current'[x].length = current[x].length + Count(Stored(targets), x)
                      /\ current'[x].start =
                           IF x \in open' \ open THEN StartOf(x, targets) ELSE current[x].start
    OBVIOUS
  <2>1. x \in open' \ open <=> x = a
    BY <1>3
  <2>2. current'[x] = IF x = a THEN Opened(a, targets) ELSE Lengthened(x, targets)
    BY <1>3
  <2> QED BY <1>1, <1>4, <2>1, <2>2, OccurrenceChanges
<1>6. current' \in [Activities -> Occurrence]
  BY <1>3, <1>5
<1>7. previous' \in Activities
  BY <1>1, <1>3 DEF LogTypeOK
<1>8. open' = open \cup T /\ \A x \in open' \ open : targets # <<>> /\ targets[1] = x
  BY <1>2, <1>3
<1> HIDE DEF T
<1> QED BY <1>2, <1>3, <1>5, <1>6, <1>7, <1>8, NoneFinished

LEMMA EndStep ==
  ASSUME LogInv, NextLine, NEW a \in Activities, End(a)
  PROVE  LogInv'
<1> DEFINE targets == <<a>> \o InOrder(open \ {a})
           T == (open \ {a}) \cup {a}
<1>1. LogTypeOK /\ open \subseteq Activities /\ lines < MaxLines
  BY DEF LogInv, LogTypeOK, NextLine
<1>2. T \subseteq Activities /\ T \subseteq open \cup {a} /\ targets \in Seq(T)
  BY <1>1, TargetsProperties
<1>3. /\ AddEvents(targets) /\ a \in open
      /\ open' = open \ {a}
      /\ finished' = [finished EXCEPT ![a] = Append(@, Lengthened(a, targets))]
      /\ current' = [x \in Activities |-> IF x = a THEN NoOccurrence ELSE Lengthened(x, targets)]
      /\ previous' \in {a, previous}
  BY DEF End
<1> HIDE DEF targets, T
<1>4. \A x \in Activities : Count(Stored(targets), x) \in Nat
  BY <1>1, <1>2, <1>3, EventsTaken
<1>5. \A x \in Activities :
        /\ Lengthened(x, targets) \in Occurrence
        /\ Lengthened(x, targets).length = current[x].length + Count(Stored(targets), x)
        /\ Lengthened(x, targets).start = current[x].start
  BY <1>1, <1>4, OccurrenceChanges
<1>6. NoOccurrence \in Occurrence /\ NoOccurrence.length = 0
  BY LogAssumption DEF NoOccurrence, Occurrence, Activities
<1>7. /\ current' \in [Activities -> Occurrence]
      /\ current'[a].length = 0
      /\ \A x \in Activities \ {a} :
           /\ current'[x].length = current[x].length + Count(Stored(targets), x)
           /\ current'[x].start = current[x].start
  BY <1>3, <1>5, <1>6
<1>8. previous' \in Activities
  BY <1>1, <1>3 DEF LogTypeOK
<1> DEFINE occ == Lengthened(a, targets)
<1>9. /\ occ \in Occurrence
      /\ occ.length = current[a].length + Count(Stored(targets), a)
      /\ a \in open /\ occ.start = current[a].start
      /\ finished' = [finished EXCEPT ![a] = Append(@, occ)]
  BY <1>3, <1>5
<1>10. AddEvents(targets) /\ open' = open \ {a}
  BY <1>3
<1> HIDE DEF occ
<1> QED BY <1>2, <1>7, <1>8, <1>9, <1>10, OneFinished

LEMMA LabelledStep ==
  ASSUME LogInv, NEW a \in Activities, LabelledInside(a)
  PROVE  LogInv'
<1> DEFINE targets == <<a>>
           T == {a}
<1>1. LogTypeOK /\ open \subseteq Activities /\ lines < MaxLines /\ NextLine
  BY DEF LogInv, LogTypeOK, NextLine, LabelledInside
<1>2. T \subseteq Activities /\ targets \in Seq(T)
  OBVIOUS
<1>3. /\ AddEvents(targets) /\ a \in open /\ open' = open
      /\ current' = [current EXCEPT ![a] = Lengthened(a, targets)]
      /\ finished' = finished /\ previous' = previous
  BY DEF LabelledInside
<1> HIDE DEF targets, T
<1>4. \A x \in Activities : /\ Count(Stored(targets), x) \in Nat
                            /\ x \notin T => Count(Stored(targets), x) = 0
  BY <1>1, <1>2, <1>3, EventsTaken
<1>5. /\ Lengthened(a, targets) \in Occurrence
      /\ Lengthened(a, targets).length = current[a].length + Count(Stored(targets), a)
      /\ Lengthened(a, targets).start = current[a].start
  BY <1>1, <1>4, OccurrenceChanges
<1>6. /\ current' \in [Activities -> Occurrence]
      /\ \A x \in Activities :
           /\ current'[x].length = current[x].length + Count(Stored(targets), x)
           /\ current'[x].start = IF x \in open' \ open THEN StartOf(x, targets) ELSE current[x].start
  <2>1. current' \in [Activities -> Occurrence]
    BY <1>1, <1>3, <1>5 DEF LogTypeOK
  <2>2. \A x \in Activities : current'[x] = IF x = a THEN Lengthened(a, targets) ELSE current[x]
    BY <1>1, <1>3 DEF LogTypeOK
  <2>3. \A x \in Activities : current[x].length \in Nat
    BY <1>1 DEF LogTypeOK, Occurrence
  <2>4. \A x \in Activities : x # a => Count(Stored(targets), x) = 0
    BY <1>4 DEF T
  <2> QED BY <1>3, <1>5, <2>1, <2>2, <2>3, <2>4
<1>7. previous' \in Activities /\ open' = open \cup T
  BY <1>1, <1>3 DEF LogTypeOK, T
<1>8. \A x \in open' \ open : targets # <<>> /\ targets[1] = x
  BY <1>3
<1> QED BY <1>1, <1>2, <1>3, <1>6, <1>7, <1>8, NoneFinished

LEMMA IndependentStep ==
  ASSUME LogInv, NEW a \in Activities, Independent(a)
  PROVE  LogInv'
<1> DEFINE targets == <<a, a>>
           T == {a}
<1>1. LogTypeOK /\ open \subseteq Activities /\ lines < MaxLines /\ NextLine
  BY DEF LogInv, LogTypeOK, NextLine, Independent
<1>2. T \subseteq Activities /\ T \subseteq open \cup {a} /\ targets \in Seq(T)
  OBVIOUS
<1>3. /\ AddEvents(targets) /\ a \notin open /\ open' = open /\ open' = open \ {a}
      /\ finished' = [finished EXCEPT ![a] = Append(@, Opened(a, targets))]
      /\ current' = current /\ previous' = a
  BY DEF Independent
<1> HIDE DEF targets, T
<1>4. \A x \in Activities : /\ Count(Stored(targets), x) \in Nat
                            /\ x \notin T => Count(Stored(targets), x) = 0
                            /\ x \notin open => current[x].length = 0
  BY <1>1, <1>2, <1>3, EventsTaken
<1>5. /\ Opened(a, targets) \in Occurrence
      /\ Opened(a, targets).length = current[a].length + Count(Stored(targets), a)
      /\ Opened(a, targets).start = StartOf(a, targets)
  BY <1>1, <1>4, OccurrenceChanges
<1>6. /\ current' \in [Activities -> Occurrence] /\ current'[a].length = 0
      /\ \A x \in Activities \ {a} :
           /\ current'[x].length = current[x].length + Count(Stored(targets), x)
           /\ current'[x].start = current[x].start
  <2>1. \A x \in Activities : current[x].length \in Nat
    BY <1>1 DEF LogTypeOK, Occurrence
  <2>2. \A x \in Activities : x # a => Count(Stored(targets), x) = 0
    BY <1>4 DEF T
  <2> QED BY <1>1, <1>3, <1>4, <2>1, <2>2 DEF LogTypeOK
<1>7. previous' \in Activities
  BY <1>3
<1> QED BY <1>1, <1>2, <1>3, <1>5, <1>6, <1>7, OneFinished

LEMMA SameLog ==
  ASSUME LogInv, UNCHANGED <<aevents, current, open, finished, previous>>, lines' \in 0 .. MaxLines
  PROVE  LogInv'
<1>1. LogTypeOK'
  BY DEF LogInv, LogTypeOK, evnum
<1>2. NumberedIn(aevents, open)' /\ NumbersRise(aevents)'
  BY DEF LogInv, NumberedIn, NumbersRise, afreq
<1>3. OccurrencesApart'
  <2> SUFFICES ASSUME NEW a \in Activities
               PROVE  /\ \A j \in 1 .. Len(finished'[a]) : Apart(aevents', a, j, finished'[a][j])
                      /\ Apart(aevents', a, Len(finished'[a]) + 1, current'[a])
    BY Zenon DEF OccurrencesApart, Apart, AddedIn, Separates, afreq
  <2>1. /\ \A j \in 1 .. Len(finished[a]) : Apart(aevents, a, j, finished[a][j])
        /\ Apart(aevents, a, Len(finished[a]) + 1, current[a])
    BY DEF LogInv, OccurrencesApart, afreq
  <2>2. aevents' = aevents /\ finished' = finished /\ current' = current
    OBVIOUS
  <2> QED BY <2>1, <2>2
<1>4. OpenHasEvent'
  BY DEF LogInv, OpenHasEvent, evnum
<1> QED BY <1>1, <1>2, <1>3, <1>4 DEF LogInv

LEMMA UnlabelledStep ==
  ASSUME LogInv, Unlabelled
  PROVE  LogInv'
<1>1. LogTypeOK /\ open \subseteq Activities /\ lines < MaxLines /\ NextLine
  BY DEF LogInv, LogTypeOK, NextLine, Unlabelled
<1>2. CASE same > 0
  <2> DEFINE targets == InOrder(open)
  <2>1. targets \in Seq(open)
    BY <1>1, InOrderProperties
  <2>2. /\ AddEvents(targets) /\ open' = open
        /\ current' = [x \in Activities |-> Lengthened(x, targets)]
        /\ finished' = finished /\ previous' = previous
    BY <1>2 DEF Unlabelled
  <2> HIDE DEF targets
  <2>3. \A x \in Activities : Count(Stored(targets), x) \in Nat
    BY <1>1, <2>1, <2>2, EventsTaken
  <2>4. \A x \in Activities :
          /\ Lengthened(x, targets) \in Occurrence
          /\ Lengthened(x, targets).length = current[x].length + Count(Stored(targets), x)
          /\ Lengthened(x, targets).start = current[x].start
    BY <1>1, <2>3, OccurrenceChanges
  <2>5. /\ current' \in [Activities -> Occurrence]
        /\ \A x \in Activities :
             /\ current'[x].length = current[x].length + Count(Stored(targets), x)
             /\ current'[x].start = IF x \in open' \ open THEN StartOf(x, targets) ELSE current[x].start
    BY <2>2, <2>4
  <2>6. previous' \in Activities /\ open' = open \cup open
    BY <1>1, <2>2 DEF LogTypeOK
  <2>7. \A x \in open' \ open : targets # <<>> /\ targets[1] = x
    BY <2>2
  <2> QED BY <1>1, <2>1, <2>2, <2>5, <2>6, <2>7, NoneFinished
<1>3. CASE ~(same > 0)
  <2>1. UNCHANGED <<aevents, current, open, finished, previous>>
    BY <1>3 DEF Unlabelled
  <2>2. lines' \in 0 .. MaxLines
    BY <1>1, LogAssumption DEF LogTypeOK, NextLine
  <2> QED BY <2>1, <2>2, SameLog
<1> QED BY <1>2, <1>3

-----------------------------------------------------------------------------
(***************************************************************************)
(* The invariant and what it says of the loops over an occurrence.         *)
(***************************************************************************)

LEMMA LogInitInv ==
  ASSUME LogInit
  PROVE  LogInv
<1>1. /\ NoOccurrence \in Occurrence /\ NoOccurrence.length = 0
      /\ 0 \in Activities
  BY LogAssumption DEF NoOccurrence, Occurrence, Activities
<1>2. /\ aevents \in Seq(Event) /\ Len(aevents) = 0
      /\ \A a \in Activities : finished[a] \in Seq(Occurrence) /\ afreq(a) = 0
  BY EmptySeq DEF LogInit, afreq
<1>3. LogTypeOK
  BY <1>1, <1>2, LogAssumption DEF LogInit, LogTypeOK, evnum
<1>4. NumberedIn(aevents, open) /\ NumbersRise(aevents) /\ OpenHasEvent
  BY <1>2 DEF LogInit, NumberedIn, NumbersRise, OpenHasEvent
<1>5. OccurrencesApart
  <2> SUFFICES ASSUME NEW a \in Activities PROVE Apart(aevents, a, afreq(a) + 1, current[a])
    BY <1>2 DEF OccurrencesApart
  <2>1. AddedIn(aevents, a, afreq(a) + 1) = {}
    BY <1>2 DEF AddedIn
  <2>2. current[a].length = 0
    BY <1>1 DEF LogInit
  <2> QED BY <2>1, <2>2, FS_EmptySet DEF Apart
<1> QED BY <1>3, <1>4, <1>5 DEF LogInv

LEMMA LogStep ==
  ASSUME LogInv, [ReadLine]_logVars
  PROVE  LogInv'
<1>1. CASE Unlabelled
  BY <1>1, UnlabelledStep
<1>2. ASSUME NEW a \in Activities, Mark(a)
      PROVE  LogInv'
  BY <1>2, BeginStep, EndStep DEF Mark
<1>3. ASSUME NEW a \in Activities, LabelledInside(a)
      PROVE  LogInv'
  BY <1>3, LabelledStep
<1>4. ASSUME NEW a \in Activities, Independent(a)
      PROVE  LogInv'
  BY <1>4, IndependentStep
<1>5. CASE UNCHANGED logVars
  <2>1. UNCHANGED <<lines, aevents, current, open, finished, previous>> /\ lines' \in 0 .. MaxLines
    BY <1>5 DEF logVars, LogInv, LogTypeOK
  <2> QED BY <2>1, SameLog
<1> QED BY <1>1, <1>2, <1>3, <1>4, <1>5 DEF ReadLine

\* The first n events of an occurrence from its start are all of it, and the next event
\* of the activity is one too many.
LEMMA VisitedAreAdded ==
  ASSUME LogInv, NEW a \in Activities, NEW j \in 1 .. afreq(a), finished[a][j].length > 0
  PROVE  Visited(a, finished[a][j]) = Added(a, j)
<1> DEFINE start == finished[a][j].start
           n == finished[a][j].length
           Own(i) == {k \in start .. i : aevents[k].label = a}
<1>1. /\ evnum \in Nat /\ evnum = Len(aevents)
      /\ \A i \in 1 .. evnum : aevents[i].label \in Activities /\ aevents[i].occurrence \in Nat
  <2>1. aevents \in Seq(Event) /\ evnum = Len(aevents)
    BY DEF LogInv, LogTypeOK, evnum
  <2>2. evnum \in Nat /\ \A i \in 1 .. evnum : aevents[i] \in Event
    BY <2>1, LenProperties, ElementOfSeq
  <2> QED BY <2>1, <2>2 DEF Event
<1>2. start \in Nat /\ n \in Nat /\ afreq(a) \in Nat /\ j \in Nat
  <2>1. finished[a] \in Seq(Occurrence)
    BY DEF LogInv, LogTypeOK
  <2>2. finished[a][j] \in Occurrence /\ afreq(a) \in Nat
    BY <2>1, ElementOfSeq, LenProperties DEF afreq
  <2> QED BY <2>2 DEF Occurrence
<1>3. /\ Added(a, j) = AddedIn(aevents, a, j) /\ n = Cardinality(Added(a, j)) /\ n > 0
      /\ start > 0
      /\ \A i \in 1 .. evnum : aevents[i].label = a =>
           /\ aevents[i].occurrence = j => start <= i
           /\ start <= i => j <= aevents[i].occurrence
  <2>1. Apart(aevents, a, j, finished[a][j])
    BY DEF LogInv, OccurrencesApart
  <2> QED BY <1>1, <2>1 DEF Apart, Separates, Added, AddedIn
<1>4. \A i, k \in 1 .. evnum :
        i <= k /\ aevents[i].label = aevents[k].label => aevents[i].occurrence <= aevents[k].occurrence
  BY <1>1 DEF LogInv, NumbersRise
<1>5. Visited(a, finished[a][j])
        = {i \in start .. evnum : aevents[i].label = a /\ Cardinality(Own(i)) <= n}
  BY DEF Visited
<1>6. IsFiniteSet(Added(a, j))
  <2>1. Added(a, j) \in SUBSET (1 .. evnum) /\ IsFiniteSet(1 .. evnum)
    BY <1>1, FS_Interval DEF Added
  <2> QED BY <2>1, FS_Subset
<1> HIDE DEF start, n
<1>7. start \in 1 .. evnum
  <2>1. PICK i \in 1 .. evnum : aevents[i].label = a /\ aevents[i].occurrence = j
    <3>1. Added(a, j) # {}
      BY <1>2, <1>3, FS_EmptySet
    <3> QED BY <3>1 DEF Added
  <2>2. start <= i
    BY <1>3, <2>1
  <2> QED BY <1>1, <1>2, <1>3, <2>2
<1>8. ASSUME NEW i \in start .. evnum
      PROVE  IsFiniteSet(Own(i))
  <2>1. start \in Int /\ i \in Int
    BY <1>2
  <2>2. IsFiniteSet(start .. i)
    BY <2>1, FS_Interval
  <2>3. Own(i) \in SUBSET (start .. i)
    OBVIOUS
  <2> HIDE DEF Own
  <2> QED BY <2>2, <2>3, FS_Subset
<1>9. ASSUME NEW i \in Added(a, j)
      PROVE  i \in start .. evnum /\ aevents[i].label = a /\ Cardinality(Own(i)) <= n
  <2>1. i \in 1 .. evnum /\ aevents[i].label = a /\ aevents[i].occurrence = j /\ start <= i
    BY <1>3 DEF Added
  <2>2. ASSUME NEW k \in Own(i) PROVE k \in Added(a, j)
    <3>1. k \in start .. i /\ aevents[k].label = a
      OBVIOUS
    <3>2. k \in 1 .. evnum /\ start <= k /\ k <= i
      BY <1>1, <1>7, <2>1, <3>1
    <3>3. j <= aevents[k].occurrence /\ aevents[k].occurrence <= j
      BY <1>3, <1>4, <2>1, <3>1, <3>2
    <3>4. aevents[k].occurrence = j
      BY <1>1, <1>2, <3>2, <3>3
    <3> QED BY <3>1, <3>2, <3>4 DEF Added
  <2>3. Own(i) \subseteq Added(a, j)
    BY <2>2
  <2>4. i \in start .. evnum
    BY <1>1, <1>2, <2>1
  <2> HIDE DEF Own
  <2> QED BY <1>3, <1>6, <2>1, <2>3, <2>4, FS_Subset
<1>10. ASSUME NEW i \in start .. evnum, aevents[i].label = a, i \notin Added(a, j)
       PROVE  ~(Cardinality(Own(i)) <= n)
  <2>1. i \in 1 .. evnum /\ start <= i
    BY <1>1, <1>7
  <2>2. aevents[i].occurrence # j /\ j <= aevents[i].occurrence
    BY <1>3, <1>10, <2>1 DEF Added
  <2>3. ASSUME NEW k \in Added(a, j) PROVE k \in Own(i)
    <3>1. k \in 1 .. evnum /\ aevents[k].label = a /\ aevents[k].occurrence = j /\ start <= k
      BY <1>3 DEF Added
    <3>2. ~(i <= k)
      <4>1. i <= k => aevents[i].occurrence <= aevents[k].occurrence
        BY <1>4, <1>10, <2>1, <3>1
      <4> QED BY <1>1, <1>2, <2>1, <2>2, <3>1, <4>1
    <3>3. k \in start .. i
      BY <1>1, <1>2, <2>1, <3>1, <3>2
    <3> QED BY <3>1, <3>3
  <2>4. i \in Own(i)
    <3>1. i \in start .. i
      BY <1>2, <2>1
    <3> QED BY <1>10, <3>1
  <2>5. Added(a, j) \cup {i} \subseteq Own(i) /\ IsFiniteSet(Own(i))
    BY <1>8, <2>3, <2>4
  <2>6. Cardinality(Added(a, j) \cup {i}) = n + 1
    BY <1>3, <1>6, <1>10, FS_AddElement
  <2> HIDE DEF Own
  <2>7. n + 1 <= Cardinality(Own(i)) /\ Cardinality(Own(i)) \in Nat
    BY <2>5, <2>6, FS_Subset, FS_CardinalityType
  <2> QED BY <1>2, <2>7
<1> HIDE DEF Own
<1> QED BY <1>5, <1>9, <1>10 DEF start

LEMMA ApartMeans ==
  ASSUME LogInv
  PROVE  OccurrenceIsItsEvents
<1> SUFFICES ASSUME NEW a \in Activities, NEW j \in 1 .. afreq(a)
             PROVE  /\ finished[a][j].length > 0 => Visited(a, finished[a][j]) = Added(a, j)
                    /\ finished[a][j].length = Cardinality(Added(a, j))
  BY DEF OccurrenceIsItsEvents
<1>1. Apart(aevents, a, j, finished[a][j])
  BY DEF LogInv, OccurrencesApart
<1>2. Added(a, j) = AddedIn(aevents, a, j)
  BY DEF Added, AddedIn, evnum
<1> QED BY <1>1, <1>2, VisitedAreAdded DEF Apart

-----------------------------------------------------------------------------
(***************************************************************************)
(* The count of the open activities.                                       *)
(***************************************************************************)

LEMMA OpenCountedLine ==
  ASSUME LogInv, SameCountsOpen, [ReadLine]_logVars
  PROVE  SameCountsOpen'
<1> SUFFICES same' = Cardinality(open')
  BY DEF SameCountsOpen
<1>1. IsFiniteSet(open) /\ Cardinality(open) \in Nat /\ same = Cardinality(open)
  <2>1. open \in SUBSET Activities /\ IsFiniteSet(Activities)
    BY LogAssumption, FS_Interval DEF LogInv, LogTypeOK, Activities
  <2> QED BY <2>1, FS_Subset, FS_CardinalityType DEF SameCountsOpen
<1>2. ASSUME NEW a \in Activities, Begin(a) PROVE same' = Cardinality(open')
  <2>1. open' = open \cup {a} /\ a \notin open /\ same' = same + 1
    BY <1>2 DEF Begin
  <2> QED BY <1>1, <2>1, FS_AddElement
<1>3. ASSUME NEW a \in Activities, End(a) PROVE same' = Cardinality(open')
  <2>1. open' = open \ {a} /\ a \in open /\ same' = same - 1
    BY <1>3 DEF End
  <2> QED BY <1>1, <2>1, FS_RemoveElement
<1>4. CASE UNCHANGED <<open, same>>
  BY <1>1, <1>4
<1> QED BY <1>2, <1>3, <1>4 DEF ReadLine, Mark, Unlabelled, LabelledInside, Independent, logVars

-----------------------------------------------------------------------------
(***************************************************************************)
(* The previous activity.                                                  *)
(***************************************************************************)

\* An occurrence of the previous activity finished before the event i.
Preceded(E, F, p, i) ==
  p # 0 => \E j \in 1 .. Len(F[p]) : \A k \in AddedIn(E, p, j) : k <= i

PreviousInv ==
  /\ previous # 0 => afreq(previous) > 0
  /\ \A a \in Activities : \A j \in 1 .. afreq(a) :
       Preceded(aevents, finished, finished[a][j].previous, finished[a][j].start)
  /\ \A a \in open : Preceded(aevents, finished, current[a].previous, current[a].start)

\* The events of the occurrences that have finished, and what is kept of these.
Kept ==
  \A a \in Activities : \A j \in 1 .. afreq(a) :
    /\ j \in 1 .. Len(finished'[a])
    /\ finished'[a][j] = finished[a][j]
    /\ AddedIn(aevents', a, j) = AddedIn(aevents, a, j)

LEMMA StillPreceded ==
  ASSUME Kept, NEW p \in Activities, NEW i, Preceded(aevents, finished, p, i)
  PROVE  Preceded(aevents', finished', p, i)
BY DEF Kept, Preceded, afreq

\* What begins now is preceded by what finished last.
LEMMA NowPreceded ==
  ASSUME LogInv, PreviousInv, Kept, NEW targets, NEW a
  PROVE  Preceded(aevents', finished', previous, StartOf(a, targets))
<1>1. previous \in Activities /\ evnum \in Nat /\ evnum = Len(aevents)
  BY LenProperties DEF LogInv, LogTypeOK, evnum
<1>2. StartOf(a, targets) \in Nat /\ evnum <= StartOf(a, targets)
  BY <1>1 DEF StartOf
<1> SUFFICES ASSUME previous # 0
             PROVE  \E j \in 1 .. Len(finished'[previous]) :
                      \A k \in AddedIn(aevents', previous, j) : k <= StartOf(a, targets)
  BY DEF Preceded
<1>3. afreq(previous) \in Nat /\ afreq(previous) > 0
  BY <1>1, LenProperties DEF PreviousInv, LogInv, LogTypeOK, afreq
<1>4. 1 \in 1 .. afreq(previous)
  BY <1>3
<1>5. ASSUME NEW k \in AddedIn(aevents, previous, 1) PROVE k <= StartOf(a, targets)
  <2>1. k \in 1 .. evnum
    BY <1>1 DEF AddedIn
  <2> QED BY <1>1, <1>2, <2>1
<1> QED BY <1>1, <1>4, <1>5 DEF Kept

LEMMA EventsKept ==
  ASSUME LogInv, lines < MaxLines,
         NEW T, T \subseteq Activities, NEW targets \in Seq(T), AddEvents(targets),
         NEW a \in Activities, NEW j \in 1 .. afreq(a)
  PROVE  AddedIn(aevents', a, j) = AddedIn(aevents, a, j)
<1> DEFINE s == Stored(targets)
<1>1. s \in Seq(T) /\ s \in Seq(Activities)
  BY StoredProperties, SeqMonotonic DEF LogInv
<1>2. /\ aevents' \in Seq(Event)
      /\ Len(aevents') = evnum + Len(s)
      /\ \A i \in 1 .. evnum : aevents'[i] = aevents[i]
      /\ \A i \in 1 .. Len(aevents') : i > evnum =>
           /\ i - evnum \in 1 .. Len(s)
           /\ aevents'[i].label = s[i - evnum]
           /\ aevents'[i].occurrence = afreq(s[i - evnum]) + 1
  BY EventsAppended DEF LogInv
<1>3. aevents \in Seq(Event) /\ Len(aevents) = evnum
  BY DEF LogInv, LogTypeOK, evnum
<1> HIDE DEF s
<1>4. ExtendedBy(aevents, aevents', s)
  BY <1>2, <1>3 DEF ExtendedBy
<1>5. j # afreq(a) + 1
  BY LenProperties DEF LogInv, LogTypeOK, afreq
<1> QED BY <1>1, <1>2, <1>3, <1>4, <1>5, AddedGrows

\* What a line that ends an activity, or has one of its own, adds to the occurrences.
LEMMA EndFinishes ==
  ASSUME LogInv, NEW a \in Activities, End(a), NextLine
  PROVE  \E occ \in Occurrence :
           /\ occ.previous = current[a].previous /\ occ.start = current[a].start
           /\ finished' = [finished EXCEPT ![a] = Append(@, occ)]
           /\ \A x \in open' : /\ current'[x].previous = current[x].previous
                               /\ current'[x].start = current[x].start
<1> DEFINE targets == <<a>> \o InOrder(open \ {a})
           T == (open \ {a}) \cup {a}
           occ == Lengthened(a, targets)
<1>1. LogTypeOK /\ open \subseteq Activities /\ lines < MaxLines
  BY DEF LogInv, LogTypeOK, NextLine
<1>2. T \subseteq Activities /\ targets \in Seq(T)
  BY <1>1, TargetsProperties
<1>3. /\ AddEvents(targets)
      /\ finished' = [finished EXCEPT ![a] = Append(@, Lengthened(a, targets))]
      /\ current' = [x \in Activities |-> IF x = a THEN NoOccurrence ELSE Lengthened(x, targets)]
      /\ open' = open \ {a}
  BY DEF End
<1> HIDE DEF targets, T
<1>4. \A x \in Activities : Count(Stored(targets), x) \in Nat
  BY <1>1, <1>2, <1>3, EventsTaken
<1>5. \A x \in Activities :
        /\ Lengthened(x, targets) \in Occurrence
        /\ Lengthened(x, targets).start = current[x].start
        /\ Lengthened(x, targets).previous = current[x].previous
  BY <1>1, <1>4, OccurrenceChanges
<1>6. /\ occ \in Occurrence /\ occ.previous = current[a].previous /\ occ.start = current[a].start
      /\ finished' = [finished EXCEPT ![a] = Append(@, occ)]
  BY <1>3, <1>5
<1>7. \A x \in open' : /\ current'[x].previous = current[x].previous
                       /\ current'[x].start = current[x].start
  BY <1>1, <1>3, <1>5
<1> HIDE DEF occ
<1> QED BY <1>6, <1>7

LEMMA IndependentFinishes ==
  ASSUME LogInv, NEW a \in Activities, Independent(a)
  PROVE  \E occ \in Occurrence :
           /\ occ.previous = previous /\ occ.start = StartOf(a, <<a, a>>)
           /\ finished' = [finished EXCEPT ![a] = Append(@, occ)]
<1> DEFINE targets == <<a, a>>
           T == {a}
           occ == Opened(a, targets)
<1>1. LogTypeOK /\ lines < MaxLines
  BY DEF LogInv, NextLine, Independent
<1>2. T \subseteq Activities /\ targets \in Seq(T)
  OBVIOUS
<1>3. /\ AddEvents(targets)
      /\ finished' = [finished EXCEPT ![a] = Append(@, Opened(a, targets))]
  BY DEF Independent
<1> HIDE DEF targets, T
<1>4. Count(Stored(targets), a) \in Nat
  BY <1>1, <1>2, <1>3, EventsTaken
<1>5. /\ occ \in Occurrence /\ occ.previous = previous /\ occ.start = StartOf(a, targets)
  BY <1>1, <1>4, OccurrenceChanges
<1>6. finished' = [finished EXCEPT ![a] = Append(@, occ)]
  BY <1>3
<1> HIDE DEF occ
<1> QED BY <1>5, <1>6 DEF targets

LEMMA LineAdds ==
  ASSUME LogInv, ReadLine
  PROVE  \/ aevents' = aevents
         \/ \E T \in SUBSET Activities : \E targets \in Seq(T) : AddEvents(targets)
<1>1. open \subseteq Activities
  BY DEF LogInv, LogTypeOK
<1>2. ASSUME NEW x \in Activities, Begin(x) \/ End(x)
      PROVE  \E T \in SUBSET Activities : \E targets \in Seq(T) : AddEvents(targets)
  <2>1. PICK S \in SUBSET Activities : AddEvents(<<x>> \o InOrder(S))
    <3>1. open \in SUBSET Activities /\ open \ {x} \in SUBSET Activities
      BY <1>1
    <3>2. AddEvents(<<x>> \o InOrder(open)) \/ AddEvents(<<x>> \o InOrder(open \ {x}))
      BY <1>2 DEF Begin, End
    <3> QED BY <3>1, <3>2
  <2>2. <<x>> \o InOrder(S) \in Seq(S \cup {x}) /\ S \cup {x} \in SUBSET Activities
    BY TargetsProperties
  <2> QED BY <2>1, <2>2
<1>3. ASSUME NEW x \in Activities, LabelledInside(x) \/ Independent(x)
      PROVE  \E T \in SUBSET Activities : \E targets \in Seq(T) : AddEvents(targets)
  <2>1. <<x>> \in Seq({x}) /\ <<x, x>> \in Seq({x}) /\ {x} \in SUBSET Activities
    OBVIOUS
  <2>2. AddEvents(<<x>>) \/ AddEvents(<<x, x>>)
    BY <1>3 DEF LabelledInside, Independent
  <2> QED BY <2>1, <2>2
<1>4. CASE Unlabelled
  <2>1. InOrder(open) \in Seq(open) /\ open \in SUBSET Activities
    BY <1>1, InOrderProperties
  <2>2. aevents' = aevents \/ AddEvents(InOrder(open))
    BY <1>4 DEF Unlabelled
  <2> QED BY <2>1, <2>2
<1> QED BY <1>2, <1>3, <1>4 DEF ReadLine, Mark

\* The time of an event is its hour as long as lines are read.
LEMMA LineHours ==
  ASSUME LogInv, ReadLine, \A i \in 1 .. evnum : aevents[i].time = aevents[i].hour
  PROVE  \A i \in 1 .. Len(aevents') : aevents'[i].time = aevents'[i].hour
<1>1. lines < MaxLines /\ LogTypeOK
  BY DEF LogInv, ReadLine, Unlabelled, Mark, LabelledInside, Independent, NextLine
<1>2. CASE aevents' = aevents
  BY <1>2 DEF evnum
<1>3. ASSUME NEW T \in SUBSET Activities, NEW targets \in Seq(T), AddEvents(targets),
             NEW i \in 1 .. Len(aevents')
      PROVE  aevents'[i].time = aevents'[i].hour
  <2>1. evnum \in Nat /\ Len(aevents') \in Nat
    <3>1. aevents' \in Seq(Event) /\ aevents \in Seq(Event)
      BY <1>1, <1>3, EventsAppended DEF LogTypeOK
    <3> QED BY <3>1, LenProperties DEF evnum
  <2>2. CASE i \in 1 .. evnum
    BY <1>1, <1>3, <2>2, EventsAppended
  <2>3. CASE i > evnum
    BY <1>1, <1>3, <2>3, EventsAppended
  <2> QED BY <2>1, <2>2, <2>3
<1> QED BY <1>2, <1>3, LineAdds

LEMMA LineKeeps ==
  ASSUME LogInv, ReadLine
  PROVE  Kept
<1>0. /\ lines < MaxLines /\ open \subseteq Activities
      /\ finished \in [Activities -> Seq(Occurrence)]
  BY DEF LogInv, LogTypeOK, ReadLine, Unlabelled, Mark, LabelledInside, Independent, NextLine
<1>1. \A a \in Activities : \A j \in 1 .. afreq(a) : AddedIn(aevents', a, j) = AddedIn(aevents, a, j)
  <2>1. CASE aevents' = aevents
    BY <2>1
  <2>2. ASSUME NEW T \in SUBSET Activities, NEW targets \in Seq(T), AddEvents(targets),
               NEW a \in Activities, NEW j \in 1 .. afreq(a)
        PROVE  AddedIn(aevents', a, j) = AddedIn(aevents, a, j)
    BY <1>0, <2>2, EventsKept
  <2> QED BY <2>1, <2>2, LineAdds
<1>2. \A a \in Activities : \A j \in 1 .. afreq(a) :
        j \in 1 .. Len(finished'[a]) /\ finished'[a][j] = finished[a][j]
  <2>1. CASE finished' = finished
    BY <2>1 DEF afreq
  <2>2. ASSUME NEW x \in Activities, NEW occ \in Occurrence,
               finished' = [finished EXCEPT ![x] = Append(@, occ)],
               NEW a \in Activities, NEW j \in 1 .. afreq(a)
        PROVE  j \in 1 .. Len(finished'[a]) /\ finished'[a][j] = finished[a][j]
    <3>1. CASE a = x
      <4>1. finished[a] \in Seq(Occurrence) /\ finished'[a] = Append(finished[a], occ)
        BY <1>0, <2>2, <3>1
      <4>2. Len(finished[a]) \in Nat
        BY <4>1, LenProperties
      <4> QED BY <4>1, <4>2, AppendProperties DEF afreq
    <3>2. CASE a # x
      BY <1>0, <2>2, <3>2 DEF afreq
    <3> QED BY <3>1, <3>2
  <2>3. ASSUME NEW x \in Activities, NextLine, End(x)
        PROVE  \E occ \in Occurrence : finished' = [finished EXCEPT ![x] = Append(@, occ)]
    BY <2>3, EndFinishes
  <2>4. ASSUME NEW x \in Activities, Independent(x)
        PROVE  \E occ \in Occurrence : finished' = [finished EXCEPT ![x] = Append(@, occ)]
    BY <2>4, IndependentFinishes
  <2>5. CASE Unlabelled
    BY <2>1, <2>5 DEF Unlabelled
  <2>6. ASSUME NEW x \in Activities, Begin(x) \/ LabelledInside(x)
        PROVE  finished' = finished
    BY <2>6 DEF Begin, LabelledInside
  <2> QED BY <2>1, <2>2, <2>3, <2>4, <2>5, <2>6 DEF ReadLine, Mark
<1> QED BY <1>1, <1>2 DEF Kept

\* Lines that finish nothing: what is open stays so, or starts now.
LEMMA BeginsOrStays ==
  ASSUME LogInv, PreviousInv, Kept, finished' = finished, previous' = previous,
         NEW targets,
         \A x \in open' :
           \/ /\ x \in open /\ current'[x].previous = current[x].previous
              /\ current'[x].start = current[x].start
           \/ current'[x].previous = previous /\ current'[x].start = StartOf(x, targets)
  PROVE  PreviousInv'
<1>1. /\ finished \in [Activities -> Seq(Occurrence)] /\ open \subseteq Activities
      /\ current \in [Activities -> Occurrence]
  BY DEF LogInv, LogTypeOK
<1>2. previous' # 0 => Len(finished'[previous']) > 0
  BY DEF PreviousInv, afreq
<1>3. ASSUME NEW x \in Activities, NEW j \in 1 .. Len(finished'[x])
      PROVE  Preceded(aevents', finished', finished'[x][j].previous, finished'[x][j].start)
  <2>1. finished[x][j] \in Occurrence
    BY <1>1, ElementOfSeq
  <2>2. Preceded(aevents, finished, finished[x][j].previous, finished[x][j].start)
    BY DEF PreviousInv, afreq
  <2> QED BY <2>1, <2>2, StillPreceded DEF Occurrence
<1>4. ASSUME NEW x \in open'
      PROVE  Preceded(aevents', finished', current'[x].previous, current'[x].start)
  <2>1. CASE /\ x \in open /\ current'[x].previous = current[x].previous
             /\ current'[x].start = current[x].start
    <3>1. current[x].previous \in Activities
      BY <1>1, <2>1 DEF Occurrence
    <3>2. Preceded(aevents, finished, current[x].previous, current[x].start)
      BY <2>1 DEF PreviousInv
    <3> QED BY <2>1, <3>1, <3>2, StillPreceded
  <2>2. CASE current'[x].previous = previous /\ current'[x].start = StartOf(x, targets)
    BY <2>2, NowPreceded
  <2> QED BY <2>1, <2>2
<1> QED BY <1>2, <1>3, <1>4 DEF PreviousInv, Preceded, AddedIn, afreq

\* Lines that finish an occurrence of a, which the next may follow.
LEMMA Finishes ==
  ASSUME LogInv, PreviousInv, Kept, NEW a \in Activities, NEW occ \in Occurrence,
         finished' = [finished EXCEPT ![a] = Append(@, occ)],
         previous' \in {a, previous},
         Preceded(aevents', finished', occ.previous, occ.start),
         open' \subseteq open,
         \A x \in open' : /\ current'[x].previous = current[x].previous
                         /\ current'[x].start = current[x].start
  PROVE  PreviousInv'
<1>1. /\ finished \in [Activities -> Seq(Occurrence)] /\ open \subseteq Activities
      /\ current \in [Activities -> Occurrence] /\ previous \in Activities
  BY DEF LogInv, LogTypeOK
<1>2. /\ finished[a] \in Seq(Occurrence) /\ Len(finished[a]) \in Nat
      /\ Len(finished'[a]) = Len(finished[a]) + 1
      /\ \A j \in 1 .. Len(finished[a]) : finished'[a][j] = finished[a][j]
      /\ finished'[a][Len(finished[a]) + 1] = occ
  <2>1. finished[a] \in Seq(Occurrence) /\ finished'[a] = Append(finished[a], occ)
    BY <1>1
  <2> QED BY <2>1, LenProperties, AppendProperties
<1>3. \A x \in Activities \ {a} : finished'[x] = finished[x]
  BY <1>1
<1>4. previous' # 0 => Len(finished'[previous']) > 0
  BY <1>1, <1>2, <1>3 DEF PreviousInv, afreq
<1>5. ASSUME NEW x \in Activities, NEW j \in 1 .. Len(finished'[x])
      PROVE  Preceded(aevents', finished', finished'[x][j].previous, finished'[x][j].start)
  <2>1. CASE x = a /\ j = Len(finished[a]) + 1
    BY <1>2, <2>1
  <2>2. CASE j \in 1 .. Len(finished[x]) /\ finished'[x][j] = finished[x][j]
    <3>1. finished[x][j] \in Occurrence
      BY <1>1, <2>2, ElementOfSeq
    <3>2. Preceded(aevents, finished, finished[x][j].previous, finished[x][j].start)
      BY <2>2 DEF PreviousInv, afreq
    <3> QED BY <2>2, <3>1, <3>2, StillPreceded DEF Occurrence
  <2> QED BY <1>2, <1>3, <2>1, <2>2
<1>6. ASSUME NEW x \in open'
      PROVE  Preceded(aevents', finished', current'[x].previous, current'[x].start)
  <2>1. current[x].previous \in Activities
    BY <1>1 DEF Occurrence
  <2>2. Preceded(aevents, finished, current[x].previous, current[x].start)
    BY DEF PreviousInv
  <2> QED BY <2>1, <2>2, StillPreceded
<1> QED BY <1>4, <1>5, <1>6 DEF PreviousInv, Preceded, AddedIn, afreq

LEMMA PreviousLine ==
  ASSUME LogInv, SameCountsOpen, PreviousInv, ReadLine
  PROVE  PreviousInv'
<1>1. /\ LogTypeOK /\ Kept /\ open \subseteq Activities /\ lines < MaxLines
      /\ current \in [Activities -> Occurrence]
  BY LineKeeps DEF LogInv, LogTypeOK, ReadLine, Unlabelled, Mark, LabelledInside, Independent, NextLine
<1>2. same \in Nat
  <2>1. open \in SUBSET Activities /\ IsFiniteSet(Activities)
    BY <1>1, LogAssumption, FS_Interval DEF Activities
  <2> QED BY <2>1, FS_Subset, FS_CardinalityType DEF SameCountsOpen
<1>3. ASSUME NEW a \in Activities, NextLine, Begin(a)
      PROVE  PreviousInv'
  <2> DEFINE targets == <<a>> \o InOrder(open)
             T == open \cup {a}
  <2>1. T \subseteq Activities /\ targets \in Seq(T)
    BY <1>1, TargetsProperties
  <2>2. /\ AddEvents(targets) /\ open' = open \cup {a} /\ finished' = finished
        /\ current' = [x \in Activities |-> IF x = a THEN Opened(a, targets) ELSE Lengthened(x, targets)]
        /\ previous' = previous
    BY <1>2, <1>3 DEF Begin
  <2> HIDE DEF targets, T
  <2>3. \A x \in Activities : Count(Stored(targets), x) \in Nat
    BY <1>1, <2>1, <2>2, EventsTaken
  <2>4. \A x \in open' :
          \/ /\ x \in open /\ current'[x].previous = current[x].previous
             /\ current'[x].start = current[x].start
          \/ current'[x].previous = previous /\ current'[x].start = StartOf(x, targets)
    BY <1>1, <2>2, <2>3, OccurrenceChanges
  <2> QED BY <1>1, <2>2, <2>4, BeginsOrStays
<1>4. ASSUME NEW a \in Activities, NextLine, End(a)
      PROVE  PreviousInv'
  <2>1. PICK occ \in Occurrence :
          /\ occ.previous = current[a].previous /\ occ.start = current[a].start
          /\ finished' = [finished EXCEPT ![a] = Append(@, occ)]
          /\ \A x \in open' : /\ current'[x].previous = current[x].previous
                              /\ current'[x].start = current[x].start
    BY <1>4, EndFinishes
  <2>2. a \in open /\ open' \subseteq open /\ previous' \in {a, previous}
    BY <1>4 DEF End
  <2>3. Preceded(aevents', finished', occ.previous, occ.start)
    <3>1. Preceded(aevents, finished, current[a].previous, current[a].start)
      BY <2>2 DEF PreviousInv
    <3>2. current[a].previous \in Activities
      BY <1>1 DEF Occurrence
    <3> QED BY <1>1, <2>1, <3>1, <3>2, StillPreceded
  <2> QED BY <1>1, <2>1, <2>2, <2>3, Finishes
<1>5. ASSUME NEW a \in Activities, Independent(a)
      PROVE  PreviousInv'
  <2>1. PICK occ \in Occurrence :
          /\ occ.previous = previous /\ occ.start = StartOf(a, <<a, a>>)
          /\ finished' = [finished EXCEPT ![a] = Append(@, occ)]
    BY <1>5, IndependentFinishes
  <2>2. open' = open /\ current' = current /\ previous' = a
    BY <1>5 DEF Independent
  <2>3. Preceded(aevents', finished', occ.previous, occ.start)
    BY <1>1, <2>1, NowPreceded
  <2> QED BY <1>1, <2>1, <2>2, <2>3, Finishes
<1>6. ASSUME NEW a \in Activities, LabelledInside(a)
      PROVE  PreviousInv'
  <2> DEFINE targets == <<a>>
             T == {a}
  <2>1. T \subseteq Activities /\ targets \in Seq(T)
    OBVIOUS
  <2>2. /\ AddEvents(targets) /\ open' = open /\ finished' = finished /\ previous' = previous
        /\ current' = [current EXCEPT ![a] = Lengthened(a, targets)]
    BY <1>6 DEF LabelledInside
  <2> HIDE DEF targets, T
  <2>3. Count(Stored(targets), a) \in Nat
    BY <1>1, <2>1, <2>2, EventsTaken
  <2>4. \A x \in open' : /\ x \in open /\ current'[x].previous = current[x].previous
                        /\ current'[x].start = current[x].start
    BY <1>1, <2>2, <2>3, OccurrenceChanges
  <2> QED BY <1>1, <2>2, <2>4, BeginsOrStays
<1>7. CASE Unlabelled
  <2> DEFINE targets == InOrder(open)
  <2>1. targets \in Seq(open)
    BY <1>1, InOrderProperties
  <2>2. /\ open' = open /\ finished' = finished /\ previous' = previous
        /\ \/ AddEvents(targets) /\ current' = [x \in Activities |-> Lengthened(x, targets)]
           \/ current' = current
    BY <1>7 DEF Unlabelled
  <2> HIDE DEF targets
  <2>3. AddEvents(targets) => \A x \in Activities : Count(Stored(targets), x) \in Nat
    BY <1>1, <2>1, EventsTaken
  <2>4. \A x \in open' : /\ x \in open /\ current'[x].previous = current[x].previous
                        /\ current'[x].start = current[x].start
    BY <1>1, <2>2, <2>3, OccurrenceChanges
  <2> QED BY <1>1, <2>2, <2>4, BeginsOrStays
<1> QED BY <1>3, <1>4, <1>5, <1>6, <1>7 DEF ReadLine, Mark

LEMMA PreviousInvMeans ==
  ASSUME LogInv, PreviousInv
  PROVE  PreviousHadFinished
<1> SUFFICES ASSUME NEW a \in Activities, NEW n \in 1 .. afreq(a), finished[a][n].previous # 0
             PROVE  \E j \in 1 .. afreq(finished[a][n].previous) :
                      \A i \in Added(finished[a][n].previous, j) : i <= finished[a][n].start
  BY DEF PreviousHadFinished
<1>1. Preceded(aevents, finished, finished[a][n].previous, finished[a][n].start)
  BY DEF PreviousInv
<1> QED BY <1>1 DEF Preceded, AddedIn, Added, afreq, evnum

-----------------------------------------------------------------------------
(***************************************************************************)
(* The loops over the occurrences count them from 1 to their number.       *)
(***************************************************************************)

Frequencies == [a \in Activities |-> afreq(a)]

LEMMA FrequencySum ==
  ASSUME LogTypeOK, NEW S, S \subseteq Activities
  PROVE  /\ IsFiniteSet(S) /\ NatOn(Frequencies, S)
         /\ MapThenSumSet(afreq, S) = SumOver(Frequencies, S)
<1>1. IsFiniteSet(S)
  <2>1. IsFiniteSet(Activities) /\ S \in SUBSET Activities
    BY LogAssumption, FS_Interval DEF Activities
  <2> QED BY <2>1, FS_Subset
<1>2. NatOn(Frequencies, S)
  BY LenProperties DEF LogTypeOK, NatOn, Frequencies, afreq
<1> DEFINE P(h) == h = [s \in SUBSET S |->
                          IF s = {} THEN 0
                          ELSE afreq(CHOOSE x \in s : TRUE) + h[s \ {CHOOSE x \in s : TRUE}]]
<1>3. ASSUME NEW h PROVE P(h) <=> IsSum(h, Frequencies, S)
  <2>1. \A s \in SUBSET S : s # {} => Frequencies[Some(s)] = afreq(Some(s))
    BY DEF Some, Frequencies
  <2> QED BY <2>1 DEF IsSum, Some
<1>4. MapThenSumSet(afreq, S) = (CHOOSE h : P(h))[S]
  BY Zenon DEF MapThenSumSet, MapThenFoldSet
<1> HIDE DEF P
<1>5. \E h : IsSum(h, Frequencies, S)
  BY <1>1, <1>2, SumExists
<1>6. IsSum(CHOOSE h : P(h), Frequencies, S)
  <2>1. P(CHOOSE h : P(h))
    BY <1>3, <1>5
  <2> QED BY <1>3, <2>1
<1>7. (CHOOSE h : P(h))[S] = SumOver(Frequencies, S)
  BY <1>1, <1>2, <1>6, SumUnique
<1> QED BY <1>1, <1>2, <1>4, <1>7

LEMMA BeforeProperties ==
  ASSUME LogTypeOK
  PROVE  /\ \A a \in Activities : afreq(a) \in Nat
         /\ \A a \in 0 .. numactivities : Before(a) \in Nat
         /\ Before(0) = 0
         /\ \A a \in Activities : a + 1 \in 0 .. numactivities /\ Before(a + 1) = Before(a) + afreq(a)
         /\ Before(numactivities) = Total
<1>1. numactivities \in Nat /\ Activities = 0 .. numactivities - 1
  BY LogAssumption DEF Activities
<1>2. \A a \in Activities : afreq(a) \in Nat
  BY LenProperties DEF LogTypeOK, afreq
<1>3. IsFiniteSet(Activities) /\ NatOn(Frequencies, Activities)
  BY FrequencySum
<1>4. \A a \in 0 .. numactivities :
        0 .. a - 1 \in SUBSET Activities /\ Before(a) = SumOver(Frequencies, 0 .. a - 1)
  <2> SUFFICES ASSUME NEW a \in 0 .. numactivities
               PROVE  /\ 0 .. a - 1 \in SUBSET Activities
                      /\ Before(a) = SumOver(Frequencies, 0 .. a - 1)
    OBVIOUS
  <2>1. 0 .. a - 1 \subseteq Activities
    BY <1>1
  <2>2. MapThenSumSet(afreq, 0 .. a - 1) = SumOver(Frequencies, 0 .. a - 1)
    BY <2>1, FrequencySum
  <2> QED BY <2>1, <2>2 DEF Before
<1>5. \A a \in 0 .. numactivities : Before(a) \in Nat
  BY <1>3, <1>4, SumProperties
<1>6. Before(0) = 0
  <2>1. 0 .. 0 - 1 = {} /\ 0 \in 0 .. numactivities
    BY <1>1
  <2>2. SumOver(Frequencies, {}) = 0
    BY <1>3, SumProperties
  <2> QED BY <1>4, <2>1, <2>2
<1>7. ASSUME NEW a \in Activities
      PROVE  a + 1 \in 0 .. numactivities /\ Before(a + 1) = Before(a) + afreq(a)
  <2>1. /\ a \in 0 .. numactivities /\ a + 1 \in 0 .. numactivities
        /\ 0 .. (a + 1) - 1 = (0 .. a - 1) \cup {a} /\ a \in Activities \ (0 .. a - 1)
    BY <1>1
  <2>2. SumOver(Frequencies, (0 .. a - 1) \cup {a}) = SumOver(Frequencies, 0 .. a - 1) + Frequencies[a]
    <3> DEFINE T == 0 .. a - 1
    <3>1. T \in SUBSET Activities /\ a \in Activities \ T
      BY <1>4, <2>1
    <3> HIDE DEF T
    <3>2. SumOver(Frequencies, T \cup {a}) = SumOver(Frequencies, T) + Frequencies[a]
      BY <1>3, <3>1, SumProperties
    <3> QED BY <3>2 DEF T
  <2>3. Frequencies[a] = afreq(a)
    BY DEF Frequencies
  <2> QED BY <1>4, <2>1, <2>2, <2>3
<1>8. Before(numactivities) = Total
  BY <1>1 DEF Before, Total
<1> QED BY <1>2, <1>5, <1>6, <1>7, <1>8

\* An earlier activity's occurrences come first.
LEMMA BeforeRises ==
  ASSUME LogTypeOK, NEW a \in Activities, NEW b \in 0 .. numactivities, a < b
  PROVE  Before(a) + afreq(a) <= Before(b)
<1> DEFINE G == {n \in Nat : a + 1 + n <= numactivities => Before(a) + afreq(a) <= Before(a + 1 + n)}
<1>1. numactivities \in Nat /\ Activities = 0 .. numactivities - 1 /\ a \in Nat /\ b \in Nat
  BY LogAssumption DEF Activities
<1>2. Before(a) \in Nat /\ afreq(a) \in Nat /\ Before(a + 1) = Before(a) + afreq(a)
  BY <1>1, BeforeProperties
<1>3. ASSUME NEW n \in Nat, n # 0 => n - 1 \in G PROVE n \in G
  <2> SUFFICES ASSUME a + 1 + n <= numactivities
               PROVE  Before(a) + afreq(a) <= Before(a + 1 + n)
    OBVIOUS
  <2>1. CASE n = 0
    <3>1. a + 1 + n = a + 1
      BY <1>1, <2>1
    <3> QED BY <1>2, <3>1
  <2>2. CASE n # 0
    <3>1. Before(a) + afreq(a) <= Before(a + 1 + (n - 1))
      BY <1>1, <1>3, <2>2
    <3>2. a + n \in Activities /\ a + 1 + (n - 1) = a + n /\ (a + n) + 1 = a + 1 + n
      BY <1>1, <2>2
    <3>3. Before((a + n) + 1) = Before(a + n) + afreq(a + n) /\ afreq(a + n) \in Nat
      BY <3>2, BeforeProperties
    <3>4. Before(a + n) \in Nat
      BY <1>1, <2>2, BeforeProperties
    <3> HIDE DEF G
    <3>5. Before(a + 1 + n) = Before(a + n) + afreq(a + n) /\ Before(a) + afreq(a) <= Before(a + n)
      BY <3>1, <3>2, <3>3
    <3> QED BY <1>2, <3>3, <3>4, <3>5
  <2> QED BY <2>1, <2>2
<1> HIDE DEF G
<1>4. \A n \in Nat : n \in G
  BY <1>3, NatInductionSet
<1>5. b - (a + 1) \in Nat /\ a + 1 + (b - (a + 1)) = b /\ b <= numactivities
  BY <1>1
<1>6. b - (a + 1) \in G
  BY <1>4, <1>5
<1> QED BY <1>5, <1>6 DEF G

LEMMA OccurrenceElements ==
  ASSUME LogTypeOK
  PROVE  /\ \A a \in Activities : \A j \in 1 .. afreq(a) : <<a, j>> \in Occurrences
         /\ \A o \in Occurrences : /\ o[1] \in Activities /\ o[2] \in 1 .. afreq(o[1])
                                  /\ o = <<o[1], o[2]>>
BY DEF Occurrences

LEMMA Positions ==
  ASSUME LogTypeOK
  PROVE  /\ Total \in Nat
         /\ \A o \in Occurrences : Position(o[1], o[2]) \in 1 .. Total
         /\ \A o, x \in Occurrences : Position(o[1], o[2]) = Position(x[1], x[2]) => o = x
         /\ \A n \in 1 .. Total : \E o \in Occurrences : Position(o[1], o[2]) = n
<1>1. numactivities \in Nat /\ Activities = 0 .. numactivities - 1
  BY LogAssumption DEF Activities
<1>2. /\ \A a \in Activities : afreq(a) \in Nat
      /\ \A a \in 0 .. numactivities : Before(a) \in Nat
      /\ Before(0) = 0
      /\ \A a \in Activities : a + 1 \in 0 .. numactivities /\ Before(a + 1) = Before(a) + afreq(a)
      /\ Before(numactivities) = Total
  BY BeforeProperties
<1>3. \A a, b \in Activities : a < b => Before(a) + afreq(a) <= Before(b)
  BY <1>1, BeforeRises
<1>4. Total \in Nat
  <2>1. numactivities \in 0 .. numactivities
    BY <1>1
  <2> QED BY <1>2, <2>1
<1>5. ASSUME NEW o \in Occurrences
      PROVE  /\ o[1] \in Activities /\ o[2] \in 1 .. afreq(o[1]) /\ o = <<o[1], o[2]>>
             /\ o[1] \in Int /\ o[2] \in Int /\ Before(o[1]) \in Nat /\ afreq(o[1]) \in Nat
             /\ Position(o[1], o[2]) = Before(o[1]) + o[2]
             /\ Position(o[1], o[2]) \in 1 .. Total
  <2>1. o[1] \in Activities /\ o[2] \in 1 .. afreq(o[1]) /\ o = <<o[1], o[2]>>
    BY OccurrenceElements
  <2>2. /\ Before(o[1]) \in Nat /\ afreq(o[1]) \in Nat /\ o[1] \in Int /\ o[2] \in Int
        /\ Position(o[1], o[2]) = Before(o[1]) + o[2]
    BY <1>1, <1>2, <2>1 DEF Position
  <2>3. Before(o[1]) + afreq(o[1]) <= Total
    <3>1. o[1] < numactivities /\ numactivities \in 0 .. numactivities
      BY <1>1, <2>1
    <3> QED BY <1>2, <2>1, <3>1, BeforeRises
  <2>4. Before(o[1]) + o[2] \in 1 .. Total
    BY <1>4, <2>1, <2>2, <2>3
  <2> QED BY <2>1, <2>2, <2>4
<1>6. ASSUME NEW o \in Occurrences, NEW x \in Occurrences,
             Position(o[1], o[2]) = Position(x[1], x[2])
      PROVE  o = x
  <2>1. Before(o[1]) + o[2] = Before(x[1]) + x[2]
    BY <1>5, <1>6
  <2>2. ~(o[1] < x[1])
    <3> SUFFICES ASSUME o[1] < x[1] PROVE FALSE
      OBVIOUS
    <3>1. Before(o[1]) + afreq(o[1]) <= Before(x[1])
      BY <1>3, <1>5
    <3> QED BY <1>5, <2>1, <3>1
  <2>3. ~(x[1] < o[1])
    <3> SUFFICES ASSUME x[1] < o[1] PROVE FALSE
      OBVIOUS
    <3>1. Before(x[1]) + afreq(x[1]) <= Before(o[1])
      BY <1>3, <1>5
    <3> QED BY <1>5, <2>1, <3>1
  <2>4. o[1] = x[1]
    BY <1>5, <2>2, <2>3
  <2>5. o[2] = x[2]
    BY <1>5, <2>1, <2>4
  <2> QED BY <1>5, <2>4, <2>5
<1>7. ASSUME NEW n \in 1 .. Total
      PROVE  \E o \in Occurrences : Position(o[1], o[2]) = n
  <2> DEFINE S == {a \in 0 .. numactivities : Before(a) >= n}
             b == Min(S)
  <2>1. S \subseteq Nat /\ numactivities \in S
    BY <1>1, <1>2, <1>4
  <2>2. b \in S /\ \A a \in S : b <= a
    BY <2>1, LeastNat
  <2>3. b \in 0 .. numactivities /\ Before(b) >= n
    BY <2>2
  <2> HIDE DEF b
  <2>4. b # 0 /\ b - 1 \in Activities /\ (b - 1) + 1 = b
    BY <1>1, <1>2, <2>3
  <2>5. b - 1 \in 0 .. numactivities /\ ~(b <= b - 1)
    BY <1>1, <2>3, <2>4
  <2>6. ~(Before(b - 1) >= n)
    BY <2>2, <2>5
  <2>7. Before(b - 1) \in Nat /\ afreq(b - 1) \in Nat /\ Before(b) = Before(b - 1) + afreq(b - 1)
    BY <1>2, <2>4, <2>5
  <2> DEFINE j == n - Before(b - 1)
  <2>8. j \in 1 .. afreq(b - 1) /\ Before(b - 1) + j = n
    BY <1>4, <2>3, <2>6, <2>7
  <2> HIDE DEF j
  <2>9. <<b - 1, j>> \in Occurrences /\ Position(b - 1, j) = n
    BY <2>4, <2>8, OccurrenceElements DEF Position
  <2> QED BY <2>9
<1> QED BY <1>4, <1>5, <1>6, <1>7

\* The loop's n-th occurrence.
LEMMA NthOccurrenceProperties ==
  ASSUME LogTypeOK, NEW n \in 1 .. Total
  PROVE  NthOccurrence(n) \in Occurrences /\ Position(NthOccurrence(n)[1], NthOccurrence(n)[2]) = n
BY Positions DEF NthOccurrence

LEMMA OccurrencesCounted ==
  ASSUME LogTypeOK
  PROVE  /\ IsFiniteSet(Occurrences) /\ Cardinality(Occurrences) = Total
         /\ \A a \in Activities : Cardinality({o \in Occurrences : o[1] = a}) = afreq(a)
<1>1. Total \in Nat /\ IsFiniteSet(1 .. Total) /\ Cardinality(1 .. Total) = Total
  BY Positions, FS_Interval
<1>2. IsFiniteSet(Occurrences) /\ Cardinality(Occurrences) = Total
  <2> DEFINE f == [n \in 1 .. Total |-> NthOccurrence(n)]
  <2>1. /\ f \in [1 .. Total -> Occurrences]
        /\ \A n \in 1 .. Total : Position(f[n][1], f[n][2]) = n
    BY NthOccurrenceProperties
  <2> HIDE DEF f
  <2>2. \A n, m \in 1 .. Total : f[n] = f[m] => n = m
    <3> SUFFICES ASSUME NEW n \in 1 .. Total, NEW m \in 1 .. Total, f[n] = f[m] PROVE n = m
      OBVIOUS
    <3>1. Position(f[n][1], f[n][2]) = n /\ Position(f[m][1], f[m][2]) = m
      BY <2>1
    <3> QED BY <3>1
  <2>3. \A o \in Occurrences : \E n \in 1 .. Total : f[n] = o
    <3> SUFFICES ASSUME NEW o \in Occurrences PROVE \E n \in 1 .. Total : f[n] = o
      OBVIOUS
    <3> DEFINE n == Position(o[1], o[2])
    <3>1. n \in 1 .. Total
      BY Positions
    <3>2. f[n] \in Occurrences /\ Position(f[n][1], f[n][2]) = Position(o[1], o[2])
      BY <2>1, <3>1
    <3>3. f[n] = o
      BY <3>2, Positions
    <3> QED BY <3>1, <3>3
  <2>4. f \in Bijection(1 .. Total, Occurrences)
    BY <2>1, <2>2, <2>3, Fun_IsBij
  <2> QED BY <1>1, <2>4, FS_Bijection DEF ExistsBijection
<1>3. ASSUME NEW a \in Activities
      PROVE  Cardinality({o \in Occurrences : o[1] = a}) = afreq(a)
  <2> DEFINE S == {o \in Occurrences : o[1] = a}
             f == [j \in 1 .. afreq(a) |-> <<a, j>>]
  <2>1. /\ afreq(a) \in Nat /\ IsFiniteSet(1 .. afreq(a))
        /\ Cardinality(1 .. afreq(a)) = afreq(a)
    BY BeforeProperties, FS_Interval
  <2>2. \A j \in 1 .. afreq(a) : <<a, j>> \in S
    BY OccurrenceElements
  <2>3. \A o \in S : o[2] \in 1 .. afreq(a) /\ o = <<a, o[2]>>
    BY OccurrenceElements
  <2> HIDE DEF S
  <2>4. f \in [1 .. afreq(a) -> S] /\ \A j \in 1 .. afreq(a) : f[j] = <<a, j>>
    BY <2>2
  <2> HIDE DEF f
  <2>5. \A i, j \in 1 .. afreq(a) : f[i] = f[j] => i = j
    BY <2>4
  <2>6. \A o \in S : \E j \in 1 .. afreq(a) : f[j] = o
    BY <2>3, <2>4
  <2>7. f \in Bijection(1 .. afreq(a), S)
    BY <2>4, <2>5, <2>6, Fun_IsBij
  <2>8. Cardinality(S) = afreq(a)
    BY <2>1, <2>7, FS_Bijection DEF ExistsBijection
  <2> QED BY <2>8 DEF S
<1> QED BY <1>2, <1>3

-----------------------------------------------------------------------------
(***************************************************************************)
(* Ranges: whichever way the thresholds are found, they rise, so the loop  *)
(* up to the first that is not exceeded counts the ones that are.          *)
(***************************************************************************)

Rising(th) ==
  /\ th \in Seq(Int)
  /\ \A j, k \in 1 .. Len(th) : j <= k => th[j] <= th[k]

LEMMA RangeCounts ==
  ASSUME NEW th, Rising(th), NEW v \in Int
  PROVE  RangeOf(th, v) = InRange(th, v) /\ InRange(th, v) \in Nat
<1> DEFINE S == {k \in 0 .. Len(th) : k = Len(th) \/ v <= th[k + 1]}
           m == Min(S)
<1>1. Len(th) \in Nat /\ DOMAIN th = 1 .. Len(th) /\ \A k \in 1 .. Len(th) : th[k] \in Int
  BY LenProperties, ElementOfSeq DEF Rising
<1>2. S \subseteq Nat /\ Len(th) \in S
  BY <1>1
<1>3. m \in S /\ \A k \in S : m <= k
  BY <1>2, LeastNat
<1>4. m \in 0 .. Len(th) /\ (m = Len(th) \/ v <= th[m + 1])
  BY <1>3
<1>5. RangeOf(th, v) = m
  BY DEF RangeOf
<1>50. \A k \in 0 .. Len(th) : k = Len(th) \/ v <= th[k + 1] => m <= k
  BY <1>3
<1> HIDE DEF m, S
<1>51. m \in Nat /\ m <= Len(th)
  <2>1. m \in 0 .. Len(th)
    BY <1>4
  <2> QED BY <1>1, <2>1
<1>6. ASSUME NEW k \in 1 .. Len(th) PROVE v > th[k] <=> k <= m
  <2>0. k \in Nat /\ 1 <= k /\ k <= Len(th) /\ th[k] \in Int
    BY <1>1
  <2>1. CASE k <= m
    <3>1. k - 1 \in 0 .. Len(th) /\ ~(m <= k - 1) /\ (k - 1) + 1 = k
      BY <1>1, <1>51, <2>0, <2>1
    <3>2. v <= th[(k - 1) + 1] => m <= k - 1
      BY <1>50, <3>1
    <3>3. ~(v <= th[k])
      BY <3>1, <3>2
    <3> QED BY <2>0, <2>1, <3>3
  <2>2. CASE ~(k <= m)
    <3>0. m < k
      BY <1>51, <2>0, <2>2
    <3>1. m + 1 \in 1 .. Len(th) /\ m + 1 <= k /\ m # Len(th)
      <4>1. Len(th) \in Nat
        BY <1>1
      <4> QED BY <1>51, <2>0, <3>0, <4>1
    <3>2. v <= th[m + 1] /\ th[m + 1] \in Int
      BY <1>1, <1>4, <3>1
    <3>3. th[m + 1] <= th[k]
      BY <3>1 DEF Rising
    <3> QED BY <2>0, <2>2, <3>2, <3>3
  <2> QED BY <2>1, <2>2
<1>7. {k \in DOMAIN th : v > th[k]} = 1 .. m
  <2>1. \A k : k \in 1 .. m <=> k \in 1 .. Len(th) /\ k <= m
    BY <1>1, <1>51
  <2> QED BY <1>1, <1>6, <2>1
<1>8. Cardinality(1 .. m) = m
  BY <1>51, FS_Interval
<1> QED BY <1>5, <1>51, <1>7, <1>8 DEF InRange

NotAbove(data, v) == {i \in DOMAIN data : data[i] <= v}
UnderOf(data, v) == {i \in DOMAIN data : data[i] < v}

LEMMA CountsOfData ==
  ASSUME NEW data \in Seq(Int)
  PROVE  /\ Len(data) \in Nat /\ DOMAIN data = 1 .. Len(data)
         /\ IsFiniteSet(DOMAIN data) /\ Cardinality(DOMAIN data) = Len(data)
         /\ \A i \in DOMAIN data : data[i] \in Int
         /\ \A S \in SUBSET DOMAIN data :
              /\ IsFiniteSet(S) /\ Cardinality(S) \in Nat
              /\ \A T \in SUBSET S : Cardinality(T) <= Cardinality(S)
<1>1. Len(data) \in Nat /\ DOMAIN data = 1 .. Len(data)
  BY LenProperties
<1>2. \A i \in DOMAIN data : data[i] \in Int
  BY <1>1, ElementOfSeq
<1>3. IsFiniteSet(DOMAIN data) /\ Cardinality(DOMAIN data) = Len(data)
  BY <1>1, FS_Interval
<1>4. ASSUME NEW S \in SUBSET DOMAIN data
      PROVE  /\ IsFiniteSet(S) /\ Cardinality(S) \in Nat
             /\ \A T \in SUBSET S : Cardinality(T) <= Cardinality(S)
  BY <1>3, FS_Subset, FS_CardinalityType
<1> QED BY <1>1, <1>2, <1>3, <1>4

\* Sorted data has an element at each place (qsort in SelectFeatures).
LEMMA SortedExists ==
  ASSUME NEW data \in Seq(Int), NEW k \in 0 .. Len(data) - 1
  PROVE  \E v \in {data[i] : i \in DOMAIN data} :
           /\ Cardinality({i \in DOMAIN data : data[i] < v}) <= k
           /\ k < Cardinality({i \in DOMAIN data : data[i] <= v})
<1> DEFINE V == {data[i] : i \in DOMAIN data}
           H == {v \in V : k < Cardinality(NotAbove(data, v))}
<1>1. /\ Len(data) \in Nat /\ DOMAIN data = 1 .. Len(data)
      /\ IsFiniteSet(DOMAIN data) /\ Cardinality(DOMAIN data) = Len(data)
      /\ \A i \in DOMAIN data : data[i] \in Int
  BY CountsOfData
<1>2. \A v : /\ NotAbove(data, v) \in SUBSET DOMAIN data
             /\ UnderOf(data, v) \in SUBSET DOMAIN data
             /\ Cardinality(NotAbove(data, v)) \in Nat /\ Cardinality(UnderOf(data, v)) \in Nat
  BY CountsOfData DEF NotAbove, UnderOf
<1>3. V \subseteq Int /\ V # {} /\ IsFiniteSet(V)
  <2>1. V \subseteq Int
    BY <1>1
  <2>2. V # {}
    <3>1. 1 \in DOMAIN data
      BY <1>1
    <3> QED BY <3>1
  <2>3. IsFiniteSet(V)
    <3> DEFINE f == [i \in DOMAIN data |-> data[i]]
    <3>1. f \in Surjection(DOMAIN data, V)
      BY Fun_IsSurj
    <3> HIDE DEF f, V
    <3> QED BY <1>1, <3>1, FS_Surjection
  <2> QED BY <2>1, <2>2, <2>3
<1> HIDE DEF V
<1>4. \A T \in SUBSET V : IsFiniteSet(T) /\ T \subseteq Int
  BY <1>3, FS_Subset
<1>5. H # {}
  <2>1. PICK g \in V : \A x \in V : x <= g
    BY <1>3, Extremes
  <2>2. NotAbove(data, g) = DOMAIN data
    BY <2>1 DEF NotAbove, V
  <2>3. k < Len(data)
    BY <1>1
  <2> QED BY <1>1, <2>2, <2>3
<1>6. PICK v \in H : \A x \in H : v <= x
  <2>1. H \in SUBSET V
    OBVIOUS
  <2> HIDE DEF H
  <2> QED BY <1>4, <1>5, <2>1, Extremes
<1>7. v \in V /\ v \in Int /\ k < Cardinality(NotAbove(data, v))
  BY <1>3
<1>8. Cardinality(UnderOf(data, v)) <= k
  <2> DEFINE L == {x \in V : x < v}
  <2>1. CASE L = {}
    <3>1. UnderOf(data, v) = {}
      BY <2>1 DEF UnderOf, V
    <3>2. Cardinality(UnderOf(data, v)) = 0
      BY <3>1, FS_EmptySet
    <3> QED BY <3>2
  <2>2. CASE L # {}
    <3>1. PICK u \in L : \A x \in L : x <= u
      <4>1. L \in SUBSET V
        OBVIOUS
      <4> HIDE DEF L
      <4> QED BY <1>4, <2>2, <4>1, Extremes
    <3>2. u \in V /\ u \in Int /\ u < v
      BY <1>3
    <3>3. NotAbove(data, u) = UnderOf(data, v)
      <4>1. ASSUME NEW i \in DOMAIN data PROVE data[i] <= u <=> data[i] < v
        <5>1. data[i] \in V /\ data[i] \in Int
          BY <1>1 DEF V
        <5> QED BY <1>7, <3>1, <3>2, <5>1
      <4> QED BY <4>1 DEF NotAbove, UnderOf
    <3>4. ~(v <= u)
      BY <1>7, <3>2
    <3>5. u \notin H
      BY <1>6, <3>4
    <3>6. ~(k < Cardinality(NotAbove(data, u)))
      BY <3>2, <3>5
    <3> QED BY <1>2, <3>3, <3>6
  <2> QED BY <2>1, <2>2
<1> QED BY <1>7, <1>8 DEF V, NotAbove, UnderOf

LEMMA SortedRises ==
  ASSUME NEW data \in Seq(Int), NEW k \in 0 .. Len(data) - 1, NEW l \in 0 .. Len(data) - 1,
         k <= l
  PROVE  Sorted(data, k) \in Int /\ Sorted(data, k) <= Sorted(data, l)
<1> DEFINE v == Sorted(data, k)
           w == Sorted(data, l)
<1>1. /\ v \in {data[i] : i \in DOMAIN data}
      /\ Cardinality(UnderOf(data, v)) <= k /\ k < Cardinality(NotAbove(data, v))
  BY SortedExists DEF Sorted, UnderOf, NotAbove
<1>2. /\ w \in {data[i] : i \in DOMAIN data}
      /\ Cardinality(UnderOf(data, w)) <= l /\ l < Cardinality(NotAbove(data, w))
  BY SortedExists DEF Sorted, UnderOf, NotAbove
<1>3. v \in Int /\ w \in Int
  BY <1>1, <1>2, CountsOfData
<1> HIDE DEF v, w
<1>4. ~(w < v)
  <2> SUFFICES ASSUME w < v PROVE FALSE
    OBVIOUS
  <2>1. NotAbove(data, w) \in SUBSET UnderOf(data, v) /\ UnderOf(data, v) \in SUBSET DOMAIN data
    BY <1>3, CountsOfData DEF NotAbove, UnderOf
  <2>2. /\ Cardinality(NotAbove(data, w)) <= Cardinality(UnderOf(data, v))
        /\ Cardinality(UnderOf(data, v)) \in Nat /\ Cardinality(NotAbove(data, w)) \in Nat
    <3>1. NotAbove(data, w) \in SUBSET DOMAIN data
      BY DEF NotAbove
    <3> QED BY <2>1, <3>1, CountsOfData
  <2> QED BY <1>1, <1>2, <2>2
<1> QED BY <1>3, <1>4 DEF v, w

LEMMA EqualFrequencyRises ==
  ASSUME NEW data \in Seq(Int), NEW n \in Nat \ {0}, NEW unread \in Int
  PROVE  Rising(EqualFrequency(data, n, unread))
<1> DEFINE q == Len(data) \div n
           th == EqualFrequency(data, n, unread)
<1>1. Len(data) \in Nat
  BY LenProperties
<1>2. th = [k \in 1 .. n - 1 |-> IF data = <<>> THEN unread ELSE Sorted(data, k * q)]
  BY DEF EqualFrequency
<1>3. \A k \in 1 .. n - 1 : data # <<>> => k * q \in 0 .. Len(data) - 1
  <2> SUFFICES ASSUME NEW k \in 1 .. n - 1, data # <<>> PROVE k * q \in 0 .. Len(data) - 1
    OBVIOUS
  <2>1. Len(data) # 0
    BY EmptySeq
  <2>2. q \in Nat /\ n * q <= Len(data)
    BY <1>1
  <2> HIDE DEF q
  <2>3. n * q = (n - 1) * q + q /\ k * q <= (n - 1) * q /\ k * q \in Nat
    BY <2>2
  <2> QED BY <1>1, <2>1, <2>2, <2>3
<1>4. \A j, k \in 1 .. n - 1 : j <= k => j * q <= k * q
  <2>1. q \in Nat
    BY <1>1
  <2> HIDE DEF q
  <2> QED BY <2>1
<1> HIDE DEF q, th
<1>5. \A k \in 1 .. n - 1 : th[k] \in Int
  <2> SUFFICES ASSUME NEW k \in 1 .. n - 1 PROVE th[k] \in Int
    OBVIOUS
  <2>1. CASE data = <<>>
    BY <1>2, <2>1
  <2>2. CASE data # <<>>
    <3>1. k * q \in 0 .. Len(data) - 1
      BY <1>3, <2>2
    <3>2. k * q <= k * q
      BY <1>1, <3>1
    <3>3. Sorted(data, k * q) \in Int
      BY <3>1, <3>2, SortedRises
    <3> QED BY <1>2, <2>2, <3>3
  <2> QED BY <2>1, <2>2
<1>6. th \in Seq(Int) /\ Len(th) = n - 1
  <2>1. th \in [1 .. n - 1 -> Int] /\ n - 1 \in Nat
    BY <1>2, <1>5
  <2>2. th \in Seq(Int)
    BY <2>1, SeqDef
  <2> QED BY <2>1, <2>2, LenProperties
<1>7. \A j, k \in 1 .. n - 1 : j <= k => th[j] <= th[k]
  <2> SUFFICES ASSUME NEW j \in 1 .. n - 1, NEW k \in 1 .. n - 1, j <= k PROVE th[j] <= th[k]
    OBVIOUS
  <2>1. CASE data = <<>>
    BY <1>2, <2>1
  <2>2. CASE data # <<>>
    BY <1>2, <1>3, <1>4, <2>2, SortedRises
  <2> QED BY <2>1, <2>2
<1> QED BY <1>6, <1>7 DEF Rising, th

LEMMA DefaultRises ==
  Rising(DefaultThreshold["TIME"])
<1> DEFINE n == numfeaturevalues.TIME
           th == [k \in 1 .. n - 1 |-> IF k < 4 THEN 5 * k ELSE 20]
<1>1. n \in Nat \ {0}
  BY RecognitionAssumption
<1>2. DefaultThreshold["TIME"] = th
  BY DEF DefaultThreshold
<1> HIDE DEF n
<1>3. th \in [1 .. n - 1 -> Int] /\ n - 1 \in Nat
  BY <1>1
<1>4. \A j, k \in 1 .. n - 1 : j <= k => th[j] <= th[k]
  BY <1>1
<1> HIDE DEF th
<1>5. th \in Seq(Int) /\ Len(th) = n - 1
  <2>1. th \in Seq(Int)
    BY <1>3, SeqDef
  <2> QED BY <1>3, <2>1, LenProperties
<1> QED BY <1>2, <1>4, <1>5 DEF Rising

-----------------------------------------------------------------------------
(***************************************************************************)
(* The confusion matrix: the sums of its rows and of its diagonal.         *)
(***************************************************************************)

RowSum(h, a) == MapThenSumSet(LAMBDA b : h[<<a, b>>], Activities)
DiagonalSum(h) == MapThenSumSet(LAMBDA a : h[<<a, a>>], Activities)

Row(h, a) == [b \in Activities |-> h[<<a, b>>]]
Diagonal(h) == [a \in Activities |-> h[<<a, a>>]]

Matrix == [Activities \X Activities -> Nat]

LEMMA ActivitiesFinite ==
  IsFiniteSet(Activities)
BY LogAssumption, FS_Interval DEF Activities

LEMMA RowSums ==
  ASSUME NEW h \in Matrix, NEW a \in Activities
  PROVE  /\ NatOn(Row(h, a), Activities)
         /\ RowSum(h, a) = SumOver(Row(h, a), Activities)
<1>1. NatOn(Row(h, a), Activities)
  <2>1. \A b \in Activities : h[<<a, b>>] \in Nat
    BY DEF Matrix
  <2> QED BY <2>1 DEF NatOn, Row
<1> DEFINE P(f) == f = [s \in SUBSET Activities |->
                          IF s = {} THEN 0
                          ELSE h[<<a, CHOOSE x \in s : TRUE>>] + f[s \ {CHOOSE x \in s : TRUE}]]
<1>2. ASSUME NEW f PROVE P(f) <=> IsSum(f, Row(h, a), Activities)
  <2>0. ASSUME NEW s \in SUBSET Activities, s # {} PROVE Some(s) \in s
    BY <2>0 DEF Some
  <2>1. \A s \in SUBSET Activities : s # {} => Row(h, a)[Some(s)] = h[<<a, Some(s)>>]
    BY <2>0 DEF Row
  <2>2. [s \in SUBSET Activities |->
           IF s = {} THEN 0 ELSE h[<<a, Some(s)>>] + f[s \ {Some(s)}]]
        = [s \in SUBSET Activities |->
             IF s = {} THEN 0 ELSE Row(h, a)[Some(s)] + f[s \ {Some(s)}]]
    BY <2>1
  <2>3. P(f) <=> f = [s \in SUBSET Activities |->
                        IF s = {} THEN 0 ELSE h[<<a, Some(s)>>] + f[s \ {Some(s)}]]
    BY Zenon DEF Some
  <2> QED BY <2>2, <2>3, Zenon DEF IsSum
<1>3. RowSum(h, a) = (CHOOSE f : P(f))[Activities]
  BY Zenon DEF RowSum, MapThenSumSet, MapThenFoldSet
<1> HIDE DEF P
<1>4. \E f : IsSum(f, Row(h, a), Activities)
  BY <1>1, ActivitiesFinite, SumExists
<1>5. IsSum(CHOOSE f : P(f), Row(h, a), Activities)
  <2>1. P(CHOOSE f : P(f))
    BY <1>2, <1>4
  <2> QED BY <1>2, <2>1
<1>6. (CHOOSE f : P(f))[Activities] = SumOver(Row(h, a), Activities)
  BY <1>1, <1>5, ActivitiesFinite, SumUnique
<1> QED BY <1>1, <1>3, <1>6

LEMMA DiagonalSums ==
  ASSUME NEW h \in Matrix
  PROVE  /\ NatOn(Diagonal(h), Activities)
         /\ DiagonalSum(h) = SumOver(Diagonal(h), Activities)
<1>1. NatOn(Diagonal(h), Activities)
  <2>1. \A b \in Activities : h[<<b, b>>] \in Nat
    BY DEF Matrix
  <2> QED BY <2>1 DEF NatOn, Diagonal
<1> DEFINE P(f) == f = [s \in SUBSET Activities |->
                          IF s = {} THEN 0
                          ELSE h[<<CHOOSE x \in s : TRUE, CHOOSE x \in s : TRUE>>]
                               + f[s \ {CHOOSE x \in s : TRUE}]]
<1>2. ASSUME NEW f PROVE P(f) <=> IsSum(f, Diagonal(h), Activities)
  <2>0. ASSUME NEW s \in SUBSET Activities, s # {} PROVE Some(s) \in s
    BY <2>0 DEF Some
  <2>1. \A s \in SUBSET Activities : s # {} => Diagonal(h)[Some(s)] = h[<<Some(s), Some(s)>>]
    BY <2>0 DEF Diagonal
  <2>2. [s \in SUBSET Activities |->
           IF s = {} THEN 0 ELSE h[<<Some(s), Some(s)>>] + f[s \ {Some(s)}]]
        = [s \in SUBSET Activities |->
             IF s = {} THEN 0 ELSE Diagonal(h)[Some(s)] + f[s \ {Some(s)}]]
    BY <2>1
  <2>3. P(f) <=> f = [s \in SUBSET Activities |->
                        IF s = {} THEN 0 ELSE h[<<Some(s), Some(s)>>] + f[s \ {Some(s)}]]
    BY Zenon DEF Some
  <2> QED BY <2>2, <2>3, Zenon DEF IsSum
<1>3. DiagonalSum(h) = (CHOOSE f : P(f))[Activities]
  BY Zenon DEF DiagonalSum, MapThenSumSet, MapThenFoldSet
<1> HIDE DEF P
<1>4. \E f : IsSum(f, Diagonal(h), Activities)
  BY <1>1, ActivitiesFinite, SumExists
<1>5. IsSum(CHOOSE f : P(f), Diagonal(h), Activities)
  <2>1. P(CHOOSE f : P(f))
    BY <1>2, <1>4
  <2> QED BY <1>2, <2>1
<1>6. (CHOOSE f : P(f))[Activities] = SumOver(Diagonal(h), Activities)
  BY <1>1, <1>5, ActivitiesFinite, SumUnique
<1> QED BY <1>1, <1>3, <1>6

OneMore(h, k, a, b) == k = [h EXCEPT ![<<a, b>>] = @ + 1]

\* One more prediction adds one to its row, and to the diagonal if it is right.
LEMMA OnePredicted ==
  ASSUME NEW h \in Matrix, NEW a \in Activities, NEW b \in Activities,
         NEW k, OneMore(h, k, a, b)
  PROVE  /\ k \in Matrix
         /\ \A x \in Activities : RowSum(k, x) = IF x = a THEN RowSum(h, x) + 1 ELSE RowSum(h, x)
         /\ DiagonalSum(k) = IF a = b THEN DiagonalSum(h) + 1 ELSE DiagonalSum(h)
<1>0. \A x, y \in Activities :
        h[<<x, y>>] \in Nat /\ k[<<x, y>>] = IF x = a /\ y = b THEN h[<<x, y>>] + 1 ELSE h[<<x, y>>]
  BY DEF Matrix, OneMore
<1>1. k \in Matrix
  BY <1>0 DEF Matrix, OneMore
<1>2. ASSUME NEW x \in Activities
      PROVE  RowSum(k, x) = IF x = a THEN RowSum(h, x) + 1 ELSE RowSum(h, x)
  <2>1. /\ NatOn(Row(h, x), Activities) /\ RowSum(h, x) = SumOver(Row(h, x), Activities)
        /\ NatOn(Row(k, x), Activities) /\ RowSum(k, x) = SumOver(Row(k, x), Activities)
    BY <1>1, RowSums
  <2>2. CASE x = a
    <3>1. \A y \in Activities : Row(k, x)[y] = IF y = b THEN Row(h, x)[y] + 1 ELSE Row(h, x)[y]
      BY <1>0, <2>2 DEF Row
    <3>2. SumOver(Row(k, x), Activities) = SumOver(Row(h, x), Activities) + 1
      BY <2>1, <3>1, ActivitiesFinite, SumIncremented
    <3> QED BY <2>1, <2>2, <3>2
  <2>3. CASE x # a
    <3>1. Row(k, x) = Row(h, x)
      BY <1>0, <2>3 DEF Row
    <3> QED BY <2>1, <2>3, <3>1
  <2> QED BY <2>2, <2>3
<1>3. DiagonalSum(k) = IF a = b THEN DiagonalSum(h) + 1 ELSE DiagonalSum(h)
  <2>1. /\ NatOn(Diagonal(h), Activities) /\ DiagonalSum(h) = SumOver(Diagonal(h), Activities)
        /\ NatOn(Diagonal(k), Activities) /\ DiagonalSum(k) = SumOver(Diagonal(k), Activities)
    BY <1>1, DiagonalSums
  <2>2. CASE a = b
    <3>1. \A y \in Activities :
            Diagonal(k)[y] = IF y = a THEN Diagonal(h)[y] + 1 ELSE Diagonal(h)[y]
      BY <1>0, <2>2 DEF Diagonal
    <3>2. SumOver(Diagonal(k), Activities) = SumOver(Diagonal(h), Activities) + 1
      BY <2>1, <3>1, ActivitiesFinite, SumIncremented
    <3> QED BY <2>1, <2>2, <3>2
  <2>3. CASE a # b
    <3>1. Diagonal(k) = Diagonal(h)
      BY <1>0, <2>3 DEF Diagonal
    <3> QED BY <2>1, <2>3, <3>1
  <2> QED BY <2>2, <2>3
<1> QED BY <1>1, <1>2, <1>3

LEMMA NonePredicted ==
  ASSUME NEW h, h = [ab \in Activities \X Activities |-> 0]
  PROVE  /\ h \in Matrix /\ DiagonalSum(h) = 0
         /\ \A a \in Activities : RowSum(h, a) = 0
<1> DEFINE zero == [a \in Activities |-> 0]
<1>1. h \in Matrix
  BY DEF Matrix
<1>2. NatOn(zero, Activities)
  BY DEF NatOn
<1>3. SumOver(zero, Activities) = 0
  <2> DEFINE f == [s \in SUBSET Activities |-> 0]
  <2>1. IsSum(f, zero, Activities)
    <3>1. ASSUME NEW s \in SUBSET Activities, s # {}
          PROVE  zero[Some(s)] + f[s \ {Some(s)}] = 0
      <4>1. Some(s) \in Activities /\ s \ {Some(s)} \in SUBSET Activities
        BY <3>1 DEF Some
      <4> QED BY <4>1
    <3> QED BY <3>1 DEF IsSum
  <2>2. f[Activities] = 0
    OBVIOUS
  <2> HIDE DEF f, zero
  <2> QED BY <1>2, <2>1, <2>2, ActivitiesFinite, SumUnique
<1>4. Diagonal(h) = zero /\ \A a \in Activities : Row(h, a) = zero
  BY DEF Diagonal, Row
<1> HIDE DEF zero
<1> QED BY <1>1, <1>3, <1>4, RowSums, DiagonalSums

-----------------------------------------------------------------------------
(***************************************************************************)
(* The phases, and what a step that leaves the log alone leaves with it.   *)
(***************************************************************************)

PhaseOK ==
  /\ phase \in {"read", "partition", "train", "test", "done", "exit"}
  /\ mode \in {"TRAIN", "TEST", "BOTH"}
  /\ mode = "TRAIN" => phase \in {"read", "train", "done"}
  /\ mode = "TEST" => phase \in {"read", "test", "done", "exit"}
  /\ fold \in Folds
  /\ phase \in {"read", "partition"} \/ mode # "BOTH" => fold = 0
  /\ mode = "BOTH" /\ phase \in {"train", "test", "done"} => partition \in [1 .. Total -> Folds]
  /\ phase = "test" => num \in 0 .. Total

LogPart == LogInv /\ SameCountsOpen /\ PreviousInv

LEMMA LogStarts ==
  LogInit => LogPart /\ \A i \in 1 .. evnum : aevents[i].time = aevents[i].hour
<1> SUFFICES ASSUME LogInit
             PROVE  LogPart /\ \A i \in 1 .. evnum : aevents[i].time = aevents[i].hour
  OBVIOUS
<1>1. LogInv
  BY LogInitInv
<1>2. SameCountsOpen
  BY FS_EmptySet DEF LogInit, SameCountsOpen
<1>3. PreviousInv
  BY DEF LogInit, PreviousInv, afreq
<1>4. evnum = 0
  BY DEF LogInit, evnum
<1> QED BY <1>1, <1>2, <1>3, <1>4 DEF LogPart

\* The second session starts as the first did.
LEMMA LogStartsAgain ==
  LogInit' => LogPart' /\ \A i \in 1 .. evnum' : aevents'[i].time = aevents'[i].hour
<1>1. LogInit' => (LogPart /\ \A i \in 1 .. evnum : aevents[i].time = aevents[i].hour)'
  BY LogStarts, PTL
<1> QED BY <1>1

LEMMA SameLogPart ==
  ASSUME LogPart, UNCHANGED logVars
  PROVE  LogPart'
<1>1. LogInv'
  BY LogStep DEF LogPart
<1>2. SameCountsOpen'
  BY OpenCountedLine DEF LogPart
<1>3. PreviousInv'
  BY DEF LogPart, logVars, PreviousInv, Preceded, AddedIn, afreq
<1> QED BY <1>1, <1>2, <1>3 DEF LogPart

LEMMA SameOccurrences ==
  ASSUME finished' = finished
  PROVE  /\ Total' = Total /\ Occurrences' = Occurrences
         /\ \A a : afreq(a)' = afreq(a)
         /\ \A a, j : Position(a, j)' = Position(a, j)
<1>1. Total' = Total
  BY Zenon DEF Total, afreq, MapThenSumSet, MapThenFoldSet
<1>2. ASSUME NEW a PROVE afreq(a)' = afreq(a) /\ Before(a)' = Before(a)
  BY Zenon DEF Before, afreq, MapThenSumSet, MapThenFoldSet
<1>3. Occurrences' = Occurrences
  BY DEF Occurrences, afreq
<1>4. \A a, j : Position(a, j)' = Position(a, j)
  BY <1>2, Zenon DEF Position
<1> QED BY <1>1, <1>2, <1>3, <1>4

LEMMA RangedProperties ==
  ASSUME LogTypeOK, NEW th, Rising(th)
  PROVE  /\ Ranged(th) \in Seq(Event) /\ Len(Ranged(th)) = evnum
         /\ \A i \in 1 .. evnum :
              /\ Ranged(th)[i].label = aevents[i].label
              /\ Ranged(th)[i].hour = aevents[i].hour
              /\ Ranged(th)[i].occurrence = aevents[i].occurrence
              /\ Ranged(th)[i].time = InRange(th, aevents[i].time)
<1> DEFINE R == Ranged(th)
           e(i) == [aevents[i] EXCEPT !.time = RangeOf(th, @)]
<1>1. evnum \in Nat /\ \A i \in 1 .. evnum : aevents[i] \in Event
  BY LenProperties, ElementOfSeq DEF LogTypeOK, evnum
<1>2. ASSUME NEW i \in 1 .. evnum
      PROVE  /\ e(i) \in Event
             /\ e(i).label = aevents[i].label /\ e(i).hour = aevents[i].hour
             /\ e(i).occurrence = aevents[i].occurrence
             /\ e(i).time = InRange(th, aevents[i].time)
  <2>1. aevents[i] \in Event
    BY <1>1
  <2>2. aevents[i].time \in Int
    BY <2>1 DEF Event
  <2>3. RangeOf(th, aevents[i].time) = InRange(th, aevents[i].time) /\ InRange(th, aevents[i].time) \in Nat
    BY <2>2, RangeCounts
  <2> HIDE DEF R
  <2> QED BY <2>1, <2>3 DEF Event
<1>3. R = [i \in 1 .. evnum |-> e(i)]
  BY DEF Ranged
<1> HIDE DEF R, e
<1>4. R \in Seq(Event)
  <2>1. R \in [1 .. evnum -> Event]
    BY <1>2, <1>3
  <2> QED BY <1>1, <2>1, SeqDef
<1>5. Len(R) = evnum
  <2>1. DOMAIN R = 1 .. evnum
    BY <1>3
  <2> QED BY <1>1, <1>4, <2>1, LenProperties
<1>6. \A i \in 1 .. evnum : R[i] = e(i)
  BY <1>3
<1> QED BY <1>2, <1>4, <1>5, <1>6 DEF R

\* The ranges change the times of the log and nothing else in it.
LEMMA RangedLog ==
  ASSUME LogPart, NEW th, Rising(th), aevents' = Ranged(th),
         UNCHANGED <<lines, open, current, finished, same, previous>>
  PROVE  LogPart'
<1>0. LogTypeOK /\ evnum \in Nat
  BY LenProperties DEF LogPart, LogInv, LogTypeOK, evnum
<1>1. /\ aevents' \in Seq(Event) /\ Len(aevents') = evnum /\ Len(aevents) = evnum
      /\ \A i \in 1 .. evnum : /\ aevents'[i].label = aevents[i].label
                               /\ aevents'[i].occurrence = aevents[i].occurrence
  BY <1>0, RangedProperties DEF evnum
<1>2. \A a : afreq(a)' = afreq(a)
  BY DEF afreq
<1>3. \A a, j : AddedIn(aevents', a, j) = AddedIn(aevents, a, j)
  BY <1>1 DEF AddedIn
<1>4. LogTypeOK'
  BY <1>0, <1>1 DEF LogTypeOK, evnum
<1>5. NumberedIn(aevents, open)' /\ NumbersRise(aevents)'
  <2>1. NumberedIn(aevents, open) /\ NumbersRise(aevents)
    BY DEF LogPart, LogInv
  <2> QED BY <1>1, <1>2, <2>1 DEF NumberedIn, NumbersRise
<1>6. ASSUME NEW a, NEW j, NEW occ, Apart(aevents, a, j, occ) PROVE Apart(aevents', a, j, occ)
  BY <1>1, <1>3, <1>6 DEF Apart, Separates
<1>7. OccurrencesApart'
  <2>1. OccurrencesApart
    BY DEF LogPart, LogInv
  <2> QED BY <1>2, <1>6, <2>1 DEF OccurrencesApart
<1>8. OpenHasEvent'
  BY <1>1 DEF LogPart, LogInv, OpenHasEvent, evnum
<1>9. SameCountsOpen'
  BY DEF LogPart, SameCountsOpen
<1>10. PreviousInv'
  <2>1. PreviousInv
    BY DEF LogPart
  <2>2. ASSUME NEW p, NEW i, Preceded(aevents, finished, p, i)
        PROVE  Preceded(aevents', finished, p, i)
    BY <1>3, <2>2 DEF Preceded
  <2> QED BY <1>2, <2>1, <2>2 DEF PreviousInv
<1> QED BY <1>4, <1>5, <1>7, <1>8, <1>9, <1>10 DEF LogPart, LogInv

\* Whichever way the user selects.
LEMMA SelectedRises ==
  ASSUME LogTypeOK, NEW select, NEW unread \in Int
  PROVE  Rising(Selected("TIME", select, unread))
<1>1. CASE select = 0
  BY <1>1, DefaultRises DEF Selected
<1>2. CASE select # 0
  <2> DEFINE data == [i \in 1 .. evnum |-> aevents[i].time]
  <2>1. data \in Seq(Int)
    <3>1. evnum \in Nat /\ \A i \in 1 .. evnum : aevents[i] \in Event
      BY LenProperties, ElementOfSeq DEF LogTypeOK, evnum
    <3>2. data \in [1 .. evnum -> Int]
      BY <3>1 DEF Event
    <3> HIDE DEF data
    <3> QED BY <3>1, <3>2, SeqDef
  <2>2. Selected("TIME", select, unread) = EqualFrequency(data, numfeaturevalues["TIME"], unread)
    BY <1>2 DEF Selected, Data
  <2>3. numfeaturevalues["TIME"] \in Nat \ {0}
    BY RecognitionAssumption
  <2> HIDE DEF data
  <2> QED BY <2>1, <2>2, <2>3, EqualFrequencyRises
<1> QED BY <1>1, <1>2

-----------------------------------------------------------------------------
(***************************************************************************)
(* The log, the phases and the ranges in the recogniser's steps.           *)
(***************************************************************************)

TimesIn(th) == \A i \in 1 .. evnum : aevents[i].time = InRange(th, aevents[i].hour)

\* The times are hours until the thresholds are there; those of the file rise too.
RangesInv ==
  /\ phase = "read" => \A i \in 1 .. evnum : aevents[i].time = aevents[i].hour
  /\ phase \in {"partition", "train", "test"} =>
       Rising(thresholds.TIME) /\ TimesIn(thresholds.TIME)
  /\ \A f \in file : file = {f} /\ Rising(f.thresholds.TIME)
  /\ phase = "test" /\ mode = "TEST" => file # {} /\ \A f \in file : thresholds = f.thresholds

LEMMA RecognitionStarts ==
  ASSUME Init
  PROVE  LogPart /\ PhaseOK /\ RangesInv
<1>1. /\ LogInit /\ mode \in {"TRAIN", "TEST", "BOTH"} /\ phase = "read" /\ fold = 0 /\ file = {}
  BY RecognitionAssumption DEF Init
<1>2. 0 \in Folds
  BY RecognitionAssumption DEF Folds
<1>3. PhaseOK
  BY <1>1, <1>2 DEF PhaseOK
<1>4. LogPart /\ \A i \in 1 .. evnum : aevents[i].time = aevents[i].hour
  BY <1>1, LogStarts
<1>5. RangesInv
  BY <1>1, <1>4 DEF RangesInv
<1> QED BY <1>3, <1>4, <1>5

\* The steps that neither read nor change the log.
Quiet == Partition \/ Train \/ PassOver \/ updateLikelihood \/ HMMTest \/ NBCTest \/ FoldDone

LEMMA QuietKeeps ==
  ASSUME Quiet
  PROVE  UNCHANGED <<logVars, mode, model, thresholds>>
BY DEF Quiet, Partition, Train, PassOver, updateLikelihood, HMMTest, NBCTest, Predict, FoldDone

LEMMA TimesStayIn ==
  ASSUME NEW th, TimesIn(th), UNCHANGED aevents
  PROVE  TimesIn(th)'
BY DEF TimesIn, evnum, InRange

LEMMA RangedTimes ==
  ASSUME LogTypeOK, NEW th, Rising(th), aevents' = Ranged(th),
         \A i \in 1 .. evnum : aevents[i].time = aevents[i].hour
  PROVE  \A i \in 1 .. evnum' : aevents'[i].time = InRange(th, aevents'[i].hour)
<1>1. evnum' = evnum
  BY RangedProperties DEF evnum
<1> QED BY <1>1, RangedProperties

LEMMA SelectSteps ==
  ASSUME LogPart, PhaseOK, RangesInv, SelectFeatures
  PROVE  LogPart' /\ RangesInv'
<1>0. LogTypeOK /\ LogInv
  BY DEF LogPart, LogInv
<1>1. PICK select \in [{"TIME", "LENGTH"} -> {0, 1}], unread \in {0, 10} :
        /\ thresholds' = [f \in {"TIME", "LENGTH"} |-> Selected(f, select[f], unread)]
        /\ aevents' = Ranged(thresholds'.TIME)
  BY DEF SelectFeatures
<1> DEFINE th == Selected("TIME", select["TIME"], unread)
<1>2. thresholds'.TIME = th
  BY <1>1
<1>3. Rising(th)
  <2>1. unread \in Int
    OBVIOUS
  <2> QED BY <1>0, <2>1, SelectedRises
<1> HIDE DEF th
<1>4. /\ UNCHANGED <<lines, open, current, finished, same, previous, file, mode>>
      /\ phase = "read" /\ phase' \in {"partition", "train"}
  BY DEF SelectFeatures
<1>5. LogPart'
  BY <1>1, <1>2, <1>3, <1>4, RangedLog
<1>6. \A i \in 1 .. evnum' : aevents'[i].time = InRange(th, aevents'[i].hour)
  BY <1>0, <1>1, <1>2, <1>3, <1>4, RangedTimes DEF RangesInv
<1>7. RangesInv'
  <2>1. TimesIn(thresholds.TIME)'
    BY <1>2, <1>6 DEF TimesIn, InRange
  <2>2. Rising(thresholds.TIME)'
    BY <1>2, <1>3 DEF Rising
  <2>3. \A f \in file : file = {f} /\ Rising(f.thresholds.TIME)
    BY DEF RangesInv
  <2> QED BY <1>4, <2>1, <2>2, <2>3 DEF RangesInv
<1> QED BY <1>5, <1>7

LEMMA ReadModelSteps ==
  ASSUME LogPart, PhaseOK, RangesInv, readModel
  PROVE  LogPart' /\ RangesInv'
<1>0. LogTypeOK /\ LogInv
  BY DEF LogPart, LogInv
<1>1. /\ UNCHANGED <<lines, open, current, finished, same, previous, file, mode>>
      /\ phase = "read" /\ mode = "TEST"
  BY DEF readModel
<1>2. \A f \in file : file = {f} /\ Rising(f.thresholds.TIME)
  BY DEF RangesInv
<1>3. CASE file = {}
  <2>1. phase' = "exit" /\ UNCHANGED aevents
    BY <1>3 DEF readModel
  <2>2. LogPart'
    BY <1>1, <2>1, SameLogPart DEF logVars
  <2> QED BY <1>1, <1>2, <2>1, <2>2 DEF RangesInv
<1>4. CASE file # {}
  <2>1. PICK saved \in file : thresholds' = saved.thresholds /\ aevents' = Ranged(saved.thresholds.TIME)
    BY <1>4 DEF readModel
  <2>2. phase' = "test"
    BY <1>4 DEF readModel
  <2> DEFINE th == saved.thresholds.TIME
  <2>3. Rising(th) /\ thresholds'.TIME = th /\ file = {saved}
    BY <1>2, <2>1
  <2>4. aevents' = Ranged(th)
    BY <2>1
  <2> HIDE DEF th
  <2>5. LogPart'
    BY <1>1, <2>3, <2>4, RangedLog
  <2>6. \A i \in 1 .. evnum' : aevents'[i].time = InRange(th, aevents'[i].hour)
    BY <1>0, <1>1, <2>3, <2>4, RangedTimes DEF RangesInv
  <2>7. TimesIn(thresholds.TIME)'
    BY <2>3, <2>6 DEF TimesIn, InRange
  <2>8. Rising(thresholds.TIME)'
    BY <2>3 DEF Rising
  <2>9. \A f \in file' : file' = {f} /\ Rising(f.thresholds.TIME) /\ thresholds' = f.thresholds
    BY <1>1, <1>2, <2>1, <2>3
  <2> QED BY <1>1, <1>4, <2>2, <2>5, <2>7, <2>8, <2>9 DEF RangesInv
<1> QED BY <1>3, <1>4

LEMMA QuietSteps ==
  ASSUME LogPart, PhaseOK, RangesInv, Quiet
  PROVE  LogPart' /\ RangesInv'
<1>1. UNCHANGED <<logVars, mode, model, thresholds>>
  BY QuietKeeps
<1>2. LogPart'
  BY <1>1, SameLogPart
<1>3. /\ phase \in {"partition", "train", "test"}
      /\ phase' \in {"train", "test", "done"} /\ (phase' = "test" /\ mode = "TEST" => phase = "test")
  BY DEF Quiet, Partition, Train, PassOver, updateLikelihood, HMMTest, NBCTest, Predict, FoldDone,
         Testing, PhaseOK
<1>4. Rising(thresholds.TIME) /\ TimesIn(thresholds.TIME)
  BY <1>3 DEF RangesInv
<1>5. Rising(thresholds.TIME)' /\ TimesIn(thresholds.TIME)'
  BY <1>1, <1>4 DEF Rising, TimesIn, evnum, InRange, logVars
<1>6. \/ file' = file
      \/ file' = {[thresholds |-> thresholds, trained |-> trained']} /\ phase' = "done"
  BY DEF Quiet, Partition, Train, PassOver, updateLikelihood, HMMTest, NBCTest, Predict, FoldDone,
         saveModel
<1>7. \A f \in file : file = {f} /\ Rising(f.thresholds.TIME)
  BY DEF RangesInv
<1>8. \A f \in file' : file' = {f} /\ Rising(f.thresholds.TIME)
  BY <1>4, <1>6, <1>7
<1>9. phase' = "test" /\ mode' = "TEST" => file' # {} /\ \A f \in file' : thresholds' = f.thresholds
  BY <1>1, <1>3, <1>6 DEF RangesInv
<1> QED BY <1>2, <1>3, <1>5, <1>8, <1>9 DEF RangesInv

LEMMA RangesNext ==
  ASSUME LogPart, PhaseOK, RangesInv, [Next]_vars
  PROVE  LogPart' /\ RangesInv'
<1>1. CASE UNCHANGED vars
  <2>1. UNCHANGED <<logVars, mode, phase, thresholds, file>>
    BY <1>1 DEF vars
  <2>2. LogPart'
    BY <2>1, SameLogPart
  <2>3. RangesInv'
    BY <2>1 DEF RangesInv, Rising, TimesIn, evnum, InRange, logVars
  <2> QED BY <2>2, <2>3
<1>2. CASE ReadData
  <2>1. ReadLine /\ UNCHANGED <<phase, mode, file, thresholds>> /\ phase = "read"
    BY <1>2 DEF ReadData
  <2>2. LogInv' /\ SameCountsOpen' /\ PreviousInv'
    BY <2>1, LogStep, OpenCountedLine, PreviousLine DEF LogPart
  <2>3. \A i \in 1 .. Len(aevents') : aevents'[i].time = aevents'[i].hour
    BY <2>1, LineHours DEF LogPart, RangesInv
  <2> QED BY <2>1, <2>2, <2>3 DEF LogPart, RangesInv, evnum
<1>3. CASE NextSession
  <2>1. LogInit'
    BY <1>3 DEF NextSession, LogInit
  <2>2. LogPart' /\ \A i \in 1 .. evnum' : aevents'[i].time = aevents'[i].hour
    BY <2>1, LogStartsAgain
  <2>3. phase' = "read" /\ file' = file
    BY <1>3 DEF NextSession, testVars
  <2> QED BY <2>2, <2>3 DEF RangesInv
<1> QED BY <1>1, <1>2, <1>3, SelectSteps, ReadModelSteps, QuietSteps DEF Next, Quiet

LEMMA PhaseNext ==
  ASSUME LogPart, PhaseOK, [Next]_vars
  PROVE  PhaseOK'
<1>0. Total \in Nat
  BY Positions DEF LogPart, LogInv
<1>1. CASE UNCHANGED vars \/ PassOver \/ updateLikelihood \/ HMMTest \/ NBCTest
  <2>1. UNCHANGED <<finished, phase, mode, fold, partition>>
    BY <1>1 DEF vars, logVars, PassOver, updateLikelihood, HMMTest, NBCTest, Predict
  <2>2. Total' = Total
    BY <2>1, SameOccurrences
  <2>3. phase = "test" => num' \in 0 .. Total
    <3>1. UNCHANGED num \/ (num < Total /\ num' = num + 1)
      BY <1>1 DEF vars, testVars, PassOver, updateLikelihood, HMMTest, NBCTest, Predict, Testing
    <3>2. phase = "test" => num \in 0 .. Total
      BY DEF PhaseOK
    <3> QED BY <1>0, <3>1, <3>2
  <2> QED BY <2>1, <2>2, <2>3 DEF PhaseOK
<1>2. CASE ReadData \/ SelectFeatures \/ NextSession
  BY <1>2 DEF ReadData, SelectFeatures, NextSession, PhaseOK
<1>3. CASE Partition
  <2>1. InTurn \in [1 .. Total -> Folds]
    <3>1. ASSUME NEW n \in 1 .. Total PROVE (n - 1) % CROSS_VALIDATION_FOLDS \in Folds
      BY <1>0, RecognitionAssumption DEF Folds
    <3> QED BY <3>1 DEF InTurn
  <2>2. partition' \in [1 .. Total -> Folds] /\ Total' = Total
    BY <1>3, <2>1, SameOccurrences DEF Partition, Partitions, logVars
  <2> QED BY <1>3, <2>2 DEF Partition, PhaseOK
<1>4. CASE Train
  <2>1. /\ UNCHANGED <<finished, mode, fold, partition>> /\ phase = "train"
        /\ num' = 0 /\ phase' = IF mode = "TRAIN" THEN "done" ELSE "test"
    BY <1>4 DEF Train, ToTest, logVars
  <2>2. Total' = Total
    BY <2>1, SameOccurrences
  <2> QED BY <1>0, <2>1, <2>2 DEF PhaseOK
<1>5. CASE readModel
  <2>1. /\ UNCHANGED <<finished, mode, fold, partition>> /\ mode = "TEST"
        /\ \/ phase' = "exit"
           \/ phase' = "test" /\ num' = 0
    <3>1. CASE file = {}
      BY <1>5, <3>1 DEF readModel, logVars
    <3>2. CASE file # {}
      BY <1>5, <3>2 DEF readModel, ToTest, logVars
    <3> QED BY <3>1, <3>2
  <2>2. Total' = Total
    BY <2>1, SameOccurrences
  <2> QED BY <1>0, <2>1, <2>2 DEF PhaseOK
<1>6. CASE FoldDone
  <2>1. /\ UNCHANGED <<finished, mode, partition, num>> /\ phase = "test"
        /\ \/ mode = "BOTH" /\ fold' \in Folds /\ phase' = "train"
           \/ phase' = "done" /\ fold' = fold
    BY <1>6 DEF FoldDone, logVars, testVars
  <2>2. Total' = Total
    BY <2>1, SameOccurrences
  <2> QED BY <2>1, <2>2 DEF PhaseOK
<1> QED BY <1>1, <1>2, <1>3, <1>4, <1>5, <1>6 DEF Next

-----------------------------------------------------------------------------
(***************************************************************************)
(* The tests: each occurrence once.                                        *)
(***************************************************************************)

\* The search for the greatest likelihood ends with an activity, whatever the numbers.
LEMMA GetMaxIsActivity ==
  getMax \in Activities
<1> DEFINE N == numactivities
           b == [max |-> makeLargeNumber(0), activity |-> 0]
           V == [max : {likelihood[i] : i \in Activities} \cup {makeLargeNumber(0)},
                 activity : Activities]
           F == [nv \in (1 .. N) \X V |->
                   IF isGreaterThan(likelihood[nv[1] - 1], nv[2].max)
                   THEN [max |-> likelihood[nv[1] - 1], activity |-> nv[1] - 1] ELSE nv[2]]
           E(f) == [n \in 0 .. N |->
                      IF n = 0 THEN b
                      ELSE IF isGreaterThan(likelihood[n - 1], f[n - 1].max)
                           THEN [max |-> likelihood[n - 1], activity |-> n - 1]
                           ELSE f[n - 1]]
           G == CHOOSE f : f = E(f)
<1>1. N \in Nat /\ N # 0 /\ Activities = 0 .. N - 1
  BY LogAssumption DEF Activities
<1>2. b \in V
  BY <1>1
<1>3. F \in [(1 .. N) \X V -> V]
  <2> SUFFICES ASSUME NEW n \in 1 .. N, NEW v \in V
               PROVE  F[<<n, v>>] \in V
    OBVIOUS
  <2>1. n - 1 \in Activities
    BY <1>1
  <2>2. [max |-> likelihood[n - 1], activity |-> n - 1] \in V
    BY <2>1
  <2>3. F[<<n, v>>] = IF isGreaterThan(likelihood[n - 1], v.max)
                      THEN [max |-> likelihood[n - 1], activity |-> n - 1] ELSE v
    OBVIOUS
  <2> QED BY <2>2, <2>3
<1>4. ASSUME NEW f \in [0 .. N -> V], IsRecursive(f, N, b, F) PROVE f = E(f)
  <2>1. f = [n \in 0 .. N |-> IF n = 0 THEN b ELSE F[<<n, f[n - 1]>>]]
    BY <1>4 DEF IsRecursive
  <2>2. ASSUME NEW n \in 0 .. N, n # 0
        PROVE  F[<<n, f[n - 1]>>] =
                 IF isGreaterThan(likelihood[n - 1], f[n - 1].max)
                 THEN [max |-> likelihood[n - 1], activity |-> n - 1] ELSE f[n - 1]
    <3>1. n \in 1 .. N /\ n - 1 \in 0 .. N
      BY <1>1, <2>2
    <3>2. f[n - 1] \in V
      BY <3>1, <1>4
    <3> QED BY <3>1, <3>2
  <2> HIDE DEF b, F, V
  <2> QED BY <2>1, <2>2
<1>5. \E f \in [0 .. N -> V] : f = E(f)
  <2> HIDE DEF b, F, V, E
  <2> QED BY <1>1, <1>2, <1>3, <1>4, RecursionExists
<1>6. G = E(G)
  <2> HIDE DEF E
  <2> QED BY <1>5
<1>7. ASSUME NEW n \in Nat, n # 0 => (n - 1 <= N => G[n - 1].activity \in Activities)
      PROVE  n <= N => G[n].activity \in Activities
  <2> SUFFICES ASSUME n <= N PROVE G[n].activity \in Activities
    OBVIOUS
  <2>1. n \in 0 .. N
    BY <1>1
  <2>2. G[n] = IF n = 0 THEN b
               ELSE IF isGreaterThan(likelihood[n - 1], G[n - 1].max)
                    THEN [max |-> likelihood[n - 1], activity |-> n - 1]
                    ELSE G[n - 1]
    <3> HIDE DEF G, b
    <3> QED BY <1>6, <2>1
  <2>3. CASE n = 0
    BY <1>1, <2>2, <2>3
  <2>4. CASE n # 0
    <3>1. n - 1 \in Activities /\ G[n - 1].activity \in Activities
      BY <1>1, <1>7, <2>1, <2>4
    <3> HIDE DEF G
    <3> QED BY <2>2, <2>4, <3>1
  <2> QED BY <2>3, <2>4
<1> DEFINE Good == {n \in Nat : n <= N => G[n].activity \in Activities}
<1>8. \A n \in Nat : n \in Good
  <2> HIDE DEF G
  <2>1. \A n \in Nat : (n # 0 => n - 1 \in Good) => n \in Good
    BY <1>7
  <2> HIDE DEF Good
  <2> QED BY <2>1, NatInductionSet
<1>9. getMax = G[N].activity
  BY DEF getMax
<1> QED BY <1>1, <1>8, <1>9

\* The occurrences that have been tested: those of the folds before, and in this one
\* those that the loop has come past.
Tested ==
  {o \in Occurrences :
     \/ phase = "done" /\ mode # "TRAIN"
     \/ /\ phase \in {"train", "test"} /\ mode = "BOTH" /\ CROSS_VALIDATION_FOLDS # 1
        /\ partition[Position(o[1], o[2])] < fold
     \/ phase = "test" /\ Position(o[1], o[2]) <= num /\ Tests(o)}

TestedOf(a) == {o \in Tested : o[1] = a}

TestedInv ==
  /\ freq \in Matrix /\ right \in Nat /\ wrong \in Nat
  /\ \A a \in Activities : RowSum(freq, a) = Cardinality(TestedOf(a))
  /\ right = DiagonalSum(freq)
  /\ right + wrong = Cardinality(Tested)

LEMMA TestedFinite ==
  ASSUME LogTypeOK
  PROVE  /\ IsFiniteSet(Tested) /\ Cardinality(Tested) \in Nat
         /\ \A a : IsFiniteSet(TestedOf(a)) /\ Cardinality(TestedOf(a)) \in Nat
<1>1. IsFiniteSet(Occurrences) /\ Tested \subseteq Occurrences
  BY OccurrencesCounted DEF Tested
<1>2. IsFiniteSet(Tested)
  BY <1>1, FS_Subset
<1>3. \A a : TestedOf(a) \subseteq Tested
  BY DEF TestedOf
<1> QED BY <1>2, <1>3, FS_Subset, FS_CardinalityType

\* A step that predicts nothing leaves the tested occurrences as they are.
LEMMA SameTested ==
  ASSUME TestedInv, Tested' = Tested, UNCHANGED <<freq, right, wrong>>
  PROVE  TestedInv'
<1>1. \A a : TestedOf(a)' = TestedOf(a)
  BY DEF TestedOf
<1>2. DiagonalSum(freq)' = DiagonalSum(freq') /\ \A a : RowSum(freq, a)' = RowSum(freq', a)
  BY Zenon DEF RowSum, DiagonalSum, MapThenSumSet, MapThenFoldSet
<1> QED BY <1>1, <1>2 DEF TestedInv

\* Before the tests, and in a session that only trains, there are none.
LEMMA NoneTested ==
  ASSUME PhaseOK,
         phase \in {"read", "partition", "exit"} \/ mode = "TRAIN"
  PROVE  Tested = {}
BY DEF PhaseOK, Tested

LEMMA TestedStarts ==
  ASSUME Init, PhaseOK
  PROVE  TestedInv
<1>1. Tested = {} /\ \A a : TestedOf(a) = {}
  BY NoneTested DEF Init, TestedOf
<1>2. /\ freq \in Matrix /\ DiagonalSum(freq) = 0
      /\ \A a \in Activities : RowSum(freq, a) = 0
  BY NonePredicted DEF Init
<1>3. Cardinality({}) = 0
  BY FS_EmptySet
<1>4. right = 0 /\ wrong = 0
  BY DEF Init
<1> QED BY <1>1, <1>2, <1>3, <1>4 DEF TestedInv

LEMMA SameTests ==
  ASSUME UNCHANGED <<finished, mode, partition, fold>>
  PROVE  \A o : Tests(o)' = Tests(o)
<1>1. \A a, j : Position(a, j)' = Position(a, j)
  BY SameOccurrences
<1> QED BY <1>1 DEF Tests, InFold

LEMMA NextOccurrence ==
  ASSUME LogTypeOK, PhaseOK, Testing
  PROVE  /\ Next1 \in Occurrences /\ Next1[1] \in Activities
         /\ Position(Next1[1], Next1[2]) = num + 1
         /\ \A o \in Occurrences : Position(o[1], o[2]) = num + 1 => o = Next1
         /\ num \in Nat /\ num + 1 \in 1 .. Total
         /\ \A o \in Occurrences : Position(o[1], o[2]) \in Nat
<1>1. Total \in Nat /\ num \in Nat /\ num + 1 \in 1 .. Total
  BY Positions DEF PhaseOK, Testing
<1>2. Next1 \in Occurrences /\ Position(Next1[1], Next1[2]) = num + 1
  BY <1>1, NthOccurrenceProperties DEF Next1
<1>3. Next1[1] \in Activities
  BY <1>2, OccurrenceElements
<1>4. \A o \in Occurrences : Position(o[1], o[2]) = num + 1 => o = Next1
  <2> SUFFICES ASSUME NEW o \in Occurrences, Position(o[1], o[2]) = num + 1 PROVE o = Next1
    OBVIOUS
  <2>1. Position(o[1], o[2]) = Position(Next1[1], Next1[2])
    BY <1>2
  <2> QED BY <1>2, <2>1, Positions
<1>5. \A o \in Occurrences : Position(o[1], o[2]) \in Nat
  <2>1. \A o \in Occurrences : Position(o[1], o[2]) \in 1 .. Total
    BY Positions
  <2> QED BY <1>1, <2>1
<1> QED BY <1>1, <1>2, <1>3, <1>4, <1>5

LEMMA PredictStep ==
  ASSUME LogTypeOK, PhaseOK, TestedInv, Testing, Tests(Next1),
         NEW class \in Activities, Predict(class)
  PROVE  TestedInv'
<1>0. PICK x, a : x = Next1 /\ a = x[1]
  OBVIOUS
<1>1. /\ x \in Occurrences /\ a \in Activities /\ Position(x[1], x[2]) = num + 1
      /\ \A o \in Occurrences : Position(o[1], o[2]) = num + 1 => o = x
      /\ num \in Nat
      /\ \A o \in Occurrences : Position(o[1], o[2]) \in Nat
  BY <1>0, NextOccurrence
<1>2. /\ UNCHANGED <<finished, phase, mode, partition, fold>> /\ num' = num + 1
      /\ freq' = [freq EXCEPT ![<<a, class>>] = @ + 1]
      /\ a = class => right' = right + 1 /\ wrong' = wrong
      /\ a # class => wrong' = wrong + 1 /\ right' = right
  BY <1>0 DEF Predict, logVars
<1>3. phase = "test" /\ Tests(x)
  BY <1>0 DEF Testing
<1>4. /\ Occurrences' = Occurrences /\ \A b, j : Position(b, j)' = Position(b, j)
      /\ \A o : Tests(o)' = Tests(o)
  BY <1>2, SameOccurrences, SameTests
<1>5. Tested' = Tested \cup {x}
  <2>1. ASSUME NEW o \in Occurrences
        PROVE  Position(o[1], o[2]) <= num + 1 /\ Tests(o)
               <=> (Position(o[1], o[2]) <= num /\ Tests(o)) \/ o = x
    <3>1. Position(o[1], o[2]) \in Nat
      BY <1>1
    <3>2. Position(o[1], o[2]) <= num + 1 <=> Position(o[1], o[2]) <= num \/ Position(o[1], o[2]) = num + 1
      BY <1>1, <3>1
    <3>3. Position(o[1], o[2]) = num + 1 <=> o = x
      BY <1>1
    <3> QED BY <1>3, <3>2, <3>3
  <2> QED BY <1>1, <1>2, <1>3, <1>4, <2>1 DEF Tested
<1>6. x \notin Tested
  <2>1. ~(Position(x[1], x[2]) <= num)
    BY <1>1
  <2>2. mode = "BOTH" /\ CROSS_VALIDATION_FOLDS # 1 => partition[Position(x[1], x[2])] = fold
    BY <1>3 DEF Tests, InFold
  <2>3. ~(fold < fold)
    <3>1. fold \in Int
      BY RecognitionAssumption DEF PhaseOK, Folds
    <3> QED BY <3>1
  <2> QED BY <1>3, <2>1, <2>2, <2>3 DEF Tested
<1>7. /\ TestedOf(a)' = TestedOf(a) \cup {x} /\ x \notin TestedOf(a)
      /\ \A b : b # a => TestedOf(b)' = TestedOf(b)
  BY <1>0, <1>5, <1>6 DEF TestedOf
<1>8. /\ IsFiniteSet(Tested) /\ Cardinality(Tested) \in Nat
      /\ \A b : IsFiniteSet(TestedOf(b)) /\ Cardinality(TestedOf(b)) \in Nat
  BY TestedFinite
<1>9. /\ Cardinality(Tested)' = Cardinality(Tested) + 1
      /\ Cardinality(TestedOf(a))' = Cardinality(TestedOf(a)) + 1
  BY <1>5, <1>6, <1>7, <1>8, FS_AddElement
<1>10. /\ freq \in Matrix /\ right \in Nat /\ wrong \in Nat
       /\ \A b \in Activities : RowSum(freq, b) = Cardinality(TestedOf(b))
       /\ right = DiagonalSum(freq) /\ right + wrong = Cardinality(Tested)
  BY DEF TestedInv
<1>11. /\ freq' \in Matrix
       /\ \A b \in Activities :
            RowSum(freq', b) = IF b = a THEN RowSum(freq, b) + 1 ELSE RowSum(freq, b)
       /\ DiagonalSum(freq') = IF a = class THEN DiagonalSum(freq) + 1 ELSE DiagonalSum(freq)
  <2> DEFINE h == freq
             k == freq'
  <2>1. h \in Matrix /\ a \in Activities /\ class \in Activities
    BY <1>1, <1>10
  <2>2. OneMore(h, k, a, class)
    BY <1>2 DEF OneMore
  <2> HIDE DEF h, k
  <2>3. /\ k \in Matrix
        /\ \A b \in Activities : RowSum(k, b) = IF b = a THEN RowSum(h, b) + 1 ELSE RowSum(h, b)
        /\ DiagonalSum(k) = IF a = class THEN DiagonalSum(h) + 1 ELSE DiagonalSum(h)
    BY <2>1, <2>2, OnePredicted
  <2> QED BY <2>3 DEF h, k
<1>12. DiagonalSum(freq)' = DiagonalSum(freq') /\ \A b : RowSum(freq, b)' = RowSum(freq', b)
  BY Zenon DEF RowSum, DiagonalSum, MapThenSumSet, MapThenFoldSet
<1>13. \A b \in Activities : RowSum(freq', b) = Cardinality(TestedOf(b))'
  BY <1>7, <1>9, <1>10, <1>11
<1>14. /\ right' \in Nat /\ wrong' \in Nat /\ right' = DiagonalSum(freq')
       /\ right' + wrong' = Cardinality(Tested)'
  BY <1>2, <1>8, <1>9, <1>10, <1>11
<1> QED BY <1>11, <1>12, <1>13, <1>14 DEF TestedInv

LEMMA PassOverStep ==
  ASSUME LogTypeOK, PhaseOK, TestedInv, PassOver
  PROVE  TestedInv'
<1>1. /\ Testing /\ ~Tests(Next1) /\ phase = "test"
      /\ UNCHANGED <<finished, phase, mode, partition, fold, freq, right, wrong>> /\ num' = num + 1
  BY DEF PassOver, Testing, logVars
<1>2. /\ Occurrences' = Occurrences /\ \A b, j : Position(b, j)' = Position(b, j)
      /\ \A o : Tests(o)' = Tests(o)
  BY <1>1, SameOccurrences, SameTests
<1>3. ASSUME NEW o \in Occurrences
      PROVE  Position(o[1], o[2]) <= num + 1 /\ Tests(o) <=> Position(o[1], o[2]) <= num /\ Tests(o)
  <2>1. Position(o[1], o[2]) \in Nat /\ num \in Nat
    BY <1>1, NextOccurrence
  <2>2. Position(o[1], o[2]) = num + 1 => ~Tests(o)
    BY <1>1, NextOccurrence
  <2>3. Position(o[1], o[2]) <= num + 1 <=> Position(o[1], o[2]) <= num \/ Position(o[1], o[2]) = num + 1
    BY <2>1
  <2> QED BY <2>2, <2>3
<1>4. Tested' = Tested
  BY <1>1, <1>2, <1>3 DEF Tested
<1> QED BY <1>1, <1>4, SameTested

\* A fold that is done joins the ones before.
LEMMA FoldDoneStep ==
  ASSUME LogTypeOK, PhaseOK, TestedInv, FoldDone
  PROVE  TestedInv'
<1>1. /\ phase = "test" /\ num = Total /\ mode \in {"TEST", "BOTH"}
      /\ UNCHANGED <<finished, mode, partition, num, freq, right, wrong>>
  BY DEF FoldDone, PhaseOK, logVars, testVars
<1>2. /\ Occurrences' = Occurrences /\ \A b, j : Position(b, j)' = Position(b, j)
  BY <1>1, SameOccurrences
<1>3. CROSS_VALIDATION_FOLDS \in Nat \ {0} /\ Folds = 0 .. CROSS_VALIDATION_FOLDS - 1 /\ fold \in Folds
  BY RecognitionAssumption DEF Folds, PhaseOK
<1>4. \A o \in Occurrences : Position(o[1], o[2]) \in 1 .. Total /\ Position(o[1], o[2]) <= num
  <2>1. Total \in Nat /\ \A o \in Occurrences : Position(o[1], o[2]) \in 1 .. Total
    BY Positions
  <2> QED BY <1>1, <2>1
<1>5. \A o \in Occurrences : mode = "BOTH" => partition[Position(o[1], o[2])] \in Folds
  BY <1>1, <1>4 DEF PhaseOK
<1>6. CASE mode = "BOTH" /\ fold + 1 \in Folds
  <2>1. fold' = fold + 1 /\ phase' = "train"
    BY <1>6 DEF FoldDone
  <2>2. CROSS_VALIDATION_FOLDS # 1
    BY <1>3, <1>6
  <2>3. ASSUME NEW o \in Occurrences
        PROVE  partition[Position(o[1], o[2])] < fold + 1 <=>
                 partition[Position(o[1], o[2])] < fold \/ Tests(o)
    <3>1. Tests(o) <=> partition[Position(o[1], o[2])] = fold
      BY <1>6, <2>2 DEF Tests, InFold
    <3>2. partition[Position(o[1], o[2])] \in Int /\ fold \in Int
      BY <1>3, <1>5, <1>6
    <3> QED BY <3>1, <3>2
  <2>4. Tested' = Tested
    BY <1>1, <1>2, <1>4, <1>6, <2>1, <2>2, <2>3 DEF Tested
  <2> QED BY <1>1, <2>4, SameTested
<1>7. CASE ~(mode = "BOTH" /\ fold + 1 \in Folds)
  <2>1. fold' = fold /\ phase' = "done"
    BY <1>7 DEF FoldDone
  <2>2. ASSUME NEW o \in Occurrences
        PROVE  \/ mode = "BOTH" /\ CROSS_VALIDATION_FOLDS # 1 /\ partition[Position(o[1], o[2])] < fold
               \/ Tests(o)
    <3>1. CASE mode = "TEST" \/ CROSS_VALIDATION_FOLDS = 1
      BY <3>1 DEF Tests
    <3>2. CASE mode = "BOTH" /\ CROSS_VALIDATION_FOLDS # 1
      <4>1. fold = CROSS_VALIDATION_FOLDS - 1
        BY <1>3, <1>7, <3>2
      <4>2. partition[Position(o[1], o[2])] < fold \/ partition[Position(o[1], o[2])] = fold
        BY <1>3, <1>5, <3>2, <4>1
      <4> QED BY <3>2, <4>2 DEF Tests, InFold
    <3> QED BY <1>1, <3>1, <3>2
  <2>3. Tested = Occurrences
    BY <1>1, <1>4, <2>2 DEF Tested
  <2>4. Tested' = Occurrences
    BY <1>1, <1>2, <2>1 DEF Tested
  <2> QED BY <1>1, <2>3, <2>4, SameTested
<1> QED BY <1>6, <1>7

LEMMA TestedNext ==
  ASSUME LogTypeOK, PhaseOK, PhaseOK', TestedInv, [Next]_vars
  PROVE  TestedInv'
<1>1. CASE UNCHANGED vars \/ updateLikelihood
  <2>1. UNCHANGED <<finished, phase, mode, partition, fold, num, freq, right, wrong>>
    BY <1>1 DEF vars, logVars, testVars, updateLikelihood
  <2>2. /\ Occurrences' = Occurrences /\ \A b, j : Position(b, j)' = Position(b, j)
        /\ \A o : Tests(o)' = Tests(o)
    BY <2>1, SameOccurrences, SameTests
  <2>3. Tested' = Tested
    BY <2>1, <2>2 DEF Tested
  <2> QED BY <2>1, <2>3, SameTested
<1>2. CASE ReadData \/ SelectFeatures \/ Partition \/ readModel \/ NextSession
  <2>1. UNCHANGED <<freq, right, wrong>> /\ Tested = {}
    BY <1>2, NoneTested
       DEF ReadData, SelectFeatures, Partition, readModel, NextSession, testVars
  <2>2. \/ phase' \in {"read", "partition", "exit"} \/ mode' = "TRAIN"
        \/ Partition
        \/ readModel /\ phase' = "test" /\ mode' = "TEST" /\ num' = 0
    <3>1. CASE readModel
      <4>1. CASE file = {}
        BY <3>1, <4>1 DEF readModel
      <4>2. CASE file # {}
        BY <3>1, <4>2 DEF readModel, ToTest
      <4> QED BY <3>1, <4>1, <4>2
    <3>2. CASE SelectFeatures
      BY <3>2 DEF SelectFeatures, PhaseOK
    <3> QED BY <1>2, <3>1, <3>2 DEF ReadData, NextSession
  <2>3. Tested' = {}
    <3>1. CASE phase' \in {"read", "partition", "exit"} \/ mode' = "TRAIN"
      BY <3>1 DEF Tested, PhaseOK
    <3>2. CASE Partition
      <4>1. /\ UNCHANGED <<finished, mode, fold>> /\ phase' = "train" /\ fold = 0
            /\ (mode = "BOTH" => partition' \in [1 .. Total' -> Folds])
        BY <3>2 DEF Partition, PhaseOK, logVars
      <4>2. /\ Occurrences' = Occurrences /\ \A b, j : Position(b, j)' = Position(b, j)
            /\ Total' = Total
        BY <4>1, SameOccurrences
      <4>3. ASSUME NEW o \in Occurrences, mode = "BOTH"
            PROVE  ~(partition'[Position(o[1], o[2])] < 0)
        <5>1. partition'[Position(o[1], o[2])] \in Folds
          BY <4>1, <4>2, <4>3, Positions
        <5> QED BY <5>1, RecognitionAssumption DEF Folds
      <4> QED BY <4>1, <4>2, <4>3 DEF Tested
    <3>3. CASE readModel /\ phase' = "test" /\ mode' = "TEST" /\ num' = 0
      <4>1. UNCHANGED finished
        BY <3>3 DEF readModel
      <4>2. /\ Occurrences' = Occurrences /\ \A b, j : Position(b, j)' = Position(b, j)
        BY <4>1, SameOccurrences
      <4>3. \A o \in Occurrences : ~(Position(o[1], o[2]) <= 0)
        <5>1. Total \in Nat /\ \A o \in Occurrences : Position(o[1], o[2]) \in 1 .. Total
          BY Positions
        <5> QED BY <5>1
      <4> QED BY <3>3, <4>2, <4>3 DEF Tested
    <3> QED BY <2>2, <3>1, <3>2, <3>3
  <2> QED BY <2>1, <2>3, SameTested
<1>3. CASE Train
  <2>1. /\ UNCHANGED <<finished, mode, partition, fold, freq, right, wrong>> /\ phase = "train"
        /\ num' = 0
        /\ phase' = IF mode = "TRAIN" THEN "done" ELSE "test"
    BY <1>3 DEF Train, ToTest, logVars
  <2>2. /\ Occurrences' = Occurrences /\ \A b, j : Position(b, j)' = Position(b, j)
    BY <2>1, SameOccurrences
  <2>3. \A o \in Occurrences : ~(Position(o[1], o[2]) <= 0)
    <3>1. Total \in Nat /\ \A o \in Occurrences : Position(o[1], o[2]) \in 1 .. Total
      BY Positions
    <3> QED BY <3>1
  <2>4. Tested' = Tested
    BY <2>1, <2>2, <2>3 DEF Tested
  <2> QED BY <2>1, <2>4, SameTested
<1>4. CASE HMMTest
  BY <1>4, GetMaxIsActivity, PredictStep DEF HMMTest
<1>5. CASE NBCTest
  BY <1>5, PredictStep DEF NBCTest
<1> QED BY <1>1, <1>2, <1>3, <1>4, <1>5, PassOverStep, FoldDoneStep DEF Next

-----------------------------------------------------------------------------
(***************************************************************************)
(* Training: an event trains its activity with the occurrence it was added *)
(* to, so the counts of a fold are those of the events of the other folds. *)
(***************************************************************************)

\* Pairs that are determined by their second element.
LEMMA ProjectedCount ==
  ASSUME NEW E, NEW I, IsFiniteSet(I), NEW g,
         \A e \in E : e = <<g[e[2]], e[2]>> /\ e[2] \in I,
         \A i \in I : <<g[i], i>> \in E
  PROVE  Cardinality(E) = Cardinality(I)
<1> DEFINE f == [i \in I |-> <<g[i], i>>]
<1>1. f \in [I -> E] /\ \A i \in I : f[i] = <<g[i], i>>
  OBVIOUS
<1> HIDE DEF f
<1>2. \A i, k \in I : f[i] = f[k] => i = k
  BY <1>1
<1>3. \A e \in E : \E i \in I : f[i] = e
  BY <1>1
<1>4. f \in Bijection(I, E)
  BY <1>1, <1>2, <1>3, Fun_IsBij
<1> QED BY <1>4, FS_Bijection DEF ExistsBijection

\* The occurrence an event was added to.
OccurrenceOf == [i \in 1 .. evnum |-> aevents[i].occurrence]

LEMMA EventElements ==
  ASSUME LogTypeOK, NEW i \in 1 .. evnum
  PROVE  /\ aevents[i].label \in Activities /\ aevents[i].occurrence \in Nat \ {0}
         /\ aevents[i].time \in Int /\ aevents[i].hour \in Int
<1>1. aevents[i] \in Event
  BY LenProperties, ElementOfSeq DEF LogTypeOK, evnum
<1> QED BY <1>1 DEF Event

\* The events that the loops of the training visit.
LEMMA TrainingEventsAre ==
  ASSUME LogInv, mode = "BOTH", NEW a \in Activities
  PROVE  \A e : e \in TrainingEvents(a) <=>
                  /\ e = <<e[1], e[2]>> /\ e[1] \in 1 .. afreq(a) /\ ~InFold(a, e[1])
                  /\ e[2] \in Added(a, e[1])
<1> DEFINE Of(j) == IF finished[a][j].length = 0 THEN {} ELSE Visited(a, finished[a][j])
<1>1. ASSUME NEW j \in 1 .. afreq(a) PROVE Of(j) = Added(a, j)
  <2>1. /\ finished[a][j].length = Cardinality(Added(a, j))
        /\ finished[a][j].length > 0 => Visited(a, finished[a][j]) = Added(a, j)
    BY ApartMeans DEF OccurrenceIsItsEvents
  <2>2. Added(a, j) \in SUBSET (1 .. evnum) /\ IsFiniteSet(1 .. evnum)
    <3>1. evnum \in Nat
      BY LenProperties DEF LogInv, LogTypeOK, evnum
    <3> QED BY <3>1, FS_Interval DEF Added
  <2>3. IsFiniteSet(Added(a, j)) /\ Cardinality(Added(a, j)) \in Nat
    BY <2>2, FS_Subset, FS_CardinalityType
  <2>4. Cardinality(Added(a, j)) = 0 => Added(a, j) = {}
    BY <2>3, FS_EmptySet
  <2> QED BY <2>1, <2>3, <2>4
<1>2. TrainingEvents(a) =
        UNION {{<<o[2], i>> : i \in Of(o[2])} : o \in {x \in TrainingSet : x[1] = a}}
  BY DEF TrainingEvents
<1> HIDE DEF Of
<1>3. \A o : o \in TrainingSet /\ o[1] = a <=>
               o = <<a, o[2]>> /\ o[2] \in 1 .. afreq(a) /\ ~InFold(a, o[2])
  <2>1. LogTypeOK
    BY DEF LogInv
  <2>2. ASSUME NEW o, o \in TrainingSet, o[1] = a
        PROVE  o = <<a, o[2]>> /\ o[2] \in 1 .. afreq(a) /\ ~InFold(a, o[2])
    BY <2>1, <2>2, OccurrenceElements DEF TrainingSet
  <2>3. ASSUME NEW j \in 1 .. afreq(a), ~InFold(a, j) PROVE <<a, j>> \in TrainingSet
    BY <2>1, <2>3, OccurrenceElements DEF TrainingSet
  <2> QED BY <2>2, <2>3
<1>4. \A e : e \in TrainingEvents(a) <=>
               \E j \in 1 .. afreq(a) : ~InFold(a, j) /\ \E i \in Of(j) : e = <<j, i>>
  <2>1. ASSUME NEW e, e \in TrainingEvents(a)
        PROVE  \E j \in 1 .. afreq(a) : ~InFold(a, j) /\ \E i \in Of(j) : e = <<j, i>>
    <3>1. PICK o \in {x \in TrainingSet : x[1] = a} : e \in {<<o[2], i>> : i \in Of(o[2])}
      BY <1>2, <2>1
    <3> QED BY <1>3, <3>1
  <2>2. ASSUME NEW j \in 1 .. afreq(a), ~InFold(a, j), NEW i \in Of(j)
        PROVE  <<j, i>> \in TrainingEvents(a)
    <3>1. <<a, j>> \in {x \in TrainingSet : x[1] = a}
      BY <1>3, <2>2
    <3> QED BY <1>2, <3>1
  <2> QED BY <2>1, <2>2
<1> QED BY <1>1, <1>4

LEMMA OthersAre ==
  ASSUME LogInv, PhaseOK, mode = "BOTH", phase \in {"train", "test"},
         CROSS_VALIDATION_FOLDS # 1, NEW a \in Activities
  PROVE  \A i : i \in OfOtherFolds(a) <=>
                  /\ i \in 1 .. evnum /\ aevents[i].label = a
                  /\ OccurrenceOf[i] = aevents[i].occurrence
                  /\ OccurrenceOf[i] \in 1 .. afreq(a) /\ ~InFold(a, OccurrenceOf[i])
<1>1. LogTypeOK
  BY DEF LogInv
<1>2. Folds = 0 .. CROSS_VALIDATION_FOLDS - 1 /\ CROSS_VALIDATION_FOLDS \in Nat
  BY RecognitionAssumption DEF Folds
<1>3. afreq(a) \in Nat
  BY <1>1, BeforeProperties
<1>4. ASSUME NEW i \in 1 .. evnum, aevents[i].label = a
      PROVE  FoldOf(i) \in Folds \ {fold} <=>
               aevents[i].occurrence \in 1 .. afreq(a) /\ ~InFold(a, aevents[i].occurrence)
  <2> DEFINE j == aevents[i].occurrence
  <2>1. j \in Nat \ {0}
    BY <1>1, EventElements
  <2>2. CASE j <= afreq(a)
    <3>1. j \in 1 .. afreq(a)
      BY <1>3, <2>1, <2>2
    <3>2. <<a, j>> \in Occurrences /\ Position(a, j) \in 1 .. Total
      <4>1. <<a, j>> \in Occurrences
        BY <1>1, <3>1, OccurrenceElements
      <4>2. <<a, j>>[1] = a /\ <<a, j>>[2] = j
        OBVIOUS
      <4> HIDE DEF j
      <4> QED BY <1>1, <4>1, <4>2, Positions
    <3>3. partition[Position(a, j)] \in Folds
      BY <3>2 DEF PhaseOK
    <3>4. FoldOf(i) = partition[Position(a, j)]
      BY <1>4, <2>2 DEF FoldOf
    <3> QED BY <3>1, <3>3, <3>4 DEF InFold
  <2>3. CASE ~(j <= afreq(a))
    <3>1. FoldOf(i) = CROSS_VALIDATION_FOLDS
      BY <1>4, <2>3 DEF FoldOf
    <3>2. CROSS_VALIDATION_FOLDS \notin Folds
      BY <1>2
    <3> QED BY <1>3, <2>1, <2>3, <3>1, <3>2
  <2> QED BY <2>2, <2>3
<1>5. \A i \in 1 .. evnum : OccurrenceOf[i] = aevents[i].occurrence
  BY DEF OccurrenceOf
<1> QED BY <1>4, <1>5 DEF OfOtherFolds

\* What the training counts (calculateEvidence in ar.c; NBCTrain in nb.c).
LEMMA CountedIsOthers ==
  ASSUME LogInv, PhaseOK, RangesInv, mode = "BOTH", phase = "train",
         CROSS_VALIDATION_FOLDS # 1, NEW a \in Activities
  PROVE  /\ Counted.stotal[a] = Cardinality(OfOtherFolds(a))
         /\ \A v \in FeatureValues.TIME :
              Counted.evidence[a].TIME[v] =
                Cardinality({i \in OfOtherFolds(a) : InRange(thresholds.TIME, aevents[i].hour) = v})
<1> DEFINE E == TrainingEvents(a)
           I == OfOtherFolds(a)
           g == OccurrenceOf
<1>1. \A e : e \in E <=> /\ e = <<e[1], e[2]>> /\ e[1] \in 1 .. afreq(a) /\ ~InFold(a, e[1])
                         /\ e[2] \in Added(a, e[1])
  BY TrainingEventsAre
<1>2. \A i : i \in I <=> /\ i \in 1 .. evnum /\ aevents[i].label = a
                         /\ g[i] = aevents[i].occurrence
                         /\ g[i] \in 1 .. afreq(a) /\ ~InFold(a, g[i])
  BY OthersAre
<1>3. \A i \in 1 .. evnum : g[i] = aevents[i].occurrence
  BY DEF OccurrenceOf
<1>4. \A i, j : i \in Added(a, j) <=> i \in 1 .. evnum /\ aevents[i].label = a /\ aevents[i].occurrence = j
  BY DEF Added
<1>5. I \in SUBSET (1 .. evnum) /\ IsFiniteSet(1 .. evnum)
  <2>1. evnum \in Nat
    BY LenProperties DEF LogInv, LogTypeOK, evnum
  <2> QED BY <1>2, <2>1, FS_Interval
<1>6. TimesIn(thresholds.TIME)
  BY DEF RangesInv
<1>7. Counted.stotal[a] = Cardinality(E)
  BY DEF Counted
<1>8. \A v \in FeatureValues.TIME :
        Counted.evidence[a].TIME[v] = Cardinality({e \in E : aevents[e[2]].time = v})
  <2>1. \A v \in FeatureValues.TIME :
          calculateEvidence(a).TIME[v] = Cardinality({e \in E : aevents[e[2]].time = v})
    <3>1. "TIME" \in DOMAIN FeatureValues
      BY DEF FeatureValues
    <3>2. \A j, i : calculateState(a, j, i)["TIME"] = aevents[i].time
      BY DEF calculateState
    <3> HIDE DEF E
    <3>3. ASSUME NEW v \in FeatureValues["TIME"]
          PROVE  calculateEvidence(a)["TIME"][v] = Cardinality({e \in E : aevents[e[2]].time = v})
      <4>1. calculateEvidence(a)["TIME"][v]
              = Cardinality({e \in E : calculateState(a, e[1], e[2])["TIME"] = v})
        BY <3>1 DEF calculateEvidence, E
      <4>2. {e \in E : calculateState(a, e[1], e[2])["TIME"] = v} = {e \in E : aevents[e[2]].time = v}
        BY <3>2
      <4> QED BY <4>1, <4>2
    <3> QED BY <3>3
  <2>2. Counted.evidence[a] = calculateEvidence(a)
    BY DEF Counted
  <2> QED BY <2>1, <2>2
<1> HIDE DEF E, I, g
<1>9. \A e \in E : e = <<g[e[2]], e[2]>> /\ e[2] \in I
  BY <1>1, <1>2, <1>3, <1>4
<1>10. \A i \in I : <<g[i], i>> \in E
  <2> SUFFICES ASSUME NEW i \in I PROVE <<g[i], i>> \in E
    OBVIOUS
  <2> DEFINE e == <<g[i], i>>
  <2>1. e[1] = g[i] /\ e[2] = i /\ e = <<e[1], e[2]>>
    OBVIOUS
  <2>2. g[i] \in 1 .. afreq(a) /\ ~InFold(a, g[i]) /\ i \in Added(a, g[i])
    BY <1>2, <1>4
  <2> HIDE DEF e
  <2>3. e \in E
    BY <1>1, <2>1, <2>2
  <2> QED BY <2>3 DEF e
<1>11. Cardinality(E) = Cardinality(I)
  <2>1. IsFiniteSet(I)
    BY <1>5, FS_Subset
  <2> QED BY <1>9, <1>10, <2>1, ProjectedCount
<1>12. ASSUME NEW v \in FeatureValues.TIME
       PROVE  Cardinality({e \in E : aevents[e[2]].time = v})
              = Cardinality({i \in I : InRange(thresholds.TIME, aevents[i].hour) = v})
  <2> DEFINE Ev == {e \in E : aevents[e[2]].time = v}
             Iv == {i \in I : InRange(thresholds.TIME, aevents[i].hour) = v}
  <2>1. \A i \in I : aevents[i].time = InRange(thresholds.TIME, aevents[i].hour)
    BY <1>5, <1>6 DEF TimesIn
  <2>2. IsFiniteSet(Iv)
    <3>1. Iv \in SUBSET (1 .. evnum)
      BY <1>5
    <3> HIDE DEF Iv
    <3> QED BY <1>5, <3>1, FS_Subset
  <2>3. \A e \in Ev : e = <<g[e[2]], e[2]>> /\ e[2] \in Iv
    BY <1>9, <2>1
  <2>4. \A i \in Iv : <<g[i], i>> \in Ev
    BY <1>10, <2>1
  <2> HIDE DEF Ev, Iv
  <2>5. Cardinality(Ev) = Cardinality(Iv)
    BY <2>2, <2>3, <2>4, ProjectedCount
  <2> QED BY <2>5 DEF Ev, Iv
<1> QED BY <1>7, <1>8, <1>11, <1>12 DEF I

LEMMA SameOthers ==
  ASSUME UNCHANGED <<aevents, finished, partition, fold, thresholds>>
  PROVE  \A a : /\ OfOtherFolds(a)' = OfOtherFolds(a)
                /\ \A v : {i \in OfOtherFolds(a) : InRange(thresholds.TIME, aevents[i].hour) = v}'
                          = {i \in OfOtherFolds(a) : InRange(thresholds.TIME, aevents[i].hour) = v}
<1>1. /\ \A a : afreq(a)' = afreq(a)
      /\ \A a, j : Position(a, j)' = Position(a, j)
  BY SameOccurrences
<1>2. \A i : FoldOf(i)' = FoldOf(i)
  BY <1>1 DEF FoldOf
<1>3. \A a : OfOtherFolds(a)' = OfOtherFolds(a)
  BY <1>2 DEF OfOtherFolds, evnum
<1> QED BY <1>3 DEF InRange

LEMMA TrainedNext ==
  ASSUME LogInv, PhaseOK, RangesInv, TrainedOnOthers, [Next]_vars
  PROVE  TrainedOnOthers'
<1> SUFFICES ASSUME phase' = "test", mode' = "BOTH", CROSS_VALIDATION_FOLDS # 1,
                    NEW a \in Activities
             PROVE  /\ trained'.stotal[a] = Cardinality(OfOtherFolds(a))'
                    /\ \A v \in FeatureValues.TIME :
                         trained'.evidence[a].TIME[v] =
                           Cardinality({i \in OfOtherFolds(a) :
                                          InRange(thresholds.TIME, aevents[i].hour) = v})'
  BY DEF TrainedOnOthers
<1>1. CASE Train
  <2>1. /\ trained' = Counted /\ UNCHANGED <<aevents, finished, partition, fold, thresholds, mode>>
        /\ phase = "train"
    BY <1>1 DEF Train, logVars
  <2>2. /\ Counted.stotal[a] = Cardinality(OfOtherFolds(a))
        /\ \A v \in FeatureValues.TIME :
             Counted.evidence[a].TIME[v] =
               Cardinality({i \in OfOtherFolds(a) : InRange(thresholds.TIME, aevents[i].hour) = v})
    BY <2>1, CountedIsOthers
  <2> QED BY <2>1, <2>2, SameOthers
<1>2. CASE UNCHANGED <<logVars, mode, phase, partition, fold, thresholds, trained>>
  <2>1. UNCHANGED <<aevents, finished, partition, fold, thresholds, mode, phase, trained>>
    BY <1>2 DEF logVars
  <2>2. /\ trained.stotal[a] = Cardinality(OfOtherFolds(a))
        /\ \A v \in FeatureValues.TIME :
             trained.evidence[a].TIME[v] =
               Cardinality({i \in OfOtherFolds(a) : InRange(thresholds.TIME, aevents[i].hour) = v})
    BY <2>1 DEF TrainedOnOthers
  <2> QED BY <2>1, <2>2, SameOthers
<1>3. CASE UNCHANGED vars \/ PassOver \/ updateLikelihood \/ HMMTest \/ NBCTest
  BY <1>2, <1>3 DEF vars, PassOver, updateLikelihood, HMMTest, NBCTest, Predict
<1>4. ~(ReadData \/ SelectFeatures \/ Partition \/ readModel \/ FoldDone \/ NextSession)
  BY DEF ReadData, SelectFeatures, Partition, readModel, FoldDone, NextSession
<1> QED BY <1>1, <1>3, <1>4 DEF Next

-----------------------------------------------------------------------------
(***************************************************************************)
(* The theorems.                                                           *)
(***************************************************************************)

RecognitionInv ==
  /\ LogPart /\ PhaseOK /\ RangesInv
  /\ TrainedOnOthers
  /\ TestedInv

\* The inductive invariant: the log with its occurrences apart, whichever session reads
\* it; the thresholds rise and the times are ranges of them; the counts are those of the
\* other folds; the matrix adds up to the occurrences tested so far.
THEOREM RecognitionInvariant == Spec => []RecognitionInv
<1>1. Init => RecognitionInv
  <2> SUFFICES ASSUME Init PROVE RecognitionInv
    OBVIOUS
  <2>1. LogPart /\ PhaseOK /\ RangesInv
    BY RecognitionStarts
  <2>2. TrainedOnOthers
    BY DEF Init, TrainedOnOthers
  <2>3. TestedInv
    BY <2>1, TestedStarts
  <2> QED BY <2>1, <2>2, <2>3 DEF RecognitionInv
<1>2. RecognitionInv /\ [Next]_vars => RecognitionInv'
  <2> SUFFICES ASSUME RecognitionInv, [Next]_vars PROVE RecognitionInv'
    OBVIOUS
  <2>1. LogPart /\ PhaseOK /\ RangesInv /\ TrainedOnOthers /\ TestedInv
    BY DEF RecognitionInv
  <2>2. LogInv /\ LogTypeOK
    BY <2>1 DEF LogPart, LogInv
  <2>3. LogPart' /\ RangesInv'
    BY <2>1, RangesNext
  <2>4. PhaseOK'
    BY <2>1, PhaseNext
  <2>5. TrainedOnOthers'
    BY <2>1, <2>2, TrainedNext
  <2>6. TestedInv'
    BY <2>1, <2>2, <2>4, TestedNext
  <2> QED BY <2>3, <2>4, <2>5, <2>6 DEF RecognitionInv
<1> QED BY <1>1, <1>2, PTL DEF Spec

\* A test compares the times with counts made in the same ranges, in the session that
\* trained and in one that read the model file (SelectFeatures and readModel in ar.c):
\* the thresholds rise, so the loop that stops at the first one not exceeded counts those
\* that are.
THEOREM SameRangesTested == Spec => []RangesOfTraining
<1>1. RecognitionInv => RangesOfTraining
  <2> SUFFICES ASSUME RecognitionInv, phase = "test", NEW i \in 1 .. evnum
               PROVE  aevents[i].time =
                        InRange((IF mode = "TEST" THEN (CHOOSE f \in file : TRUE).thresholds
                                 ELSE thresholds).TIME, aevents[i].hour)
    BY DEF RangesOfTraining
  <2>1. aevents[i].time = InRange(thresholds.TIME, aevents[i].hour)
    BY DEF RecognitionInv, RangesInv, TimesIn
  <2>2. mode = "TEST" => (CHOOSE f \in file : TRUE).thresholds = thresholds
    BY DEF RecognitionInv, RangesInv
  <2> QED BY <2>1, <2>2
<1> QED BY <1>1, RecognitionInvariant, PTL

\* Cross validation tests a fold with the counts of exactly the other folds' events
\* (training in ar.c, with NBCTrain in nb.c), for every partition and every log.
THEOREM TestedApartFromTraining == Spec => []TrainedOnOthers
<1>1. RecognitionInv => TrainedOnOthers
  BY DEF RecognitionInv
<1> QED BY <1>1, RecognitionInvariant, PTL

\* The printed matrix has each occurrence once, in the row of its activity, and right and
\* wrong are its diagonal and the rest (testing in ar.c): over all the folds.
THEOREM MatrixAddsUp == Spec => []EachTestedOnce
<1>1. RecognitionInv => EachTestedOnce
  <2> SUFFICES ASSUME RecognitionInv, phase = "done", mode # "TRAIN"
               PROVE  /\ \A a \in Activities :
                           MapThenSumSet(LAMBDA b : freq[<<a, b>>], Activities) = afreq(a)
                      /\ right = MapThenSumSet(LAMBDA a : freq[<<a, a>>], Activities)
                      /\ right + wrong = Total
    BY DEF EachTestedOnce
  <2>1. LogTypeOK /\ TestedInv
    BY DEF RecognitionInv, LogPart, LogInv
  <2>2. Tested = Occurrences
    BY DEF Tested
  <2>3. /\ Cardinality(Tested) = Total
        /\ \A a \in Activities : Cardinality(TestedOf(a)) = afreq(a)
    BY <2>1, <2>2, OccurrencesCounted DEF TestedOf
  <2>4. \A a \in Activities : RowSum(freq, a) = afreq(a)
    BY <2>1, <2>3 DEF TestedInv
  <2>5. right = DiagonalSum(freq) /\ right + wrong = Total
    BY <2>1, <2>3 DEF TestedInv
  <2>6. \A a \in Activities : MapThenSumSet(LAMBDA b : freq[<<a, b>>], Activities) = afreq(a)
    BY <2>4, Zenon DEF RowSum
  <2>7. right = MapThenSumSet(LAMBDA a : freq[<<a, a>>], Activities)
    BY <2>5, Zenon DEF DiagonalSum
  <2> QED BY <2>5, <2>6, <2>7
<1> QED BY <1>1, RecognitionInvariant, PTL

\* The loops of the training and of the tests over an occurrence (NBCTrain and NBCTest in
\* nb.c, HMMTrain and HMMTest in hmm.c) visit the events that were added to it by
\* AddActivity, and no other, in every log and in either session.
THEOREM OccurrencesKeptApart == Spec => []OccurrenceIsItsEvents
<1>1. RecognitionInv => OccurrenceIsItsEvents
  BY ApartMeans DEF RecognitionInv, LogPart
<1> QED BY <1>1, RecognitionInvariant, PTL

\* The count goes up when an activity opens and down when it closes (ReadData in ar.c).
THEOREM OpenAreCounted == Spec => []SameCountsOpen
<1>1. RecognitionInv => SameCountsOpen
  BY DEF RecognitionInv, LogPart
<1> QED BY <1>1, RecognitionInvariant, PTL

\* The transition that the training counts (HMMTrain in hmm.c) is from an activity that
\* had finished before the occurrence began: the previous activity changes only when an
\* occurrence is complete, because the open ones are counted right (ReadData in ar.c).
THEOREM PreviousFinished == Spec => []PreviousHadFinished
<1>1. RecognitionInv => PreviousHadFinished
  BY PreviousInvMeans DEF RecognitionInv, LogPart
<1> QED BY <1>1, RecognitionInvariant, PTL
=============================================================================
