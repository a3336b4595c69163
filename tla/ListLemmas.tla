----------------------------- MODULE ListLemmas -----------------------------
(***************************************************************************)
(* Facts about the operators the models are built from: least elements,    *)
(* the vectors and queues of the code as sequences, sums, and functions    *)
(* defined from their value one before.                                    *)
(***************************************************************************)
EXTENDS Integers, FiniteSetsExt, SequencesExt, FiniteSetTheorems,
        SequenceTheorems, TLAPS

\* The least-number principle, from the library's theorem that strict inclusion
\* is well founded on finite sets: of the sets 0 .. n, take a minimal one.
LEMMA LeastNat ==
  ASSUME NEW S, S \subseteq Nat, S # {}
  PROVE  Min(S) \in S /\ \A n \in S : Min(S) <= n
<1> DEFINE Below == {0 .. n : n \in S}
<1>1. Below \subseteq FiniteSubsetsOf(Nat) /\ Below # {}
  <2>1. ASSUME NEW n \in S PROVE 0 .. n \in FiniteSubsetsOf(Nat)
    BY FS_Interval DEF FiniteSubsetsOf
  <2> QED BY <2>1
<1>2. PICK X \in Below : \A Y \in Below : ~(<<Y, X>> \in StrictSubsetOrdering(Nat))
  <2> HIDE DEF Below
  <2> QED BY <1>1, FS_StrictSubsetOrderingWellFounded, WFMin
<1>3. PICK x \in S : X = 0 .. x
  BY <1>2
<1>4. ASSUME NEW y \in S PROVE x <= y
  <2> SUFFICES ASSUME y < x PROVE FALSE
    OBVIOUS
  <2>1. (0 .. y) \subseteq (0 .. x) /\ (0 .. y) # (0 .. x)
    <3>1. x \in 0 .. x /\ x \notin 0 .. y
      OBVIOUS
    <3> QED BY <3>1
  <2>2. 0 .. y \in Below /\ 0 .. x \in Below
    OBVIOUS
  <2> HIDE DEF Below
  <2>3. <<0 .. y, X>> \in StrictSubsetOrdering(Nat)
    BY <1>1, <1>3, <2>1, <2>2 DEF StrictSubsetOrdering, FiniteSubsetsOf
  <2> QED BY <1>2, <2>2, <2>3
<1> QED
  BY <1>4 DEF Min

\* A finite set of integers has a least and a greatest element.
LEMMA Extremes ==
  ASSUME NEW S, IsFiniteSet(S), S \subseteq Int, S # {}
  PROVE  /\ \E m \in S : \A x \in S : m <= x
         /\ \E m \in S : \A x \in S : x <= m
<1> DEFINE Below(x) == {y \in S : y < x}
           Above(x) == {y \in S : x < y}
<1>0. \A x \in S : x \in Int
  OBVIOUS
<1>1. \A T \in SUBSET S : IsFiniteSet(T) /\ Cardinality(T) \in Nat
  BY FS_Subset, FS_CardinalityType
<1>2. \A x \in S : Below(x) \in SUBSET S /\ Above(x) \in SUBSET S
  OBVIOUS
<1>3. \A x, y \in S : /\ y < x => Below(y) \in SUBSET Below(x) /\ y \in Below(x) \ Below(y)
                      /\ x < y => Above(y) \in SUBSET Above(x) /\ y \in Above(x) \ Above(y)
  <2>1. ASSUME NEW x \in S, NEW y \in S, y < x
        PROVE  Below(y) \in SUBSET Below(x) /\ y \in Below(x) \ Below(y)
    <3>1. x \in Int /\ y \in Int
      BY <1>0
    <3>2. ASSUME NEW z \in S, z < y PROVE z < x
      <4>1. z \in Int
        BY <1>0
      <4> QED BY <2>1, <3>1, <3>2, <4>1
    <3>3. ~(y < y)
      BY <3>1
    <3> QED BY <2>1, <3>2, <3>3
  <2>2. ASSUME NEW x \in S, NEW y \in S, x < y
        PROVE  Above(y) \in SUBSET Above(x) /\ y \in Above(x) \ Above(y)
    <3>1. x \in Int /\ y \in Int
      BY <1>0
    <3>2. ASSUME NEW z \in S, y < z PROVE x < z
      <4>1. z \in Int
        BY <1>0
      <4> QED BY <2>2, <3>1, <3>2, <4>1
    <3>3. ~(y < y)
      BY <3>1
    <3> QED BY <2>2, <3>2, <3>3
  <2> QED BY <2>1, <2>2
<1> HIDE DEF Below, Above
<1>4. \A x, y \in S : /\ y < x => ~(Cardinality(Below(x)) <= Cardinality(Below(y)))
                      /\ x < y => ~(Cardinality(Above(x)) <= Cardinality(Above(y)))
  <2>1. ASSUME NEW T \in SUBSET S, NEW U \in SUBSET T, NEW y \in T \ U
        PROVE  ~(Cardinality(T) <= Cardinality(U))
    <3>1. U \in SUBSET S /\ U # T
      OBVIOUS
    <3>2. IsFiniteSet(T) /\ Cardinality(T) \in Nat /\ Cardinality(U) \in Nat
      BY <1>1, <3>1
    <3>3. Cardinality(U) <= Cardinality(T) /\ Cardinality(T) # Cardinality(U)
      BY <3>1, <3>2, FS_Subset
    <3> QED BY <3>2, <3>3
  <2> QED BY <1>2, <1>3, <2>1
<1> DEFINE b == [x \in S |-> Cardinality(Below(x))]
           c == [x \in S |-> Cardinality(Above(x))]
<1>5. \A x \in S : b[x] \in Nat /\ c[x] \in Nat
  BY <1>1, <1>2
<1>6. \A x, y \in S : (y < x => ~(b[x] <= b[y])) /\ (x < y => ~(c[x] <= c[y]))
  BY <1>4
<1> HIDE DEF b, c
<1>7. ASSUME NEW f, \A x \in S : f[x] \in Nat
      PROVE  \E m \in S : \A x \in S : f[m] <= f[x]
  <2> DEFINE N == {f[x] : x \in S}
  <2>1. N \subseteq Nat /\ N # {}
    BY <1>7
  <2>2. Min(N) \in N /\ \A n \in N : Min(N) <= n
    BY <2>1, LeastNat
  <2> QED BY <2>2
<1>8. ASSUME NEW m \in S, \A x \in S : b[m] <= b[x], NEW x \in S
      PROVE  m <= x
  <2>1. m \in Int /\ x \in Int /\ ~(x < m)
    BY <1>0, <1>6, <1>8
  <2> QED BY <2>1
<1>9. ASSUME NEW m \in S, \A x \in S : c[m] <= c[x], NEW x \in S
      PROVE  x <= m
  <2>1. m \in Int /\ x \in Int /\ ~(m < x)
    BY <1>0, <1>6, <1>9
  <2> QED BY <2>1
<1>10. PICK m \in S : \A x \in S : b[m] <= b[x]
  BY <1>5, <1>7
<1>11. PICK n \in S : \A x \in S : c[n] <= c[x]
  BY <1>5, <1>7
<1> QED BY <1>8, <1>9, <1>10, <1>11

\* What erasing one element leaves (vector::erase in fifo_victim, lfu_victim).
LEMMA RemoveAtProperties ==
  ASSUME NEW S, NEW s \in Seq(S), NEW k \in 1 .. Len(s)
  PROVE  /\ RemoveAt(s, k) \in Seq(S)
         /\ Len(RemoveAt(s, k)) = Len(s) - 1
         /\ \A i \in 1 .. Len(s) - 1 :
              RemoveAt(s, k)[i] = IF i < k THEN s[i] ELSE s[i + 1]
<1> DEFINE l == SubSeq(s, 1, k - 1)
           r == SubSeq(s, k + 1, Len(s))
<1>1. /\ Len(s) \in Nat
      /\ \A i \in 1 .. Len(s) : s[i] \in S
  BY ElementOfSeq, LenProperties
<1>2. /\ l \in Seq(S) /\ Len(l) = k - 1
      /\ \A i \in 1 .. k - 1 : l[i] = s[i]
  BY <1>1, SubSeqProperties
<1>3. /\ r \in Seq(S) /\ Len(r) = Len(s) - k
      /\ \A i \in 1 .. Len(s) - k : r[i] = s[k + i]
  BY <1>1, SubSeqProperties
<1> HIDE DEF l, r
<1>4. /\ l \o r \in Seq(S)
      /\ Len(l \o r) = Len(s) - 1
      /\ \A i \in 1 .. Len(s) - 1 : (l \o r)[i] = IF i < k THEN s[i] ELSE s[i + 1]
  <2>1. \A i \in 1 .. Len(l) + Len(r) :
          (l \o r)[i] = IF i <= Len(l) THEN l[i] ELSE r[i - Len(l)]
    BY <1>2, <1>3, ConcatProperties
  <2>2. l \o r \in Seq(S) /\ Len(l \o r) = Len(l) + Len(r)
    BY <1>2, <1>3, ConcatProperties
  <2>3. Len(l) = k - 1 /\ Len(r) = Len(s) - k /\ Len(l) + Len(r) = Len(s) - 1
    BY <1>1, <1>2, <1>3
  <2>4. ASSUME NEW i \in 1 .. Len(s) - 1
        PROVE  (l \o r)[i] = IF i < k THEN s[i] ELSE s[i + 1]
    <3>1. CASE i < k
      BY <1>1, <1>2, <2>1, <2>3, <3>1
    <3>2. CASE i >= k
      <4>1. i - (k - 1) \in 1 .. Len(s) - k /\ k + (i - (k - 1)) = i + 1
        BY <1>1, <3>2
      <4>2. r[i - (k - 1)] = s[i + 1]
        BY <1>3, <4>1
      <4> QED BY <1>1, <2>1, <2>3, <3>2, <4>2
    <3>3. i < k \/ i >= k
      BY <1>1
    <3> QED BY <3>1, <3>2, <3>3
  <2> QED BY <2>2, <2>3, <2>4
<1> QED
  BY <1>4 DEF RemoveAt, l, r

\* A queue without repetitions loses exactly the element that is erased.
LEMMA RemoveAtDistinct ==
  ASSUME NEW S, NEW s \in Seq(S), NEW k \in 1 .. Len(s), IsInjective(s)
  PROVE  /\ IsInjective(RemoveAt(s, k))
         /\ ToSet(RemoveAt(s, k)) = ToSet(s) \ {s[k]}
<1> DEFINE t == RemoveAt(s, k)
<1>1. /\ t \in Seq(S)
      /\ Len(t) = Len(s) - 1
      /\ \A i \in 1 .. Len(s) - 1 : t[i] = IF i < k THEN s[i] ELSE s[i + 1]
  BY RemoveAtProperties
<1> HIDE DEF t
<1>2. /\ Len(s) \in Nat /\ DOMAIN s = 1 .. Len(s)
      /\ DOMAIN t = 1 .. Len(s) - 1
  BY <1>1, LenProperties
<1>3. IsInjective(t)
  <2> SUFFICES ASSUME NEW i \in 1 .. Len(s) - 1, NEW j \in 1 .. Len(s) - 1,
                      t[i] = t[j]
               PROVE  i = j
    BY <1>2 DEF IsInjective
  <2> DEFINE From(n) == IF n < k THEN n ELSE n + 1
  <2>1. From(i) \in 1 .. Len(s) /\ From(j) \in 1 .. Len(s)
    BY <1>2
  <2>2. t[i] = s[From(i)] /\ t[j] = s[From(j)]
    BY <1>1
  <2>3. From(i) = From(j)
    <3> HIDE DEF From
    <3> QED BY <1>2, <2>1, <2>2 DEF IsInjective
  <2> QED BY <1>2, <2>3
<1>4. ToSet(t) \subseteq ToSet(s) \ {s[k]}
  BY <1>1, <1>2 DEF ToSet, IsInjective
<1>5. ASSUME NEW e \in ToSet(s) \ {s[k]} PROVE e \in ToSet(t)
  <2>1. PICK i \in 1 .. Len(s) : e = s[i] /\ i # k
    BY <1>2 DEF ToSet
  <2>2. CASE i < k
    BY <1>1, <1>2, <2>1, <2>2 DEF ToSet
  <2>3. CASE i > k
    <3>1. t[i - 1] = s[i] /\ i - 1 \in 1 .. Len(s) - 1
      BY <1>1, <1>2, <2>3
    <3> QED BY <1>2, <2>1, <3>1 DEF ToSet
  <2> QED BY <2>1, <2>2, <2>3
<1> QED BY <1>3, <1>4, <1>5 DEF t

\* push_back of a new element.
LEMMA AppendDistinct ==
  ASSUME NEW S, NEW s \in Seq(S), NEW e \in S, IsInjective(s), e \notin ToSet(s)
  PROVE  /\ Append(s, e) \in Seq(S)
         /\ IsInjective(Append(s, e))
         /\ ToSet(Append(s, e)) = ToSet(s) \cup {e}
<1> DEFINE t == Append(s, e)
<1>1. /\ t \in Seq(S) /\ Len(t) = Len(s) + 1
      /\ \A i \in 1 .. Len(s) : t[i] = s[i]
      /\ t[Len(s) + 1] = e
  BY AppendProperties
<1> HIDE DEF t
<1>2. /\ Len(s) \in Nat /\ DOMAIN s = 1 .. Len(s)
      /\ DOMAIN t = 1 .. Len(s) + 1
  BY <1>1, LenProperties
<1>3. IsInjective(t)
  BY <1>1, <1>2 DEF IsInjective, ToSet
<1>4. ToSet(t) = ToSet(s) \cup {e}
  BY <1>1, <1>2 DEF ToSet
<1> QED BY <1>1, <1>3, <1>4 DEF t

\* Induction over the numbers, for a set of them.
LEMMA NatInductionSet ==
  ASSUME NEW G, \A n \in Nat : (n # 0 => n - 1 \in G) => n \in G
  PROVE  \A n \in Nat : n \in G
<1> DEFINE Bad == {n \in Nat : n \notin G}
<1> SUFFICES ASSUME Bad # {} PROVE FALSE
  OBVIOUS
<1>1. Min(Bad) \in Bad /\ \A n \in Bad : Min(Bad) <= n
  BY LeastNat
<1>2. PICK m \in Nat : m \notin G /\ \A n \in Bad : m <= n
  BY <1>1
<1>3. m # 0 => m - 1 \in G
  <2> SUFFICES ASSUME m # 0, m - 1 \notin G PROVE FALSE
    OBVIOUS
  <2>1. m - 1 \in Bad /\ ~(m <= m - 1)
    OBVIOUS
  <2> QED BY <1>2, <2>1
<1> QED BY <1>2, <1>3

-----------------------------------------------------------------------------
(***************************************************************************)
(* Sums over finite sets, as MapThenSumSet of the community modules adds   *)
(* them up: an element at a time, in an order that CHOOSE determines.      *)
(***************************************************************************)

Some(s) == CHOOSE x \in s : TRUE

NatOn(g, S) == \A x \in S : g[x] \in Nat
Agree(g, k, S) == \A x \in S : g[x] = k[x]

\* f[s] is the sum of g over s, for each subset s of S.
IsSum(f, g, S) ==
  f = [s \in SUBSET S |-> IF s = {} THEN 0 ELSE g[Some(s)] + f[s \ {Some(s)}]]

\* The subsets of a finite set, and what taking one element leaves of them.
LEMMA SomeElement ==
  ASSUME NEW S, IsFiniteSet(S), NEW s \in SUBSET S
  PROVE  /\ IsFiniteSet(s) /\ Cardinality(s) \in Nat /\ Cardinality(s) <= Cardinality(S)
         /\ Cardinality(s) = 0 <=> s = {}
         /\ s # {} => /\ Some(s) \in s /\ s \ {Some(s)} \in SUBSET S
                      /\ Cardinality(s \ {Some(s)}) = Cardinality(s) - 1
<1>1. IsFiniteSet(s) /\ Cardinality(s) \in Nat /\ Cardinality(s) <= Cardinality(S)
  BY FS_Subset, FS_CardinalityType
<1>2. Cardinality(s) = 0 <=> s = {}
  BY <1>1, FS_EmptySet
<1>3. s # {} => Some(s) \in s
  BY DEF Some
<1>4. s # {} => Cardinality(s \ {Some(s)}) = Cardinality(s) - 1
  BY <1>1, <1>3, FS_RemoveElement
<1> QED BY <1>1, <1>2, <1>3, <1>4

\* Every finite set has its sum: by the number of elements.
LEMMA SumExists ==
  ASSUME NEW S, IsFiniteSet(S), NEW g, NatOn(g, S)
  PROVE  \E f \in [SUBSET S -> Nat] : IsSum(f, g, S)
<1> DEFINE D(n) == {s \in SUBSET S : Cardinality(s) <= n}
           E(f, s) == IF s = {} THEN 0 ELSE g[Some(s)] + f[s \ {Some(s)}]
           Good(n) == \E f \in [D(n) -> Nat] : \A s \in D(n) : f[s] = E(f, s)
<1>0. Good(0)
  <2> DEFINE f == [s \in D(0) |-> 0]
  <2>1. \A s \in D(0) : s = {}
    <3> SUFFICES ASSUME NEW s \in SUBSET S, Cardinality(s) <= 0 PROVE s = {}
      OBVIOUS
    <3>1. Cardinality(s) \in Nat /\ (Cardinality(s) = 0 <=> s = {})
      BY SomeElement
    <3> QED BY <3>1
  <2>2. f \in [D(0) -> Nat] /\ \A s \in D(0) : f[s] = E(f, s)
    BY <2>1
  <2> QED BY <2>2
<1>1. ASSUME NEW n \in Nat, Good(n) PROVE Good(n + 1)
  <2>1. PICK f \in [D(n) -> Nat] : \A s \in D(n) : f[s] = E(f, s)
    BY <1>1
  <2> DEFINE h == [s \in D(n + 1) |-> E(f, s)]
  <2>2. ASSUME NEW s \in D(n + 1), s # {}
        PROVE  /\ Some(s) \in S /\ g[Some(s)] \in Nat
               /\ s \ {Some(s)} \in D(n) /\ s \ {Some(s)} \in D(n + 1)
    <3>1. s \in SUBSET S /\ Cardinality(s) <= n + 1
      OBVIOUS
    <3>2. /\ Some(s) \in s /\ s \ {Some(s)} \in SUBSET S
          /\ Cardinality(s) \in Nat /\ Cardinality(s \ {Some(s)}) = Cardinality(s) - 1
      BY <2>2, <3>1, SomeElement
    <3>3. Cardinality(s \ {Some(s)}) <= n /\ Cardinality(s \ {Some(s)}) <= n + 1
      BY <3>1, <3>2
    <3> QED BY <3>1, <3>2, <3>3 DEF NatOn
  <2>3. h \in [D(n + 1) -> Nat]
    <3> SUFFICES ASSUME NEW s \in D(n + 1) PROVE E(f, s) \in Nat
      OBVIOUS
    <3>1. CASE s = {}
      BY <3>1
    <3>2. CASE s # {}
      <4>1. g[Some(s)] \in Nat /\ f[s \ {Some(s)}] \in Nat
        BY <2>2, <3>2
      <4> QED BY <3>2, <4>1
    <3> QED BY <3>1, <3>2
  <2>4. ASSUME NEW s \in D(n + 1) PROVE h[s] = E(h, s)
    <3>1. CASE s = {}
      BY <3>1
    <3>2. CASE s # {}
      <4>1. h[s \ {Some(s)}] = f[s \ {Some(s)}]
        BY <2>1, <2>2, <3>2
      <4> QED BY <3>2, <4>1
    <3> QED BY <3>1, <3>2
  <2> QED BY <2>3, <2>4
<1>2. ASSUME NEW n \in Nat, n # 0 => Good(n - 1) PROVE Good(n)
  <2> HIDE DEF Good
  <2>1. CASE n = 0
    BY <1>0, <2>1
  <2>2. CASE n # 0
    <3>1. n - 1 \in Nat /\ (n - 1) + 1 = n
      BY <2>2
    <3>2. Good((n - 1) + 1)
      BY <1>1, <1>2, <2>2, <3>1
    <3> QED BY <3>1, <3>2
  <2> QED BY <2>1, <2>2
<1>3. \A n \in Nat : Good(n)
  <2> DEFINE G == {n \in Nat : Good(n)}
  <2> HIDE DEF Good
  <2>1. \A n \in Nat : (n # 0 => n - 1 \in G) => n \in G
    BY <1>2
  <2> HIDE DEF G
  <2>2. \A n \in Nat : n \in G
    BY <2>1, NatInductionSet
  <2> QED BY <2>2 DEF G
<1>4. D(Cardinality(S)) = SUBSET S
  BY SomeElement
<1>5. Cardinality(S) \in Nat
  BY FS_CardinalityType
<1>6. PICK f \in [SUBSET S -> Nat] : \A s \in SUBSET S : f[s] = E(f, s)
  <2>1. Good(Cardinality(S))
    BY <1>3, <1>5
  <2> HIDE DEF E
  <2> QED BY <1>4, <2>1
<1>7. IsSum(f, g, S)
  BY <1>6 DEF IsSum
<1> QED BY <1>6, <1>7

\* The sum is that of the elements in any other order too.
LEMMA SumAddsElement ==
  ASSUME NEW S, IsFiniteSet(S), NEW g, NatOn(g, S),
         NEW f \in [SUBSET S -> Nat], IsSum(f, g, S)
  PROVE  /\ f[{}] = 0
         /\ \A s \in SUBSET S : \A x \in S \ s : f[s \cup {x}] = f[s] + g[x]
<1>1. \A s \in SUBSET S : f[s] = IF s = {} THEN 0 ELSE g[Some(s)] + f[s \ {Some(s)}]
  BY DEF IsSum
<1>2. f[{}] = 0
  BY <1>1
<1> DEFINE Good(n) == \A s \in SUBSET S : \A x \in S \ s :
                        Cardinality(s) = n => f[s \cup {x}] = f[s] + g[x]
<1>3. ASSUME NEW n \in Nat, n # 0 => Good(n - 1) PROVE Good(n)
  <2> SUFFICES ASSUME NEW s \in SUBSET S, NEW x \in S \ s, Cardinality(s) = n
               PROVE  f[s \cup {x}] = f[s] + g[x]
    OBVIOUS
  <2> DEFINE T == s \cup {x}
             c == Some(T)
  <2>1. T \in SUBSET S /\ T # {}
    OBVIOUS
  <2> HIDE DEF T
  <2>2. c \in T /\ T \ {c} \in SUBSET S
    <3>1. c \in T
      BY <2>1 DEF Some
    <3> HIDE DEF c
    <3> QED BY <2>1, <3>1
  <2> HIDE DEF c
  <2>3. f[T] = g[c] + f[T \ {c}]
    BY <1>1, <2>1 DEF c
  <2>4. f[s] \in Nat /\ g[x] \in Nat /\ g[c] \in Nat /\ f[T \ {c}] \in Nat
    BY <2>1, <2>2 DEF NatOn
  <2>5. CASE c = x
    <3>1. T \ {c} = s
      BY <2>5 DEF T
    <3>2. f[T] = g[x] + f[s]
      BY <2>3, <2>5, <3>1
    <3> QED BY <2>4, <3>2 DEF T
  <2>6. CASE c # x
    <3> DEFINE r == s \ {c}
    <3>1. c \in s /\ r \in SUBSET S /\ x \in S \ r /\ c \in S \ r
      BY <2>2, <2>6 DEF T
    <3>2. T \ {c} = r \cup {x} /\ s = r \cup {c}
      BY <2>6, <3>1 DEF T
    <3>3. IsFiniteSet(s) /\ Cardinality(s) \in Nat /\ n # 0
      BY <3>1, SomeElement
    <3>4. Cardinality(r) = n - 1
      BY <3>1, <3>3, FS_RemoveElement
    <3> HIDE DEF r
    <3>5. f[r \cup {x}] = f[r] + g[x] /\ f[r \cup {c}] = f[r] + g[c]
      BY <1>3, <3>1, <3>3, <3>4
    <3>6. f[r] \in Nat
      BY <3>1
    <3>7. f[T] = g[c] + (f[r] + g[x]) /\ f[s] = f[r] + g[c]
      BY <2>3, <3>2, <3>5
    <3>8. f[T] = f[s] + g[x]
      BY <2>4, <3>6, <3>7
    <3> QED BY <3>8 DEF T
  <2> QED BY <2>5, <2>6
<1>4. \A n \in Nat : Good(n)
  <2> DEFINE G == {n \in Nat : Good(n)}
  <2> HIDE DEF Good
  <2>1. \A n \in Nat : (n # 0 => n - 1 \in G) => n \in G
    BY <1>3
  <2> HIDE DEF G
  <2>2. \A n \in Nat : n \in G
    BY <2>1, NatInductionSet
  <2> QED BY <2>2 DEF G
<1>5. ASSUME NEW s \in SUBSET S, NEW x \in S \ s PROVE f[s \cup {x}] = f[s] + g[x]
  <2>1. Cardinality(s) \in Nat
    BY SomeElement
  <2> QED BY <1>4, <2>1
<1> QED BY <1>2, <1>5

\* Functions that agree on a set have the same sum there.
LEMMA SumsAgree ==
  ASSUME NEW S, IsFiniteSet(S), NEW T \in SUBSET S, NEW g, NEW k, Agree(g, k, T),
         NEW f, IsSum(f, g, S), NEW h, IsSum(h, k, T)
  PROVE  \A s \in SUBSET T : h[s] = f[s]
<1> DEFINE Good(n) == \A s \in SUBSET T : Cardinality(s) = n => h[s] = f[s]
<1>1. /\ \A s \in SUBSET S : f[s] = IF s = {} THEN 0 ELSE g[Some(s)] + f[s \ {Some(s)}]
      /\ \A s \in SUBSET T : h[s] = IF s = {} THEN 0 ELSE k[Some(s)] + h[s \ {Some(s)}]
  BY DEF IsSum
<1>2. IsFiniteSet(T) /\ SUBSET T \subseteq SUBSET S
  BY FS_Subset
<1>3. ASSUME NEW n \in Nat, n # 0 => Good(n - 1) PROVE Good(n)
  <2> SUFFICES ASSUME NEW s \in SUBSET T, Cardinality(s) = n PROVE h[s] = f[s]
    OBVIOUS
  <2>1. CASE s = {}
    BY <1>1, <1>2, <2>1
  <2>2. CASE s # {}
    <3>1. /\ Some(s) \in s /\ s \ {Some(s)} \in SUBSET T /\ n # 0
          /\ Cardinality(s \ {Some(s)}) = n - 1
      BY <1>2, <2>2, SomeElement
    <3>2. h[s \ {Some(s)}] = f[s \ {Some(s)}]
      BY <1>3, <3>1
    <3>3. g[Some(s)] = k[Some(s)]
      BY <3>1 DEF Agree
    <3> QED BY <1>1, <1>2, <2>2, <3>2, <3>3
  <2> QED BY <2>1, <2>2
<1>4. \A n \in Nat : Good(n)
  <2> DEFINE G == {n \in Nat : Good(n)}
  <2> HIDE DEF Good
  <2>1. \A n \in Nat : (n # 0 => n - 1 \in G) => n \in G
    BY <1>3
  <2> HIDE DEF G
  <2>2. \A n \in Nat : n \in G
    BY <2>1, NatInductionSet
  <2> QED BY <2>2 DEF G
<1>5. ASSUME NEW s \in SUBSET T PROVE h[s] = f[s]
  <2>1. Cardinality(s) \in Nat
    BY <1>2, SomeElement
  <2> QED BY <1>4, <2>1
<1> QED BY <1>5

SumOver(g, S) == (CHOOSE f : IsSum(f, g, S))[S]

SumsTo(f, g, S) ==
  f \in [SUBSET S -> Nat] /\ IsSum(f, g, S) /\ \A T \in SUBSET S : SumOver(g, T) = f[T]

LEMMA SumIs ==
  ASSUME NEW S, IsFiniteSet(S), NEW g, NatOn(g, S)
  PROVE  \E f : SumsTo(f, g, S)
<1>1. PICK f \in [SUBSET S -> Nat] : IsSum(f, g, S)
  BY SumExists
<1>2. ASSUME NEW T \in SUBSET S PROVE SumOver(g, T) = f[T]
  <2> DEFINE h == CHOOSE h : IsSum(h, g, T)
  <2>1. IsFiniteSet(T) /\ NatOn(g, T)
    BY FS_Subset DEF NatOn
  <2>2. \E k : IsSum(k, g, T)
    BY <2>1, SumExists
  <2>3. IsSum(h, g, T)
    BY <2>2
  <2>4. SumOver(g, T) = h[T]
    BY DEF SumOver
  <2> HIDE DEF h
  <2>5. Agree(g, g, T)
    BY DEF Agree
  <2>6. \A s \in SUBSET T : h[s] = f[s]
    BY <1>1, <2>3, <2>5, SumsAgree
  <2>7. T \in SUBSET T
    OBVIOUS
  <2> QED BY <2>4, <2>6, <2>7
<1> QED BY <1>1, <1>2 DEF SumsTo

LEMMA SumUnique ==
  ASSUME NEW S, IsFiniteSet(S), NEW g, NatOn(g, S), NEW h, IsSum(h, g, S)
  PROVE  h[S] = SumOver(g, S)
<1>1. PICK f : SumsTo(f, g, S)
  BY SumIs
<1>2. Agree(g, g, S) /\ S \in SUBSET S
  BY DEF Agree
<1>3. \A s \in SUBSET S : h[s] = f[s]
  BY <1>1, <1>2, SumsAgree DEF SumsTo
<1> QED BY <1>1, <1>2, <1>3 DEF SumsTo

\* What the proofs need of sums.
LEMMA SumProperties ==
  ASSUME NEW S, IsFiniteSet(S), NEW g, NatOn(g, S)
  PROVE  /\ SumOver(g, {}) = 0
         /\ \A T \in SUBSET S : SumOver(g, T) \in Nat
         /\ \A T \in SUBSET S : \A x \in S \ T : SumOver(g, T \cup {x}) = SumOver(g, T) + g[x]
<1>1. PICK f : SumsTo(f, g, S)
  BY SumIs
<1>2. f[{}] = 0 /\ \A T \in SUBSET S : \A x \in S \ T : f[T \cup {x}] = f[T] + g[x]
  BY <1>1, SumAddsElement DEF SumsTo
<1>3. \A T \in SUBSET S : \A x \in S \ T : T \cup {x} \in SUBSET S
  OBVIOUS
<1>4. {} \in SUBSET S
  OBVIOUS
<1> QED BY <1>1, <1>2, <1>3, <1>4 DEF SumsTo

LEMMA SumSame ==
  ASSUME NEW S, IsFiniteSet(S), NEW g, NatOn(g, S), NEW k, Agree(g, k, S)
  PROVE  SumOver(g, S) = SumOver(k, S)
<1>1. PICK f : SumsTo(f, g, S)
  BY SumIs
<1>2. PICK h : SumsTo(h, k, S)
  <2>1. NatOn(k, S)
    BY DEF NatOn, Agree
  <2> QED BY <2>1, SumIs
<1>3. S \in SUBSET S
  OBVIOUS
<1>4. h[S] = f[S]
  <2>1. \A s \in SUBSET S : h[s] = f[s]
    BY <1>1, <1>2, <1>3, SumsAgree DEF SumsTo
  <2> QED BY <1>3, <2>1
<1> QED BY <1>1, <1>2, <1>3, <1>4 DEF SumsTo

\* One more of one element is one more of the sum.
LEMMA SumIncremented ==
  ASSUME NEW S, IsFiniteSet(S), NEW g, NatOn(g, S), NEW c \in S, NEW k,
         \A x \in S : k[x] = IF x = c THEN g[x] + 1 ELSE g[x]
  PROVE  SumOver(k, S) = SumOver(g, S) + 1
<1> DEFINE T == S \ {c}
<1>1. IsFiniteSet(T) /\ T \in SUBSET S /\ c \in S \ T /\ S = T \cup {c}
  BY FS_RemoveElement
<1>2. NatOn(k, S) /\ NatOn(g, T) /\ NatOn(k, T)
  BY DEF NatOn
<1>3. Agree(g, k, T)
  BY DEF Agree
<1> HIDE DEF T
<1>4. SumOver(g, T) = SumOver(k, T) /\ SumOver(g, T) \in Nat
  BY <1>1, <1>2, <1>3, SumSame, SumProperties
<1>5. SumOver(g, S) = SumOver(g, T) + g[c] /\ SumOver(k, S) = SumOver(k, T) + k[c]
  BY <1>1, <1>2, SumProperties
<1>6. g[c] \in Nat /\ k[c] = g[c] + 1
  BY DEF NatOn
<1> QED BY <1>4, <1>5, <1>6

-----------------------------------------------------------------------------
(***************************************************************************)
(* A function that is defined from its value one before.                   *)
(***************************************************************************)

\* The equation that f[n \in 0 .. N] == IF n = 0 THEN b ELSE F[n, f[n - 1]] stands for.
IsRecursive(f, N, b, F) ==
  f = [n \in 0 .. N |-> IF n = 0 THEN b ELSE F[<<n, f[n - 1]>>]]

LEMMA RecursionExists ==
  ASSUME NEW N \in Nat, NEW V, NEW b \in V, NEW F \in [(1 .. N) \X V -> V]
  PROVE  \E f \in [0 .. N -> V] : IsRecursive(f, N, b, F)
<1> DEFINE E(f, i) == IF i = 0 THEN b ELSE F[<<i, f[i - 1]>>]
           Good(n) == n <= N => \E f \in [0 .. n -> V] : \A i \in 0 .. n : f[i] = E(f, i)
<1>1. ASSUME NEW n \in Nat, n # 0 => Good(n - 1) PROVE Good(n)
  <2>1. CASE n = 0
    <3> DEFINE f == [i \in 0 .. 0 |-> b]
    <3>1. f \in [0 .. 0 -> V] /\ \A i \in 0 .. 0 : f[i] = E(f, i)
      OBVIOUS
    <3> QED BY <2>1, <3>1
  <2>2. CASE n # 0
    <3> SUFFICES ASSUME n <= N
                 PROVE  \E f \in [0 .. n -> V] : \A i \in 0 .. n : f[i] = E(f, i)
      OBVIOUS
    <3>1. PICK f \in [0 .. n - 1 -> V] : \A i \in 0 .. n - 1 : f[i] = E(f, i)
      BY <1>1, <2>2
    <3> DEFINE h == [i \in 0 .. n |-> IF i = n THEN F[<<n, f[n - 1]>>] ELSE f[i]]
    <3>2. f[n - 1] \in V /\ <<n, f[n - 1]>> \in (1 .. N) \X V
      BY <2>2
    <3>3. F[<<n, f[n - 1]>>] \in V
      BY <3>2
    <3>4. h \in [0 .. n -> V]
      BY <3>3
    <3>5. ASSUME NEW i \in 0 .. n PROVE h[i] = E(h, i)
      <4>1. CASE i = n
        <5>1. h[n - 1] = f[n - 1]
          BY <2>2
        <5>2. h[n] = F[<<n, f[n - 1]>>]
          BY <2>2
        <5> HIDE DEF h
        <5> QED BY <2>2, <4>1, <5>1, <5>2
      <4>2. CASE i # n
        <5>1. i \in 0 .. n - 1 /\ h[i] = f[i]
          BY <4>2
        <5>2. i # 0 => h[i - 1] = f[i - 1]
          BY <4>2
        <5> HIDE DEF h
        <5> QED BY <3>1, <5>1, <5>2
      <4> QED BY <4>1, <4>2
    <3> HIDE DEF h
    <3> QED BY <3>4, <3>5
  <2> QED BY <2>1, <2>2
<1>2. Good(N)
  <2> DEFINE G == {n \in Nat : Good(n)}
  <2> HIDE DEF Good
  <2>1. \A n \in Nat : (n # 0 => n - 1 \in G) => n \in G
    BY <1>1
  <2> HIDE DEF G
  <2>2. \A n \in Nat : n \in G
    BY <2>1, NatInductionSet
  <2> QED BY <2>2 DEF G
<1>3. PICK f \in [0 .. N -> V] : \A i \in 0 .. N : f[i] = E(f, i)
  BY <1>2
<1>4. IsRecursive(f, N, b, F)
  BY <1>3 DEF IsRecursive
<1> QED BY <1>4

\* Such a definition in a model, of no declared type, says that K is a function on
\* 0 .. N that follows F as long as its values are in V.
Follows(K, N, V, b, F) ==
  /\ K = [n \in 0 .. N |-> K[n]] /\ K[0] = b
  /\ \A n \in 1 .. N : K[n - 1] \in V => K[n] = F[<<n, K[n - 1]>>]

LEMMA FollowedValues ==
  ASSUME NEW N \in Nat, NEW V, NEW b \in V, NEW F \in [(1 .. N) \X V -> V], NEW K,
         Follows(K, N, V, b, F)
  PROVE  K \in [0 .. N -> V] /\ \A n \in 1 .. N : K[n] = F[<<n, K[n - 1]>>]
<1> DEFINE G == {n \in Nat : n <= N => K[n] \in V}
<1>1. ASSUME NEW n \in Nat, n # 0 => n - 1 \in G PROVE n \in G
  <2>1. CASE n = 0
    BY <2>1 DEF Follows
  <2>2. CASE n # 0 /\ n <= N
    <3>1. n \in 1 .. N /\ n - 1 \in Nat /\ n - 1 <= N
      BY <2>2
    <3>2. K[n - 1] \in V
      BY <1>1, <2>2, <3>1
    <3>3. K[n] = F[<<n, K[n - 1]>>] /\ <<n, K[n - 1]>> \in (1 .. N) \X V
      BY <3>1, <3>2 DEF Follows
    <3> QED BY <3>3
  <2> QED BY <2>1, <2>2
<1> HIDE DEF G
<1>2. \A n \in Nat : n \in G
  BY <1>1, NatInductionSet
<1>3. \A n \in 0 .. N : K[n] \in V
  BY <1>2 DEF G
<1>4. K \in [0 .. N -> V]
  <2>1. K = [n \in 0 .. N |-> K[n]]
    BY DEF Follows
  <2> QED BY <1>3, <2>1, Zenon
<1>5. \A n \in 1 .. N : n - 1 \in 0 .. N
  OBVIOUS
<1> QED BY <1>3, <1>4, <1>5 DEF Follows
=============================================================================
