---------------------------- MODULE ShellProofs -----------------------------
(***************************************************************************)
(* What a line of the shell does to the files and directories, for all     *)
(* lines, names, contents and directories.                                 *)
(***************************************************************************)
EXTENDS Shell, ListLemmas

\* Contents, what is stored under the names, and the paths of directories.
Block == STRING \cup {"absent", "newline", "typed", "printed", "processes", "missing"}
Text == Seq(Block)
Store == [Names -> Text]
Paths == Seq(STRING)

LEMMA TextOf == \A s \in Seq(STRING) : s \in Text
<1> SUFFICES ASSUME NEW s \in Seq(STRING) PROVE s \in Text
  OBVIOUS
<1>1. s = [i \in 1 .. Len(s) |-> s[i]] /\ Len(s) \in Nat
  BY LenProperties
<1>2. \A i \in 1 .. Len(s) : s[i] \in Block
  BY ElementOfSeq DEF Block
<1>3. s \in [1 .. Len(s) -> Block]
  BY <1>1, <1>2, Zenon
<1> QED BY <1>1, <1>3 DEF Text

LEMMA InitialStore == InitialFiles \in Store
<1>1. InitialFiles = [n \in Names |-> InitialFiles[n]] /\ \A n \in Names : InitialFiles[n] \in Seq(STRING)
  BY ShellAssumption
<1>2. \A n \in Names : InitialFiles[n] \in Text
  BY <1>1, TextOf
<1> QED BY <1>1, <1>2, Zenon DEF Store

-----------------------------------------------------------------------------
(***************************************************************************)
(* Blocks.                                                                 *)
(***************************************************************************)

KeptOf(K, s) ==
  /\ K \in [0 .. Len(s) -> Text] /\ K[0] = <<>>
  /\ \A k \in 1 .. Len(s) : K[k] = IF s[k] = "newline" THEN K[k - 1] ELSE Append(K[k - 1], s[k])

LEMMA BlocksKept ==
  ASSUME NEW s \in Text
  PROVE  \E K : KeptOf(K, s) /\ Blocks(s) = K[Len(s)]
<1> DEFINE N == Len(s)
           F == [p \in (1 .. N) \X Text |->
                   IF s[p[1]] = "newline" THEN p[2] ELSE Append(p[2], s[p[1]])]
           Eq(K) == K = [k \in 0 .. N |->
                           IF k = 0 THEN <<>>
                           ELSE IF s[k] = "newline" THEN K[k - 1] ELSE Append(K[k - 1], s[k])]
           C == CHOOSE K : Eq(K)
<1>0. N \in Nat /\ \A k \in 1 .. N : s[k] \in Block
  BY LenProperties, ElementOfSeq DEF Text
<1>1. F \in [(1 .. N) \X Text -> Text] /\ <<>> \in Text
  <2>1. \A t \in Text, e \in Block : Append(t, e) \in Text
    BY AppendProperties DEF Text
  <2>2. \A p \in (1 .. N) \X Text : s[p[1]] \in Block /\ p[2] \in Text
    BY <1>0
  <2> QED BY <2>1, <2>2 DEF Text
<1>f. \A n \in 1 .. N, t \in Text : F[<<n, t>>] = IF s[n] = "newline" THEN t ELSE Append(t, s[n])
  OBVIOUS
<1> HIDE DEF F, N
<1>2. PICK f \in [0 .. N -> Text] : IsRecursive(f, N, <<>>, F)
  BY <1>0, <1>1, RecursionExists
<1>3. Eq(f)
  <2>1. f = [n \in 0 .. N |-> IF n = 0 THEN <<>> ELSE F[<<n, f[n - 1]>>]]
    BY <1>2 DEF IsRecursive
  <2>2. ASSUME NEW n \in 0 .. N, n # 0
        PROVE  F[<<n, f[n - 1]>>] = IF s[n] = "newline" THEN f[n - 1] ELSE Append(f[n - 1], s[n])
    <3>1. n \in 1 .. N /\ n - 1 \in 0 .. N
      BY <1>0, <2>2
    <3> QED BY <1>2, <1>f, <3>1
  <2> QED BY <2>1, <2>2
<1>4. Eq(C)
  BY <1>3
<1>e. \A k \in 0 .. N :
        C[k] = IF k = 0 THEN <<>>
               ELSE IF s[k] = "newline" THEN C[k - 1] ELSE Append(C[k - 1], s[k])
  <2> HIDE DEF C
  <2> QED BY <1>4, Zenon
<1>5. Blocks(s) = C[N]
  BY DEF Blocks, N
<1> HIDE DEF C
<1>6. Follows(C, N, Text, <<>>, F)
  <2>1. C = [n \in 0 .. N |-> C[n]]
    BY <1>4
  <2>2. C[0] = <<>>
    BY <1>0, <1>4
  <2>3. ASSUME NEW n \in 1 .. N, C[n - 1] \in Text PROVE C[n] = F[<<n, C[n - 1]>>]
    <3>1. C[n] = IF s[n] = "newline" THEN C[n - 1] ELSE Append(C[n - 1], s[n])
      BY <1>0, <1>e
    <3> QED BY <1>f, <2>3, <3>1
  <2> QED BY <2>1, <2>2, <2>3 DEF Follows
<1>7. C \in [0 .. N -> Text]
  BY <1>0, <1>1, <1>6, FollowedValues
<1>8. ASSUME NEW k \in 1 .. N
      PROVE  C[k] = IF s[k] = "newline" THEN C[k - 1] ELSE Append(C[k - 1], s[k])
  BY <1>0, <1>e
<1>9. C[0] = <<>>
  BY <1>6 DEF Follows
<1> QED BY <1>5, <1>7, <1>8, <1>9 DEF KeptOf, N

LEMMA ConcatTexts ==
  ASSUME NEW s \in Text, NEW t \in Text, NEW u \in Text
  PROVE  (s \o t) \o u = s \o (t \o u) /\ s \o t \in Text /\ t \o u \in Text
BY ConcatAssociative, ConcatProperties DEF Text

LEMMA ConcatElements ==
  ASSUME NEW S, NEW s \in Seq(S), NEW t \in Seq(S)
  PROVE  /\ s \o t \in Seq(S) /\ Len(s \o t) = Len(s) + Len(t)
         /\ \A i \in 1 .. Len(s) : (s \o t)[i] = s[i]
         /\ \A i \in 1 .. Len(t) : (s \o t)[Len(s) + i] = t[i]
OBVIOUS

LEMMA ConcatAppend ==
  ASSUME NEW s \in Text, NEW t \in Text, NEW e \in Block
  PROVE  Append(s \o t, e) = s \o Append(t, e)
<1>1. s \o t \in Text /\ <<e>> \in Text
  BY ConcatProperties DEF Text
<1>2. Append(s \o t, e) = (s \o t) \o <<e>> /\ Append(t, e) = t \o <<e>>
  BY <1>1, AppendIsConcat DEF Text
<1>3. (s \o t) \o <<e>> = s \o (t \o <<e>>)
  BY <1>1, ConcatAssociative DEF Text
<1> QED BY <1>2, <1>3

\* The blocks of two texts are those of the one and then those of the other.
LEMMA BlocksConcat ==
  ASSUME NEW s \in Text, NEW t \in Text
  PROVE  Blocks(s \o t) = Blocks(s) \o Blocks(t) /\ Blocks(s) \in Text
<1> DEFINE u == s \o t
           M == Len(s)
           N == Len(t)
<1>1. /\ u \in Text /\ Len(u) = M + N /\ M \in Nat /\ N \in Nat
      /\ \A i \in 1 .. M : u[i] = s[i]
      /\ \A i \in 1 .. N : u[M + i] = t[i]
      /\ \A i \in 1 .. N : t[i] \in Block
  BY ConcatProperties, LenProperties, ElementOfSeq DEF Text
<1> HIDE DEF u, M, N
<1>2. PICK U : KeptOf(U, u) /\ Blocks(u) = U[Len(u)]
  BY <1>1, BlocksKept
<1>3. PICK S : KeptOf(S, s) /\ Blocks(s) = S[Len(s)]
  BY BlocksKept
<1>4. PICK T : KeptOf(T, t) /\ Blocks(t) = T[Len(t)]
  BY BlocksKept
<1>5. \A i \in Nat : i <= M => U[i] = S[i]
  <2> DEFINE G == {i \in Nat : i <= M => U[i] = S[i]}
  <2>1. ASSUME NEW i \in Nat, i # 0 => i - 1 \in G PROVE i \in G
    <3>1. CASE i = 0
      BY <1>2, <1>3, <3>1 DEF KeptOf
    <3>2. CASE i # 0 /\ i <= M
      <4>1. i \in 1 .. M /\ i \in 1 .. Len(u) /\ U[i - 1] = S[i - 1]
        BY <1>1, <2>1, <3>2
      <4>2. /\ S[i] = IF s[i] = "newline" THEN S[i - 1] ELSE Append(S[i - 1], s[i])
            /\ U[i] = IF u[i] = "newline" THEN U[i - 1] ELSE Append(U[i - 1], u[i])
        BY <1>2, <1>3, <4>1 DEF KeptOf, M
      <4> QED BY <1>1, <4>1, <4>2
    <3> QED BY <3>1, <3>2
  <2> HIDE DEF G
  <2>2. \A i \in Nat : i \in G
    BY <2>1, NatInductionSet
  <2> QED BY <2>2 DEF G
<1>6. S[M] \in Text /\ \A i \in 0 .. N : T[i] \in Text
  <2>1. S \in [0 .. M -> Text] /\ T \in [0 .. N -> Text]
    BY <1>3, <1>4 DEF KeptOf, M, N
  <2>2. M \in 0 .. M
    BY <1>1
  <2> QED BY <2>1, <2>2, Zenon
<1>7. \A i \in Nat : i <= N => U[M + i] = S[M] \o T[i]
  <2> DEFINE Same(i) == U[M + i] = S[M] \o T[i]
             G == {i \in Nat : i <= N => Same(i)}
  <2> HIDE DEF Same
  <2>1. ASSUME NEW i \in Nat, i # 0 => i - 1 \in G PROVE i \in G
    <3>1. CASE i = 0
      <4>1. T[0] = <<>> /\ U[M + 0] = S[M]
        BY <1>1, <1>4, <1>5 DEF KeptOf
      <4>2. S[M] \o <<>> = S[M]
        BY <1>6, ConcatEmptySeq DEF Text
      <4>3. Same(0)
        BY <4>1, <4>2 DEF Same
      <4> QED BY <3>1, <4>3
    <3>2. CASE i # 0 /\ i <= N
      <4>0. /\ i \in 1 .. N /\ M + i \in 1 .. Len(u) /\ (M + i) - 1 = M + (i - 1)
            /\ i - 1 \in 0 .. N /\ i - 1 \in G
        BY <1>1, <2>1, <3>2
      <4>1. U[M + (i - 1)] = S[M] \o T[i - 1]
        <5>1. Same(i - 1)
          BY <4>0
        <5> QED BY <5>1 DEF Same
      <4>2. /\ T[i] = IF t[i] = "newline" THEN T[i - 1] ELSE Append(T[i - 1], t[i])
            /\ U[M + i] = IF u[M + i] = "newline" THEN U[M + (i - 1)] ELSE Append(U[M + (i - 1)], u[M + i])
        BY <1>2, <1>4, <4>0 DEF KeptOf, N
      <4>3. Append(S[M] \o T[i - 1], t[i]) = S[M] \o Append(T[i - 1], t[i])
        BY <1>1, <1>6, <4>0, ConcatAppend
      <4>4. U[M + i] = S[M] \o T[i]
        BY <1>1, <4>0, <4>1, <4>2, <4>3
      <4>5. Same(i)
        BY <4>4 DEF Same
      <4> QED BY <4>5
    <3> QED BY <3>1, <3>2
  <2> HIDE DEF G
  <2>2. \A i \in Nat : i \in G
    BY <2>1, NatInductionSet
  <2>3. \A i \in Nat : i <= N => U[M + i] = S[M] \o T[i]
    <3> SUFFICES ASSUME NEW i \in Nat, i <= N PROVE U[M + i] = S[M] \o T[i]
      OBVIOUS
    <3>1. Same(i)
      BY <2>2 DEF G
    <3> QED BY <3>1 DEF Same
  <2> QED BY <2>3
<1>8. U[M + N] = S[M] \o T[N]
  <2>1. N \in Nat /\ N <= N
    BY <1>1
  <2> QED BY <1>7, <2>1, Zenon
<1> QED BY <1>1, <1>2, <1>3, <1>4, <1>6, <1>8 DEF u, M, N

LEMMA BlocksSeparator == Blocks(<<>>) = <<>> /\ Blocks(<<"newline">>) = <<>>
<1>1. <<>> \in Text /\ <<"newline">> \in Text
  BY DEF Text, Block
<1>2. ASSUME NEW K, KeptOf(K, <<>>) PROVE K[Len(<<>>)] = <<>>
  BY <1>2 DEF KeptOf
<1>3. ASSUME NEW K, KeptOf(K, <<"newline">>) PROVE K[Len(<<"newline">>)] = <<>>
  BY <1>3 DEF KeptOf
<1> QED BY <1>1, <1>2, <1>3, BlocksKept

\* The texts of a sequence one after the other, from the first.
FlattenedBy(h, s, n) ==
  /\ h \in [0 .. n -> Text] /\ h[0] = <<>>
  /\ \A i \in 1 .. n : h[i] = h[i - 1] \o s[i]

LEMMA Flattened ==
  ASSUME NEW n \in Nat \ {0}, NEW s \in [1 .. n -> Text]
  PROVE  \E h : FlattenedBy(h, s, n) /\ FlattenSeq(s) = h[n]
<1> DEFINE F == [p \in (1 .. n) \X Text |-> p[2] \o s[p[1]]]
           Eq(g) == g = [i \in 1 .. n |-> IF i = 1 THEN s[i] ELSE g[i - 1] \o s[i]]
           C == CHOOSE g : Eq(g)
<1>0. s \in Seq(Text) /\ Len(s) = n /\ n # 0
  OBVIOUS
<1>1. F \in [(1 .. n) \X Text -> Text] /\ <<>> \in Text
  <2>1. \A p \in (1 .. n) \X Text : p[2] \o s[p[1]] \in Text
    BY ConcatProperties DEF Text
  <2> QED BY <2>1 DEF Text
<1>2. \A i \in 1 .. n, t \in Text : F[<<i, t>>] = t \o s[i]
  OBVIOUS
<1> HIDE DEF F
<1>3. PICK h \in [0 .. n -> Text] : IsRecursive(h, n, <<>>, F)
  BY <1>1, RecursionExists
<1>4. FlattenedBy(h, s, n)
  <2>1. \A i \in 0 .. n : h[i] = IF i = 0 THEN <<>> ELSE F[<<i, h[i - 1]>>]
    BY <1>3, Zenon DEF IsRecursive
  <2>2. h[0] = <<>>
    <3>1. 0 \in 0 .. n
      OBVIOUS
    <3> QED BY <2>1, <3>1, Zenon
  <2>3. ASSUME NEW i \in 1 .. n PROVE h[i] = h[i - 1] \o s[i]
    <3>1. h[i] = F[<<i, h[i - 1]>>] /\ h[i - 1] \in Text
      BY <2>1
    <3> QED BY <1>2, <3>1
  <2> QED BY <2>2, <2>3 DEF FlattenedBy
<1>5. Eq([i \in 1 .. n |-> h[i]])
  <2> DEFINE g == [i \in 1 .. n |-> h[i]]
  <2>1. ASSUME NEW i \in 1 .. n PROVE h[i] = IF i = 1 THEN s[i] ELSE g[i - 1] \o s[i]
    <3>1. CASE i = 1
      <4>0. 1 \in 1 .. n /\ 1 - 1 = 0
        BY <3>1
      <4>1. h[1] = <<>> \o s[1] /\ s[1] \in Text
        BY <1>4, <4>0, Zenon DEF FlattenedBy
      <4>2. <<>> \o s[1] = s[1]
        BY <4>1, ConcatEmptySeq DEF Text
      <4> QED BY <3>1, <4>1, <4>2
    <3>2. CASE i # 1
      <4>1. i - 1 \in 1 .. n /\ g[i - 1] = h[i - 1]
        BY <3>2
      <4>2. h[i] = h[i - 1] \o s[i]
        BY <1>4 DEF FlattenedBy
      <4> QED BY <3>2, <4>1, <4>2
    <3> QED BY <3>1, <3>2
  <2> HIDE DEF FlattenedBy
  <2> QED BY <2>1, Zenon
<1>6. Eq(C)
  BY <1>5
<1>7. FlattenSeq(s) = C[n]
  BY <1>0 DEF FlattenSeq
<1> HIDE DEF C
<1>8. \A i \in 1 .. n : C[i] = IF i = 1 THEN s[i] ELSE C[i - 1] \o s[i]
  BY <1>6, Zenon
<1>9. \A i \in 1 .. n : h[i] = IF i = 1 THEN s[i] ELSE h[i - 1] \o s[i]
  <2> SUFFICES ASSUME NEW i \in 1 .. n PROVE h[i] = IF i = 1 THEN s[i] ELSE h[i - 1] \o s[i]
    OBVIOUS
  <2>1. h[i] = h[i - 1] \o s[i] /\ h[0] = <<>> /\ s[i] \in Text
    BY <1>4 DEF FlattenedBy
  <2>2. <<>> \o s[i] = s[i]
    BY <2>1, ConcatEmptySeq DEF Text
  <2>3. i = 1 => i - 1 = 0
    OBVIOUS
  <2> QED BY <2>1, <2>2, <2>3, Zenon
<1>10. \A i \in Nat : i \in 1 .. n => C[i] = h[i]
  <2> DEFINE G == {i \in Nat : i \in 1 .. n => C[i] = h[i]}
  <2>1. ASSUME NEW i \in Nat, i # 0 => i - 1 \in G PROVE i \in G
    <3>1. CASE i \in 1 .. n /\ i # 1
      <4>1. i - 1 \in 1 .. n /\ i - 1 \in G
        BY <2>1, <3>1
      <4>2. C[i - 1] = h[i - 1]
        BY <4>1
      <4> QED BY <1>8, <1>9, <3>1, <4>2
    <3>2. CASE i = 1
      <4>1. C[1] = s[1] /\ h[1] = s[1]
        BY <1>8, <1>9
      <4> QED BY <3>2, <4>1
    <3> QED BY <3>1, <3>2
  <2> HIDE DEF G
  <2>2. \A i \in Nat : i \in G
    BY <2>1, NatInductionSet
  <2> QED BY <2>2 DEF G
<1> QED BY <1>4, <1>7, <1>10

-----------------------------------------------------------------------------
(***************************************************************************)
(* Copied.                                                                 *)
(***************************************************************************)

States == [files : Store, console : Text]

\* What the source k adds to a target.
Separator(k) == IF k < Len(Sources) THEN <<"newline">> ELSE <<>>
Missing(fs, n) == ~ IsDirectory(n) /\ ~ Exists(fs, n)
Part(fs, k) == IF Missing(fs, Sources[k]) THEN <<>> ELSE Content(fs, Sources[k]) \o Separator(k)

CopyOne(so, k, targets) ==
  LET n   == Sources[k]
      out == Content(so.files, n) \o (IF k < Len(Sources) THEN <<"newline">> ELSE <<>>)
  IN  IF ~ IsDirectory(n) /\ ~ Exists(so.files, n)
      THEN [so EXCEPT !.console = Append(@, "missing")]
      ELSE IF targets = {} THEN [so EXCEPT !.console = @ \o out]
      ELSE [so EXCEPT !.files = [m \in Names |-> IF m \in targets THEN @[m] \o out ELSE @[m]]]

LEMMA Parts ==
  ASSUME Sources \in Seq(Names), NEW fs \in Store, NEW k \in 1 .. Len(Sources)
  PROVE  /\ Separator(k) \in Text /\ Content(fs, Sources[k]) \in Text
         /\ Content(fs, Sources[k]) \o Separator(k) \in Text /\ Part(fs, k) \in Text
<1>1. Sources[k] \in Names /\ <<>> \in Text /\ <<"newline">> \in Text
  BY ElementOfSeq DEF Text, Block
<1>2. Separator(k) \in Text /\ Content(fs, Sources[k]) \in Text
  BY <1>1 DEF Separator, Content, Store
<1>3. Content(fs, Sources[k]) \o Separator(k) \in Text
  BY <1>2, ConcatProperties DEF Text
<1> QED BY <1>1, <1>2, <1>3 DEF Part

LEMMA OneCopied ==
  ASSUME Sources \in Seq(Names), NEW so \in States, NEW k \in 1 .. Len(Sources),
         NEW targets \in SUBSET Names
  PROVE  /\ CopyOne(so, k, targets) \in States
         /\ \A m \in Names \ targets : CopyOne(so, k, targets).files[m] = so.files[m]
         /\ \A m \in targets : CopyOne(so, k, targets).files[m] = so.files[m] \o Part(so.files, k)
<1> DEFINE n == Sources[k]
           out == Content(so.files, n) \o Separator(k)
           to == [m \in Names |-> IF m \in targets THEN so.files[m] \o out ELSE so.files[m]]
<1>1. so.files \in Store /\ so.console \in Text
  BY DEF States
<1>2. out \in Text /\ Part(so.files, k) = IF Missing(so.files, n) THEN <<>> ELSE out
  BY <1>1, Parts DEF Part
<1>3. CopyOne(so, k, targets) =
        IF Missing(so.files, n) THEN [so EXCEPT !.console = Append(so.console, "missing")]
        ELSE IF targets = {} THEN [so EXCEPT !.console = so.console \o out]
        ELSE [so EXCEPT !.files = to]
  BY Zenon DEF CopyOne, Separator, Missing
<1> HIDE DEF out
<1>4. to \in Store
  <2>1. \A m \in Names : so.files[m] \o out \in Text /\ so.files[m] \in Text
    BY <1>1, <1>2, ConcatProperties DEF Store, Text
  <2> QED BY <2>1 DEF Store
<1>5. \A m \in Names : to[m] = IF m \in targets THEN so.files[m] \o out ELSE so.files[m]
  OBVIOUS
<1>6. Append(so.console, "missing") \in Text /\ so.console \o out \in Text
  BY <1>1, <1>2, AppendProperties, ConcatProperties DEF Text, Block
<1>7. \A m \in Names : so.files[m] \o <<>> = so.files[m]
  BY <1>1, ConcatEmptySeq DEF Store, Text
<1> HIDE DEF to, n
<1>8. CASE Missing(so.files, n)
  <2>1. CopyOne(so, k, targets) = [files |-> so.files, console |-> Append(so.console, "missing")]
    BY <1>3, <1>8 DEF States
  <2>2. CopyOne(so, k, targets) \in States /\ CopyOne(so, k, targets).files = so.files
    BY <1>1, <1>6, <2>1 DEF States
  <2>3. Part(so.files, k) = <<>>
    BY <1>2, <1>8
  <2> QED BY <1>7, <2>2, <2>3, Zenon
<1>9. CASE ~ Missing(so.files, n) /\ targets = {}
  <2>1. CopyOne(so, k, targets) = [files |-> so.files, console |-> so.console \o out]
    BY <1>3, <1>9 DEF States
  <2>2. CopyOne(so, k, targets) \in States /\ CopyOne(so, k, targets).files = so.files
    BY <1>1, <1>6, <2>1 DEF States
  <2> QED BY <1>9, <2>2, Zenon
<1>10. CASE ~ Missing(so.files, n) /\ targets # {}
  <2>1. CopyOne(so, k, targets) = [files |-> to, console |-> so.console]
    BY <1>3, <1>10 DEF States
  <2>2. CopyOne(so, k, targets) \in States /\ CopyOne(so, k, targets).files = to
    BY <1>1, <1>4, <2>1 DEF States
  <2>3. Part(so.files, k) = out
    BY <1>2, <1>10
  <2> QED BY <1>5, <2>2, <2>3, Zenon
<1> QED BY <1>8, <1>9, <1>10

CopySteps(A, fs, targets) ==
  /\ Sources \in Seq(Names) /\ fs \in Store /\ targets \in SUBSET Names
  /\ A \in [0 .. Len(Sources) -> States] /\ A[0] = [files |-> fs, console |-> <<>>]
  /\ \A k \in 1 .. Len(Sources) : A[k] = CopyOne(A[k - 1], k, targets)

LEMMA CopyingSteps ==
  ASSUME Sources \in Seq(Names), NEW fs \in Store, NEW targets \in SUBSET Names
  PROVE  \E A : CopySteps(A, fs, targets) /\ Copied(fs, targets) = A[Len(Sources)]
<1> DEFINE N == Len(Sources)
           b == [files |-> fs, console |-> <<>>]
           F == [p \in (1 .. N) \X States |-> CopyOne(p[2], p[1], targets)]
           Eq(A) == A = [k \in 0 .. N |-> IF k = 0 THEN b ELSE CopyOne(A[k - 1], k, targets)]
           C == CHOOSE A : Eq(A)
<1>0. N \in Nat
  BY LenProperties
<1>1. F \in [(1 .. N) \X States -> States] /\ b \in States
  <2>1. \A p \in (1 .. N) \X States : CopyOne(p[2], p[1], targets) \in States
    BY OneCopied
  <2> HIDE DEF N
  <2>2. b \in States
    BY DEF States, Text
  <2> QED BY <2>1, <2>2
<1>2. \A k \in 1 .. N, so \in States : F[<<k, so>>] = CopyOne(so, k, targets)
  <2> HIDE DEF N
  <2> QED OBVIOUS
<1>5. Copied(fs, targets) = C[N]
  BY Zenon DEF Copied, CopyOne
<1> HIDE DEF F, N, b
<1>3. PICK f \in [0 .. N -> States] : IsRecursive(f, N, b, F)
  BY <1>0, <1>1, RecursionExists
<1>4. Eq(f)
  <2>1. f = [k \in 0 .. N |-> IF k = 0 THEN b ELSE F[<<k, f[k - 1]>>]]
    BY <1>3 DEF IsRecursive
  <2>2. ASSUME NEW k \in 0 .. N, k # 0 PROVE F[<<k, f[k - 1]>>] = CopyOne(f[k - 1], k, targets)
    <3>1. k \in 1 .. N /\ k - 1 \in 0 .. N
      BY <1>0, <2>2
    <3> QED BY <1>2, <3>1
  <2> QED BY <2>1, <2>2, Zenon
<1>6. Eq(C)
  BY <1>4
<1> HIDE DEF C
<1>7. \A k \in 0 .. N : C[k] = IF k = 0 THEN b ELSE CopyOne(C[k - 1], k, targets)
  BY <1>6, Zenon
<1>8. C[0] = b /\ \A k \in 1 .. N : C[k] = CopyOne(C[k - 1], k, targets)
  BY <1>0, <1>7
<1>9. Follows(C, N, States, b, F)
  <2>1. C = [n \in 0 .. N |-> C[n]]
    BY <1>6, Zenon
  <2> QED BY <1>2, <1>8, <2>1 DEF Follows
<1>10. C \in [0 .. N -> States]
  BY <1>0, <1>1, <1>9, FollowedValues
<1> QED BY <1>5, <1>8, <1>10 DEF CopySteps, N, b

\* What a file that is no target holds stays; a target keeps what it held, and more.
Extends(to, from, targets) ==
  /\ to \in Store
  /\ \A m \in Names \ targets : to[m] = from[m]
  /\ \A m \in targets : \E t \in Text : to[m] = from[m] \o t

LEMMA ExtendsItself == \A fs \in Store : \A targets \in SUBSET Names : Extends(fs, fs, targets)
<1> SUFFICES ASSUME NEW fs \in Store, NEW targets \in SUBSET Names
             PROVE  \A m \in targets : \E t \in Text : fs[m] = fs[m] \o t
  BY DEF Extends
<1>1. ASSUME NEW m \in targets PROVE fs[m] = fs[m] \o <<>> /\ <<>> \in Text
  <2>1. fs[m] \in Text
    BY DEF Store
  <2> QED BY <2>1, ConcatEmptySeq DEF Text
<1> QED BY <1>1

LEMMA ExtendsFurther ==
  ASSUME NEW fs \in Store, NEW targets \in SUBSET Names, NEW gs, Extends(gs, fs, targets),
         NEW hs, Extends(hs, gs, targets)
  PROVE  Extends(hs, fs, targets)
<1>1. ASSUME NEW m \in targets PROVE \E t \in Text : hs[m] = fs[m] \o t
  <2>1. PICK t \in Text : gs[m] = fs[m] \o t
    BY <1>1 DEF Extends
  <2>2. PICK p \in Text : hs[m] = gs[m] \o p
    BY <1>1 DEF Extends
  <2>3. PICK c \in Text : c = fs[m]
    BY <1>1 DEF Store
  <2>4. (c \o t) \o p = c \o (t \o p) /\ t \o p \in Text
    BY ConcatTexts
  <2> QED BY <2>1, <2>2, <2>3, <2>4
<1> QED BY <1>1, Zenon DEF Extends

LEMMA OneExtends ==
  ASSUME Sources \in Seq(Names), NEW so \in States, NEW k \in 1 .. Len(Sources),
         NEW targets \in SUBSET Names
  PROVE  Extends(CopyOne(so, k, targets).files, so.files, targets)
<1>1. CopyOne(so, k, targets).files \in Store /\ so.files \in Store
  BY OneCopied DEF States
<1>2. Part(so.files, k) \in Text
  BY <1>1, Parts
<1> QED BY <1>1, <1>2, OneCopied DEF Extends

LEMMA StepsExtend ==
  ASSUME NEW fs, NEW targets, NEW A, CopySteps(A, fs, targets)
  PROVE  \A k \in 0 .. Len(Sources) : A[k] \in States /\ Extends(A[k].files, fs, targets)
<1> DEFINE N == Len(Sources)
           G == {k \in Nat : k <= N => Extends(A[k].files, fs, targets)}
<1>0. /\ N \in Nat /\ \A k \in 0 .. N : A[k] \in States
      /\ Sources \in Seq(Names) /\ fs \in Store /\ targets \in SUBSET Names
  BY LenProperties DEF CopySteps
<1>1. ASSUME NEW k \in Nat, k # 0 => k - 1 \in G PROVE k \in G
  <2>1. CASE k = 0
    <3>1. A[0].files = fs
      BY DEF CopySteps
    <3> QED BY <1>0, <2>1, <3>1, ExtendsItself
  <2>2. CASE k # 0 /\ k <= N
    <3>1. k \in 1 .. N /\ k - 1 \in 0 .. N /\ k - 1 \in G
      BY <1>0, <1>1, <2>2
    <3>2. Extends(A[k - 1].files, fs, targets)
      BY <3>1
    <3>3. A[k] = CopyOne(A[k - 1], k, targets) /\ A[k - 1] \in States
      BY <1>0, <3>1 DEF CopySteps
    <3>4. Extends(A[k].files, A[k - 1].files, targets)
      BY <1>0, <3>1, <3>3, OneExtends
    <3>5. Extends(A[k].files, fs, targets)
      BY <1>0, <3>2, <3>4, ExtendsFurther
    <3> QED BY <3>5
  <2> QED BY <2>1, <2>2
<1> HIDE DEF G
<1>2. \A k \in Nat : k \in G
  BY <1>1, NatInductionSet
<1>3. ASSUME NEW k \in 0 .. N PROVE Extends(A[k].files, fs, targets)
  <2>1. k \in Nat /\ k <= N /\ k \in G
    BY <1>0, <1>2
  <2> QED BY <2>1 DEF G
<1> QED BY <1>0, <1>3

LEMMA CopiedFiles ==
  ASSUME Sources \in Seq(Names), NEW fs \in Store, NEW targets \in SUBSET Names
  PROVE  Extends(Copied(fs, targets).files, fs, targets)
<1>1. PICK A : CopySteps(A, fs, targets) /\ Copied(fs, targets) = A[Len(Sources)]
  BY CopyingSteps
<1>2. Len(Sources) \in 0 .. Len(Sources)
  BY LenProperties
<1> QED BY <1>1, <1>2, StepsExtend

\* A target that is no source gets the blocks of the sources, in their order.
LEMMA CopiedTo ==
  ASSUME Sources \in Seq(Names), Sources # <<>>, NEW fs \in Store, NEW T \in Names,
         \A k \in 1 .. Len(Sources) : Sources[k] # T,
         NEW g \in [1 .. Len(Sources) -> Text],
         \A k \in 1 .. Len(Sources) : Blocks(g[k]) = Blocks(Part(fs, k))
  PROVE  Blocks(Copied(fs, {T}).files[T]) = Blocks(fs[T] \o FlattenSeq(g))
<1> DEFINE N == Len(Sources)
<1>0. N \in Nat \ {0} /\ g \in [1 .. N -> Text]
  BY LenProperties, EmptySeq
<1>1. PICK A : CopySteps(A, fs, {T}) /\ Copied(fs, {T}) = A[N]
  BY CopyingSteps
<1>2. PICK h : FlattenedBy(h, g, N) /\ FlattenSeq(g) = h[N]
  BY <1>0, Flattened
<1> DEFINE Good(k) == Blocks(A[k].files[T]) = Blocks(fs[T] \o h[k])
           G == {k \in Nat : k <= N => Good(k)}
<1> HIDE DEF Good, N
<1>t. fs[T] \in Text
  BY DEF Store
<1>3. Good(0)
  <2>1. A[0].files = fs /\ h[0] = <<>>
    BY <1>1, <1>2 DEF CopySteps, FlattenedBy
  <2>2. fs[T] \o <<>> = fs[T]
    BY <1>t, ConcatEmptySeq DEF Text
  <2> QED BY <2>1, <2>2 DEF Good
<1>4. ASSUME NEW k \in Nat, k # 0 => k - 1 \in G PROVE k \in G
  <2> SUFFICES ASSUME k # 0, k <= N PROVE Good(k)
    BY <1>3
  <2>1. k \in 1 .. N /\ k - 1 \in 0 .. N /\ Good(k - 1)
    BY <1>0, <1>4
  <2>2. /\ A[k] = CopyOne(A[k - 1], k, {T}) /\ A[k - 1] \in States
        /\ \A m \in Names \ {T} : A[k - 1].files[m] = fs[m]
        /\ A[k - 1].files \in Store /\ A[k - 1].files[T] \in Text
    <3>1. A[k] = CopyOne(A[k - 1], k, {T})
      BY <1>1, <2>1 DEF CopySteps, N
    <3>2. A[k - 1] \in States /\ Extends(A[k - 1].files, fs, {T})
      BY <1>1, <2>1, StepsExtend DEF N
    <3>3. /\ A[k - 1].files \in Store /\ T \in Names
          /\ \A m \in Names \ {T} : A[k - 1].files[m] = fs[m]
      BY <3>2, Zenon DEF Extends
    <3>4. A[k - 1].files[T] \in Text
      BY <3>3 DEF Store
    <3> QED BY <3>1, <3>2, <3>3, <3>4
  <2>3. Part(A[k - 1].files, k) = Part(fs, k)
    <3>1. Sources[k] \in Names \ {T}
      BY <2>1, ElementOfSeq DEF N
    <3>2. A[k - 1].files[Sources[k]] = fs[Sources[k]]
      BY <2>2, <3>1
    <3> QED BY <3>2, Zenon DEF Part, Missing, Exists, Content
  <2>4. A[k].files[T] = A[k - 1].files[T] \o Part(fs, k)
    <3>1. \A m \in {T} : CopyOne(A[k - 1], k, {T}).files[m] = A[k - 1].files[m] \o Part(A[k - 1].files, k)
      <4>1. {T} \in SUBSET Names
        OBVIOUS
      <4> QED BY <2>1, <2>2, <4>1, OneCopied, Zenon DEF N
    <3> QED BY <2>2, <2>3, <3>1, Zenon
  <2>5. PICK a \in Text, p \in Text, q \in Text, r \in Text :
          a = A[k - 1].files[T] /\ p = Part(fs, k) /\ q = g[k] /\ r = h[k - 1]
    <3>1. Part(fs, k) \in Text
      BY <2>1, Parts DEF N
    <3>2. g[k] \in Text /\ h[k - 1] \in Text
      BY <1>0, <1>2, <2>1 DEF FlattenedBy
    <3> QED BY <2>2, <3>1, <3>2
  <2>6. /\ Blocks(a \o p) = Blocks(a) \o Blocks(p)
        /\ fs[T] \o r \in Text
        /\ Blocks((fs[T] \o r) \o q) = Blocks(fs[T] \o r) \o Blocks(q)
        /\ (fs[T] \o r) \o q = fs[T] \o (r \o q)
    <3>1. fs[T] \o r \in Text
      BY <1>t, ConcatProperties DEF Text
    <3>2. (fs[T] \o r) \o q = fs[T] \o (r \o q)
      BY <1>t, ConcatTexts
    <3> QED BY <3>1, <3>2, BlocksConcat
  <2>7. h[k] = r \o q /\ Blocks(q) = Blocks(p) /\ Blocks(a) = Blocks(fs[T] \o r)
    <3>1. h[k] = h[k - 1] \o g[k]
      BY <1>2, <2>1 DEF FlattenedBy
    <3>2. Blocks(g[k]) = Blocks(Part(fs, k))
      BY <2>1 DEF N
    <3> QED BY <2>1, <2>5, <3>1, <3>2 DEF Good
  <2>8. Blocks(A[k].files[T]) = Blocks(fs[T] \o h[k])
    BY <2>4, <2>5, <2>6, <2>7, Zenon
  <2> QED BY <2>8 DEF Good
<1> HIDE DEF G
<1>5. \A k \in Nat : k \in G
  BY <1>4, NatInductionSet
<1>6. Good(N)
  BY <1>0, <1>5 DEF G
<1> QED BY <1>1, <1>2, <1>6 DEF Good

-----------------------------------------------------------------------------
(***************************************************************************)
(* The line and the arguments that its command is given.                   *)
(***************************************************************************)

Arguments(l) ==
  IF l[1] = "help" THEN <<"cat", HelpFile[l[2]]>> \o SubSeq(l, 3, Len(l)) ELSE l

Executed(l, args) ==
  /\ l \in Lines /\ l # <<>>
  /\ l[1] = "help" => l[2] \in DOMAIN HelpFile
  /\ args = Arguments(l)

\* Help has the command and the file in place of its two words.
LEMMA ArgumentsLike ==
  ASSUME NEW l, NEW args, Executed(l, args)
  PROVE  /\ l \in Seq(STRING) /\ Len(l) \in Nat \ {0}
         /\ DOMAIN l = 1 .. Len(l) /\ DOMAIN args = 1 .. Len(l) /\ Len(args) = Len(l)
         /\ \E W : args \in Seq(W)
         /\ \A i \in 1 .. Len(l) :
              args[i] \in Operators <=> l[i] \in Operators /\ ~ (l[1] = "help" /\ i = 2)
         /\ \A i \in 1 .. Len(l) : i >= 3 => args[i] = l[i]
         /\ l[1] # "help" => args = l
         /\ l[1] = "help" => /\ Len(l) >= 2 /\ l[1] \notin Operators
                             /\ args[1] = "cat" /\ args[2] = HelpFile[l[2]] /\ args[2] \in Names
<1>1. /\ l \in Seq(STRING) /\ Len(l) \in Nat \ {0} /\ DOMAIN l = 1 .. Len(l)
      /\ \A i \in 1 .. Len(l) : l[i] \in STRING
  BY ShellAssumption, LenProperties, EmptySeq, ElementOfSeq DEF Executed
<1>2. CASE l[1] # "help"
  BY <1>1, <1>2 DEF Executed, Arguments
<1>3. CASE l[1] = "help"
  <2> DEFINE h == HelpFile[l[2]]
             r == SubSeq(l, 3, Len(l))
             W == STRING \cup {"cat", h}
  <2>1. Len(l) >= 2
    <3> SUFFICES ASSUME Len(l) = 1 PROVE FALSE
      BY <1>1
    <3>1. l = <<"help">>
      BY <1>1, <1>3
    <3> QED BY <3>1, ShellAssumption DEF Executed
  <2>2. h \in Names /\ h \notin Operators
    BY <1>3, ShellAssumption DEF Executed
  <2>4. r \in Seq(W) /\ Len(r) = Len(l) - 2 /\ \A i \in 1 .. Len(l) - 2 : r[i] = l[i + 2]
    <3>1. PICK N \in Nat : N = Len(l) /\ N >= 2
      BY <1>1, <2>1
    <3>2. \A i \in 3 .. N : l[i] \in W
      BY <1>1, <3>1
    <3>3. /\ r \in Seq(W) /\ Len(r) = IF 3 <= N THEN N - 3 + 1 ELSE 0
          /\ \A i \in 1 .. N - 3 + 1 : r[i] = l[3 + i - 1]
      BY <3>1, <3>2, SubSeqProperties
    <3> HIDE DEF r
    <3>4. Len(r) = N - 2
      BY <3>1, <3>3
    <3>5. ASSUME NEW i \in 1 .. N - 2 PROVE r[i] = l[i + 2]
      <4>1. i \in 1 .. N - 3 + 1 /\ 3 + i - 1 = i + 2
        BY <3>1
      <4> QED BY <3>3, <4>1
    <3> QED BY <3>1, <3>3, <3>4, <3>5
  <2>5. <<"cat", h>> \in Seq(W) /\ Len(<<"cat", h>>) = 2 /\ <<"cat", h>>[1] = "cat" /\ <<"cat", h>>[2] = h
    OBVIOUS
  <2>6. args = <<"cat", h>> \o r
    BY <1>3 DEF Executed, Arguments
  <2> HIDE DEF r, W, h
  <2>7. /\ args \in Seq(W) /\ Len(args) = Len(l)
        /\ args[1] = "cat" /\ args[2] = h
        /\ \A i \in 1 .. Len(l) : i >= 3 => args[i] = l[i]
    <3> DEFINE p == <<"cat", h>>
    <3>1. p \in Seq(W) /\ Len(p) = 2 /\ p[1] = "cat" /\ p[2] = h
      BY <2>5
    <3> HIDE DEF p
    <3>2. /\ p \o r \in Seq(W) /\ Len(p \o r) = Len(p) + Len(r)
          /\ \A i \in 1 .. Len(p) : (p \o r)[i] = p[i]
          /\ \A i \in 1 .. Len(r) : (p \o r)[Len(p) + i] = r[i]
      <4>0. p \in Seq(W) /\ r \in Seq(W)
        BY <2>4, <3>1
      <4>1. PICK q, t, V : V = W /\ q = p /\ t = r
        OBVIOUS
      <4>2. /\ q \o t \in Seq(V) /\ Len(q \o t) = Len(q) + Len(t)
            /\ \A i \in 1 .. Len(q) : (q \o t)[i] = q[i]
            /\ \A i \in 1 .. Len(t) : (q \o t)[Len(q) + i] = t[i]
        <5>1. q \in Seq(V) /\ t \in Seq(V)
          BY <4>0, <4>1, Zenon
        <5> QED BY <5>1, ConcatElements
      <4> QED BY <4>1, <4>2
    <3>3. args = p \o r
      BY <2>6 DEF p
    <3>4. ASSUME NEW i \in 1 .. Len(l), i >= 3 PROVE args[i] = l[i]
      <4>1. i - 2 \in 1 .. Len(r) /\ i - 2 \in 1 .. Len(l) - 2 /\ 2 + (i - 2) = i /\ (i - 2) + 2 = i
        BY <1>1, <2>4, <3>4
      <4>2. (p \o r)[2 + (i - 2)] = r[i - 2] /\ r[i - 2] = l[(i - 2) + 2]
        BY <2>4, <3>1, <3>2, <4>1
      <4> QED BY <3>3, <4>1, <4>2
    <3>5. 1 \in 1 .. Len(p) /\ 2 \in 1 .. Len(p)
      BY <3>1
    <3>6. Len(args) = Len(l)
      <4>1. Len(args) = 2 + (Len(l) - 2)
        BY <2>4, <3>1, <3>2, <3>3, Zenon
      <4> QED BY <1>1, <4>1
    <3> QED BY <3>1, <3>2, <3>3, <3>4, <3>5, <3>6
  <2>8. "help" \notin Operators /\ "cat" \notin Operators
    BY DEF Operators
  <2>9. ASSUME NEW i \in 1 .. Len(l)
        PROVE  args[i] \in Operators <=> l[i] \in Operators /\ ~ (l[1] = "help" /\ i = 2)
    <3>1. i = 1 \/ i = 2 \/ i >= 3
      OBVIOUS
    <3> QED BY <1>3, <2>2, <2>7, <2>8, <3>1
  <2>10. DOMAIN args = 1 .. Len(l)
    BY <2>7, LenProperties
  <2> QED BY <1>1, <1>3, <2>1, <2>2, <2>7, <2>8, <2>9, <2>10 DEF h
<1> QED BY <1>2, <1>3

\* The operators of the line are where the child finds them.
LEMMA OperatorsFound ==
  ASSUME Executed(line, commandArgs)
  PROVE  /\ Redirections = {i \in 1 .. Len(line) : line[i] \in Operators /\ ~ (line[1] = "help" /\ i = 2)}
         /\ Redirections = {} => LastOperator = 0
         /\ Redirections # {} =>
              /\ initial_redirection_index \in Redirections
              /\ \A r \in Redirections : initial_redirection_index <= r
              /\ initial_redirection_index = Min(OperatorPositions)
              /\ final_redirection_index \in Redirections
              /\ \A r \in Redirections : r <= final_redirection_index
              /\ LastOperator = final_redirection_index
              /\ Redirecting = line[LastOperator]
<1> DEFINE R == {i \in 1 .. Len(line) : line[i] \in Operators /\ ~ (line[1] = "help" /\ i = 2)}
<1>1. Redirections = R /\ OperatorPositions = R
  BY ArgumentsLike DEF Redirections, OperatorPositions
<1>2. Len(line) \in Nat /\ R \subseteq Nat /\ IsFiniteSet(R) /\ \A i \in R : i >= 1
  <2>1. Len(line) \in Nat
    BY ArgumentsLike
  <2>2. IsFiniteSet(1 .. Len(line)) /\ R \in SUBSET (1 .. Len(line))
    BY <2>1, FS_Interval
  <2> QED BY <2>1, <2>2, FS_Subset
<1>3. LastOperator = Max(R \cup {0})
  BY <1>1 DEF LastOperator
<1>4. R = {} => LastOperator = 0
  <2> SUFFICES ASSUME R = {} PROVE Max({0}) = 0
    BY <1>3
  <2> QED BY DEF Max
<1>5. ASSUME R # {}
      PROVE  /\ Min(R) \in R /\ \A r \in R : Min(R) <= r
             /\ Max(R) \in R /\ \A r \in R : r <= Max(R)
             /\ LastOperator = Max(R)
  <2>1. Min(R) \in R /\ \A r \in R : Min(R) <= r
    BY <1>2, <1>5, LeastNat
  <2> HIDE DEF R
  <2>2. PICK m \in R : \A x \in R : x <= m
    <3>1. R \subseteq Int
      BY <1>2
    <3> QED BY <1>2, <1>5, <3>1, Extremes
  <2>3. Max(R) \in R /\ \A r \in R : r <= Max(R)
    <3>1. \A x \in R : m >= x
      BY <1>2, <2>2
    <3>2. Max(R) \in R /\ \A r \in R : Max(R) >= r
      BY <3>1 DEF Max
    <3> QED BY <1>2, <3>2
  <2>4. Max(R \cup {0}) \in R \cup {0} /\ \A r \in R \cup {0} : Max(R \cup {0}) >= r
    <3>1. m \in R \cup {0} /\ \A x \in R \cup {0} : m >= x
      BY <1>2, <2>2
    <3> QED BY <3>1 DEF Max
  <2>5. Max(R \cup {0}) = Max(R)
    <3>1. PICK a \in R, b \in R \cup {0} : a = Max(R) /\ b = Max(R \cup {0})
      BY <2>3, <2>4
    <3>2. a \in Nat /\ b \in Nat /\ a >= 1
      BY <1>2
    <3>3. b >= a /\ (b \in R => b <= a)
      BY <2>3, <2>4, <3>1
    <3> QED BY <3>1, <3>2, <3>3
  <2> QED BY <1>3, <2>1, <2>3, <2>5
<1>6. ASSUME R # {} PROVE Redirecting = line[LastOperator]
  <2>1. /\ LastOperator \in 1 .. Len(line) /\ line[LastOperator] \in Operators
        /\ ~ (line[1] = "help" /\ LastOperator = 2)
    BY <1>5, <1>6
  <2>2. commandArgs[LastOperator] = line[LastOperator]
    <3>1. line[1] = "help" => LastOperator >= 3
      BY <2>1, ArgumentsLike
    <3> QED BY <2>1, <3>1, ArgumentsLike
  <2> QED BY <1>1, <1>5, <1>6, <2>2 DEF Redirecting, final_redirection_index
<1> HIDE DEF R
<1>7. Min(OperatorPositions) = Min(R)
  BY <1>1, Zenon
<1> QED BY <1>1, <1>4, <1>5, <1>6, <1>7 DEF initial_redirection_index, final_redirection_index, R

\* What cat reads are names.
LEMMA SourcesAreNames ==
  ASSUME Executed(line, commandArgs), commandArgs[1] = "cat"
  PROVE  Sources \in Seq(Names)
<1> DEFINE e == IF redirectionPresent THEN initial_redirection_index - 1 ELSE Len(commandArgs)
<1>1. PICK W : commandArgs \in Seq(W)
  BY ArgumentsLike
<1>2. /\ Len(commandArgs) = Len(line) /\ Len(line) \in Nat \ {0}
      /\ e \in 0 .. Len(line) /\ \A i \in 1 .. e : commandArgs[i] \notin Operators
  <2>1. CASE redirectionPresent
    <3>1. /\ initial_redirection_index \in 1 .. Len(line)
          /\ \A i \in 1 .. Len(line) :
               line[i] \in Operators /\ ~ (line[1] = "help" /\ i = 2) => initial_redirection_index <= i
      BY <2>1, OperatorsFound DEF redirectionPresent
    <3> QED BY <2>1, <3>1, ArgumentsLike
  <2>2. CASE ~ redirectionPresent
    <3>1. \A i \in 1 .. Len(line) : line[i] \in Operators => line[1] = "help" /\ i = 2
      BY <2>2, OperatorsFound DEF redirectionPresent
    <3> QED BY <2>2, <3>1, ArgumentsLike
  <2> QED BY <2>1, <2>2
<1>3. Sources = SubSeq(commandArgs, 2, e)
  BY Zenon DEF Sources
<1> HIDE DEF e
<1>4. ASSUME NEW i \in 2 .. e PROVE commandArgs[i] \in Names
  <2>1. i \in 1 .. e /\ i \in 1 .. Len(line) /\ i \in 2 .. Len(line)
    BY <1>2
  <2>2. line \in Lines /\ (line[i] \notin Operators \/ (line[1] = "help" /\ i = 2))
    BY <1>2, <2>1, ArgumentsLike DEF Executed
  <2>3. CASE line[1] # "help"
    BY <2>1, <2>2, <2>3, ArgumentsLike, NamesAssumption
  <2>4. CASE line[1] = "help" /\ i = 2
    BY <2>4, ArgumentsLike
  <2>5. CASE line[1] = "help" /\ i > 2
    <3>1. line[i] \in Names
      BY <2>1, <2>2, <2>5, NamesAssumption
    <3>2. commandArgs[i] = line[i]
      BY <2>1, <2>5, ArgumentsLike
    <3> QED BY <3>1, <3>2
  <2> QED BY <2>1, <2>3, <2>4, <2>5
<1>5. CASE e < 2
  <2>1. SubSeq(commandArgs, 2, e) = <<>>
    BY <1>1, <1>2, <1>5, SubSeqEmpty
  <2>2. <<>> \in Seq(Names)
    OBVIOUS
  <2> QED BY <1>3, <2>1, <2>2, Zenon
<1>6. CASE e >= 2
  <2>1. 2 \in 1 .. Len(commandArgs) + 1 /\ e \in 2 - 1 .. Len(commandArgs)
    BY <1>2, <1>6
  <2>2. /\ SubSeq(commandArgs, 2, e) \in Seq(W) /\ Len(SubSeq(commandArgs, 2, e)) = e - 2 + 1
        /\ \A i \in 1 .. e - 2 + 1 : SubSeq(commandArgs, 2, e)[i] = commandArgs[2 + i - 1]
    BY <1>1, <1>2, <1>6, <2>1, SubSeqProperties
  <2>3. /\ Sources \in Seq(W) /\ Len(Sources) = e - 1
        /\ \A i \in 1 .. e - 1 : Sources[i] = commandArgs[i + 1]
    BY <1>2, <1>3, <1>6, <2>2
  <2>4. \A i \in 1 .. Len(Sources) : Sources[i] \in Names
    BY <1>2, <1>4, <2>3
  <2>5. Sources = [i \in 1 .. Len(Sources) |-> Sources[i]]
    BY <2>3
  <2>6. Sources \in [1 .. Len(Sources) -> Names] /\ Len(Sources) \in Nat
    BY <2>3, <2>4, <2>5, LenProperties, Zenon
  <2> QED BY <2>6
<1> QED BY <1>2, <1>5, <1>6

-----------------------------------------------------------------------------
(***************************************************************************)
(* mkdir.                                                                  *)
(***************************************************************************)

\* Prefixes of a path.
LEMMA PrefixElements ==
  ASSUME NEW S, NEW s \in Seq(S), NEW k \in 0 .. Len(s)
  PROVE  /\ SubSeq(s, 1, k) \in Seq(S) /\ Len(SubSeq(s, 1, k)) = k
         /\ \A i \in 1 .. k : SubSeq(s, 1, k)[i] = s[i]
<1>1. \A i \in 1 .. k : s[i] \in S
  BY ElementOfSeq, LenProperties
<1>2. /\ SubSeq(s, 1, k) \in Seq(S) /\ Len(SubSeq(s, 1, k)) = IF 1 <= k THEN k - 1 + 1 ELSE 0
      /\ \A i \in 1 .. k - 1 + 1 : SubSeq(s, 1, k)[i] = s[1 + i - 1]
  <2>1. 1 \in Int /\ k \in Int
    BY LenProperties
  <2> QED BY <1>1, <2>1, SubSeqProperties
<1> QED BY <1>2

LEMMA SamePrefix ==
  ASSUME NEW S, NEW s \in Seq(S), NEW t \in Seq(S), NEW k \in Nat, k <= Len(s), k <= Len(t),
         \A i \in 1 .. k : s[i] = t[i]
  PROVE  SubSeq(s, 1, k) = SubSeq(t, 1, k)
<1>1. k \in 0 .. Len(s) /\ k \in 0 .. Len(t)
  BY LenProperties
<1>2. PICK f, g : f = SubSeq(s, 1, k) /\ g = SubSeq(t, 1, k)
  OBVIOUS
<1>3. /\ f \in Seq(S) /\ Len(f) = k /\ \A i \in 1 .. k : f[i] = s[i]
      /\ g \in Seq(S) /\ Len(g) = k /\ \A i \in 1 .. k : g[i] = t[i]
  BY <1>1, <1>2, PrefixElements
<1>4. f = g
  BY <1>3
<1> QED BY <1>2, <1>4

LEMMA FrontIsPrefix ==
  ASSUME NEW S, NEW s \in Seq(S), NEW k \in 1 .. Len(s)
  PROVE  Front(SubSeq(s, 1, k)) = SubSeq(s, 1, k - 1)
<1>0. Len(s) \in Nat /\ k \in Nat /\ k \in 0 .. Len(s) /\ k - 1 \in Nat /\ k - 1 <= k /\ k - 1 <= Len(s)
  BY LenProperties
<1>1. PICK p : p = SubSeq(s, 1, k)
  OBVIOUS
<1>2. p \in Seq(S) /\ Len(p) = k /\ \A i \in 1 .. k : p[i] = s[i]
  BY <1>0, <1>1, PrefixElements
<1>3. Front(p) = SubSeq(p, 1, k - 1)
  BY <1>2 DEF Front
<1>4. \A i \in 1 .. k - 1 : p[i] = s[i]
  BY <1>0, <1>2
<1>5. SubSeq(p, 1, k - 1) = SubSeq(s, 1, k - 1)
  BY <1>0, <1>2, <1>4, SamePrefix
<1> QED BY <1>1, <1>3, <1>5

\* A file has the name of the path or of a directory above it.
Blocked(path) == \E k \in 1 .. Len(path) : IsPrefixOfFile(SubSeq(path, 1, k))

MadeOrBlocked(D, path) == path \in D \/ Blocked(path)

\* Each directory above the path is made in its turn, unless a file is in the way.
LEMMA DirectoryMade ==
  ASSUME NEW D \in SUBSET Paths, <<>> \in D, NEW path \in Paths
  PROVE  /\ createDirectory(D, path) \in SUBSET Paths
         /\ D \subseteq createDirectory(D, path)
         /\ MadeOrBlocked(createDirectory(D, path), path)
<1> DEFINE N == Len(path)
           p(k) == SubSeq(path, 1, k)
           Step(E, k) == IF MayMake(E, p(k)) THEN E \cup {p(k)} ELSE E
           F == [q \in (1 .. N) \X SUBSET Paths |-> Step(q[2], q[1])]
           Eq(A) == A = [k \in 0 .. N |-> IF k = 0 THEN D ELSE Step(A[k - 1], k)]
           C == CHOOSE A : Eq(A)
<1>0. N \in Nat /\ path \in Seq(STRING)
  BY LenProperties DEF Paths
<1>1. \A k \in 0 .. N : p(k) \in Paths
  BY <1>0, PrefixElements DEF Paths
<1>2. p(0) = <<>> /\ p(N) = path
  <2>1. p(0) = <<>>
    BY SubSeqEmpty
  <2>2. p(N) = path
    BY <1>0, SubSeqFull
  <2> QED BY <2>1, <2>2
<1>3. \A k \in 1 .. N : Front(p(k)) = p(k - 1)
  BY <1>0, FrontIsPrefix
<1> HIDE DEF p
<1>4. \A E \in SUBSET Paths, k \in 1 .. N : Step(E, k) \in SUBSET Paths
  BY <1>0, <1>1
<1>5. createDirectory(D, path) = C[N]
  BY Zenon DEF createDirectory, p
<1>6. \A k \in 1 .. N, E \in SUBSET Paths : F[<<k, E>>] = Step(E, k)
  <2> HIDE DEF Step
  <2> QED OBVIOUS
<1>7. F \in [(1 .. N) \X SUBSET Paths -> SUBSET Paths]
  <2> HIDE DEF Step
  <2> QED BY <1>4
<1> HIDE DEF F, N, Step
<1>8. PICK f \in [0 .. N -> SUBSET Paths] : IsRecursive(f, N, D, F)
  BY <1>0, <1>7, RecursionExists
<1>9. Eq(f)
  <2>1. f = [k \in 0 .. N |-> IF k = 0 THEN D ELSE F[<<k, f[k - 1]>>]]
    BY <1>8 DEF IsRecursive
  <2>2. ASSUME NEW k \in 0 .. N, k # 0 PROVE F[<<k, f[k - 1]>>] = Step(f[k - 1], k)
    <3>1. k \in 1 .. N /\ k - 1 \in 0 .. N
      BY <1>0, <2>2
    <3> QED BY <1>6, <3>1
  <2> QED BY <2>1, <2>2, Zenon
<1>10. Eq(C)
  BY <1>9
<1> HIDE DEF C
<1>11. \A k \in 0 .. N : C[k] = IF k = 0 THEN D ELSE Step(C[k - 1], k)
  BY <1>10, Zenon
<1>12. C[0] = D /\ \A k \in 1 .. N : C[k] = Step(C[k - 1], k)
  BY <1>0, <1>11
<1> DEFINE Good(k) == C[k] \in SUBSET Paths /\ D \subseteq C[k] /\ MadeOrBlocked(C[k], p(k))
           G == {k \in Nat : k <= N => Good(k)}
<1>13. Good(0)
  BY <1>2, <1>12 DEF MadeOrBlocked
<1>14. ASSUME NEW k \in Nat, k # 0, k <= N, Good(k - 1) PROVE Good(k)
  <2>1. k \in 1 .. N /\ k - 1 \in 0 .. N
    BY <1>0, <1>14
  <2>2. C[k] = Step(C[k - 1], k)
    BY <1>12, <2>1
  <2>3. C[k] \in SUBSET Paths /\ D \subseteq C[k]
    BY <1>4, <1>14, <2>1, <2>2 DEF Step
  <2>4. Blocked(p(k)) \/ p(k) \in C[k]
    <3>1. CASE Blocked(p(k - 1))
      <4>1. PICK j \in 1 .. Len(p(k - 1)) : IsPrefixOfFile(SubSeq(p(k - 1), 1, j))
        BY <3>1 DEF Blocked
      <4>2. j \in 1 .. Len(p(k)) /\ SubSeq(p(k), 1, j) = SubSeq(p(k - 1), 1, j)
        <5>1. /\ Len(p(k)) = k /\ Len(p(k - 1)) = k - 1
              /\ \A i \in 1 .. k : p(k)[i] = path[i]
              /\ \A i \in 1 .. k - 1 : p(k - 1)[i] = path[i]
          BY <1>0, <2>1, PrefixElements DEF p, N
        <5>2. j \in 1 .. k - 1 /\ j \in 1 .. k
          BY <2>1, <4>1, <5>1
        <5>3. \A i \in 1 .. j : p(k)[i] = p(k - 1)[i]
          BY <2>1, <5>1, <5>2
        <5>4. SubSeq(p(k), 1, j) = SubSeq(p(k - 1), 1, j)
          <6>1. p(k) \in Seq(STRING) /\ p(k - 1) \in Seq(STRING)
            BY <1>0, <1>1, <2>1 DEF Paths
          <6>2. j \in Nat /\ j <= Len(p(k)) /\ j <= Len(p(k - 1))
            BY <2>1, <5>1, <5>2
          <6> QED BY <5>3, <6>1, <6>2, SamePrefix
        <5> QED BY <5>1, <5>2, <5>4
      <4> QED BY <4>1, <4>2 DEF Blocked
    <3>2. CASE p(k - 1) \in C[k - 1] /\ IsPrefixOfFile(p(k))
      <4>1. Len(p(k)) = k /\ p(k) \in Seq(STRING)
        BY <1>0, <1>1, <2>1, PrefixElements DEF p, N, Paths
      <4>2. SubSeq(p(k), 1, k) = p(k)
        BY <4>1, SubSeqFull
      <4>3. k \in 1 .. Len(p(k))
        BY <2>1, <4>1
      <4> QED BY <3>2, <4>2, <4>3 DEF Blocked
    <3>3. CASE p(k - 1) \in C[k - 1] /\ ~ IsPrefixOfFile(p(k))
      <4>1. Front(p(k)) \in C[k - 1]
        BY <1>3, <2>1, <3>3
      <4> QED BY <2>2, <3>3, <4>1 DEF Step, MayMake
    <3> QED BY <1>14, <3>1, <3>2, <3>3 DEF MadeOrBlocked
  <2> QED BY <2>3, <2>4 DEF MadeOrBlocked
<1>15. \A k \in Nat : k \in G
  <2> HIDE DEF Good
  <2>1. ASSUME NEW k \in Nat, k # 0 => k - 1 \in G PROVE k \in G
    <3>1. CASE k = 0
      BY <1>13, <3>1
    <3>2. CASE k # 0 /\ k <= N
      <4>1. k - 1 \in G /\ k - 1 <= N
        BY <1>0, <2>1, <3>2
      <4> QED BY <1>14, <3>2, <4>1
    <3> QED BY <3>1, <3>2
  <2> HIDE DEF G
  <2> QED BY <2>1, NatInductionSet
<1>16. Good(N)
  <2> HIDE DEF Good
  <2>1. N \in G /\ N <= N
    BY <1>0, <1>15
  <2> QED BY <2>1
<1> QED BY <1>2, <1>5, <1>16

LEMMA PathsMade ==
  ASSUME dirs \in SUBSET Paths, <<>> \in dirs, mkdirCall, Len(commandArgs) \in Nat \ {0},
         \A i \in 2 .. Len(commandArgs) : commandArgs[i] \in DOMAIN PathOf
  PROVE  /\ dirs' \in SUBSET Paths /\ <<>> \in dirs'
         /\ \A i \in 2 .. Len(commandArgs) : MadeOrBlocked(dirs', PathOf[commandArgs[i]])
<1> DEFINE N == Len(commandArgs)
           path(i) == PathOf[commandArgs[i]]
           F == [q \in (1 .. N - 1) \X SUBSET Paths |-> createDirectory(q[2] \cup {<<>>}, path(q[1] + 1))]
           Eq(A) == A = [k \in 1 .. N |-> IF k = 1 THEN dirs ELSE createDirectory(A[k - 1], path(k))]
           C == CHOOSE A : Eq(A)
<1>0. N - 1 \in Nat /\ N \in Nat
  OBVIOUS
<1>1. \A i \in 2 .. N : path(i) \in Paths
  BY ShellAssumption DEF Paths
<1>2. dirs' = C[N]
  BY Zenon DEF mkdirCall
<1> HIDE DEF N
<1>3. ASSUME NEW i \in 1 .. N - 1, NEW E \in SUBSET Paths
      PROVE  /\ createDirectory(E \cup {<<>>}, path(i + 1)) \in SUBSET Paths
             /\ <<>> \in createDirectory(E \cup {<<>>}, path(i + 1))
  <2>1. path(i + 1) \in Paths
    <3>1. i + 1 \in 2 .. N
      BY <1>0
    <3> QED BY <1>1, <3>1
  <2>2. E \cup {<<>>} \in SUBSET Paths /\ <<>> \in E \cup {<<>>}
    BY DEF Paths
  <2>3. PICK D \in SUBSET Paths, p \in Paths : D = E \cup {<<>>} /\ p = path(i + 1)
    BY <2>1, <2>2
  <2>4. createDirectory(D, p) \in SUBSET Paths /\ D \subseteq createDirectory(D, p)
    <3>1. <<>> \in D
      BY <2>3
    <3> QED BY <3>1, DirectoryMade, Zenon
  <2> QED BY <2>2, <2>3, <2>4
<1> HIDE DEF path
<1>4. F \in [(1 .. N - 1) \X SUBSET Paths -> SUBSET Paths]
  BY <1>3
<1>5. \A i \in 1 .. N - 1, E \in SUBSET Paths : F[<<i, E>>] = createDirectory(E \cup {<<>>}, path(i + 1))
  OBVIOUS
<1> HIDE DEF F
<1>6. PICK f \in [0 .. N - 1 -> SUBSET Paths] : IsRecursive(f, N - 1, dirs, F)
  BY <1>0, <1>4, RecursionExists
<1>7. \A i \in 0 .. N - 1 : f[i] = IF i = 0 THEN dirs ELSE F[<<i, f[i - 1]>>]
  BY <1>6, Zenon DEF IsRecursive
<1>8. \A i \in 0 .. N - 1 : <<>> \in f[i]
  <2> DEFINE G == {i \in Nat : i <= N - 1 => <<>> \in f[i]}
  <2>1. ASSUME NEW i \in Nat, i # 0 => i - 1 \in G PROVE i \in G
    <3>1. CASE i = 0
      <4>1. 0 \in 0 .. N - 1
        BY <1>0
      <4>2. f[0] = dirs
        BY <1>7, <4>1
      <4> QED BY <3>1, <4>2
    <3>2. CASE i # 0 /\ i <= N - 1
      <4>1. i \in 1 .. N - 1 /\ i \in 0 .. N - 1 /\ i - 1 \in 0 .. N - 1
        BY <1>0, <3>2
      <4>2. f[i] = createDirectory(f[i - 1] \cup {<<>>}, path(i + 1)) /\ f[i - 1] \in SUBSET Paths
        BY <1>5, <1>7, <3>2, <4>1
      <4>3. <<>> \in f[i]
        BY <1>3, <4>1, <4>2
      <4> QED BY <4>3
    <3> QED BY <3>1, <3>2
  <2> HIDE DEF G
  <2>2. \A i \in Nat : i \in G
    BY <2>1, NatInductionSet
  <2> QED BY <1>0, <2>2 DEF G
<1>9. Eq([k \in 1 .. N |-> f[k - 1]])
  <2> DEFINE g == [k \in 1 .. N |-> f[k - 1]]
  <2>1. ASSUME NEW k \in 1 .. N
        PROVE  f[k - 1] = IF k = 1 THEN dirs ELSE createDirectory(g[k - 1], path(k))
    <3>1. CASE k = 1
      <4>1. 0 \in 0 .. N - 1 /\ k - 1 = 0
        BY <1>0, <3>1
      <4> QED BY <1>7, <3>1, <4>1
    <3>2. CASE k # 1
      <4>1. k - 1 \in 1 .. N /\ k - 1 \in 1 .. N - 1 /\ k - 1 \in 0 .. N - 1 /\ (k - 1) - 1 \in 0 .. N - 1
            /\ k - 1 # 0 /\ (k - 1) + 1 = k
        BY <1>0, <3>2
      <4>2. g[k - 1] = f[(k - 1) - 1] /\ f[(k - 1) - 1] \in SUBSET Paths /\ <<>> \in f[(k - 1) - 1]
        BY <1>8, <4>1
      <4>3. f[k - 1] = F[<<k - 1, f[(k - 1) - 1]>>]
        BY <1>7, <4>1
      <4>4. F[<<k - 1, f[(k - 1) - 1]>>] = createDirectory(f[(k - 1) - 1] \cup {<<>>}, path(k))
        BY <1>5, <4>1, <4>2
      <4>5. f[(k - 1) - 1] \cup {<<>>} = f[(k - 1) - 1]
        BY <4>2
      <4>6. f[k - 1] = createDirectory(g[k - 1], path(k))
        BY <4>2, <4>3, <4>4, <4>5, Zenon
      <4> QED BY <3>2, <4>6
    <3> QED BY <3>1, <3>2
  <2> QED BY <2>1, Zenon
<1>10. Eq(C)
  BY <1>9
<1> HIDE DEF C
<1>11. \A k \in 1 .. N : C[k] = IF k = 1 THEN dirs ELSE createDirectory(C[k - 1], path(k))
  BY <1>10, Zenon
<1> DEFINE Good(k) == /\ C[k] \in SUBSET Paths /\ <<>> \in C[k]
                      /\ \A i \in 2 .. k : MadeOrBlocked(C[k], path(i))
           G == {k \in Nat : k \in 1 .. N => Good(k)}
<1>12. ASSUME 1 \in 1 .. N PROVE Good(1)
  <2>1. C[1] = dirs
    BY <1>11, <1>12
  <2> QED BY <2>1
<1>13. ASSUME NEW k \in 2 .. N, Good(k - 1) PROVE Good(k)
  <2>1. k \in 1 .. N /\ k # 1 /\ path(k) \in Paths /\ k \in Nat
    BY <1>0, <1>1
  <2>2. C[k] = createDirectory(C[k - 1], path(k))
    BY <1>11, <2>1
  <2>3. /\ C[k] \in SUBSET Paths /\ C[k - 1] \subseteq C[k]
        /\ MadeOrBlocked(C[k], path(k))
    BY <1>13, <2>1, <2>2, DirectoryMade
  <2>4. ASSUME NEW i \in 2 .. k PROVE MadeOrBlocked(C[k], path(i))
    <3>1. CASE i = k
      BY <2>3, <3>1
    <3>2. CASE i # k
      <4>1. i \in 2 .. k - 1
        BY <2>1, <3>2
      <4>2. MadeOrBlocked(C[k - 1], path(i))
        BY <1>13, <4>1
      <4> QED BY <2>3, <4>2 DEF MadeOrBlocked
    <3> QED BY <3>1, <3>2
  <2>5. <<>> \in C[k]
    BY <1>13, <2>3
  <2> QED BY <2>3, <2>4, <2>5
<1>14. \A k \in Nat : k \in G
  <2> HIDE DEF Good
  <2>1. ASSUME NEW k \in Nat, k # 0 => k - 1 \in G PROVE k \in G
    <3>1. CASE k = 1
      BY <1>12, <3>1
    <3>2. CASE k \in 2 .. N
      <4>1. k - 1 \in 1 .. N /\ k - 1 \in G
        BY <1>0, <2>1, <3>2
      <4>2. Good(k - 1)
        BY <4>1
      <4> QED BY <1>13, <3>2, <4>2
    <3> QED BY <1>0, <3>1, <3>2
  <2> HIDE DEF G
  <2> QED BY <2>1, NatInductionSet
<1>15. Good(N)
  <2> HIDE DEF Good
  <2>1. N \in G /\ N \in 1 .. N
    BY <1>0, <1>14
  <2> QED BY <2>1
<1> QED BY <1>2, <1>15 DEF N, path

-----------------------------------------------------------------------------
(***************************************************************************)
(* What executing a command does to the files.                             *)
(***************************************************************************)

ShellTypeOK ==
  /\ phase \in {"prompt", "forked", "prepared", "exited", "ended"}
  /\ files \in Store /\ before \in Store
  /\ dirs \in SUBSET Paths /\ <<>> \in dirs

\* A text that is printed or typed.
LEMMA SomeText == \A out \in Typed \cup Printed \cup {<<"processes">>} : out \in Text
<1>1. \A b \in Block : <<b>> \in Text
  BY DEF Text
<1>2. <<"typed">> \in Text /\ <<"printed">> \in Text /\ <<"processes">> \in Text
  BY <1>1 DEF Block
<1>3. <<>> \in Text
  BY DEF Text
<1> QED BY <1>2, <1>3 DEF Typed, Printed

LEMMA Written ==
  ASSUME NEW fs \in Store, NEW T \in Names, NEW out \in Text, Write(fs, {T}, out)
  PROVE  Extends(files', fs, {T})
<1>1. files' = [m \in Names |-> IF m \in {T} THEN fs[m] \o out ELSE fs[m]]
  BY DEF Write
<1>2. \A m \in Names : fs[m] \in Text /\ fs[m] \o out \in Text
  BY ConcatElements DEF Store, Text
<1>3. files' \in Store
  BY <1>1, <1>2 DEF Store
<1>4. files'[T] = fs[T] \o out /\ \A m \in Names \ {T} : files'[m] = fs[m]
  BY <1>1
<1> QED BY <1>3, <1>4 DEF Extends

LEMMA OpenedIs ==
  ASSUME files \in Store
  PROVE  /\ Opened \in Store
         /\ \A m \in Names :
              Opened[m] = IF /\ m = commandArgs[final_redirection_index + 1]
                             /\ Redirecting = ">" \/ ~ Exists(files, m)
                          THEN <<>> ELSE files[m]
<1>1. \A m \in Names : files[m] \in Text /\ <<>> \in Text
  BY DEF Store, Text
<1> QED BY <1>1 DEF Opened, Store

\* After the last operator there is a name, unless it ends the line.
LEMMA TargetIs ==
  ASSUME Executed(line, commandArgs), redirectionPresent
  PROVE  /\ Redirected <=> final_redirection_index # Len(commandArgs)
         /\ Redirected => /\ Target = commandArgs[final_redirection_index + 1]
                          /\ Target \in Names
<1> DEFINE f == final_redirection_index
<1>1. /\ f \in 1 .. Len(line) /\ line[f] \in Operators /\ LastOperator = f
      /\ ~ (line[1] = "help" /\ f = 2)
      /\ \A i \in 1 .. Len(line) :
           line[i] \in Operators /\ ~ (line[1] = "help" /\ i = 2) => i <= f
      /\ Len(commandArgs) = Len(line) /\ Len(line) \in Nat
  BY OperatorsFound, ArgumentsLike DEF redirectionPresent
<1>2. f = Len(commandArgs) \/ f \in 1 .. Len(line) - 1
  BY <1>1
<1>3. Redirected <=> f # Len(commandArgs)
  BY <1>1, <1>2 DEF Redirected
<1>4. ASSUME Redirected PROVE Target = commandArgs[f + 1] /\ Target \in Names
  <2>1. f + 1 \in 1 .. Len(line) /\ f + 1 \in 2 .. Len(line) /\ (f + 1) - 1 = f
    BY <1>1, <1>2, <1>3, <1>4
  <2>2. line[f + 1] \notin Operators
    <3>1. f + 1 = 2 => line[1] # "help"
      BY <1>1, ArgumentsLike
    <3> QED BY <1>1, <2>1, <3>1
  <2>3. line[f + 1] \in Names
    <3>1. line \in Lines
      BY DEF Executed
    <3> QED BY <1>1, <2>1, <2>2, <3>1, NamesAssumption
  <2>4. commandArgs[f + 1] = line[f + 1]
    <3>1. line[1] = "help" => f + 1 >= 3
      BY <1>1, ArgumentsLike
    <3> QED BY <2>1, <3>1, ArgumentsLike
  <2>5. Target = line[f + 1]
    BY <1>1 DEF Target
  <2> QED BY <2>3, <2>4, <2>5
<1> QED BY <1>3, <1>4

\* With a target the files grow from those opened, else they are left as they were.
FilesChanged ==
  \/ files' = files /\ (Redirected => IsDirectory(Target))
  \/ /\ Redirected /\ Target \in Names /\ ~ IsDirectory(Target)
     /\ Target = commandArgs[final_redirection_index + 1]
     /\ Extends(files', Opened, {Target})
     /\ commandArgs[1] = "cat" /\ Sources # <<>> => files' = Copied(Opened, {Target}).files

LEMMA RedirectedFiles ==
  ASSUME ShellTypeOK, Executed(line, commandArgs), redirectionPresent, redirectConsoleOutput
  PROVE  FilesChanged
<1> DEFINE T == commandArgs[final_redirection_index + 1]
<1>1. CASE final_redirection_index = Len(commandArgs) \/ IsDirectory(T)
  <2>1. files' = files
    BY <1>1 DEF redirectConsoleOutput
  <2>2. Redirected => IsDirectory(Target)
    BY <1>1, TargetIs
  <2> QED BY <2>1, <2>2 DEF FilesChanged
<1>2. CASE ~ (final_redirection_index = Len(commandArgs) \/ IsDirectory(T))
  <2>1. Redirected /\ Target = T /\ T \in Names /\ ~ IsDirectory(T)
    BY <1>2, TargetIs
  <2>2. CASE commandArgs[1] = "cat"
    <3>1. isCatCommandValid(Opened, {T})
      BY <1>2, <2>2 DEF redirectConsoleOutput
    <3>2. Opened \in Store
      BY OpenedIs DEF ShellTypeOK
    <3>3. CASE Sources = <<>>
      <4>1. \E out \in Typed : Write(Opened, {T}, out)
        BY <3>1, <3>3 DEF isCatCommandValid
      <4>2. Extends(files', Opened, {T})
        BY <2>1, <3>2, <4>1, SomeText, Written
      <4> QED BY <2>1, <3>3, <4>2 DEF FilesChanged
    <3>4. CASE Sources # <<>>
      <4>1. files' = Copied(Opened, {T}).files
        BY <3>1, <3>4 DEF isCatCommandValid
      <4>2. Sources \in Seq(Names) /\ {T} \in SUBSET Names
        BY <2>1, <2>2, SourcesAreNames
      <4>3. Extends(files', Opened, {T})
        BY <3>2, <4>1, <4>2, CopiedFiles
      <4> QED BY <2>1, <4>1, <4>3 DEF FilesChanged
    <3> QED BY <3>3, <3>4
  <2>3. CASE commandArgs[1] # "cat"
    <3>1. \E out \in Printed \cup {<<"processes">>} : Write(Opened, {T}, out)
      BY <1>2, <2>3 DEF redirectConsoleOutput
    <3>2. Opened \in Store
      BY OpenedIs DEF ShellTypeOK
    <3>3. Extends(files', Opened, {T})
      BY <2>1, <3>1, <3>2, SomeText, Written
    <3> QED BY <2>1, <2>3, <3>3 DEF FilesChanged
  <2> QED BY <2>2, <2>3
<1> QED BY <1>1, <1>2

LEMMA ExecuteFiles ==
  ASSUME ShellTypeOK, Executed(line, commandArgs), Execute
  PROVE  /\ files' \in Store /\ FilesChanged
         /\ dirs' = dirs \/ (~ redirectionPresent /\ commandArgs[1] = "mkdir")
         /\ ~ redirectionPresent /\ commandArgs[1] = "mkdir" => mkdirCall /\ files' = files
<1>1. CASE redirectionPresent
  <2>1. redirectConsoleOutput /\ dirs' = dirs
    BY <1>1 DEF Execute
  <2>2. FilesChanged
    BY <1>1, <2>1, RedirectedFiles
  <2>3. files' \in Store
    BY <2>2 DEF FilesChanged, Extends, ShellTypeOK
  <2> QED BY <1>1, <2>1, <2>2, <2>3
<1>2. CASE ~ redirectionPresent
  <2>1. ~ Redirected
    <3>1. LastOperator = 0
      BY <1>2, OperatorsFound DEF redirectionPresent
    <3> QED BY <3>1 DEF Redirected
  <2>2. files' = files
    <3>1. CASE commandArgs[1] = "cat" /\ Sources = <<>>
      BY <1>2, <3>1 DEF Execute, isCatCommandValid, Write
    <3>2. CASE commandArgs[1] = "cat" /\ Sources # <<>>
      <4>1. files' = Copied(files, {}).files
        BY <1>2, <3>2 DEF Execute, isCatCommandValid
      <4>2. Sources \in Seq(Names) /\ {} \in SUBSET Names /\ files \in Store
        BY <3>2, SourcesAreNames DEF ShellTypeOK
      <4>3. Extends(files', files, {})
        BY <4>1, <4>2, CopiedFiles
      <4>4. files' \in Store /\ \A m \in Names : files'[m] = files[m]
        BY <4>3 DEF Extends
      <4> QED BY <4>2, <4>4 DEF Store
    <3>3. CASE commandArgs[1] # "cat"
      BY <1>2, <3>3 DEF Execute
    <3> QED BY <3>1, <3>2, <3>3
  <2>3. dirs' = dirs \/ commandArgs[1] = "mkdir"
    BY <1>2 DEF Execute
  <2>4. commandArgs[1] = "mkdir" => mkdirCall
    BY <1>2 DEF Execute
  <2> QED BY <1>2, <2>1, <2>2, <2>3, <2>4 DEF FilesChanged, ShellTypeOK
<1> QED BY <1>1, <1>2

-----------------------------------------------------------------------------
(***************************************************************************)
(* The properties of a command that has ended, of any files fs.            *)
(***************************************************************************)

\* A file that the redirections create is all that changes before the command.
AtMostCreated(fs) ==
  \A n \in Names : fs[n] = before[n] \/ (~ Exists(before, n) /\ fs[n] = <<>>)

OnlyLast(fs) ==
  \A n \in Names :
    (Redirected => n # Target) =>
      fs[n] = before[n] \/ (~ Exists(before, n) /\ fs[n] = <<>>)

Appended(fs) ==
  Redirected /\ line[LastOperator] = ">>" => IsPrefix(Before(Target), fs[Target])

LEMMA ChangesOnlyLast ==
  ASSUME AtMostCreated(files), FilesChanged, files \in Store
  PROVE  OnlyLast(files')
<1>1. CASE files' = files
  BY <1>1 DEF AtMostCreated, OnlyLast
<1>2. CASE Redirected /\ Extends(files', Opened, {Target})
           /\ Target = commandArgs[final_redirection_index + 1]
  <2> SUFFICES ASSUME NEW n \in Names, n # Target
               PROVE  files'[n] = before[n] \/ (~ Exists(before, n) /\ files'[n] = <<>>)
    BY <1>2, Zenon DEF OnlyLast
  <2>1. files'[n] = Opened[n]
    BY <1>2 DEF Extends
  <2>2. Opened[n] = files[n]
    BY <1>2, OpenedIs
  <2> QED BY <2>1, <2>2 DEF AtMostCreated
<1> QED BY <1>1, <1>2 DEF FilesChanged

LEMMA PrefixOf ==
  ASSUME NEW s \in Text, NEW t \in Text
  PROVE  IsPrefix(s, s \o t) /\ IsPrefix(s, s) /\ IsPrefix(<<>>, s)
<1>1. s \o <<>> = s /\ <<>> \o s = s /\ <<>> \in Text
  BY ConcatEmptySeq DEF Text
<1>2. ASSUME NEW a \in Text, NEW b \in Text PROVE IsPrefix(a, a \o b)
  <2>1. /\ a \o b \in Text /\ Len(a \o b) = Len(a) + Len(b) /\ Len(a) \in Nat /\ Len(b) \in Nat
        /\ \A i \in 1 .. Len(a) : (a \o b)[i] = a[i]
    BY ConcatElements, LenProperties DEF Text
  <2>2. PICK c \in Text : c = a \o b
    BY <2>1
  <2>3. Len(a) <= Len(c) /\ \A i \in 1 .. Len(a) : a[i] = c[i]
    BY <2>1, <2>2
  <2>4. SubSeq(a, 1, Len(a)) = SubSeq(c, 1, Len(a))
    BY <2>1, <2>3, SamePrefix DEF Text
  <2> QED BY <2>2, <2>3, <2>4 DEF IsPrefix
<1>3. IsPrefix(s, s \o <<>>) /\ IsPrefix(<<>>, <<>> \o s)
  BY <1>1, <1>2
<1> QED BY <1>1, <1>2, <1>3

LEMMA CreatedIsPrefix ==
  ASSUME NEW fs \in Store, before \in Store, AtMostCreated(fs), NEW T \in Names
  PROVE  IsPrefix(Before(T), fs[T])
<1>1. fs[T] \in Text /\ before[T] \in Text
  BY DEF Store
<1>2. CASE Exists(before, T)
  <2>1. Before(T) = before[T] /\ fs[T] = before[T]
    BY <1>2 DEF Before, AtMostCreated
  <2> QED BY <1>1, <2>1, PrefixOf
<1>3. CASE ~ Exists(before, T)
  <2>1. Before(T) = <<>>
    BY <1>3 DEF Before
  <2> QED BY <1>1, <2>1, PrefixOf
<1> QED BY <1>2, <1>3

\* What was there before, and what of it is left when the last operator opens the target.
LEMMA OpenedTarget ==
  ASSUME ShellTypeOK, Executed(line, commandArgs), AtMostCreated(files), Redirected,
         Target \in Names, Target = commandArgs[final_redirection_index + 1]
  PROVE  /\ Opened[Target] = IF line[LastOperator] = ">" THEN <<>> ELSE Before(Target)
         /\ Opened \in Store /\ Before(Target) \in Text
<1>1. redirectionPresent /\ Redirecting = line[LastOperator]
  <2>1. LastOperator # 0
    BY DEF Redirected
  <2> QED BY <2>1, OperatorsFound DEF redirectionPresent
<1>2. /\ Opened[Target] = IF Redirecting = ">" \/ ~ Exists(files, Target) THEN <<>> ELSE files[Target]
      /\ Opened \in Store
  BY OpenedIs DEF ShellTypeOK
<1>3. Before(Target) \in Text
  BY DEF Before, ShellTypeOK, Store, Text
<1>4. CASE Exists(before, Target)
  <2>1. Before(Target) = before[Target] /\ files[Target] = before[Target] /\ Exists(files, Target)
    BY <1>4 DEF Before, AtMostCreated, Exists
  <2> QED BY <1>1, <1>2, <1>3, <2>1
<1>5. CASE ~ Exists(before, Target)
  <2>1. Before(Target) = <<>> /\ (Exists(files, Target) => files[Target] = <<>>)
    BY <1>5 DEF Before, AtMostCreated, Exists
  <2> QED BY <1>1, <1>2, <1>3, <2>1
<1> QED BY <1>4, <1>5

LEMMA ChangesAppend ==
  ASSUME ShellTypeOK, Executed(line, commandArgs), AtMostCreated(files), FilesChanged
  PROVE  Appended(files')
<1> SUFFICES ASSUME Redirected, line[LastOperator] = ">>"
             PROVE  IsPrefix(Before(Target), files'[Target])
  BY DEF Appended
<1>0. Target \in Names
  <2>1. redirectionPresent
    BY OperatorsFound DEF redirectionPresent, Redirected
  <2> QED BY <2>1, TargetIs
<1>1. CASE files' = files
  BY <1>0, <1>1, CreatedIsPrefix DEF ShellTypeOK
<1>2. CASE Target = commandArgs[final_redirection_index + 1] /\ Extends(files', Opened, {Target})
  <2>1. Opened[Target] = Before(Target) /\ Before(Target) \in Text
    BY <1>0, <1>2, OpenedTarget
  <2>2. PICK t \in Text : files'[Target] = Opened[Target] \o t
    BY <1>2 DEF Extends
  <2> QED BY <2>1, <2>2, PrefixOf
<1> QED BY <1>1, <1>2 DEF FilesChanged

\* What the line asks to see is what the child reads.
LEMMA AskedAreSources ==
  ASSUME Executed(line, commandArgs), Redirected, line[1] \in {"cat", "help"}
  PROVE  Asked = Sources /\ commandArgs[1] = "cat"
<1> DEFINE f == initial_redirection_index
<1>1. /\ redirectionPresent /\ f \in 1 .. Len(line) /\ line[f] \in Operators
      /\ ~ (line[1] = "help" /\ f = 2)
      /\ f = Min(OperatorPositions)
  BY OperatorsFound DEF redirectionPresent, Redirected
<1>2. Sources = SubSeq(commandArgs, 2, f - 1)
  BY <1>1 DEF Sources
<1>3. Asked = IF line[1] = "help" THEN <<HelpFile[line[2]]>> \o SubSeq(line, 3, f - 1)
              ELSE SubSeq(line, 2, f - 1)
  BY <1>1, Zenon DEF Asked
<1> HIDE DEF f
<1>4. CASE line[1] = "cat"
  <2>1. commandArgs = line
    BY <1>4, ArgumentsLike
  <2> QED BY <1>2, <1>3, <1>4, <2>1
<1>5. CASE line[1] = "help"
  <2>1. /\ commandArgs[1] = "cat" /\ commandArgs[2] = HelpFile[line[2]]
        /\ line[1] \notin Operators
        /\ line \in Seq(STRING) /\ Len(line) \in Nat /\ Len(commandArgs) = Len(line)
        /\ \A i \in 1 .. Len(line) : i >= 3 => commandArgs[i] = line[i]
    BY <1>5, ArgumentsLike
  <2>2. f \in Nat /\ f >= 3 /\ f <= Len(line)
    <3>1. f # 1 /\ f # 2
      BY <1>1, <1>5, <2>1
    <3> QED BY <1>1, <2>1, <3>1
  <2> DEFINE h == HelpFile[line[2]]
             W == STRING \cup {h}
             q == SubSeq(line, 3, f - 1)
  <2>3. \A i \in 3 .. f - 1 : line[i] \in W /\ commandArgs[i] = line[i]
    <3>1. \A i \in 1 .. Len(line) : line[i] \in STRING
      BY <2>1, ElementOfSeq
    <3>2. \A i \in 3 .. f - 1 : i \in 1 .. Len(line) /\ i >= 3
      BY <2>1, <2>2
    <3> QED BY <2>1, <3>1, <3>2
  <2>4. \A i \in 2 .. f - 1 : commandArgs[i] \in W
    <3>1. \A i \in 2 .. f - 1 : i = 2 \/ i \in 3 .. f - 1
      BY <2>2
    <3> QED BY <2>1, <2>3, <3>1
  <2>5. <<h>> \in Seq(W) /\ Len(<<h>>) = 1 /\ <<h>>[1] = h
    OBVIOUS
  <2> HIDE DEF W, h
  <2>6. q \in Seq(W) /\ Len(q) = f - 3 /\ \A i \in 1 .. f - 3 : q[i] = line[i + 2]
    <3>1. /\ q \in Seq(W) /\ Len(q) = IF 3 <= f - 1 THEN f - 1 - 3 + 1 ELSE 0
          /\ \A i \in 1 .. f - 1 - 3 + 1 : q[i] = line[3 + i - 1]
      <4>1. 3 \in Int /\ f - 1 \in Int /\ \A i \in 3 .. f - 1 : line[i] \in W
        BY <2>2, <2>3
      <4> QED BY <4>1, SubSeqProperties
    <3> HIDE DEF q
    <3>2. Len(q) = f - 3
      BY <2>2, <3>1
    <3>3. ASSUME NEW i \in 1 .. f - 3 PROVE q[i] = line[i + 2]
      <4>1. i \in 1 .. f - 1 - 3 + 1 /\ 3 + i - 1 = i + 2
        BY <2>2
      <4> QED BY <3>1, <4>1
    <3> QED BY <3>1, <3>2, <3>3
  <2> DEFINE s == SubSeq(commandArgs, 2, f - 1)
  <2>7. s \in Seq(W) /\ Len(s) = f - 2 /\ \A i \in 1 .. f - 2 : s[i] = commandArgs[i + 1]
    <3>1. /\ s \in Seq(W) /\ Len(s) = IF 2 <= f - 1 THEN f - 1 - 2 + 1 ELSE 0
          /\ \A i \in 1 .. f - 1 - 2 + 1 : s[i] = commandArgs[2 + i - 1]
      <4>1. 2 \in Int /\ f - 1 \in Int
        BY <2>2
      <4> QED BY <2>4, <4>1, SubSeqProperties
    <3> HIDE DEF s
    <3>2. Len(s) = f - 2
      BY <2>2, <3>1
    <3>3. ASSUME NEW i \in 1 .. f - 2 PROVE s[i] = commandArgs[i + 1]
      <4>1. i \in 1 .. f - 1 - 2 + 1 /\ 2 + i - 1 = i + 1
        BY <2>2
      <4> QED BY <3>1, <4>1
    <3> QED BY <3>1, <3>2, <3>3
  <2> HIDE DEF q, s
  <2>8. PICK V, p, r, u : V = W /\ p = <<h>> /\ r = q /\ u = s
    OBVIOUS
  <2>9. /\ p \in Seq(V) /\ r \in Seq(V) /\ u \in Seq(V)
        /\ Len(p) = 1 /\ p[1] = h /\ Len(r) = f - 3 /\ Len(u) = f - 2
        /\ \A i \in 1 .. f - 3 : r[i] = line[i + 2]
        /\ \A i \in 1 .. f - 2 : u[i] = commandArgs[i + 1]
    BY <2>5, <2>6, <2>7, <2>8, Zenon
  <2>10. /\ p \o r \in Seq(V) /\ Len(p \o r) = Len(p) + Len(r)
         /\ \A i \in 1 .. Len(p) : (p \o r)[i] = p[i]
         /\ \A i \in 1 .. Len(r) : (p \o r)[Len(p) + i] = r[i]
    <3>1. p \in Seq(V) /\ r \in Seq(V)
      BY <2>9
    <3> QED BY <3>1, ConcatElements
  <2>11. PICK w : w = p \o r
    OBVIOUS
  <2>12. w \in Seq(V) /\ Len(w) = f - 2 /\ w[1] = h /\ \A i \in 1 .. f - 3 : w[1 + i] = line[i + 2]
    <3>1. 1 \in 1 .. Len(p)
      BY <2>9
    <3>2. w \in Seq(V) /\ w[1] = h /\ Len(w) = 1 + (f - 3)
      BY <2>9, <2>10, <2>11, <3>1, Zenon
    <3>3. \A i \in 1 .. f - 3 : w[1 + i] = line[i + 2]
      BY <2>9, <2>10, <2>11, Zenon
    <3> QED BY <2>2, <3>2, <3>3
  <2>13. ASSUME NEW i \in 1 .. f - 2 PROVE w[i] = u[i]
    <3>1. CASE i = 1
      <4>1. u[1] = commandArgs[2]
        BY <2>9, <3>1
      <4> QED BY <2>1, <2>12, <3>1, <4>1 DEF h
    <3>2. CASE i # 1
      <4>1. i - 1 \in 1 .. f - 3 /\ 1 + (i - 1) = i /\ (i - 1) + 2 = i + 1 /\ i + 1 \in 3 .. f - 1
        BY <2>2, <3>2
      <4>2. w[i] = line[i + 1]
        <5>1. w[1 + (i - 1)] = line[(i - 1) + 2]
          BY <2>12, <4>1
        <5> QED BY <4>1, <5>1
      <4>3. u[i] = commandArgs[i + 1] /\ commandArgs[i + 1] = line[i + 1]
        BY <2>3, <2>9, <4>1
      <4> QED BY <4>2, <4>3
    <3> QED BY <3>1, <3>2
  <2>14. w = u
    BY <2>9, <2>12, <2>13
  <2>15. Asked = w /\ Sources = u
    <3>1. Asked = <<h>> \o q
      BY <1>3, <1>5 DEF h, q
    <3>2. Sources = s
      BY <1>2 DEF s
    <3> QED BY <2>8, <2>11, <3>1, <3>2, Zenon
  <2> QED BY <2>1, <2>14, <2>15
<1> QED BY <1>4, <1>5

\* Read when the redirections are prepared, a source adds the blocks that it had when the
\* line was entered: only the file that is written differs, and it is no source.
LEMMA SameBlocksRead ==
  ASSUME ShellTypeOK, Executed(line, commandArgs), commandArgs[1] = "cat",
         AtMostCreated(files), NEW k \in 1 .. Len(Sources),
         Sources[k] # commandArgs[final_redirection_index + 1]
  PROVE  LET old == Content([n \in Names |-> Before(n)], Sources[k])
         IN  old \in Text /\ Blocks(old) = Blocks(Part(Opened, k))
<1> DEFINE n == Sources[k]
           old == Content([m \in Names |-> Before(m)], n)
<1>1. Sources \in Seq(Names) /\ n \in Names
  <2>1. Sources \in Seq(Names)
    BY SourcesAreNames
  <2> QED BY <2>1, ElementOfSeq
<1>2. Opened \in Store /\ Opened[n] = files[n] /\ files[n] \in Text /\ before[n] \in Text
  BY <1>1, OpenedIs DEF ShellTypeOK, Store
<1>3. old = IF IsDirectory(n) THEN <<>> ELSE Before(n)
  BY <1>1 DEF Content
<1>4. old \in Text
  <2>1. <<>> \in Text
    BY DEF Text
  <2> QED BY <1>2, <1>3, <2>1 DEF Before
<1>5. \/ Part(Opened, k) = <<>> /\ old = <<>>
      \/ Part(Opened, k) = old \o Separator(k)
  <2>1. CASE IsDirectory(n)
    BY <1>3, <2>1 DEF Part, Missing, Content
  <2>2. CASE ~ IsDirectory(n) /\ Exists(before, n)
    <3>1. files[n] = before[n] /\ old = before[n]
      BY <1>1, <1>3, <2>2 DEF AtMostCreated, Before
    <3> QED BY <1>2, <2>2, <3>1 DEF Part, Missing, Content, Exists
  <2>3. CASE ~ IsDirectory(n) /\ ~ Exists(before, n)
    <3>1. old = <<>> /\ (files[n] = <<>> \/ ~ Exists(files, n))
      BY <1>1, <1>3, <2>3 DEF AtMostCreated, Before, Exists
    <3> QED BY <1>2, <2>3, <3>1 DEF Part, Missing, Content, Exists
  <2> QED BY <2>1, <2>2, <2>3
<1>6. Separator(k) \in Text /\ Blocks(Separator(k)) = <<>>
  <2>1. Separator(k) \in Text
    BY <1>1, <1>2, Parts
  <2>2. Separator(k) = <<>> \/ Separator(k) = <<"newline">>
    BY DEF Separator
  <2> QED BY <2>1, <2>2, BlocksSeparator
<1>7. Blocks(old \o Separator(k)) = Blocks(old)
  <2> HIDE DEF old
  <2>1. /\ Blocks(old \o Separator(k)) = Blocks(old) \o Blocks(Separator(k))
        /\ Blocks(old) \in Text
    BY <1>4, <1>6, BlocksConcat
  <2> QED BY <1>6, <2>1, ConcatEmptySeq DEF Text
<1>8. Blocks(old) = Blocks(Part(Opened, k))
  <2> HIDE DEF old
  <2> QED BY <1>5, <1>7
<1> QED BY <1>4, <1>8

HeldAsAsked(fs) ==
  Blocks(fs[Target]) =
    Blocks((IF line[LastOperator] = ">" THEN <<>> ELSE Before(Target))
           \o FlattenSeq([i \in DOMAIN Asked |-> Content([n \in Names |-> Before(n)], Asked[i])]))

LEMMA HoldsWhatWasAsked ==
  ASSUME ShellTypeOK, Executed(line, commandArgs), AtMostCreated(files), FilesChanged,
         Redirected, line[1] \in {"cat", "help"}, Asked # <<>>,
         Target \notin ToSet(Asked), ~ IsDirectory(Target)
  PROVE  HeldAsAsked(files')
<1> DEFINE g == [k \in 1 .. Len(Sources) |-> Content([n \in Names |-> Before(n)], Sources[k])]
<1>1. Asked = Sources /\ commandArgs[1] = "cat"
  BY AskedAreSources
<1>2. Sources \in Seq(Names)
  BY <1>1, SourcesAreNames
<1>3. DOMAIN Asked = 1 .. Len(Sources)
  BY <1>1, <1>2, LenProperties
<1>4. /\ Target \in Names /\ Target = commandArgs[final_redirection_index + 1]
      /\ files' = Copied(Opened, {Target}).files
  BY <1>1 DEF FilesChanged
<1>5. \A k \in 1 .. Len(Sources) : Sources[k] # Target
  BY <1>1, <1>3 DEF ToSet
<1>6. \A k \in 1 .. Len(Sources) : g[k] \in Text /\ Blocks(g[k]) = Blocks(Part(Opened, k))
  <2> TAKE k \in 1 .. Len(Sources)
  <2>1. Sources[k] # commandArgs[final_redirection_index + 1]
    BY <1>4, <1>5
  <2>2. LET old == Content([n \in Names |-> Before(n)], Sources[k])
        IN  old \in Text /\ Blocks(old) = Blocks(Part(Opened, k))
    BY <1>1, <2>1, SameBlocksRead
  <2> QED BY <2>2
<1>7. g = [i \in DOMAIN Asked |-> Content([n \in Names |-> Before(n)], Asked[i])]
  BY <1>1, <1>3
<1>8. /\ Opened \in Store
      /\ Opened[Target] = IF line[LastOperator] = ">" THEN <<>> ELSE Before(Target)
  BY <1>4, OpenedTarget
<1>9. g \in [1 .. Len(Sources) -> Text]
  BY <1>6
<1> HIDE DEF g
<1>10. Blocks(Copied(Opened, {Target}).files[Target]) = Blocks(Opened[Target] \o FlattenSeq(g))
  BY <1>1, <1>2, <1>4, <1>5, <1>6, <1>8, <1>9, CopiedTo
<1> QED BY <1>4, <1>7, <1>8, <1>10 DEF HeldAsAsked

-----------------------------------------------------------------------------
(***************************************************************************)
(* The invariant: what the child executes is the line as the shell handed  *)
(* it on, and up to its execution a file at most is created.               *)
(***************************************************************************)

ShellInv ==
  /\ ShellTypeOK
  /\ phase \in {"forked", "prepared", "exited"} => Executed(line, commandArgs)
  /\ phase = "forked" => files = before
  /\ phase = "prepared" => AtMostCreated(files)
  /\ OnlyLastFileChanges /\ AppendKeeps /\ FileHoldsWhatWasAsked /\ MkdirMakesPaths

LEMMA CommandKept ==
  ASSUME line' = line, before' = before, commandArgs' = commandArgs
  PROVE  /\ LastOperator' = LastOperator /\ (Redirected <=> Redirected') /\ Target' = Target
         /\ Asked' = Asked /\ Misplaced' = Misplaced
         /\ \A n : Before(n)' = Before(n)
         /\ Executed(line, commandArgs) <=> Executed(line', commandArgs')
<1>1. LastOperator' = LastOperator
  BY DEF LastOperator, OperatorPositions
<1>2. (Redirected <=> Redirected') /\ Target' = Target
  BY <1>1 DEF Redirected, Target
<1>3. Asked' = Asked
  BY DEF Asked, OperatorPositions
<1>4. Misplaced' = Misplaced
  BY DEF Misplaced, Targets, Redirections
<1>5. \A n : Before(n)' = Before(n)
  BY DEF Before, Exists
<1> QED BY <1>1, <1>2, <1>3, <1>4, <1>5

\* With no operator in the line nothing is misplaced.
LEMMA NoOperator ==
  ASSUME Executed(line, commandArgs), LastOperator = 0
  PROVE  Redirections = {} /\ Misplaced = {}
<1>1. Redirections = {}
  <2>1. Redirections \subseteq 1 .. Len(line)
    BY OperatorsFound
  <2>2. Redirections # {} => LastOperator \in Redirections
    BY OperatorsFound
  <2> QED BY <2>1, <2>2
<1> QED BY <1>1 DEF Misplaced, Targets

LEMMA ShellInvInit == Init => ShellInv
<1> SUFFICES ASSUME Init PROVE ShellInv
  OBVIOUS
<1>1. ShellTypeOK
  BY InitialStore DEF Init, ShellTypeOK, Paths
<1> QED BY <1>1 DEF Init, ShellInv, OnlyLastFileChanges, AppendKeeps, FileHoldsWhatWasAsked, MkdirMakesPaths

\* No property is about a command that has not ended.
LEMMA NotEnded ==
  ASSUME phase # "exited"
  PROVE  OnlyLastFileChanges /\ AppendKeeps /\ FileHoldsWhatWasAsked /\ MkdirMakesPaths
BY DEF OnlyLastFileChanges, AppendKeeps, FileHoldsWhatWasAsked, MkdirMakesPaths

LEMMA NotEndedNext ==
  ASSUME phase' # "exited"
  PROVE  (OnlyLastFileChanges /\ AppendKeeps /\ FileHoldsWhatWasAsked /\ MkdirMakesPaths)'
BY DEF OnlyLastFileChanges, AppendKeeps, FileHoldsWhatWasAsked, MkdirMakesPaths

LEMMA ShellInvEnter == ShellInv /\ Enter => ShellInv'
<1> SUFFICES ASSUME ShellInv, Enter PROVE ShellInv'
  OBVIOUS
<1>1. PICK l \in Lines :
        /\ line' = l
        /\ IF l = <<>> THEN depth' = depth + 1 /\ UNCHANGED <<phase, commandArgs>>
                       ELSE UNCHANGED depth /\ executeCommand(l)
  BY DEF Enter
<1>2. phase = "prompt" /\ files' = files /\ dirs' = dirs /\ before' = files
  BY DEF Enter
<1>3. \/ phase' \in {"prompt", "ended"}
      \/ phase' = "forked" /\ Executed(l, commandArgs')
  <2>1. CASE l = <<>>
    BY <1>1, <1>2, <2>1
  <2>2. CASE l # <<>> /\ l[1] = "exit"
    BY <1>1, <2>2 DEF executeCommand
  <2>3. CASE l # <<>> /\ l[1] = "help"
    <3>1. getHelp(l)
      BY <1>1, <2>3 DEF executeCommand
    <3> QED BY <1>2, <2>3, <3>1 DEF getHelp, Fork, Executed, Arguments
  <2>4. CASE l # <<>> /\ l[1] # "exit" /\ l[1] # "help"
    <3>1. Fork(l)
      BY <1>1, <2>4 DEF executeCommand
    <3> QED BY <2>4, <3>1 DEF Fork, Executed, Arguments
  <2> QED BY <2>1, <2>2, <2>3, <2>4
<1>4. phase' # "exited" /\ phase' # "prepared"
  BY <1>3
<1>5. ShellTypeOK'
  BY <1>2, <1>3 DEF ShellInv, ShellTypeOK
<1> QED BY <1>1, <1>2, <1>3, <1>4, <1>5, NotEndedNext DEF ShellInv

LEMMA ShellInvRedirections == ShellInv /\ calculateRedirectionIndicesIfPresent => ShellInv'
<1> SUFFICES ASSUME ShellInv, calculateRedirectionIndicesIfPresent PROVE ShellInv'
  OBVIOUS
<1>1. /\ ShellTypeOK /\ Executed(line, commandArgs) /\ files = before
      /\ line' = line /\ before' = before /\ commandArgs' = commandArgs /\ dirs' = dirs
      /\ phase' = (IF Misplaced = {} THEN "prepared" ELSE "exited")
  BY DEF ShellInv, calculateRedirectionIndicesIfPresent
<1>2. files' = [n \in Names |->
        IF n \in Created /\ ~ IsDirectory(n) /\ ~ Exists(files, n) THEN <<>> ELSE files[n]]
  BY DEF calculateRedirectionIndicesIfPresent
<1>3. files' \in Store /\ AtMostCreated(files')
  <2>1. <<>> \in Text
    BY DEF Text
  <2> QED BY <1>1, <1>2, <2>1 DEF AtMostCreated, Store, ShellTypeOK
<1>4. ShellTypeOK'
  BY <1>1, <1>3 DEF ShellTypeOK
<1>5. AtMostCreated(files)'
  BY <1>1, <1>3 DEF AtMostCreated, Exists
<1>6. Executed(line, commandArgs)'
  BY <1>1, CommandKept
<1>7. CASE Misplaced = {}
  <2>1. phase' = "prepared"
    BY <1>1, <1>7
  <2>2. phase' # "exited" /\ phase' # "forked"
    BY <2>1
  <2> QED BY <1>4, <1>5, <1>6, <2>2, NotEndedNext DEF ShellInv
<1>8. CASE Misplaced # {}
  <2>1. phase' = "exited"
    BY <1>1, <1>8
  <2>2. OnlyLastFileChanges'
    BY <1>5 DEF OnlyLastFileChanges, AtMostCreated
  <2>3. AppendKeeps'
    <3>1. ASSUME Redirected PROVE IsPrefix(Before(Target), files'[Target])
      <4>1. redirectionPresent
        BY <1>1, <3>1, OperatorsFound DEF redirectionPresent, Redirected
      <4>2. Target \in Names
        BY <1>1, <3>1, <4>1, TargetIs
      <4> QED BY <1>1, <1>3, <4>2, CreatedIsPrefix DEF ShellTypeOK
    <3> QED BY <1>1, <3>1, CommandKept DEF AppendKeeps
  <2>4. FileHoldsWhatWasAsked'
    BY <1>1, <1>8, CommandKept DEF FileHoldsWhatWasAsked
  <2>5. MkdirMakesPaths'
    <3>1. LastOperator' # 0
      BY <1>1, <1>8, CommandKept, NoOperator
    <3> QED BY <3>1 DEF MkdirMakesPaths
  <2> QED BY <1>4, <1>6, <2>1, <2>2, <2>3, <2>4, <2>5 DEF ShellInv
<1> QED BY <1>7, <1>8

LEMMA ShellInvExecute == ShellInv /\ Execute => ShellInv'
<1> SUFFICES ASSUME ShellInv, Execute PROVE ShellInv'
  OBVIOUS
<1>1. /\ ShellTypeOK /\ Executed(line, commandArgs) /\ AtMostCreated(files)
      /\ line' = line /\ before' = before /\ commandArgs' = commandArgs
      /\ phase' = "exited"
  BY DEF ShellInv, Execute
<1>2. /\ files' \in Store /\ FilesChanged
      /\ dirs' = dirs \/ (~ redirectionPresent /\ commandArgs[1] = "mkdir")
      /\ ~ redirectionPresent /\ commandArgs[1] = "mkdir" => mkdirCall /\ files' = files
  BY <1>1, ExecuteFiles
<1>3. ASSUME Redirected PROVE dirs' = dirs
  <2>1. redirectionPresent
    BY <1>1, <1>3, OperatorsFound DEF redirectionPresent, Redirected
  <2> QED BY <1>2, <2>1
<1>4. ASSUME ~ redirectionPresent, commandArgs[1] = "mkdir"
      PROVE  /\ dirs' \in SUBSET Paths /\ <<>> \in dirs'
             /\ \A i \in 2 .. Len(commandArgs) : MadeOrBlocked(dirs', PathOf[commandArgs[i]])
  <2>1. /\ line \in Lines /\ Len(line) \in Nat \ {0} /\ Len(commandArgs) = Len(line)
        /\ DOMAIN line = 1 .. Len(line)
    BY <1>1, ArgumentsLike DEF Executed
  <2>2. line[1] # "help" /\ commandArgs = line
    BY <1>1, <1>4, ArgumentsLike
  <2>3. \A i \in 1 .. Len(line) : line[i] \notin Operators
    BY <1>1, <1>4, <2>2, OperatorsFound DEF redirectionPresent
  <2>4. \A i \in 2 .. Len(commandArgs) : commandArgs[i] \in DOMAIN PathOf
    <3> TAKE i \in 2 .. Len(commandArgs)
    <3>1. i \in 1 .. Len(line) /\ i \in 2 .. Len(line)
      BY <2>1
    <3> QED BY <1>4, <2>1, <2>2, <2>3, <3>1, NamesAssumption
  <2>5. mkdirCall /\ dirs \in SUBSET Paths /\ <<>> \in dirs /\ Len(commandArgs) \in Nat \ {0}
    BY <1>1, <1>2, <1>4, <2>1 DEF ShellTypeOK
  <2> QED BY <2>4, <2>5, PathsMade
<1>5. ShellTypeOK'
  BY <1>1, <1>2, <1>4 DEF ShellTypeOK
<1>6. Executed(line, commandArgs)'
  BY <1>1, CommandKept
<1>7. OnlyLastFileChanges'
  <2>1. OnlyLast(files')
    BY <1>1, <1>2, ChangesOnlyLast DEF ShellTypeOK
  <2>2. \A n \in Names : Exists(before, n) <=> Exists(before, n)'
    BY <1>1 DEF Exists
  <2> QED BY <1>1, <2>1, <2>2, CommandKept DEF OnlyLast, OnlyLastFileChanges
<1>8. AppendKeeps'
  <2>1. Appended(files')
    BY <1>1, <1>2, ChangesAppend
  <2> QED BY <1>1, <2>1, CommandKept DEF Appended, AppendKeeps
<1>9. FileHoldsWhatWasAsked'
  <2> SUFFICES ASSUME Redirected', (line[1] \in {"cat", "help"})', (Asked # <<>>)',
                      (Target \notin ToSet(Asked))', (~ IsDirectory(Target))'
               PROVE  HeldAsAsked(files)'
    BY DEF FileHoldsWhatWasAsked, HeldAsAsked
  <2>1. Redirected /\ dirs' = dirs
    BY <1>1, <1>3, CommandKept
  <2>2. /\ line[1] \in {"cat", "help"} /\ Asked # <<>> /\ Target \notin ToSet(Asked)
        /\ ~ IsDirectory(Target)
    BY <1>1, <2>1, CommandKept DEF IsDirectory
  <2>3. HeldAsAsked(files')
    BY <1>1, <1>2, <2>1, <2>2, HoldsWhatWasAsked
  <2>4. /\ \A n : Content([m \in Names |-> Before(m)], n)' = Content([m \in Names |-> Before(m)], n)
        /\ Asked' = Asked /\ Target' = Target /\ Before(Target)' = Before(Target)
        /\ (line[LastOperator])' = line[LastOperator]
    BY <1>1, <2>1, CommandKept DEF Content, IsDirectory
  <2> QED BY <2>3, <2>4 DEF HeldAsAsked
<1>10. MkdirMakesPaths'
  <2> SUFFICES ASSUME line[1] = "mkdir", LastOperator = 0, NEW i \in 2 .. Len(line)
               PROVE  PathOf[line[i]] \in dirs' \/
                        \E k \in 1 .. Len(PathOf[line[i]]) :
                          \E n \in DOMAIN PathOf \cap Names :
                            Exists(files', n) /\ PathOf[n] = SubSeq(PathOf[line[i]], 1, k)
    BY <1>1, CommandKept DEF MkdirMakesPaths, IsPrefixOfFile, Exists
  <2>1. ~ redirectionPresent
    BY <1>1, NoOperator DEF redirectionPresent
  <2>2. commandArgs = line
    BY <1>1, ArgumentsLike
  <2>3. MadeOrBlocked(dirs', PathOf[line[i]])
    BY <1>4, <2>1, <2>2
  <2>4. files' = files
    BY <1>2, <2>1, <2>2
  <2> QED BY <2>3, <2>4 DEF MadeOrBlocked, Blocked, IsPrefixOfFile
<1> QED BY <1>1, <1>5, <1>6, <1>7, <1>8, <1>9, <1>10 DEF ShellInv

LEMMA ShellInvWait == ShellInv /\ Wait => ShellInv'
<1> SUFFICES ASSUME ShellInv, Wait PROVE ShellInv'
  OBVIOUS
<1>1. phase' = "prompt" /\ files' = files /\ dirs' = dirs /\ before' = before
  BY DEF Wait
<1>2. phase' # "exited"
  BY <1>1
<1>3. ShellTypeOK'
  BY <1>1 DEF ShellInv, ShellTypeOK
<1> QED BY <1>1, <1>2, <1>3, NotEndedNext DEF ShellInv

LEMMA ShellInvStutter == ShellInv /\ UNCHANGED vars => ShellInv'
<1> SUFFICES ASSUME ShellInv, UNCHANGED vars PROVE ShellInv'
  OBVIOUS
<1>1. /\ phase' = phase /\ files' = files /\ dirs' = dirs /\ before' = before
      /\ line' = line /\ commandArgs' = commandArgs
  BY DEF vars
<1>2. /\ ShellTypeOK' /\ (AtMostCreated(files) <=> AtMostCreated(files)')
  BY <1>1 DEF ShellInv, ShellTypeOK, AtMostCreated, Exists
<1>3. /\ LastOperator' = LastOperator /\ (Redirected <=> Redirected') /\ Target' = Target
      /\ Asked' = Asked /\ Misplaced' = Misplaced
      /\ \A n : Before(n)' = Before(n)
      /\ Executed(line, commandArgs) <=> Executed(line', commandArgs')
  BY <1>1, CommandKept
<1>4. /\ \A n : Exists(before, n)' <=> Exists(before, n)
      /\ \A n : IsDirectory(n)' <=> IsDirectory(n)
      /\ \A n : Content([m \in Names |-> Before(m)], n)' = Content([m \in Names |-> Before(m)], n)
      /\ \A p : IsPrefixOfFile(p)' <=> IsPrefixOfFile(p)
  BY <1>1, <1>3 DEF Exists, IsDirectory, Content, IsPrefixOfFile
<1>5. OnlyLastFileChanges'
  BY <1>1, <1>3, <1>4 DEF ShellInv, OnlyLastFileChanges
<1>6. AppendKeeps'
  BY <1>1, <1>3 DEF ShellInv, AppendKeeps
<1>7. FileHoldsWhatWasAsked'
  BY <1>1, <1>3, <1>4 DEF ShellInv, FileHoldsWhatWasAsked
<1>8. MkdirMakesPaths'
  BY <1>1, <1>3, <1>4 DEF ShellInv, MkdirMakesPaths
<1> QED BY <1>1, <1>2, <1>3, <1>5, <1>6, <1>7, <1>8 DEF ShellInv

\* Between the shell and the child the line is always handed on as it was entered (help as
\* cat of the help file), and until the child executes it at most creates files.
THEOREM ShellInvariant == Spec => []ShellInv
<1>1. ASSUME ShellInv, [Next]_vars PROVE ShellInv'
  BY <1>1, ShellInvEnter, ShellInvRedirections, ShellInvExecute, ShellInvWait, ShellInvStutter
     DEF Next
<1> QED BY <1>1, ShellInvInit, PTL DEF Spec

\* Whatever the lines and the files, a command changes the last file its line names
\* (calculateRedirectionIndicesIfPresent, redirectConsoleOutput): any other keeps its
\* content, or is created empty.
THEOREM OnlyLastChanges == Spec => []OnlyLastFileChanges
<1>1. ShellInv => OnlyLastFileChanges
  BY DEF ShellInv
<1> QED BY <1>1, ShellInvariant, PTL

\* A line whose last operator is >> never loses what the file held, though the command
\* reads that file or an earlier > names it.
THEOREM AppendLosesNothing == Spec => []AppendKeeps
<1>1. ShellInv => AppendKeeps
  BY DEF ShellInv
<1> QED BY <1>1, ShellInvariant, PTL

\* cat and help with any redirection leave in the file what the files named held, in
\* order, with nothing lost and nothing twice (isCatCommandValid, getHelp).
THEOREM FileHoldsSources == Spec => []FileHoldsWhatWasAsked
<1>1. ShellInv => FileHoldsWhatWasAsked
  BY DEF ShellInv
<1> QED BY <1>1, ShellInvariant, PTL

\* mkdir makes every path of every line with all its parents, unless a file is in the way
\* (createDirectory, mkdirCall).
THEOREM PathsAreMade == Spec => []MkdirMakesPaths
<1>1. ShellInv => MkdirMakesPaths
  BY DEF ShellInv
<1> QED BY <1>1, ShellInvariant, PTL
=============================================================================
