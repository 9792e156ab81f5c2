--------------------------- MODULE SequenceLemmas ---------------------------
(***************************************************************************)
(* Facts about recursive functions, and about flattening and mapping       *)
(* sequences.  Induction is stated with a set instead of a predicate: the  *)
(* set of the numbers for which the claim holds is shown to be closed.     *)
(***************************************************************************)
EXTENDS Naturals, Sequences, SequencesExt, SequenceTheorems, WellFoundedInduction, TLAPS

\* A set of natural numbers has a least one.
LEMMA LeastNumber ==
  ASSUME NEW T \in SUBSET Nat, T # {}
  PROVE  \E x \in T : \A y \in T : x <= y
<1>1. PICK x \in T : \A y \in T : ~(<<y, x>> \in OpToRel(<, Nat))
  BY WFMin, NatLessThanWellFounded
<1>2. \A y \in T : ~(y < x)
  BY <1>1 DEF OpToRel
<1> QED
  BY <1>2

\* Induction up to n.
LEMMA Induction ==
  ASSUME NEW n \in Nat, NEW T,
         0 \in T, \A k \in 1..n : k - 1 \in T => k \in T
  PROVE  0..n \subseteq T
<1> SUFFICES ASSUME (0..n) \ T # {}  PROVE FALSE
  OBVIOUS
<1> DEFINE missing == (0..n) \ T
<1>1. PICK x \in missing : \A y \in missing : x <= y
  <2>1. missing \in SUBSET Nat /\ missing # {}
    OBVIOUS
  <2> HIDE DEF missing
  <2> QED
    BY <2>1, LeastNumber
<1>2. x \in 1..n /\ x - 1 \in 0..n
  BY <1>1
<1>3. x - 1 \in T
  BY <1>1, <1>2
<1> QED
  BY <1>1, <1>2, <1>3

\* A function on 0..n may be defined by what each value makes of the last.
StepFunctions(n, S) == [1..n -> [S -> S]]
Values(n, S, a, step) ==
  {g \in [0..n -> S] : g[0] = a /\ \A i \in 1..n : g[i] = step[i][g[i - 1]]}

LEMMA Recursion ==
  ASSUME NEW n \in Nat, NEW S, NEW a \in S, NEW step \in StepFunctions(n, S)
  PROVE  \E g : g \in Values(n, S, a, step)
<1> DEFINE Defines(g, k) == /\ g \in [0..k -> S] /\ g[0] = a
                            /\ \A i \in 1..k : g[i] = step[i][g[i - 1]]
           T == {k \in Nat : \E g : Defines(g, k)}
<1>1. 0 \in T
  <2>1. Defines([i \in 0..0 |-> a], 0)
    OBVIOUS
  <2> QED
    BY <2>1
<1>2. ASSUME NEW k \in 1..n, k - 1 \in T  PROVE k \in T
  <2>1. PICK g : Defines(g, k - 1)
    BY <1>2
  <2> DEFINE h == [i \in 0..k |-> IF i = k THEN step[k][g[k - 1]] ELSE g[i]]
  <2>2. step[k][g[k - 1]] \in S
    BY <2>1 DEF StepFunctions
  <2>3. h \in [0..k -> S] /\ h[0] = a
    BY <2>1, <2>2
  <2>4. ASSUME NEW i \in 1..k  PROVE h[i] = step[i][h[i - 1]]
    <3>1. h[i - 1] = g[i - 1]
      OBVIOUS
    <3>2. CASE i = k
      BY <3>1, <3>2
    <3>3. CASE i # k
      <4>1. i \in 1..(k - 1) /\ h[i] = g[i]
        BY <3>3
      <4> QED
        BY <2>1, <3>1, <4>1
    <3> QED
      BY <3>2, <3>3
  <2>5. \E f : Defines(f, k)
    BY <2>3, <2>4
  <2> QED
    BY <2>5
<1>3. n \in T
  <2> HIDE DEF T
  <2>1. 0..n \subseteq T
    BY <1>1, <1>2, Induction
  <2> QED
    BY <2>1
<1> QED
  BY <1>3 DEF Values

\* A function may be defined by what values of lower rank make of each.
LowerDecide(D, V, rank, F) ==
  \A g, h \in [D -> V], x \in D :
    (\A y \in D : rank[y] < rank[x] => g[y] = h[y]) => F[g][x] = F[h][x]

Ranks(D, top) == [D -> 0..top]
Functionals(D, V) == [[D -> V] -> [D -> V]]
HasFixedPoint(D, V, F) == \E f \in [D -> V] : f = F[f]

LEMMA RankedRecursion ==
  ASSUME NEW D, NEW V, V # {}, NEW top \in Nat, NEW rank \in Ranks(D, top),
         NEW F \in Functionals(D, V), LowerDecide(D, V, rank, F)
  PROVE  HasFixedPoint(D, V, F)
<1> USE DEF Ranks, Functionals, HasFixedPoint
<1> PICK a \in V : TRUE
  OBVIOUS
<1> DEFINE n == top + 1
           S == [D -> V]
           start == [x \in D |-> a]
           step == [i \in 1..n |-> F]
<1>1. n \in Nat /\ start \in S /\ step \in StepFunctions(n, S)
  BY DEF StepFunctions
<1>2. PICK g : g \in Values(n, S, start, step)
  <2> HIDE DEF n, S, start, step
  <2> QED
    BY <1>1, Recursion
<1>3. g \in [0..n -> S] /\ \A i \in 1..n : g[i] = F[g[i - 1]]
  BY <1>2 DEF Values
<1> HIDE DEF start, step
<1> DEFINE Fixed(k) == \A x \in D : rank[x] < k => g[k][x] = F[g[k]][x]
           T == {k \in 0..n : Fixed(k)}
<1>4. 0 \in T
  BY <1>1
<1>5. ASSUME NEW k \in 1..n, k - 1 \in T  PROVE k \in T
  <2>1. k - 1 \in 0..n /\ k \in 0..n /\ g[k - 1] \in S /\ g[k] \in S /\ g[k] = F[g[k - 1]]
    <3>1. k - 1 \in 0..n /\ k \in 0..n
      BY <1>1
    <3> HIDE DEF n, S
    <3> QED
      BY <1>3, <3>1
  <2>2. ASSUME NEW x \in D, rank[x] < k  PROVE g[k][x] = F[g[k]][x]
    <3>1. ASSUME NEW y \in D, rank[y] < rank[x]  PROVE g[k - 1][y] = g[k][y]
      <4>1. rank[y] < k - 1
        BY <2>2, <3>1
      <4>2. g[k - 1][y] = F[g[k - 1]][y]
        BY <1>5, <4>1
      <4> QED
        BY <2>1, <4>2
    <3>2. F[g[k - 1]][x] = F[g[k]][x]
      BY <2>1, <3>1 DEF LowerDecide
    <3> QED
      BY <2>1, <3>2
  <2> QED
    BY <2>1, <2>2
<1>6. n \in T
  <2> HIDE DEF T
  <2>1. 0..n \subseteq T
    BY <1>1, <1>4, <1>5, Induction
  <2> QED
    BY <1>1, <2>1
<1>7. g[n] \in S /\ F[g[n]] \in S
  <2>1. n \in 0..n
    BY <1>1
  <2>2. g[n] \in S
    <3> HIDE DEF n, S
    <3> QED
      BY <1>3, <2>1
  <2> QED
    BY <2>2
<1>8. \A x \in D : g[n][x] = F[g[n]][x]
  BY <1>1, <1>6
<1> QED
  BY <1>7, <1>8
-----------------------------------------------------------------------------
\* A part of a sequence.
LEMMA Part ==
  ASSUME NEW T, NEW s \in Seq(T), NEW m \in 1..(Len(s) + 1), NEW n \in (m - 1)..Len(s)
  PROVE  /\ SubSeq(s, m, n) \in Seq(T)
         /\ Len(SubSeq(s, m, n)) = n - m + 1
         /\ \A i \in 1..(n - m + 1) : SubSeq(s, m, n)[i] = s[m + i - 1]
<1>1. Len(s) \in Nat /\ \A i \in 1..Len(s) : s[i] \in T
  BY LenProperties, ElementOfSeq
<1>2. m \in Int /\ n \in Int /\ \A i \in m..n : s[i] \in T
  BY <1>1
<1>3. n - m + 1 = IF m <= n THEN n - m + 1 ELSE 0
  BY <1>1
<1> QED
  BY <1>2, <1>3, SubSeqProperties

\* The fronts of a sequence.
LEMMA FrontGrows ==
  ASSUME NEW T, NEW s \in Seq(T), NEW k \in 1..Len(s)
  PROVE  /\ s[k] \in T /\ SubSeq(s, 1, k - 1) \in Seq(T)
         /\ SubSeq(s, 1, k) = Append(SubSeq(s, 1, k - 1), s[k])
<1>1. Len(s) \in Nat /\ \A i \in 1..Len(s) : s[i] \in T
  BY LenProperties, ElementOfSeq
<1>2. SubSeq(s, 1, k - 1) \in Seq(T)
  BY <1>1, SubSeqProperties
<1>3. 1 \in 1..Len(s) /\ k \in 1..Len(s)
  BY <1>1
<1>4. SubSeq(s, 1, k) = SubSeq(s, 1, k - 1) \o <<s[k]>>
  BY <1>3, SubSeqRecursiveSecond
<1> QED
  BY <1>1, <1>2, <1>4, AppendIsConcat

\* Induction over a sequence, from its front.
LEMMA SequenceInduction ==
  ASSUME NEW T, NEW P, <<>> \in P,
         \A s \in Seq(T), x \in T : s \in P => Append(s, x) \in P
  PROVE  Seq(T) \subseteq P
<1> SUFFICES ASSUME NEW s \in Seq(T)  PROVE s \in P
  OBVIOUS
<1> DEFINE n == Len(s)
           Holds(k) == SubSeq(s, 1, k) \in P
           Proved == {k \in 0..n : Holds(k)}
<1>0. n \in Nat
  BY LenProperties
<1>1. 0 \in Proved
  <2>1. SubSeq(s, 1, 0) = <<>>
    BY SubSeqEmpty
  <2>2. Holds(0)
    BY <2>1
  <2> QED
    BY <1>0, <2>2
<1>2. ASSUME NEW k \in 1..n, k - 1 \in Proved  PROVE k \in Proved
  <2>1. /\ s[k] \in T /\ SubSeq(s, 1, k - 1) \in Seq(T)
        /\ SubSeq(s, 1, k) = Append(SubSeq(s, 1, k - 1), s[k])
    BY FrontGrows
  <2>2. Holds(k - 1)
    BY <1>2
  <2>3. Holds(k)
    BY <2>1, <2>2
  <2> HIDE DEF Holds
  <2> QED
    BY <1>0, <2>3
<1>3. n \in Proved
  <2> HIDE DEF Proved
  <2>1. 0..n \subseteq Proved
    BY <1>0, <1>1, <1>2, Induction
  <2> QED
    BY <1>0, <2>1
<1> QED
  BY <1>3, SubSeqFull, ZenonT(30)

-----------------------------------------------------------------------------
(* FlattenSeq of the community modules.                                    *)

\* The partial results of a flattening.
Parts(ss, g) ==
  g[0] = <<>> /\ \A i \in 1..Len(ss) : g[i] = g[i - 1] \o ss[i]

LEMMA PartsExist ==
  ASSUME NEW T, NEW ss \in Seq(Seq(T))
  PROVE  \E g \in [0..Len(ss) -> Seq(T)] : Parts(ss, g)
<1> DEFINE n == Len(ss)
           none == <<>>
           step == [i \in 1..n |-> [s \in Seq(T) |-> s \o ss[i]]]
<1>1. n \in Nat /\ \A i \in 1..n : ss[i] \in Seq(T)
  BY ElementOfSeq
<1>2. none \in Seq(T)
  OBVIOUS
<1>3. step \in StepFunctions(n, Seq(T))
  BY <1>1 DEF StepFunctions
<1>4. PICK g : g \in Values(n, Seq(T), none, step)
  <2> HIDE DEF step, n, none
  <2> QED
    BY <1>1, <1>2, <1>3, Recursion
<1>5. /\ g \in [0..n -> Seq(T)] /\ g[0] = none
      /\ \A i \in 1..n : g[i] = step[i][g[i - 1]]
  BY <1>4 DEF Values
<1>6. ASSUME NEW i \in 1..n  PROVE g[i] = g[i - 1] \o ss[i]
  <2>1. i - 1 \in 0..n
    BY <1>1
  <2>2. g[i - 1] \in Seq(T)
    BY <1>5, <2>1
  <2> QED
    BY <1>5, <2>2
<1> QED
  BY <1>5, <1>6 DEF Parts

\* They are determined by the sequences flattened so far.
LEMMA PartsAgree ==
  ASSUME NEW T, NEW ss \in Seq(T), NEW tt \in Seq(T),
         NEW n \in Nat, n <= Len(ss), n <= Len(tt),
         \A i \in 1..n : ss[i] = tt[i],
         NEW g, Parts(ss, g), NEW h, Parts(tt, h)
  PROVE  \A i \in 0..n : g[i] = h[i]
<1> DEFINE Same == {i \in 0..n : g[i] = h[i]}
<1>0. Len(ss) \in Nat /\ Len(tt) \in Nat
  BY LenProperties
<1>1. 0 \in Same
  BY DEF Parts
<1>2. ASSUME NEW i \in 1..n, i - 1 \in Same  PROVE i \in Same
  <2>1. i \in 1..Len(ss) /\ i \in 1..Len(tt) /\ i \in 0..n
    BY <1>0
  <2>2. g[i] = g[i - 1] \o ss[i] /\ h[i] = h[i - 1] \o tt[i]
    BY <2>1 DEF Parts
  <2> QED
    BY <1>2, <2>1, <2>2
<1>3. 0..n \subseteq Same
  <2> HIDE DEF Same
  <2> QED
    BY <1>1, <1>2, Induction
<1> QED
  BY <1>3

\* The last of them is the flattened sequence.
LEMMA FlattenIsLastPart ==
  ASSUME NEW T, NEW ss \in Seq(Seq(T)), NEW g \in [0..Len(ss) -> Seq(T)], Parts(ss, g)
  PROVE  FlattenSeq(ss) = g[Len(ss)]
<1> DEFINE n == Len(ss)
<1>0. n \in Nat /\ \A i \in 1..n : ss[i] \in Seq(T)
  BY ElementOfSeq
<1>1. CASE ss = <<>>
  BY <1>1 DEF FlattenSeq, Parts
<1>2. CASE ss # <<>>
  <2> DEFINE Equation(f) ==
               f = [i \in 1..n |-> IF i = 1 THEN ss[i] ELSE f[i - 1] \o ss[i]]
             f == CHOOSE f : Equation(f)
             g1 == [i \in 1..n |-> g[i]]
             h == [i \in 0..n |-> IF i = 0 THEN <<>> ELSE f[i]]
  <2>1. n # 0 /\ FlattenSeq(ss) = f[n]
    <3>1. n # 0
      BY <1>2
    <3>2. FlattenSeq(ss) = f[n]
      BY <3>1 DEF FlattenSeq
    <3> QED
      BY <3>1, <3>2
  <2>2. g[1] = ss[1]
    <3>1. 1 \in 1..Len(ss) /\ 1 - 1 = 0
      BY <1>0, <2>1
    <3>2. g[1] = g[0] \o ss[1] /\ g[0] = <<>>
      BY <3>1 DEF Parts
    <3>3. ss[1] \in Seq(T)
      BY <1>0, <3>1
    <3> QED
      BY <3>2, <3>3, ConcatEmptySeq
  <2>3. Equation(g1)
    <3>1. ASSUME NEW i \in 1..n
          PROVE  g[i] = IF i = 1 THEN ss[i] ELSE g1[i - 1] \o ss[i]
      <4>1. CASE i = 1
        BY <2>2, <4>1
      <4>2. CASE i # 1
        <5>1. i - 1 \in 1..n
          BY <1>0, <4>2
        <5>2. g[i] = g[i - 1] \o ss[i]
          BY DEF Parts
        <5> QED
          BY <4>2, <5>1, <5>2
      <4> QED
        BY <4>1, <4>2
    <3> QED
      BY <3>1
  <2>4. Equation(f)
    <3> HIDE DEF g1, Equation
    <3> QED
      BY <2>3
  <2> HIDE DEF f, g1
  <2>5. Parts(ss, h)
    <3>1. ASSUME NEW i \in 1..n  PROVE h[i] = h[i - 1] \o ss[i]
      <4>1. h[i] = f[i]
        BY <1>0
      <4>2. CASE i = 1
        <5>1. f[1] = ss[1] /\ h[0] = <<>>
          BY <1>0, <2>4, <4>2
        <5>2. ss[1] \in Seq(T)
          BY <1>0, <4>2
        <5>3. <<>> \o ss[1] = ss[1]
          BY <5>2, ConcatEmptySeq
        <5>4. i - 1 = 0
          BY <4>2
        <5> HIDE DEF h
        <5> QED
          BY <4>1, <4>2, <5>1, <5>3, <5>4
      <4>3. CASE i # 1
        <5>1. i - 1 \in 0..n /\ i - 1 # 0 /\ h[i - 1] = f[i - 1]
          BY <1>0, <4>3
        <5>2. f[i] = f[i - 1] \o ss[i]
          BY <2>4, <4>3
        <5> QED
          BY <4>1, <5>1, <5>2
      <4> QED
        BY <4>2, <4>3
    <3>2. h[0] = <<>>
      BY <1>0
    <3> HIDE DEF h
    <3> QED
      BY <3>1, <3>2 DEF Parts
  <2>6. g[n] = h[n]
    <3> HIDE DEF h
    <3>1. \A i \in 0..n : g[i] = h[i]
      BY <1>0, <2>5, PartsAgree
    <3> QED
      BY <1>0, <3>1
  <2>7. h[n] = f[n]
    BY <1>0, <2>1
  <2> QED
    BY <2>1, <2>6, <2>7
<1> QED
  BY <1>1, <1>2

LEMMA FlattenEmpty == FlattenSeq(<<>>) = <<>>
BY DEF FlattenSeq

LEMMA FlattenType ==
  ASSUME NEW T, NEW ss \in Seq(Seq(T))
  PROVE  FlattenSeq(ss) \in Seq(T)
<1>1. PICK g \in [0..Len(ss) -> Seq(T)] : Parts(ss, g)
  BY PartsExist
<1>2. FlattenSeq(ss) = g[Len(ss)]
  BY <1>1, FlattenIsLastPart
<1>3. Len(ss) \in 0..Len(ss)
  BY LenProperties
<1> QED
  BY <1>2, <1>3

\* One more sequence comes behind.
LEMMA FlattenAppend ==
  ASSUME NEW T, NEW ss \in Seq(Seq(T)), NEW s \in Seq(T)
  PROVE  FlattenSeq(Append(ss, s)) = FlattenSeq(ss) \o s
<1> DEFINE n == Len(ss)
           tt == Append(ss, s)
<1>1. /\ n \in Nat /\ tt \in Seq(Seq(T)) /\ Len(tt) = n + 1
      /\ tt[n + 1] = s /\ \A i \in 1..n : ss[i] = tt[i]
  BY AppendProperties, LenProperties
<1> HIDE DEF tt
<1>2. ASSUME NEW g, Parts(ss, g), NEW h, Parts(tt, h)
      PROVE  g[n] = h[n]
  <2>1. Len(ss) = n /\ n <= Len(ss) /\ n <= Len(tt) /\ Len(tt) \in Nat
    BY <1>1
  <2> HIDE DEF n
  <2>2. \A i \in 0..n : g[i] = h[i]
    BY <1>1, <1>2, <2>1, PartsAgree
  <2> QED
    BY <1>1, <2>2
<1>3. PICK g \in [0..Len(ss) -> Seq(T)] : Parts(ss, g)
  BY PartsExist
<1>4. PICK h \in [0..Len(tt) -> Seq(T)] : Parts(tt, h)
  BY <1>1, PartsExist
<1>5. FlattenSeq(ss) = g[n] /\ FlattenSeq(tt) = h[n + 1]
  BY <1>1, <1>3, <1>4, FlattenIsLastPart
<1>6. h[n + 1] = h[n] \o s
  <2>1. n + 1 \in 1..Len(tt) /\ (n + 1) - 1 = n
    BY <1>1
  <2> QED
    BY <1>1, <1>4, <2>1 DEF Parts
<1>7. g[n] = h[n]
  BY <1>2, <1>3, <1>4
<1> QED
  BY <1>5, <1>6, <1>7 DEF tt

LEMMA FlattenOne ==
  ASSUME NEW T, NEW s \in Seq(T)
  PROVE  FlattenSeq(<<s>>) = s
<1> DEFINE none == <<>>
<1>1. none \in Seq(Seq(T)) /\ FlattenSeq(none) = <<>>
  BY FlattenEmpty
<1>2. Append(none, s) = <<s>>
  OBVIOUS
<1>3. FlattenSeq(Append(none, s)) = FlattenSeq(none) \o s
  <2> HIDE DEF none
  <2> QED
    BY <1>1, FlattenAppend
<1>4. <<>> \o s = s
  BY ConcatEmptySeq
<1> HIDE DEF none
<1> QED
  BY <1>1, <1>2, <1>3, <1>4

\* Flattening distributes over concatenation.
LEMMA FlattenConcat ==
  ASSUME NEW T, NEW ss \in Seq(Seq(T)), NEW tt \in Seq(Seq(T))
  PROVE  FlattenSeq(ss \o tt) = FlattenSeq(ss) \o FlattenSeq(tt)
<1> DEFINE n == Len(tt)
           front(k) == SubSeq(tt, 1, k)
           Holds(k) == FlattenSeq(ss \o front(k)) = FlattenSeq(ss) \o FlattenSeq(front(k))
           Proved == {k \in 0..n : Holds(k)}
<1>0. n \in Nat
  BY LenProperties
<1>1. 0 \in Proved
  <2>1. front(0) = <<>>
    BY SubSeqEmpty
  <2>2. ss \o <<>> = ss
    BY ConcatEmptySeq
  <2>3. FlattenSeq(ss) \o <<>> = FlattenSeq(ss)
    BY FlattenType, ConcatEmptySeq
  <2>4. Holds(0)
    BY <2>1, <2>2, <2>3, FlattenEmpty
  <2> QED
    BY <1>0, <2>4
<1>2. ASSUME NEW k \in 1..n, k - 1 \in Proved  PROVE k \in Proved
  <2>1. /\ tt[k] \in Seq(T)
        /\ front(k) \in Seq(Seq(T)) /\ front(k - 1) \in Seq(Seq(T))
        /\ front(k) = Append(front(k - 1), tt[k])
    <3>1. /\ tt[k] \in Seq(T) /\ front(k - 1) \in Seq(Seq(T))
          /\ front(k) = Append(front(k - 1), tt[k])
      BY FrontGrows
    <3> HIDE DEF front
    <3>2. Append(front(k - 1), tt[k]) \in Seq(Seq(T))
      BY <3>1, AppendProperties
    <3> QED
      BY <3>1, <3>2
  <2> HIDE DEF front
  <2>2. /\ ss \o front(k) = Append(ss \o front(k - 1), tt[k])
        /\ ss \o front(k - 1) \in Seq(Seq(T))
    <3>1. ss \o front(k - 1) \in Seq(Seq(T))
      BY <2>1, ConcatProperties
    <3>2. ss \o Append(front(k - 1), tt[k]) = Append(ss \o front(k - 1), tt[k])
      BY <2>1, SMTT(30)
    <3> QED
      BY <2>1, <3>1, <3>2
  <2>3. FlattenSeq(ss \o front(k)) = FlattenSeq(ss \o front(k - 1)) \o tt[k]
    BY <2>1, <2>2, FlattenAppend
  <2>4. FlattenSeq(front(k)) = FlattenSeq(front(k - 1)) \o tt[k]
    BY <2>1, FlattenAppend
  <2>5. Holds(k - 1)
    BY <1>2
  <2>6. FlattenSeq(ss) \in Seq(T) /\ FlattenSeq(front(k - 1)) \in Seq(T)
    BY <2>1, FlattenType
  <2>7. (FlattenSeq(ss) \o FlattenSeq(front(k - 1))) \o tt[k]
          = FlattenSeq(ss) \o (FlattenSeq(front(k - 1)) \o tt[k])
    <3>1. ASSUME NEW a \in Seq(T), NEW b \in Seq(T), NEW c \in Seq(T)
          PROVE  (a \o b) \o c = a \o (b \o c)
      BY ConcatAssociative, SMTT(30)
    <3> QED
      BY <2>1, <2>6, <3>1
  <2>8. Holds(k)
    BY <2>3, <2>4, <2>5, <2>7
  <2> QED
    BY <2>8
<1>3. n \in Proved
  <2> HIDE DEF Proved
  <2>1. 0..n \subseteq Proved
    BY <1>0, <1>1, <1>2, Induction
  <2> QED
    BY <1>0, <2>1
<1>4. front(n) = tt
  BY SubSeqFull
<1> QED
  BY <1>3, <1>4

\* The sequence of the values of g at the elements of s.
Mapped(s, g) == [i \in DOMAIN s |-> g[s[i]]]

LEMMA MappedType ==
  ASSUME NEW D, NEW V, NEW g \in [D -> V], NEW s \in Seq(D)
  PROVE  Mapped(s, g) \in Seq(V)
<1>1. Len(s) \in Nat /\ DOMAIN s = 1..Len(s)
  BY LenProperties
<1>2. \A i \in 1..Len(s) : s[i] \in D
  BY <1>1, ElementOfSeq
<1> DEFINE m == Mapped(s, g)
<1>3. m \in [1..Len(s) -> V]
  BY <1>1, <1>2 DEF Mapped
<1> HIDE DEF m
<1>4. m \in Seq(V)
  BY <1>1, <1>3, IsASeq
<1> QED
  BY <1>4 DEF m

LEMMA MappedElements ==
  ASSUME NEW D, NEW g, NEW s \in Seq(D)
  PROVE  /\ DOMAIN Mapped(s, g) = 1..Len(s)
         /\ \A i \in 1..Len(s) : Mapped(s, g)[i] = g[s[i]]
<1>1. DOMAIN s = 1..Len(s)
  BY LenProperties
<1> QED
  BY <1>1 DEF Mapped

LEMMA MappedEmpty == \A g : Mapped(<<>>, g) = <<>>
BY DEF Mapped

LEMMA MappedOne ==
  ASSUME NEW D, NEW V, NEW g \in [D -> V], NEW x \in D
  PROVE  Mapped(<<x>>, g) = <<g[x]>>
BY DEF Mapped

\* Mapping distributes over concatenation, ...
LEMMA MappedConcat ==
  ASSUME NEW D, NEW V, NEW g \in [D -> V], NEW s \in Seq(D), NEW t \in Seq(D)
  PROVE  Mapped(s \o t, g) = Mapped(s, g) \o Mapped(t, g)
<1>0. \A x \in Seq(D) : /\ Mapped(x, g) \in Seq(V) /\ Len(Mapped(x, g)) = Len(x)
                        /\ \A i \in 1..Len(x) : Mapped(x, g)[i] = g[x[i]]
  <2> SUFFICES ASSUME NEW x \in Seq(D)
               PROVE  /\ Mapped(x, g) \in Seq(V) /\ Len(Mapped(x, g)) = Len(x)
                      /\ \A i \in 1..Len(x) : Mapped(x, g)[i] = g[x[i]]
    OBVIOUS
  <2>1. Mapped(x, g) \in Seq(V)
    BY MappedType
  <2>2. /\ DOMAIN Mapped(x, g) = 1..Len(x)
        /\ \A i \in 1..Len(x) : Mapped(x, g)[i] = g[x[i]]
    BY MappedElements
  <2>3. Len(x) \in Nat
    BY LenProperties
  <2>4. Len(Mapped(x, g)) = Len(x)
    BY <2>1, <2>2, <2>3, LenProperties
  <2> QED
    BY <2>1, <2>2, <2>4
<1> DEFINE u == s \o t
           a == Mapped(s, g)
           b == Mapped(t, g)
           m == Len(s)
           n == Len(t)
<1>1. m \in Nat /\ n \in Nat
  BY LenProperties
<1>2. /\ u \in Seq(D) /\ Len(u) = m + n
      /\ \A i \in 1..(m + n) : u[i] = IF i <= m THEN s[i] ELSE t[i - m]
  BY ConcatProperties
<1> HIDE DEF u
<1> DEFINE l == Mapped(u, g)
<1>3. l \in Seq(V) /\ Len(l) = m + n /\ \A i \in 1..(m + n) : l[i] = g[u[i]]
  <2>1. l \in Seq(V) /\ Len(l) = Len(u) /\ \A i \in 1..Len(u) : l[i] = g[u[i]]
    BY <1>0, <1>2
  <2> HIDE DEF l
  <2> QED
    BY <1>2, <2>1
<1>4. a \in Seq(V) /\ Len(a) = m /\ \A i \in 1..m : a[i] = g[s[i]]
  BY <1>0
<1>5. b \in Seq(V) /\ Len(b) = n /\ \A i \in 1..n : b[i] = g[t[i]]
  BY <1>0
<1> HIDE DEF a, b, l, m, n
<1> DEFINE r == a \o b
<1>6. /\ r \in Seq(V) /\ Len(r) = m + n
      /\ \A i \in 1..(m + n) : r[i] = IF i <= m THEN a[i] ELSE b[i - m]
  BY <1>4, <1>5, ConcatProperties
<1> HIDE DEF r
<1>7. ASSUME NEW i \in 1..(m + n)  PROVE l[i] = r[i]
  <2>1. CASE i <= m
    <3>1. i \in 1..m
      BY <1>1, <2>1
    <3>2. u[i] = s[i] /\ r[i] = a[i]
      BY <1>2, <1>6, <2>1
    <3>3. l[i] = g[u[i]] /\ a[i] = g[s[i]]
      BY <1>3, <1>4, <3>1
    <3> QED
      BY <3>2, <3>3
  <2>2. CASE ~(i <= m)
    <3>1. i - m \in 1..n
      BY <1>1, <2>2
    <3>2. u[i] = t[i - m] /\ r[i] = b[i - m]
      BY <1>2, <1>6, <2>2
    <3>3. l[i] = g[u[i]] /\ b[i - m] = g[t[i - m]]
      BY <1>3, <1>5, <3>1
    <3> QED
      BY <3>2, <3>3
  <2> QED
    BY <2>1, <2>2
<1>8. l = r
  BY <1>1, <1>3, <1>6, <1>7, SeqEqual
<1> QED
  BY <1>8 DEF l, r, a, b, u

\* ... and over flattening.
MappedParts(ss, g) == [i \in DOMAIN ss |-> Mapped(ss[i], g)]

LEMMA MappedPartsAppend ==
  ASSUME NEW D, NEW V, NEW g \in [D -> V], NEW ss \in Seq(Seq(D)), NEW s \in Seq(D)
  PROVE  /\ MappedParts(ss, g) \in Seq(Seq(V))
         /\ MappedParts(Append(ss, s), g) = Append(MappedParts(ss, g), Mapped(s, g))
<1> DEFINE f == [x \in Seq(D) |-> Mapped(x, g)]
<1>1. f \in [Seq(D) -> Seq(V)]
  BY MappedType
<1>2. \A tt \in Seq(Seq(D)) : MappedParts(tt, g) = Mapped(tt, f)
  <2> SUFFICES ASSUME NEW tt \in Seq(Seq(D))  PROVE MappedParts(tt, g) = Mapped(tt, f)
    OBVIOUS
  <2>1. \A i \in DOMAIN tt : tt[i] \in Seq(D)
    BY LenProperties, ElementOfSeq
  <2>2. \A i \in DOMAIN tt : f[tt[i]] = Mapped(tt[i], g)
    BY <2>1
  <2> HIDE DEF f
  <2> QED
    BY <2>2 DEF MappedParts, Mapped
<1>3. f[s] = Mapped(s, g)
  OBVIOUS
<1> HIDE DEF f
<1>4. /\ Append(ss, s) = ss \o <<s>> /\ <<s>> \in Seq(Seq(D)) /\ Append(ss, s) \in Seq(Seq(D))
  BY AppendIsConcat, AppendProperties
<1>5. Mapped(ss, f) \in Seq(Seq(V)) /\ f[s] \in Seq(V)
  BY <1>1, MappedType
<1>6. Mapped(ss \o <<s>>, f) = Mapped(ss, f) \o <<f[s]>>
  <2>1. Mapped(ss \o <<s>>, f) = Mapped(ss, f) \o Mapped(<<s>>, f)
    BY <1>1, <1>4, MappedConcat
  <2>2. Mapped(<<s>>, f) = <<f[s]>>
    BY <1>1, MappedOne
  <2> QED
    BY <2>1, <2>2
<1>7. Mapped(ss, f) \o <<f[s]>> = Append(Mapped(ss, f), f[s])
  BY <1>5, AppendIsConcat
<1> QED
  BY <1>2, <1>3, <1>4, <1>5, <1>6, <1>7

LEMMA MappedFlatten ==
  ASSUME NEW D, NEW V, NEW g \in [D -> V], NEW ss \in Seq(Seq(D))
  PROVE  Mapped(FlattenSeq(ss), g) = FlattenSeq(MappedParts(ss, g))
<1> DEFINE P == {tt \in Seq(Seq(D)) : Mapped(FlattenSeq(tt), g) = FlattenSeq(MappedParts(tt, g))}
<1>1. <<>> \in P
  <2>1. MappedParts(<<>>, g) = <<>>
    BY DEF MappedParts
  <2> QED
    BY <2>1, FlattenEmpty, MappedEmpty
<1>2. ASSUME NEW tt \in Seq(Seq(D)), NEW s \in Seq(D), tt \in P  PROVE Append(tt, s) \in P
  <2>1. /\ Append(tt, s) \in Seq(Seq(D)) /\ FlattenSeq(tt) \in Seq(D)
        /\ FlattenSeq(Append(tt, s)) = FlattenSeq(tt) \o s
    BY AppendProperties, FlattenType, FlattenAppend
  <2>2. Mapped(FlattenSeq(tt) \o s, g) = Mapped(FlattenSeq(tt), g) \o Mapped(s, g)
    BY <2>1, MappedConcat
  <2>3. /\ MappedParts(tt, g) \in Seq(Seq(V)) /\ Mapped(s, g) \in Seq(V)
        /\ MappedParts(Append(tt, s), g) = Append(MappedParts(tt, g), Mapped(s, g))
    BY MappedPartsAppend, MappedType
  <2>4. FlattenSeq(Append(MappedParts(tt, g), Mapped(s, g)))
          = FlattenSeq(MappedParts(tt, g)) \o Mapped(s, g)
    BY <2>3, FlattenAppend
  <2> QED
    BY <1>2, <2>1, <2>2, <2>3, <2>4
<1>3. Seq(Seq(D)) \subseteq P
  <2> HIDE DEF P
  <2> QED
    BY <1>1, <1>2, SequenceInduction
<1> QED
  BY <1>3

\* Mapping the elements of flattened sequences to sequences, which are
\* flattened in turn, is the same as doing so in each of the sequences.
LEMMA FlattenMappedFlatten ==
  ASSUME NEW D, NEW V, NEW g \in [D -> Seq(V)], NEW ss \in Seq(Seq(D))
  PROVE  FlattenSeq(Mapped(FlattenSeq(ss), g))
           = FlattenSeq([i \in DOMAIN ss |-> FlattenSeq(Mapped(ss[i], g))])
<1> DEFINE f == [x \in Seq(D) |-> FlattenSeq(Mapped(x, g))]
           P == {tt \in Seq(Seq(D)) :
                   FlattenSeq(Mapped(FlattenSeq(tt), g)) = FlattenSeq(Mapped(tt, f))}
<1>1. f \in [Seq(D) -> Seq(V)]
  BY MappedType, FlattenType
<1>2. \A x \in Seq(D) : f[x] = FlattenSeq(Mapped(x, g))
  OBVIOUS
<1> HIDE DEF f
<1>3. <<>> \in P
  BY FlattenEmpty, MappedEmpty
<1>4. ASSUME NEW tt \in Seq(Seq(D)), NEW s \in Seq(D), tt \in P  PROVE Append(tt, s) \in P
  <2>1. /\ Append(tt, s) \in Seq(Seq(D)) /\ FlattenSeq(tt) \in Seq(D)
        /\ FlattenSeq(Append(tt, s)) = FlattenSeq(tt) \o s
        /\ Append(tt, s) = tt \o <<s>> /\ <<s>> \in Seq(Seq(D))
    BY AppendProperties, AppendIsConcat, FlattenType, FlattenAppend
  <2>2. Mapped(FlattenSeq(tt) \o s, g) = Mapped(FlattenSeq(tt), g) \o Mapped(s, g)
    BY <2>1, MappedConcat
  <2>3. Mapped(FlattenSeq(tt), g) \in Seq(Seq(V)) /\ Mapped(s, g) \in Seq(Seq(V))
    BY <2>1, MappedType
  <2>4. FlattenSeq(Mapped(FlattenSeq(tt), g) \o Mapped(s, g))
          = FlattenSeq(Mapped(FlattenSeq(tt), g)) \o FlattenSeq(Mapped(s, g))
    BY <2>3, FlattenConcat
  <2>5. Mapped(tt, f) \in Seq(Seq(V)) /\ f[s] \in Seq(V)
    BY <1>1, MappedType
  <2>6. Mapped(tt \o <<s>>, f) = Mapped(tt, f) \o <<f[s]>>
    <3>1. Mapped(tt \o <<s>>, f) = Mapped(tt, f) \o Mapped(<<s>>, f)
      BY <1>1, <2>1, MappedConcat
    <3>2. Mapped(<<s>>, f) = <<f[s]>>
      BY <1>1, MappedOne
    <3> QED
      BY <3>1, <3>2
  <2>7. Mapped(tt, f) \o <<f[s]>> = Append(Mapped(tt, f), f[s])
    BY <2>5, AppendIsConcat
  <2>8. FlattenSeq(Append(Mapped(tt, f), f[s])) = FlattenSeq(Mapped(tt, f)) \o f[s]
    BY <2>5, FlattenAppend
  <2>9. FlattenSeq(Mapped(FlattenSeq(Append(tt, s)), g)) = FlattenSeq(Mapped(Append(tt, s), f))
    BY <1>2, <1>4, <2>1, <2>2, <2>4, <2>6, <2>7, <2>8
  <2> QED
    BY <2>1, <2>9
<1>5. Seq(Seq(D)) \subseteq P
  <2> HIDE DEF P
  <2> QED
    BY <1>3, <1>4, SequenceInduction
<1>6. Mapped(ss, f) = [i \in DOMAIN ss |-> FlattenSeq(Mapped(ss[i], g))]
  <2>1. \A i \in DOMAIN ss : ss[i] \in Seq(D)
    BY LenProperties, ElementOfSeq
  <2> QED
    BY <1>2, <2>1 DEF Mapped
<1> QED
  BY <1>5, <1>6
=============================================================================
