---------------------------- MODULE PatternChains ----------------------------
(***************************************************************************)
(* The elements of PatternMatch, for every heap of them that the compiler  *)
(* can leave: what the matcher, the lengths and the keywords of the        *)
(* prefilter make of a chain of elements, in terms of the words of the     *)
(* chain, and how those words change when append_element and the patches of*)
(* set_last_next behind it link an element to the chain.  Every chain      *)
(* accepts its words on every line, and a line with such a word passes the *)
(* prefilter.  The order pos of the elements ranks what an operator        *)
(* computes from those an element points to.                               *)
(***************************************************************************)
EXTENDS PatternMatch, SequenceLemmas, FiniteSetTheorems

Letters == {"%", "_"} \cup UNION {Range(s) : s \in Patterns \cup Lines}
Kinds == {"literal", "type", "group", "optional", "choice"}
Elements ==
  [kind : Kinds, text : Seq(Letters), kids : Seq(Nat \ {0}), next : Nat, onext : Nat]

-----------------------------------------------------------------------------
(* A heap is sound when its links and kids point to elements, and to later *)
(* ones in an order pos of the elements: nothing reaches itself.           *)

Later(h, pos, n, m) == m \in DOMAIN h /\ pos[n] < pos[m]

KidCount(e) ==
  /\ e.kind \in {"group", "optional"} => Len(e.kids) = 1
  /\ e.kind = "choice" => Len(e.kids) > 0
  /\ e.kind \in {"literal", "type"} => e.kids = <<>>

Sound(h, pos, top) ==
  /\ h \in Seq(Elements) /\ top \in Nat /\ pos \in [DOMAIN h -> 0..top]
  /\ \A n \in DOMAIN h :
       /\ KidCount(h[n])
       /\ h[n].next # Nil => Later(h, pos, n, h[n].next)
       /\ h[n].onext # Nil => Later(h, pos, n, h[n].onext)
       /\ \A k \in DOMAIN h[n].kids : Later(h, pos, n, h[n].kids[k])

\* An element of a sound heap.
LEMMA SoundFacts ==
  ASSUME NEW h, NEW pos, NEW top, Sound(h, pos, top), NEW n \in DOMAIN h
  PROVE  /\ top \in Nat /\ pos[n] \in 0..top /\ n \in 1..Len(h) /\ Len(h) \in Nat
         /\ h[n] \in Elements /\ h[n].kind \in Kinds /\ h[n].text \in Seq(Letters)
         /\ h[n].kids \in Seq(Nat \ {0}) /\ DOMAIN h[n].kids = 1..Len(h[n].kids)
         /\ h[n].next \in Nat /\ h[n].onext \in Nat
         /\ h[n].next # Nil => h[n].next \in DOMAIN h /\ pos[n] < pos[h[n].next]
         /\ h[n].onext # Nil => h[n].onext \in DOMAIN h /\ pos[n] < pos[h[n].onext]
         /\ \A k \in DOMAIN h[n].kids :
              h[n].kids[k] \in DOMAIN h /\ pos[n] < pos[h[n].kids[k]]
         /\ h[n].kind \in {"group", "optional"} => h[n].kids[1] \in DOMAIN h /\ pos[n] < pos[h[n].kids[1]]
         /\ h[n].kind \in {"group", "optional"} => DOMAIN h[n].kids = {1}
         /\ h[n].kind = "choice" => 1 \in DOMAIN h[n].kids
<1>1. h \in Seq(Elements) /\ n \in 1..Len(h) /\ Len(h) \in Nat
  BY DEF Sound
<1>2. h[n] \in Elements
  BY <1>1
<1>3. h[n].kids \in Seq(Nat \ {0})
  BY <1>2 DEF Elements
<1>4. DOMAIN h[n].kids = 1..Len(h[n].kids) /\ Len(h[n].kids) \in Nat
  BY <1>3
<1>5. KidCount(h[n])
  BY DEF Sound
<1>6. /\ h[n].kind \in {"group", "optional"} => DOMAIN h[n].kids = {1}
      /\ h[n].kind = "choice" => 1 \in DOMAIN h[n].kids
  <2>1. h[n].kind \in {"group", "optional"} => DOMAIN h[n].kids = {1}
    <3>1. 1..1 = {1}
      OBVIOUS
    <3> QED
      BY <1>4, <1>5, <3>1 DEF KidCount
  <2>2. h[n].kind = "choice" => 1 \in DOMAIN h[n].kids
    BY <1>4, <1>5 DEF KidCount
  <2> QED
    BY <2>1, <2>2
<1>7. /\ h[n].kind \in Kinds /\ h[n].text \in Seq(Letters) /\ h[n].next \in Nat /\ h[n].onext \in Nat
  BY <1>2 DEF Elements
<1> QED
  BY <1>1, <1>2, <1>3, <1>4, <1>6, <1>7 DEF Sound, Later

\* Of some elements, one comes last.
LEMMA Deepest ==
  ASSUME NEW h, NEW pos, NEW top, Sound(h, pos, top), NEW S \in SUBSET DOMAIN h, S # {}
  PROVE  \E n \in S : \A m \in S : pos[m] <= pos[n]
<1> DEFINE T == {top - pos[n] : n \in S}
<1>0. top \in Nat /\ pos \in [DOMAIN h -> 0..top]
  BY DEF Sound
<1>1. T \in SUBSET Nat /\ T # {}
  BY <1>0
<1>2. PICK x \in T : \A y \in T : x <= y
  <2> HIDE DEF T
  <2> QED
    BY <1>1, LeastNumber
<1>3. PICK n \in S : x = top - pos[n]
  BY <1>2
<1>4. \A m \in S : top - pos[n] <= top - pos[m]
  BY <1>2, <1>3
<1> QED
  BY <1>0, <1>4

\* LastOf follows the links.
LEMMA LastOfIs ==
  ASSUME NEW h, NEW pos, NEW top, Sound(h, pos, top)
  PROVE  /\ LastOf(h) \in [DOMAIN h -> DOMAIN h]
         /\ \A n \in DOMAIN h :
              LastOf(h)[n] = IF h[n].next = Nil THEN n ELSE LastOf(h)[h[n].next]
<1> DEFINE D == DOMAIN h
           L == LastOf(h)
           E(f) == f = [n \in DOMAIN h |-> IF h[n].next = Nil THEN n ELSE f[h[n].next]]
           F == [g \in [D -> Nat] |-> [n \in D |-> IF h[n].next = Nil THEN n ELSE g[h[n].next]]]
           rank == [n \in D |-> top - pos[n]]
<1>1. F \in Functionals(D, Nat)
  BY SoundFacts DEF Functionals
<1>2. top \in Nat /\ rank \in Ranks(D, top)
  BY DEF Sound, Ranks
<1>3. ASSUME NEW g \in [D -> Nat], NEW k \in [D -> Nat], NEW x \in D,
             \A y \in D : rank[y] < rank[x] => g[y] = k[y]
      PROVE  F[g][x] = F[k][x]
  <2>1. CASE h[x].next = Nil
    BY <2>1
  <2>2. CASE h[x].next # Nil
    <3>1. h[x].next \in D /\ pos[x] < pos[h[x].next] /\ pos[x] \in Nat /\ pos[h[x].next] \in Nat
      BY <2>2, SoundFacts
    <3>2. rank[h[x].next] < rank[x]
      BY <1>2, <3>1 DEF Ranks
    <3>3. g[h[x].next] = k[h[x].next]
      BY <1>3, <3>1, <3>2
    <3> QED
      BY <3>3
  <2> QED
    BY <2>1, <2>2
<1>4. HasFixedPoint(D, Nat, F)
  <2> HIDE DEF F, rank, D
  <2>1. Nat # {}
    OBVIOUS
  <2>2. LowerDecide(D, Nat, rank, F)
    BY <1>3 DEF LowerDecide
  <2> QED
    BY <1>1, <1>2, <2>1, <2>2, RankedRecursion
<1>5. E(CHOOSE f : E(f))
  <2>1. \E f : E(f)
    BY <1>4 DEF HasFixedPoint
  <2> HIDE DEF E
  <2> QED
    BY <2>1
<1>6. L = CHOOSE f : E(f)
  BY DEF LastOf
<1>7. L = [n \in D |-> IF h[n].next = Nil THEN n ELSE L[h[n].next]]
  BY <1>5, <1>6
<1> HIDE DEF L, E
<1>8. {m \in D : L[m] \notin D} = {}
  <2> DEFINE S == {m \in D : L[m] \notin D}
  <2> SUFFICES ASSUME S # {}  PROVE FALSE
    OBVIOUS
  <2>1. PICK m \in S : \A i \in S : pos[i] <= pos[m]
    <3>1. S \in SUBSET DOMAIN h
      OBVIOUS
    <3> HIDE DEF S
    <3> QED
      BY <3>1, Deepest
  <2>2. h[m].next # Nil /\ m \in D /\ L[m] = L[h[m].next] /\ L[m] \notin D
    BY <1>7, <2>1
  <2>3. h[m].next \in D /\ pos[m] < pos[h[m].next] /\ pos[m] \in Nat /\ pos[h[m].next] \in Nat
    BY <2>2, SoundFacts
  <2> QED
    BY <2>1, <2>2, <2>3
<1> QED
  BY <1>7, <1>8 DEF L

\* The end of a chain is not before its elements.
LEMMA LastIsLater ==
  ASSUME NEW h, NEW pos, NEW top, Sound(h, pos, top), NEW n \in DOMAIN h
  PROVE  /\ LastOf(h)[n] \in DOMAIN h /\ h[LastOf(h)[n]].next = Nil
         /\ pos[n] <= pos[LastOf(h)[n]]
<1> DEFINE Good(m) == h[LastOf(h)[m]].next = Nil /\ pos[m] <= pos[LastOf(h)[m]]
           S == {m \in DOMAIN h : ~Good(m)}
<1>0. LastOf(h) \in [DOMAIN h -> DOMAIN h]
  BY LastOfIs
<1>1. S = {}
  <2> SUFFICES ASSUME S # {}  PROVE FALSE
    OBVIOUS
  <2>1. PICK m \in S : \A i \in S : pos[i] <= pos[m]
    <3>1. S \in SUBSET DOMAIN h
      OBVIOUS
    <3> HIDE DEF S
    <3> QED
      BY <3>1, Deepest
  <2>2. m \in DOMAIN h /\ ~Good(m) /\ pos[m] \in Nat
    BY <2>1, SoundFacts
  <2>3. CASE h[m].next = Nil
    BY <2>2, <2>3, LastOfIs
  <2>4. CASE h[m].next # Nil
    <3>1. h[m].next \in DOMAIN h /\ pos[m] < pos[h[m].next] /\ pos[h[m].next] \in Nat
      BY <2>2, <2>4, SoundFacts
    <3>2. LastOf(h)[m] = LastOf(h)[h[m].next] /\ LastOf(h)[m] \in DOMAIN h
      BY <1>0, <2>2, <2>4, LastOfIs
    <3>3. Good(h[m].next)
      BY <2>1, <2>2, <3>1
    <3>4. pos[LastOf(h)[m]] \in Nat
      BY <3>2, SoundFacts
    <3> QED
      BY <2>2, <3>1, <3>2, <3>3, <3>4
  <2> QED
    BY <2>3, <2>4
<1> QED
  BY <1>0, <1>1

\* OpenEnds goes into what an element contains.
LEMMA OpenEndsIs ==
  ASSUME NEW h, NEW pos, NEW top, Sound(h, pos, top)
  PROVE  \A n \in DOMAIN h :
           OpenEnds(h)[n] =
             {n} \cup UNION {OpenEnds(h)[LastOf(h)[h[n].kids[k]]] : k \in DOMAIN h[n].kids}
<1> DEFINE D == DOMAIN h
           X == OpenEnds(h)
           Body(f, n) == {n} \cup UNION {f[LastOf(h)[h[n].kids[k]]] : k \in DOMAIN h[n].kids}
           E(f) == f = [n \in DOMAIN h |-> Body(f, n)]
           V == SUBSET Nat
           F == [g \in [D -> V] |-> [n \in D |-> Body(g, n)]]
           rank == [n \in D |-> top - pos[n]]
<1>0. top \in Nat /\ \A n \in D : pos[n] \in 0..top
  BY DEF Sound
<1>1. ASSUME NEW n \in D, NEW k \in DOMAIN h[n].kids
      PROVE  LastOf(h)[h[n].kids[k]] \in D /\ rank[LastOf(h)[h[n].kids[k]]] < rank[n]
  <2>1. h[n].kids[k] \in DOMAIN h /\ pos[n] < pos[h[n].kids[k]]
    BY SoundFacts
  <2>2. LastOf(h)[h[n].kids[k]] \in DOMAIN h /\ pos[h[n].kids[k]] <= pos[LastOf(h)[h[n].kids[k]]]
    BY <2>1, LastIsLater
  <2> QED
    BY <1>0, <2>1, <2>2
<1>2. F \in Functionals(D, V)
  <2>1. ASSUME NEW g \in [D -> V], NEW n \in D  PROVE Body(g, n) \in V
    <3>1. n \in Nat
      BY SoundFacts
    <3> QED
      BY <1>1, <3>1
  <2> HIDE DEF Body, V
  <2> QED
    BY <2>1 DEF Functionals
<1>3. rank \in Ranks(D, top)
  BY <1>0 DEF Ranks
<1>4. LowerDecide(D, V, rank, F)
  <2>1. ASSUME NEW g \in [D -> V], NEW f \in [D -> V], NEW x \in D,
               \A y \in D : rank[y] < rank[x] => g[y] = f[y]
        PROVE  F[g][x] = F[f][x]
    <3>1. \A k \in DOMAIN h[x].kids :
            g[LastOf(h)[h[x].kids[k]]] = f[LastOf(h)[h[x].kids[k]]]
      BY <1>1, <2>1
    <3>2. Body(g, x) = Body(f, x)
      BY <3>1
    <3> HIDE DEF Body, V
    <3> QED
      BY <3>2
  <2> HIDE DEF F, rank, V
  <2> QED
    BY <2>1 DEF LowerDecide
<1>5. HasFixedPoint(D, V, F)
  <2>1. V # {}
    OBVIOUS
  <2> HIDE DEF F, rank, D, V
  <2> QED
    BY <1>0, <1>2, <1>3, <1>4, <2>1, RankedRecursion
<1>6. E(CHOOSE f : E(f))
  <2>1. \E f : E(f)
    <3> HIDE DEF Body, V
    <3> QED
      BY <1>5 DEF HasFixedPoint
  <2> HIDE DEF E
  <2> QED
    BY <2>1
<1>7. X = CHOOSE f : E(f)
  BY DEF OpenEnds
<1>8. E(X)
  <2> HIDE DEF E, X
  <2> QED
    BY <1>6, <1>7
<1> HIDE DEF X
<1> QED
  BY <1>8 DEF X

\* The least of a set of numbers.
LEMMA MinIs ==
  ASSUME NEW S \in SUBSET Nat, S # {}
  PROVE  Min(S) \in S /\ \A y \in S : Min(S) <= y
BY LeastNumber DEF Min

-----------------------------------------------------------------------------
(* Reading.                                                                *)

\* A symbol leads to offsets of the line, not before its own.
LEMMA BehindIn ==
  ASSUME NEW line, Len(line) \in Nat, NEW c, NEW at \in 0..Len(line)
  PROVE  Behind(c, line, at) \subseteq 0..Len(line)
<1>0. PICK N \in Nat : N = Len(line)
  OBVIOUS
<1>1. CASE c = "%"
  BY <1>1 DEF Behind
<1>2. CASE c # "%"
  <2>1. ASSUME NEW o \in Consume(c, line, at)  PROVE o \in 0..Len(line)
    <3>1. CASE c # "_"
      <4>1. o = at + 1 /\ at < N
        BY <1>0, <2>1, <3>1 DEF Consume
      <4>2. at \in 0..N
        BY <1>0
      <4>3. o \in 0..N
        BY <4>1, <4>2
      <4> QED
        BY <1>0, <4>3
    <3>2. CASE c = "_" /\ at \in {0, Len(line)}
      BY <2>1, <3>2 DEF Consume
    <3>3. CASE c = "_" /\ at \notin {0, Len(line)}
      <4>1. Consume(c, line, at) = IF line[at + 1] = "_" THEN {at + 1}
                                   ELSE IF line[at] = "_" THEN {at} ELSE {}
        BY <3>3 DEF Consume
      <4>2. at + 1 \in 0..Len(line)
        <5>1. at \in 0..N /\ at # N
          BY <1>0, <3>3
        <5>2. at + 1 \in 0..N
          BY <5>1
        <5> QED
          BY <1>0, <5>2
      <4> QED
        BY <2>1, <4>1, <4>2
    <3> QED
      BY <3>1, <3>2, <3>3
  <2> QED
    BY <1>2, <2>1 DEF Behind
<1> QED
  BY <1>1, <1>2

\* What Read computes.
Reached(t, line, at, g) ==
  /\ g \in [0..Len(t) -> SUBSET (0..Len(line))] /\ g[0] = {at}
  /\ \A k \in 1..Len(t) : g[k] = UNION {Behind(t[k], line, o) : o \in g[k - 1]}

\* Read as an equation: the reading of a text ends in its last set of places.
LEMMA ReadIs ==
  ASSUME NEW t, Len(t) \in Nat, NEW line, Len(line) \in Nat, NEW at \in 0..Len(line)
  PROVE  \E g : Reached(t, line, at, g) /\ Read(t, line, at) = g[Len(t)]
<1> DEFINE n == Len(t)
           V == SUBSET (0..Len(line))
           Body(f, k) == IF k = 0 THEN {at} ELSE UNION {Behind(t[k], line, o) : o \in f[k - 1]}
           E(f) == f = [k \in 0..Len(t) |-> Body(f, k)]
           start == {at}
           step == [k \in 1..n |-> [s \in V |-> UNION {Behind(t[k], line, o) : o \in s}]]
<1>1. start \in V
  OBVIOUS
<1>2. step \in StepFunctions(n, V)
  <2>1. ASSUME NEW k \in 1..n, NEW s \in V
        PROVE  UNION {Behind(t[k], line, o) : o \in s} \in V
    BY BehindIn
  <2> HIDE DEF V
  <2> QED
    BY <2>1 DEF StepFunctions
<1>3. PICK f : f \in Values(n, V, start, step)
  <2> HIDE DEF V, step, start, n
  <2>1. n \in Nat
    BY DEF n
  <2> QED
    BY <1>1, <1>2, <2>1, Recursion
<1>4. f \in [0..n -> V] /\ f[0] = start /\ \A k \in 1..n : f[k] = step[k][f[k - 1]]
  BY <1>3 DEF Values
<1>5. ASSUME NEW k \in 1..n  PROVE f[k] = UNION {Behind(t[k], line, o) : o \in f[k - 1]}
  <2>1. k - 1 \in 0..n
    OBVIOUS
  <2>2. f[k - 1] \in V
    <3> HIDE DEF V
    <3> QED
      BY <1>4, <2>1
  <2>3. f[k] = step[k][f[k - 1]]
    BY <1>4
  <2> HIDE DEF V
  <2> QED
    BY <2>2, <2>3
<1>6. E(f)
  <2>1. ASSUME NEW k \in 0..n  PROVE f[k] = Body(f, k)
    <3>1. CASE k = 0
      BY <1>4, <3>1
    <3>2. CASE k # 0
      <4>1. k \in 1..n
        BY <3>2
      <4> QED
        BY <1>5, <3>2, <4>1
    <3> QED
      BY <3>1, <3>2
  <2> HIDE DEF Body, V
  <2> QED
    BY <1>4, <2>1
<1> DEFINE g == CHOOSE x : E(x)
<1>7. E(g)
  <2> HIDE DEF E
  <2> QED
    BY <1>6
<1>8. Read(t, line, at) = g[n]
  BY DEF Read
<1> HIDE DEF g
<1>9. DOMAIN g = 0..n /\ g[0] = {at} /\ \A k \in 1..n : g[k] = UNION {Behind(t[k], line, o) : o \in g[k - 1]}
  <2>1. DOMAIN g = 0..n /\ \A k \in 0..n : g[k] = Body(g, k)
    <3> HIDE DEF Body
    <3> QED
      BY <1>7
  <2>2. 0 \in 0..n /\ \A k \in 1..n : k \in 0..n /\ k # 0
    OBVIOUS
  <2> QED
    BY <2>1, <2>2
<1>10. ASSUME NEW k \in 0..n  PROVE g[k] = f[k]
  <2> DEFINE T == {j \in 0..n : g[j] = f[j]}
  <2>1. 0 \in T
    <3>1. g[0] = f[0]
      BY <1>4, <1>9
    <3>2. 0 \in 0..n
      OBVIOUS
    <3> QED
      BY <3>1, <3>2, Zenon
  <2>2. ASSUME NEW j \in 1..n, j - 1 \in T  PROVE j \in T
    <3>1. g[j - 1] = f[j - 1]
      BY <2>2, Zenon
    <3>2. g[j] = f[j]
      BY <1>5, <1>9, <3>1, Zenon
    <3>3. j \in 0..n
      OBVIOUS
    <3> QED
      BY <3>2, <3>3, Zenon
  <2>3. 0..n \subseteq T
    <3> HIDE DEF T
    <3> QED
      BY <2>1, <2>2, Induction
  <2> QED
    BY <2>3
<1>11. g = f
  <2>1. g = [k \in 0..n |-> g[k]]
    <3> HIDE DEF Body
    <3> QED
      BY <1>7
  <2>2. f = [k \in 0..n |-> f[k]]
    BY <1>4
  <2> QED
    BY <1>10, <2>1, <2>2
<1> QED
  BY <1>4, <1>8, <1>9, <1>11 DEF Reached

\* A text leads to offsets of the line.
LEMMA ReadIn ==
  ASSUME NEW t, Len(t) \in Nat, NEW line, Len(line) \in Nat, NEW at \in 0..Len(line)
  PROVE  Read(t, line, at) \subseteq 0..Len(line)
<1>1. PICK g : Reached(t, line, at, g) /\ Read(t, line, at) = g[Len(t)]
  BY ReadIs
<1> QED
  BY <1>1 DEF Reached

\* The empty text leads nowhere else.
LEMMA ReadEmpty ==
  ASSUME NEW line, Len(line) \in Nat, NEW at \in 0..Len(line)
  PROVE  Read(<<>>, line, at) = {at}
<1>0. Len(<<>>) = 0
  OBVIOUS
<1>1. PICK g : Reached(<<>>, line, at, g) /\ Read(<<>>, line, at) = g[0]
  BY <1>0, ReadIs
<1> QED
  BY <1>1 DEF Reached

\* A text and one symbol more.
LEMMA ReadAppend ==
  ASSUME NEW T, NEW t \in Seq(T), NEW c \in T,
         NEW line, Len(line) \in Nat, NEW at \in 0..Len(line)
  PROVE  \A e : e \in Read(Append(t, c), line, at)
                  <=> \E o \in Read(t, line, at) : e \in Behind(c, line, o)
<1> DEFINE n == Len(t)
           u == Append(t, c)
<1>0. n \in Nat /\ Len(u) = n + 1 /\ u[n + 1] = c /\ \A k \in 1..n : u[k] = t[k]
  BY AppendProperties, LenProperties
<1> HIDE DEF u
<1>1. PICK g : Reached(t, line, at, g) /\ Read(t, line, at) = g[n]
  BY <1>0, ReadIs
<1>2. PICK f : Reached(u, line, at, f) /\ Read(u, line, at) = f[n + 1]
  BY <1>0, ReadIs
<1>3. /\ g[0] = {at} /\ f[0] = {at}
      /\ \A k \in 1..n : g[k] = UNION {Behind(t[k], line, o) : o \in g[k - 1]}
      /\ \A k \in 1..(n + 1) : f[k] = UNION {Behind(u[k], line, o) : o \in f[k - 1]}
  BY <1>0, <1>1, <1>2 DEF Reached
<1>4. g[n] = f[n]
  <2> DEFINE S == {j \in 0..n : g[j] = f[j]}
  <2>1. 0 \in S
    <3>1. g[0] = f[0]
      BY <1>3
    <3>2. 0 \in 0..n
      BY <1>0
    <3> QED
      BY <3>1, <3>2, Zenon
  <2>2. ASSUME NEW j \in 1..n, j - 1 \in S  PROVE j \in S
    <3>0. g[j - 1] = f[j - 1]
      BY <2>2, Zenon
    <3>1. j \in 1..(n + 1) /\ u[j] = t[j] /\ j \in 0..n
      BY <1>0
    <3>2. g[j] = UNION {Behind(t[j], line, o) : o \in g[j - 1]}
      BY <1>3
    <3>3. f[j] = UNION {Behind(u[j], line, o) : o \in f[j - 1]}
      BY <1>3, <3>1
    <3>4. g[j] = f[j]
      BY <3>0, <3>1, <3>2, <3>3
    <3> QED
      BY <3>1, <3>4, Zenon
  <2>3. n \in S
    <3> HIDE DEF S
    <3>1. 0..n \subseteq S
      BY <1>0, <2>1, <2>2, Induction
    <3> QED
      BY <1>0, <3>1
  <2> QED
    BY <2>3
<1>5. f[n + 1] = UNION {Behind(u[n + 1], line, o) : o \in f[n]}
  <2>1. n + 1 \in 1..(n + 1) /\ (n + 1) - 1 = n
    BY <1>0
  <2> QED
    BY <1>3, <2>1
<1>6. Read(u, line, at) = UNION {Behind(c, line, o) : o \in Read(t, line, at)}
  BY <1>0, <1>1, <1>2, <1>4, <1>5
<1> QED
  BY <1>6 DEF u

\* One text and then another.
LEMMA ReadConcat ==
  ASSUME NEW T, NEW u \in Seq(T), NEW v \in Seq(T),
         NEW line, Len(line) \in Nat, NEW at \in 0..Len(line)
  PROVE  \A e : e \in Read(u \o v, line, at)
                  <=> \E o \in Read(u, line, at) : e \in Read(v, line, o)
<1> DEFINE Holds(w) == \A e : e \in Read(u \o w, line, at)
                                <=> \E o \in Read(u, line, at) : e \in Read(w, line, o)
           P == {w \in Seq(T) : Holds(w)}
<1>0. Read(u, line, at) \subseteq 0..Len(line)
  BY ReadIn, LenProperties
<1>1. <<>> \in P
  <2>1. u \o <<>> = u /\ <<>> \in Seq(T)
    BY ConcatEmptySeq
  <2>2. \A o \in Read(u, line, at) : Read(<<>>, line, o) = {o}
    BY <1>0, ReadEmpty
  <2>3. Holds(<<>>)
    BY <2>1, <2>2
  <2> QED
    BY <2>1, <2>3
<1>2. ASSUME NEW w \in Seq(T), NEW c \in T, w \in P  PROVE Append(w, c) \in P
  <2>1. u \o Append(w, c) = Append(u \o w, c) /\ u \o w \in Seq(T) /\ Append(w, c) \in Seq(T)
    OBVIOUS
  <2>2. \A e : e \in Read(Append(u \o w, c), line, at)
                 <=> \E o \in Read(u \o w, line, at) : e \in Behind(c, line, o)
    <3> DEFINE uw == u \o w
    <3>1. uw \in Seq(T)
      BY <2>1
    <3> HIDE DEF uw
    <3>2. \A e : e \in Read(Append(uw, c), line, at)
                 <=> \E o \in Read(uw, line, at) : e \in Behind(c, line, o)
      BY <3>1, ReadAppend
    <3> QED
      BY <3>2 DEF uw
  <2>3. Holds(w)
    BY <1>2
  <2>4. \A o \in Read(u, line, at) : \A e : e \in Read(Append(w, c), line, o)
                      <=> \E i \in Read(w, line, o) : e \in Behind(c, line, i)
    <3>1. \A o \in 0..Len(line) : \A e : e \in Read(Append(w, c), line, o)
                      <=> \E i \in Read(w, line, o) : e \in Behind(c, line, i)
      BY ReadAppend
    <3> QED
      BY <1>0, <3>1
  <2>5. Holds(Append(w, c))
    <3>1. ASSUME NEW e
          PROVE  e \in Read(Append(u \o w, c), line, at)
                   <=> \E o \in Read(u, line, at) : e \in Read(Append(w, c), line, o)
      BY <2>2, <2>3, <2>4, Zenon
    <3> QED
      BY <2>1, <3>1
  <2> HIDE DEF Holds
  <2> QED
    BY <2>1, <2>5
<1>3. Seq(T) \subseteq P
  <2> HIDE DEF P
  <2> QED
    BY <1>1, <1>2, SequenceInduction
<1>4. Holds(v)
  BY <1>3
<1> QED
  BY <1>4

\* A text of one symbol.
LEMMA ReadOne ==
  ASSUME NEW T, NEW c \in T, NEW line, Len(line) \in Nat, NEW at \in 0..Len(line)
  PROVE  Read(<<c>>, line, at) = Behind(c, line, at)
<1> DEFINE none == <<>>
<1>0. none \in Seq(T)
  OBVIOUS
<1>1. Append(none, c) = <<c>>
  OBVIOUS
<1>2. Read(none, line, at) = {at}
  BY ReadEmpty
<1> HIDE DEF none
<1>3. \A e : e \in Read(Append(none, c), line, at)
               <=> \E o \in Read(none, line, at) : e \in Behind(c, line, o)
  BY <1>0, ReadAppend
<1>4. \A e : e \in Read(<<c>>, line, at) <=> e \in Behind(c, line, at)
  BY <1>1, <1>2, <1>3
<1> QED
  BY <1>4

\* The greatest of one.
LEMMA MaxIs ==
  ASSUME NEW N \in Nat, NEW S \in SUBSET (0..N), S # {}
  PROVE  Max(S) \in S /\ \A y \in S : y <= Max(S)
<1> DEFINE T == {N - y : y \in S}
<1>1. T \in SUBSET Nat /\ T # {}
  <2>1. ASSUME NEW y \in S  PROVE N - y \in Nat
    OBVIOUS
  <2> QED
    BY <2>1
<1>2. PICK x \in T : \A y \in T : x <= y
  <2> HIDE DEF T
  <2> QED
    BY <1>1, LeastNumber
<1>3. PICK m \in S : x = N - m
  BY <1>2
<1>4. \A y \in S : N - m <= N - y
  BY <1>2, <1>3
<1>5. \A y \in S : m >= y
  BY <1>4
<1>6. Max(S) \in S /\ \A y \in S : Max(S) >= y
  BY <1>5 DEF Max
<1> QED
  BY <1>6

\* The ends of a slot are behind its start.
LEMMA SplitsIn ==
  ASSUME NEW h, NEW n, NEW line, Len(line) \in Nat, NEW at \in 0..Len(line)
  PROVE  Splits(h, n, line, at) \subseteq 0..Len(line)
<1> DEFINE found == Occurrences(TrimEnd(h[h[n].next].text), line, at)
           behind == IF found = {} THEN at ELSE Max(found)
<1>0. PICK N \in Nat : N = Len(line)
  OBVIOUS
<1>1. found \in SUBSET (0..N)
  BY <1>0 DEF Occurrences
<1>2. behind \in Nat
  <2> HIDE DEF found
  <2>1. found # {} => Max(found) \in 0..N
    BY <1>1, MaxIs
  <2>2. at \in Nat
    OBVIOUS
  <2> QED
    BY <2>1, <2>2
<1> DEFINE splits == Splits(h, n, line, at)
<1>3. \/ splits = {N} \/ splits = (at + 1)..N
      \/ splits = found \/ splits = found \cup ((behind + 1)..N)
  BY <1>0 DEF Splits
<1> HIDE DEF found, behind
<1>4. at + 1 \in Nat /\ behind + 1 \in Nat
  BY <1>2
<1>5. /\ {N} \subseteq 0..N /\ found \subseteq 0..N
      /\ (at + 1)..N \subseteq 0..N /\ (behind + 1)..N \subseteq 0..N
  BY <1>1, <1>4
<1>6. splits \subseteq 0..N
  <2> HIDE DEF splits
  <2> QED
    BY <1>3, <1>5, Zenon
<1> QED
  BY <1>0, <1>6

\* What one element makes of the line, given what the later ones make of it.
MatchBody(h, line, match, n, at) ==
  LET e == h[n]
      Onward(end) == IF e.next = Nil THEN end = Len(line) ELSE match[e.next][end]
  IN  CASE e.kind = "literal" -> \E end \in Read(e.text, line, at) : Onward(end)
        [] e.kind = "choice" -> \E k \in DOMAIN e.kids : match[e.kids[k]][at]
        [] e.kind = "group" -> match[e.kids[1]][at]
        [] e.kind = "optional" -> match[e.kids[1]][at] \/ Onward(at)
        [] OTHER -> \E end \in Splits(h, n, line, at) :
                      Onward(end) /\ Parses(SubSeq(line, at + 1, end))

\* Match as an equation: the matcher takes a chain element by element.
LEMMA MatchIs ==
  ASSUME NEW h, NEW pos, NEW top, Sound(h, pos, top), NEW line, Len(line) \in Nat
  PROVE  \A n \in DOMAIN h, at \in 0..Len(line) :
           Match(h, line)[n][at] = MatchBody(h, line, Match(h, line), n, at)
<1> DEFINE D == DOMAIN h
           I == 0..Len(line)
           V == [I -> BOOLEAN]
           X == Match(h, line)
           Body(f, n) == [at \in 0..Len(line) |-> MatchBody(h, line, f, n, at)]
           E(f) == f = [n \in DOMAIN h |-> Body(f, n)]
           F == [g \in [D -> V] |-> [n \in D |-> Body(g, n)]]
           rank == [n \in D |-> top - pos[n]]
<1>0. top \in Nat /\ \A n \in DOMAIN h : pos[n] \in 0..top
  BY DEF Sound
<1>1. ASSUME NEW g \in [D -> V], NEW n \in D
      PROVE  Body(g, n) \in V
  <2>1. ASSUME NEW m \in D, NEW i \in I  PROVE g[m][i] \in BOOLEAN
    <3>1. g[m] \in V
      OBVIOUS
    <3> QED
      BY <3>1
  <2>2. ASSUME NEW at \in I  PROVE MatchBody(h, line, g, n, at) \in BOOLEAN
    <3>1. h[n].kind \in {"group", "optional"} => g[h[n].kids[1]][at] \in BOOLEAN
      BY <2>1, SoundFacts
    <3> HIDE DEF D, I, V
    <3> QED
      BY <3>1 DEF MatchBody
  <2> QED
    BY <2>2
<1>2. F \in Functionals(D, V)
  <2> HIDE DEF D, V, Body
  <2> QED
    BY <1>1 DEF Functionals
<1>3. rank \in Ranks(D, top)
  BY <1>0 DEF Ranks
<1>4. LowerDecide(D, V, rank, F)
  <2>1. ASSUME NEW g \in [D -> V], NEW f \in [D -> V], NEW n \in D,
               \A y \in D : rank[y] < rank[n] => g[y] = f[y]
        PROVE  Body(g, n) = Body(f, n)
    <3>1. ASSUME NEW m \in D, pos[n] < pos[m]  PROVE g[m] = f[m]
      <4>1. rank[m] < rank[n]
        BY <1>0, <3>1
      <4> HIDE DEF rank, V
      <4> QED
        BY <2>1, <4>1
    <3>2. h[n].next # Nil => g[h[n].next] = f[h[n].next]
      BY <3>1, SoundFacts
    <3>3. \A k \in DOMAIN h[n].kids : g[h[n].kids[k]] = f[h[n].kids[k]]
      BY <3>1, SoundFacts
    <3>4. h[n].kind \in {"group", "optional"} => g[h[n].kids[1]] = f[h[n].kids[1]]
      BY <3>1, SoundFacts
    <3>5. ASSUME NEW at \in I  PROVE MatchBody(h, line, g, n, at) = MatchBody(h, line, f, n, at)
      <4> HIDE DEF V, D, I
      <4> QED
        BY <3>2, <3>3, <3>4 DEF MatchBody
    <3> QED
      BY <3>5
  <2> HIDE DEF V, Body, rank
  <2> QED
    BY <2>1 DEF LowerDecide
<1>5. HasFixedPoint(D, V, F)
  <2>1. V # {}
    <3>1. [i \in I |-> TRUE] \in V
      OBVIOUS
    <3> QED
      BY <3>1
  <2> HIDE DEF F, rank, D, V
  <2> QED
    BY <1>0, <1>2, <1>3, <1>4, <2>1, RankedRecursion
<1>6. E(CHOOSE f : E(f))
  <2>1. \E f : E(f)
    <3> HIDE DEF Body, V
    <3> QED
      BY <1>5 DEF HasFixedPoint
  <2> HIDE DEF E
  <2> QED
    BY <2>1
<1>7. X = CHOOSE f : E(f)
  BY DEF Match, MatchBody
<1>8. E(X)
  <2> HIDE DEF E, X
  <2> QED
    BY <1>6, <1>7
<1>9. \A n \in D : X[n] = Body(X, n)
  <2> HIDE DEF Body, X
  <2> QED
    BY <1>8
<1> HIDE DEF X
<1>10. \A n \in DOMAIN h, at \in 0..Len(line) : X[n][at] = MatchBody(h, line, X, n, at)
  BY <1>9
<1> QED
  BY <1>10 DEF X

\* The letters of a text that are no spaces.
LEMMA SolidIs ==
  ASSUME NEW T
  PROVE  /\ Solid(<<>>) = 0
         /\ \A t \in Seq(T) : Solid(t) \in Nat
         /\ \A t \in Seq(T), c \in T :
              /\ c = "_" => Solid(Append(t, c)) = Solid(t)
              /\ c # "_" => Solid(Append(t, c)) = Solid(t) + 1
<1> DEFINE solid(t) == {i \in DOMAIN t : t[i] # "_"}
<1>1. Solid(<<>>) = 0
  <2>1. solid(<<>>) = {}
    OBVIOUS
  <2> QED
    BY <2>1, FS_EmptySet DEF Solid
<1>2. ASSUME NEW t \in Seq(T)  PROVE IsFiniteSet(solid(t)) /\ Solid(t) \in Nat
  <2>1. IsFiniteSet(1..Len(t))
    BY FS_Interval, LenProperties
  <2>2. solid(t) \subseteq 1..Len(t)
    <3>1. DOMAIN t = 1..Len(t)
      BY LenProperties
    <3> QED
      BY <3>1, Zenon
  <2>3. IsFiniteSet(solid(t))
    BY <2>1, <2>2, FS_Subset
  <2> QED
    BY <2>3, FS_CardinalityType DEF Solid
<1>3. ASSUME NEW t \in Seq(T), NEW c \in T
      PROVE  /\ c = "_" => Solid(Append(t, c)) = Solid(t)
             /\ c # "_" => Solid(Append(t, c)) = Solid(t) + 1
  <2> DEFINE u == Append(t, c)
             n == Len(t)
  <2>0. Solid(t) \in Nat
    BY <1>2
  <2>1. /\ n \in Nat /\ DOMAIN u = 1..(n + 1) /\ DOMAIN t = 1..n
        /\ u[n + 1] = c /\ \A i \in 1..n : u[i] = t[i]
    BY AppendProperties, LenProperties
  <2> HIDE DEF u, n
  <2>2. ASSUME c = "_"  PROVE Solid(u) = Solid(t)
    <3>1. ASSUME NEW i \in 1..(n + 1)  PROVE u[i] # "_" <=> i \in 1..n /\ t[i] # "_"
      <4>1. CASE i = n + 1
        <5>1. u[i] = c /\ i \notin 1..n
          BY <2>1, <4>1
        <5> QED
          BY <2>2, <5>1, Zenon
      <4>2. CASE i # n + 1
        <5>1. i \in 1..n
          BY <2>1, <4>2
        <5>2. u[i] = t[i]
          BY <2>1, <5>1
        <5> QED
          BY <5>1, <5>2
      <4> QED
        BY <4>1, <4>2
    <3>2. \A i \in 1..n : i \in 1..(n + 1)
      BY <2>1
    <3>3. solid(u) = solid(t)
      BY <2>1, <3>1, <3>2, Zenon
    <3>4. Solid(u) = Solid(t)
      BY <3>3 DEF Solid
    <3> QED
      BY <3>4
  <2>3. ASSUME c # "_"  PROVE Solid(u) = Solid(t) + 1
    <3>1. ASSUME NEW i \in 1..(n + 1)
          PROVE  u[i] # "_" <=> (i \in 1..n /\ t[i] # "_") \/ i = n + 1
      <4>1. CASE i = n + 1
        <5>1. u[i] = c
          BY <2>1, <4>1
        <5> QED
          BY <2>3, <4>1, <5>1
      <4>2. CASE i # n + 1
        <5>1. i \in 1..n
          BY <2>1, <4>2
        <5>2. u[i] = t[i]
          BY <2>1, <5>1
        <5> QED
          BY <4>2, <5>1, <5>2
      <4> QED
        BY <4>1, <4>2
    <3>2. /\ \A i \in 1..n : i \in 1..(n + 1)
          /\ n + 1 \in 1..(n + 1) /\ n + 1 \notin 1..n
      BY <2>1
    <3>3. solid(u) = solid(t) \cup {n + 1} /\ n + 1 \notin solid(t)
      BY <2>1, <3>1, <3>2, Zenon
    <3>4. Cardinality(solid(u)) = Cardinality(solid(t)) + 1
      <4> HIDE DEF solid
      <4> QED
        BY <1>2, <3>3, FS_AddElement
    <3>5. Solid(u) = Solid(t) + 1
      BY <3>4 DEF Solid
    <3> QED
      BY <3>5
  <2> QED
    BY <2>2, <2>3, Zenon DEF u
<1> QED
  BY <1>1, <1>2, <1>3

\* What one element adds to the length of the later ones.
LengthBody(h, length, n) ==
  LET e == h[n]
      own == CASE e.kind = "literal" -> Solid(e.text)
               [] e.kind = "group" -> length[e.kids[1]]
               [] e.kind = "choice" -> Min({length[e.kids[k]] : k \in DOMAIN e.kids})
               [] OTHER -> 0
  IN  own + (IF e.onext = Nil THEN 0 ELSE length[e.onext])

\* MinLength as an equation along `original_next`.
LEMMA MinLengthIs ==
  ASSUME NEW h, NEW pos, NEW top, Sound(h, pos, top)
  PROVE  /\ MinLength(h) \in [DOMAIN h -> Nat]
         /\ \A n \in DOMAIN h : MinLength(h)[n] = LengthBody(h, MinLength(h), n)
<1> DEFINE D == DOMAIN h
           V == Nat
           X == MinLength(h)
           E(f) == f = [n \in DOMAIN h |-> LengthBody(h, f, n)]
           F == [g \in [D -> V] |-> [n \in D |-> LengthBody(h, g, n)]]
           rank == [n \in D |-> top - pos[n]]
<1>0. top \in Nat /\ \A n \in DOMAIN h : pos[n] \in 0..top
  BY DEF Sound
<1>1. ASSUME NEW g \in [D -> V], NEW n \in D
      PROVE  LengthBody(h, g, n) \in V
  <2>1. h[n].kind = "literal" => Solid(h[n].text) \in Nat
    BY SolidIs, SoundFacts
  <2>2. h[n].kind = "group" => g[h[n].kids[1]] \in Nat
    BY SoundFacts
  <2>3. h[n].onext # Nil => g[h[n].onext] \in Nat
    BY SoundFacts
  <2>4. h[n].kind = "choice" => Min({g[h[n].kids[k]] : k \in DOMAIN h[n].kids}) \in Nat
    <3>1. ASSUME h[n].kind = "choice"
          PROVE  /\ {g[h[n].kids[k]] : k \in DOMAIN h[n].kids} \in SUBSET Nat
                 /\ {g[h[n].kids[k]] : k \in DOMAIN h[n].kids} # {}
      BY <3>1, SoundFacts
    <3> QED
      BY <3>1, MinIs
  <2> QED
    BY <2>1, <2>2, <2>3, <2>4 DEF LengthBody
<1>2. F \in Functionals(D, V)
  <2> HIDE DEF D, V
  <2> QED
    BY <1>1 DEF Functionals
<1>3. rank \in Ranks(D, top)
  BY <1>0 DEF Ranks
<1>4. LowerDecide(D, V, rank, F)
  <2>1. ASSUME NEW g \in [D -> V], NEW f \in [D -> V], NEW n \in D,
               \A y \in D : rank[y] < rank[n] => g[y] = f[y]
        PROVE  LengthBody(h, g, n) = LengthBody(h, f, n)
    <3>1. ASSUME NEW m \in D, pos[n] < pos[m]  PROVE g[m] = f[m]
      <4>1. rank[m] < rank[n]
        BY <1>0, <3>1
      <4> HIDE DEF rank, V
      <4> QED
        BY <2>1, <4>1
    <3>2. h[n].onext # Nil => g[h[n].onext] = f[h[n].onext]
      BY <3>1, SoundFacts
    <3>3. \A k \in DOMAIN h[n].kids : g[h[n].kids[k]] = f[h[n].kids[k]]
      BY <3>1, SoundFacts
    <3>4. h[n].kind \in {"group", "optional"} => g[h[n].kids[1]] = f[h[n].kids[1]]
      BY <3>1, SoundFacts
    <3>5. {g[h[n].kids[k]] : k \in DOMAIN h[n].kids} = {f[h[n].kids[k]] : k \in DOMAIN h[n].kids}
      BY <3>3
    <3> QED
      BY <3>2, <3>4, <3>5 DEF LengthBody
  <2> HIDE DEF V, rank
  <2> QED
    BY <2>1 DEF LowerDecide
<1>5. HasFixedPoint(D, V, F)
  <2>1. V # {}
    OBVIOUS
  <2> HIDE DEF F, rank, D, V
  <2> QED
    BY <1>0, <1>2, <1>3, <1>4, <2>1, RankedRecursion
<1>6. E(CHOOSE f : E(f))
  <2>1. \E f : E(f)
    <3> HIDE DEF V
    <3> QED
      BY <1>5 DEF HasFixedPoint
  <2> HIDE DEF E
  <2> QED
    BY <2>1
<1>7. X = CHOOSE f : E(f)
  BY DEF MinLength, LengthBody
<1>8. E(X)
  <2> HIDE DEF E, X
  <2> QED
    BY <1>6, <1>7
<1> HIDE DEF X
<1>9. X = [n \in D |-> LengthBody(h, X, n)]
  BY <1>8
<1>10. {n \in D : X[n] \notin Nat} = {}
  <2> DEFINE S == {n \in D : X[n] \notin Nat}
  <2> SUFFICES ASSUME S # {}  PROVE FALSE
    OBVIOUS
  <2>1. PICK m \in S : \A i \in S : pos[i] <= pos[m]
    <3>1. S \in SUBSET DOMAIN h
      OBVIOUS
    <3> HIDE DEF S
    <3> QED
      BY <3>1, Deepest
  <2>2. m \in D /\ X[m] = LengthBody(h, X, m) /\ X[m] \notin Nat
    BY <1>9, <2>1
  <2>3. ASSUME NEW i \in D, pos[m] < pos[i]  PROVE X[i] \in Nat
    BY <1>0, <2>1, <2>3
  <2> DEFINE g == [i \in D |-> IF pos[m] < pos[i] THEN X[i] ELSE 0]
  <2>4. g \in [D -> V]
    BY <2>3
  <2>5. LengthBody(h, g, m) = LengthBody(h, X, m)
    <3>1. h[m].onext # Nil => g[h[m].onext] = X[h[m].onext]
      BY <2>2, SoundFacts
    <3>2. \A k \in DOMAIN h[m].kids : g[h[m].kids[k]] = X[h[m].kids[k]]
      BY <2>2, SoundFacts
    <3>3. h[m].kind \in {"group", "optional"} => g[h[m].kids[1]] = X[h[m].kids[1]]
      BY <2>2, SoundFacts
    <3>4. {g[h[m].kids[k]] : k \in DOMAIN h[m].kids} = {X[h[m].kids[k]] : k \in DOMAIN h[m].kids}
      BY <3>2, ZenonT(30)
    <3> HIDE DEF g
    <3> QED
      BY <3>1, <3>3, <3>4 DEF LengthBody
  <2> HIDE DEF g
  <2> QED
    BY <1>1, <2>2, <2>4, <2>5
<1> QED
  BY <1>9, <1>10 DEF X

\* Whether the keywords of an element and of the later ones are on the line.
PresentBody(h, line, present, n, starting, depth) ==
  LET e == h[n]
      own == CASE e.kind = "literal" ->
                    KeywordText(e.text) = <<>>
                      \/ IsPresent(KeywordText(e.text), starting, Ending(e), line)
               [] e.kind = "group" -> present[e.kids[1]][starting][depth + 1]
               [] e.kind = "choice" ->
                    depth > 1 \/ \E k \in DOMAIN e.kids : present[e.kids[k]][starting][depth]
               [] OTHER -> TRUE
  IN  own /\ (e.onext = Nil \/ present[e.onext][FALSE][depth])

\* KeywordsPresent as an equation along `original_next`.
LEMMA KeywordsPresentIs ==
  ASSUME NEW h, NEW pos, NEW top, Sound(h, pos, top), NEW line
  PROVE  \A n \in DOMAIN h, starting \in BOOLEAN, depth \in Nat :
           KeywordsPresent(h, line)[n][starting][depth]
             = PresentBody(h, line, KeywordsPresent(h, line), n, starting, depth)
<1> DEFINE D == DOMAIN h
           V == [BOOLEAN -> [Nat -> BOOLEAN]]
           X == KeywordsPresent(h, line)
           Body(f, n) == [starting \in BOOLEAN |-> [depth \in Nat |->
                            PresentBody(h, line, f, n, starting, depth)]]
           E(f) == f = [n \in DOMAIN h |-> Body(f, n)]
           F == [g \in [D -> V] |-> [n \in D |-> Body(g, n)]]
           rank == [n \in D |-> top - pos[n]]
<1>0. top \in Nat /\ \A n \in DOMAIN h : pos[n] \in 0..top
  BY DEF Sound
<1>1. ASSUME NEW g \in [D -> V], NEW n \in D
      PROVE  Body(g, n) \in V
  <2>1. ASSUME NEW m \in D, NEW s \in BOOLEAN, NEW d \in Nat  PROVE g[m][s][d] \in BOOLEAN
    <3>1. g[m] \in V
      OBVIOUS
    <3>2. g[m][s] \in [Nat -> BOOLEAN]
      BY <3>1
    <3> QED
      BY <3>2
  <2>2. ASSUME NEW s \in BOOLEAN, NEW d \in Nat
        PROVE  PresentBody(h, line, g, n, s, d) \in BOOLEAN
    <3>1. h[n].kind \in {"group", "optional"} => g[h[n].kids[1]][s][d + 1] \in BOOLEAN
      <4>1. h[n].kind \in {"group", "optional"} => h[n].kids[1] \in D
        BY SoundFacts
      <4>2. d + 1 \in Nat
        OBVIOUS
      <4> HIDE DEF D, V
      <4> QED
        BY <2>1, <4>1, <4>2
    <3>2. IsPresent(KeywordText(h[n].text), s, Ending(h[n]), line) \in BOOLEAN
      BY DEF IsPresent, IsPrefix, IsSuffix
    <3> HIDE DEF D, V
    <3> QED
      BY <3>1, <3>2 DEF PresentBody
  <2> QED
    BY <2>2
<1>2. F \in Functionals(D, V)
  <2> HIDE DEF D, V, Body
  <2> QED
    BY <1>1 DEF Functionals
<1>3. rank \in Ranks(D, top)
  BY <1>0 DEF Ranks
<1>4. LowerDecide(D, V, rank, F)
  <2>1. ASSUME NEW g \in [D -> V], NEW f \in [D -> V], NEW n \in D,
               \A y \in D : rank[y] < rank[n] => g[y] = f[y]
        PROVE  Body(g, n) = Body(f, n)
    <3>1. ASSUME NEW m \in D, pos[n] < pos[m]  PROVE g[m] = f[m]
      <4>1. rank[m] < rank[n]
        BY <1>0, <3>1
      <4> HIDE DEF rank, V
      <4> QED
        BY <2>1, <4>1
    <3>2. h[n].onext # Nil => g[h[n].onext] = f[h[n].onext]
      BY <3>1, SoundFacts
    <3>3. \A k \in DOMAIN h[n].kids : g[h[n].kids[k]] = f[h[n].kids[k]]
      BY <3>1, SoundFacts
    <3>4. h[n].kind \in {"group", "optional"} => g[h[n].kids[1]] = f[h[n].kids[1]]
      BY <3>1, SoundFacts
    <3>5. ASSUME NEW s \in BOOLEAN, NEW d \in Nat
          PROVE  PresentBody(h, line, g, n, s, d) = PresentBody(h, line, f, n, s, d)
      <4> HIDE DEF V, D
      <4> QED
        BY <3>2, <3>3, <3>4 DEF PresentBody
    <3> QED
      BY <3>5
  <2> HIDE DEF V, Body, rank
  <2> QED
    BY <2>1 DEF LowerDecide
<1>5. HasFixedPoint(D, V, F)
  <2>1. V # {}
    <3>1. [s \in BOOLEAN |-> [d \in Nat |-> TRUE]] \in V
      OBVIOUS
    <3> QED
      BY <3>1
  <2> HIDE DEF F, rank, D, V
  <2> QED
    BY <1>0, <1>2, <1>3, <1>4, <2>1, RankedRecursion
<1>6. E(CHOOSE f : E(f))
  <2>1. \E f : E(f)
    <3> HIDE DEF Body, V
    <3> QED
      BY <1>5 DEF HasFixedPoint
  <2> HIDE DEF E
  <2> QED
    BY <2>1
<1>7. X = CHOOSE f : E(f)
  BY DEF KeywordsPresent, PresentBody
<1>8. E(X)
  <2> HIDE DEF E, X
  <2> QED
    BY <1>6, <1>7
<1>9. \A n \in D : X[n] = Body(X, n)
  <2> HIDE DEF Body, X
  <2> QED
    BY <1>8
<1> HIDE DEF X
<1>10. \A n \in DOMAIN h, s \in BOOLEAN, d \in Nat : X[n][s][d] = PresentBody(h, line, X, n, s, d)
  <2>1. ASSUME NEW n \in DOMAIN h, NEW s \in BOOLEAN, NEW d \in Nat
        PROVE  Body(X, n)[s][d] = PresentBody(h, line, X, n, s, d)
    <3>1. Body(X, n)[s] = [depth \in Nat |-> PresentBody(h, line, X, n, s, depth)]
      BY Zenon
    <3> HIDE DEF Body
    <3> QED
      BY <3>1, Zenon
  <2> HIDE DEF Body
  <2> QED
    BY <1>9, <2>1
<1> QED
  BY <1>10 DEF X

\* Reading a text is a path of offsets.
Path(t, line, f) ==
  /\ f \in [0..Len(t) -> 0..Len(line)]
  /\ \A k \in 1..Len(t) : f[k] \in Behind(t[k], line, f[k - 1])

\* A text is read along a path of places, one per symbol.
LEMMA ReadPath ==
  ASSUME NEW t \in Seq(Letters), NEW line, Len(line) \in Nat, NEW at \in 0..Len(line), NEW e
  PROVE  e \in Read(t, line, at) <=> \E f : Path(t, line, f) /\ f[0] = at /\ f[Len(t)] = e
<1> DEFINE Leads(u, i, f) == Path(u, line, f) /\ f[0] = at /\ f[Len(u)] = i
           Holds(u) == \A i : i \in Read(u, line, at) <=> \E f : Leads(u, i, f)
           P == {u \in Seq(Letters) : Holds(u)}
<1>1. <<>> \in P
  <2> DEFINE f == [k \in 0..0 |-> at]
  <2>1. Path(<<>>, line, f) /\ f[0] = at
    BY DEF Path
  <2>2. \A i : i \in Read(<<>>, line, at) <=> i = at
    BY ReadEmpty
  <2>3. \A i : (\E x : Leads(<<>>, i, x)) <=> i = at
    BY <2>1
  <2>4. <<>> \in Seq(Letters)
    OBVIOUS
  <2> QED
    BY <2>2, <2>3, <2>4
<1>2. ASSUME NEW u \in Seq(Letters), NEW c \in Letters, u \in P  PROVE Append(u, c) \in P
  <2> DEFINE m == Len(u)
             v == Append(u, c)
  <2>1. /\ m \in Nat /\ v \in Seq(Letters) /\ Len(v) = m + 1
        /\ v[m + 1] = c /\ \A k \in 1..m : v[k] = u[k]
    BY AppendProperties, LenProperties
  <2>2. \A i : i \in Read(v, line, at) <=> \E o \in Read(u, line, at) : i \in Behind(c, line, o)
    BY ReadAppend
  <2>3. Holds(u)
    BY <1>2
  <2> HIDE DEF v, m
  <2>4. ASSUME NEW i, i \in Read(v, line, at)  PROVE \E f : Leads(v, i, f)
    <3>1. PICK o \in Read(u, line, at) : i \in Behind(c, line, o)
      BY <2>2, <2>4
    <3>2. PICK f : Leads(u, o, f)
      BY <2>3
    <3> DEFINE g == [k \in 0..(m + 1) |-> IF k = m + 1 THEN i ELSE f[k]]
    <3>3. o \in 0..Len(line) /\ i \in 0..Len(line)
      <4>1. o \in 0..Len(line)
        BY ReadIn, LenProperties
      <4> QED
        BY <3>1, <4>1, BehindIn
    <3>4. f \in [0..m -> 0..Len(line)] /\ f[0] = at /\ f[m] = o
      BY <3>2 DEF Path, m
    <3>5. \A k \in 1..m : f[k] \in Behind(u[k], line, f[k - 1])
      BY <3>2 DEF Path, m
    <3>6. g \in [0..(m + 1) -> 0..Len(line)]
      <4>1. ASSUME NEW k \in 0..(m + 1), k # m + 1  PROVE f[k] \in 0..Len(line)
        <5>1. k \in 0..m
          BY <2>1, <4>1
        <5> QED
          BY <3>4, <5>1
      <4> QED
        BY <3>3, <4>1
    <3>7. g[0] = at /\ g[m + 1] = i
      BY <2>1, <3>4
    <3>8. ASSUME NEW k \in 1..(m + 1)  PROVE g[k] \in Behind(v[k], line, g[k - 1])
      <4>1. g[k - 1] = f[k - 1]
        BY <2>1
      <4>2. CASE k = m + 1
        <5>1. k - 1 = m /\ g[k] = i /\ v[k] = c
          BY <2>1, <4>2
        <5> QED
          BY <3>1, <3>4, <4>1, <5>1
      <4>3. CASE k # m + 1
        <5>1. k \in 1..m /\ g[k] = f[k] /\ v[k] = u[k]
          BY <2>1, <4>3
        <5> HIDE DEF g
        <5> QED
          BY <3>5, <4>1, <5>1
      <4> QED
        BY <4>2, <4>3
    <3> HIDE DEF g
    <3> QED
      BY <2>1, <3>6, <3>7, <3>8 DEF Path
  <2>5. ASSUME NEW i, NEW f, Leads(v, i, f)  PROVE i \in Read(v, line, at)
    <3>1. f \in [0..(m + 1) -> 0..Len(line)] /\ f[0] = at /\ f[m + 1] = i
      BY <2>1, <2>5 DEF Path
    <3>2. \A k \in 1..(m + 1) : f[k] \in Behind(v[k], line, f[k - 1])
      BY <2>1, <2>5 DEF Path
    <3> DEFINE g == [k \in 0..m |-> f[k]]
    <3>3. \A k \in 0..m : k \in 0..(m + 1)
      BY <2>1
    <3>4. g \in [0..m -> 0..Len(line)]
      BY <3>1, <3>3
    <3>5. g[0] = at
      BY <2>1, <3>1
    <3>6. ASSUME NEW k \in 1..m  PROVE g[k] \in Behind(u[k], line, g[k - 1])
      <4>1. k \in 1..(m + 1) /\ k \in 0..m /\ k - 1 \in 0..m /\ v[k] = u[k]
        BY <2>1
      <4>2. f[k] \in Behind(v[k], line, f[k - 1])
        BY <3>2, <4>1
      <4> QED
        BY <4>1, <4>2
    <3>7. g[m] = f[m]
      BY <2>1
    <3> HIDE DEF g
    <3>8. Leads(u, f[m], g)
      BY <3>4, <3>5, <3>6, <3>7 DEF Path, m
    <3>9. f[m] \in Read(u, line, at)
      BY <2>3, <3>8
    <3>10. f[m + 1] \in Behind(v[m + 1], line, f[m])
      <4>1. m + 1 \in 1..(m + 1) /\ (m + 1) - 1 = m
        BY <2>1
      <4> QED
        BY <3>2, <4>1
    <3> QED
      BY <2>1, <2>2, <3>1, <3>9, <3>10
  <2>6. Holds(v)
    BY <2>4, <2>5
  <2> HIDE DEF Holds
  <2> QED
    BY <2>1, <2>6 DEF v
<1>3. Seq(Letters) \subseteq P
  <2> HIDE DEF P
  <2> QED
    BY <1>1, <1>2, SequenceInduction
<1>4. Holds(t)
  BY <1>3
<1> QED
  BY <1>4

\* What is found where a text stands in the line.
StandsAt(s, line, p) ==
  p + Len(s) <= Len(line) /\ \A i \in 1..Len(s) : line[p + i] = s[i]

\* A prefix is equal symbol by symbol.
LEMMA PrefixEquals ==
  ASSUME NEW T, NEW s \in Seq(T), NEW u \in Seq(T), Len(s) <= Len(u),
         \A i \in 1..Len(s) : u[i] = s[i]
  PROVE  IsPrefix(s, u)
<1>0. Len(s) \in Nat /\ Len(u) \in Nat
  BY LenProperties
<1>1. /\ 1 \in 1..(Len(s) + 1) /\ 1 \in 1..(Len(u) + 1)
      /\ Len(s) \in (1 - 1)..Len(s) /\ Len(s) \in (1 - 1)..Len(u)
  BY <1>0
<1>2. /\ SubSeq(s, 1, Len(s)) \in Seq(T) /\ Len(SubSeq(s, 1, Len(s))) = Len(s) - 1 + 1
      /\ \A i \in 1..(Len(s) - 1 + 1) : SubSeq(s, 1, Len(s))[i] = s[1 + i - 1]
  BY <1>1, Part
<1>3. /\ SubSeq(u, 1, Len(s)) \in Seq(T) /\ Len(SubSeq(u, 1, Len(s))) = Len(s) - 1 + 1
      /\ \A i \in 1..(Len(s) - 1 + 1) : SubSeq(u, 1, Len(s))[i] = u[1 + i - 1]
  BY <1>1, Part
<1>4. Len(s) - 1 + 1 = Len(s) /\ \A i \in 1..Len(s) : 1 + i - 1 = i
  BY <1>0
<1> DEFINE a == SubSeq(s, 1, Len(s))
           b == SubSeq(u, 1, Len(s))
<1>5. a \in Seq(T) /\ b \in Seq(T) /\ Len(a) = Len(b) /\ \A i \in 1..Len(a) : a[i] = b[i]
  BY <1>2, <1>3, <1>4
<1> HIDE DEF a, b
<1>6. a = b
  BY <1>5, SeqEqual
<1> QED
  BY <1>6 DEF IsPrefix, a, b

\* A text that stands somewhere on the line is a prefix from there on.
LEMMA PrefixAt ==
  ASSUME NEW T, NEW s \in Seq(T), NEW line \in Seq(T), NEW p \in 0..Len(line),
         StandsAt(s, line, p)
  PROVE  IsPrefix(s, SubSeq(line, p + 1, Len(line)))
<1> DEFINE n == Len(line)
           m == Len(s)
           u == SubSeq(line, p + 1, n)
<1>0. n \in Nat /\ m \in Nat /\ p \in 0..n
  BY LenProperties
<1>1. p + 1 \in 1..(n + 1) /\ n \in ((p + 1) - 1)..n
  BY <1>0
<1>2. /\ u \in Seq(T) /\ Len(u) = n - (p + 1) + 1
      /\ \A i \in 1..(n - (p + 1) + 1) : u[i] = line[(p + 1) + i - 1]
  BY <1>1, Part
<1> HIDE DEF u
<1>3. ASSUME NEW i \in 1..m  PROVE u[i] = s[i]
  <2>1. p + m <= n /\ line[p + i] = s[i]
    BY DEF StandsAt
  <2>2. i \in 1..(n - (p + 1) + 1) /\ (p + 1) + i - 1 = p + i
    BY <1>0, <2>1
  <2> QED
    BY <1>2, <2>1, <2>2
<1>4. m <= Len(u)
  <2>1. p + m <= n
    BY DEF StandsAt
  <2> QED
    BY <1>0, <1>2, <2>1
<1> HIDE DEF n
<1>5. IsPrefix(s, u)
  BY <1>2, <1>3, <1>4, PrefixEquals
<1> QED
  BY <1>5 DEF u, n

\* A prefix of the line is read from its start.
LEMMA PrefixOf ==
  ASSUME NEW T, NEW s \in Seq(T), NEW line \in Seq(T), StandsAt(s, line, 0)
  PROVE  IsPrefix(s, line)
<1>1. Len(s) \in Nat /\ Len(line) \in Nat
  BY LenProperties
<1>2. Len(s) <= Len(line) /\ \A i \in 1..Len(s) : line[i] = s[i]
  BY <1>1 DEF StandsAt
<1> QED
  BY <1>2, PrefixEquals

\* A suffix of the line is read to its end.
LEMMA SuffixOf ==
  ASSUME NEW T, NEW s \in Seq(T), NEW line \in Seq(T), Len(s) <= Len(line),
         StandsAt(s, line, Len(line) - Len(s))
  PROVE  IsSuffix(s, line)
<1> DEFINE n == Len(line)
           m == Len(s)
           a == Reverse(s)
           b == Reverse(line)
<1>0. n \in Nat /\ m \in Nat /\ m <= n
  BY LenProperties
<1>1. a \in Seq(T) /\ Len(a) = m /\ \A i \in 1..m : a[i] = s[m - i + 1]
  <2>1. \A i \in 1..m : s[(m - i) + 1] \in T
    BY <1>0
  <2> QED
    BY <1>0, <2>1 DEF Reverse
<1>2. b \in Seq(T) /\ Len(b) = n /\ \A i \in 1..n : b[i] = line[n - i + 1]
  <2>1. \A i \in 1..n : line[(n - i) + 1] \in T
    BY <1>0
  <2> QED
    BY <1>0, <2>1 DEF Reverse
<1>3. ASSUME NEW i \in 1..m  PROVE b[i] = a[i]
  <2>1. m - i + 1 \in 1..m /\ i \in 1..n
    BY <1>0
  <2>2. line[(n - m) + (m - i + 1)] = s[m - i + 1]
    BY <2>1 DEF StandsAt
  <2>3. (n - m) + (m - i + 1) = n - i + 1
    BY <1>0
  <2> QED
    BY <1>1, <1>2, <2>1, <2>2, <2>3
<1> HIDE DEF a, b
<1>4. IsPrefix(a, b)
  BY <1>0, <1>1, <1>2, <1>3, PrefixEquals
<1> QED
  BY <1>4 DEF IsSuffix, a, b

-----------------------------------------------------------------------------
(* Literals on a line.                                                     *)

Space(c) == c = "_"

\* No slot and no two spaces side by side.
Tidy(t) ==
  /\ t \in Seq(Letters)
  /\ \A i \in 1..Len(t) : t[i] # "%"
  /\ \A i \in 1..Len(t), j \in 1..Len(t) : j = i + 1 => ~(Space(t[i]) /\ Space(t[j]))

Trimmed(line) ==
  line \in Seq(Letters) /\ Len(line) > 0 /\ ~Space(line[1]) /\ ~Space(line[Len(line)])

\* A letter.
LEMMA LetterStep ==
  ASSUME NEW t, Tidy(t), NEW line, NEW f, Path(t, line, f), NEW k \in 1..Len(t), ~Space(t[k])
  PROVE  f[k - 1] < Len(line) /\ f[k] = f[k - 1] + 1 /\ line[f[k]] = t[k]
<1>1. f[k] \in Behind(t[k], line, f[k - 1]) /\ t[k] # "%"
  BY DEF Path, Tidy
<1>2. f[k] \in Consume(t[k], line, f[k - 1])
  BY <1>1 DEF Behind
<1> QED
  BY <1>2, Zenon DEF Consume, Space

\* A space, at an end of the line and inside it.
LEMMA SpaceStep ==
  ASSUME NEW t, Tidy(t), NEW line, NEW f, Path(t, line, f), NEW k \in 1..Len(t), Space(t[k])
  PROVE  \/ f[k - 1] \in {0, Len(line)} /\ f[k] = f[k - 1]
         \/ f[k - 1] \notin {0, Len(line)} /\ Space(line[f[k - 1] + 1]) /\ f[k] = f[k - 1] + 1
         \/ f[k - 1] \notin {0, Len(line)} /\ Space(line[f[k - 1]]) /\ f[k] = f[k - 1]
<1>1. f[k] \in Behind(t[k], line, f[k - 1]) /\ t[k] # "%"
  BY DEF Path, Tidy
<1>2. f[k] \in Consume(t[k], line, f[k - 1])
  BY <1>1 DEF Behind
<1> QED
  BY <1>2, Zenon DEF Consume, Space

\* Behind a space of a tidy text there is none.
LEMMA TidyNext ==
  ASSUME NEW t, Tidy(t), NEW i \in 1..Len(t), NEW j \in 1..Len(t), j = i + 1
  PROVE  ~(Space(t[i]) /\ Space(t[j]))
BY DEF Tidy

\* From a letter to a letter a text stands in the line as it is.
LEMMA SolidRun ==
  ASSUME NEW t, Tidy(t), NEW line, NEW f, Path(t, line, f),
         NEW n \in Nat, n = Len(t), NEW N \in Nat, N = Len(line),
         NEW a \in 1..n, NEW s \in a..n, ~Space(t[a]), ~Space(t[s])
  PROVE  \A k \in a..s : f[k] = f[a - 1] + (k - a) + 1 /\ line[f[k]] = t[k]
<1> DEFINE Good(k) == f[k] = f[a - 1] + (k - a) + 1 /\ line[f[k]] = t[k]
           T == {i \in 0..(s - a) : Good(a + i)}
<1>0. \A k \in 0..n : f[k] \in 0..N
  BY DEF Path
<1>1. 0 \in T
  <2>1. f[a] = f[a - 1] + 1 /\ line[f[a]] = t[a]
    BY LetterStep
  <2>2. f[a - 1] \in 0..N
    BY <1>0
  <2>3. a + 0 = a /\ 0 \in 0..(s - a)
    OBVIOUS
  <2>4. f[a] = f[a - 1] + (a - a) + 1
    BY <2>1, <2>2
  <2>5. Good(a)
    BY <2>1, <2>4
  <2> HIDE DEF Good
  <2> QED
    BY <2>3, <2>5
<1>2. ASSUME NEW i \in 1..(s - a), i - 1 \in T  PROVE i \in T
  <2>0. PICK k \in 1..n : k = a + i
    OBVIOUS
  <2>1. k - 1 \in 1..n /\ k \in a..s /\ a + (i - 1) = k - 1 /\ i \in 0..(s - a) /\ k # a
    BY <2>0
  <2>2. PICK x \in 0..N : x = f[k - 1]
    BY <1>0, <2>1
  <2>3. PICK b \in 0..N : b = f[a - 1]
    BY <1>0
  <2>4. Good(k - 1)
    BY <1>2, <2>1
  <2>5. x = b + ((k - 1) - a) + 1 /\ line[x] = t[k - 1]
    BY <2>2, <2>3, <2>4
  <2>6. x >= 1 /\ x + 1 = b + (k - a) + 1
    BY <2>1, <2>5
  <2>7. f[k] = x + 1 /\ line[f[k]] = t[k]
    <3>1. CASE ~Space(t[k])
      BY <2>2, <3>1, LetterStep
    <3>2. CASE Space(t[k])
      <4>1. k = (k - 1) + 1
        OBVIOUS
      <4>2. ~Space(t[k - 1])
        BY <2>1, <3>2, <4>1, TidyNext
      <4>3. k # s
        BY <3>2
      <4>4. PICK m \in 1..n : m = k + 1 /\ m - 1 = k
        BY <2>1, <4>3
      <4>5. ~Space(t[m])
        BY <3>2, <4>4, TidyNext
      <4>6. f[m - 1] < N
        BY <4>5, LetterStep
      <4>7. \/ f[k - 1] \in {0, N} /\ f[k] = f[k - 1]
            \/ f[k - 1] \notin {0, N} /\ Space(line[f[k - 1] + 1]) /\ f[k] = f[k - 1] + 1
            \/ f[k - 1] \notin {0, N} /\ Space(line[f[k - 1]]) /\ f[k] = f[k - 1]
        BY <3>2, SpaceStep, SMTT(30)
      <4>8. ~Space(line[x])
        BY <2>5, <4>2
      <4>9. ~(x \in {0, N} /\ f[k] = x)
        BY <2>6, <4>4, <4>6
      <4>10. Space(line[x + 1]) /\ f[k] = x + 1
        BY <2>2, <4>7, <4>8, <4>9, Zenon
      <4> QED
        BY <3>2, <4>10, Zenon DEF Space
    <3> QED
      BY <3>1, <3>2
  <2>8. Good(k)
    BY <2>3, <2>6, <2>7
  <2> HIDE DEF Good
  <2> QED
    BY <2>0, <2>1, <2>8
<1>3. 0..(s - a) \subseteq T
  <2>1. s - a \in Nat
    OBVIOUS
  <2> HIDE DEF T
  <2> QED
    BY <1>1, <1>2, <2>1, Induction
<1>4. ASSUME NEW k \in a..s  PROVE Good(k)
  <2>1. k - a \in 0..(s - a) /\ a + (k - a) = k
    OBVIOUS
  <2>2. Good(a + (k - a))
    BY <1>3, <2>1
  <2> HIDE DEF Good
  <2> QED
    BY <2>1, <2>2
<1> QED
  BY <1>4

\* The letters of a text reach from a to s.
Shape(t, n, a, s) ==
  /\ a \in 1..n /\ s \in a..n /\ ~Space(t[a]) /\ ~Space(t[s])
  /\ \A i \in 1..n : (i < a => Space(t[i])) /\ (i > s => Space(t[i]))
  /\ Trim(t) = SubSeq(t, a, s) /\ TrimEnd(t) = SubSeq(t, 1, s)

\* A text is blank, or what is between its ends is its first and last letter.
LEMMA BlankOrShaped ==
  ASSUME NEW t, t \in Seq(Letters), NEW n \in Nat, n = Len(t)
  PROVE  \/ /\ \A i \in 1..n : Space(t[i])
            /\ Trim(t) = <<>> /\ TrimEnd(t) = t /\ Solid(t) = 0
         \/ (\E a, s : Shape(t, n, a, s)) /\ Solid(t) > 0
<1> DEFINE solid == {i \in DOMAIN t : t[i] # "_"}
           S == {i \in 1..n : ~Space(t[i])}
<1>1. solid = S
  <2>1. DOMAIN t = 1..n
    BY LenProperties
  <2> QED
    BY <2>1, Zenon DEF Space
<1>2. /\ Trim(t) = IF S = {} THEN <<>> ELSE SubSeq(t, Min(S), Max(S))
      /\ TrimEnd(t) = IF S = {} THEN t ELSE SubSeq(t, 1, Max(S))
      /\ Solid(t) = Cardinality(S)
  <2> HIDE DEF S
  <2> QED
    BY <1>1, Zenon DEF Trim, TrimEnd, Solid
<1>3. IsFiniteSet(S)
  <2>1. IsFiniteSet(1..n)
    BY FS_Interval
  <2>2. S \subseteq 1..n
    OBVIOUS
  <2> HIDE DEF S
  <2> QED
    BY <2>1, <2>2, FS_Subset
<1>4. CASE S = {}
  <2>1. \A i \in 1..n : Space(t[i])
    BY <1>4
  <2>2. Cardinality(S) = 0
    BY <1>4, FS_EmptySet
  <2> HIDE DEF S
  <2> QED
    BY <1>2, <1>4, <2>1, <2>2, Zenon
<1>5. CASE S # {}
  <2> DEFINE a == Min(S)
             s == Max(S)
  <2>1. a \in S /\ \A y \in S : a <= y
    <3>1. S \in SUBSET Nat
      OBVIOUS
    <3> HIDE DEF S
    <3> QED
      BY <1>5, <3>1, MinIs
  <2>2. s \in S /\ \A y \in S : y <= s
    <3>1. S \in SUBSET (0..n)
      OBVIOUS
    <3> HIDE DEF S
    <3> QED
      BY <1>5, <3>1, MaxIs
  <2>3. Solid(t) > 0
    <3> HIDE DEF S
    <3>1. Cardinality(S) \in Nat /\ Cardinality(S) # 0
      BY <1>3, <1>5, FS_CardinalityType, FS_EmptySet
    <3> QED
      BY <1>2, <3>1
  <2> HIDE DEF a, s
  <2>4. a \in 1..n /\ s \in a..n /\ ~Space(t[a]) /\ ~Space(t[s])
    BY <2>1, <2>2
  <2>5. \A i \in 1..n : i \notin S => Space(t[i])
    OBVIOUS
  <2>6. Trim(t) = SubSeq(t, a, s) /\ TrimEnd(t) = SubSeq(t, 1, s)
    <3> HIDE DEF S
    <3> QED
      BY <1>2, <1>5, Zenon DEF a, s
  <2>7. Shape(t, n, a, s)
    <3> HIDE DEF S
    <3>1. ASSUME NEW i \in 1..n  PROVE (i < a => Space(t[i])) /\ (i > s => Space(t[i]))
      <4>1. i \in S => a <= i /\ i <= s
        BY <2>1, <2>2
      <4>2. i < a \/ i > s => i \notin S
        BY <2>4, <4>1
      <4> QED
        BY <2>5, <4>2
    <3> QED
      BY <2>4, <2>6, <3>1 DEF Shape
  <2> QED
    BY <2>3, <2>7
<1> QED
  BY <1>4, <1>5

\* A tidy text has no spaces to collapse.
LEMMA KeywordIsTrimmed ==
  ASSUME NEW t, NEW n \in Nat, NEW s, s = Trim(t), s \in Seq(Letters), n = Len(s),
         n > 0 => ~Space(s[1]),
         \A i \in 1..n, j \in 1..n : j = i + 1 => ~(Space(s[i]) /\ Space(s[j]))
  PROVE  KeywordText(t) = s
<1> DEFINE E(g) == g = [i \in 0..Len(s) |->
                          IF i = 0 THEN <<>>
                          ELSE IF s[i] = "_" /\ s[i - 1] = "_" THEN g[i - 1] ELSE Append(g[i - 1], s[i])]
           f == [i \in 0..n |-> SubSeq(s, 1, i)]
<1>1. ASSUME NEW i \in 1..n  PROVE ~(s[i] = "_" /\ s[i - 1] = "_")
  <2>1. CASE i = 1
    <3>1. ~Space(s[1])
      BY <2>1
    <3> QED
      BY <2>1, <3>1, Zenon DEF Space
  <2>2. CASE i # 1
    <3>1. i - 1 \in 1..n /\ i = (i - 1) + 1
      BY <2>2
    <3>2. ~(Space(s[i - 1]) /\ Space(s[i]))
      BY <3>1
    <3> QED
      BY <3>2, Zenon DEF Space
  <2> QED
    BY <2>1, <2>2
<1>2. ASSUME NEW i \in 1..n  PROVE SubSeq(s, 1, i) = Append(SubSeq(s, 1, i - 1), s[i])
  BY FrontGrows
<1>3. SubSeq(s, 1, 0) = <<>>
  <2>1. 1 \in 1..(Len(s) + 1) /\ 0 \in (1 - 1)..Len(s)
    OBVIOUS
  <2>2. SubSeq(s, 1, 0) \in Seq(Letters) /\ Len(SubSeq(s, 1, 0)) = 0 - 1 + 1
    BY <2>1, Part
  <2> QED
    BY <2>2, EmptySeq
<1>4. E(f)
  <2>1. ASSUME NEW i \in 0..n
        PROVE f[i] = IF i = 0 THEN <<>>
                     ELSE IF s[i] = "_" /\ s[i - 1] = "_" THEN f[i - 1] ELSE Append(f[i - 1], s[i])
    <3>1. CASE i = 0
      BY <1>3, <3>1
    <3>2. CASE i # 0
      <4>1. i \in 1..n /\ i - 1 \in 0..n
        BY <3>2
      <4>2. f[i] = SubSeq(s, 1, i) /\ f[i - 1] = SubSeq(s, 1, i - 1)
        BY <4>1
      <4> HIDE DEF f
      <4> QED
        BY <1>1, <1>2, <3>2, <4>1, <4>2, Zenon
    <3> QED
      BY <3>1, <3>2
  <2>2. f = [i \in 0..n |-> f[i]]
    OBVIOUS
  <2> HIDE DEF f
  <2> QED
    BY <2>1, <2>2, Zenon
<1> DEFINE g == CHOOSE x : E(x)
<1>5. E(g)
  <2> HIDE DEF E, f
  <2> QED
    BY <1>4, Zenon
<1>6. KeywordText(t) = g[n]
  BY Zenon DEF KeywordText
<1> HIDE DEF g
<1>7. ASSUME NEW i \in 0..n
      PROVE g[i] = IF i = 0 THEN <<>>
                   ELSE IF s[i] = "_" /\ s[i - 1] = "_" THEN g[i - 1] ELSE Append(g[i - 1], s[i])
  BY <1>5, Zenon
<1> HIDE DEF E
<1> DEFINE T == {i \in 0..n : g[i] = SubSeq(s, 1, i)}
<1>8. 0 \in T
  <2>1. 0 \in 0..n
    OBVIOUS
  <2>2. g[0] = <<>>
    BY <1>7, <2>1, Zenon
  <2> QED
    BY <1>3, <2>1, <2>2, Zenon
<1>9. ASSUME NEW i \in 1..n, i - 1 \in T  PROVE i \in T
  <2>1. i \in 0..n /\ i # 0
    OBVIOUS
  <2>2. g[i - 1] = SubSeq(s, 1, i - 1)
    BY <1>9, Zenon
  <2>3. g[i] = Append(g[i - 1], s[i])
    BY <1>1, <1>7, <2>1, Zenon
  <2>4. g[i] = SubSeq(s, 1, i)
    BY <1>2, <2>2, <2>3, Zenon
  <2> QED
    BY <2>1, <2>4, Zenon
<1>10. n \in T
  <2>1. n \in 0..n
    OBVIOUS
  <2> HIDE DEF T
  <2> QED
    BY <1>8, <1>9, <2>1, Induction
<1>11. SubSeq(s, 1, n) = s
  <2>1. 1 \in 1..(Len(s) + 1) /\ n \in (1 - 1)..Len(s) /\ n - 1 + 1 = n /\ \A i \in 1..n : 1 + i - 1 = i
    OBVIOUS
  <2> DEFINE u == SubSeq(s, 1, n)
  <2>2. u \in Seq(Letters) /\ Len(u) = n - 1 + 1 /\ \A i \in 1..(n - 1 + 1) : u[i] = s[1 + i - 1]
    BY <2>1, Part
  <2> HIDE DEF u
  <2>3. \A i \in 1..Len(u) : u[i] = s[i]
    BY <2>1, <2>2
  <2>4. u = s
    BY <2>1, <2>2, <2>3, SeqEqual
  <2> QED
    BY <2>4 DEF u
<1> QED
  BY <1>6, <1>10, <1>11, Zenon

\* The text between the ends of a tidy text.
LEMMA KeywordOf ==
  ASSUME NEW t, Tidy(t), NEW n \in Nat, n = Len(t), NEW a, NEW s, Shape(t, n, a, s)
  PROVE  \E u \in Seq(Letters) :
           /\ KeywordText(t) = u /\ Len(u) = s - a + 1
           /\ \A i \in 1..(s - a + 1) : u[i] = t[a + i - 1]
<1> DEFINE u == SubSeq(t, a, s)
<1>1. /\ t \in Seq(Letters) /\ a \in 1..n /\ s \in a..n /\ ~Space(t[a])
      /\ Trim(t) = SubSeq(t, a, s)
  BY DEF Tidy, Shape
<1>2. a \in 1..(Len(t) + 1) /\ s \in (a - 1)..Len(t)
  BY <1>1
<1>3. /\ u \in Seq(Letters) /\ Len(u) = s - a + 1
      /\ \A i \in 1..(s - a + 1) : u[i] = t[a + i - 1]
  BY <1>1, <1>2, Part
<1>4. PICK m \in Nat : m = s - a + 1
  BY <1>1
<1> HIDE DEF u
<1>5. ~Space(u[1])
  <2>1. 1 \in 1..(s - a + 1) /\ a + 1 - 1 = a
    BY <1>1
  <2> QED
    BY <1>1, <1>3, <2>1
<1>6. ASSUME NEW i \in 1..m, NEW j \in 1..m, j = i + 1  PROVE ~(Space(u[i]) /\ Space(u[j]))
  <2>1. /\ a + i - 1 \in 1..n /\ a + j - 1 \in 1..n /\ a + j - 1 = (a + i - 1) + 1
        /\ i \in 1..(s - a + 1) /\ j \in 1..(s - a + 1)
    BY <1>1, <1>4, <1>6
  <2>2. ~(Space(t[a + i - 1]) /\ Space(t[a + j - 1]))
    BY <2>1, TidyNext
  <2>3. u[i] = t[a + i - 1] /\ u[j] = t[a + j - 1]
    BY <1>3, <2>1
  <2> QED
    BY <2>2, <2>3
<1>7. u = Trim(t)
  BY <1>1 DEF u
<1>8. KeywordText(t) = u
  BY <1>3, <1>4, <1>5, <1>6, <1>7, KeywordIsTrimmed
<1> QED
  BY <1>3, <1>8

\* What is before the first letter is at most one space, and what is behind
\* the last one.
LEMMA ShapeEnds ==
  ASSUME NEW t, Tidy(t), NEW n \in Nat, n = Len(t), NEW a, NEW s, Shape(t, n, a, s)
  PROVE  /\ a \in {1, 2} /\ (a = 2 => Space(t[1]))
         /\ s \in {n - 1, n} /\ (s = n - 1 => Space(t[n]))
<1>1. /\ a \in 1..n /\ s \in a..n
      /\ \A i \in 1..n : (i < a => Space(t[i])) /\ (i > s => Space(t[i]))
  BY DEF Shape
<1>2. a \in {1, 2}
  <2> SUFFICES ASSUME a \notin {1, 2}  PROVE FALSE
    OBVIOUS
  <2>1. 1 \in 1..n /\ 2 \in 1..n /\ 1 < a /\ 2 < a /\ 2 = 1 + 1
    BY <1>1
  <2> QED
    BY <1>1, <2>1, TidyNext
<1>3. s \in {n - 1, n}
  <2> SUFFICES ASSUME s \notin {n - 1, n}  PROVE FALSE
    OBVIOUS
  <2>1. n - 1 \in 1..n /\ n \in 1..n /\ n - 1 > s /\ n > s /\ n = (n - 1) + 1
    BY <1>1
  <2> QED
    BY <1>1, <2>1, TidyNext
<1>4. a = 2 => Space(t[1])
  <2>1. 1 \in 1..n /\ (a = 2 => 1 < a)
    BY <1>1
  <2> QED
    BY <1>1, <2>1
<1>5. s = n - 1 => Space(t[n])
  <2>1. n \in 1..n /\ (s = n - 1 => n > s)
    BY <1>1
  <2> QED
    BY <1>1, <2>1
<1> QED
  BY <1>2, <1>3, <1>4, <1>5

\* A keyword of a text that is read is on the line: at its start if the text
\* is read from there, at its end if it is read to there.
LEMMA KeywordStands ==
  ASSUME NEW t, Tidy(t), NEW n \in Nat, n = Len(t), NEW a, NEW s, Shape(t, n, a, s),
         NEW line, Trimmed(line), NEW N \in Nat, N = Len(line), NEW f, Path(t, line, f)
  PROVE  /\ f[a - 1] \in 0..N /\ f[s] \in 0..N /\ f[s] = f[a - 1] + (s - a) + 1
         /\ \A k \in a..s : line[f[a - 1] + (k - a) + 1] = t[k]
         /\ f[0] = 0 => f[a - 1] = 0
         /\ f[n] = N => f[s] = N
<1>1. /\ a \in 1..n /\ s \in a..n /\ ~Space(t[a]) /\ ~Space(t[s])
  BY DEF Shape
<1>2. /\ a \in {1, 2} /\ (a = 2 => Space(t[1]))
      /\ s \in {n - 1, n} /\ (s = n - 1 => Space(t[n]))
  BY ShapeEnds
<1>3. \A k \in a..s : f[k] = f[a - 1] + (k - a) + 1 /\ line[f[k]] = t[k]
  BY <1>1, SolidRun
<1>4. \A k \in 0..n : f[k] \in 0..N
  BY DEF Path
<1>5. f[a - 1] \in 0..N /\ f[s] \in 0..N /\ f[s] = f[a - 1] + (s - a) + 1
  BY <1>1, <1>3, <1>4
<1>6. \A k \in a..s : line[f[a - 1] + (k - a) + 1] = t[k]
  BY <1>1, <1>3
<1>7. ASSUME f[0] = 0  PROVE f[a - 1] = 0
  <2>1. CASE a = 1
    BY <1>7, <2>1
  <2>2. CASE a = 2
    <3>1. 1 \in 1..n /\ 1 - 1 = 0 /\ a - 1 = 1
      BY <1>1, <2>2
    <3>2. Space(t[1])
      BY <1>2, <2>2
    <3>3. \/ f[1 - 1] \in {0, Len(line)} /\ f[1] = f[1 - 1]
          \/ f[1 - 1] \notin {0, Len(line)} /\ Space(line[f[1 - 1] + 1]) /\ f[1] = f[1 - 1] + 1
          \/ f[1 - 1] \notin {0, Len(line)} /\ Space(line[f[1 - 1]]) /\ f[1] = f[1 - 1]
      BY <3>1, <3>2, SpaceStep
    <3> QED
      BY <1>7, <3>1, <3>3
  <2> QED
    BY <1>2, <2>1, <2>2
<1>8. ASSUME f[n] = N  PROVE f[s] = N
  <2>1. CASE s = n
    BY <1>8, <2>1
  <2>2. CASE s = n - 1
    <3>1. n \in 1..n /\ Space(t[n]) /\ s \in a..s
      BY <1>1, <1>2, <2>2
    <3>2. PICK x \in 0..N : x = f[n - 1] /\ x = f[s]
      BY <1>5, <2>2
    <3>3. \/ f[n - 1] \in {0, Len(line)} /\ f[n] = f[n - 1]
          \/ f[n - 1] \notin {0, Len(line)} /\ Space(line[f[n - 1] + 1]) /\ f[n] = f[n - 1] + 1
          \/ f[n - 1] \notin {0, Len(line)} /\ Space(line[f[n - 1]]) /\ f[n] = f[n - 1]
      BY <3>1, SpaceStep
    <3>4. line[x] = t[s]
      BY <1>3, <3>1, <3>2
    <3>5. ~Space(line[x]) /\ ~Space(line[N])
      BY <1>1, <3>4 DEF Trimmed
    <3>6. x = N
      BY <1>8, <3>2, <3>3, <3>5, Zenon
    <3> QED
      BY <3>2, <3>6
  <2> QED
    BY <1>2, <2>1, <2>2
<1> QED
  BY <1>5, <1>6, <1>7, <1>8

\* The keyword of a literal that is read is present.
LEMMA LiteralPresent ==
  ASSUME NEW t, Tidy(t), NEW line, Trimmed(line), NEW at \in 0..Len(line),
         NEW e, e \in Read(t, line, at),
         NEW starting \in BOOLEAN, starting => at = 0, NEW ending \in BOOLEAN, ending => e = Len(line)
  PROVE  KeywordText(t) = <<>> \/ IsPresent(KeywordText(t), starting, ending, line)
<1>0. t \in Seq(Letters) /\ line \in Seq(Letters)
  BY DEF Tidy, Trimmed
<1>1. PICK n \in Nat, N \in Nat : n = Len(t) /\ N = Len(line)
  BY <1>0, LenProperties
<1>2. CASE Trim(t) = <<>>
  <2> DEFINE s == <<>>
  <2>1. s \in Seq(Letters) /\ Len(s) = 0
    BY EmptySeq
  <2> HIDE DEF s
  <2>2. s = Trim(t)
    BY <1>2 DEF s
  <2>3. KeywordText(t) = s
    <3>1. \A i \in 1..0, j \in 1..0 : j = i + 1 => ~(Space(s[i]) /\ Space(s[j]))
      OBVIOUS
    <3>2. 0 \in Nat /\ (0 > 0 => ~Space(s[1]))
      OBVIOUS
    <3> QED
      BY <2>1, <2>2, <3>1, <3>2, KeywordIsTrimmed
  <2> QED
    BY <2>3 DEF s
<1>3. ASSUME NEW a, NEW s, Shape(t, n, a, s)
      PROVE  IsPresent(KeywordText(t), starting, ending, line)
  <2>1. PICK u \in Seq(Letters) :
          /\ KeywordText(t) = u /\ Len(u) = s - a + 1
          /\ \A i \in 1..(s - a + 1) : u[i] = t[a + i - 1]
    BY <1>1, <1>3, KeywordOf
  <2>2. a \in 1..n /\ s \in a..n
    BY <1>3 DEF Shape
  <2>3. PICK f : Path(t, line, f) /\ f[0] = at /\ f[Len(t)] = e
    BY <1>0, <1>1, ReadPath
  <2>4. /\ f[a - 1] \in 0..N /\ f[s] \in 0..N /\ f[s] = f[a - 1] + (s - a) + 1
        /\ \A k \in a..s : line[f[a - 1] + (k - a) + 1] = t[k]
        /\ f[0] = 0 => f[a - 1] = 0
        /\ f[n] = N => f[s] = N
    BY <1>1, <1>3, <2>3, KeywordStands
  <2>5. PICK b \in 0..N : b = f[a - 1]
    BY <2>4
  <2>6. b + Len(u) = f[s] /\ b + Len(u) <= N
    BY <2>1, <2>2, <2>4, <2>5, SMTT(30)
  <2>7. ASSUME NEW i \in 1..Len(u)  PROVE line[b + i] = u[i]
    <3>1. i \in 1..(s - a + 1) /\ a + i - 1 \in a..s /\ b + ((a + i - 1) - a) + 1 = b + i
      BY <2>1, <2>2
    <3>2. line[b + ((a + i - 1) - a) + 1] = t[a + i - 1]
      BY <2>4, <2>5, <3>1
    <3> QED
      BY <2>1, <3>1, <3>2
  <2>8. StandsAt(u, line, b)
    BY <1>1, <2>6, <2>7 DEF StandsAt
  <2>9. CASE starting
    <3>1. StandsAt(u, line, 0)
      BY <2>3, <2>4, <2>5, <2>8, <2>9
    <3>2. IsPrefix(u, line)
      BY <1>0, <2>1, <3>1, PrefixOf
    <3> QED
      BY <2>1, <2>9, <3>2, Zenon DEF IsPresent
  <2>10. CASE ~starting /\ ending
    <3>1. f[s] = N
      BY <1>1, <2>3, <2>4, <2>10
    <3>2. b = Len(line) - Len(u) /\ Len(u) <= Len(line)
      BY <1>1, <2>1, <2>2, <2>6, <3>1
    <3>3. IsSuffix(u, line)
      BY <1>0, <2>1, <2>8, <3>2, SuffixOf
    <3> QED
      BY <2>1, <2>10, <3>3, Zenon DEF IsPresent
  <2>11. CASE ~starting /\ ~ending
    <3>1. b \in 0..Len(line)
      BY <1>1
    <3>2. IsPrefix(u, SubSeq(line, b + 1, Len(line)))
      BY <1>0, <2>1, <2>8, <3>1, PrefixAt
    <3> QED
      BY <2>1, <2>11, <3>1, <3>2, Zenon DEF IsPresent
  <2> QED
    BY <2>9, <2>10, <2>11
<1> QED
  BY <1>0, <1>1, <1>2, <1>3, BlankOrShaped

\* A text takes as many letters of the line as it has.
LEMMA SolidLength ==
  ASSUME NEW t \in Seq(Letters), NEW line, Len(line) \in Nat, NEW at \in 0..Len(line),
         NEW e, e \in Read(t, line, at)
  PROVE  Solid(t) + at <= e
<1> DEFINE Good(u) == \A i \in Read(u, line, at) : Solid(u) + at <= i
           P == {u \in Seq(Letters) : Good(u)}
<1>0. PICK N \in Nat : N = Len(line)
  OBVIOUS
<1>1. <<>> \in P
  <2>1. \A i \in Read(<<>>, line, at) : i = at
    BY ReadEmpty
  <2>2. Solid(<<>>) = 0
    BY SolidIs
  <2>3. <<>> \in Seq(Letters)
    OBVIOUS
  <2>4. 0 + at <= at
    BY <1>0
  <2> QED
    BY <2>1, <2>2, <2>3, <2>4
<1>2. ASSUME NEW u \in Seq(Letters), NEW c \in Letters, u \in P  PROVE Append(u, c) \in P
  <2>1. Append(u, c) \in Seq(Letters)
    BY AppendProperties
  <2>2. ASSUME NEW i \in Read(Append(u, c), line, at)  PROVE Solid(Append(u, c)) + at <= i
    <3>1. PICK o \in Read(u, line, at) : i \in Behind(c, line, o)
      BY ReadAppend
    <3>2. o \in 0..N /\ i \in 0..N /\ at \in 0..N
      <4>1. o \in 0..Len(line)
        BY ReadIn, LenProperties
      <4>2. i \in 0..Len(line)
        BY <3>1, <4>1, BehindIn
      <4> QED
        BY <1>0, <4>1, <4>2
    <3>3. Solid(u) \in Nat /\ Solid(u) + at <= o
      <4>1. Solid(u) \in Nat
        BY SolidIs
      <4> QED
        BY <1>2, <4>1
    <3>4. CASE Space(c)
      <4>1. Solid(Append(u, c)) = Solid(u)
        BY <3>4, SolidIs, Zenon DEF Space
      <4>2. c # "%"
        <5>1. c = "_"
          BY <3>4, Zenon DEF Space
        <5> QED
          BY <5>1
      <4>3. i \in Consume(c, line, o)
        BY <3>1, <4>2, Zenon DEF Behind
      <4>4. i = o \/ i = o + 1
        BY <3>4, <4>3, Zenon DEF Consume, Space
      <4> QED
        BY <3>2, <3>3, <4>1, <4>4
    <3>5. CASE ~Space(c)
      <4>1. Solid(Append(u, c)) = Solid(u) + 1
        BY <3>5, SolidIs, Zenon DEF Space
      <4>2. i >= o + 1
        <5>1. CASE c = "%"
          <6>1. i \in (o + 1)..Len(line)
            BY <3>1, <5>1, Zenon DEF Behind
          <6> HIDE <5>1
          <6> QED
            BY <1>0, <3>2, <6>1
        <5>2. CASE c # "%"
          <6>1. i \in Consume(c, line, o)
            BY <3>1, <5>2, Zenon DEF Behind
          <6>2. i = o + 1
            BY <3>5, <6>1, Zenon DEF Consume, Space
          <6> HIDE <5>2
          <6> QED
            BY <3>2, <6>2
        <5> QED
          BY <5>1, <5>2
      <4> QED
        BY <3>2, <3>3, <4>1, <4>2
    <3> QED
      BY <3>4, <3>5
  <2> QED
    BY <2>1, <2>2
<1>3. Seq(Letters) \subseteq P
  <2> HIDE DEF P
  <2> QED
    BY <1>1, <1>2, SequenceInduction
<1>4. Good(t)
  BY <1>3
<1> QED
  BY <1>4

\* A text parses when it has a letter.
LEMMA ParsesIs ==
  ASSUME NEW line, Trimmed(line), NEW N \in Nat, N = Len(line), NEW at \in 0..N, NEW end \in at..N
  PROVE  Parses(SubSeq(line, at + 1, end)) <=> \E i \in (at + 1)..end : ~Space(line[i])
<1> DEFINE u == SubSeq(line, at + 1, end)
<1>1. line \in Seq(Letters)
  BY DEF Trimmed
<1>2. at + 1 \in 1..(Len(line) + 1) /\ end \in ((at + 1) - 1)..Len(line)
  OBVIOUS
<1>3. /\ u \in Seq(Letters) /\ Len(u) = end - (at + 1) + 1
      /\ \A i \in 1..(end - (at + 1) + 1) : u[i] = line[(at + 1) + i - 1]
  BY <1>1, <1>2, Part
<1> HIDE DEF u
<1>4. DOMAIN u = 1..(end - at)
  BY <1>3
<1>5. Parses(u) <=> \E i \in 1..(end - at) : ~Space(u[i])
  BY <1>4, Zenon DEF Parses, Space
<1>6. \A i \in 1..(end - at) : u[i] = line[at + i]
  <2> TAKE i \in 1..(end - at)
  <2>1. i \in 1..(end - (at + 1) + 1) /\ (at + 1) + i - 1 = at + i
    OBVIOUS
  <2> QED
    BY <1>3, <2>1
<1>7. \A i \in 1..(end - at) : at + i \in (at + 1)..end
  OBVIOUS
<1>8. \A i \in (at + 1)..end : i - at \in 1..(end - at) /\ at + (i - at) = i
  OBVIOUS
<1>9. Parses(u) <=> \E i \in (at + 1)..end : ~Space(line[i])
  BY <1>5, <1>6, <1>7, <1>8
<1> QED
  BY <1>9 DEF u

\* The text up to its last letter is found where the text is read.
LEMMA TrimEndFound ==
  ASSUME NEW t, Tidy(t), NEW n \in Nat, n = Len(t), NEW a, NEW s, Shape(t, n, a, s),
         NEW line, Trimmed(line), NEW N \in Nat, N = Len(line), NEW p \in 0..N,
         p + s <= N, \A i \in 1..s : line[p + i] = t[i]
  PROVE  p < N /\ IsPrefix(TrimEnd(t), SubSeq(line, p + 1, N))
<1>1. /\ t \in Seq(Letters) /\ line \in Seq(Letters) /\ s \in 1..n
      /\ TrimEnd(t) = SubSeq(t, 1, s)
  BY DEF Tidy, Trimmed, Shape
<1> DEFINE u == SubSeq(t, 1, s)
<1>2. 1 \in 1..(Len(t) + 1) /\ s \in (1 - 1)..Len(t)
  BY <1>1
<1>3. u \in Seq(Letters) /\ Len(u) = s - 1 + 1 /\ \A i \in 1..(s - 1 + 1) : u[i] = t[1 + i - 1]
  BY <1>1, <1>2, Part
<1> HIDE DEF u
<1>4. Len(u) = s /\ \A i \in 1..s : u[i] = t[i]
  <2>1. s - 1 + 1 = s /\ \A i \in 1..s : 1 + i - 1 = i
    BY <1>1
  <2> QED
    BY <1>3, <2>1
<1>5. StandsAt(u, line, p)
  BY <1>4 DEF StandsAt
<1>6. IsPrefix(u, SubSeq(line, p + 1, Len(line)))
  BY <1>1, <1>3, <1>5, PrefixAt
<1>7. p < N
  BY <1>1
<1> QED
  BY <1>1, <1>6, <1>7 DEF u

\* A path may start one place earlier, at the space of the line that a leading
\* space of the text was skipped behind.
LEMMA EarlierPath ==
  ASSUME NEW t, Tidy(t), NEW n \in Nat, n = Len(t), n >= 1, Space(t[1]),
         NEW line, Trimmed(line), NEW N \in Nat, N = Len(line), NEW f, Path(t, line, f),
         f[0] \notin {0, N}, f[1] = f[0], Space(line[f[0]])
  PROVE  /\ f[0] - 1 \in 1..(N - 1)
         /\ f[n] \in Read(t, line, f[0] - 1)
<1>1. f \in [0..n -> 0..N] /\ \A k \in 1..n : f[k] \in Behind(t[k], line, f[k - 1])
  BY DEF Path
<1>2. PICK x \in 0..N : x = f[0]
  BY <1>1
<1>3. ~Space(line[1]) /\ t \in Seq(Letters) /\ Len(line) \in Nat
  BY DEF Trimmed, Tidy
<1>4. x - 1 \in 1..(N - 1)
  <2>1. x # 1
    BY <1>2, <1>3
  <2> QED
    BY <1>2, <2>1
<1> DEFINE g == [k \in 0..n |-> IF k = 0 THEN x - 1 ELSE f[k]]
<1>5. /\ g \in [0..n -> 0..N] /\ g[0] = x - 1 /\ g[n] = f[n]
      /\ \A k \in 1..n : g[k] = f[k]
  <2>1. x - 1 \in 0..N /\ 0 \in 0..n /\ n \in 0..n /\ n # 0 /\ \A k \in 1..n : k \in 0..n /\ k # 0
    BY <1>4
  <2> QED
    BY <1>1, <2>1
<1>6. x \in Consume("_", line, x - 1)
  <2>1. x - 1 \notin {0, Len(line)} /\ (x - 1) + 1 = x
    BY <1>4
  <2>2. line[x] = "_"
    BY <1>2, Zenon DEF Space
  <2> QED
    BY <2>1, <2>2, Zenon DEF Consume
<1>7. t[1] = "_" /\ "_" # "%"
  BY Zenon DEF Space
<1>8. x \in Behind(t[1], line, x - 1)
  BY <1>6, <1>7, Zenon DEF Behind
<1> HIDE DEF g
<1>9. ASSUME NEW k \in 1..n  PROVE g[k] \in Behind(t[k], line, g[k - 1])
  <2>1. CASE k = 1
    <3>1. k - 1 = 0 /\ 1 \in 1..n
      BY <2>1
    <3>2. g[k] = x /\ g[k - 1] = x - 1
      BY <1>2, <1>5, <2>1, <3>1
    <3> QED
      BY <1>8, <2>1, <3>2
  <2>2. CASE k # 1
    <3>1. k - 1 \in 1..n
      BY <2>2
    <3>2. g[k] = f[k] /\ g[k - 1] = f[k - 1]
      BY <1>5, <3>1
    <3> QED
      BY <1>1, <3>2
  <2> QED
    BY <2>1, <2>2
<1>10. Path(t, line, g) /\ g[0] = x - 1 /\ g[Len(t)] = f[n]
  BY <1>5, <1>9 DEF Path
<1>11. x - 1 \in 0..Len(line)
  BY <1>4
<1>12. f[n] \in Read(t, line, x - 1)
  BY <1>3, <1>10, <1>11, ReadPath
<1> QED
  BY <1>2, <1>4, <1>12

SpacesAgree(t, line, i, j) == Space(t[i]) /\ Space(line[j])

\* A text of spaces that is tidy is one space.
LEMMA SpacesEqual ==
  ASSUME NEW t, NEW line, NEW i, NEW j, SpacesAgree(t, line, i, j)
  PROVE  line[j] = t[i]
BY Zenon DEF Space, SpacesAgree

\* A place from which a slot tries the text t that is read from `end`.
Try(t, line, N, end, e, p) ==
  /\ p \in 0..(N - 1) /\ e \in Read(t, line, p)
  /\ IsPrefix(TrimEnd(t), SubSeq(line, p + 1, N))
  /\ p = end \/ (p = end - 1 /\ Space(line[end]))

Runs(t, line, f, a, s) ==
  \A k \in a..s : f[k] = f[a - 1] + (k - a) + 1 /\ line[f[k]] = t[k]

\* What follows the first letter of a text.
LEMMA ShapedRun ==
  ASSUME NEW t, Tidy(t), NEW n \in Nat, n = Len(t), NEW a, NEW s, Shape(t, n, a, s),
         NEW line, NEW N \in Nat, N = Len(line), NEW f, Path(t, line, f)
  PROVE  Runs(t, line, f, a, s)
<1>1. /\ a \in 1..n /\ s \in a..n /\ ~Space(t[a]) /\ ~Space(t[s])
  BY DEF Shape
<1> QED
  BY <1>1, SolidRun, SMTT(30) DEF Runs

\* A slot tries the place of a text with letters.
LEMMA ShapedStart ==
  ASSUME NEW t, Tidy(t), NEW n \in Nat, n = Len(t), NEW a, NEW s, Shape(t, n, a, s),
         NEW line, Trimmed(line), NEW N \in Nat, N = Len(line), NEW end \in 1..N,
         NEW e, e \in Read(t, line, end)
  PROVE  \E p : Try(t, line, N, end, e, p)
<1>0. t \in Seq(Letters) /\ line \in Seq(Letters) /\ end \in 0..Len(line)
  BY DEF Tidy, Trimmed
<1>1. PICK f : Path(t, line, f) /\ f[0] = end /\ f[Len(t)] = e
  BY <1>0, ReadPath
<1>2. /\ a \in 1..n /\ s \in a..n /\ ~Space(t[a]) /\ ~Space(t[s])
      /\ \A k \in a..s : f[k] = f[a - 1] + (k - a) + 1 /\ line[f[k]] = t[k]
  <2>1. a \in 1..n /\ s \in a..n /\ ~Space(t[a]) /\ ~Space(t[s])
    BY DEF Shape
  <2>2. Path(t, line, f)
    BY <1>1
  <2> HIDE <1>1
  <2>3. \A k \in a..s : f[k] = f[a - 1] + (k - a) + 1 /\ line[f[k]] = t[k]
    <3>1. Runs(t, line, f, a, s)
      BY <2>2, ShapedRun
    <3> QED
      BY <3>1 DEF Runs
  <2> QED
    BY <2>1, <2>3
<1>3. \A k \in 0..n : f[k] \in 0..N
  BY <1>1 DEF Path
<1>4. a \in {1, 2} /\ (a = 2 => Space(t[1]))
  BY ShapeEnds
<1>5. PICK b \in 0..N : b = f[a - 1]
  BY <1>2, <1>3
<1>6. \A k \in a..s : line[b + (k - a) + 1] = t[k]
  BY <1>2, <1>5
<1>7. b + (s - a) + 1 <= N
  BY <1>2, <1>3, <1>5
<1>8. CASE b = end + a - 1
  <2>1. \A i \in 1..s : line[end + i] = t[i]
    <3> TAKE i \in 1..s
    <3>1. CASE i < a
      <4>1. a = 2 /\ i = 1
        BY <1>2, <1>4, <3>1
      <4>2. \/ f[1 - 1] \in {0, Len(line)} /\ f[1] = f[1 - 1]
            \/ f[1 - 1] \notin {0, Len(line)} /\ Space(line[f[1 - 1] + 1]) /\ f[1] = f[1 - 1] + 1
            \/ f[1 - 1] \notin {0, Len(line)} /\ Space(line[f[1 - 1]]) /\ f[1] = f[1 - 1]
        <5>1. 1 \in 1..Len(t) /\ Space(t[1])
          BY <1>2, <1>4, <4>1
        <5>2. Path(t, line, f)
          BY <1>1
        <5> QED
          BY <5>1, <5>2, SpaceStep
      <4>3. 1 - 1 = 0 /\ f[1] = end + 1 /\ f[0] = end
        <5>1. a - 1 = 1 /\ b = end + 1
          BY <1>8, <4>1
        <5>2. f[1] = end + 1
          BY <1>5, <5>1, Zenon
        <5> QED
          BY <1>1, <5>2
      <4>4. Space(line[end + 1])
        BY <4>2, <4>3
      <4>5. SpacesAgree(t, line, 1, end + 1)
        BY <1>4, <4>1, <4>4 DEF SpacesAgree
      <4> QED
        BY <4>1, <4>5, SpacesEqual
    <3>2. CASE i >= a
      <4>1. i \in a..s /\ b + (i - a) + 1 = end + i
        BY <1>2, <1>8, <3>2
      <4> QED
        BY <1>6, <4>1
    <3> QED
      BY <1>2, <3>1, <3>2
  <2>2. end + s <= N
    BY <1>2, <1>7, <1>8
  <2>3. end < N /\ IsPrefix(TrimEnd(t), SubSeq(line, end + 1, N))
    BY <2>1, <2>2, TrimEndFound
  <2>4. end \in 0..(N - 1)
    BY <2>3
  <2>5. Try(t, line, N, end, e, end)
    BY <2>3, <2>4 DEF Try
  <2> QED
    BY <2>5
<1>9. CASE b # end + a - 1
  <2>1. a = 2
    BY <1>1, <1>4, <1>5, <1>9
  <2>2. /\ 1 \in 1..Len(t) /\ 1 - 1 = 0 /\ 2 - 1 = 1 /\ b = f[1] /\ b # end + 1 /\ Space(t[1])
        /\ n >= 1
    BY <1>2, <1>4, <1>5, <1>9, <2>1
  <2>3. \/ f[0] \in {0, Len(line)} /\ f[1] = f[0]
        \/ f[0] \notin {0, Len(line)} /\ Space(line[f[0] + 1]) /\ f[1] = f[0] + 1
        \/ f[0] \notin {0, Len(line)} /\ Space(line[f[0]]) /\ f[1] = f[0]
    <3>1. \/ f[1 - 1] \in {0, Len(line)} /\ f[1] = f[1 - 1]
          \/ f[1 - 1] \notin {0, Len(line)} /\ Space(line[f[1 - 1] + 1]) /\ f[1] = f[1 - 1] + 1
          \/ f[1 - 1] \notin {0, Len(line)} /\ Space(line[f[1 - 1]]) /\ f[1] = f[1 - 1]
      BY <1>1, <2>2, SpaceStep
    <3> QED
      BY <2>2, <3>1
  <2>4. f[1] # N
    BY <1>2, <1>7, <2>1, <2>2
  <2>5. f[0] \notin {0, N} /\ Space(line[f[0]]) /\ f[1] = f[0]
    BY <1>1, <2>2, <2>3, <2>4
  <2>6. f[0] - 1 \in 1..(N - 1) /\ f[n] \in Read(t, line, f[0] - 1)
    BY <1>1, <2>2, <2>5, EarlierPath
  <2>7. PICK p \in 1..(N - 1) : p = end - 1
    BY <1>1, <2>6
  <2>8. e \in Read(t, line, p) /\ Space(line[end]) /\ b = end
    BY <1>1, <2>2, <2>5, <2>6, <2>7
  <2>9. \A i \in 1..s : line[p + i] = t[i]
    <3> TAKE i \in 1..s
    <3>1. CASE i < a
      <4>1. i = 1 /\ p + 1 = end
        BY <1>2, <2>1, <2>7, <3>1
      <4>2. SpacesAgree(t, line, 1, end)
        BY <2>2, <2>8 DEF SpacesAgree
      <4> QED
        BY <4>1, <4>2, SpacesEqual
    <3>2. CASE i >= a
      <4>1. i \in a..s /\ b + (i - a) + 1 = p + i
        BY <1>2, <2>1, <2>7, <2>8, <3>2
      <4> QED
        BY <1>6, <4>1
    <3> QED
      BY <1>2, <3>1, <3>2
  <2>10. p + s <= N /\ p \in 0..N
    BY <1>2, <1>7, <2>1, <2>7, <2>8
  <2>11. p < N /\ IsPrefix(TrimEnd(t), SubSeq(line, p + 1, N))
    BY <2>9, <2>10, TrimEndFound
  <2>12. p \in 0..(N - 1)
    BY <2>7
  <2>13. Try(t, line, N, end, e, p)
    BY <2>7, <2>8, <2>11, <2>12 DEF Try
  <2> QED
    BY <2>13
<1> QED
  BY <1>8, <1>9

\* A slot tries a place of a blank text.
LEMMA BlankStart ==
  ASSUME NEW t, Tidy(t), NEW n \in Nat, n = Len(t), \A i \in 1..n : Space(t[i]), TrimEnd(t) = t,
         NEW line, Trimmed(line), NEW N \in Nat, N = Len(line), NEW end \in 1..N, end # N,
         NEW e, e \in Read(t, line, end)
  PROVE  \E p : Try(t, line, N, end, e, p)
<1>0. t \in Seq(Letters) /\ line \in Seq(Letters) /\ end \in 0..Len(line)
  BY DEF Tidy, Trimmed
<1>1. PICK f : Path(t, line, f) /\ f[0] = end /\ f[Len(t)] = e
  BY <1>0, ReadPath
<1>2. n \in {0, 1}
  <2> SUFFICES ASSUME n \notin {0, 1}  PROVE FALSE
    OBVIOUS
  <2>1. 1 \in 1..n /\ 2 \in 1..n /\ 2 = 1 + 1
    OBVIOUS
  <2> QED
    BY <2>1, TidyNext
<1>3. ASSUME NEW p \in 0..(N - 1), p + n <= N, \A i \in 1..n : line[p + i] = t[i]
      PROVE  IsPrefix(TrimEnd(t), SubSeq(line, p + 1, N))
  <2>1. StandsAt(t, line, p)
    BY <1>3 DEF StandsAt
  <2>2. p \in 0..Len(line)
    OBVIOUS
  <2>3. IsPrefix(t, SubSeq(line, p + 1, Len(line)))
    BY <1>0, <2>1, <2>2, PrefixAt
  <2> QED
    BY <2>3
<1>4. end \in 0..(N - 1)
  OBVIOUS
<1>5. CASE n = 0
  <2>1. end + n <= N /\ \A i \in 1..n : line[end + i] = t[i]
    BY <1>5
  <2>2. Try(t, line, N, end, e, end)
    BY <1>3, <1>4, <2>1 DEF Try
  <2> QED
    BY <2>2
<1>6. CASE n = 1
  <2>1. 1 \in 1..Len(t) /\ 1 - 1 = 0 /\ Space(t[1]) /\ n >= 1
    BY <1>6
  <2>2. \/ f[0] \in {0, Len(line)} /\ f[1] = f[0]
        \/ f[0] \notin {0, Len(line)} /\ Space(line[f[0] + 1]) /\ f[1] = f[0] + 1
        \/ f[0] \notin {0, Len(line)} /\ Space(line[f[0]]) /\ f[1] = f[0]
    <3>1. \/ f[1 - 1] \in {0, Len(line)} /\ f[1] = f[1 - 1]
          \/ f[1 - 1] \notin {0, Len(line)} /\ Space(line[f[1 - 1] + 1]) /\ f[1] = f[1 - 1] + 1
          \/ f[1 - 1] \notin {0, Len(line)} /\ Space(line[f[1 - 1]]) /\ f[1] = f[1 - 1]
      BY <1>1, <2>1, SpaceStep
    <3> QED
      BY <2>1, <3>1
  <2>3. CASE Space(line[end + 1])
    <3>1. SpacesAgree(t, line, 1, end + 1)
      BY <2>1, <2>3 DEF SpacesAgree
    <3>2. line[end + 1] = t[1]
      BY <3>1, SpacesEqual
    <3>3. end + n <= N /\ \A i \in 1..n : line[end + i] = t[i]
      BY <1>6, <3>2
    <3>4. Try(t, line, N, end, e, end)
      BY <1>3, <1>4, <3>3 DEF Try
    <3> QED
      BY <3>4
  <2>4. CASE ~Space(line[end + 1])
    <3>1. f[0] \notin {0, N} /\ Space(line[f[0]]) /\ f[1] = f[0]
      BY <1>1, <2>2, <2>4
    <3>2. f[0] - 1 \in 1..(N - 1) /\ f[n] \in Read(t, line, f[0] - 1)
      BY <1>1, <2>1, <3>1, EarlierPath
    <3>3. PICK p \in 1..(N - 1) : p = end - 1
      BY <1>1, <3>2
    <3>4. e \in Read(t, line, p) /\ Space(line[end])
      BY <1>1, <3>1, <3>2, <3>3
    <3>5. SpacesAgree(t, line, 1, end)
      BY <2>1, <3>4 DEF SpacesAgree
    <3>6. line[end] = t[1]
      BY <3>5, SpacesEqual
    <3>7. p \in 0..(N - 1) /\ p + n <= N /\ \A i \in 1..n : line[p + i] = t[i]
      <4>1. p + 1 = end
        BY <3>3
      <4> QED
        BY <1>6, <3>3, <3>6, <4>1
    <3>8. Try(t, line, N, end, e, p)
      BY <1>3, <3>3, <3>4, <3>7 DEF Try
    <3> QED
      BY <3>8
  <2> QED
    BY <2>3, <2>4
<1> QED
  BY <1>2, <1>5, <1>6

Onward(h, line, n, end) ==
  IF h[n].next = Nil THEN end = Len(line) ELSE Match(h, line)[h[n].next][end]

\* The ends that a slot tries, when a literal follows it.
LEMMA SplitsFrom ==
  ASSUME NEW h, NEW n, NEW line, NEW N \in Nat, N = Len(line), NEW at \in 0..N
  PROVE  Splits(h, n, line, at) \subseteq at..N
<1> DEFINE found == Occurrences(TrimEnd(h[h[n].next].text), line, at)
<1>1. found \subseteq at..(N - 1) /\ at..(N - 1) \subseteq at..N
  BY DEF Occurrences
<1>2. ((IF found = {} THEN at ELSE Max(found)) + 1)..Len(line) \subseteq at..N
  <2>1. CASE found = {}
    <3>1. (at + 1)..N \subseteq at..N
      OBVIOUS
    <3> HIDE DEF found
    <3> QED
      BY <2>1, <3>1
  <2>2. CASE found # {}
    <3>0. found \in SUBSET (0..N)
      BY <1>1
    <3>1. Max(found) \in found
      <4> HIDE DEF found
      <4> QED
        BY <2>2, <3>0, MaxIs
    <3> HIDE DEF found
    <3>2. PICK m \in at..(N - 1) : m = Max(found)
      BY <1>1, <3>1
    <3>3. (m + 1)..N \subseteq at..N
      OBVIOUS
    <3> QED
      BY <2>2, <3>2, <3>3
  <2> QED
    BY <2>1, <2>2
<1>3. {Len(line)} \subseteq at..N /\ (at + 1)..Len(line) \subseteq at..N
  OBVIOUS
<1> HIDE DEF found
<1>4. Splits(h, n, line, at) \in {{Len(line)}, (at + 1)..Len(line), found,
        found \cup ((IF found = {} THEN at ELSE Max(found)) + 1)..Len(line)}
  BY Zenon DEF Splits, found
<1> QED
  BY <1>1, <1>2, <1>3, <1>4

\* A slot tries enough ends: as many as if it tried all of them.
LEMMA SlotIs ==
  ASSUME NEW h, NEW pos, NEW top, Sound(h, pos, top), \A m \in DOMAIN h : Tidy(h[m].text),
         NEW n \in DOMAIN h, NEW line, Trimmed(line), NEW at \in 0..Len(line)
  PROVE  (\E end \in Splits(h, n, line, at) :
            Onward(h, line, n, end) /\ Parses(SubSeq(line, at + 1, end)))
           <=> \E end \in Behind("%", line, at) : Onward(h, line, n, end)
<1>0. PICK N \in Nat : N = Len(line)
  <2>1. line \in Seq(Letters)
    BY DEF Trimmed
  <2> QED
    BY <2>1, LenProperties
<1>1. Behind("%", line, at) = {end \in (at + 1)..Len(line) : Parses(SubSeq(line, at + 1, end))}
  BY Zenon DEF Behind
<1>2. ASSUME NEW end \in Splits(h, n, line, at), Parses(SubSeq(line, at + 1, end))
      PROVE  end \in Behind("%", line, at)
  <2>1. at \in 0..N /\ end \in at..N
    BY <1>0, SplitsFrom
  <2>2. \E i \in (at + 1)..end : ~Space(line[i])
    BY <1>0, <1>2, <2>1, ParsesIs
  <2>3. end \in (at + 1)..N
    BY <2>1, <2>2
  <2> QED
    BY <1>0, <1>1, <1>2, <2>3
<1>3. ASSUME NEW end \in (at + 1)..N, Onward(h, line, n, end), Parses(SubSeq(line, at + 1, end))
      PROVE  \E p \in Splits(h, n, line, at) :
               Onward(h, line, n, p) /\ Parses(SubSeq(line, at + 1, p))
  <2>1. CASE h[n].next = Nil
    <3>1. end = Len(line)
      BY <1>3, <2>1, Zenon DEF Onward
    <3>2. Splits(h, n, line, at) = {Len(line)}
      BY <2>1, Zenon DEF Splits
    <3> QED
      BY <1>3, <3>1, <3>2, Zenon
  <2>2. CASE h[n].next # Nil /\ h[h[n].next].kind # "literal"
    <3>1. Splits(h, n, line, at) = (at + 1)..Len(line)
      BY <2>2, Zenon DEF Splits
    <3> QED
      BY <1>0, <1>3, <3>1
  <2>3. CASE h[n].next # Nil /\ h[h[n].next].kind = "literal"
    <3> DEFINE m == h[n].next
               t == h[m].text
               found == Occurrences(TrimEnd(t), line, at)
    <3>1. m \in DOMAIN h /\ Tidy(t) /\ t \in Seq(Letters)
      BY <2>3, SoundFacts
    <3>2. PICK k \in Nat : k = Len(t)
      <4> HIDE DEF t
      <4> QED
        BY <3>1, LenProperties
    <3>3. \A p \in 0..N : Onward(h, line, n, p) <=> \E e \in Read(t, line, p) : Onward(h, line, m, e)
      <4> TAKE p \in 0..N
      <4>1. Onward(h, line, n, p) <=> Match(h, line)[m][p]
        BY <2>3, Zenon DEF Onward
      <4>2. Match(h, line)[m][p] = MatchBody(h, line, Match(h, line), m, p)
        BY <1>0, <3>1, MatchIs
      <4>3. MatchBody(h, line, Match(h, line), m, p)
              = (\E e \in Read(t, line, p) : Onward(h, line, m, e))
        BY <2>3, Zenon DEF MatchBody, Onward
      <4> QED
        BY <4>1, <4>2, <4>3, Zenon
    <3>4. Splits(h, n, line, at) =
            IF Solid(t) > 0 THEN found
            ELSE found \cup ((IF found = {} THEN at ELSE Max(found)) + 1)..Len(line)
      BY <2>3, Zenon DEF Splits
    <3>5. found \subseteq Splits(h, n, line, at)
      <4> HIDE DEF found
      <4> QED
        BY <3>4, Zenon
    <3>6. at \in 0..N /\ end \in 1..N /\ end \in 0..N /\ end \in at..N
      BY <1>0
    <3>7. PICK e \in Read(t, line, end) : Onward(h, line, m, e)
      BY <1>3, <3>3, <3>6
    <3>8. \E i \in (at + 1)..end : ~Space(line[i])
      BY <1>0, <1>3, <3>6, ParsesIs
    <3>9. ASSUME NEW p, Try(t, line, N, end, e, p)
          PROVE  p \in Splits(h, n, line, at) /\ Onward(h, line, n, p) /\ Parses(SubSeq(line, at + 1, p))
      <4>1. /\ p \in 0..(N - 1) /\ e \in Read(t, line, p)
            /\ IsPrefix(TrimEnd(t), SubSeq(line, p + 1, N))
            /\ p = end \/ (p = end - 1 /\ Space(line[end]))
        BY <3>9 DEF Try
      <4>2. PICK i \in (at + 1)..end : ~Space(line[i])
        BY <3>8
      <4>3. i \in (at + 1)..p
        <5>1. CASE p = end
          BY <5>1
        <5>2. CASE p # end
          <6>1. i # end
            BY <4>1, <4>2, <5>2
          <6> QED
            BY <1>0, <4>1, <5>2, <6>1
        <5> QED
          BY <5>1, <5>2
      <4>4. p \in at..N /\ p \in 0..N /\ p \in at..(Len(line) - 1)
        BY <1>0, <4>1, <4>3
      <4>5. Parses(SubSeq(line, at + 1, p))
        BY <1>0, <3>6, <4>2, <4>3, <4>4, ParsesIs
      <4>6. p \in found
        <5> HIDE DEF t
        <5> QED
          BY <1>0, <4>1, <4>4, Zenon DEF Occurrences
      <4>7. Onward(h, line, n, p)
        BY <3>3, <3>7, <4>1, <4>4
      <4> QED
        BY <3>5, <4>5, <4>6, <4>7
    <3> HIDE DEF t
    <3>10. CASE \E a, s : Shape(t, k, a, s)
      <4>1. PICK a, s : Shape(t, k, a, s)
        BY <3>10
      <4>2. \E p : Try(t, line, N, end, e, p)
        BY <1>0, <3>1, <3>2, <3>6, <4>1, ShapedStart
      <4> QED
        BY <3>9, <4>2
    <3>11. CASE (\A i \in 1..k : Space(t[i])) /\ TrimEnd(t) = t /\ Solid(t) = 0
      <4>1. CASE end # N
        <5>1. \E p : Try(t, line, N, end, e, p)
          BY <1>0, <3>1, <3>2, <3>6, <3>11, <4>1, BlankStart
        <5> QED
          BY <3>9, <5>1
      <4>2. CASE end = N
        <5>1. ~(Solid(t) > 0)
          BY <3>11
        <5>2. Splits(h, n, line, at) = found \cup ((IF found = {} THEN at ELSE Max(found)) + 1)..Len(line)
          <6> HIDE DEF found
          <6> QED
            BY <3>4, <5>1, Zenon
        <5>3. N \in ((IF found = {} THEN at ELSE Max(found)) + 1)..Len(line)
          <6>1. found \subseteq at..(N - 1)
            BY <1>0 DEF Occurrences
          <6> HIDE DEF found
          <6>2. CASE found = {}
            BY <1>0, <6>2
          <6>3. CASE found # {}
            <7>1. found \in SUBSET (0..N)
              BY <3>6, <6>1
            <7>2. Max(found) \in found
              BY <6>3, <7>1, MaxIs
            <7>3. PICK x \in at..(N - 1) : x = Max(found)
              BY <6>1, <7>2
            <7>4. N \in (x + 1)..N
              BY <3>6
            <7> QED
              BY <1>0, <6>3, <7>3, <7>4
          <6> QED
            BY <6>2, <6>3
        <5> HIDE DEF found
        <5>4. end \in Splits(h, n, line, at)
          BY <4>2, <5>2, <5>3
        <5> QED
          BY <1>3, <5>4
      <4> QED
        BY <4>1, <4>2
    <3> QED
      BY <3>1, <3>2, <3>10, <3>11, BlankOrShaped
  <2> QED
    BY <2>1, <2>2, <2>3
<1> QED
  <2>1. ASSUME NEW end \in Behind("%", line, at), Onward(h, line, n, end)
        PROVE  \E p \in Splits(h, n, line, at) :
                 Onward(h, line, n, p) /\ Parses(SubSeq(line, at + 1, p))
    <3>1. end \in (at + 1)..N /\ Parses(SubSeq(line, at + 1, end))
      BY <1>0, <1>1
    <3> QED
      BY <1>3, <2>1, <3>1
  <2> QED
    BY <1>2, <2>1

-----------------------------------------------------------------------------
(* The elements D of a heap form chains along onext.  Of each element, end *)
(* is the last one of its chain, and lang are the words of the chain from  *)
(* there: of the element, each with one of the later ones.                 *)

Cat(A, B) == {a \o b : a \in A, b \in B}

Unit(h, lang, n) ==
  LET e == h[n]
  IN  CASE e.kind = "literal" -> {e.text}
        [] e.kind = "group" -> lang[e.kids[1]]
        [] e.kind = "optional" -> lang[e.kids[1]] \cup {<<>>}
        [] e.kind = "choice" -> UNION {lang[e.kids[k]] : k \in DOMAIN e.kids}
        [] OTHER -> {<<"%">>}

Rest(h, lang, n) == IF h[n].onext = Nil THEN {<<>>} ELSE lang[h[n].onext]

Node(h, D, end, lang, n) ==
  /\ h[n].onext = Nil => end[n] = n
  /\ h[n].onext # Nil => h[n].onext \in D /\ h[n].next = h[n].onext /\ end[h[n].onext] = end[n]
  /\ \A k \in DOMAIN h[n].kids :
       h[n].kids[k] \in D /\ h[end[h[n].kids[k]]].next = h[n].next
  /\ lang[n] = Cat(Unit(h, lang, n), Rest(h, lang, n))

Chains(h, D, end, lang) ==
  /\ D \subseteq DOMAIN h /\ end \in [D -> D] /\ lang \in [D -> SUBSET Seq(Letters)]
  /\ \A n \in DOMAIN h : Tidy(h[n].text)
  /\ \A n \in D : Node(h, D, end, lang, n)

\* The words of an element, by its kind.
LEMMA UnitIs ==
  ASSUME NEW h, NEW lang, NEW n
  PROVE  /\ h[n].kind = "literal" => Unit(h, lang, n) = {h[n].text}
         /\ h[n].kind = "group" => Unit(h, lang, n) = lang[h[n].kids[1]]
         /\ h[n].kind = "optional" => Unit(h, lang, n) = lang[h[n].kids[1]] \cup {<<>>}
         /\ h[n].kind = "choice" => Unit(h, lang, n) = UNION {lang[h[n].kids[k]] : k \in DOMAIN h[n].kids}
         /\ h[n].kind = "type" => Unit(h, lang, n) = {<<"%">>}
BY Zenon DEF Unit

\* An element of a chain.
LEMMA ChainFacts ==
  ASSUME NEW h, NEW pos, NEW top, Sound(h, pos, top), NEW D, NEW end, NEW lang,
         Chains(h, D, end, lang), NEW n \in D
  PROVE  /\ n \in DOMAIN h /\ end[n] \in D /\ end[n] \in DOMAIN h /\ lang[n] \in SUBSET Seq(Letters)
         /\ h[n].kind \in {"group", "optional"} => 1 \in DOMAIN h[n].kids /\ h[n].kids[1] \in D
         /\ \A k \in DOMAIN h[n].kids :
              h[n].kids[k] \in D /\ h[end[h[n].kids[k]]].next = h[n].next
         /\ Unit(h, lang, n) \in SUBSET Seq(Letters)
         /\ Rest(h, lang, n) \in SUBSET Seq(Letters)
         /\ lang[n] = Cat(Unit(h, lang, n), Rest(h, lang, n))
<1>1. /\ D \subseteq DOMAIN h /\ end \in [D -> D] /\ lang \in [D -> SUBSET Seq(Letters)]
      /\ Tidy(h[n].text) /\ Node(h, D, end, lang, n)
  BY DEF Chains
<1>2. h[n].kind \in {"group", "optional"} => 1 \in DOMAIN h[n].kids
  BY <1>1, SoundFacts
<1>3. \A k \in DOMAIN h[n].kids : h[n].kids[k] \in D /\ h[end[h[n].kids[k]]].next = h[n].next
  BY <1>1, Zenon DEF Node
<1>4. h[n].kind \in Kinds /\ h[n].text \in Seq(Letters)
  BY <1>1, SoundFacts
<1>5. <<>> \in Seq(Letters) /\ <<"%">> \in Seq(Letters)
  <2>1. "%" \in Letters
    BY Zenon DEF Letters
  <2> QED
    BY <2>1
<1>6. \A m \in D : lang[m] \in SUBSET Seq(Letters)
  BY <1>1
<1>7. Unit(h, lang, n) \in SUBSET Seq(Letters)
  <2> DEFINE L == Seq(Letters)
  <2>1. \A m \in D : lang[m] \in SUBSET L
    BY <1>6
  <2>2. h[n].text \in L /\ <<>> \in L /\ <<"%">> \in L
    BY <1>4, <1>5
  <2> HIDE DEF L
  <2>3. CASE h[n].kind = "literal"
    <3>1. Unit(h, lang, n) = {h[n].text}
      BY <2>3, UnitIs
    <3> QED
      BY <2>2, <3>1 DEF L
  <2>4. CASE h[n].kind = "type"
    <3>1. Unit(h, lang, n) = {<<"%">>}
      BY <2>4, UnitIs
    <3>2. \A x \in {<<"%">>} : x \in L
      BY <2>2, Zenon
    <3> QED
      BY <3>1, <3>2, Zenon DEF L
  <2>5. CASE h[n].kind = "group"
    <3>1. Unit(h, lang, n) = lang[h[n].kids[1]]
      BY <2>5, UnitIs
    <3> QED
      BY <1>2, <1>3, <2>1, <2>5, <3>1 DEF L
  <2>6. CASE h[n].kind = "optional"
    <3>1. Unit(h, lang, n) = lang[h[n].kids[1]] \cup {<<>>}
      BY <2>6, UnitIs
    <3>2. lang[h[n].kids[1]] \in SUBSET L
      BY <1>2, <1>3, <2>1, <2>6
    <3>3. \A x \in lang[h[n].kids[1]] \cup {<<>>} : x \in L
      BY <2>2, <3>2, Zenon
    <3> QED
      BY <3>1, <3>3, Zenon DEF L
  <2>7. CASE h[n].kind = "choice"
    <3>1. Unit(h, lang, n) = UNION {lang[h[n].kids[k]] : k \in DOMAIN h[n].kids}
      BY <2>7, UnitIs
    <3>2. \A k \in DOMAIN h[n].kids : lang[h[n].kids[k]] \in SUBSET L
      BY <1>3, <2>1
    <3>3. UNION {lang[h[n].kids[k]] : k \in DOMAIN h[n].kids} \in SUBSET L
      BY <3>2, Zenon
    <3> QED
      BY <3>1, <3>3, Zenon DEF L
  <2> QED
    BY <1>4, <2>3, <2>4, <2>5, <2>6, <2>7 DEF Kinds
<1>8. Rest(h, lang, n) \in SUBSET Seq(Letters)
  <2>1. CASE h[n].onext = Nil
    <3>1. Rest(h, lang, n) = {<<>>}
      BY <2>1, Zenon DEF Rest
    <3>2. \A x \in {<<>>} : x \in Seq(Letters)
      BY <1>5, Zenon
    <3> QED
      BY <3>1, <3>2, Zenon
  <2>2. CASE h[n].onext # Nil
    <3>1. Rest(h, lang, n) = lang[h[n].onext] /\ h[n].onext \in D
      BY <1>1, <2>2, Zenon DEF Rest, Node
    <3> QED
      BY <1>6, <3>1
  <2> QED
    BY <2>1, <2>2
<1>9. lang[n] = Cat(Unit(h, lang, n), Rest(h, lang, n))
  BY <1>1, Zenon DEF Node
<1> QED
  BY <1>1, <1>2, <1>3, <1>7, <1>8, <1>9

\* Words joined of two sets are read one behind the other.
LEMMA ReadCat ==
  ASSUME NEW A \in SUBSET Seq(Letters), NEW B \in SUBSET Seq(Letters),
         NEW line, Len(line) \in Nat, NEW at \in 0..Len(line), NEW e
  PROVE  (\E w \in Cat(A, B) : e \in Read(w, line, at))
           <=> \E u \in A : \E o \in Read(u, line, at) : \E r \in B : e \in Read(r, line, o)
<1>1. ASSUME NEW u \in A, NEW r \in B
      PROVE  e \in Read(u \o r, line, at) <=> \E o \in Read(u, line, at) : e \in Read(r, line, o)
  <2>1. u \in Seq(Letters) /\ r \in Seq(Letters)
    OBVIOUS
  <2> QED
    BY <2>1, ReadConcat
<1>2. ASSUME NEW w \in Cat(A, B), e \in Read(w, line, at)
      PROVE  \E u \in A : \E o \in Read(u, line, at) : \E r \in B : e \in Read(r, line, o)
  <2>1. PICK u \in A, r \in B : w = u \o r
    BY SMTT(30) DEF Cat
  <2>2. e \in Read(u \o r, line, at)
    BY <1>2, <2>1
  <2> QED
    BY <1>1, <2>2, Zenon
<1>3. ASSUME NEW u \in A, NEW o \in Read(u, line, at), NEW r \in B, e \in Read(r, line, o)
      PROVE  \E w \in Cat(A, B) : e \in Read(w, line, at)
  <2>1. e \in Read(u \o r, line, at)
    BY <1>1, <1>3, Zenon
  <2>2. u \o r \in Cat(A, B)
    BY DEF Cat
  <2> QED
    BY <2>1, <2>2, Zenon
<1> QED
  BY <1>2, <1>3, Zenon

\* Words of A are read from at to where what follows z goes on.
Accepts(h, line, A, z, at) ==
  \E w \in A : \E e \in Read(w, line, at) : Onward(h, line, z, e)

\* What follows one another in a word follows one another on the line.
LEMMA AcceptsCat ==
  ASSUME NEW h, NEW A \in SUBSET Seq(Letters), NEW B \in SUBSET Seq(Letters),
         NEW line, Len(line) \in Nat, NEW at \in 0..Len(line), NEW z
  PROVE  Accepts(h, line, Cat(A, B), z, at)
           <=> \E u \in A : \E o \in Read(u, line, at) : Accepts(h, line, B, z, o)
<1>1. \A e : (\E w \in Cat(A, B) : e \in Read(w, line, at))
               <=> \E u \in A : \E o \in Read(u, line, at) : \E r \in B : e \in Read(r, line, o)
  BY ReadCat
<1>2. ASSUME NEW w \in Cat(A, B), NEW e \in Read(w, line, at), Onward(h, line, z, e)
      PROVE  \E u \in A : \E o \in Read(u, line, at) : Accepts(h, line, B, z, o)
  <2>1. PICK u \in A : \E o \in Read(u, line, at) : \E r \in B : e \in Read(r, line, o)
    BY <1>1
  <2>2. PICK o \in Read(u, line, at) : \E r \in B : e \in Read(r, line, o)
    BY <2>1
  <2>3. Accepts(h, line, B, z, o)
    BY <1>2, <2>2, Zenon DEF Accepts
  <2> QED
    BY <2>3
<1>3. ASSUME NEW u \in A, NEW o \in Read(u, line, at), Accepts(h, line, B, z, o)
      PROVE  \E w \in Cat(A, B) : \E e \in Read(w, line, at) : Onward(h, line, z, e)
  <2>1. PICK r \in B : \E e \in Read(r, line, o) : Onward(h, line, z, e)
    BY <1>3, Zenon DEF Accepts
  <2>2. PICK e \in Read(r, line, o) : Onward(h, line, z, e)
    BY <2>1
  <2>3. \E w \in Cat(A, B) : e \in Read(w, line, at)
    BY <1>1
  <2> QED
    BY <2>2, <2>3
<1> QED
  BY <1>2, <1>3, Zenon DEF Accepts

\* The elements from n on accept the words of n.
MatchGood(h, line, end, lang, n) ==
  \A at \in 0..Len(line) : Match(h, line)[n][at] <=> Accepts(h, line, lang[n], end[n], at)

\* What comes behind an element.
LEMMA RestAccepts ==
  ASSUME NEW h, NEW pos, NEW top, Sound(h, pos, top), NEW D, NEW end, NEW lang,
         Chains(h, D, end, lang), NEW line, Trimmed(line), Len(line) \in Nat, NEW n \in D,
         h[n].onext # Nil => MatchGood(h, line, end, lang, h[n].onext),
         NEW at \in 0..Len(line)
  PROVE  Onward(h, line, n, at) <=> Accepts(h, line, Rest(h, lang, n), end[n], at)
<1>1. Node(h, D, end, lang, n)
  BY DEF Chains
<1>2. CASE h[n].onext = Nil
  <2>1. end[n] = n /\ Rest(h, lang, n) = {<<>>}
    BY <1>1, <1>2, Zenon DEF Node, Rest
  <2>2. Read(<<>>, line, at) = {at}
    BY ReadEmpty
  <2>3. Accepts(h, line, {<<>>}, n, at) <=> Onward(h, line, n, at)
    BY <2>2, Zenon DEF Accepts
  <2> QED
    BY <2>1, <2>3, Zenon
<1>3. CASE h[n].onext # Nil
  <2>1. /\ h[n].onext \in D /\ h[n].next = h[n].onext /\ end[h[n].onext] = end[n]
        /\ Rest(h, lang, n) = lang[h[n].onext]
    BY <1>1, <1>3, Zenon DEF Node, Rest
  <2>2. Onward(h, line, n, at) <=> Match(h, line)[h[n].onext][at]
    BY <1>3, <2>1, Zenon DEF Onward
  <2>3. Match(h, line)[h[n].onext][at] <=> Accepts(h, line, lang[h[n].onext], end[h[n].onext], at)
    BY <1>3, Zenon DEF MatchGood
  <2> QED
    BY <2>1, <2>2, <2>3, Zenon
<1> QED
  BY <1>2, <1>3

\* An element itself.
LEMMA UnitAccepts ==
  ASSUME NEW h, NEW pos, NEW top, Sound(h, pos, top), NEW D, NEW end, NEW lang,
         Chains(h, D, end, lang), NEW line, Trimmed(line), Len(line) \in Nat, NEW n \in D,
         \A k \in DOMAIN h[n].kids : MatchGood(h, line, end, lang, h[n].kids[k]),
         NEW at \in 0..Len(line)
  PROVE  Match(h, line)[n][at] <=> Accepts(h, line, Unit(h, lang, n), n, at)
<1> DEFINE M == Match(h, line)
           e == h[n]
           Own == MatchBody(h, line, M, n, at)
<1>0. n \in DOMAIN h /\ e.kind \in Kinds
  BY SoundFacts DEF Chains
<1>1. M[n][at] = Own
  BY <1>0, MatchIs
<1>2. ASSUME NEW k \in DOMAIN e.kids
      PROVE  M[e.kids[k]][at] <=> Accepts(h, line, lang[e.kids[k]], n, at)
  <2>1. M[e.kids[k]][at] <=> Accepts(h, line, lang[e.kids[k]], end[e.kids[k]], at)
    BY Zenon DEF MatchGood
  <2>2. h[end[e.kids[k]]].next = h[n].next
    BY ChainFacts
  <2>3. \A o : Onward(h, line, end[e.kids[k]], o) <=> Onward(h, line, n, o)
    BY <2>2, Zenon DEF Onward
  <2> QED
    BY <2>1, <2>3, Zenon DEF Accepts
<1>3. e.kind \in {"group", "optional"} => 1 \in DOMAIN e.kids
  BY ChainFacts
<1>4. Read(<<>>, line, at) = {at}
  BY ReadEmpty
<1>5. CASE e.kind = "literal"
  <2>1. Unit(h, lang, n) = {e.text}
    BY <1>5, UnitIs
  <2>2. Own = (\E o \in Read(e.text, line, at) : Onward(h, line, n, o))
    BY <1>5, Zenon DEF MatchBody, Onward
  <2> QED
    BY <1>1, <2>1, <2>2, Zenon DEF Accepts
<1>6. CASE e.kind = "type"
  <2>1. Unit(h, lang, n) = {<<"%">>}
    BY <1>6, UnitIs
  <2>2. Own = (\E o \in Splits(h, n, line, at) :
                 Onward(h, line, n, o) /\ Parses(SubSeq(line, at + 1, o)))
    BY <1>6, Zenon DEF MatchBody, Onward
  <2>3. \A m \in DOMAIN h : Tidy(h[m].text)
    BY DEF Chains
  <2>4. (\E o \in Splits(h, n, line, at) :
            Onward(h, line, n, o) /\ Parses(SubSeq(line, at + 1, o)))
         <=> \E o \in Behind("%", line, at) : Onward(h, line, n, o)
    BY <1>0, <2>3, SlotIs
  <2>5. Read(<<"%">>, line, at) = Behind("%", line, at)
    <3>1. "%" \in Letters
      BY Zenon DEF Letters
    <3> QED
      BY <3>1, ReadOne
  <2>6. Accepts(h, line, {<<"%">>}, n, at) <=> \E o \in Behind("%", line, at) : Onward(h, line, n, o)
    BY <2>5, Zenon DEF Accepts
  <2> QED
    BY <1>1, <2>1, <2>2, <2>4, <2>6, Zenon
<1>7. CASE e.kind = "group"
  <2>1. Unit(h, lang, n) = lang[e.kids[1]]
    BY <1>7, UnitIs
  <2>2. Own = M[e.kids[1]][at]
    BY <1>7, Zenon DEF MatchBody
  <2> QED
    BY <1>1, <1>2, <1>3, <1>7, <2>1, <2>2
<1>8. CASE e.kind = "optional"
  <2>1. Unit(h, lang, n) = lang[e.kids[1]] \cup {<<>>}
    BY <1>8, UnitIs
  <2>2. Own = (M[e.kids[1]][at] \/ Onward(h, line, n, at))
    BY <1>8, Zenon DEF MatchBody, Onward
  <2>3. M[e.kids[1]][at] <=> Accepts(h, line, lang[e.kids[1]], n, at)
    BY <1>2, <1>3, <1>8
  <2> DEFINE A == lang[e.kids[1]]
             z == <<>>
  <2>4. Accepts(h, line, A \cup {z}, n, at) <=> Accepts(h, line, A, n, at) \/ Onward(h, line, n, at)
    <3>1. Read(z, line, at) = {at}
      BY <1>4
    <3> HIDE DEF A, z
    <3>2. \A w : w \in A \cup {z} <=> w \in A \/ w = z
      BY Zenon
    <3>3. (\E o \in Read(z, line, at) : Onward(h, line, n, o)) <=> Onward(h, line, n, at)
      BY <3>1, Zenon
    <3> QED
      BY <3>2, <3>3, Zenon DEF Accepts
  <2>5. M[n][at] <=> Accepts(h, line, Unit(h, lang, n), n, at)
    <3> HIDE DEF M, Own
    <3> QED
      BY <1>1, <2>1, <2>2, <2>3, <2>4, Zenon
  <2> QED
    BY <2>5
<1>9. CASE e.kind = "choice"
  <2>1. Unit(h, lang, n) = UNION {lang[e.kids[k]] : k \in DOMAIN e.kids}
    BY <1>9, UnitIs
  <2>2. Own = (\E k \in DOMAIN e.kids : M[e.kids[k]][at])
    BY <1>9, Zenon DEF MatchBody
  <2>3. Accepts(h, line, UNION {lang[e.kids[k]] : k \in DOMAIN e.kids}, n, at)
          <=> \E k \in DOMAIN e.kids : Accepts(h, line, lang[e.kids[k]], n, at)
    <3> DEFINE A(k) == lang[e.kids[k]]
               K == DOMAIN e.kids
               U == UNION {A(k) : k \in K}
    <3>1. \A w : w \in U <=> \E k \in K : w \in A(k)
      <4> HIDE DEF A, K
      <4> QED
        BY Zenon
    <3>2. Accepts(h, line, U, n, at) <=> \E k \in K : Accepts(h, line, A(k), n, at)
      <4> HIDE DEF A, K, U
      <4>1. ASSUME NEW w \in U, NEW o \in Read(w, line, at), Onward(h, line, n, o)
            PROVE  \E k \in K : Accepts(h, line, A(k), n, at)
        <5>1. PICK k \in K : w \in A(k)
          BY <3>1
        <5> QED
          BY <4>1, <5>1, Zenon DEF Accepts
      <4>2. ASSUME NEW k \in K, Accepts(h, line, A(k), n, at)  PROVE Accepts(h, line, U, n, at)
        BY <3>1, <4>2, Zenon DEF Accepts
      <4> QED
        BY <4>1, <4>2, Zenon DEF Accepts
    <3> QED
      BY <3>2
  <2>4. M[n][at] <=> Accepts(h, line, Unit(h, lang, n), n, at)
    <3> HIDE DEF M, Own
    <3> QED
      BY <1>1, <1>2, <2>1, <2>2, <2>3, Zenon
  <2> QED
    BY <2>4
<1> HIDE DEF e
<1> QED
  BY <1>0, <1>5, <1>6, <1>7, <1>8, <1>9 DEF Kinds

\* The matcher takes from a chain what the chain's words take, at every offset
\* and with whatever follows the chain.
LEMMA MatchAccepts ==
  ASSUME NEW h, NEW pos, NEW top, Sound(h, pos, top), NEW D, NEW end, NEW lang,
         Chains(h, D, end, lang), NEW line, Trimmed(line)
  PROVE  \A n \in D : MatchGood(h, line, end, lang, n)
<1> DEFINE S == {n \in D : ~MatchGood(h, line, end, lang, n)}
<1>0. Len(line) \in Nat
  <2>1. line \in Seq(Letters)
    BY DEF Trimmed
  <2> QED
    BY <2>1, LenProperties
<1>1. S = {}
  <2> SUFFICES ASSUME S # {}  PROVE FALSE
    OBVIOUS
  <2>1. PICK n \in S : \A m \in S : pos[m] <= pos[n]
    <3>1. S \in SUBSET DOMAIN h
      BY DEF Chains
    <3> HIDE DEF S
    <3> QED
      BY <3>1, Deepest
  <2>2. n \in D /\ n \in DOMAIN h /\ ~MatchGood(h, line, end, lang, n)
    BY <2>1 DEF Chains
  <2>3. ASSUME NEW m \in D, pos[n] < pos[m]  PROVE MatchGood(h, line, end, lang, m)
    <3>1. pos[n] \in Nat /\ pos[m] \in Nat
      BY <2>2, SoundFacts DEF Chains
    <3>2. m \notin S
      BY <2>1, <2>3, <3>1
    <3> QED
      BY <3>2
  <2> HIDE DEF S
  <2>4. \A k \in DOMAIN h[n].kids : MatchGood(h, line, end, lang, h[n].kids[k])
    <3> TAKE k \in DOMAIN h[n].kids
    <3>1. h[n].kids[k] \in D
      BY <2>2, ChainFacts
    <3>2. pos[n] < pos[h[n].kids[k]]
      BY <2>2, SoundFacts
    <3> QED
      BY <2>3, <3>1, <3>2
  <2>5. h[n].onext # Nil => MatchGood(h, line, end, lang, h[n].onext)
    <3> HAVE h[n].onext # Nil
    <3>1. h[n].onext \in D
      <4>1. Node(h, D, end, lang, n)
        BY <2>2 DEF Chains
      <4> QED
        BY <4>1, Zenon DEF Node
    <3>2. pos[n] < pos[h[n].onext]
      BY <2>2, SoundFacts
    <3> QED
      BY <2>3, <3>1, <3>2
  <2>6. ASSUME NEW at \in 0..Len(line)
        PROVE  Match(h, line)[n][at] <=> Accepts(h, line, lang[n], end[n], at)
    <3>1. Match(h, line)[n][at] <=> Accepts(h, line, Unit(h, lang, n), n, at)
      BY <1>0, <2>2, <2>4, UnitAccepts
    <3>2. \A o \in 0..Len(line) :
            Onward(h, line, n, o) <=> Accepts(h, line, Rest(h, lang, n), end[n], o)
      BY <1>0, <2>2, <2>5, RestAccepts
    <3>3. /\ Unit(h, lang, n) \in SUBSET Seq(Letters) /\ Rest(h, lang, n) \in SUBSET Seq(Letters)
          /\ lang[n] = Cat(Unit(h, lang, n), Rest(h, lang, n))
      BY <2>2, ChainFacts
    <3>4. \A u \in Unit(h, lang, n) : Read(u, line, at) \subseteq 0..Len(line)
      <4> TAKE u \in Unit(h, lang, n)
      <4>1. u \in Seq(Letters)
        BY <3>3
      <4>2. Len(u) \in Nat
        BY <4>1, LenProperties
      <4> QED
        BY <1>0, <4>2, ReadIn
    <3>5. Accepts(h, line, lang[n], end[n], at)
            <=> \E u \in Unit(h, lang, n) : \E o \in Read(u, line, at) :
                  Accepts(h, line, Rest(h, lang, n), end[n], o)
      <4> DEFINE A == Unit(h, lang, n)
                 B == Rest(h, lang, n)
                 z == end[n]
      <4>1. A \in SUBSET Seq(Letters) /\ B \in SUBSET Seq(Letters) /\ lang[n] = Cat(A, B)
        BY <3>3
      <4> HIDE DEF A, B, z
      <4>2. Accepts(h, line, Cat(A, B), z, at)
              <=> \E u \in A : \E o \in Read(u, line, at) : Accepts(h, line, B, z, o)
        BY <1>0, <4>1, AcceptsCat
      <4>3. Accepts(h, line, lang[n], z, at)
              <=> \E u \in A : \E o \in Read(u, line, at) : Accepts(h, line, B, z, o)
        BY <4>1, <4>2, Zenon
      <4> QED
        BY <4>3 DEF A, B, z
    <3>6. Match(h, line)[n][at]
            <=> \E u \in Unit(h, lang, n) : \E o \in Read(u, line, at) : Onward(h, line, n, o)
      BY <3>1, Zenon DEF Accepts
    <3> QED
      BY <3>2, <3>4, <3>5, <3>6
  <2> QED
    BY <2>2, <2>6 DEF MatchGood
<1> QED
  BY <1>1

\* A word of a chain is one of its first element and one of the rest.
Peeled(h, line, lang, n, at, e, u, o, r) ==
  /\ u \in Unit(h, lang, n) /\ o \in Read(u, line, at) /\ o \in 0..Len(line)
  /\ r \in Rest(h, lang, n) /\ e \in Read(r, line, o)

\* A word of a chain is one of its first element and one of the rest.
LEMMA Peel ==
  ASSUME NEW h, NEW pos, NEW top, Sound(h, pos, top), NEW D, NEW end, NEW lang,
         Chains(h, D, end, lang), NEW line, Len(line) \in Nat, NEW n \in D,
         NEW at \in 0..Len(line), NEW w \in lang[n], NEW e \in Read(w, line, at)
  PROVE  \E u, o, r : Peeled(h, line, lang, n, at, e, u, o, r)
<1> DEFINE A == Unit(h, lang, n)
           B == Rest(h, lang, n)
<1>1. A \in SUBSET Seq(Letters) /\ B \in SUBSET Seq(Letters) /\ lang[n] = Cat(A, B)
  BY ChainFacts
<1> HIDE DEF A, B
<1>2. \E x \in Cat(A, B) : e \in Read(x, line, at)
  BY <1>1
<1>3. PICK u \in A : \E o \in Read(u, line, at) : \E r \in B : e \in Read(r, line, o)
  BY <1>1, <1>2, ReadCat
<1>4. PICK o \in Read(u, line, at) : \E r \in B : e \in Read(r, line, o)
  BY <1>3
<1>5. PICK r \in B : e \in Read(r, line, o)
  BY <1>4
<1>6. o \in 0..Len(line)
  <2>1. u \in Seq(Letters)
    BY <1>1
  <2>2. Len(u) \in Nat
    BY <2>1, LenProperties
  <2> QED
    BY <2>2, ReadIn
<1> QED
  BY <1>5, <1>6 DEF Peeled, A, B

\* No word of the chain takes less of the line than compute_min_length says.
LongEnough(h, line, lang, n) ==
  \A w \in lang[n], at \in 0..Len(line) : \A e \in Read(w, line, at) : MinLength(h)[n] + at <= e

\* A line with a word of the chain is as long as compute_min_length says.
LEMMA LengthAccepts ==
  ASSUME NEW h, NEW pos, NEW top, Sound(h, pos, top), NEW D, NEW end, NEW lang,
         Chains(h, D, end, lang), NEW line, Len(line) \in Nat
  PROVE  \A n \in D : LongEnough(h, line, lang, n)
<1> DEFINE S == {n \in D : ~LongEnough(h, line, lang, n)}
           L == MinLength(h)
<1>0. PICK N \in Nat : N = Len(line)
  OBVIOUS
<1>1. S = {}
  <2> SUFFICES ASSUME S # {}  PROVE FALSE
    OBVIOUS
  <2>1. PICK n \in S : \A m \in S : pos[m] <= pos[n]
    <3>1. S \in SUBSET DOMAIN h
      BY DEF Chains
    <3> HIDE DEF S
    <3> QED
      BY <3>1, Deepest
  <2>2. n \in D /\ n \in DOMAIN h /\ ~LongEnough(h, line, lang, n)
    BY <2>1 DEF Chains
  <2>3. ASSUME NEW m \in D, pos[n] < pos[m]  PROVE LongEnough(h, line, lang, m)
    <3>1. pos[n] \in Nat /\ pos[m] \in Nat
      BY <2>2, SoundFacts DEF Chains
    <3>2. m \notin S
      BY <2>1, <2>3, <3>1
    <3> QED
      BY <3>2
  <2> HIDE DEF S
  <2>4. \A k \in DOMAIN h[n].kids :
          /\ h[n].kids[k] \in D /\ h[n].kids[k] \in DOMAIN h
          /\ LongEnough(h, line, lang, h[n].kids[k])
    <3> TAKE k \in DOMAIN h[n].kids
    <3>1. h[n].kids[k] \in D
      BY <2>2, ChainFacts
    <3>2. pos[n] < pos[h[n].kids[k]] /\ h[n].kids[k] \in DOMAIN h
      BY <2>2, SoundFacts
    <3> QED
      BY <2>3, <3>1, <3>2
  <2>5. L \in [DOMAIN h -> Nat] /\ L[n] = LengthBody(h, L, n)
    BY <2>2, MinLengthIs
  <2> HIDE DEF L
  <2> DEFINE own == CASE h[n].kind = "literal" -> Solid(h[n].text)
                      [] h[n].kind = "group" -> L[h[n].kids[1]]
                      [] h[n].kind = "choice" -> Min({L[h[n].kids[k]] : k \in DOMAIN h[n].kids})
                      [] OTHER -> 0
             rest == IF h[n].onext = Nil THEN 0 ELSE L[h[n].onext]
  <2>6. L[n] = own + rest
    BY <2>5, Zenon DEF LengthBody
  <2>7. ASSUME NEW w \in lang[n], NEW at \in 0..Len(line), NEW e \in Read(w, line, at)
        PROVE  L[n] + at <= e
    <3>1. PICK u, o, r : Peeled(h, line, lang, n, at, e, u, o, r)
      BY <2>2, Peel
    <3>2. /\ u \in Unit(h, lang, n) /\ o \in Read(u, line, at) /\ o \in 0..Len(line)
          /\ r \in Rest(h, lang, n) /\ e \in Read(r, line, o)
      BY <3>1 DEF Peeled
    <3>3. u \in Seq(Letters) /\ r \in Seq(Letters)
      <4>1. Unit(h, lang, n) \in SUBSET Seq(Letters) /\ Rest(h, lang, n) \in SUBSET Seq(Letters)
        BY <2>2, ChainFacts
      <4> QED
        BY <3>2, <4>1
    <3>4. Solid(u) \in Nat /\ Solid(u) + at <= o /\ Solid(r) \in Nat /\ Solid(r) + o <= e
      <4>1. Solid(u) \in Nat /\ Solid(r) \in Nat
        BY <3>3, SolidIs
      <4>2. Solid(u) + at <= o
        BY <3>2, <3>3, SolidLength
      <4>3. Solid(r) + o <= e
        BY <3>2, <3>3, SolidLength
      <4> QED
        BY <4>1, <4>2, <4>3
    <3>5. e \in 0..Len(line)
      <4>1. Len(r) \in Nat
        BY <3>3, LenProperties
      <4> QED
        BY <3>2, <4>1, ReadIn
    <3>6. own \in Nat /\ own + at <= o
      <4>0. h[n].kind \in Kinds
        BY <2>2, SoundFacts
      <4>1. CASE h[n].kind = "literal"
        <5>1. u = h[n].text /\ own = Solid(h[n].text)
          BY <3>2, <4>1, UnitIs
        <5> HIDE DEF own
        <5> QED
          BY <3>4, <5>1
      <4>2. CASE h[n].kind = "group"
        <5>1. own = L[h[n].kids[1]] /\ u \in lang[h[n].kids[1]]
          BY <3>2, <4>2, UnitIs
        <5>2. 1 \in DOMAIN h[n].kids
          BY <2>2, <4>2, ChainFacts
        <5>3. h[n].kids[1] \in DOMAIN h /\ LongEnough(h, line, lang, h[n].kids[1])
          BY <2>4, <5>2
        <5> HIDE DEF own
        <5>4. L[h[n].kids[1]] + at <= o
          BY <3>2, <5>1, <5>3 DEF LongEnough, L
        <5> QED
          BY <2>5, <5>1, <5>3, <5>4
      <4>3. CASE h[n].kind = "choice"
        <5> DEFINE X == {L[h[n].kids[k]] : k \in DOMAIN h[n].kids}
        <5>1. own = Min(X) /\ u \in UNION {lang[h[n].kids[k]] : k \in DOMAIN h[n].kids}
          BY <3>2, <4>3, UnitIs
        <5>2. PICK k \in DOMAIN h[n].kids : u \in lang[h[n].kids[k]]
          BY <5>1
        <5>3. X \in SUBSET Nat /\ L[h[n].kids[k]] \in X
          BY <2>4, <2>5
        <5> HIDE DEF X, own
        <5>4. Min(X) \in X /\ Min(X) <= L[h[n].kids[k]]
          BY <5>3, MinIs
        <5>5. L[h[n].kids[k]] + at <= o
          BY <2>4, <3>2, <5>2 DEF LongEnough, L
        <5>6. Min(X) \in Nat /\ L[h[n].kids[k]] \in Nat
          BY <5>3, <5>4
        <5> QED
          BY <1>0, <3>2, <5>1, <5>4, <5>5, <5>6
      <4>4. CASE h[n].kind \in {"type", "optional"}
        <5>1. own = 0
          BY <4>4
        <5> HIDE DEF own
        <5> QED
          BY <3>2, <3>4, <5>1
      <4> HIDE DEF own
      <4> QED
        BY <4>0, <4>1, <4>2, <4>3, <4>4 DEF Kinds
    <3>7. rest \in Nat /\ rest + o <= e
      <4>1. CASE h[n].onext = Nil
        <5>1. rest = 0
          BY <4>1
        <5> HIDE DEF rest
        <5> QED
          BY <3>2, <3>4, <3>5, <5>1
      <4>2. CASE h[n].onext # Nil
        <5>1. rest = L[h[n].onext]
          BY <4>2
        <5>2. Rest(h, lang, n) = lang[h[n].onext] /\ h[n].onext \in D
          <6>1. Node(h, D, end, lang, n)
            BY <2>2 DEF Chains
          <6> QED
            BY <4>2, <6>1, Zenon DEF Rest, Node
        <5>3. pos[n] < pos[h[n].onext] /\ h[n].onext \in DOMAIN h
          BY <2>2, <4>2, SoundFacts
        <5>4. LongEnough(h, line, lang, h[n].onext)
          BY <2>3, <5>2, <5>3
        <5> HIDE DEF rest
        <5>5. L[h[n].onext] + o <= e
          BY <3>2, <5>2, <5>4 DEF LongEnough, L
        <5> QED
          BY <2>5, <5>1, <5>3, <5>5
      <4> QED
        BY <4>1, <4>2
    <3> HIDE DEF own, rest
    <3> QED
      BY <1>0, <2>6, <3>2, <3>5, <3>6, <3>7
  <2> QED
    BY <2>2, <2>7 DEF LongEnough, L
<1> QED
  BY <1>1

\* The keywords are on a line on which a word of the chain is read: at its
\* start, if they are looked for there, and to its end, if the chain ends it.
Shown(h, line, end, lang, n) ==
  \A w \in lang[n], at \in 0..Len(line) : \A e \in Read(w, line, at) :
    (h[end[n]].next = Nil => e = Len(line)) =>
      \A starting \in BOOLEAN, depth \in Nat :
        (starting => at = 0) => KeywordsPresent(h, line)[n][starting][depth]

\* Shown, said of one line and place.
LEMMA ShownAt ==
  ASSUME NEW h, NEW line, NEW end, NEW lang, NEW n, Shown(h, line, end, lang, n),
         NEW w \in lang[n], NEW at \in 0..Len(line), NEW e \in Read(w, line, at),
         h[end[n]].next = Nil => e = Len(line),
         NEW starting \in BOOLEAN, starting => at = 0, NEW depth \in Nat
  PROVE  KeywordsPresent(h, line)[n][starting][depth]
BY Zenon DEF Shown

\* A line with a word of the chain has the keywords of the chain.
LEMMA KeywordsAccept ==
  ASSUME NEW h, NEW pos, NEW top, Sound(h, pos, top), NEW D, NEW end, NEW lang,
         Chains(h, D, end, lang), NEW line, Trimmed(line)
  PROVE  \A n \in D : Shown(h, line, end, lang, n)
<1> DEFINE S == {n \in D : ~Shown(h, line, end, lang, n)}
           K == KeywordsPresent(h, line)
<1>0. Len(line) \in Nat
  <2>1. line \in Seq(Letters)
    BY DEF Trimmed
  <2> QED
    BY <2>1, LenProperties
<1>1. S = {}
  <2> SUFFICES ASSUME S # {}  PROVE FALSE
    OBVIOUS
  <2>1. PICK n \in S : \A m \in S : pos[m] <= pos[n]
    <3>1. S \in SUBSET DOMAIN h
      BY DEF Chains
    <3> HIDE DEF S
    <3> QED
      BY <3>1, Deepest
  <2>2. n \in D /\ n \in DOMAIN h /\ ~Shown(h, line, end, lang, n)
    BY <2>1 DEF Chains
  <2>3. ASSUME NEW m \in D, pos[n] < pos[m]  PROVE Shown(h, line, end, lang, m)
    <3>1. pos[n] \in Nat /\ pos[m] \in Nat
      BY <2>2, SoundFacts DEF Chains
    <3>2. m \notin S
      BY <2>1, <2>3, <3>1
    <3> QED
      BY <3>2
  <2> HIDE DEF S
  <2>4. \A k \in DOMAIN h[n].kids :
          /\ Shown(h, line, end, lang, h[n].kids[k])
          /\ h[end[h[n].kids[k]]].next = h[n].next
    <3> TAKE k \in DOMAIN h[n].kids
    <3>1. h[n].kids[k] \in D /\ h[end[h[n].kids[k]]].next = h[n].next
      BY <2>2, ChainFacts
    <3>2. pos[n] < pos[h[n].kids[k]]
      BY <2>2, SoundFacts
    <3> QED
      BY <2>3, <3>1, <3>2
  <2>5. Node(h, D, end, lang, n)
    BY <2>2 DEF Chains
  <2>6. ASSUME NEW w \in lang[n], NEW at \in 0..Len(line), NEW e \in Read(w, line, at),
               h[end[n]].next = Nil => e = Len(line),
               NEW starting \in BOOLEAN, starting => at = 0, NEW depth \in Nat
        PROVE  K[n][starting][depth]
    <3>1. PICK u, o, r : Peeled(h, line, lang, n, at, e, u, o, r)
      BY <1>0, <2>2, Peel
    <3>2. /\ u \in Unit(h, lang, n) /\ o \in Read(u, line, at) /\ o \in 0..Len(line)
          /\ r \in Rest(h, lang, n) /\ e \in Read(r, line, o)
      BY <3>1 DEF Peeled
    <3>3. h[n].next = Nil => o = Len(line)
      <4> HAVE h[n].next = Nil
      <4>1. h[n].onext = Nil
        <5> SUFFICES ASSUME h[n].onext # Nil  PROVE FALSE
          OBVIOUS
        <5>1. h[n].next = h[n].onext
          BY <2>5, Zenon DEF Node
        <5> QED
          BY <5>1
      <4>2. end[n] = n /\ Rest(h, lang, n) = {<<>>}
        BY <2>5, <4>1, Zenon DEF Node, Rest
      <4>3. r = <<>>
        BY <3>2, <4>2, Zenon
      <4>4. e \in {o}
        BY <1>0, <3>2, <4>3, ReadEmpty
      <4> QED
        BY <2>6, <4>2, <4>4
    <3> DEFINE own == CASE h[n].kind = "literal" ->
                             KeywordText(h[n].text) = <<>>
                               \/ IsPresent(KeywordText(h[n].text), starting, Ending(h[n]), line)
                        [] h[n].kind = "group" -> K[h[n].kids[1]][starting][depth + 1]
                        [] h[n].kind = "choice" ->
                             depth > 1 \/ \E k \in DOMAIN h[n].kids : K[h[n].kids[k]][starting][depth]
                        [] OTHER -> TRUE
               rest == h[n].onext = Nil \/ K[h[n].onext][FALSE][depth]
    <3>4. K[n][starting][depth] = (own /\ rest)
      <4>1. K[n][starting][depth] = PresentBody(h, line, K, n, starting, depth)
        BY <2>2, KeywordsPresentIs
      <4>2. PresentBody(h, line, K, n, starting, depth) = (own /\ rest)
        BY Zenon DEF PresentBody
      <4> QED
        BY <4>1, <4>2, Zenon
    <3>5. own
      <4>0. h[n].kind \in Kinds
        BY <2>2, SoundFacts
      <4>1. CASE h[n].kind = "literal"
        <5>1. u = h[n].text
          BY <3>2, <4>1, UnitIs
        <5>2. Tidy(h[n].text)
          BY <2>2 DEF Chains
        <5>3. Ending(h[n]) \in BOOLEAN /\ (Ending(h[n]) => o = Len(line))
          BY <3>3 DEF Ending
        <5>4. KeywordText(h[n].text) = <<>>
                \/ IsPresent(KeywordText(h[n].text), starting, Ending(h[n]), line)
          BY <2>6, <3>2, <5>1, <5>2, <5>3, LiteralPresent
        <5> QED
          BY <4>1, <5>4, Zenon
      <4>2. CASE h[n].kind = "group"
        <5>1. u \in lang[h[n].kids[1]]
          BY <3>2, <4>2, UnitIs
        <5>2. 1 \in DOMAIN h[n].kids
          BY <2>2, <4>2, ChainFacts
        <5>3. /\ Shown(h, line, end, lang, h[n].kids[1])
              /\ h[end[h[n].kids[1]]].next = Nil => o = Len(line)
          BY <2>4, <3>3, <5>2
        <5>4. depth + 1 \in Nat
          OBVIOUS
        <5>5. K[h[n].kids[1]][starting][depth + 1]
          BY <2>6, <3>2, <5>1, <5>3, <5>4, ShownAt
        <5> QED
          BY <4>2, <5>5, Zenon
      <4>3. CASE h[n].kind = "choice"
        <5>1. u \in UNION {lang[h[n].kids[k]] : k \in DOMAIN h[n].kids}
          BY <3>2, <4>3, UnitIs
        <5>2. PICK k \in DOMAIN h[n].kids : u \in lang[h[n].kids[k]]
          BY <5>1
        <5>3. /\ Shown(h, line, end, lang, h[n].kids[k])
              /\ h[end[h[n].kids[k]]].next = Nil => o = Len(line)
          BY <2>4, <3>3
        <5>4. K[h[n].kids[k]][starting][depth]
          BY <2>6, <3>2, <5>2, <5>3, ShownAt
        <5> QED
          BY <4>3, <5>4, Zenon
      <4>4. CASE h[n].kind \in {"type", "optional"}
        BY <4>4, Zenon
      <4> QED
        BY <4>0, <4>1, <4>2, <4>3, <4>4, Zenon DEF Kinds
    <3>6. rest
      <4>1. CASE h[n].onext # Nil
        <5>1. Rest(h, lang, n) = lang[h[n].onext] /\ h[n].onext \in D /\ end[h[n].onext] = end[n]
          BY <2>5, <4>1, Zenon DEF Rest, Node
        <5>2. pos[n] < pos[h[n].onext]
          BY <2>2, <4>1, SoundFacts
        <5>3. Shown(h, line, end, lang, h[n].onext)
          BY <2>3, <5>1, <5>2
        <5>4. h[end[h[n].onext]].next = Nil => e = Len(line)
          BY <2>6, <5>1
        <5>5. r \in lang[h[n].onext] /\ FALSE \in BOOLEAN /\ (FALSE => o = 0)
          BY <3>2, <5>1
        <5>6. K[h[n].onext][FALSE][depth]
          BY <3>2, <5>3, <5>4, <5>5, ShownAt
        <5> QED
          BY <5>6
      <4> QED
        BY <4>1
    <3> HIDE DEF own, rest
    <3> QED
      BY <3>4, <3>5, <3>6
  <2> QED
    BY <2>2, <2>6, Zenon DEF Shown
<1> QED
  BY <1>1

-----------------------------------------------------------------------------
(* Chains under construction.  The owner of a chain is the place it hangs  *)
(* from: <<n, k>> is the k-th place of the element n.  A chain that hangs  *)
(* from no element yet is open; the first part of its owner is not         *)
(* positive.                                                               *)

Owners == Int \X Int
OpenOwner(o) == o \in Owners /\ o[1] <= 0

Forest(h, g) ==
  /\ Chains(h, g.live, g.end, g.lang)
  /\ g.up \in [g.live -> Owners]
  /\ \A n \in g.live : g.up[g.end[n]] = g.up[n]
  /\ \A n \in g.live : \A k \in DOMAIN h[n].kids : g.up[h[n].kids[k]] = <<n, k>>

\* An open chain, its owner, and its words.
Open(h, g, o, f, A) ==
  /\ f \in g.live /\ OpenOwner(o) /\ g.up[f] = o
  /\ h[g.end[f]].next = Nil /\ g.lang[f] = A

\* Nothing before b leads to b or behind it.
Below(h, pos, b) ==
  \A n \in DOMAIN h : pos[n] < b =>
    /\ h[n].next # Nil => pos[h[n].next] < b
    /\ h[n].onext # Nil => pos[h[n].onext] < b
    /\ \A k \in DOMAIN h[n].kids : pos[h[n].kids[k]] < b

\* What is not alive does not matter.
LEMMA ForestAgrees ==
  ASSUME NEW h, NEW g, Forest(h, g), NEW i, \A n \in g.live : n \in DOMAIN i /\ i[n] = h[n],
         \A n \in DOMAIN i : Tidy(i[n].text)
  PROVE  /\ Forest(i, g)
         /\ \A o, f, A : Open(h, g, o, f, A) => Open(i, g, o, f, A)
<1> DEFINE D == g.live
           end == g.end
           lang == g.lang
<1>1. /\ D \subseteq DOMAIN h /\ end \in [D -> D] /\ lang \in [D -> SUBSET Seq(Letters)]
      /\ \A n \in D : Node(h, D, end, lang, n)
      /\ g.up \in [D -> Owners]
      /\ \A n \in D : g.up[end[n]] = g.up[n]
      /\ \A n \in D : \A k \in DOMAIN h[n].kids : g.up[h[n].kids[k]] = <<n, k>>
  BY DEF Forest, Chains
<1>2. \A n \in D : n \in DOMAIN i /\ i[n] = h[n]
  OBVIOUS
<1> HIDE DEF D, end, lang
<1>3. ASSUME NEW n \in D  PROVE Node(i, D, end, lang, n)
  <2>1. Node(h, D, end, lang, n) /\ i[n] = h[n]
    BY <1>1, <1>2
  <2>2. \A k \in DOMAIN h[n].kids : h[n].kids[k] \in D /\ h[end[h[n].kids[k]]].next = h[n].next
    BY <2>1, Zenon DEF Node
  <2>3. \A k \in DOMAIN i[n].kids : i[n].kids[k] \in D /\ i[end[i[n].kids[k]]].next = i[n].next
    <3> TAKE k \in DOMAIN i[n].kids
    <3>1. h[n].kids[k] \in D /\ h[end[h[n].kids[k]]].next = h[n].next
      BY <2>1, <2>2
    <3>2. end[h[n].kids[k]] \in D
      BY <1>1, <3>1
    <3>3. i[end[h[n].kids[k]]] = h[end[h[n].kids[k]]]
      BY <1>2, <3>2
    <3> QED
      BY <2>1, <3>1, <3>3
  <2>4. Unit(i, lang, n) = Unit(h, lang, n) /\ Rest(i, lang, n) = Rest(h, lang, n)
    BY <2>1, Zenon DEF Unit, Rest
  <2> QED
    BY <2>1, <2>3, <2>4, Zenon DEF Node
<1>4. Chains(i, D, end, lang)
  <2>1. D \subseteq DOMAIN i
    BY <1>2
  <2> QED
    BY <1>1, <1>3, <2>1, Zenon DEF Chains
<1>5. \A n \in D : \A k \in DOMAIN i[n].kids : g.up[i[n].kids[k]] = <<n, k>>
  <2> TAKE n \in D
  <2>1. i[n] = h[n]
    BY <1>2
  <2> QED
    BY <1>1, <2>1
<1>6. Forest(i, g)
  BY <1>1, <1>4, <1>5, Zenon DEF Forest, D, end, lang
<1>7. ASSUME NEW o, NEW f, NEW A, Open(h, g, o, f, A)  PROVE Open(i, g, o, f, A)
  <2>1. f \in D /\ OpenOwner(o) /\ g.up[f] = o /\ h[end[f]].next = Nil /\ lang[f] = A
    BY <1>7, Zenon DEF Open, D, end, lang
  <2>2. end[f] \in D
    BY <1>1, <2>1
  <2>3. i[end[f]].next = Nil
    BY <1>2, <2>1, <2>2
  <2> QED
    BY <2>1, <2>3, Zenon DEF Open, D, end, lang
<1> QED
  BY <1>6, <1>7, Zenon

\* The end of a chain, in the order of the elements.
LEMMA EndIsLater ==
  ASSUME NEW h, NEW pos, NEW top, Sound(h, pos, top), NEW D, NEW end, NEW lang,
         Chains(h, D, end, lang), NEW b \in Int, Below(h, pos, b), NEW n \in D
  PROVE  /\ end[n] \in D /\ h[end[n]].onext = Nil
         /\ pos[n] <= pos[end[n]] /\ (pos[n] < b => pos[end[n]] < b)
         /\ h[end[n]].next = Nil => LastOf(h)[n] = end[n]
<1> DEFINE Good(m) == /\ h[end[m]].onext = Nil
                      /\ pos[m] <= pos[end[m]] /\ (pos[m] < b => pos[end[m]] < b)
                      /\ h[end[m]].next = Nil => LastOf(h)[m] = end[m]
           S == {m \in D : ~Good(m)}
<1>0. D \subseteq DOMAIN h /\ end \in [D -> D] /\ \A m \in D : Node(h, D, end, lang, m)
  BY DEF Chains
<1>1. S = {}
  <2> SUFFICES ASSUME S # {}  PROVE FALSE
    OBVIOUS
  <2>1. PICK m \in S : \A i \in S : pos[i] <= pos[m]
    <3>1. S \in SUBSET DOMAIN h
      BY <1>0
    <3> HIDE DEF S
    <3> QED
      BY <3>1, Deepest
  <2>2. m \in D /\ m \in DOMAIN h /\ ~Good(m) /\ pos[m] \in Nat
    BY <1>0, <2>1, SoundFacts
  <2>3. Node(h, D, end, lang, m)
    BY <1>0, <2>2
  <2>4. LastOf(h)[m] = IF h[m].next = Nil THEN m ELSE LastOf(h)[h[m].next]
    BY <2>2, LastOfIs
  <2>5. CASE h[m].onext = Nil
    <3>1. end[m] = m
      BY <2>3, <2>5, Zenon DEF Node
    <3>2. Good(m)
      BY <2>2, <2>4, <2>5, <3>1
    <3> QED
      BY <2>2, <3>2
  <2>6. CASE h[m].onext # Nil
    <3> DEFINE i == h[m].onext
    <3>1. i \in D /\ h[m].next = i /\ end[i] = end[m]
      BY <2>3, <2>6, Zenon DEF Node
    <3>2. pos[m] < pos[i] /\ pos[i] \in Nat
      BY <2>2, <2>6, <3>1, SoundFacts, <1>0
    <3>3. i \notin S
      BY <2>1, <2>2, <3>2
    <3>4. Good(i)
      BY <3>1, <3>3
    <3>5. pos[m] < b => pos[i] < b
      BY <2>2, <2>6 DEF Below
    <3>6. LastOf(h)[m] = LastOf(h)[i]
      BY <2>4, <2>6, <3>1
    <3>7. pos[end[m]] \in Nat
      BY <1>0, <2>2, SoundFacts
    <3> HIDE DEF i
    <3>8. Good(m)
      BY <2>2, <3>1, <3>2, <3>4, <3>5, <3>6, <3>7
    <3> QED
      BY <2>2, <3>8
  <2> QED
    BY <2>5, <2>6
<1>2. Good(n)
  BY <1>1
<1> QED
  BY <1>0, <1>2

\* The ends that a link behind x is written to.
EndsGood(h, g, x, y) ==
  /\ y \in g.live /\ h[y].next = Nil /\ h[y].onext = Nil
  /\ y = x \/ \E z \in OpenEnds(h)[x] : \E k \in DOMAIN h[z].kids : y = g.end[h[z].kids[k]]
  /\ \A k \in DOMAIN h[y].kids : g.end[h[y].kids[k]] \in OpenEnds(h)[x]

EndsPlaced(pos, b, x, y) == pos[x] <= pos[y] /\ (pos[x] < b => pos[y] < b)

\* The open ends of the last element of a chain end it or a chain inside it.
LEMMA EndsAreOpen ==
  ASSUME NEW h, NEW pos, NEW top, Sound(h, pos, top), NEW g, Forest(h, g),
         NEW b \in Int, Below(h, pos, b), NEW n \in g.live, h[n].next = Nil
  PROVE  /\ n \in OpenEnds(h)[n]
         /\ \A y \in OpenEnds(h)[n] : EndsGood(h, g, n, y) /\ EndsPlaced(pos, b, n, y)
<1> DEFINE D == g.live
           E == OpenEnds(h)
           Good(x) == /\ x \in E[x]
                      /\ \A y \in E[x] : EndsGood(h, g, x, y) /\ EndsPlaced(pos, b, x, y)
           S == {x \in D : h[x].next = Nil /\ ~Good(x)}
<1>0. /\ Chains(h, D, g.end, g.lang) /\ D \subseteq DOMAIN h
      /\ \A m \in D : Node(h, D, g.end, g.lang, m)
  BY DEF Forest, Chains
<1>1. S = {}
  <2> SUFFICES ASSUME S # {}  PROVE FALSE
    OBVIOUS
  <2>1. PICK x \in S : \A i \in S : pos[i] <= pos[x]
    <3>1. S \in SUBSET DOMAIN h
      BY <1>0
    <3> HIDE DEF S
    <3> QED
      BY <3>1, Deepest
  <2>2. x \in D /\ x \in DOMAIN h /\ h[x].next = Nil /\ ~Good(x) /\ pos[x] \in Nat
    BY <1>0, <2>1, SoundFacts
  <2> DEFINE kid(k) == h[x].kids[k]
             last(k) == g.end[kid(k)]
  <2>3. ASSUME NEW k \in DOMAIN h[x].kids
        PROVE  /\ last(k) \in D /\ h[last(k)].next = Nil /\ LastOf(h)[kid(k)] = last(k)
               /\ pos[x] < pos[last(k)] /\ (pos[x] < b => pos[last(k)] < b)
               /\ pos[last(k)] \in Nat
    <3>1. kid(k) \in D /\ h[last(k)].next = Nil
      BY <1>0, <2>2, ChainFacts
    <3>2. pos[x] < pos[kid(k)] /\ pos[kid(k)] \in Nat
      BY <1>0, <2>2, <3>1, SoundFacts
    <3>3. pos[x] < b => pos[kid(k)] < b
      BY <2>2 DEF Below
    <3>4. /\ last(k) \in D /\ pos[kid(k)] <= pos[last(k)] /\ (pos[kid(k)] < b => pos[last(k)] < b)
          /\ h[last(k)].next = Nil => LastOf(h)[kid(k)] = last(k)
      BY <1>0, <3>1, EndIsLater
    <3>5. pos[last(k)] \in Nat
      BY <1>0, <3>4, SoundFacts, SMTT(30)
    <3> HIDE DEF kid, last
    <3> QED
      BY <2>2, <3>1, <3>2, <3>3, <3>4, <3>5
  <2>4. \A y : y \in E[x] <=> y = x \/ \E k \in DOMAIN h[x].kids : y \in E[last(k)]
    <3>1. E[x] = {x} \cup UNION {E[LastOf(h)[kid(k)]] : k \in DOMAIN h[x].kids}
      BY <2>2, OpenEndsIs
    <3>2. \A y : y \in E[x] <=> y = x \/ \E k \in DOMAIN h[x].kids : y \in E[LastOf(h)[kid(k)]]
      <4> HIDE DEF E, kid
      <4> QED
        BY <3>1
    <3> QED
      BY <2>3, <3>2
  <2>5. ASSUME NEW k \in DOMAIN h[x].kids  PROVE Good(last(k))
    <3>1. last(k) \in D /\ h[last(k)].next = Nil /\ pos[x] < pos[last(k)] /\ pos[last(k)] \in Nat
      BY <2>3
    <3> HIDE DEF last, Good
    <3>2. last(k) \notin S
      BY <2>1, <2>2, <3>1
    <3> QED
      BY <3>1, <3>2
  <2>6. x \in E[x]
    BY <2>4
  <2>7. ASSUME NEW y \in E[x]  PROVE EndsGood(h, g, x, y) /\ EndsPlaced(pos, b, x, y)
    <3>1. CASE y = x
      <4>1. h[x].onext = Nil
        <5> SUFFICES ASSUME h[x].onext # Nil  PROVE FALSE
          OBVIOUS
        <5>1. h[x].next = h[x].onext
          BY <1>0, <2>2, Zenon DEF Node
        <5> QED
          BY <2>2, <5>1
      <4>2. \A k \in DOMAIN h[x].kids : last(k) \in E[x]
        BY <2>4, <2>5
      <4>3. EndsGood(h, g, x, y)
        BY <2>2, <3>1, <4>1, <4>2 DEF EndsGood
      <4> QED
        BY <2>2, <3>1, <4>3 DEF EndsPlaced
    <3>2. CASE y # x
      <4>1. PICK k \in DOMAIN h[x].kids : y \in E[last(k)]
        BY <2>4, <3>2
      <4>2. EndsGood(h, g, last(k), y) /\ EndsPlaced(pos, b, last(k), y)
        BY <2>5, <4>1
      <4>3. \A z \in E[last(k)] : z \in E[x]
        BY <2>4
      <4>4. /\ y \in D /\ h[y].next = Nil /\ h[y].onext = Nil
            /\ y = last(k) \/ \E z \in E[last(k)] : \E j \in DOMAIN h[z].kids : y = g.end[h[z].kids[j]]
            /\ \A j \in DOMAIN h[y].kids : g.end[h[y].kids[j]] \in E[last(k)]
        BY <4>2 DEF EndsGood
      <4>5. \E z \in E[x] : \E j \in DOMAIN h[z].kids : y = g.end[h[z].kids[j]]
        <5>1. CASE y = last(k)
          BY <2>6, <5>1
        <5>2. CASE y # last(k)
          BY <4>3, <4>4, <5>2
        <5> QED
          BY <5>1, <5>2
      <4>6. EndsGood(h, g, x, y)
        BY <4>3, <4>4, <4>5 DEF EndsGood
      <4>7. EndsPlaced(pos, b, x, y)
        <5>1. pos[y] \in Nat
          <6>1. y \in D
            BY <4>4
          <6> HIDE DEF E, Good, S, kid, last
          <6>2. y \in DOMAIN h
            BY <1>0, <6>1
          <6>3. top \in Nat /\ pos[y] \in 0..top
            BY <6>2, SoundFacts
          <6> QED
            BY <6>3
        <5>2. pos[x] < pos[last(k)] /\ (pos[x] < b => pos[last(k)] < b) /\ pos[last(k)] \in Nat
          BY <2>3
        <5>3. pos[last(k)] <= pos[y] /\ (pos[last(k)] < b => pos[y] < b)
          BY <4>2 DEF EndsPlaced
        <5> HIDE DEF last
        <5> QED
          BY <2>2, <5>1, <5>2, <5>3 DEF EndsPlaced
      <4> QED
        BY <4>6, <4>7
    <3> QED
      BY <3>1, <3>2
  <2> QED
    BY <2>2, <2>6, <2>7
<1>2. Good(n)
  BY <1>1
<1> QED
  BY <1>2

Joined(A, B, x) == \E a \in A : \E b \in B : x = a \o b

\* Words joined.
LEMMA CatIn ==
  ASSUME NEW A, NEW B, NEW x
  PROVE  x \in Cat(A, B) <=> Joined(A, B, x)
<1>1. x \in Cat(A, B) <=> \E a \in A : \E b \in B : x = a \o b
  BY DEF Cat
<1> QED
  BY <1>1, Zenon DEF Joined

Neutral(A, z) == \A a \in A : a \o z = a /\ z \o a = a
Regrouped(A, B, C) == \A a \in A, b \in B, c \in C : (a \o b) \o c = a \o (b \o c)
JoinedIn(A, B, L) == \A a \in A, b \in B : a \o b \in L

\* A single neutral word changes nothing.
LEMMA CatOfUnit ==
  ASSUME NEW A, NEW z, Neutral(A, z)
  PROVE  Cat(A, {z}) = A /\ Cat({z}, A) = A
<1>1. ASSUME NEW x  PROVE x \in Cat(A, {z}) <=> x \in A
  <2>1. x \in Cat(A, {z}) <=> Joined(A, {z}, x)
    BY CatIn, Zenon
  <2> QED
    BY <2>1, Zenon DEF Neutral, Joined
<1>2. ASSUME NEW x  PROVE x \in Cat({z}, A) <=> x \in A
  <2>1. x \in Cat({z}, A) <=> Joined({z}, A, x)
    BY CatIn, Zenon
  <2> QED
    BY <2>1, Zenon DEF Neutral, Joined
<1> QED
  BY <1>1, <1>2, Zenon

\* Concatenations of sets of words regroup as those of the words do.
LEMMA CatRegroups ==
  ASSUME NEW A, NEW B, NEW C, Regrouped(A, B, C)
  PROVE  Cat(Cat(A, B), C) = Cat(A, Cat(B, C))
<1>1. ASSUME NEW x \in Cat(Cat(A, B), C)  PROVE x \in Cat(A, Cat(B, C))
  <2>1. Joined(Cat(A, B), C, x)
    BY CatIn, Zenon
  <2>2. PICK y \in Cat(A, B), c \in C : x = y \o c
    BY <2>1, Zenon DEF Joined
  <2>3. Joined(A, B, y)
    BY CatIn, Zenon
  <2>4. PICK a \in A, b \in B : y = a \o b
    BY <2>3, Zenon DEF Joined
  <2>5. x = a \o (b \o c)
    BY <2>2, <2>4, Zenon DEF Regrouped
  <2>6. Joined(B, C, b \o c)
    BY Zenon DEF Joined
  <2>7. b \o c \in Cat(B, C)
    BY <2>6, CatIn, Zenon
  <2>8. Joined(A, Cat(B, C), x)
    BY <2>5, <2>7, Zenon DEF Joined
  <2> QED
    BY <2>8, CatIn, Zenon
<1>2. ASSUME NEW x \in Cat(A, Cat(B, C))  PROVE x \in Cat(Cat(A, B), C)
  <2>1. Joined(A, Cat(B, C), x)
    BY CatIn, Zenon
  <2>2. PICK a \in A, y \in Cat(B, C) : x = a \o y
    BY <2>1, Zenon DEF Joined
  <2>3. Joined(B, C, y)
    BY CatIn, Zenon
  <2>4. PICK b \in B, c \in C : y = b \o c
    BY <2>3, Zenon DEF Joined
  <2>5. x = (a \o b) \o c
    BY <2>2, <2>4, Zenon DEF Regrouped
  <2>6. Joined(A, B, a \o b)
    BY Zenon DEF Joined
  <2>7. a \o b \in Cat(A, B)
    BY <2>6, CatIn, Zenon
  <2>8. Joined(Cat(A, B), C, x)
    BY <2>5, <2>7, Zenon DEF Joined
  <2> QED
    BY <2>8, CatIn, Zenon
<1> QED
  BY <1>1, <1>2, Zenon

\* Words of sequences concatenate to words.
LEMMA CatOfTyped ==
  ASSUME NEW A, NEW B, NEW L, JoinedIn(A, B, L)
  PROVE  Cat(A, B) \in SUBSET L
<1>1. ASSUME NEW x \in Cat(A, B)  PROVE x \in L
  <2>1. Joined(A, B, x)
    BY CatIn, Zenon
  <2> QED
    BY <2>1, Zenon DEF JoinedIn, Joined
<1> QED
  BY <1>1

\* The empty word is neutral.
LEMMA CatEmpty ==
  ASSUME NEW A \in SUBSET Seq(Letters)
  PROVE  Cat(A, {<<>>}) = A /\ Cat({<<>>}, A) = A
<1>1. ASSUME NEW a \in A  PROVE a \o <<>> = a /\ <<>> \o a = a
  <2>1. a \in Seq(Letters)
    OBVIOUS
  <2> QED
    BY <2>1, ConcatEmptySeq
<1>2. Neutral(A, <<>>)
  BY <1>1, Zenon DEF Neutral
<1> QED
  BY <1>2, CatOfUnit, Zenon

\* Concatenation is associative.
LEMMA CatAssociates ==
  ASSUME NEW A \in SUBSET Seq(Letters), NEW B \in SUBSET Seq(Letters), NEW C \in SUBSET Seq(Letters)
  PROVE  Cat(Cat(A, B), C) = Cat(A, Cat(B, C))
<1>1. ASSUME NEW a \in A, NEW b \in B, NEW c \in C  PROVE (a \o b) \o c = a \o (b \o c)
  <2>1. a \in Seq(Letters) /\ b \in Seq(Letters) /\ c \in Seq(Letters)
    OBVIOUS
  <2> QED
    BY <2>1, ConcatAssociative
<1>2. Regrouped(A, B, C)
  BY <1>1 DEF Regrouped
<1> QED
  BY <1>2, CatRegroups

\* A concatenation is a set of words.
LEMMA CatType ==
  ASSUME NEW A \in SUBSET Seq(Letters), NEW B \in SUBSET Seq(Letters)
  PROVE  Cat(A, B) \in SUBSET Seq(Letters)
<1>1. ASSUME NEW a \in A, NEW b \in B  PROVE a \o b \in Seq(Letters)
  <2>1. a \in Seq(Letters) /\ b \in Seq(Letters)
    OBVIOUS
  <2> QED
    BY <2>1, ConcatProperties
<1>2. JoinedIn(A, B, Seq(Letters))
  BY <1>1, Zenon DEF JoinedIn
<1> QED
  BY <1>2, CatOfTyped, Zenon

\* The heap i is h with n linked behind e, at all the ends E.
LinkedBehind(h, i, E, e, n) ==
  /\ DOMAIN i = DOMAIN h
  /\ \A m \in DOMAIN h :
       /\ i[m].kind = h[m].kind /\ i[m].text = h[m].text /\ i[m].kids = h[m].kids
       /\ m \in E => i[m].next = n
       /\ m \notin E => i[m] = h[m]
       /\ m = e => i[m].onext = n
       /\ m # e => i[m].onext = h[m].onext

\* Linked, element by element: the open ends get the link, the last one both.
LEMMA LinkedIs ==
  ASSUME NEW h \in Seq(Elements), NEW f, NEW n \in Nat, NEW e \in DOMAIN h, e = LastOf(h)[f],
         e \in OpenEnds(h)[e]
  PROVE  /\ LinkedBehind(h, Linked(h, f, n), OpenEnds(h)[e], e, n)
         /\ Linked(h, f, n) \in Seq(Elements)
<1> DEFINE E == OpenEnds(h)[e]
           j == SetNext(h, e, n)
           i == Linked(h, f, n)
<1>0. PICK N \in Nat : N = Len(h) /\ DOMAIN h = 1..N
  BY LenProperties
<1>1. \A m \in DOMAIN h : h[m] \in Elements
  BY <1>0
<1>2. i = [j EXCEPT ![e].onext = n]
  BY Zenon DEF Linked
<1>3. /\ DOMAIN j = DOMAIN h
      /\ \A m \in DOMAIN h : j[m] = IF m \in E THEN [h[m] EXCEPT !.next = n] ELSE h[m]
  <2> HIDE DEF E
  <2>1. j = [m \in DOMAIN h |-> IF m \in E THEN [h[m] EXCEPT !.next = n] ELSE h[m]]
    BY Zenon DEF SetNext, E
  <2> HIDE DEF j
  <2> QED
    BY <2>1
<1> HIDE DEF i, j, E
<1>4. /\ DOMAIN i = DOMAIN h
      /\ \A m \in DOMAIN h : i[m] = IF m = e THEN [j[m] EXCEPT !.onext = n] ELSE j[m]
  BY <1>2, <1>3
<1>5. ASSUME NEW m \in DOMAIN h
      PROVE  /\ i[m].kind = h[m].kind /\ i[m].text = h[m].text /\ i[m].kids = h[m].kids
             /\ m \in E => i[m].next = n
             /\ m \notin E => i[m] = h[m]
             /\ m = e => i[m].onext = n
             /\ m # e => i[m].onext = h[m].onext
             /\ i[m] \in Elements
  <2>1. h[m] \in Elements
    BY <1>1
  <2>2. PICK d : d = h[m]
    OBVIOUS
  <2>3. j[m] = IF m \in E THEN [d EXCEPT !.next = n] ELSE d
    BY <1>3, <2>2
  <2>4. i[m] = IF m = e THEN [j[m] EXCEPT !.onext = n] ELSE j[m]
    BY <1>4
  <2>5. e \in E
    BY DEF E
  <2>6. CASE m = e
    <3>1. i[m] = [[d EXCEPT !.next = n] EXCEPT !.onext = n]
      BY <2>3, <2>4, <2>5, <2>6
    <3> QED
      BY <2>1, <2>2, <2>5, <2>6, <3>1 DEF Elements
  <2>7. CASE m # e /\ m \in E
    <3>1. i[m] = [d EXCEPT !.next = n]
      BY <2>3, <2>4, <2>7
    <3> QED
      BY <2>1, <2>2, <2>7, <3>1 DEF Elements
  <2>8. CASE m # e /\ m \notin E
    <3>1. i[m] = d
      BY <2>3, <2>4, <2>8
    <3> QED
      BY <2>1, <2>2, <2>8, <3>1
  <2> QED
    BY <2>6, <2>7, <2>8
<1>6. i \in Seq(Elements)
  <2>1. i = [m \in DOMAIN h |-> i[m]]
    BY <1>2, <1>3, <1>4
  <2>2. i = [m \in 1..N |-> i[m]]
    BY <1>0, <2>1
  <2>3. i \in [1..N -> Elements]
    BY <1>0, <1>5, <2>2
  <2> QED
    BY <2>3
<1>7. LinkedBehind(h, i, E, e, n)
  BY <1>4, <1>5 DEF LinkedBehind
<1> QED
  BY <1>6, <1>7 DEF i, E

\* What a link of n behind the chain that ends at e finds, E being the open
\* ends of e: e is owned by o, and n, a chain of one element, by q.
Linkable(h, g, i, pos, E, e, n, o, q) ==
  /\ e \in g.live /\ g.up[e] = o /\ g.end[e] = e /\ h[e].onext = Nil
  /\ n \in g.live /\ g.up[n] = q /\ g.end[n] = n /\ h[n].next = Nil
  /\ OpenOwner(o) /\ OpenOwner(q) /\ o # q
  /\ LinkedBehind(h, i, E, e, n) /\ e \in E
  /\ E = OpenEnds(h)[e]
  /\ \A y \in E : EndsGood(h, g, e, y) /\ pos[e] <= pos[y] /\ pos[y] < pos[n]

\* What the patches of a link need of the heap.
LEMMA LinkIsReady ==
  ASSUME NEW h, NEW pos, NEW top, Sound(h, pos, top), NEW g, Forest(h, g),
         NEW o, NEW f, NEW A, Open(h, g, o, f, A), NEW q, NEW n, NEW U, Open(h, g, q, n, U),
         o # q, g.end[n] = n,
         NEW b \in Int, Below(h, pos, b), pos[f] < b, b <= pos[n]
  PROVE  \E e \in g.live :
           /\ Linkable(h, g, Linked(h, f, n), pos, OpenEnds(h)[e], e, n, o, q)
           /\ g.end[f] = e /\ pos[f] <= pos[e] /\ Linked(h, f, n) \in Seq(Elements)
<1> DEFINE e == g.end[f]
           E == OpenEnds(h)[e]
           i == Linked(h, f, n)
<1>1. /\ Chains(h, g.live, g.end, g.lang) /\ g.live \subseteq DOMAIN h
      /\ g.end \in [g.live -> g.live] /\ \A m \in g.live : Node(h, g.live, g.end, g.lang, m)
      /\ \A m \in g.live : g.up[g.end[m]] = g.up[m]
  BY DEF Forest, Chains
<1>2. /\ f \in g.live /\ g.up[f] = o /\ OpenOwner(o) /\ h[e].next = Nil
      /\ n \in g.live /\ g.up[n] = q /\ OpenOwner(q) /\ h[n].next = Nil
  BY DEF Open
<1>3. /\ e \in g.live /\ h[e].onext = Nil /\ pos[f] <= pos[e] /\ pos[e] < b /\ LastOf(h)[f] = e
  BY <1>1, <1>2, EndIsLater
<1>4. g.up[e] = o
  BY <1>1, <1>2
<1>5. g.end[e] = e
  BY <1>1, <1>3, Zenon DEF Node
<1>6. e \in E /\ \A y \in E : EndsGood(h, g, e, y) /\ EndsPlaced(pos, b, e, y)
  BY <1>2, <1>3, EndsAreOpen
<1>7. e \in DOMAIN h /\ n \in DOMAIN h /\ n \in Nat /\ h \in Seq(Elements) /\ pos[n] \in Nat /\ pos[e] \in Nat
  BY <1>1, <1>2, <1>3, SoundFacts, SMTT(30) DEF Sound
<1>8. LinkedBehind(h, i, E, e, n) /\ i \in Seq(Elements)
  BY <1>3, <1>6, <1>7, LinkedIs
<1>9. ASSUME NEW y \in E  PROVE EndsGood(h, g, e, y) /\ pos[e] <= pos[y] /\ pos[y] < pos[n]
  <2>1. EndsGood(h, g, e, y) /\ pos[e] <= pos[y] /\ pos[y] < b
    BY <1>3, <1>6 DEF EndsPlaced
  <2>2. y \in g.live
    BY <2>1 DEF EndsGood
  <2>3. pos[y] \in Nat
    BY <1>1, <2>2, SoundFacts
  <2> QED
    BY <1>7, <2>1, <2>3
<1>11. E = OpenEnds(h)[e]
  OBVIOUS
<1> HIDE DEF e, E, i
<1>10. Linkable(h, g, i, pos, E, e, n, o, q)
  BY <1>2, <1>3, <1>4, <1>5, <1>6, <1>8, <1>9, <1>11, Zenon DEF Linkable
<1> QED
  BY <1>3, <1>8, <1>10, Zenon DEF e, E, i

\* The order of the elements survives the link.
LEMMA LinkIsSound ==
  ASSUME NEW h, NEW pos, NEW top, Sound(h, pos, top), NEW g, Forest(h, g), NEW i \in Seq(Elements),
         NEW E, NEW e, NEW n, NEW o, NEW q, Linkable(h, g, i, pos, E, e, n, o, q)
  PROVE  /\ Sound(i, pos, top) /\ DOMAIN i = DOMAIN h
         /\ \A m \in DOMAIN h : /\ i[m].kind = h[m].kind /\ i[m].text = h[m].text /\ i[m].kids = h[m].kids
                                /\ m \notin g.live => i[m] = h[m]
         /\ \A b \in Int : Below(h, pos, b) /\ (b <= pos[e] \/ pos[n] < b) => Below(i, pos, b)
<1>1. /\ DOMAIN i = DOMAIN h
      /\ \A m \in DOMAIN h :
           /\ i[m].kind = h[m].kind /\ i[m].text = h[m].text /\ i[m].kids = h[m].kids
           /\ m \in E => i[m].next = n
           /\ m \notin E => i[m] = h[m]
           /\ m = e => i[m].onext = n
           /\ m # e => i[m].onext = h[m].onext
  BY DEF Linkable, LinkedBehind
<1>2. e \in E /\ \A y \in E : y \in g.live /\ pos[e] <= pos[y] /\ pos[y] < pos[n]
  BY DEF Linkable, EndsGood
<1>3. g.live \subseteq DOMAIN h /\ n \in DOMAIN h
  BY DEF Linkable, Forest, Chains
<1>4. pos \in [DOMAIN h -> 0..top] /\ top \in Nat
  BY DEF Sound
<1>5. ASSUME NEW m \in DOMAIN i
      PROVE  /\ KidCount(i[m])
             /\ i[m].next # Nil => Later(i, pos, m, i[m].next)
             /\ i[m].onext # Nil => Later(i, pos, m, i[m].onext)
             /\ \A k \in DOMAIN i[m].kids : Later(i, pos, m, i[m].kids[k])
  <2>1. /\ KidCount(h[m]) /\ m \in DOMAIN h
        /\ h[m].next # Nil => Later(h, pos, m, h[m].next)
        /\ h[m].onext # Nil => Later(h, pos, m, h[m].onext)
        /\ \A k \in DOMAIN h[m].kids : Later(h, pos, m, h[m].kids[k])
    BY <1>1 DEF Sound
  <2>2. \A x : Later(i, pos, m, x) <=> Later(h, pos, m, x)
    BY <1>1 DEF Later
  <2>3. m \in E => Later(i, pos, m, n)
    BY <1>1, <1>2, <1>3 DEF Later
  <2>4. KidCount(i[m])
    BY <1>1, <2>1 DEF KidCount
  <2>5. i[m].next # Nil => Later(i, pos, m, i[m].next)
    BY <1>1, <2>1, <2>2, <2>3
  <2>6. i[m].onext # Nil => Later(i, pos, m, i[m].onext)
    BY <1>1, <1>2, <2>1, <2>2, <2>3
  <2>7. \A k \in DOMAIN i[m].kids : Later(i, pos, m, i[m].kids[k])
    BY <1>1, <2>1, <2>2
  <2> QED
    BY <2>4, <2>5, <2>6, <2>7
<1>6. Sound(i, pos, top)
  BY <1>1, <1>4, <1>5 DEF Sound
<1>7. ASSUME NEW b \in Int, Below(h, pos, b), b <= pos[e] \/ pos[n] < b  PROVE Below(i, pos, b)
  <2> SUFFICES ASSUME NEW m \in DOMAIN i, pos[m] < b
               PROVE  /\ i[m].next # Nil => pos[i[m].next] < b
                      /\ i[m].onext # Nil => pos[i[m].onext] < b
                      /\ \A k \in DOMAIN i[m].kids : pos[i[m].kids[k]] < b
    BY DEF Below
  <2>1. /\ h[m].next # Nil => pos[h[m].next] < b
        /\ h[m].onext # Nil => pos[h[m].onext] < b
        /\ \A k \in DOMAIN h[m].kids : pos[h[m].kids[k]] < b
    BY <1>1, <1>7 DEF Below
  <2>2. m \in E => pos[n] < b
    <3> SUFFICES ASSUME m \in E  PROVE pos[n] < b
      OBVIOUS
    <3>1. pos[e] <= pos[m] /\ e \in DOMAIN h /\ m \in DOMAIN h
      BY <1>1, <1>2, <1>3
    <3>2. pos[e] \in Nat /\ pos[m] \in Nat /\ pos[n] \in Nat
      BY <1>3, <1>4, <3>1
    <3> QED
      BY <1>7, <3>1, <3>2
  <2> QED
    BY <1>1, <1>2, <2>1, <2>2
<1> QED
  BY <1>1, <1>2, <1>6, <1>7

\* The ghosts behind a link of n, owned by q, to the chain of o that ends at e.
Extended(g, e, n, o, q) ==
  [live |-> g.live,
   up   |-> [m \in g.live |-> IF g.up[m] = q THEN o ELSE g.up[m]],
   end  |-> [m \in g.live |-> IF g.end[m] = e THEN n ELSE g.end[m]],
   lang |-> [m \in g.live |-> IF g.end[m] = e THEN Cat(g.lang[m], g.lang[n]) ELSE g.lang[m]]]

\* The ghosts of a chain that has been extended.
LEMMA ExtendedIs ==
  ASSUME NEW g, NEW e, NEW n, NEW o, NEW q
  PROVE  /\ Extended(g, e, n, o, q).live = g.live
         /\ \A m \in g.live :
              /\ Extended(g, e, n, o, q).up[m] = (IF g.up[m] = q THEN o ELSE g.up[m])
              /\ g.end[m] = e => Extended(g, e, n, o, q).end[m] = n
              /\ g.end[m] # e => Extended(g, e, n, o, q).end[m] = g.end[m]
              /\ g.end[m] = e => Extended(g, e, n, o, q).lang[m] = Cat(g.lang[m], g.lang[n])
              /\ g.end[m] # e => Extended(g, e, n, o, q).lang[m] = g.lang[m]
BY DEF Extended

\* An element of a chain behind the link.
LEMMA ExtendedNode ==
  ASSUME NEW h, NEW pos, NEW top, Sound(h, pos, top), NEW g, Forest(h, g), NEW i,
         NEW E, NEW e, NEW n, NEW o, NEW q, Linkable(h, g, i, pos, E, e, n, o, q),
         NEW m \in g.live, NEW x, x = Extended(g, e, n, o, q)
  PROVE  Node(i, g.live, x.end, x.lang, m)
<1> DEFINE D == g.live
           end == g.end
           lang == g.lang
           Y == x.end
           L == x.lang
<1>1. /\ Chains(h, D, end, lang) /\ D \subseteq DOMAIN h /\ end \in [D -> D]
      /\ lang \in [D -> SUBSET Seq(Letters)]
      /\ Node(h, D, end, lang, m) /\ m \in DOMAIN h
      /\ \A y \in D : g.up[end[y]] = g.up[y]
      /\ \A y \in D : \A k \in DOMAIN h[y].kids : g.up[h[y].kids[k]] = <<y, k>>
  BY DEF Forest, Chains
<1>2. \A y \in D : /\ end[y] = e => Y[y] = n /\ L[y] = Cat(lang[y], lang[n])
                   /\ end[y] # e => Y[y] = end[y] /\ L[y] = lang[y]
  BY ExtendedIs
<1>3. /\ e \in D /\ g.up[e] = o /\ end[e] = e /\ h[e].onext = Nil
      /\ n \in D /\ g.up[n] = q /\ end[n] = n /\ h[n].next = Nil
      /\ OpenOwner(o) /\ OpenOwner(q) /\ o # q /\ e \in E
      /\ \A y \in E : EndsGood(h, g, e, y)
      /\ E = OpenEnds(h)[e]
  BY DEF Linkable
<1>4. \A y \in DOMAIN h :
           /\ i[y].kind = h[y].kind /\ i[y].text = h[y].text /\ i[y].kids = h[y].kids
           /\ y \in E => i[y].next = n
           /\ y \notin E => i[y] = h[y]
           /\ y = e => i[y].onext = n
           /\ y # e => i[y].onext = h[y].onext
  BY DEF Linkable, LinkedBehind
<1>5. \A y \in D : y \in Nat /\ y # 0
  <2> TAKE y \in D
  <2>1. y \in 1..Len(h) /\ Len(h) \in Nat
    BY <1>1, SoundFacts
  <2> QED
    BY <2>1
<1>6. \A y \in D : \A k : o # <<y, k>> /\ q # <<y, k>>
  BY <1>3, <1>5 DEF OpenOwner
<1>7. n # e
  BY <1>3
<1>8. ASSUME NEW k \in DOMAIN h[m].kids
      PROVE  /\ h[m].kids[k] \in D /\ h[end[h[m].kids[k]]].next = h[m].next
             /\ end[h[m].kids[k]] \in D /\ end[h[m].kids[k]] # e
             /\ g.up[end[h[m].kids[k]]] = <<m, k>>
  <2>1. h[m].kids[k] \in D /\ h[end[h[m].kids[k]]].next = h[m].next
    BY <1>1, ChainFacts
  <2>2. end[h[m].kids[k]] \in D /\ g.up[end[h[m].kids[k]]] = <<m, k>>
    BY <1>1, <2>1
  <2>3. end[h[m].kids[k]] # e
    BY <1>3, <1>6, <2>2
  <2> QED
    BY <2>1, <2>2, <2>3
<1> HIDE DEF D, end, lang, Y, L
<1>9. i[m].onext = Nil => Y[m] = m
  <2> SUFFICES ASSUME i[m].onext = Nil  PROVE Y[m] = m
    OBVIOUS
  <2>1. m # e
    <3>1. n # Nil
      BY <1>3, <1>5 DEF Nil
    <3> QED
      BY <1>1, <1>4, <3>1
  <2>2. h[m].onext = Nil
    BY <1>1, <1>4, <2>1
  <2>3. end[m] = m
    BY <1>1, <2>2, Zenon DEF Node
  <2> QED
    BY <1>2, <2>1, <2>3 DEF D
<1>10. i[m].onext # Nil => i[m].onext \in D /\ i[m].next = i[m].onext /\ Y[i[m].onext] = Y[m]
  <2>1. CASE m = e
    <3>1. i[m].onext = n /\ i[m].next = n
      BY <1>1, <1>3, <1>4, <2>1
    <3>2. Y[n] = n /\ Y[m] = n
      BY <1>2, <1>3, <1>7, <2>1
    <3> QED
      BY <1>3, <3>1, <3>2
  <2>2. CASE m # e
    <3> SUFFICES ASSUME i[m].onext # Nil  PROVE i[m].onext \in D /\ i[m].next = i[m].onext /\ Y[i[m].onext] = Y[m]
      OBVIOUS
    <3>1. PICK y : y = h[m].onext
      OBVIOUS
    <3>2. i[m].onext = y /\ y # Nil
      BY <1>1, <1>4, <2>2, <3>1
    <3>3. y \in D /\ h[m].next = y /\ end[y] = end[m]
      BY <1>1, <3>1, <3>2, Zenon DEF Node
    <3>4. m \notin E
      BY <1>3, <3>1, <3>2, Zenon DEF EndsGood
    <3>5. i[m].next = y
      BY <1>1, <1>4, <3>3, <3>4
    <3>6. Y[y] = Y[m]
      <4>1. m \in D
        BY DEF D
      <4> QED
        BY <1>2, <3>3, <4>1
    <3> QED
      BY <3>2, <3>3, <3>5, <3>6
  <2> QED
    BY <2>1, <2>2
<1>11. ASSUME NEW k \in DOMAIN i[m].kids
       PROVE  i[m].kids[k] \in D /\ i[Y[i[m].kids[k]]].next = i[m].next /\ L[i[m].kids[k]] = lang[h[m].kids[k]]
  <2>1. PICK y : y = h[m].kids[k]
    OBVIOUS
  <2>2. PICK z : z = end[y]
    OBVIOUS
  <2>3. i[m].kids = h[m].kids
    BY <1>1, <1>4
  <2>4. i[m].kids[k] = y /\ k \in DOMAIN h[m].kids
    BY <2>1, <2>3
  <2>5. y \in D /\ h[z].next = h[m].next /\ z \in D /\ z # e /\ g.up[z] = <<m, k>>
    BY <1>8, <2>1, <2>2, <2>4
  <2>6. Y[y] = z /\ L[y] = lang[y]
    BY <1>2, <2>2, <2>5
  <2>7. i[z].next = i[m].next
    <3>0. z \in DOMAIN h /\ m \in DOMAIN h
      BY <1>1, <2>5
    <3>1. CASE m \in E
      <4>1. z \in E
        BY <1>3, <2>1, <2>2, <2>4, <3>1, Zenon DEF EndsGood, end
      <4> QED
        BY <1>4, <3>0, <3>1, <4>1
    <3>2. CASE m \notin E
      <4>1. z \notin E
        <5> SUFFICES ASSUME z \in E  PROVE FALSE
          OBVIOUS
        <5>1. PICK w \in E : \E j \in DOMAIN h[w].kids : z = end[h[w].kids[j]]
          <6>1. EndsGood(h, g, e, z)
            BY <1>3
          <6>2. \E w \in OpenEnds(h)[e] : \E j \in DOMAIN h[w].kids : z = g.end[h[w].kids[j]]
            BY <2>5, <6>1, Zenon DEF EndsGood
          <6> QED
            BY <1>3, <6>2, Zenon DEF end
        <5>2. PICK j \in DOMAIN h[w].kids : z = end[h[w].kids[j]]
          BY <5>1, Zenon
        <5>3. w \in D
          BY <1>3, Zenon DEF EndsGood, D
        <5>4. g.up[z] = <<w, j>>
          <6>1. Node(h, D, end, lang, w)
            BY <1>1, <5>3, Zenon DEF Chains
          <6>2. h[w].kids[j] \in D
            BY <6>1, Zenon DEF Node
          <6> QED
            BY <1>1, <5>2, <5>3, <6>2
        <5>5. w = m
          BY <2>5, <5>4
        <5> QED
          BY <3>2, <5>5
      <4> QED
        BY <1>4, <2>5, <3>0, <3>2, <4>1
    <3> QED
      BY <3>1, <3>2
  <2> QED
    BY <2>1, <2>4, <2>5, <2>6, <2>7
<1>12. Unit(i, L, m) = Unit(h, lang, m)
  <2>1. i[m].kind = h[m].kind /\ i[m].text = h[m].text /\ i[m].kids = h[m].kids
    BY <1>1, <1>4
  <2>2. \A k \in DOMAIN h[m].kids : L[h[m].kids[k]] = lang[h[m].kids[k]]
    BY <1>11, <2>1
  <2>3. h[m].kind \in {"group", "optional"} => 1 \in DOMAIN h[m].kids
    BY <1>1, SoundFacts
  <2>4. {L[h[m].kids[k]] : k \in DOMAIN h[m].kids} = {lang[h[m].kids[k]] : k \in DOMAIN h[m].kids}
    BY <2>2, Zenon
  <2>5. h[m].kind \in Kinds
    BY <1>1, SoundFacts
  <2>6. CASE h[m].kind = "literal"
    <3>1. Unit(i, L, m) = {i[m].text} /\ Unit(h, lang, m) = {h[m].text}
      BY <2>1, <2>6, UnitIs
    <3> QED
      BY <2>1, <3>1
  <2>7. CASE h[m].kind = "type"
    <3>1. Unit(i, L, m) = {<<"%">>} /\ Unit(h, lang, m) = {<<"%">>}
      BY <2>1, <2>7, UnitIs
    <3> QED
      BY <3>1, Zenon
  <2>8. CASE h[m].kind = "group"
    <3>1. Unit(i, L, m) = L[i[m].kids[1]] /\ Unit(h, lang, m) = lang[h[m].kids[1]]
      BY <2>1, <2>8, UnitIs
    <3>2. L[h[m].kids[1]] = lang[h[m].kids[1]]
      BY <2>2, <2>3, <2>8
    <3> QED
      BY <2>1, <3>1, <3>2, Zenon
  <2>9. CASE h[m].kind = "optional"
    <3>1. Unit(i, L, m) = L[i[m].kids[1]] \cup {<<>>} /\ Unit(h, lang, m) = lang[h[m].kids[1]] \cup {<<>>}
      BY <2>1, <2>9, UnitIs
    <3>2. L[h[m].kids[1]] = lang[h[m].kids[1]]
      BY <2>2, <2>3, <2>9
    <3> QED
      BY <2>1, <3>1, <3>2, Zenon
  <2>10. CASE h[m].kind = "choice"
    <3>1. /\ Unit(i, L, m) = UNION {L[i[m].kids[k]] : k \in DOMAIN i[m].kids}
          /\ Unit(h, lang, m) = UNION {lang[h[m].kids[k]] : k \in DOMAIN h[m].kids}
      BY <2>1, <2>10, UnitIs
    <3> QED
      BY <2>1, <2>4, <3>1, Zenon
  <2> QED
    BY <2>5, <2>6, <2>7, <2>8, <2>9, <2>10 DEF Kinds
<1>13. L[m] = Cat(Unit(i, L, m), Rest(i, L, m))
  <2>0. m \in D
    BY DEF D
  <2>1. /\ lang[m] = Cat(Unit(h, lang, m), Rest(h, lang, m))
        /\ Unit(h, lang, m) \in SUBSET Seq(Letters) /\ Rest(h, lang, m) \in SUBSET Seq(Letters)
    BY <1>1, <2>0, ChainFacts
  <2>2. \A y \in D : lang[y] \in SUBSET Seq(Letters)
    BY <1>1
  <2>3. PICK S : S = Unit(h, lang, m)
    OBVIOUS
  <2>4. PICK U : U = lang[n]
    OBVIOUS
  <2>5. S \in SUBSET Seq(Letters) /\ U \in SUBSET Seq(Letters) /\ Unit(i, L, m) = S
    BY <1>3, <1>12, <2>1, <2>2, <2>3, <2>4
  <2>6. CASE m = e
    <3>1. Rest(h, lang, m) = {<<>>}
      BY <1>3, <2>6, Zenon DEF Rest
    <3>2. lang[m] = S
      BY <2>1, <2>3, <2>5, <3>1, CatEmpty
    <3>3. L[m] = Cat(S, U) /\ L[n] = U
      BY <1>2, <1>3, <1>7, <2>0, <2>4, <2>6, <3>2
    <3>4. i[m].onext = n
      BY <1>1, <1>4, <2>6
    <3>5. n # Nil
      BY <1>3, <1>5 DEF Nil
    <3>6. Rest(i, L, m) = U
      BY <3>3, <3>4, <3>5, Zenon DEF Rest
    <3> QED
      BY <2>5, <3>3, <3>6
  <2>7. CASE m # e /\ h[m].onext = Nil
    <3>1. end[m] = m
      BY <1>1, <2>7, Zenon DEF Node
    <3>2. L[m] = lang[m]
      BY <1>2, <2>0, <2>7, <3>1
    <3>3. i[m].onext = Nil
      BY <1>1, <1>4, <2>7
    <3>4. Rest(i, L, m) = {<<>>} /\ Rest(h, lang, m) = {<<>>}
      BY <2>7, <3>3, Zenon DEF Rest
    <3> QED
      BY <1>12, <2>1, <3>2, <3>4
  <2>8. CASE m # e /\ h[m].onext # Nil
    <3>1. PICK y : y = h[m].onext
      OBVIOUS
    <3>2. y \in D /\ end[y] = end[m]
      BY <1>1, <2>8, <3>1, Zenon DEF Node
    <3>3. i[m].onext = y /\ y # Nil
      BY <1>1, <1>4, <2>8, <3>1
    <3>4. Rest(i, L, m) = L[y] /\ Rest(h, lang, m) = lang[y]
      BY <2>8, <3>1, <3>3, Zenon DEF Rest
    <3>5. lang[m] = Cat(S, lang[y]) /\ lang[y] \in SUBSET Seq(Letters)
      BY <2>1, <2>2, <2>3, <3>2, <3>4
    <3>6. CASE end[m] = e
      <4>1. L[m] = Cat(Cat(S, lang[y]), U) /\ L[y] = Cat(lang[y], U)
        BY <1>2, <2>0, <2>4, <3>2, <3>5, <3>6
      <4>2. Cat(Cat(S, lang[y]), U) = Cat(S, Cat(lang[y], U))
        BY <2>5, <3>5, CatAssociates
      <4> QED
        BY <2>5, <3>4, <4>1, <4>2
    <3>7. CASE end[m] # e
      <4>1. L[m] = lang[m] /\ L[y] = lang[y]
        BY <1>2, <2>0, <3>2, <3>7
      <4> QED
        BY <2>5, <3>4, <3>5, <4>1
    <3> QED
      BY <3>6, <3>7
  <2> QED
    BY <2>6, <2>7, <2>8
<1>14. Node(i, D, Y, L, m)
  BY <1>9, <1>10, <1>11, <1>13, Zenon DEF Node
<1> QED
  BY <1>14 DEF D, Y, L

\* The open chains of other owners stay as they are.
Keeps(h, g, i, x, Others) ==
  \A p, c, B : p \notin Others /\ Open(h, g, p, c, B) => Open(i, x, p, c, B)

\* The same elements but for their links; those that are not live keep them too.
Relinked(h, g, i) ==
  /\ DOMAIN i = DOMAIN h
  /\ \A m \in DOMAIN h : /\ i[m].kind = h[m].kind /\ i[m].text = h[m].text /\ i[m].kids = h[m].kids
                         /\ m \notin g.live => i[m] = h[m]

\* The open chain of o has the head f and the words L now; that of q is none.
Becomes(h, g, i, x, o, q, f, L) ==
  Forest(i, x) /\ x.live = g.live /\ Open(i, x, o, f, L) /\ Keeps(h, g, i, x, {o, q})

StaysBelow(h, pos, i, b) == Below(h, pos, b) => Below(i, pos, b)

\* A link leaves a forest.
LEMMA ExtendedForest ==
  ASSUME NEW h, NEW pos, NEW top, Sound(h, pos, top), NEW g, Forest(h, g), NEW i \in Seq(Elements),
         NEW E, NEW e, NEW n, NEW o, NEW q, Linkable(h, g, i, pos, E, e, n, o, q),
         NEW x, x = Extended(g, e, n, o, q)
  PROVE  Forest(i, x)
<1> DEFINE D == g.live
           end == g.end
           up == g.up
           lang == g.lang
<1>1. /\ Chains(h, D, end, lang) /\ D \subseteq DOMAIN h /\ end \in [D -> D]
      /\ lang \in [D -> SUBSET Seq(Letters)] /\ up \in [D -> Owners]
      /\ \A y \in DOMAIN h : Tidy(h[y].text)
      /\ \A y \in D : up[end[y]] = up[y]
      /\ \A y \in D : \A k \in DOMAIN h[y].kids : up[h[y].kids[k]] = <<y, k>>
  BY DEF Forest, Chains
<1>2. /\ x.live = D
      /\ \A y \in D : /\ x.up[y] = (IF up[y] = q THEN o ELSE up[y])
                      /\ end[y] = e => x.end[y] = n /\ x.lang[y] = Cat(lang[y], lang[n])
                      /\ end[y] # e => x.end[y] = end[y] /\ x.lang[y] = lang[y]
  BY ExtendedIs
<1>3. /\ e \in D /\ up[e] = o /\ n \in D /\ up[n] = q /\ OpenOwner(o) /\ OpenOwner(q) /\ o # q
      /\ o \in Owners
  BY DEF Linkable, OpenOwner
<1>4. /\ DOMAIN i = DOMAIN h
      /\ \A y \in DOMAIN h : i[y].text = h[y].text /\ i[y].kids = h[y].kids
  BY LinkIsSound
<1>5. ASSUME NEW y \in D  PROVE Node(i, D, x.end, x.lang, y)
  BY ExtendedNode
<1>6. x.end \in [D -> D] /\ x.lang \in [D -> SUBSET Seq(Letters)] /\ x.up \in [D -> Owners]
  <2>1. /\ x.end = [m \in D |-> IF end[m] = e THEN n ELSE end[m]]
        /\ x.lang = [m \in D |-> IF end[m] = e THEN Cat(lang[m], lang[n]) ELSE lang[m]]
        /\ x.up = [m \in D |-> IF up[m] = q THEN o ELSE up[m]]
    BY DEF Extended
  <2>2. \A m \in D : lang[m] \in SUBSET Seq(Letters)
    BY <1>1
  <2>3. \A m \in D : Cat(lang[m], lang[n]) \in SUBSET Seq(Letters)
    BY <1>3, <2>2, CatType
  <2> HIDE DEF D, end, up, lang
  <2>4. x.end \in [D -> D]
    BY <1>1, <1>3, <2>1
  <2>5. x.up \in [D -> Owners]
    BY <1>1, <1>3, <2>1
  <2>6. x.lang \in [D -> SUBSET Seq(Letters)]
    <3> DEFINE L == SUBSET Seq(Letters)
    <3>1. \A m \in D : lang[m] \in L /\ Cat(lang[m], lang[n]) \in L
      BY <2>2, <2>3, Zenon
    <3> HIDE DEF L
    <3>2. x.lang \in [D -> L]
      BY <2>1, <3>1
    <3> QED
      BY <3>2 DEF L
  <2> QED
    BY <2>4, <2>5, <2>6
<1>7. Chains(i, D, x.end, x.lang)
  <2>1. \A y \in DOMAIN i : Tidy(i[y].text)
    BY <1>1, <1>4
  <2> HIDE DEF D, end, up, lang
  <2> QED
    BY <1>1, <1>4, <1>5, <1>6, <2>1, Zenon DEF Chains
<1>8. \A y \in D : x.up[x.end[y]] = x.up[y]
  <2> TAKE y \in D
  <2>1. up[end[y]] = up[y] /\ end[y] \in D
    BY <1>1
  <2> HIDE DEF D, end, up, lang
  <2>2. CASE end[y] = e
    <3>1. x.end[y] = n /\ up[y] = o
      BY <1>2, <1>3, <2>1, <2>2
    <3>2. x.up[n] = o /\ x.up[y] = o
      BY <1>2, <1>3, <3>1
    <3> QED
      BY <3>1, <3>2
  <2>3. CASE end[y] # e
    BY <1>2, <2>1, <2>3
  <2> QED
    BY <2>2, <2>3
<1>9. \A y \in D : \A k \in DOMAIN i[y].kids : x.up[i[y].kids[k]] = <<y, k>>
  <2> TAKE y \in D
  <2> TAKE k \in DOMAIN i[y].kids
  <2>1. i[y].kids = h[y].kids /\ y \in DOMAIN h
    BY <1>1, <1>4
  <2>2. up[h[y].kids[k]] = <<y, k>> /\ h[y].kids[k] \in D
    BY <1>1, <2>1, ChainFacts
  <2>3. <<y, k>> # q
    <3>1. y \in 1..Len(h) /\ Len(h) \in Nat
      BY <2>1, SoundFacts
    <3> QED
      BY <1>3, <3>1 DEF OpenOwner
  <2>4. x.up[h[y].kids[k]] = up[h[y].kids[k]]
    <3> HIDE DEF D, end, up, lang
    <3> QED
      BY <1>2, <2>2, <2>3
  <2> QED
    BY <2>1, <2>2, <2>4
<1> HIDE DEF D, end, up, lang
<1> QED
  BY <1>2, <1>6, <1>7, <1>8, <1>9, Zenon DEF Forest

\* An element behind a chain: its words are joined to those of the chain.
LEMMA Link ==
  ASSUME NEW h, NEW pos, NEW top, Sound(h, pos, top), NEW g, Forest(h, g),
         NEW o, NEW f, NEW A, Open(h, g, o, f, A), NEW q, NEW n, NEW U, Open(h, g, q, n, U),
         o # q, g.end[n] = n,
         NEW b \in Int, Below(h, pos, b), pos[f] < b, b <= pos[n],
         NEW i, i = Linked(h, f, n)
  PROVE  /\ Sound(i, pos, top) /\ Relinked(h, g, i)
         /\ \A a \in Int : a <= pos[f] \/ pos[n] < a => StaysBelow(h, pos, i, a)
         /\ \E x : Becomes(h, g, i, x, o, q, f, Cat(A, U))
<1> DEFINE Found(e) == /\ Linkable(h, g, Linked(h, f, n), pos, OpenEnds(h)[e], e, n, o, q)
                       /\ g.end[f] = e /\ pos[f] <= pos[e] /\ Linked(h, f, n) \in Seq(Elements)
<1>0. PICK e \in g.live : Found(e)
  <2>1. \E e \in g.live : Found(e)
    BY LinkIsReady
  <2> QED
    BY <2>1, Zenon
<1> DEFINE E == OpenEnds(h)[e]
           x == Extended(g, e, n, o, q)
<1>1. /\ Linkable(h, g, i, pos, E, e, n, o, q) /\ i \in Seq(Elements)
      /\ g.end[f] = e /\ pos[f] <= pos[e]
  BY <1>0
<1> HIDE DEF Found
<1>2. /\ Sound(i, pos, top) /\ DOMAIN i = DOMAIN h
      /\ \A m \in DOMAIN h : /\ i[m].kind = h[m].kind /\ i[m].text = h[m].text /\ i[m].kids = h[m].kids
                             /\ m \notin g.live => i[m] = h[m]
      /\ \A a \in Int : Below(h, pos, a) /\ (a <= pos[e] \/ pos[n] < a) => Below(i, pos, a)
  BY <1>1, LinkIsSound
<1>3. Forest(i, x)
  BY <1>1, ExtendedForest
<1>4. /\ e \in g.live /\ g.up[e] = o /\ g.end[e] = e /\ h[e].onext = Nil
      /\ n \in g.live /\ g.up[n] = q /\ g.end[n] = n /\ h[n].next = Nil
      /\ OpenOwner(o) /\ OpenOwner(q) /\ o # q
      /\ E = OpenEnds(h)[e]
      /\ LinkedBehind(h, i, E, e, n) /\ e \in E
      /\ \A y \in E : EndsGood(h, g, e, y) /\ pos[e] <= pos[y] /\ pos[y] < pos[n]
  BY <1>1 DEF Linkable
<1>5. /\ x.live = g.live
      /\ \A m \in g.live :
              /\ x.up[m] = (IF g.up[m] = q THEN o ELSE g.up[m])
              /\ g.end[m] = e => x.end[m] = n
              /\ g.end[m] # e => x.end[m] = g.end[m]
              /\ g.end[m] = e => x.lang[m] = Cat(g.lang[m], g.lang[n])
              /\ g.end[m] # e => x.lang[m] = g.lang[m]
  BY ExtendedIs
<1>6. /\ f \in g.live /\ g.up[f] = o /\ g.lang[f] = A /\ g.lang[n] = U
      /\ g.live \subseteq DOMAIN h
      /\ \A m \in g.live : g.end[m] \in g.live /\ g.up[g.end[m]] = g.up[m]
      /\ \A m \in g.live : \A k \in DOMAIN h[m].kids : g.up[g.end[h[m].kids[k]]] = <<m, k>>
  <2>1. /\ f \in g.live /\ g.up[f] = o /\ g.lang[f] = A /\ g.lang[n] = U
    BY DEF Open
  <2>2. /\ Chains(h, g.live, g.end, g.lang) /\ g.live \subseteq DOMAIN h /\ g.end \in [g.live -> g.live]
        /\ \A m \in g.live : g.up[g.end[m]] = g.up[m]
        /\ \A m \in g.live : \A k \in DOMAIN h[m].kids : g.up[h[m].kids[k]] = <<m, k>>
    BY DEF Forest, Chains
  <2>3. ASSUME NEW m \in g.live, NEW k \in DOMAIN h[m].kids  PROVE g.up[g.end[h[m].kids[k]]] = <<m, k>>
    <3>1. h[m].kids[k] \in g.live
      BY <2>2, ChainFacts
    <3> QED
      BY <2>2, <3>1
  <2> QED
    BY <2>1, <2>2, <2>3
<1>61. \A m \in g.live : m \in DOMAIN h /\ pos[m] \in Nat
  <2> TAKE m \in g.live
  <2>1. m \in DOMAIN h
    BY <1>6
  <2>2. pos[m] \in 0..top /\ top \in Nat
    BY <2>1, SoundFacts
  <2> QED
    BY <2>1, <2>2
<1>7. \A y \in E : y \in g.live /\ (y = e \/ \E m \in g.live : \E k : g.up[y] = <<m, k>>)
  <2> TAKE y \in E
  <2>1. EndsGood(h, g, e, y) /\ \A w \in E : w \in g.live
    BY <1>4 DEF EndsGood
  <2>2. y \in g.live /\ (y = e \/ \E w \in E : \E j \in DOMAIN h[w].kids : y = g.end[h[w].kids[j]])
    BY <2>1, Zenon DEF EndsGood
  <2>3. ASSUME NEW w \in E, NEW j \in DOMAIN h[w].kids, y = g.end[h[w].kids[j]]
        PROVE  \E m \in g.live : \E k : g.up[y] = <<m, k>>
    <3>1. w \in g.live
      BY <2>1
    <3>2. g.up[y] = <<w, j>>
      BY <1>6, <2>3, <3>1, Zenon
    <3> QED
      BY <3>1, <3>2, Zenon
  <2> QED
    BY <2>2, <2>3, Zenon
<1>8. \A m \in g.live : m \in Nat /\ m # 0
  <2> TAKE m \in g.live
  <2>1. m \in 1..Len(h) /\ Len(h) \in Nat
    BY <1>6, SoundFacts
  <2> QED
    BY <2>1
<1>9. \A m \in DOMAIN h : m \notin E => i[m] = h[m]
  BY <1>4 DEF LinkedBehind
<1> HIDE DEF E, x
<1>10. Open(i, x, o, f, Cat(A, U))
  <2>1. x.up[f] = o /\ x.end[f] = n /\ x.lang[f] = Cat(A, U)
    BY <1>1, <1>4, <1>5, <1>6
  <2>2. n \notin E
    <3> SUFFICES ASSUME n \in E  PROVE FALSE
      OBVIOUS
    <3>1. pos[n] < pos[n] /\ pos[n] \in Nat
      BY <1>4, <1>61
    <3> QED
      BY <3>1
  <2>3. i[n].next = Nil
    BY <1>4, <1>6, <1>9, <2>2
  <2> QED
    BY <1>4, <1>5, <1>6, <2>1, <2>3 DEF Open
<1>11. ASSUME NEW p, NEW c, NEW B, p \notin {o, q}, Open(h, g, p, c, B)  PROVE Open(i, x, p, c, B)
  <2>1. c \in g.live /\ OpenOwner(p) /\ g.up[c] = p /\ h[g.end[c]].next = Nil /\ g.lang[c] = B
    BY <1>11 DEF Open
  <2>2. PICK y : y = g.end[c]
    OBVIOUS
  <2>3. y \in g.live /\ g.up[y] = p /\ h[y].next = Nil
    BY <1>6, <2>1, <2>2
  <2>4. y # e
    BY <1>4, <1>11, <2>3
  <2>5. y \notin E
    BY <1>7, <1>8, <2>1, <2>3, <2>4 DEF OpenOwner
  <2>6. x.end[c] = y /\ x.lang[c] = B /\ x.up[c] = p
    BY <1>5, <1>11, <2>1, <2>2, <2>4
  <2>7. i[y].next = Nil
    BY <1>6, <1>9, <2>3, <2>5
  <2> QED
    BY <1>5, <2>1, <2>6, <2>7 DEF Open
<1>12. Keeps(h, g, i, x, {o, q})
  BY <1>11 DEF Keeps
<1>13. ASSUME NEW a \in Int, Below(h, pos, a), a <= pos[f] \/ pos[n] < a  PROVE Below(i, pos, a)
  <2>1. pos[f] \in Nat /\ pos[e] \in Nat
    BY <1>4, <1>6, <1>61
  <2>2. a <= pos[e] \/ pos[n] < a
    BY <1>1, <1>13, <2>1
  <2> QED
    BY <1>2, <1>13, <2>2
<1>14. Relinked(h, g, i)
  BY <1>2, Zenon DEF Relinked
<1>15. \E y : Becomes(h, g, i, y, o, q, f, Cat(A, U))
  BY <1>3, <1>5, <1>10, <1>12, Zenon DEF Becomes
<1> QED
  BY <1>2, <1>13, <1>14, <1>15 DEF StaysBelow

\* Elements that are live are elements, and no owner of an open chain is one.
LEMMA LiveFacts ==
  ASSUME NEW h, NEW pos, NEW top, Sound(h, pos, top), NEW g, Forest(h, g)
  PROVE  /\ \A m \in g.live : /\ m \in DOMAIN h /\ m \in Nat /\ m # Nil /\ pos[m] \in Nat
                              /\ g.end[m] \in g.live /\ g.up[g.end[m]] = g.up[m] /\ g.up[m] \in Owners
                              /\ g.lang[m] \in SUBSET Seq(Letters)
         /\ \A o : OpenOwner(o) => \A m \in g.live : \A k : o # <<m, k>>
<1>1. /\ g.live \subseteq DOMAIN h /\ g.end \in [g.live -> g.live] /\ g.up \in [g.live -> Owners]
      /\ g.lang \in [g.live -> SUBSET Seq(Letters)]
      /\ \A m \in g.live : g.up[g.end[m]] = g.up[m]
  BY DEF Forest, Chains
<1>2. ASSUME NEW m \in g.live
      PROVE  m \in DOMAIN h /\ m \in Nat /\ m # Nil /\ pos[m] \in Nat
  <2>1. m \in DOMAIN h
    BY <1>1
  <2>2. m \in 1..Len(h) /\ Len(h) \in Nat /\ pos[m] \in 0..top /\ top \in Nat
    BY <2>1, SoundFacts
  <2> QED
    BY <2>1, <2>2 DEF Nil
<1>3. ASSUME NEW m \in g.live
      PROVE  g.end[m] \in g.live /\ g.up[g.end[m]] = g.up[m] /\ g.up[m] \in Owners
             /\ g.lang[m] \in SUBSET Seq(Letters)
  BY <1>1
<1>4. ASSUME NEW o, OpenOwner(o), NEW m \in g.live, NEW k  PROVE o # <<m, k>>
  BY <1>2, <1>4 DEF OpenOwner, Nil
<1> QED
  BY <1>2, <1>3, <1>4

\* A chain gets another owner.
LEMMA Rename ==
  ASSUME NEW h, NEW pos, NEW top, Sound(h, pos, top), NEW g, Forest(h, g),
         NEW q, NEW n, NEW U, Open(h, g, q, n, U), NEW o, OpenOwner(o)
  PROVE  \E x : /\ Forest(h, x) /\ x.live = g.live
                /\ Open(h, x, o, n, U) /\ Keeps(h, g, h, x, {q})
<1> DEFINE D == g.live
           up == [m \in D |-> IF g.up[m] = q THEN o ELSE g.up[m]]
           x == [live |-> D, up |-> up, end |-> g.end, lang |-> g.lang]
<1>1. /\ Chains(h, D, g.end, g.lang) /\ g.up \in [D -> Owners]
      /\ \A m \in D : g.up[g.end[m]] = g.up[m] /\ g.end[m] \in D
      /\ \A m \in D : \A k \in DOMAIN h[m].kids : g.up[h[m].kids[k]] = <<m, k>> /\ h[m].kids[k] \in D
  <2>1. /\ Chains(h, D, g.end, g.lang) /\ g.up \in [D -> Owners] /\ g.end \in [D -> D]
        /\ \A m \in D : g.up[g.end[m]] = g.up[m]
        /\ \A m \in D : \A k \in DOMAIN h[m].kids : g.up[h[m].kids[k]] = <<m, k>>
    BY DEF Forest, Chains
  <2>2. ASSUME NEW m \in D, NEW k \in DOMAIN h[m].kids  PROVE h[m].kids[k] \in D
    BY <2>1, ChainFacts
  <2> QED
    BY <2>1, <2>2
<1>2. /\ n \in D /\ OpenOwner(q) /\ g.up[n] = q /\ h[g.end[n]].next = Nil /\ g.lang[n] = U
      /\ o \in Owners
  BY DEF Open, OpenOwner
<1>3. \A m \in D : \A k : q # <<m, k>>
  BY <1>2, LiveFacts
<1>4. /\ x.live = D /\ x.up = up /\ x.end = g.end /\ x.lang = g.lang
      /\ \A m \in D : up[m] = (IF g.up[m] = q THEN o ELSE g.up[m])
      /\ up \in [D -> Owners]
  BY <1>1, <1>2
<1> HIDE DEF D, up, x
<1>5. \A m \in D : up[g.end[m]] = up[m]
  BY <1>1, <1>4
<1>6. \A m \in D : \A k \in DOMAIN h[m].kids : up[h[m].kids[k]] = <<m, k>>
  <2> TAKE m \in D
  <2> TAKE k \in DOMAIN h[m].kids
  <2>1. g.up[h[m].kids[k]] = <<m, k>> /\ h[m].kids[k] \in D /\ q # <<m, k>>
    BY <1>1, <1>3
  <2> QED
    BY <1>4, <2>1
<1>7. Forest(h, x)
  BY <1>1, <1>4, <1>5, <1>6, ZenonT(30) DEF Forest
<1>8. Open(h, x, o, n, U)
  BY <1>2, <1>4 DEF Open
<1>9. Keeps(h, g, h, x, {q})
  <2> SUFFICES ASSUME NEW p, NEW c, NEW B, p \notin {q}, Open(h, g, p, c, B)  PROVE Open(h, x, p, c, B)
    BY Zenon DEF Keeps
  <2>1. c \in D /\ OpenOwner(p) /\ g.up[c] = p /\ h[g.end[c]].next = Nil /\ g.lang[c] = B
    BY DEF Open, D
  <2> QED
    BY <1>4, <2>1 DEF Open
<1> QED
  BY <1>4, <1>7, <1>8, <1>9 DEF D

\* An empty head has no word but the empty one.
LEMMA EmptyHead ==
  ASSUME NEW h, NEW pos, NEW top, Sound(h, pos, top), NEW g, Forest(h, g),
         NEW o, NEW f, NEW A, Open(h, g, o, f, A), Replaceable(h, f)
  PROVE  A = {<<>>}
<1>1. f \in g.live /\ g.lang[f] = A /\ f # Nil
  BY LiveFacts DEF Open
<1>2. h[f].kind = "literal" /\ h[f].text = <<>> /\ h[f].next = Nil
  BY <1>1 DEF Replaceable
<1>3. Node(h, g.live, g.end, g.lang, f) /\ Chains(h, g.live, g.end, g.lang)
  BY <1>1 DEF Forest, Chains
<1>4. h[f].onext = Nil
  BY <1>2, <1>3, Zenon DEF Node
<1>5. Unit(h, g.lang, f) = {h[f].text}
  BY <1>2, UnitIs
<1>6. Unit(h, g.lang, f) = {<<>>}
  BY <1>2, <1>5, Zenon
<1>7. Rest(h, g.lang, f) = {<<>>}
  BY <1>4, Zenon DEF Rest
<1>8. A = Cat({<<>>}, {<<>>})
  BY <1>1, <1>3, <1>6, <1>7, Zenon DEF Node
<1>9. Unit(h, g.lang, f) \in SUBSET Seq(Letters)
  BY <1>1, <1>3, ChainFacts
<1>10. {<<>>} \in SUBSET Seq(Letters)
  BY <1>6, <1>9, Zenon
<1>11. Cat({<<>>}, {<<>>}) = {<<>>}
  BY <1>10, CatEmpty, Zenon
<1> QED
  BY <1>8, <1>11

\* A head, or none, with the words of its chain.
Headed(h, g, o, f, A) == (f = Nil /\ A = {<<>>}) \/ Open(h, g, o, f, A)

\* append_element on a chain whose head is no choice: its words get those of the element.
LEMMA AddToChain ==
  ASSUME NEW h, NEW pos, NEW top, Sound(h, pos, top), NEW g, Forest(h, g),
         NEW o, OpenOwner(o), NEW f, NEW A, Headed(h, g, o, f, A),
         NEW q, NEW n, NEW U, Open(h, g, q, n, U), o # q, g.end[n] = n,
         NEW b \in Int, Below(h, pos, b), f # Nil => pos[f] < b, b <= pos[n],
         NEW a \in Int, f # Nil => a <= pos[f],
         NEW r, r = AppendToChain(h, f, n)
  PROVE  /\ Sound(r.heap, pos, top) /\ Relinked(h, g, r.heap) /\ r.first \in {f, n} \ {Nil}
         /\ \A z \in Int : z <= a => StaysBelow(h, pos, r.heap, z)
         /\ \E x : Becomes(h, g, r.heap, x, o, q, r.first, Cat(A, U))
<1>1. n \in g.live /\ n # Nil /\ U \in SUBSET Seq(Letters)
  BY LiveFacts DEF Open
<1>2. CASE Replaceable(h, f)
  <2>1. r = [heap |-> h, first |-> n]
    BY <1>2, Zenon DEF AppendToChain, Chain
  <2>2. r.heap = h /\ r.first = n
    BY <2>1
  <2>3. A = {<<>>}
    BY <1>2, EmptyHead DEF Headed
  <2>4. Cat(A, U) = U
    BY <1>1, <2>3, CatEmpty, Zenon
  <2>5. PICK x : /\ Forest(h, x) /\ x.live = g.live
                 /\ Open(h, x, o, n, U) /\ Keeps(h, g, h, x, {q})
    BY Rename
  <2>6. Keeps(h, g, h, x, {o, q})
    BY <2>5, Zenon DEF Keeps
  <2>7. Relinked(h, g, h)
    BY DEF Relinked
  <2>8. r.first \in {f, n} \ {Nil}
    BY <1>1, <2>2
  <2>9. Becomes(h, g, h, x, o, q, n, Cat(A, U))
    BY <2>4, <2>5, <2>6, Zenon DEF Becomes
  <2>10. \A z : StaysBelow(h, pos, h, z)
    BY DEF StaysBelow
  <2> QED
    BY <2>2, <2>7, <2>8, <2>9, <2>10, Zenon
<1>3. CASE ~Replaceable(h, f)
  <2>1. r = [heap |-> Linked(h, f, n), first |-> f]
    BY <1>3, Zenon DEF AppendToChain, Chain
  <2>2. r.heap = Linked(h, f, n) /\ r.first = f
    BY <2>1
  <2>3. f # Nil /\ Open(h, g, o, f, A)
    BY <1>3 DEF Replaceable, Headed
  <2>4. PICK i : i = Linked(h, f, n)
    OBVIOUS
  <2>5. /\ Sound(i, pos, top) /\ Relinked(h, g, i)
        /\ \A z \in Int : z <= pos[f] \/ pos[n] < z => StaysBelow(h, pos, i, z)
        /\ \E x : Becomes(h, g, i, x, o, q, f, Cat(A, U))
    <3>1. pos[f] < b
      BY <2>3
    <3> QED
      BY <2>3, <2>4, <3>1, Link
  <2>6. ASSUME NEW z \in Int, z <= a  PROVE StaysBelow(h, pos, i, z)
    <3>1. pos[f] \in Nat
      BY <2>3, LiveFacts DEF Open
    <3>2. z <= pos[f]
      BY <2>3, <2>6, <3>1
    <3> QED
      BY <2>5, <3>2
  <2>7. r.first \in {f, n} \ {Nil}
    BY <2>2, <2>3
  <2> QED
    BY <2>2, <2>4, <2>5, <2>6, <2>7, Zenon
<1> QED
  BY <1>2, <1>3

\* A function on 1..n is a sequence.
LEMMA IsSequence ==
  ASSUME NEW S, NEW N \in Nat, NEW s, s \in [1..N -> S]
  PROVE  s \in Seq(S)
OBVIOUS

\* What is not alive does not matter.
Agrees(h, g, i) ==
  /\ \A n \in g.live : n \in DOMAIN i /\ i[n] = h[n]
  /\ \A n \in DOMAIN i : Tidy(i[n].text)

\* A forest looks at live elements only.
LEMMA ForestStays ==
  ASSUME NEW h, NEW g, Forest(h, g), NEW i, Agrees(h, g, i)
  PROVE  Forest(i, g) /\ Keeps(h, g, i, g, {})
<1>1. /\ \A n \in g.live : n \in DOMAIN i /\ i[n] = h[n]
      /\ \A n \in DOMAIN i : Tidy(i[n].text)
  BY DEF Agrees
<1>2. Forest(i, g)
  BY <1>1, ForestAgrees
<1>3. ASSUME NEW p, NEW c, NEW B, Open(h, g, p, c, B)  PROVE Open(i, g, p, c, B)
  BY <1>1, <1>3, ForestAgrees
<1> QED
  BY <1>2, <1>3, Zenon DEF Keeps

LowerStay(h, pos, i, p) == \A z \in Int : z <= p => StaysBelow(h, pos, i, z)
SoundForest(h, pos, top, g, i) == Sound(i, pos, top) /\ Forest(i, g) /\ Keeps(h, g, i, g, {})

\* An element that is not live gets other kids.
LEMMA DeadKids ==
  ASSUME NEW h, NEW pos, NEW top, Sound(h, pos, top), NEW g, Forest(h, g),
         NEW c \in DOMAIN h, c \notin g.live, h[c].kind = "choice",
         NEW K \in Seq(Nat \ {0}), Len(K) > 0,
         \A k \in DOMAIN K : K[k] \in DOMAIN h /\ pos[c] < pos[K[k]],
         NEW i, i = [h EXCEPT ![c].kids = K]
  PROVE  /\ SoundForest(h, pos, top, g, i) /\ DOMAIN i = DOMAIN h
         /\ i[c] = [h[c] EXCEPT !.kids = K]
         /\ \A m \in DOMAIN h : m # c => i[m] = h[m]
         /\ LowerStay(h, pos, i, pos[c])
<1>1. h \in Seq(Elements) /\ top \in Nat /\ pos \in [DOMAIN h -> 0..top]
  BY DEF Sound
<1>2. PICK N \in Nat : N = Len(h) /\ DOMAIN h = 1..N
  BY <1>1, LenProperties
<1>3. /\ DOMAIN i = DOMAIN h /\ i[c] = [h[c] EXCEPT !.kids = K]
      /\ \A m \in DOMAIN h : m # c => i[m] = h[m]
  BY <1>1
<1>4. h[c] \in Elements /\ \A m \in DOMAIN h : h[m] \in Elements
  BY <1>1, <1>2
<1>5. /\ i[c] \in Elements /\ i[c].kind = h[c].kind /\ i[c].text = h[c].text /\ i[c].kids = K
      /\ i[c].next = h[c].next /\ i[c].onext = h[c].onext
  BY <1>3, <1>4 DEF Elements
<1>6. i \in Seq(Elements)
  <2>1. i = [m \in 1..N |-> i[m]]
    BY <1>1, <1>2
  <2>2. \A m \in 1..N : i[m] \in Elements
    BY <1>2, <1>3, <1>4, <1>5
  <2>3. i \in [1..N -> Elements]
    BY <2>1, <2>2
  <2> QED
    BY <2>3, IsSequence
<1>7. ASSUME NEW m \in DOMAIN i
      PROVE  /\ KidCount(i[m])
             /\ i[m].next # Nil => Later(i, pos, m, i[m].next)
             /\ i[m].onext # Nil => Later(i, pos, m, i[m].onext)
             /\ \A k \in DOMAIN i[m].kids : Later(i, pos, m, i[m].kids[k])
  <2>1. /\ KidCount(h[m]) /\ m \in DOMAIN h
        /\ h[m].next # Nil => Later(h, pos, m, h[m].next)
        /\ h[m].onext # Nil => Later(h, pos, m, h[m].onext)
        /\ \A k \in DOMAIN h[m].kids : Later(h, pos, m, h[m].kids[k])
    BY <1>3 DEF Sound
  <2>2. \A x : Later(i, pos, m, x) <=> Later(h, pos, m, x)
    BY <1>3 DEF Later
  <2>3. CASE m = c
    <3>1. KidCount(i[m])
      BY <1>5, <2>3 DEF KidCount
    <3>2. \A k \in DOMAIN i[m].kids : Later(i, pos, m, i[m].kids[k])
      BY <1>3, <1>5, <2>3 DEF Later
    <3> QED
      BY <1>5, <2>1, <2>2, <2>3, <3>1, <3>2
  <2>4. CASE m # c
    BY <1>3, <2>1, <2>2, <2>4
  <2> QED
    BY <2>3, <2>4
<1>8. Sound(i, pos, top)
  BY <1>1, <1>3, <1>6, <1>7 DEF Sound
<1>9. \A m \in DOMAIN i : Tidy(i[m].text)
  <2>1. \A m \in DOMAIN h : Tidy(h[m].text)
    BY DEF Forest, Chains
  <2> QED
    BY <1>3, <1>5, <2>1
<1>10. \A m \in g.live : m \in DOMAIN i /\ i[m] = h[m]
  BY <1>3, LiveFacts
<1>11. Forest(i, g) /\ Keeps(h, g, i, g, {})
  <2>1. Agrees(h, g, i)
    BY <1>9, <1>10, Zenon DEF Agrees
  <2> QED
    BY <2>1, ForestStays
<1>12. ASSUME NEW z \in Int, z <= pos[c], Below(h, pos, z)  PROVE Below(i, pos, z)
  <2> SUFFICES ASSUME NEW m \in DOMAIN i, pos[m] < z
               PROVE  /\ i[m].next # Nil => pos[i[m].next] < z
                      /\ i[m].onext # Nil => pos[i[m].onext] < z
                      /\ \A k \in DOMAIN i[m].kids : pos[i[m].kids[k]] < z
    BY DEF Below
  <2>1. m # c
    <3>1. pos[c] \in Nat
      BY <1>1
    <3> QED
      BY <1>12, <3>1
  <2> QED
    BY <1>3, <1>12, <2>1 DEF Below
<1>13. LowerStay(h, pos, i, pos[c])
  BY <1>12 DEF StaysBelow, LowerStay
<1> QED
  BY <1>3, <1>8, <1>11, <1>13 DEF SoundForest

-----------------------------------------------------------------------------
(* The chains of a call: the owner of its j-th alternative is <<z, j>>, and *)
(* A are their words.  The choice itself is not live before the call ends. *)

Single(h, pos, g, z, f, A, a, b) ==
  /\ f # Nil /\ h[f].kind # "choice" /\ a < pos[f] /\ pos[f] < b
  /\ Len(A) = 1 /\ Open(h, g, <<z, 1>>, f, A[1])

Several(h, pos, g, z, f, A, a, b) ==
  /\ f # Nil /\ f \in DOMAIN h /\ f \notin g.live
  /\ h[f].kind = "choice" /\ h[f].next = Nil /\ h[f].onext = Nil
  /\ a <= pos[f] /\ pos[f] < b
  /\ Len(A) = Len(h[f].kids)
  /\ \A k \in DOMAIN h[f].kids :
       /\ Open(h, g, <<z, k>>, h[f].kids[k], A[k])
       /\ a <= pos[h[f].kids[k]] /\ pos[h[f].kids[k]] < b

Alternatives(h, pos, g, z, f, A, a, b) ==
  /\ A \in Seq(SUBSET Seq(Letters))
  /\ \/ f = Nil /\ Len(A) = 1 /\ A[1] = {<<>>}
     \/ Single(h, pos, g, z, f, A, a, b)
     \/ Several(h, pos, g, z, f, A, a, b)

\* What a step on chains of the owners Z, with elements at a or behind it,
\* leaves as it is.
Kept(h, pos, g, i, s, x, Z, a) ==
  /\ DOMAIN h \subseteq DOMAIN i
  /\ \A m \in DOMAIN h : s[m] = pos[m] /\ i[m].kind = h[m].kind
  /\ \A m \in DOMAIN h : m \notin g.live /\ pos[m] < a => i[m] = h[m] /\ m \notin x.live
  /\ \A p, c, B : p[1] \notin Z /\ Open(h, g, p, c, B) => Open(i, x, p, c, B)
  /\ \A b \in Int : b <= a /\ Below(h, pos, b) => Below(i, s, b)

\* Two steps that keep the other chains keep them together.
LEMMA KeptTwice ==
  ASSUME NEW h, NEW pos, NEW g, NEW i, NEW s, NEW x, NEW j, NEW t, NEW y, NEW Z, NEW a \in Int,
         Kept(h, pos, g, i, s, x, Z, a), Kept(i, s, x, j, t, y, Z, a)
  PROVE  Kept(h, pos, g, j, t, y, Z, a)
<1>1. DOMAIN h \subseteq DOMAIN i /\ DOMAIN i \subseteq DOMAIN j
  BY DEF Kept
<1>2. \A m \in DOMAIN h : t[m] = pos[m] /\ j[m].kind = h[m].kind
  BY <1>1 DEF Kept
<1>3. ASSUME NEW m \in DOMAIN h, m \notin g.live, pos[m] < a  PROVE j[m] = h[m] /\ m \notin y.live
  BY <1>1, <1>3 DEF Kept
<1>4. \A p, c, B : p[1] \notin Z /\ Open(h, g, p, c, B) => Open(j, y, p, c, B)
  BY Zenon DEF Kept
<1>5. \A b \in Int : b <= a /\ Below(h, pos, b) => Below(j, t, b)
  BY DEF Kept
<1> QED
  BY <1>1, <1>2, <1>3, <1>4, <1>5 DEF Kept

\* The words of the last alternative, each with one of U.
WithLast(A, U) == [k \in 1..Len(A) |-> IF k = Len(A) THEN Cat(A[k], U) ELSE A[k]]

\* WithLast, alternative by alternative.
LEMMA WithLastIs ==
  ASSUME NEW A \in Seq(SUBSET Seq(Letters)), Len(A) > 0, NEW U \in SUBSET Seq(Letters)
  PROVE  /\ WithLast(A, U) \in Seq(SUBSET Seq(Letters)) /\ Len(WithLast(A, U)) = Len(A)
         /\ WithLast(A, U)[Len(A)] = Cat(A[Len(A)], U)
         /\ \A k \in 1..(Len(A) - 1) : WithLast(A, U)[k] = A[k]
<1> DEFINE S == SUBSET Seq(Letters)
           B == WithLast(A, U)
<1>0. PICK N \in Nat : N = Len(A) /\ DOMAIN A = 1..N /\ N > 0
  BY LenProperties
<1>1. \A k \in 1..N : A[k] \in S
  BY <1>0
<1>2. ASSUME NEW k \in 1..N  PROVE Cat(A[k], U) \in S
  BY <1>1, CatType
<1> HIDE DEF S
<1>3. B = [k \in 1..N |-> IF k = N THEN Cat(A[k], U) ELSE A[k]]
  BY <1>0 DEF WithLast
<1> HIDE DEF B
<1>4. B \in [1..N -> S]
  BY <1>1, <1>2, <1>3
<1>5. B \in Seq(S) /\ Len(B) = N
  BY <1>4, IsSequence
<1>6. B[N] = Cat(A[N], U) /\ \A k \in 1..(N - 1) : B[k] = A[k]
  BY <1>0, <1>3
<1> QED
  BY <1>0, <1>5, <1>6 DEF B, S

\* The element n, not in a chain yet, is added to the chains of z.
Grown(h, pos, top, g, r, x, z, B, a, b) ==
  /\ Sound(r.heap, pos, top) /\ Forest(r.heap, x) /\ x.live = g.live
  /\ DOMAIN r.heap = DOMAIN h
  /\ Alternatives(r.heap, pos, x, z, r.first, B, a, b) /\ r.first # Nil
  /\ Kept(h, pos, g, r.heap, pos, x, {z, 0}, a)

\* append_element on a single chain, its empty head included.
LEMMA AddToHead ==
  ASSUME NEW h, NEW pos, NEW top, Sound(h, pos, top), NEW g, Forest(h, g),
         NEW z \in Int, z < 0, NEW f, NEW A \in Seq(SUBSET Seq(Letters)), Len(A) = 1,
         Headed(h, g, <<z, 1>>, f, A[1]),
         NEW n, NEW U, Open(h, g, <<0, 1>>, n, U), g.end[n] = n, h[n].kind # "choice",
         NEW a \in Int, NEW b \in Int, a < b, Below(h, pos, b), b <= pos[n],
         f # Nil => a < pos[f] /\ pos[f] < b /\ h[f].kind # "choice",
         NEW d \in Int, pos[n] < d,
         NEW r, r = AppendElement(h, f, n)
  PROVE  \E x : Grown(h, pos, top, g, r, x, z, WithLast(A, U), a, d)
<1> DEFINE o == <<z, 1>>
           q == <<0, 1>>
<1>1. ~IsChoice(h, f)
  BY DEF IsChoice
<1>2. r = AppendToChain(h, f, n)
  BY <1>1, Zenon DEF AppendElement
<1>3. OpenOwner(o) /\ o # q
  BY DEF OpenOwner, Owners
<1>4. f # Nil => pos[f] < b /\ a <= pos[f]
  <2>1. f # Nil => pos[f] \in Nat
    BY LiveFacts DEF Open, Headed
  <2> QED
    BY <2>1
<1> HIDE DEF o, q
<1>5. /\ Sound(r.heap, pos, top) /\ Relinked(h, g, r.heap) /\ r.first \in {f, n} \ {Nil}
      /\ \A y \in Int : y <= a => StaysBelow(h, pos, r.heap, y)
      /\ \E x : Becomes(h, g, r.heap, x, o, q, r.first, Cat(A[1], U))
  <2>1. Headed(h, g, o, f, A[1]) /\ Open(h, g, q, n, U)
    BY DEF o, q
  <2> QED
    BY <1>2, <1>3, <1>4, <2>1, AddToChain
<1>6. PICK x : Becomes(h, g, r.heap, x, o, q, r.first, Cat(A[1], U))
  BY <1>5
<1> DEFINE i == r.heap
           c == r.first
           B == WithLast(A, U)
<1>7. /\ Forest(i, x) /\ x.live = g.live /\ Open(i, x, o, c, Cat(A[1], U)) /\ Keeps(h, g, i, x, {o, q})
  BY <1>6, Zenon DEF Becomes
<1>8. /\ DOMAIN i = DOMAIN h
      /\ \A m \in DOMAIN h : i[m].kind = h[m].kind /\ (m \notin g.live => i[m] = h[m])
  BY <1>5 DEF Relinked
<1>9. n \in DOMAIN h /\ U \in SUBSET Seq(Letters) /\ pos[n] \in Nat /\ (f # Nil => f \in DOMAIN h /\ pos[f] \in Nat)
  <2>1. n \in g.live /\ g.lang[n] = U /\ (f # Nil => f \in g.live)
    BY DEF Open, Headed
  <2> QED
    BY <2>1, LiveFacts
<1>10. B \in Seq(SUBSET Seq(Letters)) /\ Len(B) = 1 /\ B[1] = Cat(A[1], U)
  <2>1. Len(A) > 0
    OBVIOUS
  <2>2. /\ WithLast(A, U) \in Seq(SUBSET Seq(Letters)) /\ Len(WithLast(A, U)) = Len(A)
        /\ WithLast(A, U)[Len(A)] = Cat(A[Len(A)], U)
    BY <1>9, <2>1, WithLastIs
  <2> QED
    BY <2>2, Zenon
<1> HIDE DEF i, c, B
<1>11. Single(i, pos, x, z, c, B, a, d)
  <2>1. c # Nil /\ c \in {f, n}
    BY <1>5 DEF c
  <2>2. i[c].kind # "choice"
    BY <1>8, <1>9, <2>1
  <2>3. a < pos[c] /\ pos[c] < d
    BY <1>9, <2>1
  <2>4. Open(i, x, <<z, 1>>, c, B[1])
    BY <1>7, <1>10 DEF o
  <2> QED
    BY <1>10, <2>1, <2>2, <2>3, <2>4, Zenon DEF Single
<1>12. Kept(h, pos, g, i, pos, x, {z, 0}, a)
  <2>1. ASSUME NEW p, NEW y, NEW C, p[1] \notin {z, 0}, Open(h, g, p, y, C)  PROVE Open(i, x, p, y, C)
    <3>1. p \notin {o, q}
      BY <2>1 DEF o, q
    <3> QED
      BY <1>7, <2>1, <3>1, Zenon DEF Keeps
  <2>2. \A y \in Int : y <= a /\ Below(h, pos, y) => Below(i, pos, y)
    BY <1>5 DEF StaysBelow, i
  <2> QED
    BY <1>7, <1>8, <2>1, <2>2 DEF Kept
<1>13. Sound(i, pos, top) /\ c # Nil
  BY <1>5 DEF i, c
<1>14. Alternatives(i, pos, x, z, c, B, a, d)
  BY <1>10, <1>11, Zenon DEF Alternatives
<1>15. Grown(h, pos, top, g, r, x, z, B, a, d)
  BY <1>7, <1>8, <1>12, <1>13, <1>14, Zenon DEF Grown, i, c
<1> QED
  BY <1>15 DEF B

\* The element is added to the last alternative of a choice.
LEMMA AddToChoice ==
  ASSUME NEW h, NEW pos, NEW top, Sound(h, pos, top), NEW g, Forest(h, g),
         NEW z \in Int, z < 0, NEW f, NEW A \in Seq(SUBSET Seq(Letters)),
         NEW a \in Int, NEW b \in Int, a <= b, Several(h, pos, g, z, f, A, a, b),
         NEW n, NEW U, Open(h, g, <<0, 1>>, n, U), g.end[n] = n, h[n].kind # "choice",
         Below(h, pos, b), b <= pos[n],
         NEW d \in Int, pos[n] < d,
         NEW r, r = AppendElement(h, f, n)
  PROVE  \E x : Grown(h, pos, top, g, r, x, z, WithLast(A, U), a, d)
<1> DEFINE l == Len(h[f].kids)
           e == h[f].kids[l]
           o == <<z, l>>
           q == <<0, 1>>
           s == AppendToChain(h, e, n)
           i == s.heap
           K == [h[f].kids EXCEPT ![l] = s.first]
           j == [i EXCEPT ![f].kids = K]
           B == WithLast(A, U)
<1>1. /\ f # Nil /\ f \in DOMAIN h /\ f \notin g.live
      /\ h[f].kind = "choice" /\ h[f].next = Nil /\ h[f].onext = Nil
      /\ a <= pos[f] /\ pos[f] < b /\ Len(A) = l
      /\ \A k \in DOMAIN h[f].kids :
           /\ Open(h, g, <<z, k>>, h[f].kids[k], A[k])
           /\ a <= pos[h[f].kids[k]] /\ pos[h[f].kids[k]] < b
  BY Zenon DEF Several
<1>2. /\ h[f].kids \in Seq(Nat \ {0}) /\ l \in Nat /\ l > 0 /\ DOMAIN h[f].kids = 1..l
      /\ \A k \in DOMAIN h[f].kids : h[f].kids[k] \in DOMAIN h /\ pos[f] < pos[h[f].kids[k]]
      /\ pos[f] \in Nat
  <2>1. /\ h[f].kids \in Seq(Nat \ {0}) /\ DOMAIN h[f].kids = 1..Len(h[f].kids)
        /\ \A k \in DOMAIN h[f].kids : h[f].kids[k] \in DOMAIN h /\ pos[f] < pos[h[f].kids[k]]
        /\ pos[f] \in 0..top /\ top \in Nat /\ 1 \in DOMAIN h[f].kids
    BY <1>1, SoundFacts
  <2>2. l \in Nat
    BY <2>1
  <2>3. l > 0
    BY <2>1, <2>2
  <2> QED
    BY <2>1, <2>2, <2>3
<1>3. l \in DOMAIN h[f].kids
  BY <1>2
<1>4. Open(h, g, o, e, A[l]) /\ a <= pos[e] /\ pos[e] < b
  BY <1>1, <1>3
<1>5. OpenOwner(o) /\ OpenOwner(q) /\ o # q
  <2>1. o \in Int \X Int /\ o[1] = z /\ q \in Int \X Int /\ q[1] = 0
    BY <1>2
  <2> QED
    BY <2>1 DEF OpenOwner, Owners
<1>6. e \in g.live /\ n \in g.live /\ g.lang[n] = U
  BY <1>4 DEF Open
<1>7. /\ e \in DOMAIN h /\ e # Nil /\ n \in DOMAIN h /\ n # Nil /\ U \in SUBSET Seq(Letters)
      /\ pos[n] \in Nat /\ pos[e] \in Nat /\ e \in Nat /\ n \in Nat
  <2> HIDE DEF e, l
  <2>1. e \in DOMAIN h /\ e # Nil /\ pos[e] \in Nat /\ e \in Nat
    BY <1>6, LiveFacts
  <2>2. n \in DOMAIN h /\ n # Nil /\ g.lang[n] \in SUBSET Seq(Letters) /\ pos[n] \in Nat /\ n \in Nat
    BY <1>6, LiveFacts
  <2> QED
    BY <1>6, <2>1, <2>2
<1> HIDE DEF l, o, q, s, i, e
<1>8. /\ Sound(i, pos, top) /\ Relinked(h, g, i) /\ s.first \in {e, n} \ {Nil}
      /\ \A y \in Int : y <= a => StaysBelow(h, pos, i, y)
      /\ \E x : Becomes(h, g, i, x, o, q, s.first, Cat(A[l], U))
  <2>1. Headed(h, g, o, e, A[l]) /\ Open(h, g, q, n, U)
    BY <1>4, Zenon DEF q, Headed
  <2>2. s = AppendToChain(h, e, n)
    BY DEF s
  <2>3. /\ Sound(s.heap, pos, top) /\ Relinked(h, g, s.heap) /\ s.first \in {e, n} \ {Nil}
        /\ \A y \in Int : y <= a => StaysBelow(h, pos, s.heap, y)
        /\ \E x : Becomes(h, g, s.heap, x, o, q, s.first, Cat(A[l], U))
    BY <1>4, <1>5, <2>1, <2>2, AddToChain
  <2> QED
    BY <2>3, Zenon DEF i
<1>9. PICK x : Becomes(h, g, i, x, o, q, s.first, Cat(A[l], U))
  BY <1>8
<1>10. /\ Forest(i, x) /\ x.live = g.live /\ Open(i, x, o, s.first, Cat(A[l], U))
       /\ Keeps(h, g, i, x, {o, q})
  BY <1>9, Zenon DEF Becomes
<1>11. /\ DOMAIN i = DOMAIN h
       /\ \A m \in DOMAIN h : i[m].kind = h[m].kind /\ (m \notin g.live => i[m] = h[m])
  BY <1>8 DEF Relinked
<1>12. i[f] = h[f]
  BY <1>1, <1>11
<1>13. r = [heap |-> j, first |-> f]
  <2>1. IsChoice(h, f)
    BY <1>1 DEF IsChoice
  <2>2. Last(h[f].kids) = e
    BY DEF Last, e, l
  <2>3. r = Chain([s.heap EXCEPT ![f].kids[Len(h[f].kids)] = s.first], f)
    BY <2>1, <2>2, Zenon DEF AppendElement, s
  <2>4. [i EXCEPT ![f].kids[l] = s.first] = j
    <3>1. [i EXCEPT ![f].kids[l] = s.first] = [i EXCEPT ![f].kids = [i[f].kids EXCEPT ![l] = s.first]]
      OBVIOUS
    <3> QED
      BY <1>12, <3>1
  <2> QED
    BY <2>3, <2>4, Zenon DEF Chain, i, l
<1>14. /\ K \in Seq(Nat \ {0}) /\ Len(K) = l /\ DOMAIN K = 1..l /\ K[l] = s.first
       /\ \A k \in 1..l : k # l => K[k] = h[f].kids[k]
  <2>1. s.first \in Nat \ {0}
    BY <1>7, <1>8 DEF Nil
  <2>2. K \in [1..l -> Nat \ {0}] /\ K[l] = s.first /\ \A k \in 1..l : k # l => K[k] = h[f].kids[k]
    BY <1>2, <2>1, SMTT(30)
  <2> HIDE DEF K
  <2>3. K \in Seq(Nat \ {0}) /\ Len(K) = l /\ DOMAIN K = 1..l
    BY <1>2, <2>2
  <2> QED
    BY <2>2, <2>3
<1> HIDE DEF K, B
<1>15. \A k \in 1..l : K[k] \in DOMAIN h /\ pos[f] < pos[K[k]] /\ a <= pos[K[k]] /\ pos[K[k]] < d
  <2> TAKE k \in 1..l
  <2>1. CASE k # l
    <3>1. K[k] = h[f].kids[k]
      BY <1>14, <2>1
    <3>2. h[f].kids[k] \in DOMAIN h /\ pos[f] < pos[h[f].kids[k]]
          /\ a <= pos[h[f].kids[k]] /\ pos[h[f].kids[k]] < b
      BY <1>1, <1>2
    <3>3. pos[h[f].kids[k]] \in Nat
      <4>1. pos[h[f].kids[k]] \in 0..top /\ top \in Nat
        BY <3>2, SoundFacts
      <4> QED
        BY <4>1
    <3> QED
      BY <1>7, <3>1, <3>2, <3>3
  <2>2. CASE k = l
    <3>1. K[k] \in {e, n}
      BY <1>8, <1>14, <2>2
    <3>2. pos[f] < pos[e]
      BY <1>2, <1>3 DEF e
    <3> QED
      BY <1>1, <1>2, <1>4, <1>7, <3>1, <3>2, SMTT(30)
  <2> QED
    BY <2>1, <2>2
<1>16. /\ Sound(j, pos, top) /\ DOMAIN j = DOMAIN i
       /\ j[f] = [i[f] EXCEPT !.kids = K]
       /\ \A m \in DOMAIN i : m # f => j[m] = i[m]
       /\ Forest(j, x) /\ Keeps(i, x, j, x, {})
       /\ \A y \in Int : y <= pos[f] => StaysBelow(i, pos, j, y)
  <2>1. /\ f \in DOMAIN i /\ f \notin x.live /\ i[f].kind = "choice" /\ Len(K) > 0
        /\ \A k \in DOMAIN K : K[k] \in DOMAIN i /\ pos[f] < pos[K[k]]
    BY <1>1, <1>2, <1>10, <1>11, <1>12, <1>14, <1>15
  <2>2. /\ SoundForest(i, pos, top, x, j) /\ DOMAIN j = DOMAIN i
        /\ j[f] = [i[f] EXCEPT !.kids = K]
        /\ \A m \in DOMAIN i : m # f => j[m] = i[m]
        /\ LowerStay(i, pos, j, pos[f])
    BY <1>8, <1>10, <1>14, <2>1, DeadKids
  <2> QED
    BY <2>2, Zenon DEF SoundForest, LowerStay
<1> HIDE DEF j
<1>17. /\ j[f].kind = "choice" /\ j[f].next = Nil /\ j[f].onext = Nil /\ j[f].kids = K
  <2>1. h[f] \in Elements
    BY <1>1, SoundFacts
  <2> QED
    BY <1>1, <1>12, <1>16, <2>1 DEF Elements
<1>18. /\ B \in Seq(SUBSET Seq(Letters)) /\ Len(B) = l /\ B[l] = Cat(A[l], U)
       /\ \A k \in 1..l : k # l => B[k] = A[k]
  <2>1. Len(A) > 0 /\ Len(A) = l
    BY <1>1, <1>2
  <2>2. /\ WithLast(A, U) \in Seq(SUBSET Seq(Letters)) /\ Len(WithLast(A, U)) = Len(A)
        /\ WithLast(A, U)[Len(A)] = Cat(A[Len(A)], U)
        /\ \A k \in 1..(Len(A) - 1) : WithLast(A, U)[k] = A[k]
    BY <1>7, <2>1, WithLastIs
  <2>3. \A k \in 1..l : k # l => k \in 1..(l - 1)
    BY <1>2
  <2> QED
    BY <2>1, <2>2, <2>3, Zenon DEF B
<1>19. \A k \in 1..l : Open(j, x, <<z, k>>, K[k], B[k])
  <2> TAKE k \in 1..l
  <2>1. CASE k # l
    <3>1. Open(h, g, <<z, k>>, K[k], B[k])
      BY <1>1, <1>2, <1>14, <1>18, <2>1
    <3>2. <<z, k>> \notin {o, q}
      BY <2>1 DEF o, q
    <3>3. Open(i, x, <<z, k>>, K[k], B[k])
      BY <1>10, <3>1, <3>2, Zenon DEF Keeps
    <3> QED
      BY <1>16, <3>3 DEF Keeps
  <2>2. CASE k = l
    <3>1. Open(i, x, <<z, k>>, K[k], B[k])
      BY <1>10, <1>14, <1>18, <2>2 DEF o
    <3> QED
      BY <1>16, <3>1 DEF Keeps
  <2> QED
    BY <2>1, <2>2
<1>20. Several(j, pos, x, z, f, B, a, d)
  <2>1. pos[f] < d
    BY <1>1, <1>2, <1>7
  <2>2. \A k \in DOMAIN K : /\ Open(j, x, <<z, k>>, K[k], B[k])
                            /\ a <= pos[K[k]] /\ pos[K[k]] < d
    BY <1>14, <1>15, <1>19
  <2> QED
    BY <1>1, <1>10, <1>11, <1>14, <1>16, <1>17, <1>18, <2>1, <2>2, Zenon DEF Several
<1>21. Kept(h, pos, g, j, pos, x, {z, 0}, a)
  <2>1. ASSUME NEW p, NEW y, NEW C, p[1] \notin {z, 0}, Open(h, g, p, y, C)  PROVE Open(j, x, p, y, C)
    <3>1. p \notin {o, q}
      BY <2>1 DEF o, q
    <3>2. Open(i, x, p, y, C)
      BY <1>10, <2>1, <3>1, Zenon DEF Keeps
    <3> QED
      BY <1>16, <3>2 DEF Keeps
  <2>2. ASSUME NEW y \in Int, y <= a, Below(h, pos, y)  PROVE Below(j, pos, y)
    <3>1. Below(i, pos, y)
      BY <1>8, <2>2 DEF StaysBelow
    <3>2. y <= pos[f]
      BY <1>1, <1>2, <2>2
    <3> QED
      BY <1>16, <3>1, <3>2 DEF StaysBelow
  <2>3. \A m \in DOMAIN h : m \notin g.live /\ pos[m] < a => j[m] = h[m] /\ m \notin x.live
    <3>1. ASSUME NEW m \in DOMAIN h, m \notin g.live, pos[m] < a  PROVE j[m] = h[m] /\ m \notin x.live
      <4>1. m # f
        BY <1>1, <1>2, <3>1
      <4> QED
        BY <1>10, <1>11, <1>16, <3>1, <4>1
    <3> QED
      BY <3>1
  <2>4. \A m \in DOMAIN h : j[m].kind = h[m].kind
    BY <1>1, <1>11, <1>16, <1>17
  <2>5. DOMAIN j = DOMAIN h
    BY <1>11, <1>16
  <2> QED
    BY <2>1, <2>2, <2>3, <2>4, <2>5 DEF Kept
<1>22. Alternatives(j, pos, x, z, f, B, a, d)
  BY <1>18, <1>20, Zenon DEF Alternatives
<1>23. r.heap = j /\ r.first = f
  BY <1>13
<1>24. Grown(h, pos, top, g, r, x, z, B, a, d)
  <2>1. DOMAIN j = DOMAIN h
    BY <1>11, <1>16
  <2> QED
    BY <1>1, <1>10, <1>16, <1>21, <1>22, <1>23, <2>1, Zenon DEF Grown
<1> QED
  BY <1>24 DEF B

\* append_element adds an element to the chains of z.
LEMMA AddElement ==
  ASSUME NEW h, NEW pos, NEW top, Sound(h, pos, top), NEW g, Forest(h, g),
         NEW z \in Int, z < 0, NEW f, NEW A, NEW a \in Int, NEW b \in Int, a < b,
         Alternatives(h, pos, g, z, f, A, a, b),
         NEW n, NEW U, Open(h, g, <<0, 1>>, n, U), g.end[n] = n, h[n].kind # "choice",
         Below(h, pos, b), b <= pos[n],
         NEW d \in Int, pos[n] < d,
         NEW r, r = AppendElement(h, f, n)
  PROVE  \E x : Grown(h, pos, top, g, r, x, z, WithLast(A, U), a, d)
<1>1. /\ A \in Seq(SUBSET Seq(Letters))
      /\ \/ f = Nil /\ Len(A) = 1 /\ A[1] = {<<>>}
         \/ Single(h, pos, g, z, f, A, a, b)
         \/ Several(h, pos, g, z, f, A, a, b)
  BY Zenon DEF Alternatives
<1>2. CASE f = Nil /\ Len(A) = 1 /\ A[1] = {<<>>}
  <2>1. Headed(h, g, <<z, 1>>, f, A[1])
    BY <1>2, Zenon DEF Headed
  <2> QED
    BY <1>1, <1>2, <2>1, AddToHead
<1>3. CASE Single(h, pos, g, z, f, A, a, b)
  <2>1. f # Nil /\ h[f].kind # "choice" /\ a < pos[f] /\ pos[f] < b /\ Len(A) = 1
        /\ Open(h, g, <<z, 1>>, f, A[1])
    BY <1>3, Zenon DEF Single
  <2>2. Headed(h, g, <<z, 1>>, f, A[1])
    BY <2>1, Zenon DEF Headed
  <2> QED
    BY <1>1, <2>1, <2>2, AddToHead
<1>4. CASE Several(h, pos, g, z, f, A, a, b)
  <2>1. a <= b
    OBVIOUS
  <2> QED
    BY <1>1, <1>4, <2>1, AddToChoice
<1> QED
  BY <1>1, <1>2, <1>3, <1>4

-----------------------------------------------------------------------------
(* New elements.                                                           *)

Appended(h, pos, top, g, i, s, n, e, p) ==
  /\ Sound(i, s, top) /\ Forest(i, g) /\ Keeps(h, g, i, g, {})
  /\ DOMAIN i = DOMAIN h \cup {n} /\ n \notin DOMAIN h /\ n \in Nat /\ n # Nil
  /\ i[n] = e /\ s[n] = p
  /\ \A m \in DOMAIN h : i[m] = h[m] /\ s[m] = pos[m]
  /\ \A b \in Int : b <= p /\ Below(h, pos, b) => Below(i, s, b)

\* An element is appended; it is in no chain yet.
LEMMA AppendedIs ==
  ASSUME NEW h, NEW pos, NEW top, Sound(h, pos, top), NEW g, Forest(h, g),
         NEW e \in Elements, KidCount(e), e.next = Nil, e.onext = Nil, Tidy(e.text),
         NEW p \in 0..top, \A k \in DOMAIN e.kids : e.kids[k] \in DOMAIN h /\ p < pos[e.kids[k]]
  PROVE  \E s : Appended(h, pos, top, g, Append(h, e), s, Len(h) + 1, e, p)
<1> DEFINE n == Len(h) + 1
           i == Append(h, e)
           s == [m \in 1..n |-> IF m = n THEN p ELSE pos[m]]
<1>1. h \in Seq(Elements) /\ top \in Nat /\ pos \in [DOMAIN h -> 0..top]
  BY DEF Sound
<1>2. PICK N \in Nat : N = Len(h) /\ DOMAIN h = 1..N /\ n = N + 1
  BY <1>1, LenProperties
<1>3. /\ i \in Seq(Elements) /\ DOMAIN i = 1..n /\ i[n] = e
      /\ \A m \in 1..N : i[m] = h[m]
  BY <1>1, <1>2, AppendProperties
<1> HIDE DEF i
<1>4. s[n] = p /\ \A m \in 1..N : s[m] = pos[m]
  BY <1>2
<1>5. s \in [1..n -> 0..top]
  BY <1>1, <1>2
<1> HIDE DEF s, n
<1>6. ASSUME NEW m \in 1..n
      PROVE  /\ KidCount(i[m])
             /\ i[m].next # Nil => Later(i, s, m, i[m].next)
             /\ i[m].onext # Nil => Later(i, s, m, i[m].onext)
             /\ \A k \in DOMAIN i[m].kids : Later(i, s, m, i[m].kids[k])
  <2>1. CASE m = n
    <3>1. \A k \in DOMAIN e.kids : e.kids[k] \in 1..N /\ p < pos[e.kids[k]]
      BY <1>2
    <3>2. \A y \in 1..N : y \in 1..n /\ s[y] = pos[y]
      BY <1>2, <1>4
    <3>3. \A k \in DOMAIN e.kids : Later(i, s, m, e.kids[k])
      BY <1>3, <1>4, <2>1, <3>1, <3>2 DEF Later
    <3>4. i[m] = e
      BY <1>3, <2>1
    <3> QED
      BY <3>3, <3>4
  <2>2. CASE m # n
    <3>1. m \in 1..N
      BY <1>2, <2>2
    <3>2. i[m] = h[m] /\ m \in DOMAIN h
      BY <1>2, <1>3, <3>1
    <3>3. /\ KidCount(h[m])
          /\ h[m].next # Nil => Later(h, pos, m, h[m].next)
          /\ h[m].onext # Nil => Later(h, pos, m, h[m].onext)
          /\ \A k \in DOMAIN h[m].kids : Later(h, pos, m, h[m].kids[k])
      BY <3>2 DEF Sound
    <3>4. \A y : Later(h, pos, m, y) => Later(i, s, m, y)
      <4>1. \A y \in 1..N : y \in 1..n /\ s[y] = pos[y]
        BY <1>2, <1>4
      <4> QED
        BY <1>2, <1>3, <3>1, <4>1 DEF Later
    <3> QED
      BY <3>2, <3>3, <3>4
  <2> QED
    BY <2>1, <2>2
<1>7. Sound(i, s, top)
  BY <1>1, <1>3, <1>5, <1>6 DEF Sound
<1>8. DOMAIN i = DOMAIN h \cup {n} /\ n \notin DOMAIN h /\ n \in Nat /\ n # Nil
  BY <1>2, <1>3 DEF Nil
<1>9. \A m \in DOMAIN h : i[m] = h[m] /\ s[m] = pos[m]
  BY <1>2, <1>3, <1>4
<1>10. Forest(i, g) /\ Keeps(h, g, i, g, {})
  <2>1. \A m \in DOMAIN h : Tidy(h[m].text)
    BY DEF Forest, Chains
  <2>2. \A m \in DOMAIN i : Tidy(i[m].text)
    BY <1>3, <1>8, <1>9, <2>1
  <2>3. \A m \in g.live : m \in DOMAIN h
    BY LiveFacts
  <2>4. Agrees(h, g, i)
    BY <1>8, <1>9, <2>2, <2>3 DEF Agrees
  <2> QED
    BY <2>4, ForestStays
<1>11. ASSUME NEW b \in Int, b <= p, Below(h, pos, b)  PROVE Below(i, s, b)
  <2> SUFFICES ASSUME NEW m \in DOMAIN i, s[m] < b
               PROVE  /\ i[m].next # Nil => s[i[m].next] < b
                      /\ i[m].onext # Nil => s[i[m].onext] < b
                      /\ \A k \in DOMAIN i[m].kids : s[i[m].kids[k]] < b
    BY DEF Below
  <2>1. m # n
    BY <1>1, <1>4, <1>11
  <2>2. m \in DOMAIN h /\ i[m] = h[m] /\ s[m] = pos[m]
    BY <1>8, <1>9, <2>1
  <2>3. /\ h[m].next # Nil => h[m].next \in DOMAIN h
        /\ h[m].onext # Nil => h[m].onext \in DOMAIN h
        /\ \A k \in DOMAIN h[m].kids : h[m].kids[k] \in DOMAIN h
    BY <2>2, SoundFacts
  <2>4. /\ h[m].next # Nil => pos[h[m].next] < b
        /\ h[m].onext # Nil => pos[h[m].onext] < b
        /\ \A k \in DOMAIN h[m].kids : pos[h[m].kids[k]] < b
    BY <1>11, <2>2 DEF Below
  <2> QED
    BY <1>9, <2>2, <2>3, <2>4
<1>12. Appended(h, pos, top, g, i, s, n, e, p)
  BY <1>3, <1>4, <1>7, <1>8, <1>9, <1>10, <1>11 DEF Appended
<1> QED
  BY <1>12 DEF i, n

\* The words of an element without any inside.
LEMMA UnitType ==
  ASSUME NEW h, NEW pos, NEW top, Sound(h, pos, top), NEW n \in DOMAIN h, NEW lang,
         \A k \in DOMAIN h[n].kids : lang[h[n].kids[k]] \in SUBSET Seq(Letters)
  PROVE  Unit(h, lang, n) \in SUBSET Seq(Letters)
<1> DEFINE L == Seq(Letters)
<1>1. h[n].kind \in Kinds /\ h[n].text \in L
  BY SoundFacts
<1>2. h[n].kind \in {"group", "optional"} => 1 \in DOMAIN h[n].kids
  BY SoundFacts
<1>3. <<>> \in L /\ <<"%">> \in L
  <2>1. "%" \in Letters
    BY Zenon DEF Letters
  <2> QED
    BY <2>1
<1>4. \A k \in DOMAIN h[n].kids : lang[h[n].kids[k]] \in SUBSET L
  OBVIOUS
<1> HIDE DEF L
<1>5. CASE h[n].kind = "literal"
  <2>1. Unit(h, lang, n) = {h[n].text}
    BY <1>5, UnitIs
  <2> QED
    BY <1>1, <2>1 DEF L
<1>6. CASE h[n].kind = "type"
  <2>1. Unit(h, lang, n) = {<<"%">>}
    BY <1>6, UnitIs
  <2>2. \A x \in {<<"%">>} : x \in L
    BY <1>3, Zenon
  <2> QED
    BY <2>1, <2>2, Zenon DEF L
<1>7. CASE h[n].kind = "group"
  <2>1. Unit(h, lang, n) = lang[h[n].kids[1]]
    BY <1>7, UnitIs
  <2>2. lang[h[n].kids[1]] \in SUBSET L
    BY <1>2, <1>4, <1>7
  <2> QED
    BY <2>1, <2>2 DEF L
<1>8. CASE h[n].kind = "optional"
  <2>1. Unit(h, lang, n) = lang[h[n].kids[1]] \cup {<<>>}
    BY <1>8, UnitIs
  <2>2. lang[h[n].kids[1]] \in SUBSET L
    BY <1>2, <1>4, <1>8
  <2>3. \A x \in lang[h[n].kids[1]] \cup {<<>>} : x \in L
    BY <1>3, <2>2, Zenon
  <2> QED
    BY <2>1, <2>3, Zenon DEF L
<1>9. CASE h[n].kind = "choice"
  <2>1. Unit(h, lang, n) = UNION {lang[h[n].kids[k]] : k \in DOMAIN h[n].kids}
    BY <1>9, UnitIs
  <2>2. UNION {lang[h[n].kids[k]] : k \in DOMAIN h[n].kids} \in SUBSET L
    BY <1>4, Zenon
  <2> QED
    BY <2>1, <2>2, Zenon DEF L
<1> QED
  BY <1>1, <1>5, <1>6, <1>7, <1>8, <1>9 DEF Kinds

\* The words of an element depend on those inside it.
LEMMA UnitAgrees ==
  ASSUME NEW h, NEW pos, NEW top, Sound(h, pos, top), NEW n \in DOMAIN h, NEW lang, NEW other,
         \A k \in DOMAIN h[n].kids : other[h[n].kids[k]] = lang[h[n].kids[k]]
  PROVE  Unit(h, other, n) = Unit(h, lang, n)
<1>1. h[n].kind \in Kinds
  BY SoundFacts
<1>2. h[n].kind \in {"group", "optional"} => 1 \in DOMAIN h[n].kids
  BY SoundFacts
<1>3. {other[h[n].kids[k]] : k \in DOMAIN h[n].kids} = {lang[h[n].kids[k]] : k \in DOMAIN h[n].kids}
  BY Zenon
<1>4. CASE h[n].kind = "literal"
  <2>1. Unit(h, other, n) = {h[n].text} /\ Unit(h, lang, n) = {h[n].text}
    BY <1>4, UnitIs
  <2> QED
    BY <2>1, Zenon
<1>5. CASE h[n].kind = "type"
  <2>1. Unit(h, other, n) = {<<"%">>} /\ Unit(h, lang, n) = {<<"%">>}
    BY <1>5, UnitIs
  <2> QED
    BY <2>1, Zenon
<1>6. CASE h[n].kind = "group"
  <2>1. other[h[n].kids[1]] = lang[h[n].kids[1]]
    BY <1>2, <1>6
  <2>2. Unit(h, other, n) = other[h[n].kids[1]] /\ Unit(h, lang, n) = lang[h[n].kids[1]]
    BY <1>6, UnitIs
  <2> QED
    BY <2>1, <2>2, Zenon
<1>7. CASE h[n].kind = "optional"
  <2>1. other[h[n].kids[1]] = lang[h[n].kids[1]]
    BY <1>2, <1>7
  <2>2. /\ Unit(h, other, n) = other[h[n].kids[1]] \cup {<<>>}
        /\ Unit(h, lang, n) = lang[h[n].kids[1]] \cup {<<>>}
    BY <1>7, UnitIs
  <2> QED
    BY <2>1, <2>2, Zenon
<1>8. CASE h[n].kind = "choice"
  <2>1. /\ Unit(h, other, n) = UNION {other[h[n].kids[k]] : k \in DOMAIN h[n].kids}
        /\ Unit(h, lang, n) = UNION {lang[h[n].kids[k]] : k \in DOMAIN h[n].kids}
    BY <1>8, UnitIs
  <2> QED
    BY <1>3, <2>1, Zenon
<1> QED
  BY <1>1, <1>4, <1>5, <1>6, <1>7, <1>8 DEF Kinds

Adopted(h, g, x, z, o, c, U) ==
  /\ Forest(h, x) /\ x.live = g.live \cup {c} /\ Open(h, x, o, c, U) /\ x.end[c] = c
  /\ \A p, y, B : p[1] # z /\ Open(h, g, p, y, B) => Open(h, x, p, y, B)

\* An element with the open chains of z inside becomes a chain.
LEMMA Adopt ==
  ASSUME NEW h, NEW pos, NEW top, Sound(h, pos, top), NEW g, Forest(h, g),
         NEW c \in DOMAIN h, c \notin g.live, h[c].next = Nil, h[c].onext = Nil,
         NEW z \in Int, z <= 0, NEW o, OpenOwner(o), NEW A,
         \A k \in DOMAIN h[c].kids : Open(h, g, <<z, k>>, h[c].kids[k], A[k])
  PROVE  \E x : Adopted(h, g, x, z, o, c, Unit(h, g.lang, c))
<1> DEFINE D == g.live
           N == D \cup {c}
           U == Unit(h, g.lang, c)
           up == [m \in N |-> IF m = c THEN o
                              ELSE IF g.up[m][1] = z THEN <<c, g.up[m][2]>> ELSE g.up[m]]
           end == [m \in N |-> IF m = c THEN c ELSE g.end[m]]
           lang == [m \in N |-> IF m = c THEN U ELSE g.lang[m]]
           x == [live |-> N, up |-> up, end |-> end, lang |-> lang]
<1>1. /\ Chains(h, D, g.end, g.lang) /\ g.up \in [D -> Owners] /\ D \subseteq DOMAIN h
      /\ g.end \in [D -> D] /\ g.lang \in [D -> SUBSET Seq(Letters)]
      /\ \A m \in D : g.up[g.end[m]] = g.up[m]
      /\ \A m \in D : \A k \in DOMAIN h[m].kids : g.up[h[m].kids[k]] = <<m, k>>
      /\ \A m \in DOMAIN h : Tidy(h[m].text)
  BY DEF Forest, Chains
<1>2. \A k \in DOMAIN h[c].kids :
        /\ h[c].kids[k] \in D /\ g.up[h[c].kids[k]] = <<z, k>>
        /\ h[g.end[h[c].kids[k]]].next = Nil
  BY DEF Open
<1>3. U \in SUBSET Seq(Letters)
  <2>1. \A k \in DOMAIN h[c].kids : g.lang[h[c].kids[k]] \in SUBSET Seq(Letters)
    BY <1>1, <1>2
  <2> QED
    BY <2>1, UnitType
<1>4. c \in Int /\ o \in Owners
  <2>1. c \in 1..Len(h) /\ Len(h) \in Nat
    BY SoundFacts
  <2> QED
    BY <2>1 DEF OpenOwner
<1>5. \A m \in D : m # c /\ m \in N /\ g.end[m] \in D /\ g.end[m] # c
  BY <1>1
<1>6. \A m \in D : m \in Nat /\ m # Nil
  BY LiveFacts
<1> HIDE DEF D, U
<1>7. /\ up[c] = o /\ end[c] = c /\ lang[c] = U
      /\ \A m \in D : /\ up[m] = (IF g.up[m][1] = z THEN <<c, g.up[m][2]>> ELSE g.up[m])
                      /\ end[m] = g.end[m] /\ lang[m] = g.lang[m]
  BY <1>5
<1>8. end \in [N -> N]
  BY <1>1
<1>9. up \in [N -> Owners]
  <2>1. \A m \in D : g.up[m] \in Owners /\ <<c, g.up[m][2]>> \in Owners
    BY <1>1, <1>4 DEF Owners
  <2> QED
    BY <1>4, <2>1
<1>10. lang \in [N -> SUBSET Seq(Letters)]
  <2> DEFINE L == SUBSET Seq(Letters)
  <2>1. U \in L /\ \A m \in D : g.lang[m] \in L
    BY <1>1, <1>3
  <2> HIDE DEF L
  <2>2. lang \in [N -> L]
    BY <2>1
  <2> QED
    BY <2>2 DEF L
<1>11. N \subseteq DOMAIN h /\ c \in N /\ D \subseteq N
  BY <1>1
<1>12. x.live = N /\ x.up = up /\ x.end = end /\ x.lang = lang
  OBVIOUS
<1> HIDE DEF N, up, end, lang, x
<1>13. ASSUME NEW m \in D  PROVE Node(h, N, end, lang, m)
  <2>1. Node(h, D, g.end, g.lang, m) /\ m \in DOMAIN h
    BY <1>1, <1>13, Zenon DEF Chains
  <2>2. h[m].onext = Nil => end[m] = m
    BY <1>7, <1>13, <2>1, Zenon DEF Node
  <2>3. h[m].onext # Nil => h[m].onext \in N /\ h[m].next = h[m].onext /\ end[h[m].onext] = end[m]
    <3> SUFFICES ASSUME h[m].onext # Nil
                 PROVE  h[m].onext \in N /\ h[m].next = h[m].onext /\ end[h[m].onext] = end[m]
      OBVIOUS
    <3>1. h[m].onext \in D /\ h[m].next = h[m].onext /\ g.end[h[m].onext] = g.end[m]
      BY <2>1, Zenon DEF Node
    <3> QED
      BY <1>7, <1>11, <1>13, <3>1
  <2>4. \A k \in DOMAIN h[m].kids : /\ h[m].kids[k] \in D /\ h[g.end[h[m].kids[k]]].next = h[m].next
                                    /\ end[h[m].kids[k]] = g.end[h[m].kids[k]]
                                    /\ lang[h[m].kids[k]] = g.lang[h[m].kids[k]]
    <3>1. \A k \in DOMAIN h[m].kids : h[m].kids[k] \in D /\ h[g.end[h[m].kids[k]]].next = h[m].next
      BY <2>1, Zenon DEF Node
    <3> QED
      BY <1>7, <3>1
  <2>5. \A k \in DOMAIN h[m].kids : h[m].kids[k] \in N /\ h[end[h[m].kids[k]]].next = h[m].next
    BY <1>11, <2>4
  <2>6. Unit(h, lang, m) = Unit(h, g.lang, m)
    BY <2>1, <2>4, UnitAgrees
  <2>7. Rest(h, lang, m) = Rest(h, g.lang, m)
    <3>1. CASE h[m].onext = Nil
      BY <3>1, Zenon DEF Rest
    <3>2. CASE h[m].onext # Nil
      <4>1. h[m].onext \in D
        BY <2>1, <3>2, Zenon DEF Node
      <4>2. lang[h[m].onext] = g.lang[h[m].onext]
        BY <1>7, <4>1
      <4> QED
        BY <3>2, <4>2, Zenon DEF Rest
    <3> QED
      BY <3>1, <3>2
  <2>8. lang[m] = Cat(Unit(h, lang, m), Rest(h, lang, m))
    <3>1. g.lang[m] = Cat(Unit(h, g.lang, m), Rest(h, g.lang, m))
      BY <2>1, Zenon DEF Node
    <3>2. lang[m] = g.lang[m]
      BY <1>7, <1>13
    <3> QED
      BY <2>6, <2>7, <3>1, <3>2
  <2> QED
    BY <2>2, <2>3, <2>5, <2>8, Zenon DEF Node
<1>14. Node(h, N, end, lang, c)
  <2>1. \A k \in DOMAIN h[c].kids : h[c].kids[k] \in N /\ h[end[h[c].kids[k]]].next = h[c].next
    BY <1>2, <1>7, <1>11
  <2>2. \A k \in DOMAIN h[c].kids : lang[h[c].kids[k]] = g.lang[h[c].kids[k]]
    BY <1>2, <1>7
  <2>3. Unit(h, lang, c) = U
    BY <2>2, UnitAgrees DEF U
  <2>4. Rest(h, lang, c) = {<<>>}
    BY Zenon DEF Rest
  <2>5. lang[c] = Cat(Unit(h, lang, c), Rest(h, lang, c))
    BY <1>3, <1>7, <2>3, <2>4, CatEmpty
  <2> QED
    BY <1>7, <2>1, <2>5, Zenon DEF Node
<1>15. Chains(h, N, end, lang)
  <2>1. \A m \in N : Node(h, N, end, lang, m)
    BY <1>13, <1>14, Zenon DEF N
  <2> QED
    BY <1>1, <1>8, <1>10, <1>11, <2>1, Zenon DEF Chains
<1>16. \A m \in N : up[end[m]] = up[m]
  <2>1. ASSUME NEW m \in D  PROVE up[end[m]] = up[m]
    <3>1. end[m] = g.end[m] /\ g.end[m] \in D /\ g.up[g.end[m]] = g.up[m]
      BY <1>1, <1>5, <1>7, <2>1
    <3> QED
      BY <1>7, <2>1, <3>1, ZenonT(30)
  <2> QED
    BY <1>7, <2>1 DEF N
<1>17. \A m \in N : \A k \in DOMAIN h[m].kids : up[h[m].kids[k]] = <<m, k>>
  <2>1. ASSUME NEW m \in D, NEW k \in DOMAIN h[m].kids  PROVE up[h[m].kids[k]] = <<m, k>>
    <3>1. h[m].kids[k] \in D /\ g.up[h[m].kids[k]] = <<m, k>>
      <4>1. Node(h, D, g.end, g.lang, m)
        BY <1>1, <2>1, Zenon DEF Chains
      <4> QED
        BY <1>1, <2>1, <4>1, Zenon DEF Node
    <3>2. <<m, k>>[1] # z
      BY <1>6, <2>1 DEF Nil
    <3> QED
      BY <1>7, <3>1, <3>2
  <2>2. ASSUME NEW k \in DOMAIN h[c].kids  PROVE up[h[c].kids[k]] = <<c, k>>
    <3>1. h[c].kids[k] \in D /\ g.up[h[c].kids[k]] = <<z, k>>
      BY <1>2, <2>2
    <3>2. <<z, k>>[1] = z /\ <<z, k>>[2] = k
      OBVIOUS
    <3>3. PICK y : y = h[c].kids[k]
      OBVIOUS
    <3>4. up[y] = (IF g.up[y][1] = z THEN <<c, g.up[y][2]>> ELSE g.up[y])
      BY <1>7, <3>1, <3>3
    <3>5. g.up[y] = <<z, k>>
      BY <3>1, <3>3
    <3>6. up[y] = <<c, k>>
      BY <3>2, <3>4, <3>5
    <3> QED
      BY <3>3, <3>6
  <2> QED
    BY <2>1, <2>2 DEF N
<1>18. Forest(h, x)
  BY <1>9, <1>12, <1>15, <1>16, <1>17, Zenon DEF Forest
<1>19. Open(h, x, o, c, U)
  BY <1>7, <1>11, <1>12 DEF Open
<1>20. ASSUME NEW p, NEW y, NEW B, p[1] # z, Open(h, g, p, y, B)  PROVE Open(h, x, p, y, B)
  <2>1. y \in D /\ OpenOwner(p) /\ g.up[y] = p /\ h[g.end[y]].next = Nil /\ g.lang[y] = B
    BY <1>20 DEF Open, D
  <2>2. up[y] = p /\ end[y] = g.end[y] /\ lang[y] = B /\ y \in N
    BY <1>7, <1>11, <1>20, <2>1
  <2> QED
    BY <1>12, <2>1, <2>2 DEF Open
<1>21. Adopted(h, g, x, z, o, c, U)
  BY <1>7, <1>12, <1>18, <1>19, <1>20, Zenon DEF Adopted, N, D
<1> QED
  BY <1>21 DEF U

\* Chains of other owners stay as they are.
LEMMA AlternativesStay ==
  ASSUME NEW h, NEW pos, NEW top, Sound(h, pos, top), NEW g, Forest(h, g),
         NEW i, NEW s, NEW x, NEW Z, NEW a \in Int, Kept(h, pos, g, i, s, x, Z, a),
         NEW z \in Int, z \notin Z, NEW f, NEW A, NEW c \in Int, NEW b \in Int, b <= a,
         Alternatives(h, pos, g, z, f, A, c, b)
  PROVE  Alternatives(i, s, x, z, f, A, c, b)
<1>0. /\ DOMAIN h \subseteq DOMAIN i
      /\ \A m \in DOMAIN h : s[m] = pos[m] /\ i[m].kind = h[m].kind
      /\ \A m \in DOMAIN h : m \notin g.live /\ pos[m] < a => i[m] = h[m] /\ m \notin x.live
  BY DEF Kept
<1>1. /\ A \in Seq(SUBSET Seq(Letters))
      /\ \/ f = Nil /\ Len(A) = 1 /\ A[1] = {<<>>}
         \/ Single(h, pos, g, z, f, A, c, b)
         \/ Several(h, pos, g, z, f, A, c, b)
  BY Zenon DEF Alternatives
<1>2. ASSUME NEW k, NEW y, NEW C, Open(h, g, <<z, k>>, y, C)  PROVE Open(i, x, <<z, k>>, y, C)
  <2>1. <<z, k>>[1] \notin Z
    OBVIOUS
  <2> QED
    BY <1>2, <2>1, Zenon DEF Kept
<1>3. CASE Single(h, pos, g, z, f, A, c, b)
  <2>1. f # Nil /\ h[f].kind # "choice" /\ c < pos[f] /\ pos[f] < b /\ Len(A) = 1
        /\ Open(h, g, <<z, 1>>, f, A[1])
    BY <1>3, Zenon DEF Single
  <2>2. f \in DOMAIN h
    BY <2>1, LiveFacts DEF Open
  <2>3. i[f].kind # "choice" /\ s[f] = pos[f]
    BY <1>0, <2>1, <2>2
  <2>4. Open(i, x, <<z, 1>>, f, A[1])
    BY <1>2, <2>1
  <2>5. Single(i, s, x, z, f, A, c, b)
    BY <2>1, <2>3, <2>4 DEF Single
  <2> QED
    BY <1>1, <2>5, Zenon DEF Alternatives
<1>4. CASE Several(h, pos, g, z, f, A, c, b)
  <2>1. /\ f # Nil /\ f \in DOMAIN h /\ f \notin g.live
        /\ h[f].kind = "choice" /\ h[f].next = Nil /\ h[f].onext = Nil
        /\ c <= pos[f] /\ pos[f] < b
        /\ Len(A) = Len(h[f].kids)
        /\ \A k \in DOMAIN h[f].kids :
             /\ Open(h, g, <<z, k>>, h[f].kids[k], A[k])
             /\ c <= pos[h[f].kids[k]] /\ pos[h[f].kids[k]] < b
    BY <1>4, Zenon DEF Several
  <2>2. pos[f] \in 0..top /\ top \in Nat /\ \A k \in DOMAIN h[f].kids : h[f].kids[k] \in DOMAIN h
    BY <2>1, SoundFacts
  <2>3. pos[f] < a
    BY <2>1, <2>2
  <2>4. i[f] = h[f] /\ f \notin x.live /\ f \in DOMAIN i /\ s[f] = pos[f]
    BY <1>0, <2>1, <2>3
  <2>5. \A k \in DOMAIN i[f].kids :
             /\ Open(i, x, <<z, k>>, i[f].kids[k], A[k])
             /\ c <= s[i[f].kids[k]] /\ s[i[f].kids[k]] < b
    <3> TAKE k \in DOMAIN i[f].kids
    <3>1. k \in DOMAIN h[f].kids /\ i[f].kids[k] = h[f].kids[k] /\ h[f].kids[k] \in DOMAIN h
      BY <2>2, <2>4
    <3>2. Open(i, x, <<z, k>>, h[f].kids[k], A[k])
      BY <1>2, <2>1, <3>1
    <3> QED
      BY <1>0, <2>1, <3>1, <3>2
  <2>6. Several(i, s, x, z, f, A, c, b)
    BY <2>1, <2>4, <2>5 DEF Several
  <2> QED
    BY <1>1, <2>6, Zenon DEF Alternatives
<1>5. CASE f = Nil /\ Len(A) = 1 /\ A[1] = {<<>>}
  BY <1>1, <1>5, Zenon DEF Alternatives
<1> QED
  BY <1>1, <1>3, <1>4, <1>5

\* The words of an element with the words C inside.
UnitOf(e, C) ==
  CASE e.kind = "literal" -> {e.text}
    [] e.kind = "group" -> C[1]
    [] e.kind = "optional" -> C[1] \cup {<<>>}
    [] e.kind = "choice" -> UNION {C[k] : k \in DOMAIN e.kids}
    [] OTHER -> {<<"%">>}

\* The words of an element, given those of the chains inside it.
LEMMA UnitOfIs ==
  ASSUME NEW h, NEW pos, NEW top, Sound(h, pos, top), NEW n \in DOMAIN h, NEW lang, NEW C,
         \A k \in DOMAIN h[n].kids : lang[h[n].kids[k]] = C[k]
  PROVE  Unit(h, lang, n) = UnitOf(h[n], C)
<1>1. h[n].kind \in Kinds
  BY SoundFacts
<1>2. h[n].kind \in {"group", "optional"} => 1 \in DOMAIN h[n].kids
  BY SoundFacts
<1>3. {lang[h[n].kids[k]] : k \in DOMAIN h[n].kids} = {C[k] : k \in DOMAIN h[n].kids}
  BY Zenon
<1>4. CASE h[n].kind = "literal"
  <2>1. Unit(h, lang, n) = {h[n].text}
    BY <1>4, UnitIs
  <2> QED
    BY <1>4, <2>1, Zenon DEF UnitOf
<1>5. CASE h[n].kind = "type"
  <2>1. Unit(h, lang, n) = {<<"%">>}
    BY <1>5, UnitIs
  <2> QED
    BY <1>5, <2>1, Zenon DEF UnitOf
<1>6. CASE h[n].kind = "group"
  <2>1. lang[h[n].kids[1]] = C[1]
    BY <1>2, <1>6
  <2>2. Unit(h, lang, n) = lang[h[n].kids[1]]
    BY <1>6, UnitIs
  <2> QED
    BY <1>6, <2>1, <2>2, Zenon DEF UnitOf
<1>7. CASE h[n].kind = "optional"
  <2>1. lang[h[n].kids[1]] = C[1]
    BY <1>2, <1>7
  <2>2. Unit(h, lang, n) = lang[h[n].kids[1]] \cup {<<>>}
    BY <1>7, UnitIs
  <2> QED
    BY <1>7, <2>1, <2>2, Zenon DEF UnitOf
<1>8. CASE h[n].kind = "choice"
  <2>1. Unit(h, lang, n) = UNION {lang[h[n].kids[k]] : k \in DOMAIN h[n].kids}
    BY <1>8, UnitIs
  <2> QED
    BY <1>3, <1>8, <2>1, Zenon DEF UnitOf
<1> QED
  BY <1>1, <1>4, <1>5, <1>6, <1>7, <1>8 DEF Kinds

\* A new element around the open chains of w, in no chain yet but its own.
Created(h, pos, top, g, i, s, x, n, e, p, w, o, U) ==
  /\ Sound(i, s, top) /\ Forest(i, x) /\ x.live = g.live \cup {n}
  /\ DOMAIN i = DOMAIN h \cup {n} /\ n \notin DOMAIN h /\ n # Nil
  /\ i[n] = e /\ s[n] = p
  /\ \A m \in DOMAIN h : i[m] = h[m] /\ s[m] = pos[m]
  /\ Open(i, x, o, n, U) /\ x.end[n] = n
  /\ Kept(h, pos, g, i, s, x, {w}, p)

\* A new element adopts the chains inside it and is a chain of its own.
LEMMA Create ==
  ASSUME NEW h, NEW pos, NEW top, Sound(h, pos, top), NEW g, Forest(h, g),
         NEW e \in Elements, KidCount(e), e.next = Nil, e.onext = Nil, Tidy(e.text),
         NEW p \in 0..top, NEW w \in Int, w <= 0, NEW C,
         \A k \in DOMAIN e.kids : Open(h, g, <<w, k>>, e.kids[k], C[k]) /\ p < pos[e.kids[k]],
         NEW o, OpenOwner(o)
  PROVE  \E s, x : Created(h, pos, top, g, Append(h, e), s, x, Len(h) + 1, e, p, w, o, UnitOf(e, C))
<1> DEFINE i == Append(h, e)
           n == Len(h) + 1
<1>1. \A k \in DOMAIN e.kids : e.kids[k] \in DOMAIN h
  <2> TAKE k \in DOMAIN e.kids
  <2>1. e.kids[k] \in g.live
    BY DEF Open
  <2> QED
    BY <2>1, LiveFacts
<1>2. PICK s : Appended(h, pos, top, g, i, s, n, e, p)
  BY <1>1, AppendedIs
<1> HIDE DEF i, n
<1>3. /\ Sound(i, s, top) /\ Forest(i, g) /\ Keeps(h, g, i, g, {})
      /\ DOMAIN i = DOMAIN h \cup {n} /\ n \notin DOMAIN h /\ n \in Nat /\ n # Nil
      /\ i[n] = e /\ s[n] = p
      /\ \A m \in DOMAIN h : i[m] = h[m] /\ s[m] = pos[m]
      /\ \A b \in Int : b <= p /\ Below(h, pos, b) => Below(i, s, b)
  BY <1>2, Zenon DEF Appended
<1>4. \A k \in DOMAIN i[n].kids : Open(i, g, <<w, k>>, i[n].kids[k], C[k])
  <2> TAKE k \in DOMAIN i[n].kids
  <2>1. Open(h, g, <<w, k>>, e.kids[k], C[k])
    BY <1>3
  <2> QED
    BY <1>3, <2>1, Zenon DEF Keeps
<1>5. n \notin g.live /\ n \in DOMAIN i
  BY <1>3, LiveFacts
<1>6. PICK x : Adopted(i, g, x, w, o, n, Unit(i, g.lang, n))
  BY <1>3, <1>4, <1>5, Adopt
<1>7. Unit(i, g.lang, n) = UnitOf(e, C)
  <2>1. \A k \in DOMAIN i[n].kids : g.lang[i[n].kids[k]] = C[k]
    BY <1>4 DEF Open
  <2> QED
    BY <1>3, <1>5, <2>1, UnitOfIs
<1>8. /\ Forest(i, x) /\ x.live = g.live \cup {n} /\ Open(i, x, o, n, UnitOf(e, C)) /\ x.end[n] = n
      /\ \A q, y, B : q[1] # w /\ Open(i, g, q, y, B) => Open(i, x, q, y, B)
  BY <1>6, <1>7, Zenon DEF Adopted
<1>9. Kept(h, pos, g, i, s, x, {w}, p)
  <2>1. ASSUME NEW q, NEW y, NEW B, q[1] \notin {w}, Open(h, g, q, y, B)  PROVE Open(i, x, q, y, B)
    <3>1. Open(i, g, q, y, B)
      BY <1>3, <2>1, Zenon DEF Keeps
    <3> QED
      BY <1>8, <2>1, <3>1, Zenon
  <2>2. \A m \in DOMAIN h : m \notin g.live => m \notin x.live
    BY <1>3, <1>8
  <2> QED
    BY <1>3, <2>1, <2>2 DEF Kept
<1>10. Created(h, pos, top, g, i, s, x, n, e, p, w, o, UnitOf(e, C))
  BY <1>3, <1>8, <1>9, Zenon DEF Created
<1> QED
  BY <1>10 DEF i, n

\* What is kept of fewer owners.
LEMMA KeptWider ==
  ASSUME NEW h, NEW pos, NEW g, NEW i, NEW s, NEW x, NEW Z, NEW Y, Z \subseteq Y,
         NEW a \in Int, NEW b \in Int, b <= a, \A m \in DOMAIN h : pos[m] \in Int,
         Kept(h, pos, g, i, s, x, Z, a)
  PROVE  Kept(h, pos, g, i, s, x, Y, b)
<1>1. /\ DOMAIN h \subseteq DOMAIN i
      /\ \A m \in DOMAIN h : s[m] = pos[m] /\ i[m].kind = h[m].kind
      /\ \A m \in DOMAIN h : m \notin g.live /\ pos[m] < a => i[m] = h[m] /\ m \notin x.live
      /\ \A q \in Int : q <= a /\ Below(h, pos, q) => Below(i, s, q)
  BY DEF Kept
<1>2. \A p, c, B : p[1] \notin Y /\ Open(h, g, p, c, B) => Open(i, x, p, c, B)
  BY Zenon DEF Kept
<1>3. \A m \in DOMAIN h : m \notin g.live /\ pos[m] < b => i[m] = h[m] /\ m \notin x.live
  <2> TAKE m \in DOMAIN h
  <2>1. pos[m] < b => pos[m] < a
    OBVIOUS
  <2> QED
    BY <1>1, <2>1
<1>4. \A q \in Int : q <= b /\ Below(h, pos, q) => Below(i, s, q)
  BY <1>1
<1> QED
  BY <1>1, <1>2, <1>3, <1>4 DEF Kept

\* The order pos is one of numbers.
LEMMA PlacesAreNumbers ==
  ASSUME NEW h, NEW pos, NEW top, Sound(h, pos, top)
  PROVE  \A m \in DOMAIN h : pos[m] \in Int /\ pos[m] \in Nat /\ pos[m] <= top
BY DEF Sound

\* The chains of z with B in place of their words.
AddedTo(h, pos, top, g, r, s, x, z, w, B, a, d, p) ==
  /\ Sound(r.heap, s, top) /\ Forest(r.heap, x)
  /\ Alternatives(r.heap, s, x, z, r.first, B, a, d) /\ r.first # Nil
  /\ Kept(h, pos, g, r.heap, s, x, {z, w, 0}, a)
  /\ \A m \in DOMAIN r.heap : m \in DOMAIN h \/ s[m] = p

\* A new element is added to the chains of z.
LEMMA AddNew ==
  ASSUME NEW h, NEW pos, NEW top, Sound(h, pos, top), NEW g, Forest(h, g),
         NEW e \in Elements, KidCount(e), e.next = Nil, e.onext = Nil, Tidy(e.text), e.kind # "choice",
         NEW p \in 0..top, NEW w \in Int, w <= 0, NEW C,
         \A k \in DOMAIN e.kids : Open(h, g, <<w, k>>, e.kids[k], C[k]) /\ p < pos[e.kids[k]],
         NEW z \in Int, z < 0, z # w,
         NEW a \in Int, NEW b \in Int, NEW d \in Int, a < b, b <= p, p < d,
         NEW f, NEW A, Alternatives(h, pos, g, z, f, A, a, b), Below(h, pos, b),
         NEW r, r = Add(h, f, e)
  PROVE  \E s, x : AddedTo(h, pos, top, g, r, s, x, z, w, WithLast(A, UnitOf(e, C)), a, d, p)
<1> DEFINE i == Append(h, e)
           n == Len(h) + 1
           o == <<0, 1>>
           U == UnitOf(e, C)
<1>1. OpenOwner(o)
  BY DEF OpenOwner, Owners
<1>2. PICK s, x : Created(h, pos, top, g, i, s, x, n, e, p, w, o, U)
  BY <1>1, Create
<1>3. r = AppendElement(i, f, n)
  BY DEF Add
<1> HIDE DEF i, n, U
<1>4. /\ Sound(i, s, top) /\ Forest(i, x) /\ x.live = g.live \cup {n}
      /\ DOMAIN i = DOMAIN h \cup {n} /\ n \notin DOMAIN h /\ n # Nil
      /\ i[n] = e /\ s[n] = p
      /\ \A m \in DOMAIN h : i[m] = h[m] /\ s[m] = pos[m]
      /\ Open(i, x, o, n, U) /\ x.end[n] = n
      /\ Kept(h, pos, g, i, s, x, {w}, p)
  BY <1>2, Zenon DEF Created
<1>5. Alternatives(i, s, x, z, f, A, a, b)
  <2>1. z \notin {w} /\ p \in Int
    OBVIOUS
  <2> QED
    BY <1>4, <2>1, AlternativesStay
<1>6. Below(i, s, b)
  BY <1>4 DEF Kept
<1>7. PICK y : Grown(i, s, top, x, r, y, z, WithLast(A, U), a, d)
  <2>1. i[n].kind # "choice" /\ b <= s[n] /\ s[n] < d
    BY <1>4
  <2>2. \E y : Grown(i, s, top, x, r, y, z, WithLast(A, U), a, d)
    BY <1>3, <1>4, <1>5, <1>6, <2>1, AddElement
  <2> QED
    BY <2>2
<1>8. /\ Sound(r.heap, s, top) /\ Forest(r.heap, y)
      /\ DOMAIN r.heap = DOMAIN i
      /\ Alternatives(r.heap, s, y, z, r.first, WithLast(A, U), a, d) /\ r.first # Nil
      /\ Kept(i, s, x, r.heap, s, y, {z, 0}, a)
  BY <1>7, Zenon DEF Grown
<1>9. Kept(h, pos, g, r.heap, s, y, {z, w, 0}, a)
  <2>1. Kept(h, pos, g, i, s, x, {z, w, 0}, a)
    <3>1. {w} \subseteq {z, w, 0} /\ p \in Int /\ a <= p
      OBVIOUS
    <3>2. \A m \in DOMAIN h : pos[m] \in Int
      BY PlacesAreNumbers
    <3> QED
      BY <1>4, <3>1, <3>2, KeptWider
  <2>2. Kept(i, s, x, r.heap, s, y, {z, w, 0}, a)
    <3>1. {z, 0} \subseteq {z, w, 0} /\ a <= a
      OBVIOUS
    <3>2. \A m \in DOMAIN i : s[m] \in Int
      BY <1>4, PlacesAreNumbers
    <3> QED
      BY <1>8, <3>1, <3>2, KeptWider
  <2> QED
    BY <2>1, <2>2, KeptTwice
<1>10. \A m \in DOMAIN r.heap : m \in DOMAIN h \/ s[m] = p
  BY <1>4, <1>8
<1>11. AddedTo(h, pos, top, g, r, s, y, z, w, WithLast(A, U), a, d, p)
  BY <1>8, <1>9, <1>10, Zenon DEF AddedTo
<1> QED
  BY <1>11, Zenon DEF U

-----------------------------------------------------------------------------
(* The end of a call: its chains become one.                               *)

Closed(h, pos, g, x, z, f, L, a, b) ==
  /\ Forest(h, x) /\ Open(h, x, <<z, 1>>, f, L) /\ a <= pos[f] /\ pos[f] < b
  /\ Kept(h, pos, g, h, pos, x, {z}, a)

AllOf(A) == UNION {A[k] : k \in 1..Len(A)}

\* The alternatives of z become the kids of their choice.
LEMMA Close ==
  ASSUME NEW h, NEW pos, NEW top, Sound(h, pos, top), NEW g, Forest(h, g),
         NEW z \in Int, z < 0, NEW f, f # Nil, NEW A, NEW a \in Int, NEW b \in Int,
         Alternatives(h, pos, g, z, f, A, a, b)
  PROVE  \E x : Closed(h, pos, g, x, z, f, AllOf(A), a, b)
<1> DEFINE L == AllOf(A)
<1>1. /\ A \in Seq(SUBSET Seq(Letters))
      /\ Single(h, pos, g, z, f, A, a, b) \/ Several(h, pos, g, z, f, A, a, b)
  BY Zenon DEF Alternatives
<1>2. CASE Single(h, pos, g, z, f, A, a, b)
  <2>1. f # Nil /\ a < pos[f] /\ pos[f] < b /\ Len(A) = 1 /\ Open(h, g, <<z, 1>>, f, A[1])
    BY <1>2, Zenon DEF Single
  <2>2. L = A[1]
    <3>1. 1..1 = {1}
      OBVIOUS
    <3> DEFINE Ks == 1..Len(A)
    <3>2. Ks = {1}
      BY <2>1, <3>1
    <3> HIDE DEF Ks
    <3>3. UNION {A[k] : k \in Ks} = A[1]
      BY <3>2
    <3> QED
      BY <3>3 DEF Ks, AllOf
  <2>3. pos[f] \in Nat
    BY <2>1, LiveFacts DEF Open
  <2>4. Kept(h, pos, g, h, pos, g, {z}, a)
    BY DEF Kept
  <2>5. a <= pos[f]
    BY <2>1, <2>3
  <2>6. Closed(h, pos, g, g, z, f, L, a, b)
    BY <2>1, <2>2, <2>4, <2>5, Zenon DEF Closed
  <2> QED
    BY <2>6, Zenon
<1>3. CASE Several(h, pos, g, z, f, A, a, b)
  <2>1. /\ f # Nil /\ f \in DOMAIN h /\ f \notin g.live
        /\ h[f].kind = "choice" /\ h[f].next = Nil /\ h[f].onext = Nil
        /\ a <= pos[f] /\ pos[f] < b
        /\ Len(A) = Len(h[f].kids)
        /\ \A k \in DOMAIN h[f].kids : Open(h, g, <<z, k>>, h[f].kids[k], A[k])
    BY <1>3, Zenon DEF Several
  <2>2. OpenOwner(<<z, 1>>) /\ z <= 0
    <3>1. <<z, 1>> \in Int \X Int /\ <<z, 1>>[1] = z
      OBVIOUS
    <3> QED
      BY <3>1 DEF OpenOwner, Owners
  <2>3. PICK x : Adopted(h, g, x, z, <<z, 1>>, f, Unit(h, g.lang, f))
    BY <2>1, <2>2, Adopt
  <2>4. Unit(h, g.lang, f) = L
    <3>1. \A k \in DOMAIN h[f].kids : g.lang[h[f].kids[k]] = A[k]
      BY <2>1 DEF Open
    <3>0. f \in DOMAIN h
      BY <2>1
    <3>2. Unit(h, g.lang, f) = UnitOf(h[f], A)
      <4> HIDE DEF L
      <4> QED
        BY <3>0, <3>1, UnitOfIs
    <3>3. UnitOf(h[f], A) = UNION {A[k] : k \in DOMAIN h[f].kids}
      BY <2>1, Zenon DEF UnitOf
    <3>4. DOMAIN h[f].kids = 1..Len(A)
      BY <2>1, SoundFacts
    <3> QED
      BY <3>2, <3>3, <3>4, Zenon DEF AllOf
  <2> HIDE DEF L
  <2>5. /\ Forest(h, x) /\ x.live = g.live \cup {f} /\ Open(h, x, <<z, 1>>, f, L)
        /\ \A p, y, B : p[1] # z /\ Open(h, g, p, y, B) => Open(h, x, p, y, B)
    BY <2>3, <2>4, Zenon DEF Adopted
  <2>6. Kept(h, pos, g, h, pos, x, {z}, a)
    <3>1. ASSUME NEW m \in DOMAIN h, m \notin g.live, pos[m] < a  PROVE m \notin x.live
      <4>1. pos[m] \in Int /\ pos[f] \in Int
        BY <2>1, PlacesAreNumbers
      <4>2. m # f
        BY <2>1, <3>1, <4>1
      <4> QED
        BY <2>5, <3>1, <4>2
    <3>2. \A p, y, B : p[1] \notin {z} /\ Open(h, g, p, y, B) => Open(h, x, p, y, B)
      BY <2>5, Zenon
    <3> QED
      BY <3>1, <3>2 DEF Kept
  <2>7. Closed(h, pos, g, x, z, f, L, a, b)
    BY <2>1, <2>5, <2>6, Zenon DEF Closed
  <2> QED
    BY <2>7, Zenon DEF L
<1> QED
  BY <1>1, <1>2, <1>3

\* A group alone in an optional gives way to the chain inside it.
LEMMA Unwrap ==
  ASSUME NEW h, NEW pos, NEW top, Sound(h, pos, top), NEW g, Forest(h, g),
         NEW z \in Int, z < 0, NEW f, NEW L, Open(h, g, <<z, 1>>, f, L),
         h[f].kind = "group", h[f].next = Nil, NEW a \in Int
  PROVE  \E x : /\ Forest(h, x) /\ Open(h, x, <<z, 1>>, h[f].kids[1], L)
                /\ Kept(h, pos, g, h, pos, x, {z}, a)
<1> DEFINE D == g.live
           o == <<z, 1>>
           q == <<f, 1>>
           y == h[f].kids[1]
           N == {m \in D : g.up[m] # o}
           up == [m \in N |-> IF g.up[m] = q THEN o ELSE g.up[m]]
           end == [m \in N |-> g.end[m]]
           lang == [m \in N |-> g.lang[m]]
           x == [live |-> N, up |-> up, end |-> end, lang |-> lang]
<1>1. /\ Chains(h, D, g.end, g.lang) /\ g.up \in [D -> Owners] /\ D \subseteq DOMAIN h
      /\ g.end \in [D -> D] /\ g.lang \in [D -> SUBSET Seq(Letters)]
      /\ \A m \in D : g.up[g.end[m]] = g.up[m]
      /\ \A m \in D : \A k \in DOMAIN h[m].kids : g.up[h[m].kids[k]] = <<m, k>>
      /\ \A m \in DOMAIN h : Tidy(h[m].text)
      /\ \A m \in D : Node(h, D, g.end, g.lang, m)
  BY DEF Forest, Chains
<1>2. f \in D /\ OpenOwner(o) /\ g.up[f] = o /\ g.lang[f] = L
  BY DEF Open
<1>3. o \in Owners /\ \A m \in D : \A k : o # <<m, k>>
  BY <1>2, LiveFacts DEF OpenOwner
<1>4. 1 \in DOMAIN h[f].kids /\ y \in D /\ h[g.end[y]].next = Nil /\ g.up[y] = q
  BY <1>1, <1>2, ChainFacts
<1>5. g.lang[y] = L
  <2>1. Node(h, D, g.end, g.lang, f)
    BY <1>1, <1>2
  <2>2. h[f].onext = Nil
    BY <2>1, Zenon DEF Node
  <2>3. Unit(h, g.lang, f) = g.lang[y]
    BY UnitIs
  <2>4. Rest(h, g.lang, f) = {<<>>}
    BY <2>2, Zenon DEF Rest
  <2>5. g.lang[f] = Cat(g.lang[y], {<<>>})
    BY <2>1, <2>3, <2>4, Zenon DEF Node
  <2>6. g.lang[y] \in SUBSET Seq(Letters)
    BY <1>1, <1>4
  <2> QED
    BY <1>2, <2>5, <2>6, CatEmpty
<1>6. f \notin N /\ y \in N /\ o # q /\ N \subseteq D /\ \A m \in D : m \in N <=> g.up[m] # o
  BY <1>2, <1>3, <1>4
<1> HIDE DEF D, o, q, y, N
<1>7. /\ \A m \in N : /\ up[m] = (IF g.up[m] = q THEN o ELSE g.up[m])
                      /\ end[m] = g.end[m] /\ lang[m] = g.lang[m]
      /\ x.live = N /\ x.up = up /\ x.end = end /\ x.lang = lang
  OBVIOUS
<1>8. \A m \in N : m \in D /\ g.end[m] \in N
  BY <1>1, <1>6
<1>9. end \in [N -> N]
  BY <1>8
<1>10. up \in [N -> Owners]
  <2>1. \A m \in N : g.up[m] \in Owners
    BY <1>1, <1>8
  <2> QED
    BY <1>3, <2>1
<1>11. lang \in [N -> SUBSET Seq(Letters)]
  <2> DEFINE S == SUBSET Seq(Letters)
  <2>1. \A m \in N : g.lang[m] \in S
    BY <1>1, <1>8
  <2> HIDE DEF S
  <2>2. lang \in [N -> S]
    BY <2>1
  <2> QED
    BY <2>2 DEF S
<1> HIDE DEF up, end, lang, x
<1>12. ASSUME NEW m \in N
       PROVE  /\ Node(h, N, end, lang, m)
              /\ \A k \in DOMAIN h[m].kids : h[m].kids[k] \in N /\ g.up[h[m].kids[k]] = <<m, k>>
  <2>1. Node(h, D, g.end, g.lang, m) /\ m \in D /\ m \in DOMAIN h
    BY <1>1, <1>8
  <2>2. h[m].onext = Nil => end[m] = m
    BY <1>7, <2>1, Zenon DEF Node
  <2>3. h[m].onext # Nil => h[m].onext \in N /\ h[m].next = h[m].onext /\ end[h[m].onext] = end[m]
    <3> SUFFICES ASSUME h[m].onext # Nil
                 PROVE  h[m].onext \in N /\ h[m].next = h[m].onext /\ end[h[m].onext] = end[m]
      OBVIOUS
    <3>1. PICK w : w = h[m].onext
      OBVIOUS
    <3>2. w \in D /\ h[m].next = w /\ g.end[w] = g.end[m]
      BY <2>1, <3>1, Zenon DEF Node
    <3>3. g.up[w] = g.up[m]
      BY <1>1, <2>1, <3>2
    <3>4. w \in N
      BY <1>6, <2>1, <3>2, <3>3
    <3> QED
      BY <1>7, <3>1, <3>2, <3>4
  <2>4. \A k \in DOMAIN h[m].kids : /\ h[m].kids[k] \in N /\ h[g.end[h[m].kids[k]]].next = h[m].next
                                    /\ g.up[h[m].kids[k]] = <<m, k>>
    <3> TAKE k \in DOMAIN h[m].kids
    <3>1. h[m].kids[k] \in D /\ h[g.end[h[m].kids[k]]].next = h[m].next
      BY <2>1, Zenon DEF Node
    <3>2. g.up[h[m].kids[k]] = <<m, k>>
      BY <1>1, <2>1
    <3>3. o # <<m, k>>
      BY <1>3, <2>1
    <3> QED
      BY <1>6, <3>1, <3>2, <3>3
  <2>5. \A k \in DOMAIN h[m].kids : h[m].kids[k] \in N /\ h[end[h[m].kids[k]]].next = h[m].next
    BY <1>7, <2>4
  <2>6. Unit(h, lang, m) = Unit(h, g.lang, m)
    <3>1. \A k \in DOMAIN h[m].kids : lang[h[m].kids[k]] = g.lang[h[m].kids[k]]
      BY <1>7, <2>4
    <3> QED
      BY <2>1, <3>1, UnitAgrees
  <2>7. Rest(h, lang, m) = Rest(h, g.lang, m)
    <3>1. CASE h[m].onext = Nil
      BY <3>1, Zenon DEF Rest
    <3>2. CASE h[m].onext # Nil
      <4>1. lang[h[m].onext] = g.lang[h[m].onext]
        BY <1>7, <2>3, <3>2
      <4> QED
        BY <3>2, <4>1, Zenon DEF Rest
    <3> QED
      BY <3>1, <3>2
  <2>8. lang[m] = Cat(Unit(h, lang, m), Rest(h, lang, m))
    <3>1. g.lang[m] = Cat(Unit(h, g.lang, m), Rest(h, g.lang, m))
      BY <2>1, Zenon DEF Node
    <3>2. lang[m] = g.lang[m]
      BY <1>7
    <3> QED
      BY <2>6, <2>7, <3>1, <3>2
  <2>9. Node(h, N, end, lang, m)
    BY <2>2, <2>3, <2>5, <2>8, Zenon DEF Node
  <2> QED
    BY <2>4, <2>9
<1>13. Chains(h, N, end, lang)
  <2>1. N \subseteq DOMAIN h
    BY <1>1, <1>8
  <2>2. \A m \in N : Node(h, N, end, lang, m)
    BY <1>12
  <2> QED
    BY <1>1, <1>9, <1>11, <2>1, <2>2, Zenon DEF Chains
<1>14. \A m \in N : up[end[m]] = up[m]
  <2> TAKE m \in N
  <2>1. end[m] = g.end[m] /\ g.end[m] \in N /\ g.up[g.end[m]] = g.up[m]
    BY <1>1, <1>7, <1>8
  <2> QED
    BY <1>7, <2>1
<1>15. \A m \in N : \A k \in DOMAIN h[m].kids : up[h[m].kids[k]] = <<m, k>>
  <2> TAKE m \in N
  <2> TAKE k \in DOMAIN h[m].kids
  <2>1. h[m].kids[k] \in N /\ g.up[h[m].kids[k]] = <<m, k>>
    BY <1>12
  <2>2. <<m, k>> # q
    <3>1. m # f
      BY <1>6
    <3> QED
      BY <3>1 DEF q
  <2> QED
    BY <1>7, <2>1, <2>2
<1>16. Forest(h, x)
  BY <1>7, <1>10, <1>13, <1>14, <1>15, ZenonT(30) DEF Forest
<1>17. Open(h, x, o, y, L)
  <2>1. up[y] = o /\ end[y] = g.end[y] /\ lang[y] = L
    BY <1>4, <1>5, <1>6, <1>7
  <2> QED
    BY <1>2, <1>4, <1>6, <1>7, <2>1 DEF Open
<1>18. ASSUME NEW p, NEW c, NEW B, p[1] \notin {z}, Open(h, g, p, c, B)  PROVE Open(h, x, p, c, B)
  <2>1. c \in D /\ OpenOwner(p) /\ g.up[c] = p /\ h[g.end[c]].next = Nil /\ g.lang[c] = B
    BY <1>18 DEF Open, D
  <2>2. p # o
    BY <1>18 DEF o
  <2>3. p # q
    <3>1. f \in Nat /\ f # Nil
      BY <1>2, LiveFacts DEF D
    <3> QED
      BY <2>1, <3>1 DEF OpenOwner, q, Nil
  <2>4. c \in N
    BY <1>6, <2>1, <2>2
  <2>5. up[c] = p /\ end[c] = g.end[c] /\ lang[c] = B
    BY <1>7, <2>1, <2>3, <2>4
  <2> QED
    BY <1>7, <2>1, <2>4, <2>5 DEF Open
<1>19. Kept(h, pos, g, h, pos, x, {z}, a)
  <2>1. \A m \in DOMAIN h : m \notin g.live => m \notin x.live
    BY <1>7, <1>8 DEF D
  <2> QED
    BY <1>18, <2>1 DEF Kept
<1> QED
  BY <1>16, <1>17, <1>19 DEF o, y

-----------------------------------------------------------------------------
(* What a call does to its chains.                                         *)

Under(h, pos, b) == \A m \in DOMAIN h : pos[m] < b

\* What is under a bound is below it.
LEMMA UnderIsBelow ==
  ASSUME NEW h, NEW pos, NEW top, Sound(h, pos, top), NEW b, Under(h, pos, b)
  PROVE  Below(h, pos, b)
BY SoundFacts DEF Under, Below

\* The chains of z go on to d, with the words B.
Advances(h, pos, top, g, r, s, x, z, B, a, d) ==
  /\ Sound(r.heap, s, top) /\ Forest(r.heap, x)
  /\ Alternatives(r.heap, s, x, z, r.first, B, a, d)
  /\ Kept(h, pos, g, r.heap, s, x, {z, 0}, a)
  /\ Under(r.heap, s, d)

\* The chains of z in a wider room.
LEMMA AlternativesWider ==
  ASSUME NEW h, NEW pos, NEW top, Sound(h, pos, top), NEW g, Forest(h, g),
         NEW z, NEW f, NEW A, NEW a \in Int, NEW b \in Int, NEW d \in Int, b <= d,
         Alternatives(h, pos, g, z, f, A, a, b)
  PROVE  Alternatives(h, pos, g, z, f, A, a, d)
<1>1. CASE f = Nil
  <2>1. ~Single(h, pos, g, z, f, A, a, b) /\ ~Several(h, pos, g, z, f, A, a, b)
    BY <1>1, Zenon DEF Single, Several
  <2> QED
    BY <2>1, Zenon DEF Alternatives
<1>2. CASE Single(h, pos, g, z, f, A, a, b)
  <2>1. f \in DOMAIN h
    BY <1>2, LiveFacts DEF Single, Open
  <2>2. pos[f] \in Int
    BY <2>1, PlacesAreNumbers
  <2>3. pos[f] < b
    BY <1>2, Zenon DEF Single
  <2>4. pos[f] < d
    BY <2>2, <2>3
  <2>5. Single(h, pos, g, z, f, A, a, d)
    BY <1>2, <2>4, Zenon DEF Single
  <2> QED
    BY <2>5, Zenon DEF Alternatives
<1>3. CASE Several(h, pos, g, z, f, A, a, b)
  <2>1. f \in DOMAIN h /\ pos[f] < b
    BY <1>3, Zenon DEF Several
  <2>2. pos[f] \in Int
    BY <2>1, PlacesAreNumbers
  <2>3. pos[f] < d
    BY <2>1, <2>2
  <2>4. \A k \in DOMAIN h[f].kids : pos[h[f].kids[k]] < d
    <3> TAKE k \in DOMAIN h[f].kids
    <3>1. pos[h[f].kids[k]] < b
      BY <1>3, Zenon DEF Several
    <3>2. h[f].kids[k] \in DOMAIN h
      BY <2>1, SoundFacts
    <3>3. pos[h[f].kids[k]] \in Int
      BY <3>2, PlacesAreNumbers
    <3> QED
      BY <3>1, <3>3
  <2>5. Several(h, pos, g, z, f, A, a, d)
    BY <1>3, <2>3, <2>4, Zenon DEF Several
  <2> QED
    BY <2>5, Zenon DEF Alternatives
<1> QED
  BY <1>1, <1>2, <1>3, Zenon DEF Alternatives

\* One step and then another.
LEMMA AdvancesTwice ==
  ASSUME NEW h, NEW pos, NEW top, NEW g, NEW r, NEW s, NEW x, NEW q, NEW t, NEW y,
         NEW z, NEW B, NEW C, NEW a \in Int, NEW b, NEW d,
         Advances(h, pos, top, g, r, s, x, z, B, a, b),
         Advances(r.heap, s, top, x, q, t, y, z, C, a, d)
  PROVE  Advances(h, pos, top, g, q, t, y, z, C, a, d)
<1>1. Kept(h, pos, g, r.heap, s, x, {z, 0}, a) /\ Kept(r.heap, s, x, q.heap, t, y, {z, 0}, a)
  BY Zenon DEF Advances
<1>2. Kept(h, pos, g, q.heap, t, y, {z, 0}, a)
  BY <1>1, KeptTwice
<1> QED
  BY <1>2, Zenon DEF Advances

\* An element without any inside is added.
LEMMA AddPlain ==
  ASSUME NEW h, NEW pos, NEW top, Sound(h, pos, top), NEW g, Forest(h, g),
         NEW kind \in {"literal", "type"}, NEW t \in Seq(Letters), Tidy(t),
         NEW z \in Int, z < 0, NEW a \in Int, NEW b \in 0..top, NEW d \in Int, a < b, b < d,
         NEW f, NEW A, Alternatives(h, pos, g, z, f, A, a, b), Under(h, pos, b),
         NEW r, r = Add(h, f, Element(kind, t, <<>>)),
         NEW U, U = IF kind = "literal" THEN {t} ELSE {<<"%">>}
  PROVE  \E s, x : Advances(h, pos, top, g, r, s, x, z, WithLast(A, U), a, d)
<1> DEFINE e == Element(kind, t, <<>>)
<1>1. /\ e \in Elements /\ e.next = Nil /\ e.onext = Nil /\ e.text = t /\ e.kind = kind
      /\ e.kids = <<>> /\ DOMAIN e.kids = {}
  <2>1. <<>> \in Seq(Nat \ {0}) /\ kind \in Kinds /\ Nil \in Nat
    BY DEF Nil, Kinds
  <2> QED
    BY <2>1 DEF Element, Elements
<1>2. KidCount(e) /\ e.kind # "choice"
  BY <1>1 DEF KidCount
<1>3. UnitOf(e, <<>>) = U
  BY <1>1 DEF UnitOf
<1> HIDE DEF e
<1>4. Below(h, pos, b)
  BY UnderIsBelow
<1>5. \A k \in DOMAIN e.kids : Open(h, g, <<0, k>>, e.kids[k], <<>>[k]) /\ b < pos[e.kids[k]]
  BY <1>1
<1>6. 0 \in Int /\ z # 0 /\ b \in Int /\ b <= b /\ 0 <= 0
  OBVIOUS
<1>7. r = Add(h, f, e) /\ Tidy(e.text)
  BY <1>1 DEF e
<1>8. PICK s, x : AddedTo(h, pos, top, g, r, s, x, z, 0, WithLast(A, UnitOf(e, <<>>)), a, d, b)
  <2>1. \E s, x : AddedTo(h, pos, top, g, r, s, x, z, 0, WithLast(A, UnitOf(e, <<>>)), a, d, b)
    BY <1>1, <1>2, <1>4, <1>5, <1>6, <1>7, AddNew
  <2> QED
    BY <2>1
<1>9. /\ Sound(r.heap, s, top) /\ Forest(r.heap, x)
      /\ Alternatives(r.heap, s, x, z, r.first, WithLast(A, U), a, d)
      /\ Kept(h, pos, g, r.heap, s, x, {z, 0, 0}, a)
      /\ \A m \in DOMAIN r.heap : m \in DOMAIN h \/ s[m] = b
  BY <1>3, <1>8, Zenon DEF AddedTo
<1>10. {z, 0, 0} = {z, 0}
  OBVIOUS
<1>11. Under(r.heap, s, d)
  <2> SUFFICES ASSUME NEW m \in DOMAIN r.heap  PROVE s[m] < d
    BY DEF Under
  <2>1. CASE s[m] = b
    BY <2>1
  <2>2. CASE m \in DOMAIN h
    <3>1. s[m] = pos[m]
      BY <1>9, <2>2 DEF Kept
    <3>2. pos[m] < b /\ pos[m] \in Int
      BY <2>2, PlacesAreNumbers DEF Under
    <3> QED
      BY <3>1, <3>2
  <2> QED
    BY <1>9, <2>1, <2>2
<1>12. Advances(h, pos, top, g, r, s, x, z, WithLast(A, U), a, d)
  BY <1>9, <1>10, <1>11 DEF Advances
<1> QED
  BY <1>12, Zenon

FlushedWords(t, A) == IF t = <<>> THEN A ELSE WithLast(A, {t})

\* A collected literal is added.
LEMMA Flush ==
  ASSUME NEW h, NEW pos, NEW top, Sound(h, pos, top), NEW g, Forest(h, g),
         NEW t \in Seq(Letters), Tidy(t),
         NEW z \in Int, z < 0, NEW a \in Int, NEW b \in 0..top, NEW d \in Int, a < b,
         b <= d, t # <<>> => b < d,
         NEW f, NEW A, Alternatives(h, pos, g, z, f, A, a, b), Under(h, pos, b),
         NEW r, r = IF t = <<>> THEN Chain(h, f) ELSE Add(h, f, Element("literal", t, <<>>))
  PROVE  \E s, x : Advances(h, pos, top, g, r, s, x, z, FlushedWords(t, A), a, d)
<1>1. CASE t = <<>>
  <2>1. r.heap = h /\ r.first = f /\ FlushedWords(t, A) = A
    BY <1>1 DEF FlushedWords, Chain
  <2>2. Kept(h, pos, g, h, pos, g, {z, 0}, a)
    BY DEF Kept
  <2>3. Under(h, pos, d)
    <3>1. \A m \in DOMAIN h : pos[m] \in Int
      BY PlacesAreNumbers
    <3> QED
      BY <3>1 DEF Under
  <2>4. Alternatives(h, pos, g, z, f, A, a, d)
    <3>1. b \in Int
      OBVIOUS
    <3> QED
      BY <3>1, AlternativesWider
  <2>5. Advances(h, pos, top, g, r, pos, g, z, FlushedWords(t, A), a, d)
    BY <2>1, <2>2, <2>3, <2>4, Zenon DEF Advances
  <2> QED
    BY <2>5, Zenon
<1>2. CASE t # <<>>
  <2>1. r = Add(h, f, Element("literal", t, <<>>)) /\ FlushedWords(t, A) = WithLast(A, {t})
    BY <1>2 DEF FlushedWords
  <2>2. b < d /\ "literal" \in {"literal", "type"}
    BY <1>2
  <2>3. {t} = IF "literal" = "literal" THEN {t} ELSE {<<"%">>}
    OBVIOUS
  <2>4. \E s, x : Advances(h, pos, top, g, r, s, x, z, WithLast(A, {t}), a, d)
    BY <2>1, <2>2, <2>3, AddPlain
  <2> QED
    BY <2>1, <2>4
<1> QED
  BY <1>1, <1>2

\* A slot is added.
LEMMA AddSlot ==
  ASSUME NEW h, NEW pos, NEW top, Sound(h, pos, top), NEW g, Forest(h, g),
         NEW z \in Int, z < 0, NEW a \in Int, NEW b \in 0..top, NEW d \in Int, a < b, b < d,
         NEW f, NEW A, Alternatives(h, pos, g, z, f, A, a, b), Under(h, pos, b),
         NEW r, r = Add(h, f, Element("type", <<>>, <<>>))
  PROVE  \E s, x : Advances(h, pos, top, g, r, s, x, z, WithLast(A, {<<"%">>}), a, d)
<1>1. <<>> \in Seq(Letters) /\ Tidy(<<>>) /\ "type" \in {"literal", "type"}
  BY DEF Tidy
<1>2. {<<"%">>} = IF "type" = "literal" THEN {<<>>} ELSE {<<"%">>}
  OBVIOUS
<1> QED
  BY <1>1, <1>2, AddPlain

\* The empty literal.
LEMMA EmptyIs ==
  /\ Empty \in Elements /\ KidCount(Empty) /\ Empty.next = Nil /\ Empty.onext = Nil
  /\ Tidy(Empty.text) /\ Empty.kind = "literal" /\ Empty.kids = <<>> /\ DOMAIN Empty.kids = {}
  /\ UnitOf(Empty, <<>>) = {<<>>}
<1>1. /\ Empty.next = Nil /\ Empty.onext = Nil /\ Empty.text = <<>> /\ Empty.kind = "literal"
      /\ Empty.kids = <<>> /\ Empty \in Elements
  <2>1. <<>> \in Seq(Nat \ {0}) /\ "literal" \in Kinds /\ Nil \in Nat /\ <<>> \in Seq(Letters)
    BY DEF Nil, Kinds
  <2> QED
    BY <2>1 DEF Empty, Element, Elements
<1>2. DOMAIN Empty.kids = {}
  BY <1>1
<1>3. UnitOf(Empty, <<>>) = {<<>>}
  BY <1>1, Zenon DEF UnitOf
<1>4. Tidy(<<>>)
  BY DEF Tidy
<1>5. KidCount(Empty)
  BY <1>1 DEF KidCount
<1> QED
  BY <1>1, <1>2, <1>3, <1>4, <1>5

\* An empty literal, in a chain of its own.
LEMMA NewEmpty ==
  ASSUME NEW h, NEW pos, NEW top, Sound(h, pos, top), NEW g, Forest(h, g),
         NEW p \in 0..top, NEW o, OpenOwner(o)
  PROVE  \E s, x : Created(h, pos, top, g, Append(h, Empty), s, x, Len(h) + 1, Empty, p, 0, o, {<<>>})
<1>1. \A k \in DOMAIN Empty.kids : Open(h, g, <<0, k>>, Empty.kids[k], <<>>[k]) /\ p < pos[Empty.kids[k]]
  BY EmptyIs
<1>2. 0 \in Int /\ 0 <= 0
  OBVIOUS
<1>3. /\ Empty \in Elements /\ KidCount(Empty) /\ Empty.next = Nil /\ Empty.onext = Nil
      /\ Tidy(Empty.text) /\ UnitOf(Empty, <<>>) = {<<>>}
  BY EmptyIs
<1>4. \E s, x : Created(h, pos, top, g, Append(h, Empty), s, x, Len(h) + 1, Empty, p, 0, o, UnitOf(Empty, <<>>))
  BY <1>1, <1>2, <1>3, Create
<1> QED
  BY <1>3, <1>4

\* An element in front of what is placed at p or behind it, in no chain.
LEMMA AppendedKeeps ==
  ASSUME NEW h, NEW pos, NEW top, NEW g, NEW i, NEW s, NEW n, NEW e, NEW p \in Int,
         Appended(h, pos, top, g, i, s, n, e, p), NEW z
  PROVE  Kept(h, pos, g, i, s, g, {z, 0}, p)
<1>1. \A o, c, B : Open(h, g, o, c, B) => Open(i, g, o, c, B)
  BY Zenon DEF Appended, Keeps
<1>2. /\ DOMAIN h \subseteq DOMAIN i
      /\ \A m \in DOMAIN h : i[m] = h[m] /\ s[m] = pos[m]
      /\ \A b \in Int : b <= p /\ Below(h, pos, b) => Below(i, s, b)
  BY DEF Appended
<1> QED
  BY <1>1, <1>2, Zenon DEF Kept

\* A new element keeps what is before it.
LEMMA CreatedKeeps ==
  ASSUME NEW h, NEW pos, NEW top, Sound(h, pos, top), NEW g, NEW i, NEW s, NEW x, NEW n, NEW e,
         NEW p \in Int, NEW o, NEW U,
         Created(h, pos, top, g, i, s, x, n, e, p, 0, o, U), NEW z, NEW a \in Int, a <= p
  PROVE  Kept(h, pos, g, i, s, x, {z, 0}, a)
<1>1. Kept(h, pos, g, i, s, x, {0}, p) /\ {0} \subseteq {z, 0}
  BY Zenon DEF Created
<1>2. \A m \in DOMAIN h : pos[m] \in Int
  BY PlacesAreNumbers
<1> QED
  BY <1>1, <1>2, KeptWider

\* Two kids.
LEMMA PairKids ==
  ASSUME NEW f \in Nat \ {0}, NEW n \in Nat \ {0}, NEW e, e = Element("choice", <<>>, <<f, n>>)
  PROVE  /\ e \in Elements /\ KidCount(e) /\ e.next = Nil /\ e.onext = Nil /\ e.kind = "choice"
         /\ Tidy(e.text) /\ e.kids = <<f, n>> /\ DOMAIN e.kids = {1, 2} /\ Len(e.kids) = 2
         /\ e.kids[1] = f /\ e.kids[2] = n
<1>1. <<f, n>> \in Seq(Nat \ {0}) /\ "choice" \in Kinds /\ Nil \in Nat /\ <<>> \in Seq(Letters)
  BY DEF Nil, Kinds
<1>2. /\ e.next = Nil /\ e.onext = Nil /\ e.text = <<>> /\ e.kind = "choice"
      /\ e.kids = <<f, n>> /\ e \in Elements
  BY <1>1 DEF Element, Elements
<1>3. Tidy(<<>>)
  BY DEF Tidy
<1>4. Len(<<f, n>>) = 2 /\ DOMAIN <<f, n>> = {1, 2} /\ <<f, n>>[1] = f /\ <<f, n>>[2] = n
  <2>1. Len(<<f, n>>) = 2 /\ <<f, n>>[1] = f /\ <<f, n>>[2] = n /\ DOMAIN <<f, n>> = 1..2
    OBVIOUS
  <2>2. 1..2 = {1, 2}
    OBVIOUS
  <2> QED
    BY <2>1, <2>2
<1>5. KidCount(e)
  <2>1. Len(e.kids) > 0 /\ e.kind \notin {"group", "optional"} /\ e.kind \notin {"literal", "type"}
    <3>1. e.kids = <<f, n>> /\ Len(<<f, n>>) = 2 /\ 2 > 0
      BY <1>2, <1>4
    <3>2. Len(e.kids) > 0
      BY <3>1
    <3>3. e.kind = "choice"
      BY <1>2
    <3>4. "choice" \notin {"group", "optional"} /\ "choice" \notin {"literal", "type"}
      OBVIOUS
    <3> QED
      BY <3>2, <3>3, <3>4
  <2> QED
    BY <2>1, Zenon DEF KidCount
<1> QED
  BY <1>2, <1>3, <1>4, <1>5

\* The chain at f becomes the first alternative of a choice, the second is empty.
LEMMA Branch ==
  ASSUME NEW h, NEW pos, NEW top, Sound(h, pos, top), NEW g, Forest(h, g),
         NEW z \in Int, z < 0, NEW a \in 0..top, NEW p \in 0..top, a < p, NEW d \in Int, p < d,
         NEW f, NEW L, Open(h, g, <<z, 1>>, f, L), a < pos[f], Under(h, pos, p),
         NEW r, r = Chain(Append(Append(h, Empty), Element("choice", <<>>, <<f, Len(h) + 1>>)), Len(h) + 2)
  PROVE  \E s, x : Advances(h, pos, top, g, r, s, x, z, <<L, {<<>>}>>, a, d)
<1> DEFINE i == Append(h, Empty)
           n == Len(h) + 1
           e == Element("choice", <<>>, <<f, n>>)
           j == Append(i, e)
           c == Len(i) + 1
           o == <<z, 2>>
<1>1. OpenOwner(o) /\ o[1] = z /\ o[2] = 2
  BY DEF OpenOwner, Owners
<1>2. PICK s, x : Created(h, pos, top, g, i, s, x, n, Empty, p, 0, o, {<<>>})
  <2>1. \E s, x : Created(h, pos, top, g, i, s, x, n, Empty, p, 0, o, {<<>>})
    BY <1>1, NewEmpty
  <2> QED
    BY <2>1
<1>3. h \in Seq(Elements) /\ Len(h) \in Nat /\ Len(i) = Len(h) + 1 /\ c = Len(h) + 2
  <2>1. h \in Seq(Elements) /\ Empty \in Elements
    BY EmptyIs DEF Sound
  <2> QED
    BY <2>1
<1>4. /\ f \in DOMAIN h /\ f \in Nat \ {0} /\ pos[f] \in Int /\ L \in SUBSET Seq(Letters)
  <2>1. f \in g.live /\ g.lang[f] = L
    BY Zenon DEF Open
  <2> QED
    BY <2>1, LiveFacts, PlacesAreNumbers DEF Nil
<1>5. n \in Nat \ {0} /\ e = Element("choice", <<>>, <<f, n>>) /\ r.heap = j /\ r.first = c
  BY <1>3 DEF Chain
<1>6. /\ e \in Elements /\ KidCount(e) /\ e.next = Nil /\ e.onext = Nil /\ e.kind = "choice"
      /\ Tidy(e.text) /\ e.kids = <<f, n>> /\ DOMAIN e.kids = {1, 2} /\ Len(e.kids) = 2
      /\ e.kids[1] = f /\ e.kids[2] = n
  BY <1>4, <1>5, PairKids
<1> HIDE DEF i, n, e, o
<1>7. /\ Sound(i, s, top) /\ Forest(i, x) /\ x.live = g.live \cup {n}
      /\ DOMAIN i = DOMAIN h \cup {n} /\ n \notin DOMAIN h /\ s[n] = p
      /\ \A m \in DOMAIN h : i[m] = h[m] /\ s[m] = pos[m]
      /\ Open(i, x, o, n, {<<>>})
  BY <1>2, Zenon DEF Created
<1>8. \A k \in DOMAIN e.kids : e.kids[k] \in DOMAIN i /\ a < s[e.kids[k]]
  <2>1. f \in DOMAIN i /\ a < s[f] /\ n \in DOMAIN i /\ a < s[n]
    BY <1>4, <1>7
  <2> QED
    BY <1>6, <2>1
<1>9. PICK t : Appended(i, s, top, x, j, t, c, e, a)
  <2>1. \E t : Appended(i, s, top, x, j, t, c, e, a)
    BY <1>6, <1>7, <1>8, AppendedIs
  <2> QED
    BY <2>1
<1> HIDE DEF j, c
<1>10. /\ Sound(j, t, top) /\ Forest(j, x)
       /\ DOMAIN j = DOMAIN i \cup {c} /\ c \notin DOMAIN i /\ c # Nil
       /\ j[c] = e /\ t[c] = a
       /\ \A m \in DOMAIN i : j[m] = i[m] /\ t[m] = s[m]
       /\ \A q, y, B : Open(i, x, q, y, B) => Open(j, x, q, y, B)
  BY <1>9, Zenon DEF Appended, Keeps
<1>11. Kept(h, pos, g, j, t, x, {z, 0}, a)
  <2>1. a \in Int /\ p \in Int /\ a <= p
    OBVIOUS
  <2>2. Kept(h, pos, g, i, s, x, {z, 0}, a)
    BY <1>2, <2>1, CreatedKeeps
  <2>3. Kept(i, s, x, j, t, x, {z, 0}, a)
    BY <1>9, <2>1, AppendedKeeps
  <2> QED
    BY <2>1, <2>2, <2>3, KeptTwice
<1>12. Open(j, x, <<z, 1>>, f, L) /\ Open(j, x, <<z, 2>>, n, {<<>>})
  <2>1. <<z, 1>>[1] = z /\ z \notin {0}
    OBVIOUS
  <2>2. Open(i, x, <<z, 1>>, f, L)
    <3>1. Kept(h, pos, g, i, s, x, {0}, p)
      BY <1>2, Zenon DEF Created
    <3> QED
      BY <2>1, <3>1, Zenon DEF Kept
  <2>3. Open(j, x, <<z, 1>>, f, L)
    BY <1>10, <2>2, Zenon
  <2>4. Open(j, x, o, n, {<<>>})
    BY <1>7, <1>10, Zenon
  <2> QED
    BY <2>3, <2>4 DEF o
<1>13. c \notin x.live
  BY <1>7, <1>10 DEF Forest, Chains
<1>14. t[f] = pos[f] /\ t[n] = p /\ pos[f] < p
  <2>1. t[f] = pos[f]
    BY <1>4, <1>7, <1>10
  <2>2. t[n] = p
    BY <1>7, <1>10
  <2>3. pos[f] < p
    BY <1>4 DEF Under
  <2> QED
    BY <2>1, <2>2, <2>3
<1>15. /\ a <= t[c] /\ t[c] < d
       /\ a <= t[f] /\ t[f] < d /\ a <= t[n] /\ t[n] < d
  BY <1>4, <1>10, <1>14
<1> DEFINE A == <<L, {<<>>}>>
<1>16. Len(A) = 2 /\ A[1] = L /\ A[2] = {<<>>} /\ A \in Seq(SUBSET Seq(Letters))
  <2>1. {<<>>} \in SUBSET Seq(Letters)
    OBVIOUS
  <2> DEFINE S == SUBSET Seq(Letters)
  <2>2. L \in S /\ {<<>>} \in S
    BY <1>4, <2>1
  <2> HIDE DEF S
  <2>3. <<L, {<<>>}>> \in Seq(S)
    BY <2>2
  <2> QED
    BY <2>3 DEF S
<1> HIDE DEF A
<1>17. Several(j, t, x, z, c, A, a, d)
  <2>1. \A k \in DOMAIN j[c].kids : /\ Open(j, x, <<z, k>>, j[c].kids[k], A[k])
                                    /\ a <= t[j[c].kids[k]] /\ t[j[c].kids[k]] < d
    <3> SUFFICES ASSUME NEW k \in {1, 2}
                 PROVE  /\ Open(j, x, <<z, k>>, e.kids[k], A[k])
                        /\ a <= t[e.kids[k]] /\ t[e.kids[k]] < d
      BY <1>6, <1>10
    <3>1. CASE k = 1
      BY <1>6, <1>12, <1>15, <1>16, <3>1
    <3>2. CASE k = 2
      BY <1>6, <1>12, <1>15, <1>16, <3>2
    <3> QED
      BY <3>1, <3>2
  <2>2. /\ c # Nil /\ c \in DOMAIN j /\ j[c].kind = "choice" /\ j[c].next = Nil /\ j[c].onext = Nil
        /\ Len(A) = Len(j[c].kids)
    BY <1>6, <1>10, <1>16
  <2> QED
    BY <1>13, <1>15, <2>1, <2>2, Zenon DEF Several
<1>18. Under(j, t, d)
  <2> SUFFICES ASSUME NEW m \in DOMAIN j  PROVE t[m] < d
    BY DEF Under
  <2>1. CASE m = c
    BY <1>15, <2>1
  <2>2. CASE m = n
    BY <1>15, <2>2
  <2>3. CASE m \in DOMAIN h
    <3>1. t[m] = pos[m]
      BY <1>7, <1>10, <2>3
    <3>2. pos[m] < p /\ pos[m] \in Int
      BY <2>3, PlacesAreNumbers DEF Under
    <3> QED
      BY <3>1, <3>2
  <2> QED
    BY <1>7, <1>10, <2>1, <2>2, <2>3
<1>19. Alternatives(j, t, x, z, c, A, a, d)
  BY <1>16, <1>17, Zenon DEF Alternatives
<1>20. Advances(h, pos, top, g, r, t, x, z, A, a, d)
  BY <1>5, <1>10, <1>11, <1>18, <1>19, Zenon DEF Advances
<1> QED
  BY <1>20, Zenon DEF A

\* A choice gets one more alternative, an empty one.
LEMMA BranchMore ==
  ASSUME NEW h, NEW pos, NEW top, Sound(h, pos, top), NEW g, Forest(h, g),
         NEW z \in Int, z < 0, NEW a \in 0..top, NEW p \in 0..top, a < p, NEW d \in Int, p < d,
         NEW f, NEW A \in Seq(SUBSET Seq(Letters)), Several(h, pos, g, z, f, A, a, p), Under(h, pos, p)
  PROVE  \E s, x : Advances(h, pos, top, g,
                           Chain([Append(h, Empty) EXCEPT ![f].kids = Append(@, Len(h) + 1)], f),
                           s, x, z, Append(A, {<<>>}), a, d)
<1> DEFINE i == Append(h, Empty)
           n == Len(h) + 1
           l == Len(h[f].kids)
           K == Append(h[f].kids, n)
           o == <<z, l + 1>>
           j == [i EXCEPT ![f].kids = K]
           B == Append(A, {<<>>})
<1>1. /\ f # Nil /\ f \in DOMAIN h /\ f \notin g.live
      /\ h[f].kind = "choice" /\ h[f].next = Nil /\ h[f].onext = Nil
      /\ a <= pos[f] /\ pos[f] < p /\ Len(A) = l
      /\ \A k \in DOMAIN h[f].kids : Open(h, g, <<z, k>>, h[f].kids[k], A[k])
  BY Zenon DEF Several
<1>2. /\ h \in Seq(Elements) /\ Len(h) \in Nat /\ n \in Nat \ {0}
      /\ h[f].kids \in Seq(Nat \ {0}) /\ DOMAIN h[f].kids = 1..l /\ l \in Nat /\ pos[f] \in Int
  <2>1. h \in Seq(Elements)
    BY DEF Sound
  <2>2. h[f].kids \in Seq(Nat \ {0}) /\ DOMAIN h[f].kids = 1..l
    BY <1>1, SoundFacts
  <2> QED
    BY <1>1, <2>1, <2>2, PlacesAreNumbers
<1>3. OpenOwner(o) /\ o[1] = z
  BY <1>2 DEF OpenOwner, Owners
<1>4. PICK s, x : Created(h, pos, top, g, i, s, x, n, Empty, p, 0, o, {<<>>})
  <2>1. \E s, x : Created(h, pos, top, g, i, s, x, n, Empty, p, 0, o, {<<>>})
    BY <1>3, NewEmpty
  <2> QED
    BY <2>1
<1>5. /\ K \in Seq(Nat \ {0}) /\ Len(K) = l + 1 /\ DOMAIN K = 1..(l + 1) /\ K[l + 1] = n
      /\ \A k \in 1..l : K[k] = h[f].kids[k]
  BY <1>2
<1>6. /\ B \in Seq(SUBSET Seq(Letters)) /\ Len(B) = l + 1 /\ B[l + 1] = {<<>>}
      /\ \A k \in 1..l : B[k] = A[k]
  <2>1. {<<>>} \in SUBSET Seq(Letters)
    OBVIOUS
  <2> DEFINE S == SUBSET Seq(Letters)
  <2>2. A \in Seq(S) /\ {<<>>} \in S /\ Len(A) = l
    BY <1>1, <2>1
  <2> HIDE DEF S, l
  <2>3. /\ Append(A, {<<>>}) \in Seq(S) /\ Len(Append(A, {<<>>})) = l + 1 /\ Append(A, {<<>>})[l + 1] = {<<>>}
        /\ \A k \in 1..l : Append(A, {<<>>})[k] = A[k]
    BY <2>2
  <2> QED
    BY <2>3 DEF S
<1> HIDE DEF i, n, o, K, B, l
<1>7. /\ Sound(i, s, top) /\ Forest(i, x) /\ x.live = g.live \cup {n}
      /\ DOMAIN i = DOMAIN h \cup {n} /\ n \notin DOMAIN h /\ s[n] = p
      /\ \A m \in DOMAIN h : i[m] = h[m] /\ s[m] = pos[m]
      /\ Open(i, x, o, n, {<<>>})
      /\ Kept(h, pos, g, i, s, x, {0}, p)
  BY <1>4, Zenon DEF Created
<1>8. f \in DOMAIN i /\ f \notin x.live /\ i[f] = h[f] /\ s[f] = pos[f]
  BY <1>1, <1>7
<1>9. \A k \in 1..l : h[f].kids[k] \in DOMAIN h /\ pos[f] < pos[h[f].kids[k]]
  BY <1>1, <1>2, SoundFacts
<1>10. \A k \in DOMAIN K : K[k] \in DOMAIN i /\ s[f] < s[K[k]]
  <2> SUFFICES ASSUME NEW k \in 1..(l + 1)  PROVE K[k] \in DOMAIN i /\ s[f] < s[K[k]]
    BY <1>5
  <2>1. CASE k = l + 1
    BY <1>1, <1>5, <1>7, <1>8, <2>1
  <2>2. CASE k # l + 1
    <3>1. k \in 1..l
      BY <1>2, <2>2
    <3> QED
      BY <1>5, <1>7, <1>8, <1>9, <3>1
  <2> QED
    BY <2>1, <2>2
<1>12. /\ Sound(j, s, top) /\ DOMAIN j = DOMAIN i /\ j[f] = [i[f] EXCEPT !.kids = K]
       /\ \A m \in DOMAIN i : m # f => j[m] = i[m]
       /\ Forest(j, x) /\ Keeps(i, x, j, x, {})
       /\ \A q \in Int : q <= s[f] => StaysBelow(i, s, j, q)
  <2>1. Len(K) > 0 /\ i[f].kind = "choice"
    BY <1>1, <1>2, <1>5, <1>8
  <2>2. PICK y : y = j
    OBVIOUS
  <2>3. y = [i EXCEPT ![f].kids = K]
    BY <2>2
  <2> HIDE DEF j
  <2>4. /\ Sound(y, s, top) /\ DOMAIN y = DOMAIN i /\ y[f] = [i[f] EXCEPT !.kids = K]
        /\ \A m \in DOMAIN i : m # f => y[m] = i[m]
        /\ Forest(y, x) /\ Keeps(i, x, y, x, {})
        /\ \A q \in Int : q <= s[f] => StaysBelow(i, s, y, q)
    <3>1. /\ Sound(i, s, top) /\ Forest(i, x) /\ f \in DOMAIN i /\ f \notin x.live
          /\ i[f].kind = "choice" /\ K \in Seq(Nat \ {0}) /\ Len(K) > 0
      BY <1>5, <1>7, <1>8, <2>1
    <3> QED
      <4>1. SoundForest(i, s, top, x, y) /\ LowerStay(i, s, y, s[f])
        BY <3>1, <1>10, <2>3, DeadKids
      <4>2. DOMAIN y = DOMAIN i
        BY <3>1, <1>10, <2>3, DeadKids
      <4>3. y[f] = [i[f] EXCEPT !.kids = K]
        BY <3>1, <1>10, <2>3, DeadKids
      <4>4. \A m \in DOMAIN i : m # f => y[m] = i[m]
        BY <3>1, <1>10, <2>3, DeadKids
      <4>5. \A q \in Int : q <= s[f] => StaysBelow(i, s, y, q)
        BY <4>1, Zenon DEF LowerStay
      <4> QED
        BY <4>1, <4>2, <4>3, <4>4, <4>5, Zenon DEF SoundForest
  <2> QED
    BY <2>2, <2>4
<1>13. j[f].kids = K /\ j[f].kind = "choice" /\ j[f].next = Nil /\ j[f].onext = Nil
  <2>1. i[f] \in Elements
    BY <1>7, <1>8, SoundFacts
  <2>2. PICK y : y = i[f]
    OBVIOUS
  <2>3. y \in Elements /\ y.kind = "choice" /\ y.next = Nil /\ y.onext = Nil
    BY <1>1, <1>8, <2>1, <2>2
  <2>4. PICK w : w = [y EXCEPT !.kids = K]
    OBVIOUS
  <2>5. w.kids = K /\ w.kind = "choice" /\ w.next = Nil /\ w.onext = Nil
    BY <2>3, <2>4 DEF Elements
  <2> HIDE DEF j
  <2>6. j[f] = w
    BY <1>12, <2>2, <2>4
  <2> QED
    BY <2>5, <2>6
<1> HIDE DEF j
<1>14. \A q, y, C : q[1] # 0 /\ Open(h, g, q, y, C) => Open(j, x, q, y, C)
  <2>1. \A q, y, C : q[1] \notin {0} /\ Open(h, g, q, y, C) => Open(i, x, q, y, C)
    BY <1>7, Zenon DEF Kept
  <2>2. \A q, y, C : Open(i, x, q, y, C) => Open(j, x, q, y, C)
    BY <1>12, Zenon DEF Keeps
  <2>3. \A q : q[1] # 0 => q[1] \notin {0}
    OBVIOUS
  <2> QED
    BY <2>1, <2>2, <2>3, Zenon
<1>15. Kept(h, pos, g, j, s, x, {z, 0}, a)
  <2>1. \A m \in DOMAIN h : s[m] = pos[m] /\ j[m].kind = h[m].kind
    <3> TAKE m \in DOMAIN h
    <3>1. CASE m = f
      BY <1>1, <1>8, <1>13, <3>1
    <3>2. CASE m # f
      BY <1>7, <1>12, <3>2
    <3> QED
      BY <3>1, <3>2
  <2>2. \A m \in DOMAIN h : m \notin g.live /\ pos[m] < a => j[m] = h[m] /\ m \notin x.live
    <3> SUFFICES ASSUME NEW m \in DOMAIN h, m \notin g.live, pos[m] < a
                 PROVE  j[m] = h[m] /\ m \notin x.live
      OBVIOUS
    <3>1. m # f
      <4>1. pos[f] \in Int /\ a <= pos[f] /\ a \in Int
        BY <1>1, <1>2
      <4> QED
        BY <4>1
    <3> QED
      BY <1>7, <1>12, <3>1
  <2>3. \A q, y, C : q[1] \notin {z, 0} /\ Open(h, g, q, y, C) => Open(j, x, q, y, C)
    <3>1. \A q : q[1] \notin {z, 0} => q[1] # 0
      OBVIOUS
    <3> QED
      BY <1>14, <3>1, Zenon
  <2>4. \A q \in Int : q <= a /\ Below(h, pos, q) => Below(j, s, q)
    <3> SUFFICES ASSUME NEW q \in Int, q <= a, Below(h, pos, q)  PROVE Below(j, s, q)
      OBVIOUS
    <3>1. q <= p /\ q <= s[f]
      BY <1>1, <1>2, <1>8
    <3>2. Below(i, s, q)
      BY <1>7, <3>1 DEF Kept
    <3> QED
      BY <1>12, <3>1, <3>2 DEF StaysBelow
  <2>5. DOMAIN h \subseteq DOMAIN j
    BY <1>7, <1>12
  <2> QED
    BY <2>1, <2>2, <2>3, <2>4, <2>5, Zenon DEF Kept
<1>16. Several(j, s, x, z, f, B, a, d)
  <2>1. \A k \in DOMAIN j[f].kids : /\ Open(j, x, <<z, k>>, j[f].kids[k], B[k])
                                    /\ a <= s[j[f].kids[k]] /\ s[j[f].kids[k]] < d
    <3> SUFFICES ASSUME NEW k \in 1..(l + 1)
                 PROVE  Open(j, x, <<z, k>>, K[k], B[k]) /\ a <= s[K[k]] /\ s[K[k]] < d
      BY <1>5, <1>13
    <3>1. CASE k = l + 1
      <4>1. Open(i, x, <<z, k>>, n, {<<>>})
        BY <1>7, <3>1 DEF o
      <4>2. Open(j, x, <<z, k>>, n, {<<>>})
        BY <1>12, <4>1, Zenon DEF Keeps
      <4>3. a <= p /\ p < d
        OBVIOUS
      <4>4. K[k] = n /\ s[n] = p /\ B[k] = {<<>>}
        BY <1>5, <1>6, <1>7, <3>1
      <4> QED
        BY <4>2, <4>3, <4>4
    <3>2. CASE k # l + 1
      <4>1. k \in 1..l
        BY <1>2, <3>2
      <4>2. K[k] = h[f].kids[k] /\ B[k] = A[k] /\ K[k] \in DOMAIN h
        BY <1>5, <1>6, <1>9, <4>1
      <4>3. Open(h, g, <<z, k>>, K[k], B[k])
        BY <1>1, <1>2, <4>1, <4>2
      <4>4. <<z, k>>[1] # 0
        OBVIOUS
      <4>5. Open(j, x, <<z, k>>, K[k], B[k])
        BY <1>14, <4>3, <4>4, Zenon
      <4>6. pos[K[k]] < p /\ pos[K[k]] \in Int /\ pos[f] < pos[K[k]] /\ s[K[k]] = pos[K[k]]
        BY <1>7, <1>9, <4>1, <4>2, PlacesAreNumbers DEF Under
      <4> QED
        BY <1>1, <1>2, <4>5, <4>6
    <3> QED
      BY <3>1, <3>2
  <2>2. Len(B) = Len(j[f].kids) /\ f \in DOMAIN j /\ a <= s[f] /\ s[f] < d
    <3>1. Len(B) = Len(j[f].kids)
      BY <1>5, <1>6, <1>13
    <3>2. f \in DOMAIN j /\ s[f] = pos[f]
      BY <1>8, <1>12
    <3> QED
      BY <1>1, <1>2, <3>1, <3>2
  <2> QED
    BY <1>1, <1>8, <1>13, <2>1, <2>2, Zenon DEF Several
<1>17. Under(j, s, d)
  <2> SUFFICES ASSUME NEW m \in DOMAIN j  PROVE s[m] < d
    BY DEF Under
  <2>1. CASE m = n
    BY <1>7, <2>1
  <2>2. CASE m \in DOMAIN h
    <3>1. s[m] = pos[m]
      BY <1>7, <2>2
    <3>2. pos[m] < p /\ pos[m] \in Int
      BY <2>2, PlacesAreNumbers DEF Under
    <3> QED
      BY <3>1, <3>2
  <2> QED
    BY <1>7, <1>12, <2>1, <2>2
<1>18. Alternatives(j, s, x, z, f, B, a, d)
  BY <1>6, <1>16, Zenon DEF Alternatives
<1>20. PICK r : r = Chain([Append(h, Empty) EXCEPT ![f].kids = Append(@, Len(h) + 1)], f)
  OBVIOUS
<1>11. r.heap = j /\ r.first = f
  <2>1. i[f].kids = h[f].kids
    BY <1>8
  <2>2. [i EXCEPT ![f].kids = Append(@, n)] = [i EXCEPT ![f].kids = Append(i[f].kids, n)]
    OBVIOUS
  <2>3. Append(i[f].kids, n) = K
    BY <2>1 DEF K
  <2> QED
    BY <1>20, <2>2, <2>3 DEF Chain, i, n, j
<1>19. Advances(h, pos, top, g, r, s, x, z, B, a, d)
  BY <1>11, <1>12, <1>15, <1>17, <1>18, Zenon DEF Advances
<1> QED
  BY <1>19, <1>20, Zenon DEF B

\* Two elements appended.
LEMMA AppendPair ==
  ASSUME NEW x, NEW y
  PROVE Append(<<x>>, y) = <<x,y>>
<1>1. x \in {x,y} /\ y \in {x,y}
  OBVIOUS
<1>2. PICK S : S = {x,y}
  OBVIOUS
<1>3. x \in S /\ y \in S
  BY <1>2
<1>4. <<x>> \in Seq(S) /\ <<x,y>> \in Seq(S) /\ Append(<<x>>,y) \in Seq(S)
  BY <1>3
<1>5. Len(Append(<<x>>,y)) = 2 /\ Len(<<x,y>>) = 2
  BY <1>3,<1>4
<1>6. Append(<<x>>,y)[1] = x /\ Append(<<x>>,y)[2] = y
  BY <1>3,<1>4
<1>7. \A i \in 1..2 : Append(<<x>>,y)[i] = <<x,y>>[i]
  BY <1>6
<1> QED
  BY <1>4, <1>5, <1>7, SeqEqual

\* The three shapes of the chains of z.
LEMMA AlternativesIs ==
  ASSUME NEW h, NEW pos, NEW top, Sound(h, pos, top), NEW g, NEW z, NEW f, NEW A, NEW a, NEW b,
         Alternatives(h, pos, g, z, f, A, a, b)
  PROVE  /\ A \in Seq(SUBSET Seq(Letters)) /\ Len(A) > 0
         /\ f = Nil => Len(A) = 1 /\ A[1] = {<<>>}
         /\ f # Nil /\ h[f].kind = "choice" => Several(h, pos, g, z, f, A, a, b)
         /\ f # Nil /\ h[f].kind # "choice" => Single(h, pos, g, z, f, A, a, b)
<1>1. CASE f = Nil
  <2>1. ~Single(h, pos, g, z, f, A, a, b) /\ ~Several(h, pos, g, z, f, A, a, b)
    BY <1>1, Zenon DEF Single, Several
  <2>2. A \in Seq(SUBSET Seq(Letters)) /\ Len(A) = 1 /\ A[1] = {<<>>}
    BY <2>1, Zenon DEF Alternatives
  <2> QED
    BY <1>1, <2>2
<1>2. CASE f # Nil /\ h[f].kind = "choice"
  <2>1. ~Single(h, pos, g, z, f, A, a, b)
    BY <1>2, Zenon DEF Single
  <2>2. A \in Seq(SUBSET Seq(Letters)) /\ Several(h, pos, g, z, f, A, a, b)
    BY <1>2, <2>1, Zenon DEF Alternatives
  <2>3. f \in DOMAIN h /\ Len(A) = Len(h[f].kids)
    BY <2>2, Zenon DEF Several
  <2>4. Len(A) > 0
    BY <1>2, <2>3 DEF Sound, KidCount
  <2> QED
    BY <1>2, <2>2, <2>4
<1>3. CASE f # Nil /\ h[f].kind # "choice"
  <2>1. ~Several(h, pos, g, z, f, A, a, b)
    BY <1>3, Zenon DEF Several
  <2>2. A \in Seq(SUBSET Seq(Letters)) /\ Single(h, pos, g, z, f, A, a, b)
    BY <1>3, <2>1, Zenon DEF Alternatives
  <2>3. Len(A) = 1
    BY <2>2, Zenon DEF Single
  <2> QED
    BY <1>3, <2>2, <2>3
<1> QED
  BY <1>1, <1>2, <1>3

\* A bar opens one more alternative, with the empty word.
LEMMA BarIs ==
  ASSUME NEW h, NEW pos, NEW top, Sound(h, pos, top), NEW g, Forest(h, g),
         NEW z \in Int, z < 0, NEW a \in 0..top, NEW b \in 0..top, b + 1 <= top, a < b,
         NEW d \in Int, b + 1 < d,
         NEW f, NEW A, Alternatives(h, pos, g, z, f, A, a, b), Under(h, pos, b),
         NEW r, r = Bar(h, f)
  PROVE  \E s, x : Advances(h, pos, top, g, r, s, x, z, Append(A, {<<>>}), a, d)
<1> DEFINE B == Append(A, {<<>>})
<1>1. /\ A \in Seq(SUBSET Seq(Letters)) /\ Len(A) > 0
      /\ f = Nil => Len(A) = 1 /\ A[1] = {<<>>}
      /\ f # Nil /\ h[f].kind = "choice" => Several(h, pos, g, z, f, A, a, b)
      /\ f # Nil /\ h[f].kind # "choice" => Single(h, pos, g, z, f, A, a, b)
  BY AlternativesIs
<1>2. b < d /\ Len(h) \in Nat
  BY DEF Sound
<1>3. CASE f # Nil /\ h[f].kind = "choice"
  <2>1. r = Chain([Append(h, Empty) EXCEPT ![f].kids = Append(@, Len(h) + 1)], f)
    BY <1>3 DEF Bar, IsChoice
  <2>2. Several(h, pos, g, z, f, A, a, b)
    BY <1>1, <1>3
  <2>3. \E s, x : Advances(h, pos, top, g,
                           Chain([Append(h, Empty) EXCEPT ![f].kids = Append(@, Len(h) + 1)], f),
                           s, x, z, Append(A, {<<>>}), a, d)
    BY <1>1, <1>2, <2>2, BranchMore
  <2> QED
    BY <2>1, <2>3, Zenon
<1>4. \A L : Len(A) = 1 /\ A[1] = L => Append(A, {<<>>}) = <<L, {<<>>}>>
  <2> TAKE L
  <2> DEFINE S == SUBSET Seq(Letters)
             v == {<<>>}
  <2>1. A \in Seq(S)
    BY <1>1
  <2> HIDE DEF S, v
  <2> SUFFICES ASSUME Len(A) = 1, A[1] = L  PROVE Append(A, v) = <<L, v>>
    BY DEF v
  <2>2. A = <<L>>
    BY <2>1
  <2>3. Append(<<L>>, v) = <<L, v>>
    BY AppendPair
  <2> QED
    BY <2>2, <2>3, Zenon
<1>5. CASE f # Nil /\ h[f].kind # "choice"
  <2>1. Single(h, pos, g, z, f, A, a, b)
    BY <1>1, <1>5
  <2>2. a < pos[f] /\ Len(A) = 1 /\ Open(h, g, <<z, 1>>, f, A[1])
    BY <2>1, Zenon DEF Single
  <2>3. r = Chain(Append(Append(h, Empty), Element("choice", <<>>, <<f, Len(h) + 1>>)), Len(h) + 2)
    <3>1. r = Chain(Append(Append(h, Empty), Element("choice", <<>>, <<f, Len(h) + 1>>)), (Len(h) + 1) + 1)
      BY <1>5 DEF Bar, IsChoice
    <3>2. (Len(h) + 1) + 1 = Len(h) + 2
      BY <1>2
    <3> QED
      BY <3>1, <3>2
  <2>4. \E s, x : Advances(h, pos, top, g, r, s, x, z, <<A[1], {<<>>}>>, a, d)
    BY <1>2, <2>2, <2>3, Branch
  <2> QED
    BY <1>4, <2>2, <2>4
<1>6. CASE f = Nil
  <2> DEFINE i == Append(h, Empty)
             n == Len(h) + 1
             o == <<z, 1>>
  <2>1. OpenOwner(o)
    BY DEF OpenOwner, Owners
  <2>2. PICK s, x : Created(h, pos, top, g, i, s, x, n, Empty, b, 0, o, {<<>>})
    <3>1. \E s, x : Created(h, pos, top, g, i, s, x, n, Empty, b, 0, o, {<<>>})
      BY <2>1, NewEmpty
    <3> QED
      BY <3>1
  <2>3. Len(i) = n /\ r = Chain(Append(Append(i, Empty), Element("choice", <<>>, <<n, Len(i) + 1>>)), Len(i) + 2)
    <3>1. Len(i) = n
      <4>1. h \in Seq(Elements) /\ Empty \in Elements
        BY EmptyIs DEF Sound
      <4> QED
        BY <4>1
    <3>2. IsChoice(h, f) = FALSE
      BY <1>6 DEF IsChoice
    <3>3. r = Chain(Append(Append(i, Empty), Element("choice", <<>>, <<Len(i), Len(i) + 1>>)), (Len(i) + 1) + 1)
      BY <1>6, <3>2, Zenon DEF Bar
    <3>4. (Len(i) + 1) + 1 = Len(i) + 2
      BY <1>2, <3>1
    <3> QED
      BY <3>1, <3>3, <3>4
  <2> HIDE DEF i, n, o
  <2>4. /\ Sound(i, s, top) /\ Forest(i, x)
        /\ DOMAIN i = DOMAIN h \cup {n} /\ s[n] = b
        /\ \A m \in DOMAIN h : s[m] = pos[m]
        /\ Open(i, x, o, n, {<<>>})
    BY <2>2, Zenon DEF Created
  <2>5. Under(i, s, b + 1)
    <3> SUFFICES ASSUME NEW m \in DOMAIN i  PROVE s[m] < b + 1
      BY DEF Under
    <3>1. CASE m = n
      BY <2>4, <3>1
    <3>2. CASE m \in DOMAIN h
      <4>1. s[m] = pos[m] /\ pos[m] < b /\ pos[m] \in Int
        BY <2>4, <3>2, PlacesAreNumbers DEF Under
      <4> QED
        BY <4>1
    <3> QED
      BY <2>4, <3>1, <3>2
  <2>6. PICK t, y : Advances(i, s, top, x, r, t, y, z, <<{<<>>}, {<<>>}>>, a, d)
    <3>1. /\ a < s[n] /\ b + 1 \in 0..top /\ a < b + 1 /\ Open(i, x, <<z, 1>>, n, {<<>>})
      BY <2>4 DEF o
    <3>2. \E t, y : Advances(i, s, top, x, r, t, y, z, <<{<<>>}, {<<>>}>>, a, d)
      BY <2>3, <2>4, <2>5, <3>1, Branch
    <3> QED
      BY <3>2
  <2>7. Kept(h, pos, g, r.heap, t, y, {z, 0}, a)
    <3>1. Kept(h, pos, g, i, s, x, {z, 0}, a)
      <4>1. a \in Int /\ b \in Int /\ a <= b
        OBVIOUS
      <4> QED
        BY <2>2, <4>1, CreatedKeeps
    <3>2. Kept(i, s, x, r.heap, t, y, {z, 0}, a)
      BY <2>6, Zenon DEF Advances
    <3>3. a \in Int
      OBVIOUS
    <3> QED
      BY <3>1, <3>2, <3>3, KeptTwice
  <2>8. Advances(h, pos, top, g, r, t, y, z, <<{<<>>}, {<<>>}>>, a, d)
    BY <2>6, <2>7, Zenon DEF Advances
  <2> QED
    BY <1>1, <1>4, <1>6, <2>8
<1> QED
  BY <1>3, <1>5, <1>6

\* Once something is added a chain has a head.
LEMMA AddHasHead ==
  ASSUME NEW h, Len(h) \in Nat, NEW f, NEW e
  PROVE  Add(h, f, e).first # Nil
<1>1. Len(h) + 1 # Nil
  BY DEF Nil
<1>2. \A i, n : n # Nil => AppendToChain(i, f, n).first # Nil
  BY DEF AppendToChain, Replaceable, Chain, Nil
<1>3. \A i, n : n # Nil => AppendElement(i, f, n).first # Nil
  BY <1>2 DEF AppendElement, IsChoice, Chain, Nil
<1> QED
  BY <1>1, <1>3 DEF Add

\* The chains of z are one, at a or behind it.
Finished(h, pos, top, g, r, s, x, z, L, a, d) ==
  /\ Sound(r.heap, s, top) /\ Forest(r.heap, x)
  /\ Open(r.heap, x, <<z, 1>>, r.first, L) /\ a <= s[r.first]
  /\ Kept(h, pos, g, r.heap, s, x, {z, 0}, a)
  /\ Under(r.heap, s, d)

\* What a call returns is one chain, with the words of all alternatives.
LEMMA ReturnedIs ==
  ASSUME NEW h, NEW pos, NEW top, Sound(h, pos, top), NEW g, Forest(h, g),
         NEW z \in Int, z < 0, NEW a \in 0..top, NEW b \in 0..top, a < b, NEW d \in Int, b < d,
         NEW f, NEW A, Alternatives(h, pos, g, z, f, A, a, b), Under(h, pos, b),
         NEW r, f = Nil => r.heap = Append(h, Empty) /\ r.first = Len(h) + 1,
         f # Nil => r.heap = h /\ r.first = f
  PROVE  \E s, x : Finished(h, pos, top, g, r, s, x, z, AllOf(A), a, d)
<1> DEFINE o == <<z, 1>>
           L == AllOf(A)
<1>1. OpenOwner(o)
  BY DEF OpenOwner, Owners
<1>2. CASE f = Nil
  <2> DEFINE i == Append(h, Empty)
             n == Len(h) + 1
  <2>1. PICK s, x : Created(h, pos, top, g, i, s, x, n, Empty, b, 0, o, {<<>>})
    <3>1. \E s, x : Created(h, pos, top, g, i, s, x, n, Empty, b, 0, o, {<<>>})
      BY <1>1, NewEmpty
    <3> QED
      BY <3>1
  <2>2. r.heap = i /\ r.first = n
    BY <1>2 DEF Chain
  <2>3. L = {<<>>}
    <3>1. Len(A) = 1 /\ A[1] = {<<>>}
      BY <1>2, AlternativesIs
    <3>2. 1..1 = {1}
      OBVIOUS
    <3> DEFINE Ks == 1..Len(A)
    <3>3. Ks = {1}
      BY <3>1, <3>2
    <3> HIDE DEF Ks
    <3>4. UNION {A[k] : k \in Ks} = A[1]
      BY <3>3
    <3> QED
      BY <3>1, <3>4 DEF Ks, AllOf
  <2> HIDE DEF i, n, L
  <2>4. /\ Sound(i, s, top) /\ Forest(i, x)
        /\ DOMAIN i = DOMAIN h \cup {n} /\ s[n] = b
        /\ \A m \in DOMAIN h : s[m] = pos[m]
        /\ Open(i, x, o, n, {<<>>})
    BY <2>1, Zenon DEF Created
  <2>5. Kept(h, pos, g, i, s, x, {z, 0}, a)
    <3>1. a \in Int /\ b \in Int /\ a <= b
      OBVIOUS
    <3> QED
      BY <2>1, <3>1, CreatedKeeps
  <2>6. Under(i, s, d)
    <3> SUFFICES ASSUME NEW m \in DOMAIN i  PROVE s[m] < d
      BY DEF Under
    <3>1. CASE m = n
      BY <2>4, <3>1
    <3>2. CASE m \in DOMAIN h
      <4>1. s[m] = pos[m] /\ pos[m] < b /\ pos[m] \in Int
        BY <2>4, <3>2, PlacesAreNumbers DEF Under
      <4> QED
        BY <4>1
    <3> QED
      BY <2>4, <3>1, <3>2
  <2>7. a <= s[n]
    BY <2>4
  <2>8. Finished(h, pos, top, g, r, s, x, z, L, a, d)
    BY <2>2, <2>3, <2>4, <2>5, <2>6, <2>7, Zenon DEF Finished
  <2> QED
    BY <2>8 DEF L
<1>3. CASE f # Nil
  <2>0. a \in Int /\ b \in Int
    OBVIOUS
  <2>1. PICK x : Closed(h, pos, g, x, z, f, AllOf(A), a, b)
    <3>1. \E x : Closed(h, pos, g, x, z, f, AllOf(A), a, b)
      BY <1>3, <2>0, Close
    <3> QED
      BY <3>1
  <2>2. Closed(h, pos, g, x, z, f, L, a, b)
    BY <2>1
  <2> HIDE DEF L
  <2>3. /\ Forest(h, x) /\ Open(h, x, o, f, L) /\ a <= pos[f]
        /\ Kept(h, pos, g, h, pos, x, {z}, a)
    BY <2>2, Zenon DEF Closed
  <2>4. Kept(h, pos, g, h, pos, x, {z, 0}, a)
    <3>1. {z} \subseteq {z, 0} /\ a <= a
      OBVIOUS
    <3>2. \A m \in DOMAIN h : pos[m] \in Int
      BY PlacesAreNumbers
    <3> QED
      BY <2>0, <2>3, <3>1, <3>2, KeptWider
  <2>5. Under(h, pos, d)
    <3>1. \A m \in DOMAIN h : pos[m] \in Int
      BY PlacesAreNumbers
    <3> QED
      BY <2>0, <3>1 DEF Under
  <2>6. r.heap = h /\ r.first = f
    BY <1>3 DEF Chain
  <2>7. Finished(h, pos, top, g, r, pos, x, z, L, a, d)
    BY <2>3, <2>4, <2>5, <2>6, Zenon DEF Finished
  <2> QED
    BY <2>7 DEF L
<1> QED
  BY <1>2, <1>3

\* Unwrapping the content of an optional keeps the words.
LEMMA ContentIs ==
  ASSUME NEW h, NEW pos, NEW top, NEW g, NEW r, NEW s, NEW x, NEW z \in Int, z < 0, NEW L,
         NEW a \in Int, NEW d,
         Finished(h, pos, top, g, r, s, x, z, L, a, d), NEW kind, NEW c, c = Content(kind, r)
  PROVE  \E y : Finished(h, pos, top, g, Chain(r.heap, c), s, y, z, L, a, d)
<1> DEFINE q == Chain(r.heap, c)
           f == r.first
           i == r.heap
<1>1. q.heap = i /\ q.first = c
  BY DEF Chain
<1>2. /\ Sound(i, s, top) /\ Forest(i, x)
      /\ Open(i, x, <<z, 1>>, f, L) /\ a <= s[f]
      /\ Kept(h, pos, g, i, s, x, {z, 0}, a)
      /\ Under(i, s, d)
  BY Zenon DEF Finished
<1>3. CASE kind = "optional" /\ i[f].kind = "group" /\ i[f].next = Nil
  <2>1. c = i[f].kids[1]
    BY <1>3 DEF Content
  <2> HIDE DEF q, f, i
  <2>2. PICK y : /\ Forest(i, y) /\ Open(i, y, <<z, 1>>, i[f].kids[1], L)
                 /\ Kept(i, s, x, i, s, y, {z}, a)
    BY <1>2, <1>3, Unwrap
  <2>3. Kept(h, pos, g, i, s, y, {z, 0}, a)
    <3>1. {z} \subseteq {z, 0} /\ a <= a
      OBVIOUS
    <3>2. \A m \in DOMAIN i : s[m] \in Int
      BY <1>2, PlacesAreNumbers
    <3>3. Kept(i, s, x, i, s, y, {z, 0}, a)
      BY <1>2, <2>2, <3>1, <3>2, KeptWider
    <3> QED
      BY <1>2, <3>3, KeptTwice
  <2>4. a <= s[c]
    <3>1. f \in DOMAIN i
      BY <1>2, LiveFacts DEF Open
    <3>2. i[f].kids[1] \in DOMAIN i /\ s[f] < s[i[f].kids[1]]
      BY <1>2, <1>3, <3>1, SoundFacts
    <3>3. s[f] \in Int /\ s[i[f].kids[1]] \in Int
      BY <1>2, <3>1, <3>2, PlacesAreNumbers
    <3> QED
      BY <1>2, <2>1, <3>2, <3>3
  <2>5. Finished(h, pos, top, g, q, s, y, z, L, a, d)
    BY <1>1, <1>2, <2>1, <2>2, <2>3, <2>4, Zenon DEF Finished
  <2> QED
    BY <2>5 DEF q, i
<1>4. CASE ~(kind = "optional" /\ i[f].kind = "group" /\ i[f].next = Nil)
  <2>1. c = f
    BY <1>4 DEF Content
  <2> HIDE DEF q, f, i
  <2>2. Finished(h, pos, top, g, q, s, x, z, L, a, d)
    BY <1>1, <1>2, <2>1, Zenon DEF Finished
  <2> QED
    BY <2>2 DEF q, i
<1> QED
  BY <1>3, <1>4

\* A chain of z is wrapped and added to the chains of y.
Wrapped(h, pos, top, g, q, t, w, y, z, B, a, d) ==
  /\ Sound(q.heap, t, top) /\ Forest(q.heap, w)
  /\ Alternatives(q.heap, t, w, y, q.first, B, a, d)
  /\ Kept(h, pos, g, q.heap, t, w, {y, z, 0}, a)
  /\ Under(q.heap, t, d)

Around(kind, L) == IF kind = "optional" THEN L \cup {<<>>} ELSE L

\* A group or an optional around a chain.
LEMMA WrapperIs ==
  ASSUME NEW kind \in {"group", "optional"}, NEW c \in Nat \ {0}, NEW e, e = Element(kind, <<>>, <<c>>),
         NEW L
  PROVE  /\ e \in Elements /\ KidCount(e) /\ e.next = Nil /\ e.onext = Nil /\ e.kind # "choice"
         /\ Tidy(e.text) /\ DOMAIN e.kids = {1} /\ e.kids[1] = c
         /\ UnitOf(e, <<L>>) = Around(kind, L)
<1>1. <<c>> \in Seq(Nat \ {0}) /\ kind \in Kinds /\ Nil \in Nat /\ <<>> \in Seq(Letters)
  BY DEF Nil, Kinds
<1>2. /\ e.next = Nil /\ e.onext = Nil /\ e.text = <<>> /\ e.kind = kind
      /\ e.kids = <<c>> /\ e \in Elements
  BY <1>1 DEF Element, Elements
<1>3. Tidy(<<>>)
  BY DEF Tidy
<1>4. Len(<<c>>) = 1 /\ DOMAIN <<c>> = {1} /\ <<c>>[1] = c
  OBVIOUS
<1>5. KidCount(e)
  <2>1. Len(e.kids) = 1 /\ e.kind # "choice" /\ e.kind \notin {"literal", "type"}
    BY <1>2, <1>4
  <2> QED
    BY <2>1, Zenon DEF KidCount
<1>6. UnitOf(e, <<L>>) = Around(kind, L)
  <2>1. <<L>>[1] = L
    OBVIOUS
  <2>2. CASE kind = "group"
    BY <1>2, <2>1, <2>2 DEF UnitOf, Around
  <2>3. CASE kind = "optional"
    BY <1>2, <2>1, <2>3 DEF UnitOf, Around
  <2> QED
    BY <2>2, <2>3
<1> QED
  BY <1>2, <1>3, <1>4, <1>5, <1>6

\* An element around a finished chain is appended to the chain of the caller.
LEMMA Wrap ==
  ASSUME NEW h, NEW pos, NEW top, Sound(h, pos, top), NEW g, Forest(h, g),
         NEW z \in Int, z < 0, NEW y \in Int, y < 0, y # z, NEW L, NEW a \in Int, NEW d \in Int,
         NEW r, NEW s, NEW x, Finished(h, pos, top, g, r, s, x, z, L, a, d),
         NEW kind \in {"group", "optional"},
         NEW a2 \in Int, NEW b2 \in 0..top, a2 < b2, b2 < a, b2 < d,
         NEW f, NEW A, Alternatives(h, pos, g, y, f, A, a2, b2), Below(h, pos, b2),
         NEW q, q = Add(r.heap, f, Element(kind, <<>>, <<r.first>>))
  PROVE  \E t, w : Wrapped(h, pos, top, g, q, t, w, y, z, WithLast(A, Around(kind, L)), a2, d)
<1> DEFINE i == r.heap
           c == r.first
           e == Element(kind, <<>>, <<c>>)
<1>1. /\ Sound(i, s, top) /\ Forest(i, x)
      /\ Open(i, x, <<z, 1>>, c, L) /\ a <= s[c]
      /\ Kept(h, pos, g, i, s, x, {z, 0}, a)
      /\ Under(i, s, d)
  BY Zenon DEF Finished
<1>2. q = Add(i, f, e)
  OBVIOUS
<1> HIDE DEF i, c
<1>3. c \in Nat \ {0} /\ c \in DOMAIN i /\ s[c] \in Int
  <2>1. c \in x.live
    BY <1>1, Zenon DEF Open
  <2> QED
    BY <1>1, <2>1, LiveFacts, PlacesAreNumbers DEF Nil
<1>4. /\ e \in Elements /\ KidCount(e) /\ e.next = Nil /\ e.onext = Nil /\ e.kind # "choice"
      /\ Tidy(e.text) /\ DOMAIN e.kids = {1} /\ e.kids[1] = c
      /\ UnitOf(e, <<L>>) = Around(kind, L)
  <2>1. PICK v : v = e
    OBVIOUS
  <2>2. v = Element(kind, <<>>, <<c>>)
    BY <2>1
  <2> HIDE DEF e
  <2>3. /\ v \in Elements /\ KidCount(v) /\ v.next = Nil /\ v.onext = Nil /\ v.kind # "choice"
        /\ Tidy(v.text) /\ DOMAIN v.kids = {1} /\ v.kids[1] = c
        /\ UnitOf(v, <<L>>) = Around(kind, L)
    BY <1>3, <2>2, WrapperIs
  <2> QED
    BY <2>1, <2>3
<1> HIDE DEF e
<1>5. Alternatives(i, s, x, y, f, A, a2, b2) /\ Below(i, s, b2)
  <2>1. y \notin {z, 0} /\ b2 <= a /\ b2 \in Int
    OBVIOUS
  <2>2. Alternatives(i, s, x, y, f, A, a2, b2)
    BY <1>1, <2>1, AlternativesStay
  <2>3. Below(i, s, b2)
    BY <1>1, <2>1 DEF Kept
  <2> QED
    BY <2>2, <2>3
<1>6. \A k \in DOMAIN e.kids : Open(i, x, <<z, k>>, e.kids[k], <<L>>[k]) /\ b2 < s[e.kids[k]]
  <2>1. <<L>>[1] = L /\ b2 < s[c]
    BY <1>1, <1>3
  <2>2. Open(i, x, <<z, 1>>, c, <<L>>[1])
    BY <1>1, <2>1
  <2> QED
    BY <1>4, <2>1, <2>2
<1>7. PICK t, w : AddedTo(i, s, top, x, q, t, w, y, z, WithLast(A, UnitOf(e, <<L>>)), a2, d, b2)
  <2>1. z <= 0 /\ b2 <= b2 /\ b2 \in Int
    OBVIOUS
  <2>2. \E t, w : AddedTo(i, s, top, x, q, t, w, y, z, WithLast(A, UnitOf(e, <<L>>)), a2, d, b2)
    BY <1>1, <1>2, <1>4, <1>5, <1>6, <2>1, AddNew
  <2> QED
    BY <2>2
<1>8. /\ Sound(q.heap, t, top) /\ Forest(q.heap, w)
      /\ Alternatives(q.heap, t, w, y, q.first, WithLast(A, Around(kind, L)), a2, d)
      /\ Kept(i, s, x, q.heap, t, w, {y, z, 0}, a2)
      /\ \A m \in DOMAIN q.heap : m \in DOMAIN i \/ t[m] = b2
  BY <1>4, <1>7, Zenon DEF AddedTo
<1>9. Kept(h, pos, g, q.heap, t, w, {y, z, 0}, a2)
  <2>1. Kept(h, pos, g, i, s, x, {y, z, 0}, a2)
    <3>1. {z, 0} \subseteq {y, z, 0} /\ a2 <= a
      OBVIOUS
    <3>2. \A m \in DOMAIN h : pos[m] \in Int
      BY PlacesAreNumbers
    <3> QED
      BY <1>1, <3>1, <3>2, KeptWider
  <2> QED
    BY <1>8, <2>1, KeptTwice
<1>10. Under(q.heap, t, d)
  <2> SUFFICES ASSUME NEW m \in DOMAIN q.heap  PROVE t[m] < d
    BY DEF Under
  <2>1. CASE t[m] = b2
    BY <2>1
  <2>2. CASE m \in DOMAIN i
    <3>1. t[m] = s[m]
      BY <1>8, <2>2 DEF Kept
    <3> QED
      BY <1>1, <2>2, <3>1 DEF Under
  <2> QED
    BY <1>8, <2>1, <2>2
<1>11. Wrapped(h, pos, top, g, q, t, w, y, z, WithLast(A, Around(kind, L)), a2, d)
  BY <1>8, <1>9, <1>10, Zenon DEF Wrapped
<1> QED
  BY <1>11, Zenon
=============================================================================
