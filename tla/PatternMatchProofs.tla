-------------------------- MODULE PatternMatchProofs -------------------------
(***************************************************************************)
(* What TLAPS proves of PatternMatch, for every corpus of patterns and     *)
(* every set of lines: of a pattern without two spaces side by side, the   *)
(* prefilter drops no line that the matcher takes; if the pattern is well  *)
(* nested, it is not dropped from the corpus, and the matcher takes exactly*)
(* the lines of the pattern's own language.  The invariant says of every   *)
(* call of compile_element that its chains have the words of what it has   *)
(* read of its slice; PatternChains has the lemmas on chains.              *)
(***************************************************************************)
EXTENDS PatternChains

-----------------------------------------------------------------------------
(* The calls.  A call lies between the brackets that its caller stands at. *)

CallRecords ==
  [kind : {"pattern", "group", "optional"}, lo : Nat, hi : Nat, at : Nat, first : Nat, literal : Seq(Letters)]

\* The literal is what was read last.
Collected(p, c) ==
  /\ Len(c.literal) <= c.at - c.lo
  /\ \A i \in 1..Len(c.literal) :
       /\ c.literal[i] = p[(c.at - Len(c.literal)) + (i - 1)]
       /\ c.literal[i] \notin Openings \cup {"|", "%"}

Framed(p, cs) ==
  /\ cs \in Seq(CallRecords)
  /\ \A k \in DOMAIN cs :
       /\ 1 <= cs[k].lo /\ cs[k].lo <= cs[k].at /\ cs[k].at <= cs[k].hi + 1 /\ cs[k].hi <= Len(p)
       /\ Collected(p, cs[k])
       /\ k < Len(cs) => cs[k].literal = <<>>
       /\ k > 1 => cs[k].kind # "pattern"
  /\ \A j \in DOMAIN cs, k \in DOMAIN cs : j < k => cs[j].at < cs[k].lo /\ cs[k].hi < cs[j].hi

Base(c) == 4 * c.lo - 1
Bound(c) == 4 * (c.at - Len(c.literal))

\* The chains of the calls and their words.
Standing(h, pos, top, g, cs, langs) ==
  /\ Sound(h, pos, top) /\ Forest(h, g)
  /\ \A k \in DOMAIN cs : /\ Alternatives(h, pos, g, -k, cs[k].first, langs[k], Base(cs[k]), Bound(cs[k]))
                          /\ Below(h, pos, Bound(cs[k]))

Built(h, pos, top, g, cs, langs) ==
  /\ Standing(h, pos, top, g, cs, langs)
  /\ \A k \in DOMAIN cs : k = Len(cs) => Under(h, pos, Bound(cs[k]))

\* A call of a frame.
LEMMA FramedFacts ==
  ASSUME NEW p, Len(p) \in Nat, NEW cs, Framed(p, cs), NEW k \in DOMAIN cs
  PROVE  /\ cs[k] \in CallRecords /\ k \in 1..Len(cs) /\ Len(cs) \in Nat /\ -k \in Int /\ -k < 0
         /\ cs[k].lo \in Nat /\ cs[k].hi \in Nat /\ cs[k].at \in Nat /\ cs[k].first \in Nat
         /\ cs[k].literal \in Seq(Letters) /\ Len(cs[k].literal) \in Nat
         /\ Base(cs[k]) \in 0..(4 * Len(p) + 8) /\ Bound(cs[k]) \in 0..(4 * Len(p) + 8)
         /\ Base(cs[k]) < Bound(cs[k])
         /\ Bound(cs[k]) <= 4 * cs[k].at /\ 4 * cs[k].at <= 4 * Len(p) + 4
         /\ cs[k].literal # <<>> => Bound(cs[k]) < 4 * cs[k].at
         /\ \A j \in DOMAIN cs : k < j => Bound(cs[k]) < Base(cs[j]) /\ Bound(cs[k]) = 4 * cs[k].at
<1>1. cs \in Seq(CallRecords) /\ cs[k] \in CallRecords /\ k \in 1..Len(cs) /\ Len(cs) \in Nat
  BY DEF Framed
<1>2. /\ cs[k].lo \in Nat /\ cs[k].hi \in Nat /\ cs[k].at \in Nat /\ cs[k].first \in Nat
      /\ cs[k].literal \in Seq(Letters)
  BY <1>1 DEF CallRecords
<1>3. Len(cs[k].literal) \in Nat /\ (cs[k].literal # <<>> => Len(cs[k].literal) > 0)
  BY <1>2
<1>4. /\ 1 <= cs[k].lo /\ cs[k].lo <= cs[k].at /\ cs[k].at <= cs[k].hi + 1 /\ cs[k].hi <= Len(p)
      /\ Len(cs[k].literal) <= cs[k].at - cs[k].lo
  BY DEF Framed, Collected
<1>5. /\ Base(cs[k]) \in 0..(4 * Len(p) + 8) /\ Bound(cs[k]) \in 0..(4 * Len(p) + 8)
      /\ Base(cs[k]) < Bound(cs[k])
      /\ Bound(cs[k]) <= 4 * cs[k].at /\ 4 * cs[k].at <= 4 * Len(p) + 4
      /\ cs[k].literal # <<>> => Bound(cs[k]) < 4 * cs[k].at
  <2>1. PICK lo, hi, at, l, n : /\ lo = cs[k].lo /\ hi = cs[k].hi /\ at = cs[k].at
                               /\ l = Len(cs[k].literal) /\ n = Len(p)
    OBVIOUS
  <2>2. /\ lo \in Nat /\ hi \in Nat /\ at \in Nat /\ l \in Nat /\ n \in Nat
        /\ 1 <= lo /\ lo <= at /\ at <= hi + 1 /\ hi <= n /\ l <= at - lo
    BY <1>2, <1>3, <1>4, <2>1
  <2>3. /\ 4 * lo - 1 \in 0..(4 * n + 8) /\ 4 * (at - l) \in 0..(4 * n + 8)
        /\ 4 * lo - 1 < 4 * (at - l) /\ 4 * (at - l) <= 4 * at /\ 4 * at <= 4 * n + 4
        /\ l > 0 => 4 * (at - l) < 4 * at
    BY <2>2
  <2>4. Base(cs[k]) = 4 * lo - 1 /\ Bound(cs[k]) = 4 * (at - l)
    BY <2>1 DEF Base, Bound
  <2> QED
    BY <1>3, <2>1, <2>3, <2>4
<1>6. \A j \in DOMAIN cs : k < j => Bound(cs[k]) < Base(cs[j]) /\ Bound(cs[k]) = 4 * cs[k].at
  <2> SUFFICES ASSUME NEW j \in DOMAIN cs, k < j
               PROVE  Bound(cs[k]) < Base(cs[j]) /\ Bound(cs[k]) = 4 * cs[k].at
    OBVIOUS
  <2>1. cs[j] \in CallRecords /\ j \in 1..Len(cs)
    BY DEF Framed
  <2>2. cs[j].lo \in Nat
    BY <2>1 DEF CallRecords
  <2>3. cs[k].at < cs[j].lo
    BY DEF Framed
  <2>4. k < Len(cs)
    BY <1>1, <2>1
  <2>5. Len(cs[k].literal) = 0
    BY <2>4 DEF Framed
  <2> QED
    BY <1>2, <2>2, <2>3, <2>5 DEF Base, Bound
<1> QED
  BY <1>1, <1>2, <1>3, <1>5, <1>6

\* The last call in place of the one before it.
Replaced(cs, c) == Append(Front(cs), c)
WordsReplaced(cs, langs, B) == [k \in DOMAIN cs |-> IF k = Len(cs) THEN B ELSE langs[k]]

\* The stack with another top.
LEMMA ReplacedIs ==
  ASSUME NEW cs \in Seq(CallRecords), cs # <<>>, NEW c \in CallRecords
  PROVE  /\ Replaced(cs, c) \in Seq(CallRecords) /\ Len(Replaced(cs, c)) = Len(cs)
         /\ DOMAIN Replaced(cs, c) = DOMAIN cs /\ DOMAIN cs = 1..Len(cs) /\ Len(cs) \in Nat /\ Len(cs) > 0
         /\ Replaced(cs, c)[Len(cs)] = c /\ Len(cs) \in DOMAIN cs
         /\ \A k \in DOMAIN cs : k # Len(cs) => Replaced(cs, c)[k] = cs[k]
<1>1. Len(cs) \in Nat /\ Len(cs) > 0 /\ DOMAIN cs = 1..Len(cs)
  BY EmptySeq
<1>2. Front(cs) = SubSeq(cs, 1, Len(cs) - 1)
  BY DEF Front
<1>3. /\ Front(cs) \in Seq(CallRecords) /\ Len(Front(cs)) = Len(cs) - 1
      /\ \A k \in 1..(Len(cs) - 1) : Front(cs)[k] = cs[k]
  BY <1>1, <1>2
<1>4. PICK F, N : F = Front(cs) /\ N = Len(cs)
  OBVIOUS
<1>5. /\ F \in Seq(CallRecords) /\ Len(F) = N - 1 /\ N \in Nat /\ N > 0
      /\ \A k \in 1..(N - 1) : F[k] = cs[k]
  BY <1>1, <1>3, <1>4
<1>6. /\ Append(F, c) \in Seq(CallRecords) /\ Len(Append(F, c)) = N /\ Append(F, c)[N] = c
      /\ DOMAIN Append(F, c) = 1..N
      /\ \A k \in 1..(N - 1) : Append(F, c)[k] = F[k]
  BY <1>5
<1>7. \A k \in 1..N : k # N => k \in 1..(N - 1)
  BY <1>5
<1>8. Replaced(cs, c) = Append(F, c)
  BY <1>4 DEF Replaced
<1>9. PICK R : R = Replaced(cs, c)
  OBVIOUS
<1>10. /\ R \in Seq(CallRecords) /\ Len(R) = N /\ R[N] = c /\ DOMAIN R = 1..N
       /\ \A k \in 1..(N - 1) : R[k] = F[k]
  BY <1>6, <1>8, <1>9
<1>11. \A k \in DOMAIN cs : k # N => R[k] = cs[k]
  BY <1>1, <1>4, <1>5, <1>7, <1>10
<1>12. DOMAIN cs = 1..N /\ N \in DOMAIN cs
  BY <1>1, <1>4
<1> QED
  BY <1>1, <1>4, <1>9, <1>10, <1>11, <1>12

\* The chains of z are those at r, and only owners of Z were touched.
Moved(h, pos, top, g, r, s, x, z, Z, B, a, d) ==
  /\ Sound(r.heap, s, top) /\ Forest(r.heap, x)
  /\ Alternatives(r.heap, s, x, z, r.first, B, a, d)
  /\ Kept(h, pos, g, r.heap, s, x, Z, a)
  /\ Under(r.heap, s, d)

\* The top call has other chains, the others keep theirs.
LEMMA TopMoves ==
  ASSUME NEW p, Len(p) \in Nat, NEW cs, Framed(p, cs), cs # <<>>, NEW top,
         NEW h, NEW pos, NEW g, NEW langs, Standing(h, pos, top, g, cs, langs),
         NEW c \in CallRecords, c.lo = Last(cs).lo,
         NEW r, NEW s, NEW x, NEW B, NEW Z, \A k \in DOMAIN cs : k # Len(cs) => -k \notin Z,
         Moved(h, pos, top, g, r, s, x, -Len(cs), Z, B, Base(c), Bound(c)), c.first = r.first
  PROVE  Built(r.heap, s, top, x, Replaced(cs, c), WordsReplaced(cs, langs, B))
<1> DEFINE ds == Replaced(cs, c)
           ms == WordsReplaced(cs, langs, B)
           K == Len(cs)
<1>1. /\ ds \in Seq(CallRecords) /\ Len(ds) = K /\ DOMAIN ds = DOMAIN cs /\ DOMAIN cs = 1..K
      /\ K \in Nat /\ K > 0 /\ ds[K] = c /\ K \in DOMAIN cs
      /\ \A k \in DOMAIN cs : k # K => ds[k] = cs[k]
  <2>1. cs \in Seq(CallRecords)
    BY DEF Framed
  <2> QED
    BY <2>1, ReplacedIs
<1>2. \A k \in DOMAIN cs : ms[k] = IF k = K THEN B ELSE langs[k]
  BY DEF WordsReplaced
<1>3. Base(c) = Base(cs[K])
  BY DEF Base, Last
<1>4. /\ Sound(r.heap, s, top) /\ Forest(r.heap, x)
      /\ Alternatives(r.heap, s, x, -K, r.first, B, Base(c), Bound(c))
      /\ Kept(h, pos, g, r.heap, s, x, Z, Base(c))
      /\ Under(r.heap, s, Bound(c))
  BY Zenon DEF Moved
<1>5. Base(c) \in Int
  BY <1>1, <1>3, FramedFacts
<1> HIDE DEF ds, ms, K
<1>6. ASSUME NEW k \in DOMAIN cs, k # K
      PROVE  /\ Alternatives(r.heap, s, x, -k, cs[k].first, langs[k], Base(cs[k]), Bound(cs[k]))
             /\ Below(r.heap, s, Bound(cs[k]))
  <2>1. /\ Alternatives(h, pos, g, -k, cs[k].first, langs[k], Base(cs[k]), Bound(cs[k]))
        /\ Below(h, pos, Bound(cs[k])) /\ Sound(h, pos, top) /\ Forest(h, g)
    BY Zenon DEF Standing
  <2>2. k < K
    BY <1>1, <1>6
  <2>3. /\ -k \in Int /\ -k < 0 /\ Base(cs[k]) \in Int /\ Bound(cs[k]) \in Int
        /\ Bound(cs[k]) < Base(c)
    BY <1>1, <1>3, <2>2, FramedFacts
  <2>4. -k \notin Z /\ Bound(cs[k]) <= Base(c)
    <3>1. -k \notin Z
      BY <1>6 DEF K
    <3> QED
      BY <1>5, <2>3, <3>1
  <2>5. Alternatives(r.heap, s, x, -k, cs[k].first, langs[k], Base(cs[k]), Bound(cs[k]))
    BY <1>4, <1>5, <2>1, <2>3, <2>4, AlternativesStay
  <2>6. Below(r.heap, s, Bound(cs[k]))
    BY <1>4, <2>1, <2>3, <2>4 DEF Kept
  <2> QED
    BY <2>5, <2>6
<1>7. Below(r.heap, s, Bound(c))
  BY <1>4, UnderIsBelow
<1>8. ASSUME NEW k \in DOMAIN ds
      PROVE  /\ Alternatives(r.heap, s, x, -k, ds[k].first, ms[k], Base(ds[k]), Bound(ds[k]))
             /\ Below(r.heap, s, Bound(ds[k]))
             /\ k = Len(ds) => Under(r.heap, s, Bound(ds[k]))
  <2>1. CASE k = K
    <3>1. ds[k] = c /\ ms[k] = B
      BY <1>1, <1>2, <2>1
    <3> QED
      BY <1>4, <1>7, <2>1, <3>1
  <2>2. CASE k # K
    <3>1. ds[k] = cs[k] /\ ms[k] = langs[k] /\ k \in DOMAIN cs /\ k # Len(ds)
      BY <1>1, <1>2, <2>2
    <3> QED
      BY <1>6, <2>2, <3>1
  <2> QED
    BY <2>1, <2>2
<1>9. Built(r.heap, s, top, x, ds, ms)
  BY <1>4, <1>8, Zenon DEF Built, Standing
<1> QED
  BY <1>9 DEF ds, ms

-----------------------------------------------------------------------------
(* Steps of the compiler.                                                  *)

Room == 4 * Len(pattern) + 8

Setting ==
  /\ pattern \in Patterns /\ SingleSpaces(pattern) /\ Framed(pattern, calls)

\* What the assumption says of a pattern.
LEMMA PatternIs ==
  ASSUME pattern \in Patterns
  PROVE  pattern \in Seq(Letters) /\ Len(pattern) \in Nat /\ DOMAIN pattern = 1..Len(pattern)
<1>1. pattern \in Seq(Range(pattern))
  BY TextAssumption
<1>2. Range(pattern) \subseteq Letters
  BY DEF Letters
<1>3. pattern \in Seq(Letters)
  BY <1>1, <1>2
<1> QED
  BY <1>3

\* The top call.
LEMMA TopIs ==
  ASSUME Setting, calls # <<>>
  PROVE  /\ calls \in Seq(CallRecords) /\ Len(calls) \in DOMAIN calls /\ Top = calls[Len(calls)]
         /\ Top \in CallRecords /\ Top.lo \in Nat /\ Top.hi \in Nat /\ Top.at \in Nat
         /\ Top.literal \in Seq(Letters) /\ Len(Top.literal) \in Nat
         /\ 1 <= Top.lo /\ Top.lo <= Top.at /\ Top.at <= Top.hi + 1 /\ Top.hi <= Len(pattern)
         /\ Collected(pattern, Top)
<1>1. calls \in Seq(CallRecords)
  BY DEF Setting, Framed
<1>2. Len(calls) \in DOMAIN calls /\ Top = calls[Len(calls)]
  BY <1>1, EmptySeq DEF Top, Last
<1>3. Len(pattern) \in Nat /\ Framed(pattern, calls)
  BY PatternIs DEF Setting
<1>4. /\ Top \in CallRecords /\ Top.lo \in Nat /\ Top.hi \in Nat /\ Top.at \in Nat
      /\ Top.literal \in Seq(Letters) /\ Len(Top.literal) \in Nat
  BY <1>2, <1>3, FramedFacts
<1>5. /\ 1 <= Top.lo /\ Top.lo <= Top.at /\ Top.at <= Top.hi + 1 /\ Top.hi <= Len(pattern)
      /\ Collected(pattern, Top)
  BY <1>2, <1>3 DEF Framed
<1> QED
  BY <1>1, <1>2, <1>4, <1>5

\* A collected literal has no slot and no two spaces side by side.
LEMMA LiteralIsTidy ==
  ASSUME Setting, calls # <<>>
  PROVE  Tidy(Top.literal)
<1> DEFINE t == Top.literal
           b == Top.at - Len(t)
<1>1. /\ t \in Seq(Letters) /\ Len(t) \in Nat /\ b \in Int /\ b >= 1 /\ b + Len(t) <= Len(pattern) + 1
      /\ Len(pattern) \in Nat
  BY TopIs, PatternIs DEF Collected, Setting
<1>2. \A i \in 1..Len(t) : t[i] = pattern[b + (i - 1)] /\ t[i] \notin Openings \cup {"|", "%"}
  BY TopIs DEF Collected
<1> HIDE DEF t, b
<1>3. \A i \in 1..Len(t) : t[i] # "%"
  BY <1>2
<1>4. ASSUME NEW i \in 1..Len(t), NEW j \in 1..Len(t), j = i + 1, Space(t[i]), Space(t[j])  PROVE FALSE
  <2>1. PICK k : k = b + (i - 1)
    OBVIOUS
  <2>2. k \in 1..(Len(pattern) - 1) /\ b + (j - 1) = k + 1
    BY <1>1, <1>4, <2>1
  <2>3. pattern[k] = "_" /\ pattern[k + 1] = "_"
    BY <1>2, <1>4, <2>1, <2>2 DEF Space
  <2> QED
    BY <2>2, <2>3 DEF Setting, SingleSpaces
<1>5. Tidy(t)
  BY <1>1, <1>3, <1>4 DEF Tidy
<1> QED
  BY <1>5 DEF t

\* The top call goes on in its slice.
LEMMA FrameTop ==
  ASSUME NEW p, Len(p) \in Nat, NEW cs, Framed(p, cs), cs # <<>>, NEW c \in CallRecords,
         c.lo = Last(cs).lo, c.hi = Last(cs).hi, c.kind = Last(cs).kind,
         Last(cs).at <= c.at, c.at <= c.hi + 1, Collected(p, c)
  PROVE  Framed(p, Replaced(cs, c))
<1> DEFINE ds == Replaced(cs, c)
           K == Len(cs)
<1>1. /\ ds \in Seq(CallRecords) /\ Len(ds) = K /\ DOMAIN ds = DOMAIN cs /\ DOMAIN cs = 1..K
      /\ K \in Nat /\ K > 0 /\ ds[K] = c /\ K \in DOMAIN cs
      /\ \A k \in DOMAIN cs : k # K => ds[k] = cs[k]
  <2>1. cs \in Seq(CallRecords)
    BY DEF Framed
  <2> QED
    BY <2>1, ReplacedIs
<1>2. Last(cs) = cs[K]
  BY DEF Last
<1> HIDE DEF ds, K
<1>3. /\ cs[K].lo \in Nat /\ cs[K].hi \in Nat /\ cs[K].at \in Nat /\ c.at \in Nat
      /\ 1 <= cs[K].lo /\ cs[K].lo <= cs[K].at /\ cs[K].hi <= Len(p)
      /\ K > 1 => cs[K].kind # "pattern"
  <2>1. c.at \in Nat
    BY DEF CallRecords
  <2>2. cs[K].lo \in Nat /\ cs[K].hi \in Nat /\ cs[K].at \in Nat
    BY <1>1, FramedFacts
  <2> QED
    BY <1>1, <2>1, <2>2 DEF Framed
<1>4. ASSUME NEW k \in DOMAIN ds
      PROVE  /\ 1 <= ds[k].lo /\ ds[k].lo <= ds[k].at /\ ds[k].at <= ds[k].hi + 1 /\ ds[k].hi <= Len(p)
             /\ Collected(p, ds[k])
             /\ k < Len(ds) => ds[k].literal = <<>>
             /\ k > 1 => ds[k].kind # "pattern"
  <2>1. CASE k = K
    <3>1. ds[k] = c /\ ~(k < Len(ds))
      BY <1>1, <2>1
    <3>2. 1 <= c.lo /\ c.lo <= c.at /\ c.at <= c.hi + 1 /\ c.hi <= Len(p)
      BY <1>2, <1>3
    <3> QED
      BY <1>2, <1>3, <2>1, <3>1, <3>2
  <2>2. CASE k # K
    <3>1. ds[k] = cs[k] /\ k \in DOMAIN cs /\ Len(ds) = Len(cs)
      BY <1>1, <2>2 DEF K
    <3> QED
      BY <3>1 DEF Framed
  <2> QED
    BY <2>1, <2>2
<1>5. ASSUME NEW j \in DOMAIN ds, NEW k \in DOMAIN ds, j < k
      PROVE  ds[j].at < ds[k].lo /\ ds[k].hi < ds[j].hi
  <2>1. ds[j] = cs[j] /\ j \in DOMAIN cs /\ k \in DOMAIN cs
    BY <1>1, <1>5
  <2>2. cs[j].at < cs[k].lo /\ cs[k].hi < cs[j].hi
    BY <1>5, <2>1 DEF Framed
  <2>3. ds[k].lo = cs[k].lo /\ ds[k].hi = cs[k].hi
    BY <1>1, <1>2, <2>1
  <2> QED
    BY <2>1, <2>2, <2>3
<1>6. Framed(p, ds)
  BY <1>1, <1>4, <1>5 DEF Framed
<1> QED
  BY <1>6 DEF ds

\* What the literal of the top call leads to.
LEMMA FlushedIs ==
  ASSUME Setting, calls # <<>>, NEW pos, NEW g, NEW langs, Built(heap, pos, Room, g, calls, langs),
         NEW K, K = Len(calls)
  PROVE  \E s, x : Advances(heap, pos, Room, g, Flushed, s, x, -K,
                            FlushedWords(Top.literal, langs[K]), Base(Top), 4 * Top.at)
<1>1. /\ K \in DOMAIN calls /\ Top = calls[K] /\ Top.literal \in Seq(Letters) /\ Len(pattern) \in Nat
  BY TopIs, PatternIs DEF Setting
<1>2. /\ Sound(heap, pos, Room) /\ Forest(heap, g)
      /\ Alternatives(heap, pos, g, -K, Top.first, langs[K], Base(Top), Bound(Top))
      /\ Under(heap, pos, Bound(Top))
  BY <1>1 DEF Built, Standing
<1>3. /\ -K \in Int /\ -K < 0 /\ Base(Top) \in Int /\ Bound(Top) \in 0..Room /\ 4 * Top.at \in Int
      /\ Base(Top) < Bound(Top) /\ Bound(Top) <= 4 * Top.at
      /\ Top.literal # <<>> => Bound(Top) < 4 * Top.at
  BY <1>1, FramedFacts DEF Setting, Room
<1>4. Tidy(Top.literal)
  BY LiteralIsTidy
<1>5. PICK t, f, r, a, b, d :
        /\ t = Top.literal /\ f = Top.first /\ r = Flushed /\ a = Base(Top) /\ b = Bound(Top) /\ d = 4 * Top.at
  OBVIOUS
<1>6. r = IF t = <<>> THEN Chain(heap, f) ELSE Add(heap, f, Element("literal", t, <<>>))
  BY <1>5 DEF Flushed
<1>7. \E s, x : Advances(heap, pos, Room, g, r, s, x, -K, FlushedWords(t, langs[K]), a, d)
  BY <1>1, <1>2, <1>3, <1>4, <1>5, <1>6, Flush
<1> QED
  BY <1>5, <1>7

\* The head of a chain is a number.
LEMMA HeadIsNumber ==
  ASSUME NEW h, NEW pos, NEW top, Sound(h, pos, top), NEW g, Forest(h, g),
         NEW z, NEW f, NEW A, NEW a, NEW b, Alternatives(h, pos, g, z, f, A, a, b)
  PROVE  f \in Nat
<1>1. CASE f = Nil
  BY <1>1 DEF Nil
<1>2. CASE Single(h, pos, g, z, f, A, a, b)
  <2>1. f \in g.live
    BY <1>2, Zenon DEF Single, Open
  <2> QED
    BY <2>1, LiveFacts
<1>3. CASE Several(h, pos, g, z, f, A, a, b)
  <2>1. f \in DOMAIN h
    BY <1>3, Zenon DEF Several
  <2> QED
    BY <2>1, SoundFacts
<1> QED
  BY <1>1, <1>2, <1>3, Zenon DEF Alternatives

\* The record of a call that went on to i with the chain r.
GoneTo(c, r, i) ==
  /\ c \in CallRecords /\ c.lo = Top.lo /\ c.hi = Top.hi /\ c.kind = Top.kind
  /\ c.at = i /\ c.first = r.first /\ c.literal = <<>>
  /\ Base(c) = Base(Top) /\ Bound(c) = 4 * i /\ Collected(pattern, c)

\* The top call after a symbol that flushes.
LEMMA AdvancedIs ==
  ASSUME Setting, calls # <<>>, NEW r, r.first \in Nat, NEW i \in Nat, Top.at <= i
  PROVE  GoneTo(Advanced(r, i), r, i)
<1>0. PICK c : c = Advanced(r, i)
  OBVIOUS
<1>1. Top \in CallRecords /\ <<>> \in Seq(Letters) /\ Top.lo \in Nat /\ Top.lo <= Top.at /\ Top.at \in Nat
  BY TopIs
<1>2. PICK t : t = Top
  OBVIOUS
<1>3. c = [t EXCEPT !.at = i, !.first = r.first, !.literal = <<>>] /\ t \in CallRecords
  BY <1>0, <1>1, <1>2 DEF Advanced
<1>4. /\ c \in CallRecords /\ c.lo = t.lo /\ c.hi = t.hi /\ c.kind = t.kind
      /\ c.at = i /\ c.first = r.first /\ c.literal = <<>>
  BY <1>1, <1>3 DEF CallRecords
<1>5. Base(c) = Base(t)
  BY <1>4 DEF Base
<1>6. Bound(c) = 4 * i
  BY <1>4 DEF Bound
<1>7. Collected(pattern, c)
  BY <1>1, <1>2, <1>4 DEF Collected
<1>8. GoneTo(c, r, i)
  BY <1>2, <1>4, <1>5, <1>6, <1>7 DEF GoneTo
<1> QED
  BY <1>0, <1>8

\* The top call goes on to i with the chain r.
LEMMA TopGoes ==
  ASSUME Setting, calls # <<>>, NEW pos, NEW g, NEW langs, Built(heap, pos, Room, g, calls, langs),
         NEW i \in Nat, Top.at <= i, i <= Top.hi + 1,
         NEW r, NEW s, NEW x, NEW B,
         Advances(heap, pos, Room, g, r, s, x, -Len(calls), B, Base(Top), 4 * i)
  PROVE  /\ Framed(pattern, Replaced(calls, Advanced(r, i)))
         /\ Built(r.heap, s, Room, x, Replaced(calls, Advanced(r, i)), WordsReplaced(calls, langs, B))
<1>1. Sound(r.heap, s, Room) /\ Forest(r.heap, x) /\ Alternatives(r.heap, s, x, -Len(calls), r.first, B, Base(Top), 4 * i)
  BY Zenon DEF Advances
<1>2. r.first \in Nat
  BY <1>1, HeadIsNumber
<1>3. PICK c : c = Advanced(r, i)
  OBVIOUS
<1>4. /\ c \in CallRecords /\ c.lo = Top.lo /\ c.hi = Top.hi /\ c.kind = Top.kind
      /\ c.at = i /\ c.first = r.first
      /\ Base(c) = Base(Top) /\ Bound(c) = 4 * i /\ Collected(pattern, c)
  <2>1. GoneTo(c, r, i)
    BY <1>2, <1>3, AdvancedIs
  <2> QED
    BY <2>1 DEF GoneTo
<1>5. Framed(pattern, calls) /\ Len(pattern) \in Nat /\ Top = Last(calls)
  BY PatternIs DEF Setting, Top
<1>6. Framed(pattern, Replaced(calls, c))
  BY <1>4, <1>5, FrameTop
<1>7. Built(r.heap, s, Room, x, Replaced(calls, c), WordsReplaced(calls, langs, B))
  <2> DEFINE K == Len(calls)
             Z == {-K, 0}
  <2>1. Standing(heap, pos, Room, g, calls, langs) /\ calls # <<>>
    BY Zenon DEF Built
  <2>2. \A k \in DOMAIN calls : k # K => -k \notin Z
    <3>1. calls \in Seq(CallRecords)
      BY <1>5 DEF Framed
    <3>2. \A k \in 1..K : k \in Int /\ k > 0
      BY <3>1
    <3>3. K \in Nat /\ DOMAIN calls = 1..K
      BY <3>1
    <3> QED
      BY <3>2, <3>3
  <2>3. Moved(heap, pos, Room, g, r, s, x, -K, Z, B, Base(c), Bound(c))
    <3>1. Advances(heap, pos, Room, g, r, s, x, -K, B, Base(c), Bound(c))
      BY <1>4
    <3> QED
      BY <3>1, Zenon DEF Moved, Advances
  <2>4. c \in CallRecords /\ c.lo = Last(calls).lo /\ c.first = r.first
    BY <1>4, <1>5
  <2> HIDE DEF Z
  <2> QED
    BY <1>5, <2>1, <2>2, <2>3, <2>4, TopMoves DEF K
<1> QED
  BY <1>3, <1>6, <1>7

\* The same, as TakeSlot and TakeBar do it.
LEMMA GoesIs ==
  ASSUME Setting, Reading, NEW pos, NEW g, NEW langs, Built(heap, pos, Room, g, calls, langs),
         NEW r, NEW s, NEW x, NEW B,
         Advances(heap, pos, Room, g, r, s, x, -Len(calls), B, Base(Top), 4 * (Top.at + 1)),
         Goes(r, Top.at + 1)
  PROVE  /\ Framed(pattern, calls')
         /\ Built(heap', s, Room, x, calls', WordsReplaced(calls, langs, B))
<1>1. calls # <<>> /\ Top.at \in Nat /\ Top.hi \in Nat /\ Top.at <= Top.hi
  BY TopIs DEF Reading
<1>2. PICK i : i = Top.at + 1
  OBVIOUS
<1>3. i \in Nat /\ Top.at <= i /\ i <= Top.hi + 1
  BY <1>1, <1>2
<1>4. /\ Framed(pattern, Replaced(calls, Advanced(r, i)))
      /\ Built(r.heap, s, Room, x, Replaced(calls, Advanced(r, i)), WordsReplaced(calls, langs, B))
  BY <1>1, <1>2, <1>3, TopGoes
<1>5. calls' = Replaced(calls, Advanced(r, i)) /\ heap' = r.heap
  BY <1>2 DEF Goes, Replaced
<1> QED
  BY <1>4, <1>5

\* The words that a step leaves.
LiteralWords(langs) == FlushedWords(Top.literal, langs[Len(calls)])
SlotWords(langs) == WithLast(LiteralWords(langs), {<<"%">>})
BarWords(langs) == Append(LiteralWords(langs), {<<>>})

\* A slot is joined to the words of the last alternative.
LEMMA SlotStep ==
  ASSUME Setting, NEW pos, NEW g, NEW langs, Built(heap, pos, Room, g, calls, langs), TakeSlot
  PROVE  /\ Framed(pattern, calls')
         /\ \E s, x : Built(heap', s, Room, x, calls', WordsReplaced(calls, langs, SlotWords(langs)))
<1> DEFINE K == Len(calls)
           A == LiteralWords(langs)
<1>1. Reading /\ calls # <<>>
  BY DEF TakeSlot, Reading
<1>2. PICK r : r = Add(Flushed.heap, Flushed.first, Element("type", <<>>, <<>>))
  OBVIOUS
<1>3. Goes(r, Top.at + 1)
  BY <1>2 DEF TakeSlot
<1>4. PICK s, x : Advances(heap, pos, Room, g, Flushed, s, x, -K, A, Base(Top), 4 * Top.at)
  <2>1. \E s, x : Advances(heap, pos, Room, g, Flushed, s, x, -K, A, Base(Top), 4 * Top.at)
    BY <1>1, FlushedIs DEF LiteralWords
  <2> QED
    BY <2>1
<1>5. /\ -K \in Int /\ -K < 0 /\ Base(Top) \in Int /\ 4 * Top.at \in 0..Room /\ 4 * (Top.at + 1) \in Int
      /\ Base(Top) < 4 * Top.at /\ 4 * Top.at < 4 * (Top.at + 1)
  <2>1. K \in DOMAIN calls /\ Top = calls[K] /\ Len(pattern) \in Nat /\ Framed(pattern, calls) /\ Top.at \in Nat
    BY <1>1, TopIs, PatternIs DEF Setting
  <2>2. /\ -K \in Int /\ -K < 0 /\ Base(Top) \in Int /\ Bound(Top) \in Int
        /\ Base(Top) < Bound(Top) /\ Bound(Top) <= 4 * Top.at /\ 4 * Top.at <= 4 * Len(pattern) + 4
    BY <2>1, FramedFacts
  <2> QED
    BY <2>1, <2>2 DEF Room
<1> HIDE DEF K, A
<1>6. PICK f, a, b, d : f = Flushed /\ a = Base(Top) /\ b = 4 * Top.at /\ d = 4 * (Top.at + 1)
  OBVIOUS
<1>7. /\ Sound(f.heap, s, Room) /\ Forest(f.heap, x)
      /\ Alternatives(f.heap, s, x, -K, f.first, A, a, b) /\ Under(f.heap, s, b)
  BY <1>4, <1>6, Zenon DEF Advances
<1>8. PICK t, y : Advances(f.heap, s, Room, x, r, t, y, -K, WithLast(A, {<<"%">>}), a, d)
  <2>1. /\ a \in Int /\ b \in 0..Room /\ d \in Int /\ a < b /\ b < d
        /\ r = Add(f.heap, f.first, Element("type", <<>>, <<>>))
    BY <1>2, <1>5, <1>6
  <2>2. \E t, y : Advances(f.heap, s, Room, x, r, t, y, -K, WithLast(A, {<<"%">>}), a, d)
    BY <1>5, <1>7, <2>1, AddSlot
  <2> QED
    BY <2>2
<1>9. Advances(heap, pos, Room, g, r, t, y, -K, WithLast(A, {<<"%">>}), a, d)
  <2>1. Advances(heap, pos, Room, g, f, s, x, -K, A, a, b) /\ a \in Int
    BY <1>4, <1>5, <1>6
  <2> QED
    BY <1>8, <2>1, AdvancesTwice
<1>10. WithLast(A, {<<"%">>}) = SlotWords(langs)
  BY DEF A, SlotWords
<1>11. Advances(heap, pos, Room, g, r, t, y, -Len(calls), SlotWords(langs), Base(Top), 4 * (Top.at + 1))
  BY <1>6, <1>9, <1>10 DEF K
<1>12. /\ Framed(pattern, calls')
       /\ Built(heap', t, Room, y, calls', WordsReplaced(calls, langs, SlotWords(langs)))
  BY <1>1, <1>3, <1>11, GoesIs
<1> QED
  BY <1>12, Zenon

\* A bar opens an alternative with the empty word.
LEMMA BarStep ==
  ASSUME Setting, NEW pos, NEW g, NEW langs, Built(heap, pos, Room, g, calls, langs), TakeBar
  PROVE  /\ Framed(pattern, calls')
         /\ \E s, x : Built(heap', s, Room, x, calls', WordsReplaced(calls, langs, BarWords(langs)))
<1> DEFINE K == Len(calls)
           A == LiteralWords(langs)
<1>1. Reading /\ calls # <<>>
  BY DEF TakeBar, Reading
<1>2. PICK r : r = Bar(Flushed.heap, Flushed.first)
  OBVIOUS
<1>3. Goes(r, Top.at + 1)
  BY <1>2 DEF TakeBar
<1>4. PICK s, x : Advances(heap, pos, Room, g, Flushed, s, x, -K, A, Base(Top), 4 * Top.at)
  <2>1. \E s, x : Advances(heap, pos, Room, g, Flushed, s, x, -K, A, Base(Top), 4 * Top.at)
    BY <1>1, FlushedIs DEF LiteralWords
  <2> QED
    BY <2>1
<1>5. /\ -K \in Int /\ -K < 0 /\ Base(Top) \in 0..Room /\ 4 * Top.at \in 0..Room /\ 4 * (Top.at + 1) \in Int
      /\ Base(Top) < 4 * Top.at /\ 4 * Top.at + 1 < 4 * (Top.at + 1) /\ 4 * Top.at + 1 <= Room
  <2>1. K \in DOMAIN calls /\ Top = calls[K] /\ Len(pattern) \in Nat /\ Framed(pattern, calls) /\ Top.at \in Nat
    BY <1>1, TopIs, PatternIs DEF Setting
  <2>2. /\ -K \in Int /\ -K < 0 /\ Base(Top) \in 0..(4 * Len(pattern) + 8) /\ Bound(Top) \in Int
        /\ Base(Top) < Bound(Top) /\ Bound(Top) <= 4 * Top.at /\ 4 * Top.at <= 4 * Len(pattern) + 4
    BY <2>1, FramedFacts
  <2> QED
    BY <2>1, <2>2, SMTT(30) DEF Room
<1> HIDE DEF K, A
<1>6. PICK f, a, b, d : f = Flushed /\ a = Base(Top) /\ b = 4 * Top.at /\ d = 4 * (Top.at + 1)
  OBVIOUS
<1>7. /\ Sound(f.heap, s, Room) /\ Forest(f.heap, x)
      /\ Alternatives(f.heap, s, x, -K, f.first, A, a, b) /\ Under(f.heap, s, b)
  BY <1>4, <1>6, Zenon DEF Advances
<1>8. PICK t, y : Advances(f.heap, s, Room, x, r, t, y, -K, Append(A, {<<>>}), a, d)
  <2>1. /\ a \in 0..Room /\ b \in 0..Room /\ d \in Int /\ a < b /\ b + 1 < d /\ b + 1 <= Room
        /\ r = Bar(f.heap, f.first)
    BY <1>2, <1>5, <1>6
  <2>2. \E t, y : Advances(f.heap, s, Room, x, r, t, y, -K, Append(A, {<<>>}), a, d)
    BY <1>5, <1>7, <2>1, BarIs
  <2> QED
    BY <2>2
<1>9. Advances(heap, pos, Room, g, r, t, y, -K, Append(A, {<<>>}), a, d)
  <2>1. Advances(heap, pos, Room, g, f, s, x, -K, A, a, b) /\ a \in Int
    BY <1>4, <1>5, <1>6
  <2> QED
    BY <1>8, <2>1, AdvancesTwice
<1>10. Append(A, {<<>>}) = BarWords(langs)
  BY DEF A, BarWords
<1>11. Advances(heap, pos, Room, g, r, t, y, -Len(calls), BarWords(langs), Base(Top), 4 * (Top.at + 1))
  BY <1>6, <1>9, <1>10 DEF K
<1>12. /\ Framed(pattern, calls')
       /\ Built(heap', t, Room, y, calls', WordsReplaced(calls, langs, BarWords(langs)))
  BY <1>1, <1>3, <1>11, GoesIs
<1> QED
  BY <1>12, Zenon

\* A letter is collected; no chain changes.
LEMMA ReadLetter ==
  ASSUME Setting, NEW pos, NEW g, NEW langs, Built(heap, pos, Room, g, calls, langs), TakeLetter
  PROVE  Framed(pattern, calls') /\ Built(heap, pos, Room, g, calls', langs) /\ heap' = heap
<1> DEFINE K == Len(calls)
<1>1. Reading /\ calls # <<>> /\ Top.at <= Top.hi
  BY DEF TakeLetter, Reading
<1>2. PICK t : t = Top
  OBVIOUS
<1>3. /\ t \in CallRecords /\ t.lo \in Nat /\ t.hi \in Nat /\ t.at \in Nat /\ t.literal \in Seq(Letters)
      /\ 1 <= t.lo /\ t.lo <= t.at /\ t.hi <= Len(pattern) /\ t.at <= t.hi /\ Collected(pattern, t)
      /\ t = calls[K] /\ K \in DOMAIN calls /\ calls \in Seq(CallRecords)
  BY <1>1, <1>2, TopIs
<1>4. pattern[t.at] \in Letters /\ Len(pattern) \in Nat /\ pattern[t.at] \notin Openings \cup {"|", "%"}
  <2>1. t.at \in 1..Len(pattern) /\ pattern \in Seq(Letters)
    BY <1>3, PatternIs DEF Setting
  <2> QED
    BY <1>2, <2>1 DEF TakeLetter, Symbol
<1>5. PICK l : l = Append(t.literal, pattern[t.at])
  OBVIOUS
<1>6. /\ l \in Seq(Letters) /\ Len(l) = Len(t.literal) + 1 /\ Len(t.literal) \in Nat /\ Len(l) \in Nat
      /\ \A i \in 1..Len(t.literal) : l[i] = t.literal[i]
      /\ l[Len(l)] = pattern[t.at]
  BY <1>3, <1>4, <1>5
<1>7. PICK c : c = [t EXCEPT !.at = t.at + 1, !.literal = l]
  OBVIOUS
<1>8. /\ c \in CallRecords /\ c.lo = t.lo /\ c.hi = t.hi /\ c.kind = t.kind /\ c.first = t.first
      /\ c.at = t.at + 1 /\ c.literal = l
  <2>1. PICK v : v = t.at + 1
    OBVIOUS
  <2>2. v \in Nat /\ l \in Seq(Letters) /\ t \in CallRecords
    BY <1>3, <1>6, <2>1
  <2>3. c = [t EXCEPT !.at = v, !.literal = l]
    BY <1>7, <2>1
  <2>4. /\ c \in CallRecords /\ c.lo = t.lo /\ c.hi = t.hi /\ c.kind = t.kind /\ c.first = t.first
        /\ c.at = v /\ c.literal = l
    BY <2>2, <2>3 DEF CallRecords
  <2> QED
    BY <2>1, <2>4
<1>21. PICK n, m, o : n = t.at /\ m = Len(t.literal) /\ o = t.lo
  OBVIOUS
<1>22. /\ n \in Nat /\ m \in Nat /\ o \in Nat /\ c.at = n + 1 /\ Len(l) = m + 1 /\ c.lo = o
       /\ c.literal = l
  BY <1>3, <1>6, <1>8, <1>21
<1>9. calls' = Replaced(calls, c)
  BY <1>2, <1>5, <1>7 DEF TakeLetter, Replaced, Symbol
<1>10. Collected(pattern, c)
  <2>1. Len(t.literal) <= t.at - t.lo
    BY <1>3 DEF Collected
  <2>2. Len(l) <= c.at - c.lo /\ c.at - Len(l) = t.at - Len(t.literal)
    <3>1. m <= n - o
      BY <1>21, <2>1
    <3>2. m + 1 <= (n + 1) - o /\ (n + 1) - (m + 1) = n - m
      BY <1>22, <3>1
    <3> QED
      BY <1>21, <1>22, <3>2
  <2>3. ASSUME NEW i \in 1..Len(l)
        PROVE  l[i] = pattern[(c.at - Len(l)) + (i - 1)] /\ l[i] \notin Openings \cup {"|", "%"}
    <3>1. CASE i = Len(l)
      <4>1. (c.at - Len(l)) + (i - 1) = t.at
        <5>1. i = m + 1
          BY <1>22, <3>1
        <5>2. ((n + 1) - (m + 1)) + (i - 1) = n
          BY <1>22, <5>1
        <5> QED
          BY <1>21, <1>22, <5>2
      <4> QED
        BY <1>4, <1>6, <3>1, <4>1
    <3>2. CASE i # Len(l)
      <4>1. i \in 1..Len(t.literal)
        BY <1>6, <3>2
      <4>2. l[i] = t.literal[i]
        BY <1>6, <4>1
      <4>3. t.literal[i] = pattern[(t.at - Len(t.literal)) + (i - 1)] /\ t.literal[i] \notin Openings \cup {"|", "%"}
        BY <1>3, <4>1 DEF Collected
      <4> QED
        BY <2>2, <4>2, <4>3
    <3> QED
      BY <3>1, <3>2
  <2> QED
    BY <1>8, <2>2, <2>3 DEF Collected
<1>11. Framed(pattern, calls')
  <2>1. /\ c.lo = Last(calls).lo /\ c.hi = Last(calls).hi /\ c.kind = Last(calls).kind
        /\ Last(calls).at <= c.at /\ c.at <= c.hi + 1
    BY <1>2, <1>3, <1>8 DEF Top
  <2> QED
    BY <1>1, <1>4, <1>8, <1>9, <1>10, <2>1, FrameTop DEF Setting
<1>12. Base(c) = Base(t) /\ Bound(c) = Bound(t)
  <2>1. 4 * ((n + 1) - (m + 1)) = 4 * (n - m)
    BY <1>22
  <2>2. Bound(c) = 4 * ((n + 1) - (m + 1)) /\ Bound(t) = 4 * (n - m)
    BY <1>21, <1>22 DEF Bound
  <2>3. Base(c) = Base(t)
    BY <1>21, <1>22 DEF Base
  <2> QED
    BY <2>1, <2>2, <2>3
<1>13. /\ DOMAIN calls' = DOMAIN calls /\ Len(calls') = K /\ calls'[K] = c
       /\ \A k \in DOMAIN calls : k # K => calls'[k] = calls[k]
  BY <1>1, <1>3, <1>8, <1>9, ReplacedIs
<1>14. \A k \in DOMAIN calls : /\ calls'[k].first = calls[k].first /\ Base(calls'[k]) = Base(calls[k])
                               /\ Bound(calls'[k]) = Bound(calls[k])
  <2> TAKE k \in DOMAIN calls
  <2>1. CASE k = K
    BY <1>3, <1>8, <1>12, <1>13, <2>1
  <2>2. CASE k # K
    BY <1>13, <2>2
  <2> QED
    BY <2>1, <2>2
<1>15. Built(heap, pos, Room, g, calls', langs)
  <2>1. Standing(heap, pos, Room, g, calls', langs)
    <3>1. \A k \in DOMAIN calls : /\ Alternatives(heap, pos, g, -k, calls[k].first, langs[k], Base(calls[k]), Bound(calls[k]))
                                  /\ Below(heap, pos, Bound(calls[k]))
      BY Zenon DEF Built, Standing
    <3>2. \A k \in DOMAIN calls' : /\ Alternatives(heap, pos, g, -k, calls'[k].first, langs[k], Base(calls'[k]), Bound(calls'[k]))
                                   /\ Below(heap, pos, Bound(calls'[k]))
      BY <1>13, <1>14, <3>1
    <3> QED
      BY <3>2, Zenon DEF Built, Standing
  <2>2. \A k \in DOMAIN calls' : k = Len(calls') => Under(heap, pos, Bound(calls'[k]))
    <3>1. \A k \in DOMAIN calls : k = K => Under(heap, pos, Bound(calls[k]))
      BY Zenon DEF Built
    <3> QED
      BY <1>13, <1>14, <3>1
  <2> QED
    BY <2>1, <2>2, Zenon DEF Built
<1>16. heap' = heap
  BY DEF TakeLetter
<1> QED
  BY <1>11, <1>15, <1>16

-----------------------------------------------------------------------------
WordsPushed(cs, langs) == [k \in 1..(Len(cs) + 1) |-> IF k = Len(cs) + 1 THEN <<{<<>>}>> ELSE langs[k]]

\* The stack with one call more.
LEMMA PushIs ==
  ASSUME NEW cs \in Seq(CallRecords), NEW c \in CallRecords, NEW ds, ds = Append(cs, c),
         NEW K, K = Len(cs)
  PROVE  /\ ds \in Seq(CallRecords) /\ Len(ds) = K + 1 /\ K \in Nat /\ DOMAIN ds = 1..(K + 1)
         /\ DOMAIN cs = 1..K /\ ds[K + 1] = c
         /\ \A k \in 1..K : ds[k] = cs[k]
OBVIOUS

\* The content of a bracket at the top call's place, up to its end e.
LEMMA Push ==
  ASSUME NEW p, Len(p) \in Nat, NEW cs, Framed(p, cs), cs # <<>>, NEW top, top \in Nat,
         NEW h, NEW pos, NEW g, NEW langs, Built(h, pos, top, g, cs, langs),
         Last(cs).literal = <<>>, NEW kind \in {"group", "optional"},
         NEW e \in (Last(cs).at + 1)..Last(cs).hi
  PROVE  /\ Framed(p, Append(cs, Call(kind, Last(cs).at + 1, e - 1)))
         /\ Built(h, pos, top, g, Append(cs, Call(kind, Last(cs).at + 1, e - 1)), WordsPushed(cs, langs))
<1> DEFINE K == Len(cs)
           c == Call(kind, Last(cs).at + 1, e - 1)
           ds == Append(cs, c)
           ms == WordsPushed(cs, langs)
<1>1. PICK t : t = Last(cs)
  OBVIOUS
<1>2. cs \in Seq(CallRecords) /\ K \in DOMAIN cs /\ t = cs[K]
  BY <1>1, EmptySeq DEF Framed, Last
<1>3. /\ t.lo \in Nat /\ t.hi \in Nat /\ t.at \in Nat /\ Bound(t) \in Nat /\ Bound(t) <= 4 * t.at
  BY <1>2, FramedFacts
<1>4. 1 <= t.lo /\ t.lo <= t.at /\ t.hi <= Len(p)
  BY <1>2 DEF Framed
<1>5. /\ c \in CallRecords /\ c.kind = kind /\ c.lo = t.at + 1 /\ c.hi = e - 1 /\ c.at = t.at + 1
      /\ c.first = Nil /\ c.literal = <<>>
  <2>1. t.at + 1 \in Nat /\ e - 1 \in Nat /\ Nil \in Nat /\ <<>> \in Seq(Letters)
    BY <1>1, <1>3 DEF Nil
  <2> QED
    BY <1>1, <2>1 DEF Call, CallRecords
<1> HIDE DEF c
<1>6. PICK N : N = K
  OBVIOUS
<1>7. /\ ds \in Seq(CallRecords) /\ Len(ds) = N + 1 /\ N \in Nat /\ DOMAIN ds = 1..(N + 1)
      /\ DOMAIN cs = 1..N /\ ds[N + 1] = c
      /\ \A k \in 1..N : ds[k] = cs[k]
  <2>1. PICK q : q = ds
    OBVIOUS
  <2>2. q = Append(cs, c) /\ N = Len(cs)
    BY <1>6, <2>1
  <2> HIDE DEF ds, K
  <2>3. /\ q \in Seq(CallRecords) /\ Len(q) = N + 1 /\ N \in Nat /\ DOMAIN q = 1..(N + 1)
        /\ DOMAIN cs = 1..N /\ q[N + 1] = c
        /\ \A k \in 1..N : q[k] = cs[k]
    BY <1>2, <1>5, <2>2, PushIs
  <2> QED
    BY <2>1, <2>3
<1> HIDE DEF ds
<1>8. c.lo <= c.at /\ c.at <= c.hi + 1 /\ c.hi < t.hi /\ t.at < c.lo /\ 1 <= c.lo /\ c.hi <= Len(p)
  BY <1>1, <1>3, <1>4, <1>5
<1>9. Collected(p, c)
  BY <1>3, <1>5 DEF Collected
<1>10. ASSUME NEW k \in DOMAIN ds
       PROVE  /\ 1 <= ds[k].lo /\ ds[k].lo <= ds[k].at /\ ds[k].at <= ds[k].hi + 1 /\ ds[k].hi <= Len(p)
              /\ Collected(p, ds[k])
              /\ k < Len(ds) => ds[k].literal = <<>>
              /\ k > 1 => ds[k].kind # "pattern"
  <2>1. CASE k = N + 1
    BY <1>5, <1>7, <1>8, <1>9, <2>1
  <2>2. CASE k # N + 1
    <3>1. k \in 1..N /\ ds[k] = cs[k]
      BY <1>7, <2>2
    <3>2. ds[k].literal = <<>>
      <4>1. CASE k = N
        BY <1>1, <1>2, <1>6, <3>1, <4>1
      <4>2. CASE k # N
        <5>1. k < Len(cs)
          BY <1>6, <1>7, <3>1, <4>2
        <5> QED
          BY <1>7, <3>1, <5>1 DEF Framed
      <4> QED
        BY <4>1, <4>2
    <3> QED
      BY <1>7, <3>1, <3>2 DEF Framed
  <2> QED
    BY <2>1, <2>2
<1>11. ASSUME NEW j \in DOMAIN ds, NEW k \in DOMAIN ds, j < k
       PROVE  ds[j].at < ds[k].lo /\ ds[k].hi < ds[j].hi
  <2>1. j \in 1..N /\ ds[j] = cs[j]
    BY <1>7, <1>11
  <2>2. CASE k = N + 1
    <3>1. ds[k] = c
      BY <1>7, <2>2
    <3>2. CASE j = N
      BY <1>2, <1>6, <1>8, <2>1, <3>1, <3>2
    <3>3. CASE j # N
      <4>1. j < N /\ N \in DOMAIN cs /\ j \in DOMAIN cs /\ cs[N] = t
        BY <1>2, <1>6, <1>7, <2>1, <3>3
      <4>2. cs[j].at < t.lo /\ t.hi < cs[j].hi
        BY <4>1 DEF Framed
      <4>3. cs[j].at \in Nat /\ cs[j].hi \in Nat
        BY <4>1, FramedFacts
      <4> QED
        BY <1>3, <1>4, <1>5, <1>8, <2>1, <3>1, <4>2, <4>3, SMTT(30)
    <3> QED
      BY <3>2, <3>3
  <2>3. CASE k # N + 1
    <3>1. k \in 1..N /\ ds[k] = cs[k]
      BY <1>7, <2>3
    <3> QED
      BY <1>7, <1>11, <2>1, <3>1 DEF Framed
  <2> QED
    BY <2>2, <2>3
<1>12. Framed(p, ds)
  BY <1>7, <1>10, <1>11 DEF Framed
<1>13. /\ Sound(h, pos, top) /\ Forest(h, g) /\ Under(h, pos, Bound(t))
       /\ \A k \in DOMAIN cs : /\ Alternatives(h, pos, g, -k, cs[k].first, langs[k], Base(cs[k]), Bound(cs[k]))
                               /\ Below(h, pos, Bound(cs[k]))
  BY <1>2 DEF Built, Standing
<1>14. Base(c) \in Int /\ Bound(c) = 4 * t.at + 4
  <2>1. Len(c.literal) = 0
    BY <1>5
  <2>2. PICK i : i = t.at
    OBVIOUS
  <2>3. i \in Nat /\ c.at = i + 1 /\ c.lo = i + 1
    BY <1>3, <1>5, <2>2
  <2>4. Bound(c) = 4 * ((i + 1) - 0) /\ Base(c) = 4 * (i + 1) - 1
    BY <2>1, <2>3 DEF Base, Bound
  <2> QED
    BY <2>2, <2>3, <2>4
<1>15. Under(h, pos, Bound(c))
  <2>1. \A m \in DOMAIN h : pos[m] \in Int
    BY <1>13, PlacesAreNumbers
  <2> QED
    BY <1>3, <1>13, <1>14, <2>1 DEF Under
<1>16. Below(h, pos, Bound(c))
  BY <1>13, <1>15, UnderIsBelow
<1>17. /\ ms[N + 1] = <<{<<>>}>> /\ \A k \in 1..N : ms[k] = langs[k]
  BY <1>6, <1>7 DEF WordsPushed
<1>18. Alternatives(h, pos, g, -(N + 1), c.first, <<{<<>>}>>, Base(c), Bound(c))
  <2>1. <<{<<>>}>> \in Seq(SUBSET Seq(Letters)) /\ Len(<<{<<>>}>>) = 1 /\ <<{<<>>}>>[1] = {<<>>}
    <3> DEFINE S == SUBSET Seq(Letters)
               v == {<<>>}
    <3>1. v \in S
      OBVIOUS
    <3> HIDE DEF S, v
    <3>2. <<v>> \in Seq(S) /\ Len(<<v>>) = 1 /\ <<v>>[1] = v
      BY <3>1
    <3> QED
      BY <3>2 DEF S, v
  <2> QED
    BY <1>5, <2>1, Zenon DEF Alternatives
<1> HIDE DEF ms
<1>19. ASSUME NEW k \in DOMAIN ds
       PROVE  /\ Alternatives(h, pos, g, -k, ds[k].first, ms[k], Base(ds[k]), Bound(ds[k]))
              /\ Below(h, pos, Bound(ds[k]))
              /\ k = Len(ds) => Under(h, pos, Bound(ds[k]))
  <2>1. CASE k = N + 1
    <3>1. ds[k] = c /\ ms[k] = <<{<<>>}>>
      BY <1>7, <1>17, <2>1
    <3> QED
      BY <1>15, <1>16, <1>18, <2>1, <3>1
  <2>2. CASE k # N + 1
    <3>1. k \in 1..N /\ ds[k] = cs[k] /\ ms[k] = langs[k] /\ k # Len(ds)
      BY <1>7, <1>17, <2>2
    <3> QED
      BY <1>7, <1>13, <3>1
  <2> QED
    BY <2>1, <2>2
<1>20. Built(h, pos, top, g, ds, ms)
  BY <1>13, <1>19, Zenon DEF Built, Standing
<1> QED
  BY <1>12, <1>20 DEF ds, ms, c

\* next_bracket finds a place of the slice.
LEMMA NextBracketIn ==
  ASSUME NEW p, NEW kind, NEW from \in Nat, NEW hi \in Nat, NextBracket(p, kind, from, hi) # Nil
  PROVE  NextBracket(p, kind, from, hi) \in from..hi
<1> DEFINE index[j \in (from - 1)..Len(p)] ==
             IF j = from - 1 THEN 0
             ELSE CASE p[j] = Brackets[kind][1] -> index[j - 1] + 1
                    [] p[j] = Brackets[kind][2] -> index[j - 1] - 1
                    [] OTHER -> index[j - 1]
           ends == {j \in from..hi : index[j] = -1}
<1>1. NextBracket(p, kind, from, hi) = IF ends = {} THEN Nil ELSE Min(ends)
  BY DEF NextBracket
<1>2. ends \subseteq from..hi
  OBVIOUS
<1> HIDE DEF index, ends
<1>3. ends # {} /\ NextBracket(p, kind, from, hi) = Min(ends)
  BY <1>1
<1>4. ends \in SUBSET Nat
  BY <1>2
<1> QED
  BY <1>2, <1>3, <1>4, MinIs

\* Two elements behind a sequence.
LEMMA TwoBehind ==
  ASSUME NEW S, NEW s \in Seq(S), NEW x \in S, NEW y \in S
  PROVE  s \o <<x, y>> = Append(Append(s, x), y)
OBVIOUS

\* A bracket is opened: the literal is flushed, the new call has the empty word.
LEMMA OpenStep ==
  ASSUME Setting, NEW pos, NEW g, NEW langs, Built(heap, pos, Room, g, calls, langs),
         NEW kind \in {"group", "optional"}, OpenBracket(kind)
  PROVE  /\ Framed(pattern, calls')
         /\ \E s, x : Built(heap', s, Room, x, calls',
                            WordsPushed(calls, WordsReplaced(calls, langs, LiteralWords(langs))))
<1> DEFINE K == Len(calls)
           A == LiteralWords(langs)
           c == Advanced(Flushed, Top.at)
           ds == Replaced(calls, c)
           ms == WordsReplaced(calls, langs, A)
           e == End(kind)
<1>1. Reading /\ calls # <<>> /\ Top.at <= Top.hi /\ e # Nil
  BY DEF OpenBracket, Reading
<1>2. PICK s, x : Advances(heap, pos, Room, g, Flushed, s, x, -K, A, Base(Top), 4 * Top.at)
  <2>1. \E s, x : Advances(heap, pos, Room, g, Flushed, s, x, -K, A, Base(Top), 4 * Top.at)
    BY <1>1, FlushedIs DEF LiteralWords
  <2> QED
    BY <2>1
<1>3. Top.at \in Nat /\ Top.hi \in Nat /\ Top.at <= Top.hi + 1 /\ Len(pattern) \in Nat
      /\ calls \in Seq(CallRecords)
  BY <1>1, TopIs, PatternIs DEF Setting
<1>4. Framed(pattern, ds) /\ Built(Flushed.heap, s, Room, x, ds, ms)
  <2>1. PICK i : i = Top.at
    OBVIOUS
  <2>2. i \in Nat /\ Top.at <= i /\ i <= Top.hi + 1
    BY <1>3, <2>1
  <2>3. Advances(heap, pos, Room, g, Flushed, s, x, -Len(calls), A, Base(Top), 4 * i)
    BY <1>2, <2>1
  <2> HIDE DEF A
  <2>4. /\ Framed(pattern, Replaced(calls, Advanced(Flushed, i)))
        /\ Built(Flushed.heap, s, Room, x, Replaced(calls, Advanced(Flushed, i)), WordsReplaced(calls, langs, A))
    BY <1>1, <2>2, <2>3, TopGoes
  <2> QED
    BY <2>1, <2>4
<1>5. GoneTo(c, Flushed, Top.at)
  <2>1. Sound(Flushed.heap, s, Room) /\ Forest(Flushed.heap, x) /\ Alternatives(Flushed.heap, s, x, -K, Flushed.first, A, Base(Top), 4 * Top.at)
    BY <1>2, Zenon DEF Advances
  <2>2. Flushed.first \in Nat
    BY <2>1, HeadIsNumber
  <2>3. Top.at <= Top.at
    BY <1>3
  <2> QED
    BY <1>1, <1>3, <2>2, <2>3, AdvancedIs
<1>6. /\ c \in CallRecords /\ c.at = Top.at /\ c.hi = Top.hi /\ c.literal = <<>>
  BY <1>5 DEF GoneTo
<1> HIDE DEF c, A, e, K
<1>7. Len(ds) = K /\ Last(ds) = c /\ ds # <<>> /\ ds \in Seq(CallRecords)
  <2>1. /\ ds \in Seq(CallRecords) /\ Len(ds) = K /\ ds[K] = c /\ K > 0 /\ K \in Nat
    BY <1>1, <1>3, <1>6, ReplacedIs DEF K
  <2> HIDE DEF ds
  <2>2. Last(ds) = c
    BY <2>1 DEF Last
  <2> QED
    BY <2>1, <2>2
<1>8. e \in (Top.at + 1)..Top.hi
  <2>1. PICK from : from = Top.at + 1
    OBVIOUS
  <2>2. from \in Nat /\ e = NextBracket(pattern, kind, from, Top.hi)
    BY <1>3, <2>1 DEF e, End
  <2>3. e \in from..Top.hi
    BY <1>1, <1>3, <2>2, NextBracketIn
  <2> QED
    BY <2>1, <2>3
<1> DEFINE b == Call(kind, Top.at + 1, e - 1)
<1>9. calls' = Append(ds, b)
  <2>1. calls' = Front(calls) \o <<c, b>>
    BY DEF OpenBracket, c, e
  <2>2. Front(calls) \in Seq(CallRecords)
    <3>1. Front(calls) = SubSeq(calls, 1, Len(calls) - 1) /\ Len(calls) \in Nat /\ Len(calls) > 0
      BY <1>1, <1>3, EmptySeq DEF Front
    <3> QED
      BY <1>3, <3>1
  <2>3. b \in CallRecords
    <3>1. Top.at + 1 \in Nat /\ e - 1 \in Nat /\ Nil \in Nat /\ <<>> \in Seq(Letters)
      BY <1>3, <1>8 DEF Nil
    <3> QED
      BY <3>1 DEF Call, CallRecords
  <2> HIDE DEF b
  <2>4. Front(calls) \o <<c, b>> = Append(Append(Front(calls), c), b)
    BY <1>6, <2>2, <2>3, TwoBehind
  <2> QED
    BY <2>1, <2>4 DEF Replaced
<1>10. /\ Framed(pattern, Append(ds, b))
       /\ Built(Flushed.heap, s, Room, x, Append(ds, b), WordsPushed(ds, ms))
  <2>1. Last(ds).literal = <<>> /\ Last(ds).at = Top.at /\ Last(ds).hi = Top.hi
    BY <1>6, <1>7
  <2>2. Room \in Nat
    BY <1>3 DEF Room
  <2> HIDE DEF ds, ms
  <2>3. e \in (Last(ds).at + 1)..Last(ds).hi /\ b = Call(kind, Last(ds).at + 1, e - 1)
    BY <1>8, <2>1
  <2> HIDE DEF b
  <2> QED
    BY <1>3, <1>4, <1>7, <2>1, <2>2, <2>3, Push
<1>11. WordsPushed(ds, ms) = WordsPushed(calls, ms)
  BY <1>7 DEF WordsPushed, K
<1>12. Built(heap', s, Room, x, calls', WordsPushed(calls, ms))
  <2>1. heap' = Flushed.heap
    BY DEF OpenBracket
  <2> HIDE DEF ds, ms, b
  <2> QED
    BY <1>9, <1>10, <1>11, <2>1
<1>13. Framed(pattern, calls')
  <2> HIDE DEF ds, b
  <2> QED
    BY <1>9, <1>10
<1> QED
  BY <1>12, <1>13, Zenon DEF A

\* What the top call returns.
LEMMA TopReturns ==
  ASSUME Setting, calls # <<>>, Top.at > Top.hi,
         NEW pos, NEW g, NEW langs, Built(heap, pos, Room, g, calls, langs)
  PROVE  /\ Top.at = Top.hi + 1
         /\ \E s, x : Finished(heap, pos, Room, g, Returned, s, x, -Len(calls),
                               AllOf(LiteralWords(langs)), Base(Top), 4 * (Top.hi + 2))
<1> DEFINE K == Len(calls)
           A == LiteralWords(langs)
<1>1. PICK i, a, b, d : i = Top.hi /\ a = Base(Top) /\ b = 4 * Top.at /\ d = 4 * (Top.hi + 2)
  OBVIOUS
<1>2. /\ Top.at = i + 1 /\ i \in Nat /\ K \in Nat /\ K > 0 /\ -K \in Int /\ -K < 0
      /\ a \in 0..Room /\ b \in 0..Room /\ a < b /\ b < d /\ d \in Int
  <2>1. /\ Top.lo \in Nat /\ Top.hi \in Nat /\ Top.at \in Nat /\ Top.at <= Top.hi + 1
        /\ Top = calls[K] /\ K \in DOMAIN calls /\ calls \in Seq(CallRecords)
    BY TopIs
  <2>2. Top.at = i + 1 /\ i \in Nat
    BY <1>1, <2>1
  <2>3. Len(pattern) \in Nat /\ Framed(pattern, calls)
    BY PatternIs DEF Setting
  <2>4. /\ Base(Top) \in 0..(4 * Len(pattern) + 8) /\ Base(Top) < Bound(Top) /\ Bound(Top) \in 0..(4 * Len(pattern) + 8)
        /\ Bound(Top) <= 4 * Top.at /\ 4 * Top.at <= 4 * Len(pattern) + 4
        /\ K \in 1..Len(calls) /\ Len(calls) \in Nat
    BY <2>1, <2>3, FramedFacts
  <2>5. PICK n, m : n = Len(pattern) /\ m = Bound(Top)
    OBVIOUS
  <2>6. a \in 0..(4 * n + 8) /\ a < m /\ m <= b /\ b = 4 * (i + 1) /\ b <= 4 * n + 4 /\ n \in Nat /\ m \in Nat
    BY <1>1, <2>2, <2>3, <2>4, <2>5
  <2>7. a \in 0..(4 * n + 8) /\ b \in 0..(4 * n + 8) /\ a < b /\ b < 4 * (i + 2) /\ 4 * (i + 2) \in Int
    BY <2>2, <2>6
  <2> QED
    BY <1>1, <2>2, <2>4, <2>5, <2>7 DEF Room
<1>3. PICK s, x : Advances(heap, pos, Room, g, Flushed, s, x, -K, A, a, b)
  <2>1. \E s, x : Advances(heap, pos, Room, g, Flushed, s, x, -K, A, Base(Top), 4 * Top.at)
    BY FlushedIs DEF LiteralWords
  <2> QED
    BY <1>1, <2>1
<1> HIDE DEF K, A
<1>4. /\ Sound(Flushed.heap, s, Room) /\ Forest(Flushed.heap, x)
      /\ Alternatives(Flushed.heap, s, x, -K, Flushed.first, A, a, b)
      /\ Kept(heap, pos, g, Flushed.heap, s, x, {-K, 0}, a) /\ Under(Flushed.heap, s, b)
  BY <1>3, Zenon DEF Advances
<1>5. /\ Flushed.first = Nil => Returned.heap = Append(Flushed.heap, Empty) /\ Returned.first = Len(Flushed.heap) + 1
      /\ Flushed.first # Nil => Returned.heap = Flushed.heap /\ Returned.first = Flushed.first
  <2>1. ASSUME Flushed.first = Nil
        PROVE  Flushed.heap = heap
    <3>1. Sound(heap, pos, Room)
      BY Zenon DEF Built, Standing
    <3>2. Len(heap) \in Nat
      <4>1. heap \in Seq(Elements)
        BY <3>1, Zenon DEF Sound
      <4> QED
        BY <4>1
    <3>3. Add(heap, Top.first, Element("literal", Top.literal, <<>>)).first # Nil
      BY <3>2, AddHasHead
    <3>4. Top.literal = <<>>
      BY <2>1, <3>3 DEF Flushed
    <3> QED
      BY <3>4 DEF Flushed, Chain
  <2> QED
    BY <2>1 DEF Returned, Chain
<1>6. PICK t, y : Finished(Flushed.heap, s, Room, x, Returned, t, y, -K, AllOf(A), a, d)
  <2>1. PICK z, h, f, r : z = -K /\ h = Flushed.heap /\ f = Flushed.first /\ r = Returned
    OBVIOUS
  <2>2. /\ z \in Int /\ z < 0 /\ Sound(h, s, Room) /\ Forest(h, x) /\ Alternatives(h, s, x, z, f, A, a, b) /\ Under(h, s, b)
        /\ f = Nil => r.heap = Append(h, Empty) /\ r.first = Len(h) + 1
        /\ f # Nil => r.heap = h /\ r.first = f
    BY <1>2, <1>4, <1>5, <2>1
  <2>3. \E t, y : Finished(h, s, Room, x, r, t, y, z, AllOf(A), a, d)
    BY <1>2, <2>2, ReturnedIs
  <2> QED
    BY <2>1, <2>3
<1>7. Finished(heap, pos, Room, g, Returned, t, y, -K, AllOf(A), a, d)
  <2>1. Kept(Flushed.heap, s, x, Returned.heap, t, y, {-K, 0}, a)
    BY <1>6, Zenon DEF Finished
  <2>2. Kept(heap, pos, g, Returned.heap, t, y, {-K, 0}, a)
    BY <1>2, <1>4, <2>1, KeptTwice
  <2> QED
    BY <1>6, <2>2, Zenon DEF Finished
<1>8. \E t1, y1 : Finished(heap, pos, Room, g, Returned, t1, y1, -K, AllOf(A), Base(Top), 4 * (Top.hi + 2))
  BY <1>1, <1>7
<1>9. Top.at = Top.hi + 1
  BY <1>1, <1>2
<1> QED
  BY <1>8, <1>9, Zenon DEF K, A

-----------------------------------------------------------------------------
\* A compiled pattern and its words.
Compiled(h, f, L) ==
  \E s, x : Sound(h, s, Room) /\ Forest(h, x) /\ Open(h, x, <<-1, 1>>, f, L)

\* The outermost call returns the compiled pattern.
LEMMA FinishStep ==
  ASSUME Setting, NEW pos, NEW g, NEW langs, Built(heap, pos, Room, g, calls, langs), Finish
  PROVE  Compiled(heap', first', AllOf(LiteralWords(langs)))
<1>1. calls # <<>> /\ Top.at > Top.hi /\ Len(calls) = 1
  <2>1. Len(<<>>) = 0
    OBVIOUS
  <2>2. Top.at > Top.hi /\ Len(calls) = 1
    BY DEF Finish
  <2>3. calls # <<>>
    BY <2>1, <2>2
  <2> QED
    BY <2>2, <2>3
<1>2. PICK s, x : Finished(heap, pos, Room, g, Returned, s, x, -Len(calls), AllOf(LiteralWords(langs)), Base(Top), 4 * (Top.hi + 2))
  <2>1. \E s, x : Finished(heap, pos, Room, g, Returned, s, x, -Len(calls), AllOf(LiteralWords(langs)), Base(Top), 4 * (Top.hi + 2))
    BY <1>1, TopReturns
  <2> QED
    BY <2>1
<1>3. -Len(calls) = -1
  BY <1>1
<1>4. Sound(Returned.heap, s, Room) /\ Forest(Returned.heap, x) /\ Open(Returned.heap, x, <<-1, 1>>, Returned.first, AllOf(LiteralWords(langs)))
  BY <1>2, <1>3 DEF Finished
<1>5. heap' = Returned.heap /\ first' = Returned.first
  BY DEF Finish
<1> QED
  BY <1>4, <1>5 DEF Compiled

\* The stack without its top.
LEMMA FrontIs ==
  ASSUME NEW cs \in Seq(CallRecords), NEW N \in Nat, Len(cs) = N + 1, NEW fs, fs = Front(cs)
  PROVE  /\ fs \in Seq(CallRecords) /\ Len(fs) = N /\ DOMAIN fs = 1..N /\ DOMAIN cs = 1..(N + 1)
         /\ \A k \in 1..N : fs[k] = cs[k]
         /\ N > 0 => fs # <<>> /\ Last(fs) = cs[N] /\ N \in DOMAIN fs
<1>1. fs = SubSeq(cs, 1, N)
  BY DEF Front
<1>2. /\ fs \in Seq(CallRecords) /\ Len(fs) = N /\ DOMAIN fs = 1..N /\ DOMAIN cs = 1..(N + 1)
      /\ \A k \in 1..N : fs[k] = cs[k]
  BY <1>1
<1>3. ASSUME N > 0
      PROVE  fs # <<>> /\ Last(fs) = cs[N] /\ N \in DOMAIN fs
  <2>1. N \in 1..N
    BY <1>3
  <2>2. Last(fs) = cs[N] /\ N \in DOMAIN fs
    BY <1>2, <2>1 DEF Last
  <2>3. Len(<<>>) = 0
    OBVIOUS
  <2>4. fs # <<>>
    BY <1>2, <1>3, <2>3
  <2> QED
    BY <2>2, <2>4
<1> QED
  BY <1>2, <1>3

\* The calls without the top one.
LEMMA FramedFront ==
  ASSUME NEW p, NEW cs, Framed(p, cs), NEW N \in Nat, Len(cs) = N + 1
  PROVE  Framed(p, Front(cs))
<1>1. PICK fs : fs = Front(cs)
  OBVIOUS
<1>2. cs \in Seq(CallRecords)
  BY DEF Framed
<1>3. /\ fs \in Seq(CallRecords) /\ Len(fs) = N /\ DOMAIN fs = 1..N /\ DOMAIN cs = 1..(N + 1)
      /\ \A k \in 1..N : fs[k] = cs[k]
  BY <1>1, <1>2, FrontIs, SMTT(30)
<1>4. ASSUME NEW k \in DOMAIN fs
      PROVE  /\ 1 <= fs[k].lo /\ fs[k].lo <= fs[k].at /\ fs[k].at <= fs[k].hi + 1 /\ fs[k].hi <= Len(p)
             /\ Collected(p, fs[k])
             /\ k < Len(fs) => fs[k].literal = <<>>
             /\ k > 1 => fs[k].kind # "pattern"
  <2>1. fs[k] = cs[k] /\ k \in DOMAIN cs /\ k < Len(cs)
    BY <1>3
  <2> QED
    BY <2>1 DEF Framed
<1>5. \A j \in DOMAIN fs, k \in DOMAIN fs : j < k => fs[j].at < fs[k].lo /\ fs[k].hi < fs[j].hi
  BY <1>3 DEF Framed
<1> QED
  BY <1>1, <1>3, <1>4, <1>5 DEF Framed

\* What stands, stands without the top call too.
LEMMA StandingFront ==
  ASSUME NEW h, NEW pos, NEW top, NEW g, NEW cs \in Seq(CallRecords), NEW langs, Standing(h, pos, top, g, cs, langs),
         NEW N \in Nat, Len(cs) = N + 1
  PROVE  Standing(h, pos, top, g, Front(cs), langs)
<1>1. PICK fs : fs = Front(cs)
  OBVIOUS
<1>2. /\ DOMAIN fs = 1..N /\ DOMAIN cs = 1..(N + 1) /\ \A k \in 1..N : fs[k] = cs[k]
  BY <1>1, FrontIs
<1>3. ASSUME NEW k \in DOMAIN fs
      PROVE  /\ Alternatives(h, pos, g, -k, fs[k].first, langs[k], Base(fs[k]), Bound(fs[k]))
             /\ Below(h, pos, Bound(fs[k]))
  <2>1. fs[k] = cs[k] /\ k \in DOMAIN cs
    BY <1>2
  <2> QED
    BY <2>1 DEF Standing
<1> QED
  BY <1>1, <1>3, Zenon DEF Standing

\* The words of the caller once the top call has returned.
ReturnWords(langs) ==
  WordsReplaced(Front(calls), langs,
                WithLast(langs[Len(calls) - 1], Around(Top.kind, AllOf(LiteralWords(langs)))))

\* A bracket is closed: its words are joined to those of the caller.
LEMMA ReturnStep ==
  ASSUME Setting, NEW pos, NEW g, NEW langs, Built(heap, pos, Room, g, calls, langs), Return
  PROVE  /\ Framed(pattern, calls')
         /\ \E s, x : Built(heap', s, Room, x, calls', ReturnWords(langs))
<1>1. /\ Len(calls) > 1 /\ Top.at > Top.hi /\ Setting
  BY DEF Return
<1>2. PICK N : N = Len(calls) - 1
  OBVIOUS
<1>3. calls \in Seq(CallRecords)
  BY DEF Setting, Framed
<1>4. N \in Nat /\ N > 0 /\ Len(calls) = N + 1 /\ calls # <<>>
  <2>1. Len(<<>>) = 0 /\ Len(calls) \in Nat
    BY <1>3
  <2> QED
    BY <1>1, <1>2, <2>1
<1>5. PICK fs, t, c : fs = Front(calls) /\ t = Top /\ c = calls[N]
  OBVIOUS
<1>6. /\ fs \in Seq(CallRecords) /\ Len(fs) = N /\ DOMAIN fs = 1..N /\ DOMAIN calls = 1..(N + 1)
      /\ fs # <<>> /\ Last(fs) = c /\ N \in DOMAIN fs /\ N \in DOMAIN calls /\ N + 1 \in DOMAIN calls
      /\ t = calls[N + 1]
  <2>1. /\ fs \in Seq(CallRecords) /\ Len(fs) = N /\ DOMAIN fs = 1..N /\ DOMAIN calls = 1..(N + 1)
        /\ fs # <<>> /\ Last(fs) = calls[N] /\ N \in DOMAIN fs
    BY <1>3, <1>4, <1>5, FrontIs
  <2>2. t = calls[N + 1]
    BY <1>1, <1>4, <1>5, TopIs
  <2> QED
    BY <1>4, <1>5, <2>1, <2>2
<1>7. Framed(pattern, calls) /\ Len(pattern) \in Nat
  BY PatternIs DEF Setting
<1>8. Framed(pattern, fs)
  BY <1>4, <1>5, <1>7, FramedFront
<1>9. Standing(heap, pos, Room, g, calls, langs) /\ Standing(heap, pos, Room, g, fs, langs)
  <2>1. Standing(heap, pos, Room, g, calls, langs)
    BY Zenon DEF Built
  <2> QED
    BY <1>3, <1>4, <1>5, <2>1, StandingFront
<1>10. PICK L, a, d, a2, b2, A :
         /\ L = AllOf(LiteralWords(langs)) /\ a = Base(t) /\ d = 4 * (t.hi + 2)
         /\ a2 = Base(c) /\ b2 = Bound(c) /\ A = langs[N]
  OBVIOUS
<1>11. /\ c \in CallRecords /\ c.lo \in Nat /\ c.hi \in Nat /\ c.at \in Nat /\ c.literal = <<>> /\ c.first \in Nat
       /\ t.hi \in Nat /\ t.kind \in {"group", "optional"} /\ t.hi < c.hi /\ c.at < t.lo /\ t.lo \in Nat
       /\ t.at = t.hi + 1 /\ t.lo <= t.at
  <2>1. c \in CallRecords /\ c.lo \in Nat /\ c.hi \in Nat /\ c.at \in Nat /\ c.first \in Nat
    BY <1>5, <1>6, <1>7, FramedFacts
  <2>2. c.literal = <<>> /\ t.hi < c.hi /\ c.at < t.lo
    BY <1>4, <1>5, <1>6, <1>7 DEF Framed
  <2>3. t.hi \in Nat /\ t.at = t.hi + 1 /\ t \in CallRecords /\ t.lo \in Nat /\ t.lo <= t.at
    BY <1>1, <1>4, <1>5, TopIs, TopReturns
  <2>4. t.kind # "pattern"
    BY <1>4, <1>6, <1>7 DEF Framed
  <2>5. t.kind \in {"pattern", "group", "optional"}
    BY <2>3 DEF CallRecords
  <2> QED
    BY <2>1, <2>2, <2>3, <2>4, <2>5
<1>12. /\ a \in 0..Room /\ d \in Int /\ a2 \in Int /\ b2 \in 0..Room /\ a2 < b2 /\ b2 < a /\ b2 < d
  <2>1. /\ a \in 0..(4 * Len(pattern) + 8) /\ a2 \in 0..(4 * Len(pattern) + 8) /\ b2 \in 0..(4 * Len(pattern) + 8)
        /\ a2 < b2
    BY <1>5, <1>6, <1>7, <1>10, FramedFacts
  <2>2. b2 < a
    <3>1. N < N + 1
      BY <1>4
    <3> QED
      BY <1>5, <1>6, <1>7, <1>10, <3>1, FramedFacts
  <2>3. PICK i, j : i = t.hi /\ j = t.lo
    OBVIOUS
  <2>4. i \in Nat /\ j \in Nat /\ j <= i + 1 /\ d = 4 * (i + 2) /\ a = 4 * j - 1
    BY <1>10, <1>11, <2>3 DEF Base
  <2>5. d \in Int /\ a < d
    BY <2>4
  <2>6. b2 < d /\ a2 \in Int
    BY <2>1, <2>2, <2>4, <2>5
  <2> QED
    BY <2>1, <2>2, <2>5, <2>6 DEF Room
<1>13. PICK z, y : z = -(N + 1) /\ y = -N
  OBVIOUS
<1>14. z \in Int /\ z < 0 /\ y \in Int /\ y < 0 /\ y # z /\ z = -Len(calls)
  BY <1>4, <1>13
<1>15. PICK s, x : Finished(heap, pos, Room, g, Returned, s, x, z, L, a, d)
  <2>1. \E s, x : Finished(heap, pos, Room, g, Returned, s, x, -Len(calls), AllOf(LiteralWords(langs)), Base(Top), 4 * (Top.hi + 2))
    BY <1>1, <1>4, TopReturns
  <2> QED
    BY <1>5, <1>10, <1>14, <2>1
<1>16. PICK k, r : k = Content(t.kind, Returned) /\ r = Chain(Returned.heap, k)
  OBVIOUS
<1>17. PICK v : Finished(heap, pos, Room, g, r, s, v, z, L, a, d)
  <2>1. a \in Int
    BY <1>12 DEF Room
  <2>2. PICK q : q = Returned
    OBVIOUS
  <2>3. Finished(heap, pos, Room, g, q, s, x, z, L, a, d) /\ k = Content(t.kind, q) /\ r = Chain(q.heap, k)
    BY <1>15, <1>16, <2>2
  <2>4. \E v : Finished(heap, pos, Room, g, Chain(q.heap, k), s, v, z, L, a, d)
    BY <1>14, <2>1, <2>3, ContentIs
  <2> QED
    BY <2>3, <2>4
<1>18. PICK q : q = Add(r.heap, c.first, Element(t.kind, <<>>, <<r.first>>))
  OBVIOUS
<1>19. PICK B : B = WithLast(A, Around(t.kind, L))
  OBVIOUS
<1>20. PICK u, w : Wrapped(heap, pos, Room, g, q, u, w, y, z, B, a2, d)
  <2>1. Alternatives(heap, pos, g, y, c.first, A, a2, b2) /\ Below(heap, pos, b2)
    BY <1>5, <1>6, <1>9, <1>10, <1>13 DEF Standing
  <2>2. Sound(heap, pos, Room) /\ Forest(heap, g)
    BY <1>9, Zenon DEF Standing
  <2>3. a \in Int
    BY <1>12 DEF Room
  <2>4. \E u, w : Wrapped(heap, pos, Room, g, q, u, w, y, z, WithLast(A, Around(t.kind, L)), a2, d)
    BY <1>11, <1>12, <1>14, <1>17, <1>18, <2>1, <2>2, <2>3, Wrap
  <2> QED
    BY <1>19, <2>4
<1>21. PICK e : e = [c EXCEPT !.at = t.hi + 2, !.first = q.first]
  OBVIOUS
<1>22. /\ Sound(q.heap, u, Room) /\ Forest(q.heap, w)
       /\ Alternatives(q.heap, u, w, y, q.first, B, a2, d)
       /\ Kept(heap, pos, g, q.heap, u, w, {y, z, 0}, a2)
       /\ Under(q.heap, u, d)
  BY <1>20, Zenon DEF Wrapped
<1>23. /\ e \in CallRecords /\ e.lo = c.lo /\ e.hi = c.hi /\ e.kind = c.kind
       /\ e.at = t.hi + 2 /\ e.first = q.first /\ e.literal = <<>>
  <2>1. q.first \in Nat
    BY <1>22, HeadIsNumber
  <2>2. PICK i, j : i = t.hi + 2 /\ j = q.first
    OBVIOUS
  <2>3. i \in Nat /\ j \in Nat /\ e = [c EXCEPT !.at = i, !.first = j] /\ c \in CallRecords /\ c.literal = <<>>
    BY <1>11, <1>21, <2>1, <2>2
  <2>4. /\ e \in CallRecords /\ e.lo = c.lo /\ e.hi = c.hi /\ e.kind = c.kind
        /\ e.at = i /\ e.first = j /\ e.literal = <<>>
    BY <2>3 DEF CallRecords
  <2> QED
    BY <2>2, <2>4
<1>24. c.lo <= c.at /\ 1 <= c.lo
  BY <1>5, <1>6, <1>7 DEF Framed
<1>25. Collected(pattern, e)
  <2>1. PICK m, n : m = e.at /\ n = e.lo
    OBVIOUS
  <2>2. m \in Nat /\ n \in Nat /\ n <= m
    <3>1. PICK hi, at, lo : hi = t.hi /\ at = c.at /\ lo = t.lo
      OBVIOUS
    <3>2. hi \in Nat /\ at \in Nat /\ lo \in Nat /\ at < lo /\ lo <= hi + 1 /\ m = hi + 2 /\ n <= at /\ n \in Nat
      BY <1>11, <1>23, <1>24, <2>1, <3>1
    <3> QED
      BY <3>2
  <2>3. Len(<<>>) = 0 /\ 0 <= m - n
    BY <2>2
  <2>4. Len(e.literal) <= e.at - e.lo
    BY <1>23, <2>1, <2>3
  <2>5. 1..Len(e.literal) = {}
    BY <1>23, <2>3
  <2> QED
    BY <2>4, <2>5 DEF Collected
<1>26. Framed(pattern, Replaced(fs, e))
  <2>1. c.at <= e.at /\ e.at <= e.hi + 1
    <3>1. PICK hi, at, lo, m, n : hi = t.hi /\ at = c.at /\ lo = t.lo /\ m = e.at /\ n = c.hi
      OBVIOUS
    <3>2. hi \in Nat /\ at \in Nat /\ lo \in Nat /\ at < lo /\ lo <= hi + 1 /\ m = hi + 2 /\ n \in Nat /\ hi < n /\ e.hi = n
      BY <1>11, <1>23, <3>1
    <3>3. at <= m /\ m <= n + 1
      BY <3>2
    <3> QED
      BY <3>1, <3>2, <3>3
  <2>2. e.lo = Last(fs).lo /\ e.hi = Last(fs).hi /\ e.kind = Last(fs).kind /\ Last(fs).at <= e.at
    BY <1>6, <1>23, <2>1
  <2> QED
    BY <1>6, <1>7, <1>8, <1>23, <1>25, <2>1, <2>2, FrameTop
<1>27. Base(e) = a2 /\ Bound(e) = d
  <2>1. Base(e) = a2
    BY <1>10, <1>23 DEF Base
  <2>2. PICK i : i = t.hi
    OBVIOUS
  <2>3. i \in Nat /\ e.at = i + 2 /\ Len(e.literal) = 0
    BY <1>11, <1>23, <2>2
  <2>4. Bound(e) = 4 * ((i + 2) - 0) /\ d = 4 * (i + 2)
    BY <1>10, <2>2, <2>3 DEF Bound
  <2>5. (i + 2) - 0 = i + 2
    BY <2>3
  <2> QED
    BY <2>1, <2>4, <2>5
<1>28. Built(q.heap, u, Room, w, Replaced(fs, e), WordsReplaced(fs, langs, B))
  <2>1. Moved(heap, pos, Room, g, q, u, w, -Len(fs), {y, z, 0}, B, Base(e), Bound(e))
    BY <1>6, <1>13, <1>22, <1>27, Zenon DEF Moved
  <2>2. \A m \in DOMAIN fs : m # Len(fs) => -m \notin {y, z, 0}
    BY <1>4, <1>6, <1>13
  <2>3. e.lo = Last(fs).lo
    BY <1>6, <1>23
  <2>4. PICK Z : Z = {y, z, 0}
    OBVIOUS
  <2>5. (\A m \in DOMAIN fs : m # Len(fs) => -m \notin Z)
        /\ Moved(heap, pos, Room, g, q, u, w, -Len(fs), Z, B, Base(e), Bound(e))
    BY <2>1, <2>2, <2>4
  <2> QED
    BY <1>6, <1>7, <1>8, <1>9, <1>23, <2>3, <2>5, TopMoves
<1>29. heap' = q.heap /\ calls' = Replaced(fs, e)
  <2>1. r.heap = Returned.heap /\ r.first = Content(Top.kind, Returned)
    BY <1>5, <1>16 DEF Chain
  <2>2. Len(calls) - 1 = N
    BY <1>2
  <2>3. q = Add(Returned.heap, calls[Len(calls) - 1].first, Element(Top.kind, <<>>, <<Content(Top.kind, Returned)>>))
    BY <1>5, <1>18, <2>1, <2>2
  <2>4. heap' = q.heap /\ calls' = Append(Front(Front(calls)), [calls[Len(calls) - 1] EXCEPT !.at = Top.hi + 2, !.first = q.first])
    BY <2>3 DEF Return
  <2> QED
    BY <1>5, <1>21, <2>2, <2>4 DEF Replaced
<1>30. WordsReplaced(fs, langs, B) = ReturnWords(langs)
  BY <1>2, <1>5, <1>10, <1>19 DEF ReturnWords
<1>31. Framed(pattern, calls')
  BY <1>26, <1>29
<1>32. Built(heap', u, Room, w, calls', ReturnWords(langs))
  BY <1>28, <1>29, <1>30
<1> QED
  BY <1>31, <1>32, Zenon

\* No line begins or ends with a space.
LEMMA LinesAreTrimmed ==
  ASSUME NEW line \in Lines
  PROVE  Trimmed(line) /\ Len(line) \in Nat
<1>1. line \in Seq(Range(line))
  BY TextAssumption
<1>7. line # <<>>
  BY TextAssumption
<1>2. Range(line) \subseteq Letters
  BY DEF Letters
<1>3. line \in Seq(Letters)
  BY <1>1, <1>2
<1>4. Len(line) \in Nat
  BY <1>3
<1>5. Len(line) > 0
  BY <1>3, <1>4, <1>7, EmptySeq
<1>6. ~Space(line[1]) /\ ~Space(line[Len(line)])
  BY TextAssumption DEF Space
<1> QED
  BY <1>3, <1>4, <1>5, <1>6, Zenon DEF Trimmed

\* A compiled pattern accepts its words, and these pass the prefilter.
LEMMA CompiledMatches ==
  ASSUME NEW h, NEW f, NEW L, Compiled(h, f, L), NEW line \in Lines
  PROVE  /\ Match(h, line)[f][0] <=> \E w \in L : Len(line) \in Read(w, line, 0)
         /\ Match(h, line)[f][0] => Prefilter(h, f, line)
<1>1. PICK s, x : Sound(h, s, Room) /\ Forest(h, x) /\ Open(h, x, <<-1, 1>>, f, L)
  BY DEF Compiled
<1>2. /\ Chains(h, x.live, x.end, x.lang) /\ f \in x.live /\ h[x.end[f]].next = Nil /\ x.lang[f] = L
  BY <1>1, Zenon DEF Forest, Open
<1>3. Trimmed(line)
  BY LinesAreTrimmed
<1>4. Len(line) \in Nat /\ 0 \in 0..Len(line)
  <2>1. Len(line) \in Nat
    BY LinesAreTrimmed
  <2> QED
    BY <2>1
<1>5. \A e : Onward(h, line, x.end[f], e) <=> e = Len(line)
  BY <1>2 DEF Onward
<1>6. Match(h, line)[f][0] <=> \E w \in L : Len(line) \in Read(w, line, 0)
  <2>1. \A n \in x.live : MatchGood(h, line, x.end, x.lang, n)
    BY <1>1, <1>2, <1>3, MatchAccepts
  <2>2. Match(h, line)[f][0] <=> Accepts(h, line, L, x.end[f], 0)
    BY <1>2, <1>4, <2>1 DEF MatchGood
  <2> QED
    BY <1>5, <2>2 DEF Accepts
<1>7. ASSUME Match(h, line)[f][0]
      PROVE  Prefilter(h, f, line)
  <2>1. PICK w : w \in L /\ Len(line) \in Read(w, line, 0)
    BY <1>6, <1>7
  <2>2. MinLength(h)[f] + 0 <= Len(line)
    <3>1. \A n \in x.live : LongEnough(h, line, x.lang, n)
      BY <1>1, <1>2, <1>4, LengthAccepts
    <3> QED
      BY <1>2, <1>4, <2>1, <3>1 DEF LongEnough
  <2>3. MinLength(h)[f] \in Nat
    <3>1. f \in DOMAIN h
      BY <1>2 DEF Chains
    <3> QED
      BY <1>1, <3>1, MinLengthIs
  <2>4. KeywordsPresent(h, line)[f][TRUE][0]
    <3>1. \A n \in x.live : Shown(h, line, x.end, x.lang, n)
      BY <1>1, <1>2, <1>3, KeywordsAccept
    <3>2. Shown(h, line, x.end, x.lang, f) /\ w \in x.lang[f]
      BY <1>2, <2>1, <3>1
    <3> QED
      BY <1>4, <2>1, <3>2, ShownAt
  <2>5. Len(line) >= MinLength(h)[f]
    BY <1>4, <2>2, <2>3
  <2> QED
    BY <2>4, <2>5 DEF Prefilter
<1> QED
  BY <1>6, <1>7

-----------------------------------------------------------------------------
(* Brackets.                                                               *)
Counter(n, w, f) ==
  f \in [0..n -> Int] /\ f[0] = 0 /\ \A i \in 1..n : f[i] = f[i - 1] + w[i]

\* A counter over a sequence exists.
LEMMA CounterExists ==
  ASSUME NEW n \in Nat, NEW w \in [1..n -> Int]
  PROVE  \E f : Counter(n, w, f)
<1> DEFINE step == [i \in 1..n |-> [s \in Int |-> s + w[i]]]
<1>1. step \in StepFunctions(n, Int)
  BY DEF StepFunctions
<1>2. 0 \in Int
  OBVIOUS
<1>3. PICK f : f \in Values(n, Int, 0, step)
  <2> HIDE DEF step
  <2> QED
    BY <1>1, <1>2, Recursion
<1>4. f \in [0..n -> Int] /\ f[0] = 0 /\ \A i \in 1..n : f[i] = step[i][f[i - 1]]
  BY <1>3 DEF Values
<1>5. ASSUME NEW i \in 1..n  PROVE f[i] = f[i - 1] + w[i]
  <2>1. i - 1 \in 0..n
    OBVIOUS
  <2>2. f[i - 1] \in Int
    BY <1>4, <2>1
  <2> QED
    BY <1>4, <2>2
<1>6. Counter(n, w, f)
  BY <1>4, <1>5 DEF Counter
<1> QED
  BY <1>6

\* What a bracket adds to the depth, and one of a kind to the counter of its kind.
Weight(c) == IF c \in Openings THEN 1 ELSE IF c \in Closings THEN -1 ELSE 0
KindWeight(kind, c) == IF c = Brackets[kind][1] THEN 1 ELSE IF c = Brackets[kind][2] THEN -1 ELSE 0

\* Depth counts the brackets of both kinds.
LEMMA DepthIs ==
  ASSUME NEW p, Len(p) \in Nat
  PROVE  /\ Depth(p) \in [0..Len(p) -> Int] /\ Depth(p)[0] = 0
         /\ \A i \in 1..Len(p) : Depth(p)[i] = Depth(p)[i - 1] + Weight(p[i])
<1> DEFINE n == Len(p)
           Body(f, i) == IF i = 0 THEN 0
                         ELSE CASE p[i] \in Openings -> f[i - 1] + 1
                                [] p[i] \in Closings -> f[i - 1] - 1
                                [] OTHER -> f[i - 1]
           E(f) == f = [i \in 0..Len(p) |-> Body(f, i)]
           w == [i \in 1..n |-> Weight(p[i])]
           D == Depth(p)
<1>1. \A c : (c \in Openings => Weight(c) = 1) /\ (c \in Closings => Weight(c) = -1)
             /\ (c \notin Openings /\ c \notin Closings => Weight(c) = 0) /\ Weight(c) \in Int
             /\ ~(c \in Openings /\ c \in Closings)
  BY DEF Weight, Openings, Closings
<1>2. \E f : E(f)
  <2>1. w \in [1..n -> Int]
    BY <1>1
  <2>2. PICK f : Counter(n, w, f)
    <3> HIDE DEF w, n
    <3>1. n \in Nat
      BY DEF n
    <3> QED
      BY <2>1, <3>1, CounterExists
  <2>3. f \in [0..n -> Int] /\ f[0] = 0 /\ \A i \in 1..n : f[i] = f[i - 1] + Weight(p[i])
    BY <2>2 DEF Counter
  <2>4. ASSUME NEW i \in 0..n
        PROVE  f[i] = Body(f, i)
    <3>1. CASE i = 0
      BY <2>3, <3>1
    <3>2. CASE i # 0
      <4>1. i \in 1..n /\ i - 1 \in 0..n
        BY <3>2
      <4>2. PICK v, c : v = f[i - 1] /\ c = p[i]
        OBVIOUS
      <4>3. v \in Int /\ f[i] = v + Weight(c)
        BY <2>3, <4>1, <4>2
      <4>4. f[i] = CASE c \in Openings -> v + 1 [] c \in Closings -> v - 1 [] OTHER -> v
        <5>1. CASE c \in Openings
          BY <1>1, <4>3, <5>1
        <5>2. CASE c \in Closings
          BY <1>1, <4>3, <5>2
        <5>3. CASE c \notin Openings /\ c \notin Closings
          BY <1>1, <4>3, <5>3
        <5> QED
          BY <5>1, <5>2, <5>3
      <4> QED
        BY <3>2, <4>2, <4>4
    <3> QED
      BY <3>1, <3>2
  <2>5. E(f)
    <3> HIDE DEF Body
    <3> QED
      BY <2>3, <2>4
  <2> QED
    BY <2>5
<1>3. D = CHOOSE f : E(f)
  BY DEF Depth
<1>4. E(D)
  <2> HIDE DEF E, D
  <2> QED
    BY <1>2, <1>3
<1> HIDE DEF D
<1>5. D[0] = 0
  BY <1>4
<1>6. ASSUME NEW i \in 1..n, D[i - 1] \in Int
      PROVE  D[i] = D[i - 1] + Weight(p[i])
  <2>1. i \in 0..n /\ i # 0
    OBVIOUS
  <2>2. D[i] = Body(D, i)
    <3> HIDE DEF Body
    <3> QED
      BY <1>4, <2>1
  <2>3. PICK v, c : v = D[i - 1] /\ c = p[i]
    OBVIOUS
  <2>4. D[i] = CASE c \in Openings -> v + 1 [] c \in Closings -> v - 1 [] OTHER -> v
    BY <2>1, <2>2, <2>3
  <2>5. D[i] = v + Weight(c)
    <5>0. v \in Int
      BY <1>6, <2>3
    <5>1. CASE c \in Openings
      BY <1>1, <2>4, <5>0, <5>1
    <5>2. CASE c \in Closings
      BY <1>1, <2>4, <5>0, <5>2
    <5>3. CASE c \notin Openings /\ c \notin Closings
      BY <1>1, <2>4, <5>0, <5>3
    <5> QED
      BY <5>1, <5>2, <5>3
  <2> QED
    BY <2>3, <2>5
<1>7. \A i \in 0..n : D[i] \in Int
  <2> DEFINE T == {i \in Nat : i <= n => D[i] \in Int}
  <2>1. 0 \in T
    BY <1>5
  <2>2. \A k \in 1..n : k - 1 \in T => k \in T
    <3> TAKE k \in 1..n
    <3> HAVE k - 1 \in T
    <3>1. D[k - 1] \in Int
      OBVIOUS
    <3>2. D[k] = D[k - 1] + Weight(p[k])
      BY <1>6, <3>1
    <3>3. D[k] \in Int
      BY <1>1, <3>1, <3>2
    <3> QED
      BY <3>3
  <2>3. 0..n \subseteq T
    <3> HIDE DEF T, n
    <3>1. n \in Nat
      BY DEF n
    <3> QED
      BY <2>1, <2>2, <3>1, Induction
  <2> QED
    BY <2>3
<1>8. D \in [0..n -> Int]
  <2> HIDE DEF Body
  <2> QED
    BY <1>4, <1>7
<1>9. \A i \in 1..n : D[i] = D[i - 1] + Weight(p[i])
  <2> TAKE i \in 1..n
  <2>1. i - 1 \in 0..n
    OBVIOUS
  <2> QED
    BY <1>6, <1>7, <2>1
<1> QED
  BY <1>5, <1>8, <1>9 DEF D

\* D goes up and down by one, u is what one kind of the steps does to C, and
\* a step down undoes the step up that it closes.
Steps(n, D, u, C) ==
  /\ n \in Nat /\ D \in [0..n -> Int] /\ C \in [0..n -> Int] /\ u \in [1..n -> -1..1]
  /\ \A i \in 1..n :
       /\ C[i] = C[i - 1] + u[i]
       /\ \/ D[i] = D[i - 1] /\ u[i] = 0
          \/ D[i] = D[i - 1] + 1 /\ u[i] >= 0
          \/ D[i] = D[i - 1] - 1
  /\ \A i \in 1..n, j \in 1..n :
       i < j /\ D[i] = D[i - 1] + 1 /\ D[j] = D[i - 1] /\ (\A l \in i..(j - 1) : D[l] > D[i - 1])
         => u[j] = -u[i]

Rises(D, a, j) == \A i \in a..j : D[a] <= D[i]
Fair(D, C, a, j) == Rises(D, a, j) => C[a] <= C[j] /\ (D[j] = D[a] => C[j] = C[a])

\* The step up that the step down at j undoes.
LEMMA Undone ==
  ASSUME NEW n, NEW D, NEW u, NEW C, Steps(n, D, u, C), NEW a \in 0..n, NEW j \in 1..n, a < j,
         Rises(D, a, j), D[j] = D[j - 1] - 1
  PROVE  \E i \in (a + 1)..(j - 1) :
           D[i] = D[i - 1] + 1 /\ D[i - 1] = D[j] /\ \A l \in i..(j - 1) : D[l] > D[j]
<1>1. /\ n \in Nat /\ D \in [0..n -> Int]
      /\ \A i \in 1..n : D[i] = D[i - 1] \/ D[i] = D[i - 1] + 1 \/ D[i] = D[i - 1] - 1
  BY DEF Steps
<1> DEFINE S == {l \in a..(j - 1) : D[l] <= D[j]}
<1>2. S \in SUBSET Nat /\ S # {} /\ \A l \in S : l <= j
  <2>1. D[a] <= D[j]
    BY DEF Rises
  <2>2. a \in S
    BY <2>1
  <2> QED
    BY <2>2
<1>3. PICK l \in S : \A m \in S : m <= l
  <2> DEFINE T == {j - m : m \in S}
  <2>1. T \in SUBSET Nat /\ T # {}
    BY <1>2
  <2>2. PICK x \in T : \A y \in T : x <= y
    <3> HIDE DEF T
    <3> QED
      BY <2>1, LeastNumber
  <2>3. PICK l \in S : x = j - l
    OBVIOUS
  <2>4. ASSUME NEW m \in S  PROVE m <= l
    <3>1. j - l <= j - m
      BY <2>2, <2>3
    <3> QED
      BY <1>2, <3>1
  <2> QED
    BY <2>4
<1>4. l \in a..(j - 1) /\ l \in 0..n /\ D[l] <= D[j] /\ D[l] \in Int /\ D[j] \in Int /\ D[j - 1] \in Int
  BY <1>1
<1>5. \A i \in (l + 1)..(j - 1) : D[i] > D[j]
  <2> TAKE i \in (l + 1)..(j - 1)
  <2>1. i \notin S
    BY <1>3, <1>4
  <2>2. i \in 0..n /\ i \in a..(j - 1)
    BY <1>1, <1>4
  <2>3. D[i] \in Int
    BY <1>1, <2>2
  <2> QED
    BY <1>4, <2>1, <2>2, <2>3
<1> HIDE DEF S
<1>6. l # j - 1
  BY <1>4
<1>7. l + 1 \in (a + 1)..(j - 1) /\ l + 1 \in 1..n /\ (l + 1) - 1 = l
  BY <1>1, <1>4, <1>6
<1>8. D[l + 1] > D[j] /\ D[l + 1] \in Int
  BY <1>1, <1>5, <1>7, SMTT(30)
<1>9. D[l + 1] = D[l] \/ D[l + 1] = D[l] + 1 \/ D[l + 1] = D[l] - 1
  BY <1>1, <1>7
<1>10. D[l + 1] = D[l] + 1 /\ D[l] = D[j]
  BY <1>4, <1>8, <1>9
<1> QED
  BY <1>5, <1>7, <1>10

\* Where D is as deep as at a and not less in between, C is as at a.
LEMMA FairStep ==
  ASSUME NEW n, NEW D, NEW u, NEW C, Steps(n, D, u, C), NEW a \in 0..n, NEW j \in 1..n, a < j,
         \A l \in 0..(j - 1) : \A b \in 0..l : Fair(D, C, b, l)
  PROVE  Fair(D, C, a, j)
<1> SUFFICES ASSUME Rises(D, a, j)
             PROVE  C[a] <= C[j] /\ (D[j] = D[a] => C[j] = C[a])
  BY DEF Fair
<1>1. /\ n \in Nat /\ D \in [0..n -> Int] /\ C \in [0..n -> Int] /\ u \in [1..n -> -1..1]
  BY DEF Steps
<1>2. /\ C[j] = C[j - 1] + u[j]
      /\ \/ D[j] = D[j - 1] /\ u[j] = 0
         \/ D[j] = D[j - 1] + 1 /\ u[j] >= 0
         \/ D[j] = D[j - 1] - 1
  BY DEF Steps
<1>3. /\ j - 1 \in 0..(j - 1) /\ a \in 0..(j - 1) /\ j - 1 \in 0..n /\ j \in 0..n
      /\ D[j] \in Int /\ D[j - 1] \in Int /\ D[a] \in Int /\ C[j] \in Int /\ C[j - 1] \in Int /\ C[a] \in Int
      /\ u[j] \in Int
  BY <1>1
<1>4. C[a] <= C[j - 1] /\ (D[j - 1] = D[a] => C[j - 1] = C[a]) /\ D[a] <= D[j - 1]
  <2>1. Rises(D, a, j - 1)
    BY DEF Rises
  <2>2. D[a] <= D[j - 1]
    BY <1>3 DEF Rises
  <2> QED
    BY <1>3, <2>1, <2>2 DEF Fair
<1>5. CASE D[j] = D[j - 1] /\ u[j] = 0
  BY <1>2, <1>3, <1>4, <1>5
<1>6. CASE D[j] = D[j - 1] + 1 /\ u[j] >= 0
  BY <1>2, <1>3, <1>4, <1>6
<1>7. CASE D[j] = D[j - 1] - 1
  <2>1. PICK i \in (a + 1)..(j - 1) :
          D[i] = D[i - 1] + 1 /\ D[i - 1] = D[j] /\ \A l \in i..(j - 1) : D[l] > D[j]
    BY <1>7, Undone
  <2>2. i \in 1..n /\ i - 1 \in 0..n /\ i \in 0..(j - 1) /\ i < j /\ i - 1 \in 0..(j - 1) /\ a \in 0..(i - 1) /\ i \in 0..n
    BY <1>1
  <2>3. u[j] = -u[i] /\ C[i] = C[i - 1] + u[i]
    BY <2>1, <2>2 DEF Steps
  <2>4. C[j - 1] = C[i]
    <3>1. Rises(D, i, j - 1)
      <4> SUFFICES ASSUME NEW l \in i..(j - 1)  PROVE D[i] <= D[l]
        BY DEF Rises
      <4>1. D[l] \in Int /\ D[l] > D[j]
        BY <1>1, <2>1, <2>2, SMTT(30)
      <4> QED
        BY <1>3, <2>1, <4>1
    <3>2. D[j - 1] = D[i]
      BY <1>3, <1>7, <2>1
    <3>3. Fair(D, C, i, j - 1)
      BY <1>3, <2>2
    <3> QED
      BY <3>1, <3>2, <3>3 DEF Fair
  <2>5. C[a] <= C[i - 1] /\ (D[i - 1] = D[a] => C[i - 1] = C[a])
    <3>1. Rises(D, a, i - 1)
      BY <2>2 DEF Rises
    <3>2. Fair(D, C, a, i - 1)
      BY <2>2
    <3> QED
      BY <3>1, <3>2 DEF Fair
  <2>6. C[j] = C[i - 1]
    <3>1. C[i] \in Int /\ C[i - 1] \in Int /\ u[i] \in Int
      BY <1>1, <2>2
    <3> QED
      BY <1>2, <1>3, <2>3, <2>4, <3>1
  <2> QED
    BY <2>1, <2>5, <2>6
<1> QED
  BY <1>2, <1>5, <1>6, <1>7

\* By induction, everywhere.
LEMMA Balanced ==
  ASSUME NEW n, NEW D, NEW u, NEW C, Steps(n, D, u, C), NEW j \in 0..n, NEW a \in 0..j
  PROVE  Fair(D, C, a, j)
<1>1. /\ n \in Nat /\ D \in [0..n -> Int] /\ C \in [0..n -> Int]
  BY DEF Steps
<1>2. \A a1 \in 0..n : Fair(D, C, a1, a1)
  BY <1>1 DEF Fair
<1> DEFINE Q(l) == \A b \in 0..l : Fair(D, C, b, l)
           T == {k \in Nat : k <= n => \A l \in 0..k : Q(l)}
<1>3. 0 \in T
  BY <1>2
<1>4. \A k \in 1..n : k - 1 \in T => k \in T
  <2> TAKE k \in 1..n
  <2> HAVE k - 1 \in T
  <2>1. \A l \in 0..(k - 1) : \A b \in 0..l : Fair(D, C, b, l)
    BY <1>1
  <2>2. ASSUME NEW b \in 0..k  PROVE Fair(D, C, b, k)
    <3>1. CASE b = k
      BY <1>1, <1>2, <3>1
    <3>2. CASE b # k
      <4>1. b \in 0..n /\ b < k
        BY <1>1, <3>2
      <4> QED
        BY <2>1, <4>1, FairStep
    <3> QED
      BY <3>1, <3>2
  <2>3. Q(k)
    BY <2>2
  <2> HIDE DEF Q
  <2>4. \A l \in 0..k : Q(l)
    <3> TAKE l \in 0..k
    <3>1. CASE l = k
      BY <2>3, <3>1
    <3>2. CASE l # k
      <4>1. l \in 0..(k - 1) /\ k - 1 <= n
        BY <1>1, <3>2
      <4> QED
        BY <4>1
    <3> QED
      BY <3>1, <3>2
  <2> QED
    BY <2>4
<1>5. 0..n \subseteq T
  <2> HIDE DEF T
  <2> QED
    BY <1>1, <1>3, <1>4, Induction
<1>6. j \in T
  BY <1>5
<1> QED
  BY <1>1, <1>6

BracketKinds == {"optional", "group"}

\* The two kinds of brackets.
LEMMA BracketsAre ==
  /\ DOMAIN Brackets = BracketKinds
  /\ Brackets["optional"][1] = "[" /\ Brackets["optional"][2] = "]"
  /\ Brackets["group"][1] = "(" /\ Brackets["group"][2] = ")"
  /\ \A c : /\ c \in Openings <=> \E k \in BracketKinds : c = Brackets[k][1]
            /\ c \in Closings <=> \E k \in BracketKinds : c = Brackets[k][2]
            /\ ~(c \in Openings /\ c \in Closings)
  /\ \A k \in BracketKinds, l \in BracketKinds :
       /\ Brackets[k][1] = Brackets[l][1] => k = l
       /\ Brackets[k][2] = Brackets[l][2] => k = l
       /\ Brackets[k][1] # Brackets[l][2]
<1>1. /\ Brackets["optional"][1] = "[" /\ Brackets["optional"][2] = "]"
      /\ Brackets["group"][1] = "(" /\ Brackets["group"][2] = ")"
  BY DEF Brackets
<1>2. DOMAIN Brackets = BracketKinds
  BY DEF Brackets, BracketKinds
<1>3. \A c : /\ c \in Openings <=> \E k \in BracketKinds : c = Brackets[k][1]
             /\ c \in Closings <=> \E k \in BracketKinds : c = Brackets[k][2]
             /\ ~(c \in Openings /\ c \in Closings)
  BY <1>1 DEF Openings, Closings, BracketKinds
<1>4. \A k \in BracketKinds, l \in BracketKinds :
       /\ Brackets[k][1] = Brackets[l][1] => k = l
       /\ Brackets[k][2] = Brackets[l][2] => k = l
       /\ Brackets[k][1] # Brackets[l][2]
  BY <1>1 DEF BracketKinds
<1> QED
  BY <1>1, <1>2, <1>3, <1>4

\* The bracket at i is closed at j, the first place behind it as deep as it is.
LEMMA ClosedAt ==
  ASSUME NEW p, Len(p) \in Nat, WellNested(p), NEW kind \in BracketKinds,
         NEW i \in 1..Len(p), p[i] = Brackets[kind][1], NEW j \in i..Len(p),
         Depth(p)[j] = Depth(p)[i - 1], \A l \in i..(j - 1) : Depth(p)[l] # Depth(p)[i - 1]
  PROVE  p[j] = Brackets[kind][2]
<1> DEFINE S == {k \in i..Len(p) : Depth(p)[k] = Depth(p)[i - 1]}
<1>1. S \in SUBSET Nat /\ j \in S
  OBVIOUS
<1>2. Min(S) \in S /\ \A y \in S : Min(S) <= y
  <2> HIDE DEF S
  <2>1. S # {}
    BY <1>1
  <2> QED
    BY <1>1, <2>1, MinIs
<1>3. Closing(p, i) = Min(S)
  BY DEF Closing
<1>4. Min(S) = j
  <2>1. PICK m : m = Min(S)
    OBVIOUS
  <2>2. m \in i..Len(p) /\ Depth(p)[m] = Depth(p)[i - 1] /\ m <= j
    BY <1>1, <1>2, <2>1
  <2>3. m \notin i..(j - 1)
    BY <2>2
  <2> QED
    BY <2>1, <2>2, <2>3
<1>5. DOMAIN Brackets = BracketKinds
  BY BracketsAre
<1>6. i \in DOMAIN p => p[Closing(p, i)] = Brackets[kind][2]
  BY <1>5 DEF WellNested
<1>7. i \in DOMAIN p
  OBVIOUS
<1> QED
  BY <1>3, <1>4, <1>6, <1>7

KindWeights(p, kind) == [i \in 1..Len(p) |-> KindWeight(kind, p[i])]

\* The brackets of one kind among those of a well nested pattern.
LEMMA KindSteps ==
  ASSUME NEW p, Len(p) \in Nat, WellNested(p), NEW kind \in BracketKinds,
         NEW C, Counter(Len(p), KindWeights(p, kind), C)
  PROVE  Steps(Len(p), Depth(p), KindWeights(p, kind), C)
<1> DEFINE n == Len(p)
           D == Depth(p)
           u == KindWeights(p, kind)
<1>1. D \in [0..n -> Int] /\ \A i \in 1..n : D[i] = D[i - 1] + Weight(p[i])
  BY DepthIs
<1>2. C \in [0..n -> Int] /\ \A i \in 1..n : C[i] = C[i - 1] + u[i]
  BY DEF Counter
<1>3. \A i \in 1..n : u[i] = KindWeight(kind, p[i])
  BY DEF KindWeights
<1>4. \A c : /\ KindWeight(kind, c) \in -1..1 /\ Weight(c) \in -1..1
             /\ Weight(c) = 1 => c \in Openings /\ KindWeight(kind, c) >= 0
             /\ Weight(c) = 0 => KindWeight(kind, c) = 0
             /\ Weight(c) = 1 <=> c \in Openings
  BY BracketsAre DEF Weight, KindWeight
<1>5. u \in [1..n -> -1..1]
  BY <1>4 DEF KindWeights
<1>6. ASSUME NEW i \in 1..n
      PROVE  /\ C[i] = C[i - 1] + u[i]
             /\ \/ D[i] = D[i - 1] /\ u[i] = 0
                \/ D[i] = D[i - 1] + 1 /\ u[i] >= 0
                \/ D[i] = D[i - 1] - 1
  <2> HIDE DEF D, u
  <2>1. PICK c, v : c = p[i] /\ v = D[i - 1]
    OBVIOUS
  <2>2. v \in Int
    <3>1. i - 1 \in 0..n
      OBVIOUS
    <3> QED
      BY <1>1, <2>1, <3>1
  <2>3. D[i] = v + Weight(c) /\ u[i] = KindWeight(kind, c)
    BY <1>1, <1>3, <2>1
  <2>4. Weight(c) = -1 \/ Weight(c) = 0 \/ Weight(c) = 1
    BY <1>4
  <2>5. \/ D[i] = v /\ u[i] = 0
        \/ D[i] = v + 1 /\ u[i] >= 0
        \/ D[i] = v - 1
    BY <1>4, <2>2, <2>3, <2>4
  <2> QED
    BY <1>2, <2>1, <2>5
<1>7. ASSUME NEW i \in 1..n, NEW j \in 1..n, i < j, D[i] = D[i - 1] + 1, D[j] = D[i - 1],
             \A l \in i..(j - 1) : D[l] > D[i - 1]
      PROVE  u[j] = -u[i]
  <2>1. p[i] \in Openings
    <3> HIDE DEF D
    <3>1. i - 1 \in 0..n
      OBVIOUS
    <3>2. PICK v : v = D[i - 1]
      OBVIOUS
    <3>3. v \in Int /\ v + 1 = v + Weight(p[i]) /\ Weight(p[i]) \in -1..1
      BY <1>1, <1>4, <1>7, <3>1, <3>2
    <3>4. Weight(p[i]) = 1
      BY <3>3
    <3> QED
      BY <1>4, <3>4
  <2>2. PICK k \in BracketKinds : p[i] = Brackets[k][1]
    BY <2>1, BracketsAre
  <2>3. p[j] = Brackets[k][2]
    <3>1. \A l \in i..(j - 1) : D[l] # D[i - 1]
      <4> HIDE DEF D
      <4> TAKE l \in i..(j - 1)
      <4>1. l \in 0..n /\ i - 1 \in 0..n
        OBVIOUS
      <4>2. D[l] \in Int /\ D[i - 1] \in Int /\ D[l] > D[i - 1]
        BY <1>1, <1>7, <4>1
      <4> QED
        BY <4>2
    <3>2. j \in i..Len(p)
      BY <1>7
    <3> QED
      BY <1>7, <2>2, <3>1, <3>2, ClosedAt
  <2>4. KindWeight(kind, Brackets[k][2]) = -KindWeight(kind, Brackets[k][1])
    BY BracketsAre DEF KindWeight
  <2> QED
    BY <1>3, <2>2, <2>3, <2>4
<1> HIDE DEF D, u
<1>8. n \in Nat
  BY DEF n
<1>9. \A i \in 1..n, j \in 1..n :
       i < j /\ D[i] = D[i - 1] + 1 /\ D[j] = D[i - 1] /\ (\A l \in i..(j - 1) : D[l] > D[i - 1])
         => u[j] = -u[i]
  BY <1>7
<1>10. Steps(n, D, u, C)
  BY <1>1, <1>2, <1>5, <1>6, <1>8, <1>9 DEF Steps
<1> QED
  BY <1>10 DEF D, u

\* Where next_bracket finds the end of a bracket: the place where it is closed.
ClosesAt(p, at, kind, e) ==
  /\ Depth(p)[e] = Depth(p)[at - 1] /\ p[e] = Brackets[kind][2]
  /\ \A i \in at..(e - 1) : Depth(p)[i] > Depth(p)[at - 1]

\* Between a bracket and its end the depth stays above.
LEMMA StaysAbove ==
  ASSUME NEW n, NEW D, NEW u, NEW C, Steps(n, D, u, C), NEW v \in Int, NEW a \in 0..n, NEW m \in a..n,
         D[a] > v, \A i \in a..(m - 1) : D[i] # v
  PROVE  \A i \in a..(m - 1) : D[i] > v
<1>1. /\ n \in Nat /\ D \in [0..n -> Int]
      /\ \A i \in 1..n : D[i] = D[i - 1] \/ D[i] = D[i - 1] + 1 \/ D[i] = D[i - 1] - 1
  BY DEF Steps
<1> DEFINE T == {k \in Nat : a + k <= m - 1 => D[a + k] > v}
           N == m - a
<1>2. 0 \in T
  BY <1>1
<1>3. \A k \in 1..N : k - 1 \in T => k \in T
  <2> TAKE k \in 1..N
  <2> HAVE k - 1 \in T
  <2> SUFFICES ASSUME a + k <= m - 1  PROVE D[a + k] > v
    BY <1>1
  <2>1. PICK i : i = a + k
    OBVIOUS
  <2>2. i \in 1..n /\ i - 1 = a + (k - 1) /\ i - 1 \in 0..n /\ i - 1 <= m - 1 /\ i \in 0..n /\ i \in a..(m - 1)
    BY <1>1, <2>1
  <2>3. D[i - 1] > v
    BY <2>2
  <2>4. D[i] \in Int /\ D[i - 1] \in Int /\ D[i] # v
    BY <1>1, <2>2
  <2>5. D[i] > v
    <3>1. PICK x, y : x = D[i] /\ y = D[i - 1]
      OBVIOUS
    <3>2. x = y \/ x = y + 1 \/ x = y - 1
      BY <1>1, <2>2, <3>1
    <3> QED
      BY <2>3, <2>4, <3>1, <3>2
  <2> QED
    BY <2>1, <2>5
<1>4. 0..N \subseteq T
  <2>1. N \in Nat
    BY <1>1
  <2> HIDE DEF T, N
  <2> QED
    BY <1>2, <1>3, <2>1, Induction
<1> SUFFICES ASSUME NEW i \in a..(m - 1)  PROVE D[i] > v
  OBVIOUS
<1>5. i - a \in 0..N /\ a + (i - a) = i
  BY <1>1
<1>6. i - a \in T
  BY <1>4, <1>5
<1> QED
  BY <1>5, <1>6

\* The bracket at `at` is closed at or before hi.
LEMMA ClosedBefore ==
  ASSUME NEW p, Len(p) \in Nat, WellNested(p), NEW kind \in BracketKinds,
         NEW at \in 1..Len(p), p[at] = Brackets[kind][1],
         NEW hi \in at..Len(p), Depth(p)[hi] = Depth(p)[at - 1],
         NEW C, Counter(Len(p), KindWeights(p, kind), C)
  PROVE  \E m \in (at + 1)..hi : /\ ClosesAt(p, at, kind, m) /\ C[m] - C[at] = -1
                                 /\ \A i \in at..(m - 1) : C[i] - C[at] >= 0
<1> DEFINE n == Len(p)
           D == Depth(p)
           u == KindWeights(p, kind)
           v == D[at - 1]
<1>1. Steps(n, D, u, C)
  BY KindSteps
<1> HIDE DEF D, u
<1>2. /\ n \in Nat /\ D \in [0..n -> Int] /\ C \in [0..n -> Int]
      /\ \A i \in 1..n : C[i] = C[i - 1] + u[i]
      /\ \A i \in 1..n : D[i] = D[i - 1] \/ D[i] = D[i - 1] + 1 \/ D[i] = D[i - 1] - 1
  BY <1>1 DEF Steps
<1>3. D[at] = v + 1 /\ v \in Int /\ at \in 0..n
  <2>1. p[at] \in Openings
    BY BracketsAre
  <2>2. Weight(p[at]) = 1
    BY <2>1 DEF Weight
  <2>3. D[at] = D[at - 1] + Weight(p[at])
    BY DepthIs DEF D
  <2>4. at - 1 \in 0..n
    OBVIOUS
  <2> QED
    BY <1>2, <2>2, <2>3, <2>4
<1> DEFINE S == {j \in at..hi : D[j] = v}
<1>4. PICK m \in S : \A y \in S : m <= y
  <2>1. S \in SUBSET Nat /\ hi \in S
    BY DEF D
  <2>2. S # {}
    BY <2>1
  <2> HIDE DEF S
  <2> QED
    BY <2>1, <2>2, LeastNumber
<1>5. m \in (at + 1)..hi /\ D[m] = v /\ m \in at..n /\ m \in 1..n
  BY <1>2, <1>3, <1>4
<1>6. \A i \in at..(m - 1) : D[i] # v
  <2> TAKE i \in at..(m - 1)
  <2>1. i \in at..hi /\ i < m
    BY <1>5
  <2> QED
    BY <1>4, <2>1
<1> HIDE DEF S, v
<1>7. \A i \in at..(m - 1) : D[i] > v
  <2>1. D[at] > v
    BY <1>3
  <2> HIDE DEF n
  <2> QED
    BY <1>1, <1>3, <1>5, <1>6, <2>1, StaysAbove
<1>8. p[m] = Brackets[kind][2]
  <2>1. \A l \in at..(m - 1) : Depth(p)[l] # Depth(p)[at - 1]
    BY <1>6 DEF D, v
  <2> QED
    BY <1>5, <2>1, ClosedAt DEF D, v
<1>9. ASSUME NEW i \in at..(m - 1)
      PROVE  C[at] <= C[i] /\ (D[i] = D[at] => C[i] = C[at])
  <2>1. i \in 0..n /\ at \in 0..i
    BY <1>2, <1>5
  <2>2. Fair(D, C, at, i)
    <3> HIDE DEF n
    <3> QED
      BY <1>1, <2>1, Balanced
  <2>3. Rises(D, at, i)
    <3> SUFFICES ASSUME NEW l \in at..i  PROVE D[at] <= D[l]
      BY DEF Rises
    <3>1. l \in at..(m - 1) /\ l \in 0..n
      BY <1>2, <1>5, <2>1
    <3>2. D[l] > v /\ D[l] \in Int
      BY <1>2, <1>7, <3>1
    <3> QED
      BY <1>3, <3>2
  <2> QED
    BY <2>2, <2>3 DEF Fair
<1>10. C[m] - C[at] = -1
  <2>1. m - 1 \in at..(m - 1) /\ m - 1 \in 0..n
    BY <1>5
  <2>2. D[m - 1] > v /\ D[m - 1] \in Int
    BY <1>2, <1>7, <2>1
  <2>3. D[m - 1] = D[at]
    <3>1. PICK x, y : x = D[m] /\ y = D[m - 1]
      OBVIOUS
    <3>2. (x = y \/ x = y + 1 \/ x = y - 1) /\ x = v /\ y > v /\ y \in Int
      BY <1>2, <1>5, <2>2, <3>1
    <3>3. y = v + 1
      BY <1>3, <3>2
    <3> QED
      BY <1>3, <3>1, <3>3
  <2>4. C[m - 1] = C[at]
    BY <1>9, <2>1, <2>3
  <2>5. u[m] = -1
    <3>1. KindWeight(kind, p[m]) = -1
      BY <1>8, BracketsAre DEF KindWeight
    <3> QED
      BY <1>5, <3>1 DEF u, KindWeights
  <2>6. C[at] \in Int
    BY <1>2, <1>3
  <2> QED
    BY <1>2, <1>5, <2>4, <2>5, <2>6
<1>11. \A i \in at..(m - 1) : C[i] - C[at] >= 0
  <2> TAKE i \in at..(m - 1)
  <2>1. i \in 0..n
    BY <1>5
  <2>2. C[i] \in Int /\ C[at] \in Int
    BY <1>2, <1>3, <2>1
  <2> QED
    BY <1>9, <2>2
<1>12. ClosesAt(p, at, kind, m)
  BY <1>5, <1>7, <1>8 DEF ClosesAt, D, v
<1> QED
  BY <1>5, <1>10, <1>11, <1>12

Ends(C, at, hi) == {j \in (at + 1)..hi : C[j] - C[at] = -1}
FirstOf(S) == IF S = {} THEN Nil ELSE Min(S)

\* The counter of next_bracket, from the opening bracket at `at`.
LEMMA IndexIs ==
  ASSUME NEW p, Len(p) \in Nat, NEW kind \in BracketKinds, NEW at \in 1..Len(p),
         NEW C, Counter(Len(p), KindWeights(p, kind), C), NEW hi \in at..Len(p)
  PROVE  NextBracket(p, kind, at + 1, hi) = FirstOf(Ends(C, at, hi))
<1> DEFINE n == Len(p)
           from == at + 1
           Body(f, j) == IF j = from - 1 THEN 0
                         ELSE CASE p[j] = Brackets[kind][1] -> f[j - 1] + 1
                                [] p[j] = Brackets[kind][2] -> f[j - 1] - 1
                                [] OTHER -> f[j - 1]
           E(f) == f = [j \in (from - 1)..Len(p) |-> Body(f, j)]
           index == CHOOSE f : E(f)
           g == [j \in (from - 1)..n |-> C[j] - C[at]]
           u == KindWeights(p, kind)
<1>1. C \in [0..n -> Int] /\ \A i \in 1..n : C[i] = C[i - 1] + u[i]
  BY DEF Counter
<1>2. \A i \in 1..n : u[i] = KindWeight(kind, p[i])
  BY DEF KindWeights
<1>3. from - 1 = at /\ from \in Nat /\ n \in Nat
  OBVIOUS
<1>4. Brackets[kind][1] # Brackets[kind][2]
  BY BracketsAre
<1>5. ASSUME NEW i \in (at + 1)..n, NEW f, f[i - 1] = C[i - 1] - C[at]
      PROVE  Body(f, i) = C[i] - C[at]
  <2>1. i \in 1..n /\ i - 1 \in 0..n /\ i # from - 1 /\ at \in 0..n /\ i \in 0..n
    BY <1>3
  <2>2. PICK x, y, z, c : x = C[i] /\ y = C[i - 1] /\ z = C[at] /\ c = p[i]
    OBVIOUS
  <2>3. x \in Int /\ y \in Int /\ z \in Int /\ x = y + KindWeight(kind, c) /\ f[i - 1] = y - z
    BY <1>1, <1>2, <1>5, <2>1, <2>2
  <2>4. Body(f, i) = CASE c = Brackets[kind][1] -> f[i - 1] + 1 [] c = Brackets[kind][2] -> f[i - 1] - 1 [] OTHER -> f[i - 1]
    BY <2>1, <2>2
  <2> HIDE DEF Body, from
  <2>8. PICK b, v, o, s : b = Body(f, i) /\ v = f[i - 1] /\ o = Brackets[kind][1] /\ s = Brackets[kind][2]
    OBVIOUS
  <2>9. /\ b = (CASE c = o -> v + 1 [] c = s -> v - 1 [] OTHER -> v) /\ v = y - z /\ o # s
        /\ KindWeight(kind, c) = IF c = o THEN 1 ELSE IF c = s THEN -1 ELSE 0
    BY <1>4, <2>3, <2>4, <2>8 DEF KindWeight
  <2>5. CASE c = o
    <3>1. b = (y - z) + 1 /\ x = y + 1
      BY <2>3, <2>5, <2>9
    <3>2. b = x - z
      BY <2>3, <3>1
    <3> QED
      BY <2>2, <2>8, <3>2
  <2>6. CASE c = s
    <3>1. b = (y - z) - 1 /\ x = y - 1
      BY <2>3, <2>6, <2>9
    <3>2. b = x - z
      BY <2>3, <3>1
    <3> QED
      BY <2>2, <2>8, <3>2
  <2>7. CASE c # o /\ c # s
    <3>1. b = y - z /\ x = y
      BY <2>3, <2>7, <2>9
    <3>2. b = x - z
      BY <2>3, <3>1
    <3> QED
      BY <2>2, <2>8, <3>2
  <2> QED
    BY <2>5, <2>6, <2>7
<1>6. \A f : Body(f, at) = 0
  BY <1>3
<1>7. C[at] \in Int
  BY <1>1
<1>8. E(g)
  <2>1. ASSUME NEW j \in at..n  PROVE g[j] = Body(g, j)
    <3>1. g[j] = C[j] - C[at]
      BY <1>3
    <3>2. CASE j = at
      BY <1>6, <1>7, <3>1, <3>2
    <3>3. CASE j # at
      <4>1. j \in (at + 1)..n /\ j - 1 \in at..n
        BY <3>3
      <4>2. g[j - 1] = C[j - 1] - C[at]
        BY <1>3, <4>1
      <4> HIDE DEF Body, g
      <4> QED
        BY <1>5, <3>1, <4>1, <4>2
    <3> QED
      BY <3>2, <3>3
  <2>2. g = [j \in (from - 1)..n |-> g[j]]
    OBVIOUS
  <2> HIDE DEF Body, g, from
  <2> QED
    BY <1>3, <2>1, <2>2
<1>9. E(index)
  <2> HIDE DEF E, g
  <2> QED
    BY <1>8
<1> HIDE DEF index
<1>10. \A j \in at..n : index[j] = Body(index, j)
  <2> HIDE DEF Body
  <2> QED
    BY <1>3, <1>9
<1>11. \A j \in at..n : index[j] = C[j] - C[at]
  <2> DEFINE T == {k \in Nat : at + k <= n => index[at + k] = C[at + k] - C[at]}
             N == n - at
  <2>1. 0 \in T
    <3>1. at + 0 = at /\ at \in at..n /\ C[at] - C[at] = 0
      BY <1>7
    <3>2. index[at] = 0
      BY <1>6, <1>10, <3>1
    <3> QED
      BY <3>1, <3>2
  <2>2. \A k \in 1..N : k - 1 \in T => k \in T
    <3> TAKE k \in 1..N
    <3> HAVE k - 1 \in T
    <3>1. PICK i : i = at + k
      OBVIOUS
    <3>2. i \in (at + 1)..n /\ i - 1 = at + (k - 1) /\ i - 1 <= n /\ i \in at..n
      BY <3>1
    <3>3. index[i - 1] = C[i - 1] - C[at]
      BY <3>2
    <3>4. index[i] = C[i] - C[at]
      <4> HIDE DEF Body
      <4> QED
        BY <1>5, <1>10, <3>2, <3>3
    <3> QED
      BY <3>1, <3>4
  <2>3. 0..N \subseteq T
    <3>1. N \in Nat
      OBVIOUS
    <3> HIDE DEF T, N
    <3> QED
      BY <2>1, <2>2, <3>1, Induction
  <2> TAKE j \in at..n
  <2>4. j - at \in 0..N /\ at + (j - at) = j
    OBVIOUS
  <2>5. j - at \in T
    BY <2>3, <2>4
  <2> QED
    BY <2>4, <2>5
<1>12. {j \in from..hi : index[j] = -1} = Ends(C, at, hi)
  <2>1. \A j \in (at + 1)..hi : j \in at..n
    OBVIOUS
  <2> QED
    BY <1>11, <2>1 DEF Ends
<1>13. NextBracket(p, kind, from, hi) =
         IF {j \in from..hi : index[j] = -1} = {} THEN Nil ELSE Min({j \in from..hi : index[j] = -1})
  BY DEF NextBracket, index
<1> QED
  BY <1>12, <1>13 DEF FirstOf

\* On a well nested pattern, next_bracket finds where the bracket is closed.
LEMMA NextBracketIs ==
  ASSUME NEW p, Len(p) \in Nat, WellNested(p), NEW kind \in BracketKinds,
         NEW at \in 1..Len(p), p[at] = Brackets[kind][1],
         NEW hi \in at..Len(p), Depth(p)[hi] = Depth(p)[at - 1]
  PROVE  /\ NextBracket(p, kind, at + 1, hi) \in (at + 1)..hi
         /\ ClosesAt(p, at, kind, NextBracket(p, kind, at + 1, hi))
<1>1. PICK C : Counter(Len(p), KindWeights(p, kind), C)
  <2>1. KindWeights(p, kind) \in [1..Len(p) -> Int]
    <3>1. \A c : KindWeight(kind, c) \in Int
      BY DEF KindWeight
    <3> QED
      BY <3>1 DEF KindWeights
  <2> QED
    BY <2>1, CounterExists
<1>2. PICK m \in (at + 1)..hi : /\ ClosesAt(p, at, kind, m) /\ C[m] - C[at] = -1
                                /\ \A i \in at..(m - 1) : C[i] - C[at] >= 0
  BY <1>1, ClosedBefore
<1>3. PICK ends : ends = {j \in (at + 1)..hi : C[j] - C[at] = -1}
  OBVIOUS
<1>4. NextBracket(p, kind, at + 1, hi) = IF ends = {} THEN Nil ELSE Min(ends)
  <2>1. NextBracket(p, kind, at + 1, hi) = FirstOf(Ends(C, at, hi))
    BY <1>1, IndexIs
  <2> QED
    BY <1>3, <2>1 DEF FirstOf, Ends
<1>5. m \in ends /\ ends \in SUBSET Nat
  BY <1>2, <1>3
<1>6. Min(ends) \in ends /\ \A y \in ends : Min(ends) <= y
  <2>1. ends # {}
    BY <1>5
  <2> QED
    BY <1>5, <2>1, MinIs
<1>7. Min(ends) = m
  <2>1. PICK e : e = Min(ends)
    OBVIOUS
  <2>2. e \in (at + 1)..hi /\ C[e] - C[at] = -1 /\ e <= m
    BY <1>3, <1>5, <1>6, <2>1
  <2>3. e \notin at..(m - 1)
    BY <1>2, <2>2
  <2> QED
    BY <2>1, <2>2, <2>3
<1> QED
  BY <1>2, <1>4, <1>5, <1>7

-----------------------------------------------------------------------------
(* The words of a slice.                                                   *)
Slices(p) == (1..(Len(p) + 1)) \X (0..Len(p))
SliceRank(s) == IF s[2] < s[1] THEN 0 ELSE s[2] - s[1] + 1

BarsOf(p, lo, hi) == {i \in lo..hi : p[i] = "|" /\ Depth(p)[i] = Depth(p)[lo - 1]}
LastUnit(p, lo, hi) == Max({lo} \cup {i \in lo..hi : Depth(p)[i - 1] = Depth(p)[hi]})
Tails(p, w, u, hi) ==
  CASE p[hi] = "]" -> w[<<u + 1, hi - 1>>] \cup {<<>>}
    [] p[hi] = ")" -> w[<<u + 1, hi - 1>>]
    [] OTHER -> {<<p[hi]>>}
WordsBody(p, w, lo, hi) ==
  IF BarsOf(p, lo, hi) # {}
  THEN w[<<lo, Max(BarsOf(p, lo, hi)) - 1>>] \cup w[<<Max(BarsOf(p, lo, hi)) + 1, hi>>]
  ELSE IF hi < lo THEN {<<>>}
  ELSE Cat(w[<<lo, LastUnit(p, lo, hi) - 1>>], Tails(p, w, LastUnit(p, lo, hi), hi))

\* A slice of lower rank.
Smaller(p, s, t) == t \in Slices(p) /\ SliceRank(t) < SliceRank(s)

\* Slices inside a slice are smaller.
LEMMA SmallerIs ==
  ASSUME NEW p, NEW n \in Nat, n = Len(p), NEW lo \in 1..(n + 1), NEW hi \in 0..n,
         NEW i \in 1..(n + 1), NEW j \in 0..n, lo <= hi, j - i < hi - lo
  PROVE  Smaller(p, <<lo, hi>>, <<i, j>>)
<1>1. <<i, j>> \in Slices(p)
  BY DEF Slices
<1>2. SliceRank(<<i, j>>) = (IF j < i THEN 0 ELSE j - i + 1) /\ SliceRank(<<lo, hi>>) = hi - lo + 1
  BY DEF SliceRank
<1>3. (IF j < i THEN 0 ELSE j - i + 1) < hi - lo + 1
  OBVIOUS
<1> QED
  BY <1>1, <1>2, <1>3 DEF Smaller

\* The last bar of a slice.
LEMMA BarsAre ==
  ASSUME NEW p, NEW n \in Nat, n = Len(p), NEW lo \in 1..(n + 1), NEW hi \in 0..n,
         BarsOf(p, lo, hi) # {}, NEW b, b = Max(BarsOf(p, lo, hi))
  PROVE  /\ lo <= hi /\ b \in lo..hi /\ b \in BarsOf(p, lo, hi) /\ \A i \in BarsOf(p, lo, hi) : i <= b
         /\ Smaller(p, <<lo, hi>>, <<lo, b - 1>>) /\ Smaller(p, <<lo, hi>>, <<b + 1, hi>>)
<1>1. BarsOf(p, lo, hi) \subseteq lo..hi
  BY DEF BarsOf
<1>2. BarsOf(p, lo, hi) \in SUBSET (0..n)
  BY <1>1
<1>3. b \in BarsOf(p, lo, hi) /\ \A i \in BarsOf(p, lo, hi) : i <= b
  BY <1>2, MaxIs
<1>4. b \in lo..hi /\ lo <= hi
  BY <1>1, <1>3
<1>5. b - 1 \in 0..n /\ b + 1 \in 1..(n + 1) /\ (b - 1) - lo < hi - lo /\ hi - (b + 1) < hi - lo
  BY <1>4
<1> QED
  BY <1>3, <1>4, <1>5, SmallerIs

\* u starts what is last on the slice.
Starts(p, lo, hi, u) ==
  /\ u \in lo..hi /\ \A i \in lo..hi : Depth(p)[i - 1] = Depth(p)[hi] => i <= u
  /\ u = lo \/ Depth(p)[u - 1] = Depth(p)[hi]

\* The last unit of a slice.
LEMMA UnitsAre ==
  ASSUME NEW p, NEW n \in Nat, n = Len(p), NEW lo \in 1..(n + 1), NEW hi \in 0..n, lo <= hi,
         NEW u, u = LastUnit(p, lo, hi)
  PROVE  /\ Starts(p, lo, hi, u)
         /\ Smaller(p, <<lo, hi>>, <<lo, u - 1>>) /\ Smaller(p, <<lo, hi>>, <<u + 1, hi - 1>>)
<1> DEFINE S == {lo} \cup {i \in lo..hi : Depth(p)[i - 1] = Depth(p)[hi]}
<1>1. S \in SUBSET (0..n) /\ S # {} /\ S \subseteq lo..hi
  OBVIOUS
<1>2. Max(S) \in S /\ \A i \in S : i <= Max(S)
  <2> HIDE DEF S
  <2> QED
    BY <1>1, MaxIs
<1>3. u = Max(S)
  BY DEF LastUnit
<1>4. u \in lo..hi
  BY <1>1, <1>2, <1>3
<1>5. u - 1 \in 0..n /\ u + 1 \in 1..(n + 1) /\ hi - 1 \in 0..n /\ (u - 1) - lo < hi - lo /\ (hi - 1) - (u + 1) < hi - lo
  BY <1>4
<1>6. Smaller(p, <<lo, hi>>, <<lo, u - 1>>) /\ Smaller(p, <<lo, hi>>, <<u + 1, hi - 1>>)
  BY <1>5, SmallerIs
<1>7. Starts(p, lo, hi, u)
  BY <1>2, <1>3, <1>4 DEF Starts
<1> QED
  BY <1>6, <1>7

\* The words of a slice are made of those of smaller ones.
LEMMA BodyIsLocal ==
  ASSUME NEW p, NEW n \in Nat, n = Len(p), NEW lo \in 1..(n + 1), NEW hi \in 0..n,
         NEW v, NEW w, \A t : Smaller(p, <<lo, hi>>, t) => v[t] = w[t]
  PROVE  WordsBody(p, v, lo, hi) = WordsBody(p, w, lo, hi)
<1>1. CASE BarsOf(p, lo, hi) # {}
  <2>1. PICK b : b = Max(BarsOf(p, lo, hi))
    OBVIOUS
  <2>2. Smaller(p, <<lo, hi>>, <<lo, b - 1>>) /\ Smaller(p, <<lo, hi>>, <<b + 1, hi>>)
    BY <1>1, <2>1, BarsAre
  <2>3. v[<<lo, b - 1>>] = w[<<lo, b - 1>>] /\ v[<<b + 1, hi>>] = w[<<b + 1, hi>>]
    BY <2>2
  <2> QED
    BY <1>1, <2>1, <2>3 DEF WordsBody
<1>2. CASE BarsOf(p, lo, hi) = {} /\ hi < lo
  BY <1>2 DEF WordsBody
<1>3. CASE BarsOf(p, lo, hi) = {} /\ ~(hi < lo)
  <2>1. PICK u : u = LastUnit(p, lo, hi)
    OBVIOUS
  <2>2. Smaller(p, <<lo, hi>>, <<lo, u - 1>>) /\ Smaller(p, <<lo, hi>>, <<u + 1, hi - 1>>)
    <3>1. lo <= hi
      BY <1>3
    <3> QED
      BY <2>1, <3>1, UnitsAre
  <2>3. v[<<lo, u - 1>>] = w[<<lo, u - 1>>] /\ v[<<u + 1, hi - 1>>] = w[<<u + 1, hi - 1>>]
    BY <2>2
  <2>4. Tails(p, v, u, hi) = Tails(p, w, u, hi)
    BY <2>3 DEF Tails
  <2> QED
    BY <1>3, <2>1, <2>3, <2>4 DEF WordsBody
<1> QED
  BY <1>1, <1>2, <1>3

\* The words of a slice are sequences of symbols.
LEMMA BodyIsTyped ==
  ASSUME NEW p \in Seq(Letters), NEW n \in Nat, n = Len(p), NEW lo \in 1..(n + 1), NEW hi \in 0..n,
         NEW w, \A t : Smaller(p, <<lo, hi>>, t) => w[t] \in SUBSET Seq(Letters)
  PROVE  WordsBody(p, w, lo, hi) \in SUBSET Seq(Letters)
<1>1. CASE BarsOf(p, lo, hi) # {}
  <2>1. PICK b : b = Max(BarsOf(p, lo, hi))
    OBVIOUS
  <2>2. Smaller(p, <<lo, hi>>, <<lo, b - 1>>) /\ Smaller(p, <<lo, hi>>, <<b + 1, hi>>)
    BY <1>1, <2>1, BarsAre
  <2>3. w[<<lo, b - 1>>] \in SUBSET Seq(Letters) /\ w[<<b + 1, hi>>] \in SUBSET Seq(Letters)
    BY <2>2
  <2>4. WordsBody(p, w, lo, hi) = w[<<lo, b - 1>>] \cup w[<<b + 1, hi>>]
    BY <1>1, <2>1 DEF WordsBody
  <2> QED
    BY <2>3, <2>4
<1>2. CASE BarsOf(p, lo, hi) = {} /\ hi < lo
  <2>1. <<>> \in Seq(Letters)
    OBVIOUS
  <2> QED
    BY <1>2, <2>1 DEF WordsBody
<1>3. CASE BarsOf(p, lo, hi) = {} /\ ~(hi < lo)
  <2>1. PICK u : u = LastUnit(p, lo, hi)
    OBVIOUS
  <2>2. Smaller(p, <<lo, hi>>, <<lo, u - 1>>) /\ Smaller(p, <<lo, hi>>, <<u + 1, hi - 1>>)
    <3>1. lo <= hi
      BY <1>3
    <3> QED
      BY <2>1, <3>1, UnitsAre
  <2>3. w[<<lo, u - 1>>] \in SUBSET Seq(Letters) /\ w[<<u + 1, hi - 1>>] \in SUBSET Seq(Letters)
    BY <2>2
  <2>4. Tails(p, w, u, hi) \in SUBSET Seq(Letters)
    <3>1. <<>> \in Seq(Letters)
      OBVIOUS
    <3>2. p[hi] \in Letters
      BY <1>3
    <3>3. <<p[hi]>> \in Seq(Letters)
      BY <3>2
    <3> QED
      BY <2>3, <3>1, <3>3 DEF Tails
  <2>5. WordsBody(p, w, lo, hi) = Cat(w[<<lo, u - 1>>], Tails(p, w, u, hi))
    BY <1>3, <2>1 DEF WordsBody
  <2> QED
    BY <2>3, <2>4, <2>5, CatType
<1> QED
  BY <1>1, <1>2, <1>3

\* A slice has a rank.
LEMMA SliceIs ==
  ASSUME NEW p, Len(p) \in Nat, NEW s \in Slices(p)
  PROVE  s[1] \in 1..(Len(p) + 1) /\ s[2] \in 0..Len(p) /\ s = <<s[1], s[2]>>
         /\ SliceRank(s) \in 0..Len(p)
<1>1. s[1] \in 1..(Len(p) + 1) /\ s[2] \in 0..Len(p) /\ s = <<s[1], s[2]>>
  BY DEF Slices
<1>2. PICK n, i, j : n = Len(p) /\ i = s[1] /\ j = s[2]
  OBVIOUS
<1>3. (IF j < i THEN 0 ELSE j - i + 1) \in 0..n
  BY <1>1, <1>2
<1> QED
  BY <1>1, <1>2, <1>3 DEF SliceRank

\* Words is the function that its definition reads.
LEMMA WordsAre ==
  ASSUME NEW p \in Seq(Letters)
  PROVE  \A lo \in 1..(Len(p) + 1), hi \in 0..Len(p) :
           /\ Words(p)[<<lo, hi>>] \in SUBSET Seq(Letters)
           /\ Words(p)[<<lo, hi>>] = WordsBody(p, Words(p), lo, hi)
<1> DEFINE n == Len(p)
           D == Slices(p)
           V == SUBSET Seq(Letters)
           X == Words(p)
           Body(f, s) == WordsBody(p, f, s[1], s[2])
           E(f) == f = [s \in D |-> Body(f, s)]
           F == [g \in [D -> V] |-> [s \in D |-> Body(g, s)]]
           rank == [s \in D |-> SliceRank(s)]
<1>0. n \in Nat
  OBVIOUS
<1>1. ASSUME NEW s \in D
      PROVE  s[1] \in 1..(n + 1) /\ s[2] \in 0..n /\ s = <<s[1], s[2]>> /\ rank[s] \in 0..n
             /\ rank[s] = SliceRank(s)
  BY <1>0, SliceIs
<1>2. ASSUME NEW s \in D, NEW t, Smaller(p, s, t)
      PROVE  t \in D /\ rank[t] < rank[s]
  BY <1>2 DEF Smaller
<1>3. ASSUME NEW s \in D, NEW w, \A t : Smaller(p, s, t) => w[t] \in V
      PROVE  Body(w, s) \in V
  <2>1. PICK lo, hi : lo = s[1] /\ hi = s[2]
    OBVIOUS
  <2>2. lo \in 1..(n + 1) /\ hi \in 0..n /\ s = <<lo, hi>>
    BY <1>1, <2>1
  <2>3. \A t : Smaller(p, <<lo, hi>>, t) => w[t] \in SUBSET Seq(Letters)
    BY <1>3, <2>2
  <2>4. WordsBody(p, w, lo, hi) \in SUBSET Seq(Letters)
    BY <1>0, <2>2, <2>3, BodyIsTyped
  <2> QED
    BY <2>1, <2>4
<1>4. ASSUME NEW s \in D, NEW v, NEW w, \A t : Smaller(p, s, t) => v[t] = w[t]
      PROVE  Body(v, s) = Body(w, s)
  <2>1. PICK lo, hi : lo = s[1] /\ hi = s[2]
    OBVIOUS
  <2>2. lo \in 1..(n + 1) /\ hi \in 0..n /\ s = <<lo, hi>>
    BY <1>1, <2>1
  <2>3. \A t : Smaller(p, <<lo, hi>>, t) => v[t] = w[t]
    BY <1>4, <2>2
  <2>4. WordsBody(p, v, lo, hi) = WordsBody(p, w, lo, hi)
    BY <1>0, <2>2, <2>3, BodyIsLocal
  <2> QED
    BY <2>1, <2>4
<1>5. X = CHOOSE f : E(f)
  BY DEF Words, WordsBody, Tails, LastUnit, BarsOf, Cat, Slices
<1> HIDE DEF V, D, X, rank
<1>6. F \in Functionals(D, V)
  <2>1. ASSUME NEW g \in [D -> V], NEW s \in D
        PROVE  Body(g, s) \in V
    <3>1. \A t : Smaller(p, s, t) => g[t] \in V
      BY <1>2
    <3> HIDE DEF Body
    <3> QED
      BY <1>3, <3>1
  <2> HIDE DEF Body
  <2> QED
    BY <2>1 DEF Functionals
<1>7. rank \in Ranks(D, n)
  BY <1>1 DEF Ranks, rank
<1>8. LowerDecide(D, V, rank, F)
  <2>1. ASSUME NEW g \in [D -> V], NEW h \in [D -> V], NEW s \in D,
               \A y \in D : rank[y] < rank[s] => g[y] = h[y]
        PROVE  Body(g, s) = Body(h, s)
    <3>1. \A t : Smaller(p, s, t) => g[t] = h[t]
      BY <1>2, <2>1
    <3> HIDE DEF Body
    <3> QED
      BY <1>4, <3>1
  <2>2. \A g \in [D -> V], s \in D : F[g][s] = Body(g, s)
    <3> HIDE DEF Body
    <3> QED
      OBVIOUS
  <2> HIDE DEF Body, F
  <2> QED
    BY <2>1, <2>2 DEF LowerDecide
<1>9. HasFixedPoint(D, V, F)
  <2>1. V # {}
    BY DEF V
  <2> HIDE DEF F
  <2> QED
    BY <1>0, <1>6, <1>7, <1>8, <2>1, RankedRecursion
<1>10. E(X)
  <2>1. \E f : E(f)
    <3> HIDE DEF Body
    <3> QED
      BY <1>9 DEF HasFixedPoint
  <2> HIDE DEF E
  <2> QED
    BY <1>5, <2>1
<1>11. \A s \in D : X[s] = Body(X, s)
  <2> HIDE DEF Body
  <2> QED
    BY <1>10
<1>12. \A s \in D : X[s] \in V
  <2> DEFINE S == {s \in D : X[s] \notin V}
             R == {rank[s] : s \in S}
  <2> SUFFICES ASSUME S # {}  PROVE FALSE
    OBVIOUS
  <2>1. R \in SUBSET Nat /\ R # {}
    BY <1>0, <1>1
  <2>2. PICK r \in R : \A y \in R : r <= y
    <3> HIDE DEF R
    <3> QED
      BY <2>1, LeastNumber
  <2>3. PICK m \in S : r = rank[m]
    OBVIOUS
  <2>4. ASSUME NEW t, Smaller(p, m, t)  PROVE X[t] \in V
    <3>1. t \in D /\ rank[t] < rank[m]
      BY <1>2, <2>4
    <3>2. rank[t] \in Nat /\ rank[m] \in Nat
      BY <1>0, <1>1, <3>1
    <3>3. t \notin S
      <4> SUFFICES ASSUME t \in S  PROVE FALSE
        OBVIOUS
      <4>1. rank[t] \in R
        OBVIOUS
      <4> HIDE DEF R, S
      <4>2. rank[m] <= rank[t]
        BY <2>2, <2>3, <4>1
      <4> QED
        BY <3>1, <3>2, <4>2
    <3> QED
      BY <3>1, <3>3
  <2>5. Body(X, m) \in V
    <3> HIDE DEF Body
    <3> QED
      BY <1>3, <2>4
  <2> HIDE DEF Body
  <2> QED
    BY <1>11, <2>5
<1>13. ASSUME NEW lo \in 1..(n + 1), NEW hi \in 0..n
       PROVE  X[<<lo, hi>>] \in V /\ X[<<lo, hi>>] = WordsBody(p, X, lo, hi)
  <2>1. <<lo, hi>> \in D /\ <<lo, hi>>[1] = lo /\ <<lo, hi>>[2] = hi
    BY DEF D, Slices
  <2> QED
    BY <1>11, <1>12, <2>1
<1> QED
  BY <1>13 DEF X, V

\* The empty slice.
LEMMA WordsOfNone ==
  ASSUME NEW p \in Seq(Letters), NEW lo \in 1..(Len(p) + 1)
  PROVE  Words(p)[<<lo, lo - 1>>] = {<<>>}
<1>1. lo - 1 \in 0..Len(p) /\ lo - 1 < lo /\ lo..(lo - 1) = {}
  OBVIOUS
<1>2. BarsOf(p, lo, lo - 1) = {}
  BY <1>1 DEF BarsOf
<1>3. Words(p)[<<lo, lo - 1>>] = WordsBody(p, Words(p), lo, lo - 1)
  BY <1>1, WordsAre
<1> QED
  BY <1>1, <1>2, <1>3 DEF WordsBody

\* No bar of the slice's own level behind b.
NoBars(p, lo, b, hi) == \A i \in (b + 1)..hi : ~(p[i] = "|" /\ Depth(p)[i] = Depth(p)[lo - 1])
IsBar(p, lo, b) == p[b] = "|" /\ Depth(p)[b] = Depth(p)[lo - 1]

\* A slice with a bar, split at the last one.
LEMMA WordsAtBar ==
  ASSUME NEW p \in Seq(Letters), NEW lo \in 1..(Len(p) + 1), NEW hi \in 0..Len(p),
         NEW b \in lo..hi, IsBar(p, lo, b), NoBars(p, lo, b, hi)
  PROVE  Words(p)[<<lo, hi>>] = Words(p)[<<lo, b - 1>>] \cup Words(p)[<<b + 1, hi>>]
<1>0. Len(p) \in Nat
  OBVIOUS
<1>1. b \in BarsOf(p, lo, hi)
  BY DEF BarsOf, IsBar
<1>2. PICK m : m = Max(BarsOf(p, lo, hi))
  OBVIOUS
<1>3. m \in lo..hi /\ m \in BarsOf(p, lo, hi) /\ b <= m
  <2>1. BarsOf(p, lo, hi) # {}
    BY <1>1
  <2> QED
    BY <1>0, <1>1, <1>2, <2>1, BarsAre
<1>4. m = b
  <2>1. m \notin (b + 1)..hi
    BY <1>3 DEF BarsOf, NoBars
  <2> QED
    BY <1>3, <2>1
<1>5. Words(p)[<<lo, hi>>] = WordsBody(p, Words(p), lo, hi)
  BY WordsAre
<1> QED
  BY <1>1, <1>2, <1>4, <1>5 DEF WordsBody

\* A slice without one, split at its last unit.
LEMMA WordsAtUnit ==
  ASSUME NEW p \in Seq(Letters), NEW lo \in 1..(Len(p) + 1), NEW hi \in 0..Len(p),
         NoBars(p, lo, lo - 1, hi), NEW u \in lo..hi, Depth(p)[u - 1] = Depth(p)[hi],
         \A i \in (u + 1)..hi : Depth(p)[i - 1] # Depth(p)[hi]
  PROVE  Words(p)[<<lo, hi>>] = Cat(Words(p)[<<lo, u - 1>>], Tails(p, Words(p), u, hi))
<1>0. Len(p) \in Nat /\ lo <= hi
  OBVIOUS
<1>1. BarsOf(p, lo, hi) = {}
  BY DEF BarsOf, NoBars
<1>2. PICK m : m = LastUnit(p, lo, hi)
  OBVIOUS
<1>3. m \in lo..hi /\ (\A i \in lo..hi : Depth(p)[i - 1] = Depth(p)[hi] => i <= m)
      /\ (m = lo \/ Depth(p)[m - 1] = Depth(p)[hi])
  <2>1. PICK n : n = Len(p)
    OBVIOUS
  <2>2. n \in Nat /\ lo \in 1..(n + 1) /\ hi \in 0..n
    BY <1>0, <2>1
  <2>3. Starts(p, lo, hi, m)
    BY <1>0, <1>2, <2>1, <2>2, UnitsAre
  <2> QED
    BY <2>3 DEF Starts
<1>4. m = u
  <2>1. u <= m
    BY <1>3
  <2>2. m \notin (u + 1)..hi
    <3> SUFFICES ASSUME m \in (u + 1)..hi  PROVE FALSE
      OBVIOUS
    <3>1. m # lo
      OBVIOUS
    <3> QED
      BY <1>3, <3>1
  <2> QED
    BY <1>3, <2>1, <2>2
<1>5. Words(p)[<<lo, hi>>] = WordsBody(p, Words(p), lo, hi)
  BY WordsAre
<1>6. ~(hi < lo)
  BY <1>0
<1> QED
  BY <1>1, <1>2, <1>4, <1>5, <1>6 DEF WordsBody

-----------------------------------------------------------------------------
(* What the chains of a call have to do with the words of its slice: b is  *)
(* the last bar of the call, or the place before its slice.                *)
Level(p, c) ==
  /\ Depth(p)[c.at - 1] = Depth(p)[c.lo - 1] /\ Depth(p)[c.hi] = Depth(p)[c.lo - 1]
  /\ \A i \in c.lo..c.hi : Depth(p)[c.lo - 1] <= Depth(p)[i]
Since(p, c, b) ==
  /\ b \in (c.lo - 1)..(c.at - 1)
  /\ b >= c.lo => IsBar(p, c.lo, b)
  /\ NoBars(p, c.lo, b, c.at - 1)
Earlier(A) == UNION {A[k] : k \in 1..(Len(A) - 1)}
Spelling(p, c, A, b) ==
  /\ Since(p, c, b)
  /\ Cat(A[Len(A)], {c.literal}) = Words(p)[<<b + 1, c.at - 1>>]
  /\ Earlier(A) = IF b < c.lo THEN {} ELSE Words(p)[<<c.lo, b - 1>>]
Spells(p, c, A) == Level(p, c) /\ \E b : Spelling(p, c, A, b)

\* Where a call is.
Placed(p, c) ==
  /\ c.lo \in 1..(Len(p) + 1) /\ c.at \in c.lo..(c.hi + 1) /\ c.hi \in 0..Len(p)
Listed(A) == A \in Seq(SUBSET Seq(Letters)) /\ Len(A) > 0

\* The places of a call are numbers.
LEMMA PlacesAre ==
  ASSUME NEW p \in Seq(Letters), NEW c, Placed(p, c), Level(p, c)
  PROVE  /\ Len(p) \in Nat /\ c.lo \in Nat /\ c.at \in Nat /\ c.hi \in Nat
         /\ c.at - 1 \in 0..Len(p) /\ c.lo - 1 \in 0..Len(p)
         /\ Depth(p) \in [0..Len(p) -> Int]
         /\ Depth(p)[c.lo - 1] \in Int
<1>1. Len(p) \in Nat
  OBVIOUS
<1>2. Depth(p) \in [0..Len(p) -> Int]
  BY <1>1, DepthIs
<1>3. /\ c.lo \in Nat /\ c.at \in Nat /\ c.hi \in Nat
      /\ c.at - 1 \in 0..Len(p) /\ c.lo - 1 \in 0..Len(p)
  BY <1>1 DEF Placed
<1> QED
  BY <1>1, <1>2, <1>3

\* A letter, a space or a slot behind the words so far.
LEMMA WordsGrow ==
  ASSUME NEW p \in Seq(Letters), NEW c, Placed(p, c), Level(p, c), NEW b, Since(p, c, b),
         c.at <= c.hi, p[c.at] \notin Openings \cup {"|"}
  PROVE  /\ Depth(p)[c.at] = Depth(p)[c.lo - 1] /\ ~IsBar(p, c.lo, c.at)
         /\ Words(p)[<<b + 1, c.at>>] = Cat(Words(p)[<<b + 1, c.at - 1>>], {<<p[c.at]>>})
<1>1. PICK n, lo, hi, at, D : n = Len(p) /\ lo = c.lo /\ hi = c.hi /\ at = c.at /\ D = Depth(p)
  OBVIOUS
<1>2. /\ n \in Nat /\ lo \in 1..(n + 1) /\ at \in lo..hi /\ hi \in 0..n /\ b \in (lo - 1)..(at - 1)
      /\ D \in [0..n -> Int] /\ D[lo - 1] \in Int /\ at \in 1..n /\ at \in 0..n
      /\ D[at - 1] = D[lo - 1] /\ D[lo - 1] <= D[at]
  <2>1. n \in Nat /\ lo \in 1..(n + 1) /\ at \in lo..(hi + 1) /\ hi \in 0..n
    BY <1>1 DEF Placed
  <2>2. at <= hi
    BY <1>1
  <2>3. at \in lo..hi
    BY <2>1, <2>2
  <2>4. D \in [0..n -> Int] /\ D[lo - 1] \in Int
    BY <1>1, PlacesAre
  <2>5. D[at - 1] = D[lo - 1] /\ D[lo - 1] <= D[at]
    BY <1>1, <2>3 DEF Level
  <2>6. b \in (lo - 1)..(at - 1)
    BY <1>1 DEF Since
  <2> QED
    BY <2>1, <2>3, <2>4, <2>5, <2>6
<1>3. p[at] \notin Closings /\ D[at] = D[lo - 1]
  <2>1. D[at] = D[at - 1] + Weight(p[at])
    BY <1>1, <1>2, DepthIs
  <2>2. p[at] \in Closings => Weight(p[at]) = -1
    BY BracketsAre DEF Weight
  <2>3. p[at] \notin Closings
    BY <1>2, <2>1, <2>2
  <2>4. Weight(p[at]) = 0
    BY <1>1, <2>3 DEF Weight
  <2> QED
    BY <1>2, <2>1, <2>3, <2>4
<1>4. p[at] # "|" /\ p[at] # "]" /\ p[at] # ")"
  BY <1>1, <1>3 DEF Closings
<1>5. Tails(p, Words(p), at, at) = {<<p[at]>>}
  BY <1>4 DEF Tails
<1>6. D[b] = D[lo - 1]
  <2>1. CASE b < lo
    <3>1. b = lo - 1
      BY <1>2, <2>1
    <3> QED
      BY <3>1
  <2>2. CASE b >= lo
    BY <1>1, <2>2 DEF Since, IsBar
  <2> QED
    BY <1>2, <2>1, <2>2
<1>7. NoBars(p, b + 1, b, at)
  <2>1. \A i \in (b + 1)..(at - 1) : ~(p[i] = "|" /\ D[i] = D[lo - 1])
    BY <1>1 DEF Since, NoBars
  <2>2. \A i \in (b + 1)..at : ~(p[i] = "|" /\ D[i] = D[lo - 1])
    <3> TAKE i \in (b + 1)..at
    <3>1. CASE i = at
      BY <1>4, <3>1
    <3>2. CASE i # at
      <4>1. i \in (b + 1)..(at - 1)
        BY <1>2, <3>2
      <4> QED
        BY <2>1, <4>1
    <3> QED
      BY <3>1, <3>2
  <2>3. (b + 1) - 1 = b
    BY <1>2
  <2> QED
    BY <1>1, <1>6, <2>2, <2>3 DEF NoBars
<1>8. Words(p)[<<b + 1, at>>] = Cat(Words(p)[<<b + 1, at - 1>>], Tails(p, Words(p), at, at))
  <2>1. PICK m : m = b + 1
    OBVIOUS
  <2>2. m \in 1..(Len(p) + 1) /\ at \in 0..Len(p) /\ at \in m..at /\ m - 1 = b /\ (at + 1)..at = {}
    BY <1>1, <1>2, <2>1
  <2>3. NoBars(p, m, m - 1, at) /\ Depth(p)[at - 1] = Depth(p)[at]
    BY <1>1, <1>2, <1>3, <1>7, <2>1, <2>2
  <2>4. \A i \in (at + 1)..at : Depth(p)[i - 1] # Depth(p)[at]
    BY <2>2
  <2>5. Words(p)[<<m, at>>] = Cat(Words(p)[<<m, at - 1>>], Tails(p, Words(p), at, at))
    BY <2>2, <2>3, <2>4, WordsAtUnit
  <2> QED
    BY <2>1, <2>5
<1> QED
  BY <1>1, <1>3, <1>4, <1>5, <1>8 DEF IsBar

\* B is A with another last set of words.
LastChanged(A, B, L) ==
  /\ Listed(B) /\ Len(B) = Len(A) /\ B[Len(B)] = L /\ \A k \in 1..(Len(A) - 1) : B[k] = A[k]

\* Alternatives, one by one.
LEMMA ListedFacts ==
  ASSUME NEW A, Listed(A)
  PROVE  /\ Len(A) \in Nat /\ Len(A) \in 1..Len(A) /\ Len(A) > 0
         /\ A[Len(A)] \in SUBSET Seq(Letters)
         /\ \A k \in 1..Len(A) : A[k] \in SUBSET Seq(Letters)
<1> DEFINE S == SUBSET Seq(Letters)
<1> HIDE DEF S
<1>1. A \in Seq(S) /\ Len(A) > 0
  BY DEF Listed, S
<1>2. Len(A) \in Nat /\ Len(A) \in 1..Len(A) /\ \A k \in 1..Len(A) : A[k] \in S
  BY <1>1
<1> QED
  BY <1>1, <1>2 DEF S

\* One word behind a set of words.
LEMMA CatOne ==
  ASSUME NEW A \in SUBSET Seq(Letters), NEW t \in Seq(Letters), NEW x \in Letters
  PROVE  /\ Cat(A, {Append(t, x)}) = Cat(Cat(A, {t}), {<<x>>})
         /\ Cat(A, {t}) \in SUBSET Seq(Letters) /\ Cat(Cat(A, {t}), {<<x>>}) \in SUBSET Seq(Letters)
<1> DEFINE S == Seq(Letters)
<1>1. /\ <<x>> \in S /\ t \in S /\ t \o <<x>> = Append(t, x)
  OBVIOUS
<1>2. Cat({t}, {<<x>>}) = {Append(t, x)}
  <2>1. PICK u, v : u = <<x>> /\ v = Append(t, x)
    OBVIOUS
  <2>2. Cat({t}, {u}) = {t \o u}
    BY DEF Cat
  <2> QED
    BY <1>1, <2>1, <2>2
<1> HIDE DEF S
<1>3. {t} \in SUBSET S /\ {<<x>>} \in SUBSET S
  BY <1>1
<1>4. Cat(A, {t}) \in SUBSET Seq(Letters) /\ Cat(Cat(A, {t}), {<<x>>}) \in SUBSET Seq(Letters)
  BY <1>3, CatType DEF S
<1>5. Cat(Cat(A, {t}), {<<x>>}) = Cat(A, Cat({t}, {<<x>>}))
  BY <1>3, CatAssociates DEF S
<1> QED
  BY <1>2, <1>4, <1>5

\* A literal flushed, and any words joined.
LEMMA LastFlushed ==
  ASSUME NEW A, Listed(A), NEW t \in Seq(Letters)
  PROVE  LastChanged(A, FlushedWords(t, A), Cat(A[Len(A)], {t}))
<1> DEFINE S == Seq(Letters)
           B == FlushedWords(t, A)
<1>1. A \in Seq(SUBSET Seq(Letters)) /\ Len(A) > 0
  BY Zenon DEF Listed
<1>2. A[Len(A)] \in SUBSET Seq(Letters) /\ Len(A) \in Nat
  BY ListedFacts
<1>3. CASE t = <<>>
  <2>1. Cat(A[Len(A)], {<<>>}) = A[Len(A)]
    BY <1>2, CatEmpty
  <2>2. B = A
    BY <1>3 DEF FlushedWords
  <2> QED
    BY <1>3, <2>1, <2>2 DEF LastChanged
<1>4. CASE t # <<>>
  <2>1. B = WithLast(A, {t})
    BY <1>4 DEF FlushedWords
  <2>2. {t} \in SUBSET Seq(Letters)
    OBVIOUS
  <2>3. /\ WithLast(A, {t}) \in Seq(SUBSET Seq(Letters)) /\ Len(WithLast(A, {t})) = Len(A)
        /\ WithLast(A, {t})[Len(A)] = Cat(A[Len(A)], {t})
        /\ \A k \in 1..(Len(A) - 1) : WithLast(A, {t})[k] = A[k]
    BY <1>1, <2>2, WithLastIs
  <2> QED
    BY <1>1, <2>1, <2>3, Zenon DEF LastChanged, Listed
<1> QED
  BY <1>3, <1>4

\* What replacing the last alternative leaves.
LEMMA LastReplaced ==
  ASSUME NEW A, Listed(A), NEW U \in SUBSET Seq(Letters)
  PROVE  LastChanged(A, WithLast(A, U), Cat(A[Len(A)], U))
<1>1. A \in Seq(SUBSET Seq(Letters)) /\ Len(A) > 0
  BY Zenon DEF Listed
<1>2. /\ WithLast(A, U) \in Seq(SUBSET Seq(Letters)) /\ Len(WithLast(A, U)) = Len(A)
      /\ WithLast(A, U)[Len(A)] = Cat(A[Len(A)], U)
      /\ \A k \in 1..(Len(A) - 1) : WithLast(A, U)[k] = A[k]
  BY <1>1, WithLastIs
<1> QED
  BY <1>1, <1>2, Zenon DEF LastChanged, Listed

\* The call has gone on to the next place, with the words that it has read there.
GoesOn(c, d) == d.lo = c.lo /\ d.hi = c.hi /\ d.at = c.at + 1

\* One symbol more, and its words.
LEMMA SpellsOn ==
  ASSUME NEW p \in Seq(Letters), NEW c, Placed(p, c), NEW A, Spells(p, c, A),
         c.at <= c.hi, p[c.at] \notin Openings \cup {"|"},
         NEW d, GoesOn(c, d), NEW B, LastChanged(A, B, B[Len(B)]),
         Cat(B[Len(B)], {d.literal}) = Cat(Cat(A[Len(A)], {c.literal}), {<<p[c.at]>>})
  PROVE  Spells(p, d, B)
<1>1. PICK b : Spelling(p, c, A, b)
  BY DEF Spells
<1>2. Level(p, c) /\ Since(p, c, b)
  BY <1>1 DEF Spells, Spelling
<1>3. /\ Depth(p)[c.at] = Depth(p)[c.lo - 1] /\ ~IsBar(p, c.lo, c.at)
      /\ Words(p)[<<b + 1, c.at>>] = Cat(Words(p)[<<b + 1, c.at - 1>>], {<<p[c.at]>>})
  BY <1>2, WordsGrow
<1>4. PICK at : at = c.at
  OBVIOUS
<1>5. at \in Nat /\ d.at = at + 1 /\ d.at - 1 = at /\ d.lo = c.lo /\ d.hi = c.hi /\ c.lo \in Nat
  <2>1. at \in Nat /\ c.lo \in Nat
    BY <1>2, <1>4, PlacesAre
  <2> QED
    BY <1>4, <2>1 DEF GoesOn
<1>6. Level(p, d)
  BY <1>2, <1>3, <1>4, <1>5 DEF Level
<1>7. Since(p, d, b)
  <2>1. b \in (c.lo - 1)..(at - 1) /\ (b >= c.lo => IsBar(p, c.lo, b)) /\ NoBars(p, c.lo, b, at - 1)
    BY <1>2, <1>4 DEF Since
  <2>2. b \in (c.lo - 1)..at /\ b \in Int
    BY <1>5, <2>1
  <2>3. NoBars(p, c.lo, b, at)
    <3> SUFFICES ASSUME NEW i \in (b + 1)..at  PROVE ~(p[i] = "|" /\ Depth(p)[i] = Depth(p)[c.lo - 1])
      BY DEF NoBars
    <3>1. CASE i = at
      BY <1>3, <1>4, <3>1 DEF IsBar
    <3>2. CASE i # at
      <4>1. i \in (b + 1)..(at - 1)
        BY <1>5, <2>2, <3>2
      <4> QED
        BY <2>1, <4>1 DEF NoBars
    <3> QED
      BY <3>1, <3>2
  <2> QED
    BY <1>5, <2>1, <2>2, <2>3 DEF Since
<1>8. Earlier(B) = Earlier(A)
  BY DEF Earlier, LastChanged
<1>9. Cat(B[Len(B)], {d.literal}) = Words(p)[<<b + 1, d.at - 1>>]
  BY <1>1, <1>3, <1>4, <1>5 DEF Spelling
<1>10. Spelling(p, d, B, b)
  BY <1>1, <1>5, <1>7, <1>8, <1>9 DEF Spelling
<1> QED
  BY <1>6, <1>10 DEF Spells

\* TakeLetter, TakeSlot and TakeBar keep what a call spells.
LEMMA SpellsLetter ==
  ASSUME NEW p \in Seq(Letters), NEW c, Placed(p, c), NEW A, Listed(A), Spells(p, c, A),
         c.at <= c.hi, p[c.at] \notin Openings \cup {"|"}, c.literal \in Seq(Letters),
         NEW d, GoesOn(c, d), d.literal = Append(c.literal, p[c.at])
  PROVE  Spells(p, d, A)
<1>1. p[c.at] \in Letters
  <2>1. c.at \in 1..Len(p)
    BY DEF Placed
  <2> QED
    BY <2>1
<1>2. PICK x, t : x = p[c.at] /\ t = c.literal
  OBVIOUS
<1>3. Cat(A[Len(A)], {Append(t, x)}) = Cat(Cat(A[Len(A)], {t}), {<<x>>})
  <2>1. PICK L : L = A[Len(A)]
    OBVIOUS
  <2>2. L \in SUBSET Seq(Letters)
    BY <2>1, ListedFacts
  <2>3. x \in Letters /\ t \in Seq(Letters)
    BY <1>1, <1>2
  <2>4. Cat(L, {Append(t, x)}) = Cat(Cat(L, {t}), {<<x>>})
    BY <2>2, <2>3, CatOne
  <2> QED
    BY <2>1, <2>4
<1>4. LastChanged(A, A, A[Len(A)])
  BY DEF LastChanged
<1> QED
  BY <1>2, <1>3, <1>4, SpellsOn

\* A slot adds its symbol to the last alternative.
LEMMA SpellsSlot ==
  ASSUME NEW p \in Seq(Letters), NEW c, Placed(p, c), NEW A, Listed(A), Spells(p, c, A),
         c.at <= c.hi, p[c.at] = "%", c.literal \in Seq(Letters),
         NEW d, GoesOn(c, d), d.literal = <<>>
  PROVE  Spells(p, d, WithLast(FlushedWords(c.literal, A), {<<"%">>}))
<1>1. PICK t, x, F : t = c.literal /\ x = p[c.at] /\ F = FlushedWords(c.literal, A)
  OBVIOUS
<1>2. x \in Letters /\ x \notin Openings \cup {"|"} /\ t \in Seq(Letters)
  BY <1>1 DEF Letters, Openings
<1>3. PICK B : B = WithLast(F, {<<x>>})
  OBVIOUS
<1>4. LastChanged(A, F, Cat(A[Len(A)], {t}))
  BY <1>1, <1>2, LastFlushed
<1>5. Listed(F) /\ Len(F) = Len(A) /\ F[Len(F)] = Cat(A[Len(A)], {t}) /\ \A k \in 1..(Len(A) - 1) : F[k] = A[k]
  BY <1>4 DEF LastChanged
<1>6. LastChanged(F, B, Cat(F[Len(F)], {<<x>>}))
  <2>1. <<x>> \in Seq(Letters)
    BY <1>2
  <2>2. {<<x>>} \in SUBSET Seq(Letters)
    BY <2>1
  <2> QED
    BY <1>3, <1>5, <2>2, LastReplaced
<1>7. Listed(B) /\ Len(B) = Len(F) /\ B[Len(B)] = Cat(F[Len(F)], {<<x>>}) /\ \A k \in 1..(Len(F) - 1) : B[k] = F[k]
  BY <1>6 DEF LastChanged
<1>8. Cat(B[Len(B)], {<<>>}) = Cat(Cat(A[Len(A)], {t}), {<<x>>})
  <2>1. B[Len(B)] \in SUBSET Seq(Letters)
    BY <1>7, ListedFacts
  <2> QED
    BY <1>5, <1>7, <2>1, CatEmpty
<1>9. LastChanged(A, B, B[Len(B)])
  BY <1>5, <1>7 DEF LastChanged
<1>10. Cat(B[Len(B)], {d.literal}) = Cat(Cat(A[Len(A)], {c.literal}), {<<p[c.at]>>})
  BY <1>1, <1>8
<1>11. Spells(p, d, B)
  BY <1>1, <1>2, <1>9, <1>10, SpellsOn
<1> QED
  BY <1>1, <1>3, <1>11

\* All alternatives are the earlier ones and the last.
LEMMA AllAreLast ==
  ASSUME NEW A, Listed(A)
  PROVE  AllOf(A) = Earlier(A) \cup A[Len(A)]
<1>1. PICK n : n = Len(A)
  OBVIOUS
<1>2. n \in Nat /\ n > 0
  BY <1>1, ListedFacts
<1>3. \A k : k \in 1..n <=> k \in 1..(n - 1) \/ k = n
  BY <1>2
<1>4. UNION {A[k] : k \in 1..n} = (UNION {A[k] : k \in 1..(n - 1)}) \cup A[n]
  BY <1>3
<1> QED
  BY <1>1, <1>4 DEF AllOf, Earlier

\* All that a call has read.
LEMMA AllWords ==
  ASSUME NEW p \in Seq(Letters), NEW c, Placed(p, c), NEW A, Listed(A), Spells(p, c, A),
         c.literal \in Seq(Letters)
  PROVE  AllOf(FlushedWords(c.literal, A)) = Words(p)[<<c.lo, c.at - 1>>]
<1>1. PICK b : Spelling(p, c, A, b)
  BY DEF Spells
<1>2. Level(p, c) /\ Since(p, c, b)
  BY <1>1 DEF Spells, Spelling
<1>3. PICK F : F = FlushedWords(c.literal, A)
  OBVIOUS
<1>4. LastChanged(A, F, Cat(A[Len(A)], {c.literal}))
  BY <1>3, LastFlushed
<1>5. AllOf(F) = Earlier(A) \cup Words(p)[<<b + 1, c.at - 1>>]
  <2>1. Listed(F) /\ Earlier(F) = Earlier(A) /\ F[Len(F)] = Words(p)[<<b + 1, c.at - 1>>]
    BY <1>1, <1>4 DEF LastChanged, Earlier, Spelling
  <2> QED
    BY <2>1, AllAreLast
<1>6. PICK n, lo, hi, at : n = Len(p) /\ lo = c.lo /\ hi = c.hi /\ at = c.at
  OBVIOUS
<1>7. n \in Nat /\ lo \in 1..(n + 1) /\ at \in lo..(hi + 1) /\ hi \in 0..n /\ b \in (lo - 1)..(at - 1)
      /\ at - 1 \in 0..n
  BY <1>2, <1>6, PlacesAre DEF Placed, Since
<1>8. CASE b < lo
  <2>1. b + 1 = lo
    BY <1>7, <1>8
  <2>2. Earlier(A) = {}
    BY <1>1, <1>6, <1>8 DEF Spelling
  <2> QED
    BY <1>3, <1>5, <1>6, <2>1, <2>2
<1>9. CASE ~(b < lo)
  <2>1. b \in lo..(at - 1) /\ b >= lo
    BY <1>7, <1>9
  <2>2. IsBar(p, lo, b) /\ NoBars(p, lo, b, at - 1)
    BY <1>2, <1>6, <2>1 DEF Since
  <2>3. Words(p)[<<lo, at - 1>>] = Words(p)[<<lo, b - 1>>] \cup Words(p)[<<b + 1, at - 1>>]
    BY <1>6, <1>7, <2>1, <2>2, WordsAtBar
  <2>4. Earlier(A) = Words(p)[<<lo, b - 1>>]
    BY <1>1, <1>6, <1>9 DEF Spelling
  <2> QED
    BY <1>3, <1>5, <1>6, <2>3, <2>4
<1> QED
  BY <1>8, <1>9

\* The empty word twice is the empty word.
LEMMA CatOfNone == Cat({<<>>}, {<<>>}) = {<<>>}
<1>1. <<>> \o <<>> = <<>>
  OBVIOUS
<1> QED
  BY <1>1 DEF Cat

\* A single alternative is a list of them.
LEMMA ListedOne ==
  Listed(<<{<<>>}>>) /\ Len(<<{<<>>}>>) = 1 /\ <<{<<>>}>>[1] = {<<>>} /\ Earlier(<<{<<>>}>>) = {}
<1> DEFINE S == SUBSET Seq(Letters)
           v == {<<>>}
<1>1. v \in S
  OBVIOUS
<1> HIDE DEF S, v
<1>2. <<v>> \in Seq(S) /\ Len(<<v>>) = 1 /\ <<v>>[1] = v
  BY <1>1
<1>3. Earlier(<<v>>) = {}
  <2>1. 1..(Len(<<v>>) - 1) = {}
    BY <1>2
  <2> QED
    BY <2>1 DEF Earlier
<1> QED
  BY <1>2, <1>3 DEF Listed, S, v

\* A bar adds one to the list.
LEMMA ListedMore ==
  ASSUME NEW F, Listed(F)
  PROVE  /\ Listed(Append(F, {<<>>})) /\ Append(F, {<<>>})[Len(Append(F, {<<>>}))] = {<<>>}
         /\ Earlier(Append(F, {<<>>})) = AllOf(F)
<1> DEFINE S == SUBSET Seq(Letters)
           v == {<<>>}
<1>1. v \in S
  OBVIOUS
<1>2. F \in Seq(S) /\ Len(F) > 0
  BY Zenon DEF Listed
<1>3. PICK G, n : G = Append(F, v) /\ n = Len(F)
  OBVIOUS
<1> HIDE DEF S, v
<1>4. G \in Seq(S) /\ Len(G) = n + 1 /\ G[n + 1] = v /\ n \in Nat /\ \A k \in 1..n : G[k] = F[k]
  BY <1>1, <1>2, <1>3
<1>5. (n + 1) - 1 = n /\ n + 1 > 0
  BY <1>4
<1>6. Earlier(G) = UNION {G[k] : k \in 1..n}
  BY <1>4, <1>5 DEF Earlier
<1>7. Earlier(G) = AllOf(F)
  BY <1>3, <1>4, <1>6 DEF AllOf
<1>8. Listed(G)
  BY <1>4, <1>5 DEF Listed, S
<1> QED
  BY <1>3, <1>4, <1>7, <1>8 DEF v

\* A bar closes the last alternative and opens an empty one.
LEMMA SpellsBar ==
  ASSUME NEW p \in Seq(Letters), NEW c, Placed(p, c), NEW A, Listed(A), Spells(p, c, A),
         c.at <= c.hi, p[c.at] = "|", c.literal \in Seq(Letters),
         NEW d, GoesOn(c, d), d.literal = <<>>
  PROVE  Spells(p, d, Append(FlushedWords(c.literal, A), {<<>>}))
<1>1. PICK F : F = FlushedWords(c.literal, A)
  OBVIOUS
<1>2. PICK n, lo, hi, at, D : n = Len(p) /\ lo = c.lo /\ hi = c.hi /\ at = c.at /\ D = Depth(p)
  OBVIOUS
<1>3. Level(p, c)
  BY DEF Spells
<1>4. /\ n \in Nat /\ lo \in 1..(n + 1) /\ at \in lo..hi /\ hi \in 0..n
      /\ D \in [0..n -> Int] /\ D[lo - 1] \in Int /\ at \in 1..n /\ D[at - 1] = D[lo - 1]
  BY <1>2, <1>3, PlacesAre, SMTT(30) DEF Placed, Level
<1>5. D[at] = D[lo - 1]
  <2>1. D[at] = D[at - 1] + Weight(p[at])
    BY <1>2, <1>4, DepthIs
  <2>2. Weight(p[at]) = 0
    BY <1>2 DEF Weight, Openings, Closings
  <2> QED
    BY <1>4, <2>1, <2>2
<1>6. d.lo = lo /\ d.hi = hi /\ d.at = at + 1 /\ d.at - 1 = at
  BY <1>2, <1>4 DEF GoesOn
<1>7. Level(p, d)
  BY <1>2, <1>3, <1>5, <1>6 DEF Level
<1>8. Since(p, d, at)
  <2>1. IsBar(p, lo, at)
    BY <1>2, <1>5 DEF IsBar
  <2>2. (at + 1)..at = {} /\ at \in (lo - 1)..at
    BY <1>4
  <2> QED
    BY <1>6, <2>1, <2>2 DEF Since, NoBars
<1>9. PICK B : B = Append(F, {<<>>})
  OBVIOUS
<1>10. Listed(F)
  BY <1>1, LastFlushed DEF LastChanged
<1>11. Listed(B) /\ B[Len(B)] = {<<>>} /\ Earlier(B) = AllOf(F)
  BY <1>9, <1>10, ListedMore
<1>12. Cat(B[Len(B)], {d.literal}) = Words(p)[<<at + 1, d.at - 1>>]
  <2>1. PICK m : m = at + 1
    OBVIOUS
  <2>2. m \in 1..(Len(p) + 1) /\ m - 1 = at
    BY <1>2, <1>4, <2>1, SMTT(30)
  <2>3. Words(p)[<<m, m - 1>>] = {<<>>}
    BY <2>2, WordsOfNone
  <2> QED
    BY <1>6, <1>11, <2>1, <2>2, <2>3, CatOfNone
<1>13. Earlier(B) = Words(p)[<<d.lo, at - 1>>]
  BY <1>1, <1>2, <1>6, <1>11, AllWords
<1>14. ~(at < d.lo)
  BY <1>4, <1>6
<1>15. Spelling(p, d, B, at)
  BY <1>8, <1>12, <1>13, <1>14 DEF Spelling
<1> QED
  BY <1>1, <1>7, <1>9, <1>15 DEF Spells

\* So does the flush of a literal.
LEMMA SpellsFlushed ==
  ASSUME NEW p \in Seq(Letters), NEW c, NEW A, Listed(A), Spells(p, c, A), c.literal \in Seq(Letters),
         NEW d, d.lo = c.lo, d.hi = c.hi, d.at = c.at, d.literal = <<>>
  PROVE  Spells(p, d, FlushedWords(c.literal, A))
<1>1. PICK b : Spelling(p, c, A, b)
  BY DEF Spells
<1>2. PICK F : F = FlushedWords(c.literal, A)
  OBVIOUS
<1>3. LastChanged(A, F, Cat(A[Len(A)], {c.literal}))
  BY <1>2, LastFlushed
<1>4. Listed(F) /\ Earlier(F) = Earlier(A) /\ F[Len(F)] = Cat(A[Len(A)], {c.literal})
  BY <1>3 DEF LastChanged, Earlier
<1>5. Cat(F[Len(F)], {<<>>}) = F[Len(F)]
  <2>1. F[Len(F)] \in SUBSET Seq(Letters)
    BY <1>4, ListedFacts
  <2> QED
    BY <2>1, CatEmpty
<1>6. Level(p, d) /\ Since(p, d, b)
  BY <1>1 DEF Spells, Spelling, Level, Since
<1>7. Spelling(p, d, F, b)
  BY <1>1, <1>4, <1>5, <1>6 DEF Spelling
<1> QED
  BY <1>2, <1>6, <1>7 DEF Spells

\* The call d has the content of the bracket at which the call c stands.
Within(p, c, d) ==
  /\ d.kind \in BracketKinds /\ p[c.at] = Brackets[d.kind][1]
  /\ d.lo = c.at + 1 /\ d.hi + 1 \in c.at..c.hi /\ ClosesAt(p, c.at, d.kind, d.hi + 1)

\* What a call inside a bracket sees.
LEMMA WithinIs ==
  ASSUME NEW p \in Seq(Letters), NEW c, Placed(p, c), Level(p, c), NEW d, Within(p, c, d), NEW m, m = d.hi + 1,
         d.hi \in Nat, NEW D, D = Depth(p)
  PROVE  /\ Len(p) \in Nat /\ c.at \in 1..Len(p) /\ m \in c.at..c.hi /\ m \in 1..Len(p) /\ c.hi \in 0..Len(p)
         /\ D \in [0..Len(p) -> Int] /\ D[c.at] = D[c.at - 1] + 1 /\ m # c.at
         /\ D[m] = D[c.at - 1] /\ D[m - 1] = D[c.at] /\ p[m] = Brackets[d.kind][2]
         /\ \A i \in c.at..(m - 1) : D[c.at] <= D[i]
         /\ D[c.lo - 1] = D[c.at - 1] /\ D[c.at - 1] \in Int
<1>1. PICK n, lo, hi, at : n = Len(p) /\ lo = c.lo /\ hi = c.hi /\ at = c.at
  OBVIOUS
<1>2. /\ n \in Nat /\ lo \in 1..(n + 1) /\ at \in lo..(hi + 1) /\ hi \in 0..n /\ D \in [0..n -> Int]
      /\ m \in at..hi /\ D[lo - 1] = D[at - 1]
  <2>1. m \in at..hi
    BY <1>1 DEF Within
  <2>2. D[lo - 1] = D[at - 1]
    BY <1>1 DEF Level
  <2> QED
    BY <1>1, <2>1, <2>2, PlacesAre DEF Placed
<1>3. at \in 1..n /\ m \in 1..n /\ at - 1 \in 0..n /\ m - 1 \in 0..n /\ at \in 0..n /\ m \in 0..n
  <2>1. lo \in Nat /\ 1 <= lo /\ hi \in Nat /\ hi <= n /\ at \in Int /\ lo <= at /\ at <= m /\ m <= hi
        /\ m \in Int /\ n \in Nat
    BY <1>2
  <2> QED
    BY <2>1
<1>4. /\ p[at] = Brackets[d.kind][1] /\ d.kind \in BracketKinds
      /\ D[m] = D[at - 1] /\ p[m] = Brackets[d.kind][2]
      /\ \A i \in at..(m - 1) : D[i] > D[at - 1]
  BY <1>1 DEF Within, ClosesAt
<1>5. D[at] = D[at - 1] + 1 /\ D[m] = D[m - 1] - 1
  <2>1. p[at] \in Openings /\ p[m] \in Closings /\ p[m] \notin Openings
    BY <1>4, BracketsAre
  <2>2. Weight(p[at]) = 1 /\ Weight(p[m]) = -1
    BY <2>1 DEF Weight
  <2>3. D[at] = D[at - 1] + Weight(p[at]) /\ D[m] = D[m - 1] + Weight(p[m])
    BY <1>1, <1>3, DepthIs, SMTT(30)
  <2>4. D[m - 1] \in Int
    BY <1>2, <1>3
  <2> QED
    BY <2>2, <2>3, <2>4
<1>6. D[at - 1] \in Int /\ D[m - 1] \in Int /\ D[m] \in Int /\ D[at] \in Int
  BY <1>2, <1>3
<1>7. m # at /\ D[m - 1] = D[at]
  BY <1>4, <1>5, <1>6
<1>8. \A i \in at..(m - 1) : D[at] <= D[i]
  <2> TAKE i \in at..(m - 1)
  <2>1. i \in 0..n
    BY <1>2, SMTT(30)
  <2>2. D[i] \in Int /\ D[i] > D[at - 1]
    BY <1>2, <1>4, <2>1
  <2> QED
    BY <1>5, <1>6, <2>2
<1> QED
  BY <1>1, <1>2, <1>3, <1>4, <1>5, <1>6, <1>7, <1>8

\* A new call spells the empty word.
LEMMA SpellsOpen ==
  ASSUME NEW p \in Seq(Letters), NEW c, Placed(p, c), Level(p, c), NEW d, Within(p, c, d), d.hi \in Nat,
         d.at = d.lo, d.literal = <<>>
  PROVE  Spells(p, d, <<{<<>>}>>)
<1>1. PICK m, D, at : m = d.hi + 1 /\ D = Depth(p) /\ at = c.at
  OBVIOUS
<1>2. /\ Len(p) \in Nat /\ at \in 1..Len(p) /\ m \in at..c.hi /\ m \in 1..Len(p)
      /\ D[m - 1] = D[at] /\ m # at
      /\ \A i \in at..(m - 1) : D[at] <= D[i]
  BY <1>1, WithinIs
<1>3. d.lo = at + 1 /\ d.at = at + 1 /\ d.hi = m - 1 /\ d.lo - 1 = at /\ d.at - 1 = at
  BY <1>1, <1>2 DEF Within
<1>4. Level(p, d)
  <2>1. \A i \in (at + 1)..(m - 1) : D[at] <= D[i]
    BY <1>2
  <2> QED
    BY <1>1, <1>2, <1>3, <2>1 DEF Level
<1>5. Since(p, d, at)
  <2>1. at \in at..at /\ ~(at >= at + 1) /\ (at + 1)..at = {}
    BY <1>2
  <2> QED
    BY <1>3, <2>1 DEF Since, NoBars
<1>6. Words(p)[<<at + 1, at>>] = {<<>>}
  <2>1. PICK k : k = at + 1
    OBVIOUS
  <2>2. k \in 1..(Len(p) + 1) /\ k - 1 = at
    BY <1>2, <2>1
  <2>3. Words(p)[<<k, k - 1>>] = {<<>>}
    BY <2>2, WordsOfNone
  <2> QED
    BY <2>1, <2>2, <2>3
<1>7. PICK B : B = <<{<<>>}>>
  OBVIOUS
<1>8. B[Len(B)] = {<<>>} /\ Earlier(B) = {}
  BY <1>7, ListedOne
<1>9. Spelling(p, d, B, at)
  <2>1. Cat(B[Len(B)], {d.literal}) = Words(p)[<<at + 1, d.at - 1>>]
    BY <1>3, <1>6, <1>8, CatOfNone
  <2>2. at < d.lo
    BY <1>2, <1>3
  <2> QED
    BY <1>5, <1>8, <2>1, <2>2 DEF Spelling
<1> QED
  BY <1>4, <1>7, <1>9 DEF Spells

\* The words of a bracket.
LEMMA WordsOfBracket ==
  ASSUME NEW p \in Seq(Letters), NEW c, Placed(p, c), Level(p, c), NEW b, Since(p, c, b),
         NEW d, Within(p, c, d), d.hi \in Nat
  PROVE  /\ Words(p)[<<b + 1, d.hi + 1>>]
              = Cat(Words(p)[<<b + 1, c.at - 1>>], Around(d.kind, Words(p)[<<d.lo, d.hi>>]))
         /\ NoBars(p, c.lo, b, d.hi + 1)
<1>1. PICK n, lo, hi, at, m, D : n = Len(p) /\ lo = c.lo /\ hi = c.hi /\ at = c.at /\ m = d.hi + 1 /\ D = Depth(p)
  OBVIOUS
<1>2. /\ n \in Nat /\ lo \in 1..(n + 1) /\ at \in lo..(hi + 1) /\ hi \in 0..n /\ b \in (lo - 1)..(at - 1)
      /\ D[lo - 1] = D[at - 1]
  BY <1>1, PlacesAre DEF Placed, Since, Level
<1>3. /\ at \in 1..n /\ m \in at..hi /\ m \in 1..n /\ hi \in 0..n
      /\ D \in [0..n -> Int] /\ D[at] = D[at - 1] + 1 /\ m # at
      /\ D[m] = D[at - 1] /\ D[m - 1] = D[at] /\ p[m] = Brackets[d.kind][2]
      /\ \A i \in at..(m - 1) : D[at] <= D[i]
      /\ D[at - 1] \in Int
  BY <1>1, WithinIs, SMTT(30)
<1>4. d.lo = at + 1 /\ d.hi = m - 1 /\ p[at] = Brackets[d.kind][1] /\ d.kind \in BracketKinds
  BY <1>1, <1>3 DEF Within
<1>5. \A i \in at..(m - 1) : D[i] # D[at - 1]
  <2> TAKE i \in at..(m - 1)
  <2>1. i \in 0..n
    BY <1>2, <1>3
  <2>2. D[i] \in Int /\ D[at] <= D[i]
    BY <1>3, <2>1
  <2> QED
    BY <1>3, <2>2
<1>6. D[b] = D[lo - 1]
  <2>1. CASE b < lo
    <3>1. b = lo - 1
      BY <1>2, <2>1
    <3> QED
      BY <3>1
  <2>2. CASE b >= lo
    BY <1>1, <2>2 DEF Since, IsBar
  <2> QED
    BY <1>2, <2>1, <2>2
<1>7. \A i \in (b + 1)..m : ~(p[i] = "|" /\ D[i] = D[lo - 1])
  <2> TAKE i \in (b + 1)..m
  <2>1. CASE i < at
    <3>1. i \in (b + 1)..(at - 1)
      BY <1>2, <2>1
    <3> QED
      BY <1>1, <3>1 DEF Since, NoBars
  <2>2. CASE i \in at..(m - 1)
    BY <1>2, <1>5, <2>2
  <2>3. CASE i = m
    <3>1. p[m] \in Closings
      BY <1>3, <1>4, BracketsAre
    <3> QED
      BY <2>3, <3>1 DEF Closings
  <2> QED
    BY <1>2, <1>3, <2>1, <2>2, <2>3
<1>8. NoBars(p, lo, b, m)
  BY <1>1, <1>7 DEF NoBars
<1>9. Words(p)[<<b + 1, m>>] = Cat(Words(p)[<<b + 1, at - 1>>], Tails(p, Words(p), at, m))
  <2>1. PICK k : k = b + 1
    OBVIOUS
  <2>2. k \in 1..(Len(p) + 1) /\ m \in 0..Len(p) /\ at \in k..m /\ k - 1 = b
    <3>1. /\ n \in Nat /\ lo \in Nat /\ 1 <= lo /\ at \in Nat /\ at <= n /\ b \in Int /\ lo - 1 <= b /\ b <= at - 1
          /\ m \in Nat /\ at <= m /\ m <= n
      BY <1>2, <1>3
    <3>2. k \in 1..(n + 1) /\ m \in 0..n /\ at \in k..m /\ k - 1 = b
      BY <2>1, <3>1
    <3> QED
      BY <1>1, <3>2
  <2>3. NoBars(p, k, k - 1, m)
    BY <1>1, <1>6, <1>7, <2>2 DEF NoBars
  <2>4. \A i \in (at + 1)..m : Depth(p)[i - 1] # Depth(p)[m]
    <3> TAKE i \in (at + 1)..m
    <3>1. i - 1 \in at..(m - 1)
      BY <1>3
    <3> QED
      BY <1>1, <1>3, <1>5, <3>1
  <2>5. Depth(p)[at - 1] = Depth(p)[m]
    BY <1>1, <1>3
  <2>6. Words(p)[<<k, m>>] = Cat(Words(p)[<<k, at - 1>>], Tails(p, Words(p), at, m))
    BY <2>2, <2>3, <2>4, <2>5, WordsAtUnit
  <2> QED
    BY <2>1, <2>6
<1>10. Tails(p, Words(p), at, m) = Around(d.kind, Words(p)[<<at + 1, m - 1>>])
  <2>1. CASE d.kind = "optional"
    <3>1. p[m] = "]"
      BY <1>3, <2>1, BracketsAre
    <3> QED
      BY <2>1, <3>1 DEF Tails, Around
  <2>2. CASE d.kind = "group"
    <3>1. p[m] = ")"
      BY <1>3, <2>2, BracketsAre
    <3> QED
      BY <2>2, <3>1 DEF Tails, Around
  <2> QED
    BY <1>4, <2>1, <2>2 DEF BracketKinds
<1> QED
  BY <1>1, <1>4, <1>8, <1>9, <1>10

\* Where such a bracket is closed.
IsClosedAt(p, c, m) ==
  /\ Len(p) \in Nat /\ c.at \in 1..Len(p) /\ m \in c.at..c.hi /\ m \in 1..Len(p)
  /\ m # c.at /\ Depth(p)[m] = Depth(p)[c.at - 1] /\ Depth(p)[c.lo - 1] = Depth(p)[c.at - 1]

\* Its bracket is closed behind it.
LEMMA WithinEnds ==
  ASSUME NEW p \in Seq(Letters), NEW c, Placed(p, c), Level(p, c), NEW d, Within(p, c, d), d.hi \in Nat
  PROVE  IsClosedAt(p, c, d.hi + 1)
<1>1. PICK m, D : m = d.hi + 1 /\ D = Depth(p)
  OBVIOUS
<1>2. /\ Len(p) \in Nat /\ c.at \in 1..Len(p) /\ m \in c.at..c.hi /\ m \in 1..Len(p)
      /\ m # c.at /\ D[m] = D[c.at - 1] /\ D[c.lo - 1] = D[c.at - 1]
  BY <1>1, WithinIs, SMTT(30)
<1> QED
  BY <1>1, <1>2 DEF IsClosedAt

\* The caller spells the bracket, too.
LEMMA SpellsReturn ==
  ASSUME NEW p \in Seq(Letters), NEW c, Placed(p, c), NEW A, Listed(A), Spells(p, c, A), c.literal = <<>>,
         NEW d, Within(p, c, d), d.hi \in Nat, NEW L, L = Words(p)[<<d.lo, d.hi>>], d.lo \in 1..(Len(p) + 1), d.hi <= Len(p),
         NEW e, e.lo = c.lo, e.hi = c.hi, e.at = d.hi + 2, e.literal = <<>>
  PROVE  Spells(p, e, WithLast(A, Around(d.kind, L)))
<1>1. PICK b : Spelling(p, c, A, b)
  BY DEF Spells
<1>2. Level(p, c) /\ Since(p, c, b)
  BY <1>1 DEF Spells, Spelling
<1>3. PICK m, at, D : m = d.hi + 1 /\ at = c.at /\ D = Depth(p)
  OBVIOUS
<1>4. /\ Words(p)[<<b + 1, m>>] = Cat(Words(p)[<<b + 1, at - 1>>], Around(d.kind, L))
      /\ NoBars(p, c.lo, b, m)
  BY <1>2, <1>3, WordsOfBracket
<1>5. /\ m \in at..c.hi /\ m \in 1..Len(p) /\ D[m] = D[at - 1] /\ D[c.lo - 1] = D[at - 1] /\ m # at
      /\ at \in 1..Len(p) /\ Len(p) \in Nat
  <2>1. Level(p, c)
    BY <1>2
  <2>2. /\ Len(p) \in Nat /\ c.at \in 1..Len(p) /\ m \in c.at..c.hi /\ m \in 1..Len(p)
        /\ m # c.at /\ D[m] = D[c.at - 1] /\ D[c.lo - 1] = D[c.at - 1]
    <3>1. IsClosedAt(p, c, d.hi + 1)
      BY <2>1, WithinEnds
    <3> QED
      BY <1>3, <3>1 DEF IsClosedAt
  <2> QED
    BY <1>3, <2>2
<1>6. e.at - 1 = m
  <2>1. PICK k : k = d.hi
    OBVIOUS
  <2>2. k \in Nat /\ e.at = k + 2 /\ m = k + 1
    BY <1>3, <2>1
  <2> QED
    BY <2>2
<1>7. PICK U, B : U = Around(d.kind, L) /\ B = WithLast(A, U)
  OBVIOUS
<1>8. U \in SUBSET Seq(Letters)
  <2>1. L \in SUBSET Seq(Letters)
    <3>1. d.hi \in 0..Len(p)
      BY <1>5
    <3> QED
      BY <3>1, WordsAre
  <2>2. <<>> \in Seq(Letters)
    OBVIOUS
  <2> QED
    BY <1>7, <2>1, <2>2 DEF Around
<1>9. LastChanged(A, B, Cat(A[Len(A)], U))
  BY <1>7, <1>8, LastReplaced
<1>10. Listed(B) /\ B[Len(B)] = Cat(A[Len(A)], U) /\ Earlier(B) = Earlier(A)
  BY <1>9 DEF LastChanged, Earlier
<1>11. Cat(B[Len(B)], {<<>>}) = Cat(A[Len(A)], U)
  <2>1. B[Len(B)] \in SUBSET Seq(Letters)
    BY <1>10, ListedFacts
  <2> QED
    BY <1>10, <2>1, CatEmpty
<1>12. A[Len(A)] = Words(p)[<<b + 1, at - 1>>]
  <2>1. Cat(A[Len(A)], {<<>>}) = A[Len(A)]
    <3>1. A[Len(A)] \in SUBSET Seq(Letters)
      BY ListedFacts
    <3> QED
      BY <3>1, CatEmpty
  <2> QED
    BY <1>1, <1>3, <2>1 DEF Spelling
<1>13. Level(p, e)
  BY <1>2, <1>3, <1>5, <1>6 DEF Level
<1>14. Since(p, e, b)
  <2>1. b \in (c.lo - 1)..(at - 1) /\ (b >= c.lo => IsBar(p, c.lo, b))
    BY <1>2, <1>3 DEF Since
  <2>2. b \in (c.lo - 1)..m
    <3>1. c.lo - 1 \in Int
      BY <1>2, PlacesAre
    <3> QED
      BY <1>5, <2>1, <3>1
  <2> QED
    BY <1>4, <1>6, <2>1, <2>2 DEF Since
<1>15. Spelling(p, e, B, b)
  <2>1. Cat(B[Len(B)], {e.literal}) = Words(p)[<<b + 1, e.at - 1>>]
    BY <1>4, <1>6, <1>7, <1>11, <1>12
  <2> QED
    BY <1>1, <1>10, <1>14, <2>1 DEF Spelling
<1> QED
  BY <1>7, <1>13, <1>15 DEF Spells

-----------------------------------------------------------------------------
(* The calls spell what they have read.                                    *)
Spelled(p, cs, langs) ==
  /\ \A k \in DOMAIN cs : Spells(p, cs[k], langs[k])
  /\ \A k \in DOMAIN cs : k > 1 => Within(p, cs[k - 1], cs[k])
  /\ \A k \in DOMAIN cs : k = 1 => cs[k].lo = 1 /\ cs[k].hi = Len(p)

\* The words of the alternatives are listed.
LEMMA AlternativesListed ==
  ASSUME NEW h, NEW pos, NEW top, Sound(h, pos, top), NEW g, NEW z, NEW f, NEW A, NEW a, NEW b,
         Alternatives(h, pos, g, z, f, A, a, b)
  PROVE  Listed(A)
<1>1. A \in Seq(SUBSET Seq(Letters))
  BY DEF Alternatives
<1>2. Len(A) \in Nat
  BY <1>1
<1>3. CASE f = Nil /\ Len(A) = 1 /\ A[1] = {<<>>}
  BY <1>1, <1>3 DEF Listed
<1>4. CASE Single(h, pos, g, z, f, A, a, b)
  BY <1>1, <1>4 DEF Listed, Single
<1>5. CASE Several(h, pos, g, z, f, A, a, b)
  <2>1. f \in DOMAIN h /\ h[f].kind = "choice" /\ Len(A) = Len(h[f].kids)
    BY <1>5 DEF Several
  <2>2. h[f].kids # <<>> /\ h[f].kids \in Seq(Nat \ {0})
    BY <2>1, SoundFacts
  <2> QED
    BY <1>1, <1>2, <2>1, <2>2 DEF Listed
<1> QED
  BY <1>3, <1>4, <1>5 DEF Alternatives

\* Every call has its places in the pattern.
LEMMA CallsPlaced ==
  ASSUME NEW p, Len(p) \in Nat, NEW cs, Framed(p, cs), NEW k \in DOMAIN cs
  PROVE  Placed(p, cs[k])
<1>1. PICK c : c = cs[k]
  OBVIOUS
<1>2. PICK lo, hi, at, n : lo = c.lo /\ hi = c.hi /\ at = c.at /\ n = Len(p)
  OBVIOUS
<1>3. lo \in Nat /\ hi \in Nat /\ at \in Nat /\ n \in Nat
  BY <1>1, <1>2, FramedFacts
<1>4. 1 <= lo /\ lo <= at /\ at <= hi + 1 /\ hi <= n
  BY <1>1, <1>2 DEF Framed
<1>5. lo \in 1..(n + 1) /\ at \in lo..(hi + 1) /\ hi \in 0..n
  BY <1>3, <1>4
<1> QED
  BY <1>1, <1>2, <1>5 DEF Placed

\* What the top call spells.
LEMMA TopSpells ==
  ASSUME Setting, calls # <<>>, NEW pos, NEW g, NEW langs, Built(heap, pos, Room, g, calls, langs),
         Spelled(pattern, calls, langs)
  PROVE  /\ pattern \in Seq(Letters) /\ Placed(pattern, Top) /\ Top.literal \in Seq(Letters)
         /\ Listed(langs[Len(calls)]) /\ Spells(pattern, Top, langs[Len(calls)])
<1>1. PICK K : K = Len(calls)
  OBVIOUS
<1>2. K \in DOMAIN calls /\ Top = calls[K] /\ Top.literal \in Seq(Letters)
  BY <1>1, TopIs
<1>3. pattern \in Seq(Letters) /\ Len(pattern) \in Nat
  BY PatternIs DEF Setting
<1>4. Placed(pattern, Top)
  BY <1>2, <1>3, CallsPlaced DEF Setting
<1>5. Listed(langs[K])
  <2>1. Alternatives(heap, pos, g, -K, calls[K].first, langs[K], Base(calls[K]), Bound(calls[K]))
    BY <1>2 DEF Built, Standing
  <2> QED
    BY <2>1, AlternativesListed DEF Built, Standing
<1>6. Spells(pattern, Top, langs[K])
  BY <1>2 DEF Spelled
<1> QED
  BY <1>1, <1>2, <1>3, <1>4, <1>5, <1>6

\* The top call spells more, a new one is called, the top one returns.
LEMMA SpelledTop ==
  ASSUME NEW p, NEW cs \in Seq(CallRecords), cs # <<>>, NEW langs, Spelled(p, cs, langs),
         NEW c \in CallRecords, c.lo = Last(cs).lo, c.hi = Last(cs).hi, c.kind = Last(cs).kind,
         NEW B, Spells(p, c, B)
  PROVE  Spelled(p, Replaced(cs, c), WordsReplaced(cs, langs, B))
<1>1. PICK K, ds, t : K = Len(cs) /\ ds = Replaced(cs, c) /\ t = Last(cs)
  OBVIOUS
<1>2. /\ DOMAIN ds = DOMAIN cs /\ DOMAIN cs = 1..K /\ K \in Nat /\ K > 0 /\ ds[K] = c
      /\ \A k \in DOMAIN cs : k # K => ds[k] = cs[k]
  BY <1>1, ReplacedIs
<1>3. t = cs[K]
  BY <1>1 DEF Last
<1>4. PICK m : m = WordsReplaced(cs, langs, B)
  OBVIOUS
<1>5. \A k \in DOMAIN cs : m[k] = IF k = K THEN B ELSE langs[k]
  BY <1>1, <1>4 DEF WordsReplaced
<1>6. ASSUME NEW k \in DOMAIN ds
      PROVE  Spells(p, ds[k], m[k])
  <2>1. CASE k = K
    BY <1>2, <1>5, <2>1
  <2>2. CASE k # K
    <3>1. ds[k] = cs[k] /\ m[k] = langs[k] /\ k \in DOMAIN cs
      BY <1>2, <1>5, <2>2
    <3> QED
      BY <3>1 DEF Spelled
  <2> QED
    BY <2>1, <2>2
<1>7. ASSUME NEW k \in DOMAIN ds, k > 1
      PROVE  Within(p, ds[k - 1], ds[k])
  <2>1. k \in DOMAIN cs /\ k - 1 \in DOMAIN cs /\ k - 1 # K /\ ds[k - 1] = cs[k - 1]
    BY <1>2, <1>7
  <2>2. Within(p, cs[k - 1], cs[k])
    BY <1>7, <2>1 DEF Spelled
  <2>3. CASE k = K
    BY <1>1, <1>2, <1>3, <2>1, <2>2, <2>3 DEF Within
  <2>4. CASE k # K
    BY <1>2, <2>1, <2>2, <2>4
  <2> QED
    BY <2>3, <2>4
<1>8. ASSUME NEW k \in DOMAIN ds, k = 1
      PROVE  ds[k].lo = 1 /\ ds[k].hi = Len(p)
  <2>1. k \in DOMAIN cs /\ cs[k].lo = 1 /\ cs[k].hi = Len(p)
    BY <1>2, <1>8 DEF Spelled
  <2>2. CASE k = K
    BY <1>1, <1>2, <1>3, <2>1, <2>2
  <2>3. CASE k # K
    BY <1>2, <2>1, <2>3
  <2> QED
    BY <2>2, <2>3
<1>9. Spelled(p, ds, m)
  BY <1>6, <1>7, <1>8 DEF Spelled
<1> QED
  BY <1>1, <1>4, <1>9

\* A new call has spelled nothing.
LEMMA SpelledPush ==
  ASSUME NEW p, NEW cs \in Seq(CallRecords), cs # <<>>, NEW langs, Spelled(p, cs, langs),
         NEW c \in CallRecords, Within(p, Last(cs), c), Spells(p, c, <<{<<>>}>>)
  PROVE  Spelled(p, Append(cs, c), WordsPushed(cs, langs))
<1>1. PICK K, ds, t : K = Len(cs) /\ ds = Append(cs, c) /\ t = Last(cs)
  OBVIOUS
<1>2. /\ K \in Nat /\ DOMAIN ds = 1..(K + 1) /\ DOMAIN cs = 1..K /\ ds[K + 1] = c
      /\ \A k \in 1..K : ds[k] = cs[k]
  BY <1>1, PushIs
<1>3. t = cs[K] /\ K > 0
  BY <1>1, EmptySeq DEF Last
<1>4. PICK m, F : m = WordsPushed(cs, langs) /\ F = <<{<<>>}>>
  OBVIOUS
<1>5. \A k \in 1..(K + 1) : m[k] = IF k = K + 1 THEN F ELSE langs[k]
  BY <1>1, <1>4 DEF WordsPushed
<1>6. ASSUME NEW k \in DOMAIN ds
      PROVE  Spells(p, ds[k], m[k])
  <2>1. CASE k = K + 1
    BY <1>2, <1>4, <1>5, <2>1
  <2>2. CASE k # K + 1
    <3>1. k \in 1..K
      BY <1>2, <2>2
    <3>2. ds[k] = cs[k] /\ m[k] = langs[k] /\ k \in DOMAIN cs
      BY <1>2, <1>5, <2>2, <3>1
    <3> QED
      BY <3>2 DEF Spelled
  <2> QED
    BY <2>1, <2>2
<1>7. ASSUME NEW k \in DOMAIN ds, k > 1
      PROVE  Within(p, ds[k - 1], ds[k])
  <2>1. CASE k = K + 1
    <3>1. k - 1 = K /\ K \in 1..K
      BY <1>2, <1>3, <2>1
    <3> QED
      BY <1>1, <1>2, <1>3, <2>1, <3>1
  <2>2. CASE k # K + 1
    <3>1. k \in 1..K /\ k - 1 \in 1..K
      BY <1>2, <1>7, <2>2
    <3> QED
      BY <1>2, <1>7, <3>1 DEF Spelled
  <2> QED
    BY <2>1, <2>2
<1>8. ASSUME NEW k \in DOMAIN ds, k = 1
      PROVE  ds[k].lo = 1 /\ ds[k].hi = Len(p)
  <2>1. k \in 1..K
    BY <1>2, <1>3, <1>8
  <2> QED
    BY <1>2, <1>8, <2>1 DEF Spelled
<1>9. Spelled(p, ds, m)
  BY <1>6, <1>7, <1>8 DEF Spelled
<1> QED
  BY <1>1, <1>4, <1>9

\* Without the top call the others spell what they did.
LEMMA SpelledFront ==
  ASSUME NEW p, NEW cs \in Seq(CallRecords), NEW langs, Spelled(p, cs, langs), NEW N \in Nat, Len(cs) = N + 1
  PROVE  Spelled(p, Front(cs), langs)
<1>1. PICK ds : ds = Front(cs)
  OBVIOUS
<1>2. DOMAIN ds = 1..N /\ DOMAIN cs = 1..(N + 1) /\ \A k \in 1..N : ds[k] = cs[k]
  BY <1>1, FrontIs
<1>3. \A k \in 1..N : k \in DOMAIN cs /\ (k > 1 => k - 1 \in 1..N)
  BY <1>2
<1>4. \A k \in DOMAIN ds : Spells(p, ds[k], langs[k])
  BY <1>2, <1>3 DEF Spelled
<1>5. \A k \in DOMAIN ds : k > 1 => Within(p, ds[k - 1], ds[k])
  BY <1>2, <1>3 DEF Spelled
<1>6. \A k \in DOMAIN ds : k = 1 => ds[k].lo = 1 /\ ds[k].hi = Len(p)
  BY <1>2, <1>3 DEF Spelled
<1> QED
  BY <1>1, <1>4, <1>5, <1>6 DEF Spelled

\* An element of the stack with another top.
LEMMA ReplacedElement ==
  ASSUME NEW cs \in Seq(CallRecords), cs # <<>>, NEW c, Replaced(cs, c) \in Seq(CallRecords)
  PROVE  c \in CallRecords
<1>1. PICK n, fs : n = Len(cs) - 1 /\ fs = Front(cs)
  OBVIOUS
<1>0. PICK S : S = CallRecords \cup {c}
  OBVIOUS
<1>2. n \in Nat /\ Len(cs) = n + 1
  <2>1. Len(cs) \in Nat /\ Len(cs) # 0
    OBVIOUS
  <2> QED
    BY <1>1, <2>1
<1>3. fs \in Seq(CallRecords) /\ Len(fs) = n
  <2>1. fs = Front(cs)
    BY <1>1
  <2> QED
    BY <1>2, <2>1, FrontIs
<1>4. fs \in Seq(S) /\ c \in S
  <2>1. CallRecords \subseteq S /\ c \in S
    BY <1>0
  <2>2. fs \in [1..n -> CallRecords]
    BY <1>3
  <2>3. fs \in [1..n -> S]
    BY <2>1, <2>2
  <2> QED
    BY <1>2, <2>1, <2>3
<1>5. PICK ds : ds = Append(fs, c)
  OBVIOUS
<1>6. Len(ds) = n + 1 /\ ds[n + 1] = c
  BY <1>2, <1>3, <1>4, <1>5
<1>7. ds \in Seq(CallRecords)
  BY <1>1, <1>5 DEF Replaced
<1>8. ds[n + 1] \in CallRecords
  <2>1. n + 1 \in 1..Len(ds)
    BY <1>2, <1>6
  <2> QED
    BY <1>7, <2>1
<1> QED
  BY <1>6, <1>8

\* The top call in another state.
LEMMA TopSpelled ==
  ASSUME Setting, calls # <<>>, NEW langs, Spelled(pattern, calls, langs),
         NEW c, Framed(pattern, Replaced(calls, c)),
         c.lo = Top.lo, c.hi = Top.hi, c.kind = Top.kind, NEW B, Spells(pattern, c, B)
  PROVE  Spelled(pattern, Replaced(calls, c), WordsReplaced(calls, langs, B))
<1>1. calls \in Seq(CallRecords)
  BY DEF Setting, Framed
<1>2. c \in CallRecords
  <2>1. Replaced(calls, c) \in Seq(CallRecords)
    BY DEF Framed
  <2> QED
    BY <1>1, <2>1, ReplacedElement
<1>3. Top = Last(calls)
  BY DEF Top
<1> QED
  BY <1>1, <1>2, <1>3, SpelledTop

\* Every step keeps that the calls spell what they have read.
LEMMA SlotSpells ==
  ASSUME Setting, NEW pos, NEW g, NEW langs, Built(heap, pos, Room, g, calls, langs), TakeSlot,
         Spelled(pattern, calls, langs), Framed(pattern, calls')
  PROVE  Spelled(pattern, calls', WordsReplaced(calls, langs, SlotWords(langs)))
<1>1. PICK t, r, A : /\ t = Top /\ A = langs[Len(calls)]
                     /\ r = Add(Flushed.heap, Flushed.first, Element("type", <<>>, <<>>))
  OBVIOUS
<1>2. calls # <<>> /\ t.at <= t.hi /\ pattern[t.at] = "%" /\ calls' = Replaced(calls, Advanced(r, t.at + 1))
  BY <1>1 DEF TakeSlot, Reading, Symbol, Goes, Replaced
<1>3. /\ pattern \in Seq(Letters) /\ Placed(pattern, t) /\ t.literal \in Seq(Letters)
      /\ Listed(A) /\ Spells(pattern, t, A)
  BY <1>1, <1>2, TopSpells
<1>4. PICK c : c = Advanced(r, t.at + 1)
  OBVIOUS
<1>5. c.lo = t.lo /\ c.hi = t.hi /\ c.kind = t.kind /\ c.at = t.at + 1 /\ c.literal = <<>>
  <2>1. t \in CallRecords
    BY <1>1, <1>2, TopIs
  <2> QED
    BY <1>1, <1>4, <2>1 DEF Advanced, CallRecords
<1>6. Spells(pattern, c, WithLast(FlushedWords(t.literal, A), {<<"%">>}))
  <2>1. GoesOn(t, c)
    BY <1>5 DEF GoesOn
  <2> QED
    BY <1>2, <1>3, <1>5, <2>1, SpellsSlot
<1>7. Spells(pattern, c, SlotWords(langs))
  BY <1>1, <1>6 DEF SlotWords, LiteralWords
<1> QED
  BY <1>1, <1>2, <1>4, <1>5, <1>7, TopSpelled

\* The step at a bar.
LEMMA BarSpells ==
  ASSUME Setting, NEW pos, NEW g, NEW langs, Built(heap, pos, Room, g, calls, langs), TakeBar,
         Spelled(pattern, calls, langs), Framed(pattern, calls')
  PROVE  Spelled(pattern, calls', WordsReplaced(calls, langs, BarWords(langs)))
<1>1. PICK t, r, A : t = Top /\ A = langs[Len(calls)] /\ r = Bar(Flushed.heap, Flushed.first)
  OBVIOUS
<1>2. calls # <<>> /\ t.at <= t.hi /\ pattern[t.at] = "|" /\ calls' = Replaced(calls, Advanced(r, t.at + 1))
  BY <1>1 DEF TakeBar, Reading, Symbol, Goes, Replaced
<1>3. /\ pattern \in Seq(Letters) /\ Placed(pattern, t) /\ t.literal \in Seq(Letters)
      /\ Listed(A) /\ Spells(pattern, t, A)
  BY <1>1, <1>2, TopSpells
<1>4. PICK c : c = Advanced(r, t.at + 1)
  OBVIOUS
<1>5. c.lo = t.lo /\ c.hi = t.hi /\ c.kind = t.kind /\ c.at = t.at + 1 /\ c.literal = <<>>
  <2>1. t \in CallRecords
    BY <1>1, <1>2, TopIs
  <2> QED
    BY <1>1, <1>4, <2>1 DEF Advanced, CallRecords
<1>6. Spells(pattern, c, Append(FlushedWords(t.literal, A), {<<>>}))
  <2>1. GoesOn(t, c)
    BY <1>5 DEF GoesOn
  <2> QED
    BY <1>2, <1>3, <1>5, <2>1, SpellsBar
<1>7. Spells(pattern, c, BarWords(langs))
  BY <1>1, <1>6 DEF BarWords, LiteralWords
<1> QED
  BY <1>1, <1>2, <1>4, <1>5, <1>7, TopSpelled

\* The step at a letter.
LEMMA LetterSpells ==
  ASSUME Setting, NEW pos, NEW g, NEW langs, Built(heap, pos, Room, g, calls, langs), TakeLetter,
         Spelled(pattern, calls, langs), Framed(pattern, calls')
  PROVE  Spelled(pattern, calls', langs)
<1>1. PICK t, A, K : t = Top /\ A = langs[Len(calls)] /\ K = Len(calls)
  OBVIOUS
<1>2. PICK c : c = [t EXCEPT !.at = t.at + 1, !.literal = Append(t.literal, pattern[t.at])]
  OBVIOUS
<1>3. /\ calls # <<>> /\ t.at <= t.hi /\ pattern[t.at] \notin Openings \cup {"|", "%"}
      /\ calls' = Replaced(calls, c)
  BY <1>1, <1>2 DEF TakeLetter, Reading, Symbol, Replaced
<1>4. /\ pattern \in Seq(Letters) /\ Placed(pattern, t) /\ t.literal \in Seq(Letters)
      /\ Listed(A) /\ Spells(pattern, t, A)
  BY <1>1, <1>3, TopSpells
<1>5. /\ c.lo = t.lo /\ c.hi = t.hi /\ c.kind = t.kind /\ c.at = t.at + 1
      /\ c.literal = Append(t.literal, pattern[t.at])
  <2>1. t \in CallRecords
    BY <1>1, <1>3, TopIs
  <2> QED
    BY <1>2, <2>1 DEF CallRecords
<1>6. Spells(pattern, c, A)
  <2>1. GoesOn(t, c) /\ pattern[t.at] \notin Openings \cup {"|"}
    BY <1>3, <1>5 DEF GoesOn
  <2> QED
    BY <1>3, <1>4, <1>5, <2>1, SpellsLetter
<1>7. Spelled(pattern, calls', WordsReplaced(calls, langs, A))
  BY <1>1, <1>3, <1>5, <1>6, TopSpelled
<1>8. PICK m : m = WordsReplaced(calls, langs, A)
  OBVIOUS
<1>9. DOMAIN calls' = DOMAIN calls
  <2>1. calls \in Seq(CallRecords) /\ calls' \in Seq(CallRecords)
    BY DEF Setting, Framed
  <2>2. c \in CallRecords
    BY <1>3, <2>1, ReplacedElement
  <2> QED
    BY <1>3, <2>1, <2>2, ReplacedIs
<1>10. \A k \in DOMAIN calls' : m[k] = langs[k]
  BY <1>1, <1>8, <1>9 DEF WordsReplaced
<1>11. Spelled(pattern, calls', m)
  BY <1>7, <1>8
<1> QED
  BY <1>10, <1>11 DEF Spelled

\* A stack of two calls or more.
LEMMA TwoElements ==
  ASSUME NEW R, NEW s \in Seq(R), NEW x, NEW y, s \o <<x, y>> \in Seq(R)
  PROVE  x \in R /\ y \in R
<1>1. PICK n, S, q : n = Len(s) /\ S = R \cup {x, y} /\ q = s \o <<x, y>>
  OBVIOUS
<1>2. n \in Nat /\ x \in S /\ y \in S /\ s \in Seq(S)
  <2>1. R \subseteq S
    BY <1>1
  <2>2. s \in [1..n -> R]
    BY <1>1
  <2>3. s \in [1..n -> S]
    BY <2>1, <2>2
  <2>4. n \in Nat
    BY <1>1
  <2> QED
    BY <1>1, <2>3, <2>4
<1>3. q = Append(Append(s, x), y)
  BY <1>1, <1>2, TwoBehind
<1>4. Len(q) = n + 2 /\ q[n + 1] = x /\ q[n + 2] = y
  <2>1. PICK r : r = Append(s, x)
    OBVIOUS
  <2>2. r \in Seq(S) /\ Len(r) = n + 1 /\ r[n + 1] = x
    BY <1>1, <1>2, <2>1
  <2>3. q = Append(r, y)
    BY <1>3, <2>1
  <2> QED
    BY <1>2, <2>2, <2>3
<1>5. q \in Seq(R)
  BY <1>1
<1>6. n + 1 \in 1..Len(q) /\ n + 2 \in 1..Len(q)
  BY <1>2, <1>4
<1>7. q[n + 1] \in R /\ q[n + 2] \in R
  BY <1>5, <1>6
<1> QED
  BY <1>4, <1>7

\* The content of the bracket at the call's place.
LEMMA BracketWithin ==
  ASSUME NEW p \in Seq(Letters), WellNested(p), NEW c, Placed(p, c), Level(p, c), c.at <= c.hi,
         NEW kind \in BracketKinds, p[c.at] = Brackets[kind][1],
         NEW e, e = NextBracket(p, kind, c.at + 1, c.hi),
         NEW d, d = Call(kind, c.at + 1, e - 1)
  PROVE  Within(p, c, d) /\ d.hi \in Nat /\ d.at = d.lo /\ d.literal = <<>>
<1>1. PICK n, lo, hi, at : n = Len(p) /\ lo = c.lo /\ hi = c.hi /\ at = c.at
  OBVIOUS
<1>2. n \in Nat /\ lo \in 1..(n + 1) /\ at \in lo..(hi + 1) /\ hi \in 0..n
  BY <1>1, PlacesAre DEF Placed
<1>3. at \in 1..n /\ hi \in at..n
  BY <1>1, <1>2
<1>4. Depth(p)[hi] = Depth(p)[at - 1]
  BY <1>1 DEF Level
<1>5. e = NextBracket(p, kind, at + 1, hi)
  BY <1>1
<1>6. e \in (at + 1)..hi /\ ClosesAt(p, at, kind, e)
  <2>1. p[at] = Brackets[kind][1] /\ Len(p) \in Nat
    BY <1>1, <1>2
  <2>2. at \in 1..Len(p) /\ hi \in at..Len(p)
    BY <1>1, <1>3
  <2>3. /\ NextBracket(p, kind, at + 1, hi) \in (at + 1)..hi
        /\ ClosesAt(p, at, kind, NextBracket(p, kind, at + 1, hi))
    BY <1>4, <2>1, <2>2, NextBracketIs
  <2> QED
    BY <1>5, <2>3
<1>7. d.kind = kind /\ d.lo = at + 1 /\ d.hi = e - 1 /\ d.at = at + 1 /\ d.literal = <<>>
  BY <1>1 DEF Call
<1>8. d.hi + 1 = e /\ e - 1 \in Nat /\ e \in at..hi
  <2>1. (e - 1) + 1 = e /\ e - 1 \in Nat /\ e \in at..hi
    BY <1>2, <1>3, <1>6
  <2> QED
    BY <1>7, <2>1
<1> QED
  BY <1>1, <1>6, <1>7, <1>8 DEF Within

\* The step into a bracket.
LEMMA OpenSpells ==
  ASSUME Setting, WellNested(pattern), NEW pos, NEW g, NEW langs, Built(heap, pos, Room, g, calls, langs),
         NEW kind \in BracketKinds, OpenBracket(kind),
         Spelled(pattern, calls, langs), Framed(pattern, calls')
  PROVE  Spelled(pattern, calls', WordsPushed(calls, WordsReplaced(calls, langs, LiteralWords(langs))))
<1>1. PICK t, A, e : t = Top /\ A = langs[Len(calls)] /\ e = End(kind)
  OBVIOUS
<1>2. PICK c, d, fs : c = Advanced(Flushed, t.at) /\ d = Call(kind, t.at + 1, e - 1) /\ fs = Front(calls)
  OBVIOUS
<1>3. /\ calls # <<>> /\ t.at <= t.hi /\ pattern[t.at] = Brackets[kind][1]
      /\ calls' = fs \o <<c, d>> /\ e = NextBracket(pattern, kind, t.at + 1, t.hi)
  BY <1>1, <1>2 DEF OpenBracket, Reading, Symbol, End
<1>4. /\ pattern \in Seq(Letters) /\ Placed(pattern, t) /\ t.literal \in Seq(Letters)
      /\ Listed(A) /\ Spells(pattern, t, A)
  BY <1>1, <1>3, TopSpells
<1>5. /\ c.lo = t.lo /\ c.hi = t.hi /\ c.kind = t.kind /\ c.at = t.at /\ c.literal = <<>>
  <2>1. t \in CallRecords
    BY <1>1, <1>3, TopIs
  <2> QED
    BY <1>1, <1>2, <2>1 DEF Advanced, CallRecords
<1>6. calls \in Seq(CallRecords) /\ calls' \in Seq(CallRecords)
  BY DEF Setting, Framed
<1>7. fs \in Seq(CallRecords)
  <2>1. PICK n : n = Len(calls) - 1
    OBVIOUS
  <2>2. n \in Nat /\ Len(calls) = n + 1
    <3>1. Len(calls) \in Nat /\ Len(calls) # 0
      BY <1>3, <1>6
    <3> QED
      BY <2>1, <3>1
  <2> QED
    BY <1>2, <1>6, <2>2, FrontIs
<1>8. c \in CallRecords /\ d \in CallRecords
  BY <1>3, <1>6, <1>7, TwoElements
<1>9. PICK ds, ms, F : ds = Replaced(calls, c) /\ F = LiteralWords(langs) /\ ms = WordsReplaced(calls, langs, F)
  OBVIOUS
<1>10. calls' = Append(ds, d)
  <2>1. fs \o <<c, d>> = Append(Append(fs, c), d)
    BY <1>7, <1>8, TwoBehind
  <2> QED
    BY <1>2, <1>3, <1>9, <2>1 DEF Replaced
<1>11. /\ ds \in Seq(CallRecords) /\ Len(ds) = Len(calls) /\ ds[Len(calls)] = c /\ Len(calls) > 0
       /\ Len(calls) \in Nat
  BY <1>3, <1>6, <1>8, <1>9, ReplacedIs
<1>12. ds # <<>> /\ Last(ds) = c
  <2>1. Last(ds) = c
    BY <1>11 DEF Last
  <2>2. ds # <<>>
    BY <1>11
  <2> QED
    BY <2>1, <2>2
<1>13. Spells(pattern, c, F)
  <2>1. Spells(pattern, c, FlushedWords(t.literal, A))
    BY <1>4, <1>5, SpellsFlushed
  <2> QED
    BY <1>1, <1>9, <2>1 DEF LiteralWords
<1>14. Spelled(pattern, ds, ms)
  <2>1. t = Last(calls)
    BY <1>1 DEF Top
  <2>2. c.lo = Last(calls).lo /\ c.hi = Last(calls).hi /\ c.kind = Last(calls).kind
    BY <1>5, <2>1
  <2>3. Spelled(pattern, Replaced(calls, c), WordsReplaced(calls, langs, F))
    BY <1>3, <1>6, <1>8, <1>13, <2>2, SpelledTop
  <2> QED
    BY <1>9, <2>3
<1>15. Placed(pattern, c) /\ Level(pattern, c)
  <2>1. Placed(pattern, c)
    BY <1>4, <1>5 DEF Placed
  <2>2. Level(pattern, c)
    BY <1>13 DEF Spells
  <2> QED
    BY <2>1, <2>2
<1>16. Within(pattern, c, d) /\ d.hi \in Nat /\ d.at = d.lo /\ d.literal = <<>>
  <2>1. /\ c.at <= c.hi /\ pattern[c.at] = Brackets[kind][1] /\ e = NextBracket(pattern, kind, c.at + 1, c.hi)
        /\ d = Call(kind, c.at + 1, e - 1)
    BY <1>2, <1>3, <1>5
  <2> QED
    BY <1>4, <1>15, <2>1, BracketWithin
<1>17. Spells(pattern, d, <<{<<>>}>>)
  BY <1>4, <1>15, <1>16, SpellsOpen
<1>18. Spelled(pattern, Append(ds, d), WordsPushed(ds, ms))
  <2>1. Within(pattern, Last(ds), d)
    BY <1>12, <1>16
  <2> QED
    BY <1>8, <1>11, <1>12, <1>14, <1>17, <2>1, SpelledPush
<1>19. WordsPushed(ds, ms) = WordsPushed(calls, ms)
  BY <1>11 DEF WordsPushed
<1> QED
  BY <1>9, <1>10, <1>18, <1>19

\* What the top call returns is what its slice spells.
LEMMA TopWords ==
  ASSUME Setting, calls # <<>>, Top.at > Top.hi,
         NEW pos, NEW g, NEW langs, Built(heap, pos, Room, g, calls, langs), Spelled(pattern, calls, langs)
  PROVE  AllOf(LiteralWords(langs)) = Words(pattern)[<<Top.lo, Top.hi>>]
<1>1. PICK t, A : t = Top /\ A = langs[Len(calls)]
  OBVIOUS
<1>2. /\ pattern \in Seq(Letters) /\ Placed(pattern, t) /\ t.literal \in Seq(Letters)
      /\ Listed(A) /\ Spells(pattern, t, A)
  BY <1>1, TopSpells
<1>3. AllOf(FlushedWords(t.literal, A)) = Words(pattern)[<<t.lo, t.at - 1>>]
  BY <1>2, AllWords
<1>4. t.at - 1 = t.hi
  <2>1. PICK hi : hi = t.hi
    OBVIOUS
  <2>2. hi \in Nat /\ t.at = hi + 1
    BY <1>1, <2>1, TopIs, TopReturns
  <2> QED
    BY <2>1, <2>2
<1> QED
  BY <1>1, <1>3, <1>4 DEF LiteralWords

\* The words of the whole pattern.
LEMMA FinishSpells ==
  ASSUME Setting, NEW pos, NEW g, NEW langs, Built(heap, pos, Room, g, calls, langs), Finish,
         Spelled(pattern, calls, langs)
  PROVE  AllOf(LiteralWords(langs)) = Words(pattern)[<<1, Len(pattern)>>]
<1>1. Len(calls) = 1 /\ Top.at > Top.hi
  BY DEF Finish
<1>2. calls # <<>> /\ 1 \in DOMAIN calls /\ Top = calls[1]
  <2>1. calls \in Seq(CallRecords)
    BY DEF Setting, Framed
  <2>2. calls # <<>>
    BY <1>1, EmptySeq
  <2> QED
    BY <1>1, <2>1, <2>2, TopIs
<1>3. Top.lo = 1 /\ Top.hi = Len(pattern)
  BY <1>2 DEF Spelled
<1> QED
  BY <1>1, <1>2, <1>3, TopWords

\* The step out of a bracket.
LEMMA ReturnSpells ==
  ASSUME Setting, NEW pos, NEW g, NEW langs, Built(heap, pos, Room, g, calls, langs), Return,
         Spelled(pattern, calls, langs), Framed(pattern, calls')
  PROVE  Spelled(pattern, calls', ReturnWords(langs))
<1>1. Len(calls) > 1 /\ Top.at > Top.hi
  BY DEF Return
<1>2. PICK N : N = Len(calls) - 1
  OBVIOUS
<1>3. calls \in Seq(CallRecords)
  BY DEF Setting, Framed
<1>4. N \in Nat /\ N > 0 /\ Len(calls) = N + 1 /\ calls # <<>>
  <2>1. Len(<<>>) = 0 /\ Len(calls) \in Nat
    BY <1>3
  <2> QED
    BY <1>1, <1>2, <2>1
<1>5. PICK fs, t, c : fs = Front(calls) /\ t = Top /\ c = calls[N]
  OBVIOUS
<1>6. /\ fs \in Seq(CallRecords) /\ Len(fs) = N /\ fs # <<>> /\ Last(fs) = c
      /\ N \in DOMAIN calls /\ N + 1 \in DOMAIN calls /\ t = calls[N + 1] /\ DOMAIN calls = 1..(N + 1)
  <2>1. /\ fs \in Seq(CallRecords) /\ Len(fs) = N /\ DOMAIN fs = 1..N /\ DOMAIN calls = 1..(N + 1)
        /\ fs # <<>> /\ Last(fs) = calls[N] /\ N \in DOMAIN fs
    BY <1>3, <1>4, <1>5, FrontIs
  <2>2. t = calls[N + 1]
    BY <1>4, <1>5, TopIs
  <2> QED
    BY <1>4, <1>5, <2>1, <2>2
<1>7. PICK L, A, h : /\ L = AllOf(LiteralWords(langs)) /\ A = langs[N]
                     /\ h = Add(Returned.heap, c.first, Element(Top.kind, <<>>, <<Content(Top.kind, Returned)>>)).first
  OBVIOUS
<1>8. PICK e : e = [c EXCEPT !.at = t.hi + 2, !.first = h]
  OBVIOUS
<1>9. calls' = Replaced(fs, e)
  <2>1. Len(calls) - 1 = N
    BY <1>2
  <2> QED
    BY <1>5, <1>7, <1>8, <2>1 DEF Return, Replaced
<1>10. L = Words(pattern)[<<t.lo, t.hi>>]
  BY <1>1, <1>4, <1>5, <1>7, TopWords
<1>11. pattern \in Seq(Letters) /\ Len(pattern) \in Nat /\ Framed(pattern, calls)
  BY PatternIs DEF Setting
<1>12. c \in CallRecords /\ c.literal = <<>> /\ Placed(pattern, c) /\ Placed(pattern, t)
  <2>1. c \in CallRecords
    BY <1>5, <1>6, <1>11, FramedFacts
  <2>2. c.literal = <<>>
    <3>1. N < N + 1
      BY <1>4
    <3> QED
      BY <1>4, <1>5, <1>6, <1>11, <3>1 DEF Framed
  <2> QED
    BY <1>5, <1>6, <1>11, <2>1, <2>2, CallsPlaced
<1>13. Listed(A)
  <2>1. Alternatives(heap, pos, g, -N, calls[N].first, langs[N], Base(calls[N]), Bound(calls[N]))
    BY <1>6 DEF Built, Standing
  <2>2. Sound(heap, pos, Room)
    BY DEF Built, Standing
  <2> QED
    BY <1>7, <2>1, <2>2, AlternativesListed
<1>14. Spells(pattern, c, A) /\ Within(pattern, c, t)
  <2>1. (N + 1) - 1 = N /\ N + 1 > 1
    BY <1>4
  <2>2. Within(pattern, calls[(N + 1) - 1], calls[N + 1])
    BY <1>6, <2>1 DEF Spelled
  <2>3. Spells(pattern, c, A)
    BY <1>5, <1>6, <1>7 DEF Spelled
  <2> QED
    BY <1>5, <1>6, <2>1, <2>2, <2>3
<1>15. /\ e.lo = c.lo /\ e.hi = c.hi /\ e.kind = c.kind /\ e.at = t.hi + 2 /\ e.literal = <<>>
  <2>1. PICK i : i = t.hi + 2
    OBVIOUS
  <2>2. e = [c EXCEPT !.at = i, !.first = h]
    BY <1>8, <2>1
  <2>3. /\ e.lo = c.lo /\ e.hi = c.hi /\ e.kind = c.kind /\ e.at = i /\ e.literal = c.literal
    BY <1>12, <2>2 DEF CallRecords
  <2> QED
    BY <1>12, <2>1, <2>3
<1>16. Spells(pattern, e, WithLast(A, Around(t.kind, L)))
  <2>1. t.hi \in Nat /\ t.lo \in 1..(Len(pattern) + 1) /\ t.hi <= Len(pattern)
    BY <1>4, <1>5, <1>11, <1>12, TopIs DEF Placed
  <2> QED
    BY <1>10, <1>11, <1>12, <1>13, <1>14, <1>15, <2>1, SpellsReturn
<1>17. e \in CallRecords
  <2>1. Replaced(fs, e) \in Seq(CallRecords)
    BY <1>9 DEF Framed
  <2> QED
    BY <1>6, <2>1, ReplacedElement
<1>18. Spelled(pattern, fs, langs)
  BY <1>3, <1>4, <1>5, SpelledFront
<1>19. PICK B : B = WithLast(A, Around(t.kind, L))
  OBVIOUS
<1>20. Spelled(pattern, Replaced(fs, e), WordsReplaced(fs, langs, B))
  <2>1. e.lo = Last(fs).lo /\ e.hi = Last(fs).hi /\ e.kind = Last(fs).kind
    BY <1>6, <1>15
  <2>2. Spells(pattern, e, B)
    BY <1>16, <1>19
  <2> QED
    BY <1>6, <1>17, <1>18, <2>1, <2>2, SpelledTop
<1>21. WordsReplaced(fs, langs, B) = ReturnWords(langs)
  BY <1>2, <1>5, <1>7, <1>19 DEF ReturnWords
<1> QED
  BY <1>9, <1>20, <1>21

-----------------------------------------------------------------------------
(* The inductive invariant.                                                *)
Compiling ==
  \E langs, pos, g : /\ Built(heap, pos, Room, g, calls, langs)
                     /\ WellNested(pattern) => Spelled(pattern, calls, langs)

IsCompiled ==
  \E L : /\ Compiled(heap, first, L)
         /\ WellNested(pattern) => L = Words(pattern)[<<1, Len(pattern)>>]

IsAnswer ==
  /\ first # Nil /\ answer.line \in Lines
  /\ answer.passed = Prefilter(heap, first, answer.line)
  /\ answer.matched = Match(heap, answer.line)[first][0]

CompilerInv ==
  /\ pattern \in Patterns
  /\ first # Nil => calls = <<>>
  /\ answer = NoAnswer \/ IsAnswer
  /\ SingleSpaces(pattern) =>
       /\ Framed(pattern, calls)
       /\ first = Nil => Compiling
       /\ first # Nil => IsCompiled

\* The empty heap.
LEMMA EmptyIsBuilt ==
  \E g : \A top \in Nat : Sound(<<>>, <<>>, top) /\ Forest(<<>>, g)
<1>1. PICK h : h = <<>>
  OBVIOUS
<1>2. DOMAIN h = {} /\ h \in Seq(Elements) /\ h \in Seq(Nat)
  BY <1>1
<1>3. ASSUME NEW top \in Nat
      PROVE  Sound(h, h, top)
  <2>1. h \in [DOMAIN h -> 0..top]
    <3>1. h = [i \in DOMAIN h |-> h[i]]
      BY <1>2
    <3> QED
      BY <1>2, <3>1
  <2> QED
    BY <1>2, <1>3, <2>1 DEF Sound
<1>4. PICK e : e = [i \in {} |-> 0]
  OBVIOUS
<1>5. PICK g : g = [live |-> {}, end |-> e, lang |-> e, up |-> e]
  OBVIOUS
<1>6. g.live = {} /\ g.end = e /\ g.lang = e /\ g.up = e
  BY <1>5
<1>7. e \in [{} -> {}] /\ e \in [{} -> SUBSET Seq(Letters)] /\ e \in [{} -> Owners]
  BY <1>4
<1>8. Chains(h, g.live, g.end, g.lang)
  BY <1>2, <1>6, <1>7 DEF Chains
<1>9. Forest(h, g)
  BY <1>6, <1>7, <1>8 DEF Forest
<1> QED
  BY <1>1, <1>3, <1>9

\* The first call.
LEMMA FirstCall ==
  ASSUME NEW p \in Seq(Letters), NEW c, c = Call("pattern", 1, Len(p))
  PROVE  /\ c \in CallRecords /\ c.kind = "pattern" /\ c.lo = 1 /\ c.hi = Len(p) /\ c.at = 1
         /\ c.first = Nil /\ c.literal = <<>> /\ Len(p) \in Nat
<1>1. Len(p) \in Nat /\ 1 \in Nat /\ Nil \in Nat /\ <<>> \in Seq(Letters)
  BY DEF Nil
<1> QED
  BY <1>1 DEF Call, CallRecords

\* The outermost call at its start.
LEMMA InitFramed ==
  ASSUME NEW p \in Seq(Letters), NEW cs, cs = <<Call("pattern", 1, Len(p))>>
  PROVE  Framed(p, cs)
<1>1. PICK c : c = Call("pattern", 1, Len(p))
  OBVIOUS
<1>2. /\ c \in CallRecords /\ c.kind = "pattern" /\ c.lo = 1 /\ c.hi = Len(p) /\ c.at = 1
      /\ c.literal = <<>> /\ Len(p) \in Nat
  BY <1>1, FirstCall
<1>3. cs \in Seq(CallRecords) /\ Len(cs) = 1 /\ DOMAIN cs = 1..1 /\ cs[1] = c
  <2>1. cs = <<c>>
    BY <1>1
  <2> QED
    BY <1>2, <2>1
<1>4. \A k \in DOMAIN cs : k = 1 /\ cs[k] = c
  BY <1>3
<1>5. Collected(p, c)
  BY <1>2 DEF Collected
<1>6. 1 <= c.lo /\ c.lo <= c.at /\ c.at <= c.hi + 1 /\ c.hi <= Len(p)
  BY <1>2
<1>7. ASSUME NEW k \in DOMAIN cs
      PROVE  /\ 1 <= cs[k].lo /\ cs[k].lo <= cs[k].at /\ cs[k].at <= cs[k].hi + 1 /\ cs[k].hi <= Len(p)
             /\ Collected(p, cs[k])
             /\ k < Len(cs) => cs[k].literal = <<>>
             /\ k > 1 => cs[k].kind # "pattern"
  <2>1. k = 1 /\ cs[k] = c /\ ~(k > 1)
    BY <1>4
  <2> QED
    BY <1>2, <1>5, <1>6, <2>1
<1>8. ASSUME NEW j \in DOMAIN cs, NEW k \in DOMAIN cs, j < k
      PROVE  cs[j].at < cs[k].lo /\ cs[k].hi < cs[j].hi
  <2>1. j = 1 /\ k = 1
    BY <1>4
  <2> QED
    BY <1>8, <2>1
<1> QED
  BY <1>3, <1>7, <1>8 DEF Framed

\* It has spelled nothing.
LEMMA InitSpelled ==
  ASSUME NEW p \in Seq(Letters), WellNested(p), NEW cs, cs = <<Call("pattern", 1, Len(p))>>
  PROVE  Spelled(p, cs, <<<<{<<>>}>>>>)
<1>1. PICK c, n, D, B : c = Call("pattern", 1, Len(p)) /\ n = Len(p) /\ D = Depth(p) /\ B = <<{<<>>}>>
  OBVIOUS
<1>2. /\ c \in CallRecords /\ c.kind = "pattern" /\ c.lo = 1 /\ c.hi = n /\ c.at = 1
      /\ c.literal = <<>> /\ n \in Nat
  BY <1>1, FirstCall
<1>3. D[0] = 0 /\ D[n] = 0 /\ \A i \in 1..n : 0 <= D[i]
  <2>1. D[0] = 0 /\ D \in [0..n -> Int]
    BY <1>1, <1>2, DepthIs
  <2>2. D[n] = 0 /\ \A i \in DOMAIN p : D[i] >= 0
    BY <1>1 DEF WellNested
  <2>3. DOMAIN p = 1..n
    BY <1>1
  <2> QED
    BY <2>1, <2>2, <2>3
<1>4. Level(p, c)
  <2>1. 1 - 1 = 0
    OBVIOUS
  <2> QED
    BY <1>1, <1>2, <1>3, <2>1 DEF Level
<1>5. Spelling(p, c, B, 0)
  <2>1. B[Len(B)] = {<<>>} /\ Earlier(B) = {}
    BY <1>1, ListedOne
  <2>2. Words(p)[<<1, 0>>] = {<<>>}
    <3>1. 1 \in 1..(Len(p) + 1) /\ 1 - 1 = 0
      BY <1>1, <1>2
    <3>2. Words(p)[<<1, 1 - 1>>] = {<<>>}
      BY <3>1, WordsOfNone
    <3> QED
      BY <3>1, <3>2
  <2>3. Since(p, c, 0)
    <3>1. 0 \in (1 - 1)..(1 - 1) /\ ~(0 >= 1) /\ (0 + 1)..(1 - 1) = {}
      OBVIOUS
    <3> QED
      BY <1>2, <3>1 DEF Since, NoBars
  <2>4. Cat(B[Len(B)], {c.literal}) = Words(p)[<<0 + 1, c.at - 1>>]
    <3>1. 0 + 1 = 1 /\ 1 - 1 = 0
      OBVIOUS
    <3> QED
      BY <1>2, <2>1, <2>2, <3>1, CatOfNone
  <2>5. 0 < c.lo
    BY <1>2
  <2> QED
    BY <2>1, <2>3, <2>4, <2>5 DEF Spelling
<1>6. Spells(p, c, B)
  BY <1>4, <1>5 DEF Spells
<1>7. PICK m : m = <<B>>
  OBVIOUS
<1>8. DOMAIN cs = 1..1 /\ cs[1] = c /\ m[1] = B
  <2>1. cs = <<c>> /\ m = <<B>>
    BY <1>1, <1>7
  <2>2. DOMAIN cs = 1..1 /\ cs[1] = c
    BY <2>1
  <2> QED
    BY <2>1, <2>2
<1>9. \A k \in DOMAIN cs : k = 1
  BY <1>8
<1>10. Spelled(p, cs, m)
  <2>1. \A k \in DOMAIN cs : cs[k] = c /\ m[k] = B /\ ~(k > 1)
    BY <1>8, <1>9
  <2>2. c.lo = 1 /\ c.hi = Len(p)
    BY <1>1, <1>2
  <2> QED
    BY <1>6, <2>1, <2>2, Zenon DEF Spelled
<1> QED
  BY <1>1, <1>7, <1>10

\* It has built nothing.
LEMMA InitBuilt ==
  ASSUME NEW p \in Seq(Letters), NEW cs, cs = <<Call("pattern", 1, Len(p))>>, NEW top \in Nat
  PROVE  \E g : Built(<<>>, <<>>, top, g, cs, <<<<{<<>>}>>>>)
<1>1. PICK g : Sound(<<>>, <<>>, top) /\ Forest(<<>>, g)
  BY EmptyIsBuilt
<1>2. PICK c, B, h, m : c = Call("pattern", 1, Len(p)) /\ B = <<{<<>>}>> /\ h = <<>> /\ m = <<B>>
  OBVIOUS
<1>3. c.first = Nil
  BY <1>2, FirstCall
<1>4. DOMAIN cs = 1..1 /\ cs[1] = c /\ m[1] = B /\ DOMAIN h = {}
  <2>1. cs = <<c>> /\ m = <<B>> /\ h = <<>>
    BY <1>2
  <2>2. DOMAIN cs = 1..1 /\ cs[1] = c
    BY <2>1
  <2>3. m[1] = B
    BY <2>1
  <2>4. DOMAIN h = {}
    BY <2>1
  <2> QED
    BY <2>2, <2>3, <2>4
<1>5. Listed(B) /\ Len(B) = 1 /\ B[1] = {<<>>}
  BY <1>2, ListedOne
<1>6. \A z, a, b : Alternatives(h, h, g, z, c.first, B, a, b)
  BY <1>3, <1>5 DEF Alternatives, Listed
<1>7. \A b : Below(h, h, b) /\ Under(h, h, b)
  BY <1>4 DEF Below, Under
<1>8. \A k \in DOMAIN cs : cs[k].first = c.first /\ m[k] = B
  <2>1. \A k \in DOMAIN cs : k = 1
    BY <1>4
  <2> QED
    BY <1>4, <2>1
<1>9. Standing(h, h, top, g, cs, m)
  <2>1. \A k \in DOMAIN cs : /\ Alternatives(h, h, g, -k, cs[k].first, m[k], Base(cs[k]), Bound(cs[k]))
                             /\ Below(h, h, Bound(cs[k]))
    <3> TAKE k \in DOMAIN cs
    <3>1. cs[k].first = c.first /\ m[k] = B
      BY <1>8
    <3> QED
      BY <1>6, <1>7, <3>1
  <2> QED
    BY <1>1, <1>2, <2>1, Zenon DEF Standing
<1>10. Built(h, h, top, g, cs, m)
  BY <1>7, <1>9, Zenon DEF Built
<1> QED
  BY <1>2, <1>10

\* Every initial state satisfies the invariant.
LEMMA CompilerInit == Init => CompilerInv
<1> SUFFICES ASSUME Init
             PROVE  CompilerInv
  OBVIOUS
<1>1. PICK p, cs, m, h : p = pattern /\ cs = calls /\ m = <<<<{<<>>}>>>> /\ h = heap
  OBVIOUS
<1>2. /\ p \in Patterns /\ cs = <<Call("pattern", 1, Len(p))>> /\ h = <<>> /\ first = Nil /\ answer = NoAnswer
  BY <1>1 DEF Init
<1>3. p \in Seq(Letters) /\ Room \in Nat
  <2>1. pattern \in Seq(Letters) /\ Len(pattern) \in Nat
    BY <1>1, <1>2, PatternIs
  <2> QED
    BY <1>1, <2>1 DEF Room
<1>4. Framed(p, cs)
  BY <1>2, <1>3, InitFramed
<1>5. Compiling
  <2>1. \E g : Built(<<>>, <<>>, Room, g, cs, <<<<{<<>>}>>>>)
    BY <1>2, <1>3, InitBuilt
  <2>2. PICK g : Built(h, h, Room, g, cs, m)
    BY <1>1, <1>2, <2>1
  <2>3. WellNested(p) => Spelled(p, cs, m)
    BY <1>1, <1>2, <1>3, InitSpelled
  <2>4. Built(heap, h, Room, g, calls, m) /\ (WellNested(pattern) => Spelled(pattern, calls, m))
    BY <1>1, <2>2, <2>3
  <2> QED
    BY <2>4, Zenon DEF Compiling
<1> QED
  BY <1>1, <1>2, <1>4, <1>5 DEF CompilerInv

\* One state of the compiler behind a step.
Compiles(p, h, cs) ==
  /\ Framed(p, cs)
  /\ \E langs, pos, g : /\ Built(h, pos, 4 * Len(p) + 8, g, cs, langs)
                        /\ WellNested(p) => Spelled(p, cs, langs)

\* Compiles, unfolded for the state.
LEMMA CompilesIs ==
  /\ Framed(pattern, calls) /\ Compiling <=> Compiles(pattern, heap, calls)
  /\ pattern' = pattern /\ Compiles(pattern, heap', calls') => Framed(pattern', calls') /\ Compiling'
<1>1. Framed(pattern, calls) /\ Compiling <=> Compiles(pattern, heap, calls)
  BY DEF Compiles, Compiling, Room
<1>2. ASSUME pattern' = pattern, Compiles(pattern, heap', calls')
      PROVE  Framed(pattern', calls') /\ Compiling'
  BY <1>2 DEF Compiles, Compiling, Room
<1> QED
  BY <1>1, <1>2

\* Every step of the compiler leaves it in such a state.
LEMMA LetterCompiles ==
  ASSUME pattern \in Patterns, SingleSpaces(pattern), Compiles(pattern, heap, calls), TakeLetter
  PROVE  Compiles(pattern, heap', calls')
<1>1. Setting
  BY DEF Setting, Compiles
<1>2. PICK langs, pos, g : /\ Built(heap, pos, Room, g, calls, langs)
                           /\ WellNested(pattern) => Spelled(pattern, calls, langs)
  BY DEF Compiles, Room
<1>3. Framed(pattern, calls') /\ Built(heap', pos, Room, g, calls', langs)
  BY <1>1, <1>2, ReadLetter
<1>4. WellNested(pattern) => Spelled(pattern, calls', langs)
  BY <1>1, <1>2, <1>3, LetterSpells
<1> QED
  BY <1>3, <1>4 DEF Compiles, Room

\* A slot keeps the invariant.
LEMMA SlotCompiles ==
  ASSUME pattern \in Patterns, SingleSpaces(pattern), Compiles(pattern, heap, calls), TakeSlot
  PROVE  Compiles(pattern, heap', calls')
<1>1. Setting
  BY DEF Setting, Compiles
<1>2. PICK langs, pos, g : /\ Built(heap, pos, Room, g, calls, langs)
                           /\ WellNested(pattern) => Spelled(pattern, calls, langs)
  BY DEF Compiles, Room
<1>3. PICK m : m = WordsReplaced(calls, langs, SlotWords(langs))
  OBVIOUS
<1>4. Framed(pattern, calls') /\ \E s, x : Built(heap', s, Room, x, calls', m)
  BY <1>1, <1>2, <1>3, SlotStep
<1>5. WellNested(pattern) => Spelled(pattern, calls', m)
  BY <1>1, <1>2, <1>3, <1>4, SlotSpells
<1> QED
  BY <1>4, <1>5 DEF Compiles, Room

\* A bar keeps it.
LEMMA BarCompiles ==
  ASSUME pattern \in Patterns, SingleSpaces(pattern), Compiles(pattern, heap, calls), TakeBar
  PROVE  Compiles(pattern, heap', calls')
<1>1. Setting
  BY DEF Setting, Compiles
<1>2. PICK langs, pos, g : /\ Built(heap, pos, Room, g, calls, langs)
                           /\ WellNested(pattern) => Spelled(pattern, calls, langs)
  BY DEF Compiles, Room
<1>3. PICK m : m = WordsReplaced(calls, langs, BarWords(langs))
  OBVIOUS
<1>4. Framed(pattern, calls') /\ \E s, x : Built(heap', s, Room, x, calls', m)
  BY <1>1, <1>2, <1>3, BarStep
<1>5. WellNested(pattern) => Spelled(pattern, calls', m)
  BY <1>1, <1>2, <1>3, <1>4, BarSpells
<1> QED
  BY <1>4, <1>5 DEF Compiles, Room

\* A bracket that opens keeps it.
LEMMA OpenCompiles ==
  ASSUME pattern \in Patterns, SingleSpaces(pattern), Compiles(pattern, heap, calls),
         NEW kind \in BracketKinds, OpenBracket(kind)
  PROVE  Compiles(pattern, heap', calls')
<1>1. Setting
  BY DEF Setting, Compiles
<1>2. PICK langs, pos, g : /\ Built(heap, pos, Room, g, calls, langs)
                           /\ WellNested(pattern) => Spelled(pattern, calls, langs)
  BY DEF Compiles, Room
<1>3. PICK m : m = WordsPushed(calls, WordsReplaced(calls, langs, LiteralWords(langs)))
  OBVIOUS
<1>4. Framed(pattern, calls') /\ \E s, x : Built(heap', s, Room, x, calls', m)
  <2>1. kind \in {"group", "optional"}
    BY DEF BracketKinds
  <2> QED
    BY <1>1, <1>2, <1>3, <2>1, OpenStep
<1>5. WellNested(pattern) => Spelled(pattern, calls', m)
  BY <1>1, <1>2, <1>3, <1>4, OpenSpells
<1> QED
  BY <1>4, <1>5 DEF Compiles, Room

\* A bracket that is closed keeps it.
LEMMA ReturnCompiles ==
  ASSUME pattern \in Patterns, SingleSpaces(pattern), Compiles(pattern, heap, calls), Return
  PROVE  Compiles(pattern, heap', calls')
<1>1. Setting
  BY DEF Setting, Compiles
<1>2. PICK langs, pos, g : /\ Built(heap, pos, Room, g, calls, langs)
                           /\ WellNested(pattern) => Spelled(pattern, calls, langs)
  BY DEF Compiles, Room
<1>3. PICK m : m = ReturnWords(langs)
  OBVIOUS
<1>4. Framed(pattern, calls') /\ \E s, x : Built(heap', s, Room, x, calls', m)
  BY <1>1, <1>2, <1>3, ReturnStep
<1>5. WellNested(pattern) => Spelled(pattern, calls', m)
  BY <1>1, <1>2, <1>3, <1>4, ReturnSpells
<1> QED
  BY <1>4, <1>5 DEF Compiles, Room

\* No call at all is a frame.
LEMMA FramedNone ==
  ASSUME NEW p
  PROVE  Framed(p, <<>>)
<1>1. PICK cs : cs = <<>>
  OBVIOUS
<1>2. cs \in Seq(CallRecords) /\ DOMAIN cs = {}
  BY <1>1
<1>3. Framed(p, cs)
  BY <1>2, Zenon DEF Framed
<1> QED
  BY <1>1, <1>3

\* A rejected pattern keeps it.
LEMMA RejectCompiles ==
  ASSUME pattern \in Patterns, Compiles(pattern, heap, calls), NEW kind, Reject(kind)
  PROVE  Compiles(pattern, heap', calls')
<1>1. PICK langs, pos, g : Built(heap, pos, Room, g, calls, langs)
  BY DEF Compiles, Room
<1>2. PICK cs : cs = calls'
  OBVIOUS
<1>3. cs = <<>> /\ heap' = heap
  BY <1>2 DEF Reject
<1>4. DOMAIN cs = {}
  BY <1>3
<1>5. Framed(pattern, cs)
  BY <1>3, FramedNone
<1>6. Sound(heap, pos, Room) /\ Forest(heap, g)
  BY <1>1, Zenon DEF Built, Standing
<1>7. Standing(heap, pos, Room, g, cs, langs)
  BY <1>4, <1>6, Zenon DEF Standing
<1>8. Built(heap, pos, Room, g, cs, langs)
  BY <1>4, <1>7, Zenon DEF Built
<1>9. Spelled(pattern, cs, langs)
  BY <1>4, Zenon DEF Spelled
<1> QED
  BY <1>2, <1>3, <1>5, <1>8, <1>9 DEF Compiles, Room

\* A pattern is compiled to elements with the pattern's own words.
LEMMA FinishCompiles ==
  ASSUME pattern \in Patterns, SingleSpaces(pattern), Compiles(pattern, heap, calls), Finish
  PROVE  /\ Framed(pattern, calls') /\ first' # Nil /\ calls' = <<>>
         /\ \E L : /\ Compiled(heap', first', L)
                   /\ WellNested(pattern) => L = Words(pattern)[<<1, Len(pattern)>>]
<1>1. Setting
  BY DEF Setting, Compiles
<1>2. PICK langs, pos, g : /\ Built(heap, pos, Room, g, calls, langs)
                           /\ WellNested(pattern) => Spelled(pattern, calls, langs)
  BY DEF Compiles, Room
<1>3. PICK L : L = AllOf(LiteralWords(langs))
  OBVIOUS
<1>4. Compiled(heap', first', L)
  BY <1>1, <1>2, <1>3, FinishStep
<1>5. WellNested(pattern) => L = Words(pattern)[<<1, Len(pattern)>>]
  BY <1>1, <1>2, <1>3, FinishSpells
<1>6. first' # Nil
  <2>1. PICK h, f : h = heap' /\ f = first'
    OBVIOUS
  <2>2. PICK s, x : Sound(h, s, Room) /\ Forest(h, x) /\ Open(h, x, <<-1, 1>>, f, L)
    BY <1>4, <2>1 DEF Compiled
  <2>3. f \in DOMAIN h
    BY <2>2 DEF Forest, Open, Chains
  <2>4. f \in 1..Len(h) /\ Len(h) \in Nat
    BY <2>2, <2>3, SoundFacts
  <2> QED
    BY <2>1, <2>4 DEF Nil
<1>7. calls' = <<>>
  BY DEF Finish
<1> QED
  BY <1>4, <1>5, <1>6, <1>7, FramedNone

\* A bracket at which a call stands on a well nested pattern is closed in the
\* call's slice, so that next_bracket finds its end.
LEMMA BracketIsFound ==
  ASSUME pattern \in Patterns, SingleSpaces(pattern), WellNested(pattern), Compiles(pattern, heap, calls),
         Reading, NEW kind \in BracketKinds, Symbol = Brackets[kind][1]
  PROVE  End(kind) # Nil
<1>1. Setting /\ calls # <<>>
  BY DEF Setting, Compiles, Reading
<1>2. PICK langs, pos, g : Built(heap, pos, Room, g, calls, langs) /\ Spelled(pattern, calls, langs)
  BY DEF Compiles, Room
<1>3. PICK t, e, d : t = Top /\ e = NextBracket(pattern, kind, t.at + 1, t.hi) /\ d = Call(kind, t.at + 1, e - 1)
  OBVIOUS
<1>4. pattern \in Seq(Letters) /\ Placed(pattern, t) /\ Level(pattern, t)
  BY <1>1, <1>2, <1>3, TopSpells DEF Spells
<1>5. t.at <= t.hi /\ pattern[t.at] = Brackets[kind][1]
  BY <1>3 DEF Reading, Symbol
<1>6. Within(pattern, t, d) /\ d.hi \in Nat
  BY <1>3, <1>4, <1>5, BracketWithin
<1>7. d.hi = e - 1
  BY <1>3 DEF Call
<1>8. IsClosedAt(pattern, t, d.hi + 1)
  BY <1>4, <1>6, WithinEnds
<1>9. d.hi + 1 \in 1..Len(pattern) /\ Len(pattern) \in Nat
  BY <1>8 DEF IsClosedAt
<1>10. e # Nil
  <2>1. CASE e = 0
    <3>1. d.hi = -1
      BY <1>7, <2>1
    <3> QED
      BY <1>6, <3>1
  <2> QED
    BY <2>1 DEF Nil
<1> QED
  BY <1>3, <1>10 DEF End

\* A step of the compiler on a pattern that is not compiled.
LEMMA CompilerGoes ==
  ASSUME CompilerInv, first = Nil, first' = first, UNCHANGED <<pattern, answer>>,
         SingleSpaces(pattern) => Compiles(pattern, heap', calls')
  PROVE  CompilerInv'
<1>1. pattern' \in Patterns /\ first' = Nil
  BY DEF CompilerInv
<1>2. answer' = NoAnswer
  BY DEF CompilerInv, IsAnswer
<1>3. ASSUME SingleSpaces(pattern')
      PROVE  Framed(pattern', calls') /\ Compiling'
  BY <1>3, CompilesIs
<1>4. NoAnswer' = NoAnswer
  BY DEF NoAnswer
<1> QED
  BY <1>1, <1>2, <1>3, <1>4 DEF CompilerInv

\* Every step keeps the invariant.
LEMMA CompilerStep == CompilerInv /\ [Next]_vars => CompilerInv'
<1> SUFFICES ASSUME CompilerInv, [Next]_vars
             PROVE  CompilerInv'
  OBVIOUS
<1>1. ASSUME SingleSpaces(pattern), first = Nil
      PROVE  pattern \in Patterns /\ Compiles(pattern, heap, calls)
  BY <1>1, CompilesIs DEF CompilerInv
<1>2. ASSUME calls # <<>>
      PROVE  first = Nil
  BY <1>2 DEF CompilerInv
<1>3. CASE TakeLetter
  <2>1. first = Nil /\ first' = first /\ UNCHANGED <<pattern, answer>>
    BY <1>2, <1>3 DEF TakeLetter, Reading
  <2>2. SingleSpaces(pattern) => Compiles(pattern, heap', calls')
    BY <1>1, <1>3, <2>1, LetterCompiles
  <2> QED
    BY <2>1, <2>2, CompilerGoes
<1>4. CASE TakeSlot
  <2>1. first = Nil /\ first' = first /\ UNCHANGED <<pattern, answer>>
    BY <1>2, <1>4 DEF TakeSlot, Reading, Goes
  <2>2. SingleSpaces(pattern) => Compiles(pattern, heap', calls')
    BY <1>1, <1>4, <2>1, SlotCompiles
  <2> QED
    BY <2>1, <2>2, CompilerGoes
<1>5. CASE TakeBar
  <2>1. first = Nil /\ first' = first /\ UNCHANGED <<pattern, answer>>
    BY <1>2, <1>5 DEF TakeBar, Reading, Goes
  <2>2. SingleSpaces(pattern) => Compiles(pattern, heap', calls')
    BY <1>1, <1>5, <2>1, BarCompiles
  <2> QED
    BY <2>1, <2>2, CompilerGoes
<1>6. ASSUME NEW kind \in DOMAIN Brackets, OpenBracket(kind)
      PROVE  CompilerInv'
  <2>1. first = Nil /\ first' = first /\ UNCHANGED <<pattern, answer>>
    BY <1>2, <1>6 DEF OpenBracket, Reading
  <2>2. kind \in BracketKinds
    BY BracketsAre
  <2>3. SingleSpaces(pattern) => Compiles(pattern, heap', calls')
    BY <1>1, <1>6, <2>1, <2>2, OpenCompiles
  <2> QED
    BY <2>1, <2>3, CompilerGoes
<1>7. ASSUME NEW kind \in DOMAIN Brackets, Reject(kind)
      PROVE  CompilerInv'
  <2>1. first = Nil /\ first' = first /\ UNCHANGED <<pattern, answer>>
    BY <1>2, <1>7 DEF Reject, Reading
  <2>2. SingleSpaces(pattern) => Compiles(pattern, heap', calls')
    BY <1>1, <1>7, <2>1, RejectCompiles
  <2> QED
    BY <2>1, <2>2, CompilerGoes
<1>8. CASE Return
  <2>1. first = Nil /\ first' = first /\ UNCHANGED <<pattern, answer>>
    <3>1. calls # <<>>
      <4>1. Len(<<>>) = 0 /\ Len(calls) > 1
        BY <1>8 DEF Return
      <4> QED
        BY <4>1
    <3> QED
      BY <1>2, <1>8, <3>1 DEF Return
  <2>2. SingleSpaces(pattern) => Compiles(pattern, heap', calls')
    BY <1>1, <1>8, <2>1, ReturnCompiles
  <2> QED
    BY <2>1, <2>2, CompilerGoes
<1>9. CASE Finish
  <2>1. first = Nil /\ UNCHANGED <<pattern, answer>> /\ calls' = <<>>
    <3>1. calls # <<>>
      <4>1. Len(<<>>) = 0 /\ Len(calls) = 1
        BY <1>9 DEF Finish
      <4> QED
        BY <4>1
    <3> QED
      BY <1>2, <1>9, <3>1 DEF Finish
  <2>2. answer' = NoAnswer
    BY <2>1 DEF CompilerInv, IsAnswer
  <2>3. ASSUME SingleSpaces(pattern')
        PROVE  Framed(pattern', calls') /\ first' # Nil /\ IsCompiled'
    <3>1. SingleSpaces(pattern) /\ pattern' = pattern
      BY <2>1, <2>3
    <3>2. /\ Framed(pattern, calls') /\ first' # Nil
          /\ \E L : /\ Compiled(heap', first', L)
                    /\ WellNested(pattern) => L = Words(pattern)[<<1, Len(pattern)>>]
      BY <1>1, <1>9, <2>1, <3>1, FinishCompiles
    <3>3. IsCompiled'
      BY <3>1, <3>2, Zenon DEF IsCompiled, Compiled, Room
    <3> QED
      BY <3>1, <3>2, <3>3
  <2>4. pattern' \in Patterns
    BY <2>1 DEF CompilerInv
  <2> QED
    BY <2>1, <2>2, <2>3, <2>4 DEF CompilerInv
<1>10. ASSUME NEW line \in Lines, MatchLine(line)
       PROVE  CompilerInv'
  <2>1. first # Nil /\ UNCHANGED <<pattern, heap, calls, first>>
    BY <1>10 DEF MatchLine
  <2>2. answer' = [line |-> line, passed |-> Prefilter(heap, first, line), matched |-> Match(heap, line)[first][0]]
    BY <1>10 DEF MatchLine
  <2>3. IsAnswer'
    <3>1. /\ answer'.line = line /\ answer'.passed = Prefilter(heap, first, line)
          /\ answer'.matched = Match(heap, line)[first][0]
      BY <2>2
    <3> QED
      BY <2>1, <3>1 DEF IsAnswer
  <2>4. IsCompiled' <=> IsCompiled
    BY <2>1 DEF IsCompiled, Compiled, Room
  <2> QED
    BY <2>1, <2>3, <2>4 DEF CompilerInv
<1>11. CASE UNCHANGED vars
  <2>1. UNCHANGED <<pattern, heap, calls, first, answer>>
    BY <1>11 DEF vars
  <2>2. (IsCompiled' <=> IsCompiled) /\ (Compiling' <=> Compiling) /\ (IsAnswer' <=> IsAnswer)
    BY <2>1 DEF IsCompiled, Compiled, Compiling, IsAnswer, Room
  <2> QED
    BY <2>1, <2>2 DEF CompilerInv
<1> QED
  BY <1>3, <1>4, <1>5, <1>6, <1>7, <1>8, <1>9, <1>10, <1>11 DEF Next, Compile

\* The invariant says it of every answer.
LEMMA AnswerIsRight ==
  ASSUME CompilerInv, SingleSpaces(pattern)
  PROVE  MatcherIsLanguage /\ PrefilterIsSound
<1>1. CASE answer = NoAnswer
  BY <1>1 DEF MatcherIsLanguage, PrefilterIsSound, NoAnswer
<1>2. CASE answer # NoAnswer
  <2>1. IsAnswer /\ IsCompiled
    BY <1>2 DEF CompilerInv, IsAnswer
  <2>2. PICK line : line = answer.line
    OBVIOUS
  <2>3. PICK L : /\ Compiled(heap, first, L)
                 /\ WellNested(pattern) => L = Words(pattern)[<<1, Len(pattern)>>]
    BY <2>1 DEF IsCompiled
  <2>4. /\ line \in Lines /\ answer.passed = Prefilter(heap, first, line)
        /\ answer.matched = Match(heap, line)[first][0]
    BY <2>1, <2>2 DEF IsAnswer
  <2>5. /\ Match(heap, line)[first][0] <=> \E w \in L : Len(line) \in Read(w, line, 0)
        /\ Match(heap, line)[first][0] => Prefilter(heap, first, line)
    BY <2>3, <2>4, CompiledMatches
  <2>6. PrefilterIsSound
    BY <2>4, <2>5 DEF PrefilterIsSound
  <2>7. MatcherIsLanguage
    BY <2>2, <2>3, <2>4, <2>5 DEF MatcherIsLanguage
  <2> QED
    BY <2>6, <2>7
<1> QED
  BY <1>1, <1>2

\* The chains that the calls of compile_element are building, and the one that is
\* returned, have the words of what was read of the pattern.
THEOREM CompilerInvariant == Spec => []CompilerInv
<1> QED
  BY CompilerInit, CompilerStep, PTL DEF Spec

\* The elements that compiler.rs links accept exactly the language of a well
\* nested pattern without two spaces side by side, on every line.
THEOREM MatcherTheorem == Spec => [](SingleSpaces(pattern) => MatcherIsLanguage)
<1>1. CompilerInv => (SingleSpaces(pattern) => MatcherIsLanguage)
  BY AnswerIsRight
<1> QED
  BY <1>1, CompilerInvariant, PTL

\* What the matcher accepts passes the prefilter of keyword.rs.
THEOREM PrefilterTheorem == Spec => [](SingleSpaces(pattern) => PrefilterIsSound)
<1>1. CompilerInv => (SingleSpaces(pattern) => PrefilterIsSound)
  BY AnswerIsRight
<1> QED
  BY <1>1, CompilerInvariant, PTL

\* compile_pattern drops no well nested pattern from the corpus: its next_bracket,
\* though it counts brackets of one kind only, finds the end of every bracket.
THEOREM NoneIsDropped ==
  Spec => [][SingleSpaces(pattern) /\ WellNested(pattern) => \A kind \in DOMAIN Brackets : ~Reject(kind)]_vars
<1> DEFINE NotDropped == SingleSpaces(pattern) /\ WellNested(pattern) => \A kind \in DOMAIN Brackets : ~Reject(kind)
<1>1. ASSUME CompilerInv, SingleSpaces(pattern), WellNested(pattern), NEW kind \in DOMAIN Brackets
      PROVE  ~Reject(kind)
  <2> SUFFICES ASSUME Reject(kind)
               PROVE  FALSE
    OBVIOUS
  <2>1. Reading /\ calls # <<>> /\ Symbol = Brackets[kind][1] /\ End(kind) = Nil
    BY DEF Reject, Reading
  <2>2. pattern \in Patterns /\ Compiles(pattern, heap, calls)
    BY <1>1, <2>1, CompilesIs DEF CompilerInv
  <2>3. kind \in BracketKinds
    BY BracketsAre
  <2> QED
    BY <1>1, <2>1, <2>2, <2>3, BracketIsFound
<1>2. CompilerInv => [NotDropped]_vars
  BY <1>1
<1> QED
  BY <1>2, CompilerInvariant, PTL
=============================================================================
