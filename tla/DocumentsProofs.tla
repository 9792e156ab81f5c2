--------------------------- MODULE DocumentsProofs ---------------------------
(***************************************************************************)
(* What TLAPS proves of the computations on the text of a document: of the *)
(* rules of the line checker, for every corpus, every set of plugins and   *)
(* versions and every line, that a richer workspace is never worse; of its *)
(* scan, for scripts of any length and any tidy lines, that it reports the *)
(* lines it should, in their columns; and of the incremental parse, for    *)
(* texts of any length and of any lines, that parsing section by section   *)
(* is parsing the whole, and for any sequence of changes of tidy texts     *)
(* that the snapshot holds the declarations of the text.                   *)
(***************************************************************************)
EXTENDS MCDocuments, SequenceLemmas, FiniteSetTheorems

-----------------------------------------------------------------------------
(* The rules of the line checker (CheckRules).                             *)

\* What the search returns.
OfEntries(ms) == \A i \in DOMAIN ms : ms[i] \in Entries

\* The verdict is that of the matches in the workspace.
RulesInv ==
  /\ OfEntries(matches)
  /\ config \in Configs
  /\ verdict \in {"unchecked", Evaluate(matches, config)}

\* d is at least as rich as c.
Richer(c, d) ==
  /\ c.enabled # {} => c.enabled \subseteq d.enabled
  /\ c.enabled = {} => d.enabled = {}
  /\ c.installed \subseteq d.installed
  /\ c.version = NoVersion <=> d.version = NoVersion
  /\ c.version # NoVersion => c.version \in Nat /\ d.version \in Nat /\ c.version <= d.version

\* A rule that is silent in a workspace is silent in a richer one.
LEMMA RulesAreMonotone ==
  ASSUME NEW ms, OfEntries(ms), NEW c, NEW d, Richer(c, d)
  PROVE  /\ AddonNotEnabled(ms, d) => AddonNotEnabled(ms, c)
         /\ PluginMissing(ms, d) => PluginMissing(ms, c)
         /\ VersionMismatch(ms, d) => VersionMismatch(ms, c)
<1>1. AddonNotEnabled(ms, d) => AddonNotEnabled(ms, c)
  BY DEF AddonNotEnabled, Richer
<1>2. PluginMissing(ms, d) => PluginMissing(ms, c)
  BY DEF PluginMissing, Available, Richer, OfEntries
<1>3. ASSUME VersionMismatch(ms, d)  PROVE VersionMismatch(ms, c)
  <2>1. PICK i \in DOMAIN ms :
          CompatOf[ms[i]] # <<>> /\ Head(CompatOf[ms[i]]) > d.version
    BY <1>3 DEF VersionMismatch
  <2>2. CompatOf[ms[i]] \in Seq(Nat)
    BY RulesAssumption DEF OfEntries
  <2>3. Head(CompatOf[ms[i]]) \in Nat
    BY <2>1, <2>2
  <2>4. c.version # NoVersion /\ c.version \in Nat /\ d.version \in Nat /\ c.version <= d.version
    BY <1>3 DEF VersionMismatch, Richer
  <2>5. Head(CompatOf[ms[i]]) > c.version
    BY <2>1, <2>3, <2>4
  <2> QED
    BY <2>1, <2>4, <2>5 DEF VersionMismatch
<1> QED
  BY <1>1, <1>2, <1>3

\* The verdict, and with it its severity, is that of the first rule that fires.
LEMMA SeverityIsMonotone ==
  ASSUME NEW ms, OfEntries(ms), NEW c, NEW d, Richer(c, d)
  PROVE  Severity(Evaluate(ms, d)) <= Severity(Evaluate(ms, c))
<1> DEFINE Failing(w) == \/ AddonNotEnabled(ms, w) \/ PluginMissing(ms, w) \/ VersionMismatch(ms, w)
<1>1. \A w : Severity(Evaluate(ms, w)) =
        IF ms = <<>> THEN 3
        ELSE IF Failing(w) THEN 2
        ELSE IF AmbiguousAddon(ms) THEN 1 ELSE 0
  BY DEF Evaluate, Severity
<1>2. Failing(d) => Failing(c)
  BY RulesAreMonotone
<1> HIDE DEF Failing
<1> QED
  BY <1>1, <1>2

\* The invariant holds on every line.
THEOREM RulesInvariant == Spec => []RulesInv
<1>1. Init => RulesInv
  <2> SUFFICES ASSUME Init  PROVE RulesInv
    OBVIOUS
  <2>1. PICK M \in SUBSET Entries : matches \in SetToSeqs(M)
    BY DEF Init
  <2>2. OfEntries(matches)
    BY <2>1 DEF SetToSeqs, OfEntries
  <2> QED
    BY <2>2 DEF Init, RulesInv
<1>2. RulesInv /\ [Next]_vars => RulesInv'
  BY DEF RulesInv, Next, CheckLine, vars
<1> QED
  BY <1>1, <1>2, PTL DEF Spec

\* On any line, in any corpus: one more plugin, one more addon where some are
\* chosen, or a higher Skript version never earns a worse diagnostic.
THEOREM RicherIsNoWorse == Spec => []RicherWorkspaceIsNoWorse
<1>1. RulesInv => RicherWorkspaceIsNoWorse
  <2> SUFFICES ASSUME RulesInv, verdict # "unchecked"  PROVE RicherWorkspaceIsNoWorse
    BY DEF RicherWorkspaceIsNoWorse
  <2>1. /\ verdict = Evaluate(matches, config) /\ OfEntries(matches)
        /\ config \in Configs
    BY DEF RulesInv
  <2>2. /\ config.version \in Versions \cup {NoVersion}
        /\ Versions \subseteq Nat /\ NoVersion \notin Versions
    BY <2>1, RulesAssumption DEF Configs
  <2>3. ASSUME NEW p \in Plugins
        PROVE  Richer(config, [config EXCEPT !.installed = @ \cup {p}])
    BY <2>1, <2>2 DEF Configs, Richer
  <2>4. ASSUME config.enabled # {}, NEW a \in Addons
        PROVE  Richer(config, [config EXCEPT !.enabled = @ \cup {a}])
    BY <2>1, <2>2, <2>4 DEF Configs, Richer
  <2>5. ASSUME config.version # NoVersion, NEW v \in Versions, v >= config.version
        PROVE  Richer(config, [config EXCEPT !.version = v])
    BY <2>1, <2>2, <2>5 DEF Configs, Richer
  <2> QED
    BY <2>1, <2>3, <2>4, <2>5, SeverityIsMonotone DEF RicherWorkspaceIsNoWorse
<1> QED
  BY <1>1, RulesInvariant, PTL

-----------------------------------------------------------------------------
(* The scan of the line checker (CheckDocument).                           *)

\* White space, and the runs of hashes outside strings.
White(c) == c = "_"
Hashes(line) == Scan!Runs(line, {"#", "###"})

\* Column i of a line is code behind column t, as long as no comment starts
\* in between.
CodeBehind(line, t, i) ==
  t < i /\ ~White(line[i]) /\ ~\E h \in Hashes(line) : t < h /\ h <= i

\* A line holds one toggle of a block comment at most.
OneToggle == \A line \in Shapes : \A t, u \in Scan!Triples(line) : t = u

\* What stands behind a toggle on its line matches a pattern.
ClosedPlainly ==
  \A line \in Shapes : \A t \in Scan!Triples(line), i \in DOMAIN line :
    CodeBehind(line, t, i) => line[i] \notin {"bad", "wide", "call"}

\* Where there is an options: block, options: stands flush left, comments do
\* not, and a toggle is not directly followed by anything.
HasOptions(line) == \E i \in DOMAIN line : line[i] = "opt"
OptionsFlushLeft ==
  (\E line \in Shapes : HasOptions(line)) =>
    \A line \in Shapes : \A i \in DOMAIN line :
      /\ line[i] = "opt" => i = 1
      /\ line[i] = "#" => i # 1
      /\ i \in Scan!Triples(line) => i + 1 \notin DOMAIN line \/ White(line[i + 1])

\* The lines the theorems of the scan are about.  A second toggle on a line is
\* not seen by the scan (MCCheckReopen.cfg), a report behind a toggle has the
\* columns of the cut line (MCCheckBehind.cfg), and a comment at the margin ends
\* an options: block (MCCheckOptions.cfg): these are left out, and so is an
\* options: that is not flush left, which no script has.  The lines of the run
\* documents are tidy.
TidyLines ==
  Shapes \subseteq Seq(STRING) /\ OneToggle /\ ClosedPlainly /\ OptionsFlushLeft

OpenAt(n) ==
  \E h \in 1..(n - 1) : /\ Scan!OpensOptions(h)
                        /\ \A k \in (h + 1)..(n - 1) : 1 \notin Scan!CodeColumns(k)

ScanInv ==
  /\ doc \in Seq(Shapes) /\ next \in 1..(Len(doc) + 1)
  /\ inBlock \in BOOLEAN /\ panicked \in BOOLEAN
  /\ options \in {Scan!NoIndent, 0}
  /\ \A d \in diags : d.line \in 1..(next - 1)
  /\ Scan!ColumnsAreOriginal
  /\ ~panicked => /\ inBlock = Scan!CommentAt(next)
                  /\ options = 0 <=> OpenAt(next)
                  /\ Scan!ReportsAreRight

-----------------------------------------------------------------------------
\* The operators of the instance are those of the lemmas.
LEMMA SameScanCardinality == \A S : Scan!Cardinality(S) = Cardinality(S)
BY DEF Scan!Cardinality, Cardinality

LEMMA FirstOf ==
  ASSUME NEW n \in Nat, NEW S \in SUBSET (1..n), S # {}
  PROVE  /\ Scan!Min(S) \in S
         /\ \A x \in S : Scan!Min(S) <= x
<1>1. S \in SUBSET Nat
  OBVIOUS
<1>2. \E x \in S : \A y \in S : x <= y
  BY <1>1, LeastNumber
<1>3. Scan!Min(S) = CHOOSE x \in S : \A y \in S : x <= y
  BY DEF Scan!Min
<1> QED
  BY <1>2, <1>3, Zenon

LEMMA LastOfSet ==
  ASSUME NEW n \in Nat, NEW S \in SUBSET (1..n), S # {}
  PROVE  /\ Scan!Max(S) \in S
         /\ \A x \in S : x <= Scan!Max(S)
<1> DEFINE mirror == {n - x : x \in S}
<1>1. mirror \in SUBSET Nat /\ mirror # {}
  <2>1. \A x \in S : n - x \in Nat
    OBVIOUS
  <2>2. PICK x \in S : TRUE
    OBVIOUS
  <2> QED
    BY <2>1, <2>2
<1>2. PICK m \in mirror : \A y \in mirror : m <= y
  <2> HIDE DEF mirror
  <2> QED
    BY <1>1, LeastNumber
<1>3. PICK x \in S : m = n - x
  BY <1>2
<1>4. \A y \in S : x >= y
  <2> TAKE y \in S
  <2>1. n - x <= n - y
    BY <1>2, <1>3
  <2> QED
    BY <2>1
<1>5. Scan!Max(S) = CHOOSE z \in S : \A y \in S : z >= y
  BY DEF Scan!Max
<1>6. /\ Scan!Max(S) \in S
      /\ \A y \in S : Scan!Max(S) >= y
  BY <1>3, <1>4, <1>5, Zenon
<1> QED
  BY <1>6

\* Columns a to b of a line.
Piece(line, a, b) == SubSeq(line, a, b)

LEMMA PieceOf ==
  ASSUME NEW T, NEW line \in Seq(T),
         NEW a \in 1..(Len(line) + 1), NEW b \in (a - 1)..Len(line)
  PROVE  /\ Piece(line, a, b) \in Seq(T)
         /\ Len(Piece(line, a, b)) = b - a + 1
         /\ DOMAIN Piece(line, a, b) = 1..(b - a + 1)
         /\ \A i \in 1..(b - a + 1) : Piece(line, a, b)[i] = line[a + i - 1]
<1>1. /\ SubSeq(line, a, b) \in Seq(T)
      /\ Len(SubSeq(line, a, b)) = b - a + 1
      /\ \A i \in 1..(b - a + 1) : SubSeq(line, a, b)[i] = line[a + i - 1]
  BY Part
<1> QED
  BY <1>1, LenProperties DEF Piece

\* Quotes before a column.
Quotes(line, i) == {j \in 1..(i - 1) : line[j] = "'"}

LEMMA QuotesAreFinite ==
  ASSUME NEW line, NEW i \in Nat
  PROVE  IsFiniteSet(Quotes(line, i)) /\ Cardinality(Quotes(line, i)) \in Nat
<1>1. IsFiniteSet(1..(i - 1))
  BY FS_Interval
<1>2. Quotes(line, i) \in SUBSET (1..(i - 1))
  BY DEF Quotes
<1> QED
  BY <1>1, <1>2, FS_Subset, FS_CardinalityType

LEMMA UnquotedIs ==
  \A line, i : Scan!Unquoted(line, i) <=> Cardinality(Quotes(line, i)) % 2 = 0
BY SameScanCardinality DEF Scan!Unquoted, Quotes

\* The beginning of a line.
LEMMA RunsOfPrefix ==
  ASSUME NEW line \in Seq(STRING), NEW e \in 0..Len(line), NEW kinds
  PROVE  Scan!Runs(Piece(line, 1, e), kinds) = {i \in Scan!Runs(line, kinds) : i <= e}
<1> DEFINE cut == Piece(line, 1, e)
<1>1. /\ cut \in Seq(STRING) /\ DOMAIN cut = 1..e
      /\ \A i \in 1..e : cut[i] = line[i]
  <2>1. 1 \in 1..(Len(line) + 1) /\ e \in (1 - 1)..Len(line) /\ e - 1 + 1 = e
        /\ \A i \in 1..e : 1 + i - 1 = i
    BY LenProperties
  <2> HIDE DEF cut
  <2>2. /\ cut \in Seq(STRING) /\ DOMAIN cut = 1..(e - 1 + 1)
        /\ \A i \in 1..(e - 1 + 1) : cut[i] = line[1 + i - 1]
    BY <2>1, PieceOf DEF cut
  <2> QED
    BY <2>1, <2>2
<1> HIDE DEF cut
<1>2. DOMAIN line = 1..Len(line) /\ Len(line) \in Nat
  BY LenProperties
<1>3. ASSUME NEW i \in 1..e  PROVE Scan!Unquoted(cut, i) <=> Scan!Unquoted(line, i)
  <2>1. Quotes(cut, i) = Quotes(line, i)
    BY <1>1 DEF Quotes
  <2> QED
    BY <2>1, UnquotedIs
<1> QED
  BY <1>1, <1>2, <1>3 DEF Scan!Runs, cut

\* The end of a line, behind an unquoted column.
LEMMA RunsOfSuffix ==
  ASSUME NEW line \in Seq(STRING), NEW t \in DOMAIN line, line[t] # "'",
         Scan!Unquoted(line, t), NEW kinds
  PROVE  /\ Piece(line, t + 1, Len(line)) \in Seq(STRING)
         /\ DOMAIN Piece(line, t + 1, Len(line)) = 1..(Len(line) - t)
         /\ \A i \in 1..(Len(line) - t) :
              /\ Piece(line, t + 1, Len(line))[i] = line[t + i]
              /\ i \in Scan!Runs(Piece(line, t + 1, Len(line)), kinds)
                   <=> t + i \in Scan!Runs(line, kinds)
<1> DEFINE n == Len(line)
           rest == Piece(line, t + 1, n)
<1>1. DOMAIN line = 1..n /\ n \in Nat /\ t \in 1..n
  BY LenProperties
<1>2. /\ rest \in Seq(STRING) /\ DOMAIN rest = 1..(n - t)
      /\ \A i \in 1..(n - t) : rest[i] = line[t + i]
  <2> DEFINE a == t + 1
  <2>1. a \in 1..(Len(line) + 1) /\ n \in (a - 1)..Len(line) /\ n - a + 1 = n - t
        /\ \A i \in 1..(n - t) : a + i - 1 = t + i
    BY <1>1
  <2>2. rest = Piece(line, a, n)
    OBVIOUS
  <2> HIDE DEF rest, a, n
  <2>3. /\ Piece(line, a, n) \in Seq(STRING) /\ DOMAIN Piece(line, a, n) = 1..(n - a + 1)
        /\ \A i \in 1..(n - a + 1) : Piece(line, a, n)[i] = line[a + i - 1]
    BY <2>1, PieceOf
  <2> QED
    BY <2>1, <2>2, <2>3
<1> HIDE DEF rest, n
<1>3. ASSUME NEW i \in 1..(n - t)  PROVE Scan!Unquoted(rest, i) <=> Scan!Unquoted(line, t + i)
  <2> DEFINE before == Quotes(line, t)
             behind == Quotes(rest, i)
             moved == {t + j : j \in behind}
  <2>1. i \in Nat /\ t \in Nat /\ t + i \in Nat
    BY <1>1
  <2>2. Quotes(line, t + i) = before \cup moved
    <3>1. ASSUME NEW j \in Quotes(line, t + i)  PROVE j \in before \cup moved
      <4>1. j \in 1..(t + i - 1) /\ line[j] = "'"
        BY <3>1 DEF Quotes
      <4>2. CASE j < t
        BY <1>1, <4>1, <4>2 DEF Quotes
      <4>3. CASE j = t
        BY <4>1, <4>3
      <4>4. CASE j > t
        <5>1. j - t \in 1..(i - 1) /\ j - t \in 1..(n - t) /\ t + (j - t) = j
          BY <1>1, <4>1, <4>4
        <5>2. rest[j - t] = "'"
          BY <1>2, <4>1, <5>1
        <5>3. j - t \in behind
          BY <5>1, <5>2 DEF Quotes
        <5> QED
          BY <5>1, <5>3
      <4> QED
        BY <1>1, <4>1, <4>2, <4>3, <4>4
    <3>2. ASSUME NEW j \in before  PROVE j \in Quotes(line, t + i)
      BY <1>1, <3>2 DEF Quotes
    <3>3. ASSUME NEW j \in behind  PROVE t + j \in Quotes(line, t + i)
      <4>1. j \in 1..(i - 1) /\ rest[j] = "'"
        BY <3>3 DEF Quotes
      <4>2. t + j \in 1..(t + i - 1) /\ line[t + j] = "'"
        BY <1>1, <1>2, <4>1
      <4> QED
        BY <4>2 DEF Quotes
    <3> QED
      BY <3>1, <3>2, <3>3
  <2>3. IsFiniteSet(before) /\ IsFiniteSet(behind) /\ Cardinality(before) \in Nat
        /\ Cardinality(behind) \in Nat
    BY <2>1, QuotesAreFinite
  <2>4. \A j \in behind : j \in 1..(i - 1)
    BY DEF Quotes
  <2>5. \A j \in before : j \in 1..(t - 1)
    BY DEF Quotes
  <2> HIDE DEF before, behind
  <2>6. IsFiniteSet(moved) /\ Cardinality(moved) = Cardinality(behind)
    <3> DEFINE f == [j \in behind |-> t + j]
    <3>1. f \in [behind -> moved] /\ (\A a, b \in behind : f[a] = f[b] => a = b)
          /\ \A m \in moved : \E j \in behind : f[j] = m
      BY <2>1, <2>4
    <3> HIDE DEF f, moved
    <3>2. f \in Injection(behind, moved) /\ f \in Surjection(behind, moved)
      BY <3>1, Zenon DEF Injection, Surjection, IsInjective
    <3> QED
      BY <2>3, <3>2, FS_Surjection
  <2>7. before \cap moved = {}
    BY <2>1, <2>4, <2>5
  <2> HIDE DEF moved
  <2>8. Cardinality(Quotes(line, t + i)) = Cardinality(before) + Cardinality(behind)
    <3>1. Cardinality(before \cup moved)
            = Cardinality(before) + Cardinality(moved) - Cardinality(before \cap moved)
      BY <2>3, <2>6, FS_Union
    <3>2. Cardinality(before \cap moved) = 0
      BY <2>7, FS_EmptySet
    <3>3. \A a, b \in Nat : a + b - 0 = a + b
      OBVIOUS
    <3>4. Cardinality(before \cup moved) = Cardinality(before) + Cardinality(behind)
      BY <2>3, <2>6, <3>1, <3>2, <3>3
    <3> QED
      BY <2>2, <3>4, Zenon
  <2>9. Cardinality(before) % 2 = 0
    BY UnquotedIs DEF before
  <2>10. \A a, b \in Nat : a % 2 = 0 => ((a + b) % 2 = 0 <=> b % 2 = 0)
    OBVIOUS
  <2> QED
    BY <2>3, <2>8, <2>9, <2>10, UnquotedIs DEF behind
<1>4. \A i \in 1..(n - t) : i \in Scan!Runs(rest, kinds) <=> t + i \in Scan!Runs(line, kinds)
  <2> TAKE i \in 1..(n - t)
  <2>1. t + i \in DOMAIN line /\ rest[i] = line[t + i] /\ i \in DOMAIN rest
    BY <1>1, <1>2
  <2> QED
    BY <1>3, <2>1 DEF Scan!Runs
<1> QED
  BY <1>2, <1>4 DEF rest, n

\* The columns before the first comment of a line that are not white space.
Code(line) == {i \in DOMAIN line : ~White(line[i]) /\ ~\E h \in Hashes(line) : h <= i}

LEMMA SolidIs == \A line : Scan!Solid(line) = {i \in DOMAIN line : ~White(line[i])}
BY Zenon DEF Scan!Solid, White

\* strip_comment cuts a line before its first comment.
LEMMA StripCommentIs ==
  ASSUME NEW line \in Seq(STRING)
  PROVE  \E e \in 0..Len(line) :
           /\ Scan!StripComment(line) = Piece(line, 1, e)
           /\ \A i \in 1..Len(line) : i <= e <=> ~\E h \in Hashes(line) : h <= i
<1> DEFINE n == Len(line)
           hashes == Hashes(line)
<1>1. DOMAIN line = 1..n /\ n \in Nat
  BY LenProperties
<1>2. hashes \in SUBSET (1..n)
  BY <1>1 DEF Hashes, Scan!Runs
<1>3. Scan!StripComment(line) = IF hashes = {} THEN line ELSE Piece(line, 1, Scan!Min(hashes) - 1)
  BY DEF Scan!StripComment, Hashes, Piece
<1>4. line = Piece(line, 1, n)
  BY SubSeqFull DEF Piece
<1> HIDE DEF hashes, n
<1>5. CASE hashes = {}
  BY <1>1, <1>3, <1>4, <1>5 DEF hashes, n
<1>6. CASE hashes # {}
  <2> DEFINE m == Scan!Min(hashes)
  <2>1. m \in hashes /\ \A x \in hashes : m <= x
    BY <1>1, <1>2, <1>6, FirstOf
  <2> HIDE DEF m
  <2>2. m \in 1..n /\ m - 1 \in 0..n
    BY <1>1, <1>2, <2>1
  <2>3. \A i \in 1..n : i <= m - 1 <=> ~\E h \in hashes : h <= i
    BY <1>1, <1>2, <2>1, <2>2
  <2>4. Scan!StripComment(line) = Piece(line, 1, m - 1)
    BY <1>3, <1>6 DEF m
  <2> QED
    BY <2>2, <2>3, <2>4 DEF hashes, n
<1> QED
  BY <1>5, <1>6

\* What analyze_line looks at: from the first to the last column of code.
LEMMA StrippedIs ==
  ASSUME NEW line \in Seq(STRING)
  PROVE  /\ Code(line) = {} => Scan!Stripped(line) = <<>>
         /\ Code(line) # {} =>
              LET a == Scan!Min(Code(line))
                  b == Scan!Max(Code(line))
              IN  /\ Scan!Stripped(line) \in Seq(STRING)
                  /\ Len(Scan!Stripped(line)) = b - a + 1
                  /\ DOMAIN Scan!Stripped(line) = 1..(b - a + 1)
                  /\ \A i \in 1..(b - a + 1) : Scan!Stripped(line)[i] = line[a + i - 1]
<1> DEFINE n == Len(line)
<1>1. DOMAIN line = 1..n /\ n \in Nat
  BY LenProperties
<1>2. PICK e \in 0..n : /\ Scan!StripComment(line) = Piece(line, 1, e)
                        /\ \A i \in 1..n : i <= e <=> ~\E h \in Hashes(line) : h <= i
  BY StripCommentIs
<1> DEFINE c == Piece(line, 1, e)
<1>3. /\ c \in Seq(STRING) /\ Len(c) = e /\ DOMAIN c = 1..e
      /\ \A i \in 1..e : c[i] = line[i]
  <2>1. 1 \in 1..(Len(line) + 1) /\ e \in (1 - 1)..Len(line) /\ e - 1 + 1 = e
        /\ \A i \in 1..e : 1 + i - 1 = i
    BY <1>1
  <2>2. /\ Piece(line, 1, e) \in Seq(STRING) /\ Len(Piece(line, 1, e)) = e - 1 + 1
        /\ DOMAIN Piece(line, 1, e) = 1..(e - 1 + 1)
        /\ \A i \in 1..(e - 1 + 1) : Piece(line, 1, e)[i] = line[1 + i - 1]
    <3> HIDE DEF n
    <3> QED
      BY <2>1, PieceOf
  <2> QED
    BY <2>1, <2>2
<1> HIDE DEF c, n
<1>4. Scan!Solid(c) = Code(line)
  <2>1. Scan!Solid(c) = {i \in DOMAIN c : ~White(c[i])}
    BY SolidIs
  <2> QED
    BY <1>1, <1>2, <1>3, <2>1 DEF Code
<1>5. Scan!Stripped(line) = IF Code(line) = {} THEN <<>>
                            ELSE Piece(c, Scan!Min(Code(line)), Scan!Max(Code(line)))
  BY <1>2, <1>4 DEF Scan!Stripped, Scan!Trim, Piece, c
<1>6. ASSUME Code(line) # {}
      PROVE  LET a == Scan!Min(Code(line))
                 b == Scan!Max(Code(line))
             IN  /\ Scan!Stripped(line) \in Seq(STRING)
                 /\ Len(Scan!Stripped(line)) = b - a + 1
                 /\ DOMAIN Scan!Stripped(line) = 1..(b - a + 1)
                 /\ \A i \in 1..(b - a + 1) : Scan!Stripped(line)[i] = line[a + i - 1]
  <2> DEFINE a == Scan!Min(Code(line))
             b == Scan!Max(Code(line))
  <2>1. Code(line) \in SUBSET (1..e)
    BY <1>3, <1>4, SolidIs
  <2>2. a \in Code(line) /\ b \in Code(line) /\ a <= b
    <3>1. e \in Nat
      BY <1>1
    <3>2. a \in Code(line) /\ b \in Code(line) /\ \A x \in Code(line) : a <= x
      BY <1>6, <2>1, <3>1, FirstOf, LastOfSet
    <3> QED
      BY <3>2
  <2> HIDE DEF a, b
  <2>3. a \in 1..e /\ b \in 1..e /\ a \in 1..(Len(c) + 1) /\ b \in (a - 1)..Len(c)
    BY <1>3, <2>1, <2>2
  <2>4. Scan!Stripped(line) = Piece(c, a, b)
    BY <1>5, <1>6 DEF a, b
  <2>5. /\ Piece(c, a, b) \in Seq(STRING)
        /\ Len(Piece(c, a, b)) = b - a + 1
        /\ DOMAIN Piece(c, a, b) = 1..(b - a + 1)
        /\ \A i \in 1..(b - a + 1) : Piece(c, a, b)[i] = c[a + i - 1]
    BY <1>3, <2>3, PieceOf
  <2>6. \A i \in 1..(b - a + 1) : a + i - 1 \in 1..e
    BY <2>3
  <2>7. \A i \in 1..(b - a + 1) : Piece(c, a, b)[i] = line[a + i - 1]
    BY <1>3, <2>5, <2>6
  <2> QED
    BY <2>4, <2>5, <2>7 DEF a, b
<1> QED
  BY <1>5, <1>6

\* What the loop asks of the code of a line.
Unmatched(line) == \E i \in Code(line) : line[i] \in {"bad", "wide", "call"}
FirstColumn(line) == Scan!Min(Code(line))
LastColumn(line) == Scan!Max(Code(line))
Indented(line) == Scan!Trim(line) = <<>> \/ Scan!LeadingWhitespace(line) > 0

LEMMA CodeColumnsAre ==
  ASSUME NEW line \in Seq(STRING), Code(line) # {}
  PROVE  /\ FirstColumn(line) \in Code(line) /\ LastColumn(line) \in Code(line)
         /\ \A i \in Code(line) : FirstColumn(line) <= i /\ i <= LastColumn(line)
         /\ Code(line) \in SUBSET (1..Len(line)) /\ Len(line) \in Nat
<1>1. DOMAIN line = 1..Len(line) /\ Len(line) \in Nat
  BY LenProperties
<1>2. Code(line) \in SUBSET (1..Len(line))
  BY <1>1 DEF Code
<1> QED
  BY <1>1, <1>2, FirstOf, LastOfSet DEF FirstColumn, LastColumn

LEMMA LineIs ==
  ASSUME NEW line \in Seq(STRING)
  PROVE  /\ Scan!Stripped(line) = <<>> <=> Code(line) = {}
         /\ \A kinds : Scan!StartsWith(line, kinds)
                         <=> Code(line) # {} /\ line[FirstColumn(line)] \in kinds
         /\ (\E i \in DOMAIN Scan!Stripped(line) :
               Scan!Stripped(line)[i] \in {"bad", "wide", "call"}) <=> Unmatched(line)
         /\ Scan!Stripped(line) = <<"opt">>
              <=> \E i \in Code(line) : Code(line) = {i} /\ line[i] = "opt"
         /\ Code(line) # {} => Len(Scan!Stripped(line)) = LastColumn(line) - FirstColumn(line) + 1
<1> DEFINE text0 == Scan!Stripped(line)
           a == FirstColumn(line)
           b == LastColumn(line)
<1>1. CASE Code(line) = {}
  <2>1. text0 = <<>> /\ DOMAIN text0 = {}
    BY <1>1, StrippedIs
  <2>2. text0 # <<"opt">>
    BY <2>1
  <2> QED
    BY <1>1, <2>1, <2>2 DEF Scan!StartsWith, Unmatched
<1>2. CASE Code(line) # {}
  <2>1. /\ text0 \in Seq(STRING) /\ Len(text0) = b - a + 1 /\ DOMAIN text0 = 1..(b - a + 1)
        /\ \A i \in 1..(b - a + 1) : text0[i] = line[a + i - 1]
    BY <1>2, StrippedIs DEF FirstColumn, LastColumn
  <2>2. /\ a \in Code(line) /\ b \in Code(line)
        /\ \A i \in Code(line) : a <= i /\ i <= b
        /\ Code(line) \in SUBSET (1..Len(line)) /\ Len(line) \in Nat
    BY <1>2, CodeColumnsAre
  <2> HIDE DEF text0, a, b
  <2>3. a \in Nat /\ b \in Nat /\ 1 \in 1..(b - a + 1) /\ a + 1 - 1 = a
    BY <2>2
  <2>4. text0[1] = line[a] /\ text0 # <<>>
    BY <2>1, <2>3
  <2>5. \A kinds : Scan!StartsWith(line, kinds) <=> line[a] \in kinds
    BY <2>4 DEF Scan!StartsWith, text0
  <2>6. (\E i \in DOMAIN text0 : text0[i] \in {"bad", "wide", "call"}) <=> Unmatched(line)
    <3>1. ASSUME NEW i \in DOMAIN text0, text0[i] \in {"bad", "wide", "call"}
          PROVE  Unmatched(line)
      <4>1. a + i - 1 \in 1..b /\ line[a + i - 1] = text0[i] /\ a + i - 1 <= b
        BY <2>1, <2>2, <2>3, <3>1
      <4>2. a + i - 1 \in DOMAIN line /\ a + i - 1 \in Nat
        BY <2>2, <4>1, LenProperties
      <4>3. ~\E h \in Hashes(line) : h <= b
        BY <2>2 DEF Code
      <4>4. \A h \in Hashes(line) : h \in Nat
        <5>1. DOMAIN line = 1..Len(line)
          BY LenProperties
        <5> QED
          BY <5>1 DEF Hashes, Scan!Runs
      <4>5. ~\E h \in Hashes(line) : h <= a + i - 1
        BY <2>3, <4>1, <4>2, <4>3, <4>4
      <4>6. a + i - 1 \in Code(line)
        <5>1. ~White(text0[i])
          BY <3>1, Zenon DEF White
        <5>2. ~White(line[a + i - 1])
          BY <4>1, <5>1, Zenon
        <5> QED
          BY <4>2, <4>5, <5>2 DEF Code
      <4> QED
        BY <3>1, <4>1, <4>6 DEF Unmatched
    <3>2. ASSUME NEW i \in Code(line), line[i] \in {"bad", "wide", "call"}
          PROVE  \E j \in DOMAIN text0 : text0[j] \in {"bad", "wide", "call"}
      <4>1. i - a + 1 \in 1..(b - a + 1) /\ a + (i - a + 1) - 1 = i
        BY <2>2, <2>3
      <4>2. text0[i - a + 1] = line[i]
        BY <2>1, <4>1
      <4> QED
        BY <2>1, <3>2, <4>1, <4>2
    <3> QED
      BY <3>1, <3>2 DEF Unmatched
  <2>7. text0 = <<"opt">> <=> \E i \in Code(line) : Code(line) = {i} /\ line[i] = "opt"
    <3>1. ASSUME text0 = <<"opt">>  PROVE Code(line) = {a} /\ line[a] = "opt"
      <4>1. Len(text0) = 1 /\ text0[1] = "opt"
        BY <3>1
      <4>2. a = b
        <5>1. Len(text0) = 1 /\ Len(text0) = b - a + 1
          BY <2>1, <4>1
        <5>2. \A x, y \in Nat : y - x + 1 = 1 => x = y
          OBVIOUS
        <5>3. b - a + 1 = 1
          BY <5>1
        <5> QED
          BY <2>3, <5>2, <5>3
      <4>3. \A i \in Code(line) : i = a
        BY <2>2, <4>2
      <4> QED
        BY <2>2, <2>4, <4>1, <4>3
    <3>2. ASSUME NEW i \in Code(line), Code(line) = {i}, line[i] = "opt"
          PROVE  text0 = <<"opt">>
      <4>1. a = i /\ b = i
        BY <2>2, <3>2
      <4>2. Len(text0) = 1
        BY <2>1, <2>3, <4>1
      <4>3. text0[1] = "opt"
        BY <2>4, <3>2, <4>1
      <4>4. text0 \in Seq(STRING)
        BY <2>1
      <4> QED
        BY <4>2, <4>3, <4>4
    <3> QED
      BY <2>2, <3>1, <3>2
  <2> QED
    BY <1>2, <2>1, <2>4, <2>5, <2>6, <2>7 DEF text0, a, b
<1> QED
  BY <1>1, <1>2

\* The indentation of a line.
LEMMA IndentationIs ==
  ASSUME NEW line \in Seq(STRING)
  PROVE  /\ Indented(line) <=> line = <<>> \/ White(line[1])
         /\ Code(line) # {} => Scan!LeadingWhitespace(line) = FirstColumn(line) - 1
         /\ Scan!LeadingWhitespace(line) \in Nat
<1> DEFINE n == Len(line)
           solid == Scan!Solid(line)
<1>1. DOMAIN line = 1..n /\ n \in Nat
  BY LenProperties
<1>2. solid \in SUBSET (1..n) /\ solid = {i \in 1..n : ~White(line[i])}
  BY <1>1, SolidIs
<1>3. CASE solid = {}
  <2>1. Scan!Trim(line) = <<>> /\ Scan!LeadingWhitespace(line) = n
    BY <1>3 DEF Scan!Trim, Scan!LeadingWhitespace
  <2>2. Code(line) = {}
    BY <1>1, <1>2, <1>3 DEF Code
  <2>3. line = <<>> \/ White(line[1])
    <3>1. n = 0 => line = <<>>
      BY EmptySeq
    <3>2. n # 0 => 1 \in 1..n
      BY <1>1
    <3> QED
      BY <1>2, <1>3, <3>1, <3>2
  <2> QED
    BY <1>1, <2>1, <2>2, <2>3 DEF Indented
<1>4. CASE solid # {}
  <2> DEFINE m == Scan!Min(solid)
  <2> HIDE DEF solid
  <2>1. m \in solid /\ \A x \in solid : m <= x
    BY <1>1, <1>2, <1>4, FirstOf
  <2>2. Scan!LeadingWhitespace(line) = m - 1
    BY <1>4 DEF Scan!LeadingWhitespace, solid
  <2> HIDE DEF m
  <2>3. m \in 1..n /\ 1 \in 1..n
    BY <1>1, <1>2, <2>1
  <2>4. Scan!Trim(line) # <<>>
    <3> DEFINE z == Scan!Max(solid)
    <3>1. z \in solid /\ \A x \in solid : x <= z
      BY <1>1, <1>2, <1>4, LastOfSet
    <3>2. Scan!Trim(line) = Piece(line, m, z)
      BY <1>4 DEF Scan!Trim, Piece, m, solid
    <3> HIDE DEF z
    <3>3. z \in 1..n /\ m <= z /\ m \in 1..(Len(line) + 1) /\ z \in (m - 1)..Len(line)
      BY <1>1, <1>2, <2>1, <2>3, <3>1
    <3>4. Len(Piece(line, m, z)) = z - m + 1
      BY <3>3, PieceOf
    <3>5. z - m + 1 # 0
      BY <2>3, <3>3
    <3> QED
      BY <3>2, <3>4, <3>5, EmptySeq
  <2>5. line # <<>>
    BY <2>3, EmptySeq
  <2>6. m - 1 > 0 <=> White(line[1])
    BY <1>1, <1>2, <2>1, <2>3
  <2>7. ASSUME Code(line) # {}  PROVE m = FirstColumn(line)
    <3> DEFINE a == FirstColumn(line)
    <3>1. a \in Code(line) /\ (\A i \in Code(line) : a <= i) /\ Code(line) \in SUBSET (1..n)
      BY <2>7, CodeColumnsAre
    <3> HIDE DEF a
    <3>2. a \in solid
      BY <1>1, <1>2, <3>1 DEF Code
    <3>3. m <= a
      BY <2>1, <3>2
    <3>4. \A h \in Hashes(line) : h \in Nat
      BY <1>1 DEF Hashes, Scan!Runs
    <3>5. ~\E h \in Hashes(line) : h <= m
      <4>1. ~\E h \in Hashes(line) : h <= a
        BY <3>1 DEF Code
      <4>2. a \in Nat /\ m \in Nat
        BY <2>3, <3>1
      <4> QED
        BY <3>3, <3>4, <4>1, <4>2
    <3>6. m \in Code(line)
      BY <1>1, <1>2, <2>1, <3>5 DEF Code
    <3>7. a <= m
      BY <3>1, <3>6
    <3> QED
      BY <2>3, <3>1, <3>3, <3>7 DEF a
  <2> QED
    BY <2>2, <2>3, <2>4, <2>5, <2>6, <2>7 DEF Indented
<1> QED
  BY <1>3, <1>4

\* Cutting a line at one of its comments leaves its code.
LEMMA CodeOfPrefix ==
  ASSUME NEW line \in Seq(STRING), NEW t \in Hashes(line)
  PROVE  /\ Piece(line, 1, t - 1) \in Seq(STRING)
         /\ DOMAIN Piece(line, 1, t - 1) = 1..(t - 1)
         /\ \A i \in 1..(t - 1) : Piece(line, 1, t - 1)[i] = line[i]
         /\ Code(Piece(line, 1, t - 1)) = Code(line)
<1> DEFINE n == Len(line)
           e == t - 1
           cut == Piece(line, 1, e)
<1>1. DOMAIN line = 1..n /\ n \in Nat
  BY LenProperties
<1>2. Hashes(line) \in SUBSET (1..n)
  BY <1>1 DEF Hashes, Scan!Runs
<1>3. t \in 1..n /\ e \in 0..n
  BY <1>1, <1>2
<1>4. /\ cut \in Seq(STRING) /\ DOMAIN cut = 1..e
      /\ \A i \in 1..e : cut[i] = line[i]
  <2>1. 1 \in 1..(Len(line) + 1) /\ e \in (1 - 1)..Len(line) /\ e - 1 + 1 = e
        /\ \A i \in 1..e : 1 + i - 1 = i
    BY <1>1, <1>3
  <2> HIDE DEF e
  <2>2. /\ Piece(line, 1, e) \in Seq(STRING) /\ DOMAIN Piece(line, 1, e) = 1..(e - 1 + 1)
        /\ \A i \in 1..(e - 1 + 1) : Piece(line, 1, e)[i] = line[1 + i - 1]
    BY <2>1, PieceOf
  <2> QED
    BY <2>1, <2>2
<1>5. Hashes(cut) = {i \in Hashes(line) : i <= e}
  <2> HIDE DEF e, n
  <2> QED
    BY <1>3, RunsOfPrefix DEF Hashes, n
<1> HIDE DEF cut
<1>6. ASSUME NEW i \in Code(line)  PROVE i \in Code(cut)
  <2>1. i \in 1..n /\ ~White(line[i]) /\ ~\E h \in Hashes(line) : h <= i
    BY <1>1 DEF Code
  <2>2. i \in 1..e
    BY <1>3, <2>1
  <2> QED
    BY <1>4, <1>5, <2>1, <2>2 DEF Code
<1>7. ASSUME NEW i \in Code(cut)  PROVE i \in Code(line)
  <2>1. i \in 1..e /\ ~White(cut[i]) /\ ~\E h \in Hashes(cut) : h <= i
    BY <1>4 DEF Code
  <2>2. ~\E h \in Hashes(line) : h <= i
    BY <1>2, <1>3, <1>5, <2>1
  <2> QED
    BY <1>1, <1>3, <1>4, <2>1, <2>2 DEF Code
<1> QED
  BY <1>4, <1>6, <1>7 DEF cut

\* What stands behind a toggle.
LEMMA CodeOfSuffix ==
  ASSUME NEW line \in Seq(STRING), NEW t \in Scan!Triples(line)
  PROVE  /\ Piece(line, t + 1, Len(line)) \in Seq(STRING)
         /\ DOMAIN Piece(line, t + 1, Len(line)) = 1..(Len(line) - t)
         /\ \A i \in 1..(Len(line) - t) :
              /\ Piece(line, t + 1, Len(line))[i] = line[t + i]
              /\ i \in Code(Piece(line, t + 1, Len(line))) <=> CodeBehind(line, t, t + i)
<1> DEFINE n == Len(line)
           rest == Piece(line, t + 1, n)
<1>1. DOMAIN line = 1..n /\ n \in Nat
  BY LenProperties
<1>2. t \in DOMAIN line /\ line[t] = "###" /\ Scan!Unquoted(line, t)
  BY DEF Scan!Triples, Scan!Runs
<1>3. line[t] # "'"
  BY <1>2
<1>4. /\ rest \in Seq(STRING) /\ DOMAIN rest = 1..(n - t)
      /\ \A i \in 1..(n - t) : /\ rest[i] = line[t + i]
                               /\ i \in Hashes(rest) <=> t + i \in Hashes(line)
  BY <1>2, <1>3, RunsOfSuffix DEF Hashes
<1>5. Hashes(rest) \in SUBSET (1..(n - t)) /\ Hashes(line) \in SUBSET (1..n)
  BY <1>1, <1>4 DEF Hashes, Scan!Runs
<1> HIDE DEF rest, n
<1>6. ASSUME NEW i \in 1..(n - t)  PROVE i \in Code(rest) <=> CodeBehind(line, t, t + i)
  <2>1. t \in 1..n /\ t < t + i /\ t + i \in 1..n
    BY <1>1, <1>2
  <2>2. i \in DOMAIN rest /\ rest[i] = line[t + i]
    BY <1>4
  <2>3. (\E h \in Hashes(rest) : h <= i) <=> \E h \in Hashes(line) : t < h /\ h <= t + i
    <3>1. ASSUME NEW h \in Hashes(rest), h <= i
          PROVE  t + h \in Hashes(line) /\ t < t + h /\ t + h <= t + i
      BY <1>4, <1>5, <2>1, <3>1
    <3>2. ASSUME NEW h \in Hashes(line), t < h, h <= t + i
          PROVE  h - t \in Hashes(rest) /\ h - t <= i
      <4>1. h - t \in 1..(n - t) /\ t + (h - t) = h /\ h - t <= i
        <5>1. h \in Int /\ t \in Int /\ n \in Int /\ i \in Int /\ h <= n
          BY <1>1, <1>5, <2>1
        <5>2. t < h /\ h <= t + i
          BY <3>2
        <5> QED
          BY <5>1, <5>2
      <4> QED
        BY <1>4, <4>1
    <3> QED
      BY <3>1, <3>2
  <2> QED
    BY <2>1, <2>2, <2>3 DEF Code, CodeBehind
<1> QED
  BY <1>4, <1>6 DEF rest, n

-----------------------------------------------------------------------------
(* The lines of the document.                                              *)

LEMMA LinesAre ==
  ASSUME TidyLines, doc \in Seq(Shapes), NEW n \in 1..Len(doc)
  PROVE  /\ doc[n] \in Shapes /\ doc[n] \in Seq(STRING)
         /\ DOMAIN doc[n] = 1..Len(doc[n]) /\ Len(doc[n]) \in Nat
         /\ Hashes(doc[n]) \in SUBSET (1..Len(doc[n]))
         /\ Scan!Triples(doc[n]) \in SUBSET Hashes(doc[n])
         /\ \A t \in Scan!Triples(doc[n]) : Scan!Triples(doc[n]) = {t} /\ Scan!Min(Scan!Triples(doc[n])) = t
<1>1. doc[n] \in Shapes
  BY ElementOfSeq
<1>2. doc[n] \in Seq(STRING)
  BY <1>1 DEF TidyLines
<1>3. DOMAIN doc[n] = 1..Len(doc[n]) /\ Len(doc[n]) \in Nat
  BY <1>2, LenProperties
<1>4. Hashes(doc[n]) \in SUBSET (1..Len(doc[n]))
  BY <1>3 DEF Hashes, Scan!Runs
<1>5. Scan!Triples(doc[n]) \in SUBSET Hashes(doc[n])
  BY DEF Hashes, Scan!Runs, Scan!Triples
<1>6. ASSUME NEW t \in Scan!Triples(doc[n])
      PROVE  Scan!Triples(doc[n]) = {t} /\ Scan!Min(Scan!Triples(doc[n])) = t
  <2>1. Scan!Triples(doc[n]) = {t}
    BY <1>1 DEF TidyLines, OneToggle
  <2>2. Scan!Min(Scan!Triples(doc[n])) \in Scan!Triples(doc[n])
    BY <1>3, <1>4, <1>5, <1>6, FirstOf
  <2> QED
    BY <2>1, <2>2
<1> QED
  BY <1>1, <1>2, <1>3, <1>4, <1>5, <1>6

\* The columns of code of a line that starts outside comments.
LEMMA ColumnsOutside ==
  ASSUME TidyLines, doc \in Seq(Shapes), NEW n \in 1..Len(doc), ~Scan!CommentAt(n)
  PROVE  Scan!CodeColumns(n) = Code(doc[n])
<1> DEFINE line == doc[n]
<1>1. /\ DOMAIN line = 1..Len(line) /\ Len(line) \in Nat
      /\ Hashes(line) \in SUBSET (1..Len(line))
  BY LinesAre
<1>2. Scan!CodeColumns(n) =
        {i \in (0 + 1)..Len(line) : ~White(line[i]) /\ ~\E h \in Hashes(line) : 0 < h /\ h <= i}
  BY Zenon DEF Scan!CodeColumns, White, Hashes
<1> HIDE DEF line
<1>3. (0 + 1)..Len(line) = DOMAIN line
  BY <1>1
<1>4. \A h \in Hashes(line) : 0 < h
  BY <1>1
<1>5. Scan!CodeColumns(n) = Code(line)
  BY <1>2, <1>3, <1>4 DEF Code
<1> QED
  BY <1>5 DEF line

\* The columns of code of a line that starts in a comment.
LEMMA ColumnsInside ==
  ASSUME TidyLines, doc \in Seq(Shapes), NEW n \in 1..Len(doc), Scan!CommentAt(n)
  PROVE  /\ Scan!Triples(doc[n]) = {} => Scan!CodeColumns(n) = {}
         /\ \A t \in Scan!Triples(doc[n]) :
              Scan!CodeColumns(n) = {i \in DOMAIN doc[n] : CodeBehind(doc[n], t, i)}
<1> DEFINE line == doc[n]
           start == IF Scan!Triples(line) = {} THEN Len(line) ELSE Scan!Min(Scan!Triples(line))
<1>1. /\ DOMAIN line = 1..Len(line) /\ Len(line) \in Nat
      /\ Hashes(line) \in SUBSET (1..Len(line))
      /\ Scan!Triples(line) \in SUBSET Hashes(line)
      /\ \A t \in Scan!Triples(line) : Scan!Min(Scan!Triples(line)) = t
  BY LinesAre
<1>2. Scan!CodeColumns(n) =
        {i \in (start + 1)..Len(line) :
           ~White(line[i]) /\ ~\E h \in Hashes(line) : start < h /\ h <= i}
  BY Zenon DEF Scan!CodeColumns, White, Hashes
<1> HIDE DEF line, start
<1>3. ASSUME Scan!Triples(line) = {}  PROVE Scan!CodeColumns(n) = {}
  <2>1. start = Len(line) /\ (Len(line) + 1)..Len(line) = {}
    BY <1>1, <1>3 DEF start
  <2> QED
    BY <1>2, <2>1
<1>4. ASSUME NEW t \in Scan!Triples(line)
      PROVE  Scan!CodeColumns(n) = {i \in DOMAIN line : CodeBehind(line, t, i)}
  <2>1. start = t /\ t \in 1..Len(line)
    BY <1>1, <1>4 DEF start
  <2>2. \A i : i \in (t + 1)..Len(line) <=> i \in DOMAIN line /\ t < i
    BY <1>1, <2>1
  <2> QED
    BY <1>2, <2>1, <2>2 DEF CodeBehind
<1> QED
  BY <1>3, <1>4 DEF line

LEMMA ColumnsType ==
  ASSUME TidyLines, doc \in Seq(Shapes), NEW n \in 1..Len(doc)
  PROVE  /\ Scan!CodeColumns(n) \in SUBSET (1..Len(doc[n])) /\ Len(doc[n]) \in Nat
         /\ \A i \in Scan!CodeColumns(n) : ~White(doc[n][i])
<1>1. DOMAIN doc[n] = 1..Len(doc[n]) /\ Len(doc[n]) \in Nat
  BY LinesAre
<1>2. CASE ~Scan!CommentAt(n)
  BY <1>1, <1>2, ColumnsOutside DEF Code
<1>3. CASE Scan!CommentAt(n) /\ Scan!Triples(doc[n]) = {}
  BY <1>1, <1>3, ColumnsInside
<1>4. CASE Scan!CommentAt(n) /\ Scan!Triples(doc[n]) # {}
  <2>1. PICK t \in Scan!Triples(doc[n]) : TRUE
    BY <1>4
  <2>2. Scan!CodeColumns(n) = {i \in DOMAIN doc[n] : CodeBehind(doc[n], t, i)}
    BY <1>4, <2>1, ColumnsInside
  <2> QED
    BY <1>1, <2>2 DEF CodeBehind
<1> QED
  BY <1>2, <1>3, <1>4

\* Every toggle turns the comment on or off.
LEMMA TogglesAlternate ==
  ASSUME TidyLines, doc \in Seq(Shapes), NEW n \in 1..Len(doc)
  PROVE  /\ Scan!Triples(doc[n]) = {} => (Scan!CommentAt(n + 1) <=> Scan!CommentAt(n))
         /\ Scan!Triples(doc[n]) # {} => (Scan!CommentAt(n + 1) <=> ~Scan!CommentAt(n))
<1> DEFINE On(k) == {<<k, i>> : i \in Scan!Triples(doc[k])}
           before == Scan!TogglesBefore(n)
<1>1. n \in Nat /\ Len(doc) \in Nat /\ (n + 1) - 1 = n
  BY LenProperties
<1>2. before = UNION {On(k) : k \in 1..(n - 1)}
      /\ Scan!TogglesBefore(n + 1) = UNION {On(k) : k \in 1..((n + 1) - 1)}
  BY DEF Scan!TogglesBefore
<1>3. Scan!TogglesBefore(n + 1) = before \cup On(n)
  <2> HIDE DEF On, before
  <2>1. 1..n = (1..(n - 1)) \cup {n}
    BY <1>1
  <2> QED
    BY <1>1, <1>2, <2>1
<1>4. \A x \in before : \E k \in 1..(n - 1) : x \in On(k)
  BY <1>2
<1>5. IsFiniteSet(before)
  <2> DEFINE f == [x \in before |-> x[1]]
  <2>1. \A x \in before : f[x] \in 1..(n - 1)
    BY <1>4
  <2>2. ASSUME NEW x \in before, NEW y \in before, f[x] = f[y]  PROVE x = y
    <3>1. PICK k \in 1..(n - 1) : x \in On(k)
      BY <1>4
    <3>2. PICK l \in 1..(n - 1) : y \in On(l)
      BY <1>4
    <3>3. PICK i \in Scan!Triples(doc[k]) : x = <<k, i>>
      BY <3>1
    <3>4. PICK j \in Scan!Triples(doc[l]) : y = <<l, j>>
      BY <3>2
    <3>5. k = l
      BY <2>2, <3>3, <3>4
    <3>6. k \in 1..Len(doc)
      BY <1>1
    <3>7. Scan!Triples(doc[k]) = {i}
      BY <3>3, <3>6, LinesAre
    <3> QED
      BY <3>3, <3>4, <3>5, <3>7
  <2>3. IsFiniteSet(1..(n - 1))
    BY <1>1, FS_Interval
  <2> HIDE DEF before
  <2>4. f \in [before -> 1..(n - 1)]
    BY <2>1
  <2> HIDE DEF f
  <2>5. f \in Injection(before, 1..(n - 1))
    BY <2>2, <2>4, Zenon DEF Injection, IsInjective
  <2> QED
    BY <2>3, <2>5, FS_Injection
<1>6. Scan!CommentAt(n) <=> Cardinality(before) % 2 = 1
  BY SameScanCardinality DEF Scan!CommentAt
<1>7. Scan!CommentAt(n + 1) <=> Cardinality(Scan!TogglesBefore(n + 1)) % 2 = 1
  BY SameScanCardinality DEF Scan!CommentAt
<1>8. ASSUME Scan!Triples(doc[n]) = {}  PROVE Scan!CommentAt(n + 1) <=> Scan!CommentAt(n)
  <2>1. On(n) = {}
    BY <1>8
  <2>2. Scan!TogglesBefore(n + 1) = before
    BY <1>3, <2>1
  <2> QED
    BY <1>6, <1>7, <2>2
<1>9. ASSUME NEW t \in Scan!Triples(doc[n])  PROVE Scan!CommentAt(n + 1) <=> ~Scan!CommentAt(n)
  <2>1. Scan!Triples(doc[n]) = {t}
    BY <1>9, LinesAre
  <2>2. On(n) = {<<n, t>>}
    BY <2>1
  <2>3. <<n, t>> \notin before
    <3> SUFFICES ASSUME <<n, t>> \in before  PROVE FALSE
      OBVIOUS
    <3>1. PICK k \in 1..(n - 1) : <<n, t>> \in On(k)
      BY <1>4
    <3>2. n = k
      BY <3>1
    <3> QED
      BY <1>1, <3>2
  <2> HIDE DEF before, On
  <2>4. Scan!TogglesBefore(n + 1) = before \cup {<<n, t>>}
    BY <1>3, <2>2
  <2>5. Cardinality(Scan!TogglesBefore(n + 1)) = Cardinality(before) + 1
        /\ Cardinality(before) \in Nat
    BY <1>5, <2>3, <2>4, FS_AddElement, FS_CardinalityType
  <2>6. \A c \in Nat : (c + 1) % 2 = 1 <=> ~(c % 2 = 1)
    OBVIOUS
  <2> QED
    BY <1>6, <1>7, <2>5, <2>6
<1> QED
  BY <1>8, <1>9

-----------------------------------------------------------------------------
(* options: blocks.                                                        *)

\* A bare options: stands in the first column.
LEMMA HeadersAreFlushLeft ==
  ASSUME TidyLines, doc \in Seq(Shapes), NEW n \in 1..Len(doc), Scan!OpensOptions(n)
  PROVE  /\ Scan!CodeColumns(n) = {1} /\ doc[n][1] = "opt"
         /\ \E line \in Shapes : HasOptions(line)
<1>1. PICK i \in Scan!CodeColumns(n) : Scan!CodeColumns(n) = {i} /\ doc[n][i] = "opt"
  BY DEF Scan!OpensOptions
<1>2. i \in DOMAIN doc[n] /\ doc[n] \in Shapes
  BY LinesAre, ColumnsType
<1>3. \E line \in Shapes : HasOptions(line)
  BY <1>1, <1>2 DEF HasOptions
<1>4. i = 1
  BY <1>1, <1>2, <1>3 DEF TidyLines, OptionsFlushLeft
<1> QED
  BY <1>1, <1>3, <1>4

\* A line is indented unless its code starts in the first column.
LEMMA IndentIs ==
  ASSUME TidyLines, doc \in Seq(Shapes), NEW n \in 1..Len(doc), Scan!CodeColumns(n) # {}
  PROVE  /\ Scan!IndentAt(n) \in Nat
         /\ Scan!IndentAt(n) > 0 <=> 1 \notin Scan!CodeColumns(n)
<1> DEFINE code == Scan!CodeColumns(n)
           m == Scan!Min(code)
<1>1. code \in SUBSET (1..Len(doc[n])) /\ Len(doc[n]) \in Nat
  BY ColumnsType
<1> HIDE DEF code
<1>2. m \in code /\ \A x \in code : m <= x
  BY <1>1, FirstOf DEF code
<1>3. Scan!IndentAt(n) = m - 1
  BY DEF Scan!IndentAt, code
<1> HIDE DEF m
<1>4. m \in 1..Len(doc[n])
  BY <1>1, <1>2
<1>5. m = 1 <=> 1 \in code
  BY <1>1, <1>2, <1>4
<1> QED
  BY <1>3, <1>4, <1>5 DEF code

\* The entries of the document are the indented lines of an open block.
LEMMA EntryIs ==
  ASSUME TidyLines, doc \in Seq(Shapes), NEW n \in 1..Len(doc)
  PROVE  Scan!IsEntry(n) <=> /\ Scan!CodeColumns(n) # {}
                             /\ 1 \notin Scan!CodeColumns(n)
                             /\ OpenAt(n)
<1>1. n \in Nat /\ Len(doc) \in Nat
  BY LenProperties
<1>2. ASSUME NEW h \in 1..(n - 1), Scan!OpensOptions(h)
      PROVE  Scan!IndentAt(h) = 0 /\ Scan!CodeColumns(h) # {}
  <2>1. h \in 1..Len(doc)
    BY <1>1
  <2>2. Scan!CodeColumns(h) = {1}
    BY <1>2, <2>1, HeadersAreFlushLeft
  <2>3. Scan!IndentAt(h) \in Nat /\ ~(Scan!IndentAt(h) > 0)
    BY <2>1, <2>2, IndentIs
  <2> QED
    BY <2>2, <2>3
<1>3. ASSUME NEW k \in 1..n, Scan!CodeColumns(k) # {}
      PROVE  Scan!IndentAt(k) > 0 <=> 1 \notin Scan!CodeColumns(k)
  <2>1. k \in 1..Len(doc)
    BY <1>1
  <2> QED
    BY <1>3, <2>1, IndentIs
<1>4. ASSUME NEW h \in 1..(n - 1)
      PROVE  Scan!EntryOf(h, n) <=>
               /\ Scan!CodeColumns(n) # {} /\ 1 \notin Scan!CodeColumns(n)
               /\ Scan!OpensOptions(h)
               /\ \A k \in (h + 1)..(n - 1) : 1 \notin Scan!CodeColumns(k)
  <2>1. h < n /\ n \in 1..n /\ \A k \in (h + 1)..(n - 1) : k \in 1..n
    BY <1>1
  <2> QED
    BY <1>2, <1>3, <2>1 DEF Scan!EntryOf
<1> QED
  BY <1>4 DEF Scan!IsEntry, OpenAt

\* A block is opened by its header and stays open behind indented lines.
LEMMA OpenBehind ==
  ASSUME NEW n \in Nat, n > 0
  PROVE  OpenAt(n + 1) <=> Scan!OpensOptions(n) \/ (OpenAt(n) /\ 1 \notin Scan!CodeColumns(n))
<1>1. (n + 1) - 1 = n
  OBVIOUS
<1>2. ASSUME OpenAt(n + 1)
      PROVE  Scan!OpensOptions(n) \/ (OpenAt(n) /\ 1 \notin Scan!CodeColumns(n))
  <2>1. PICK h \in 1..n : /\ Scan!OpensOptions(h)
                          /\ \A k \in (h + 1)..n : 1 \notin Scan!CodeColumns(k)
    BY <1>1, <1>2 DEF OpenAt
  <2>2. CASE h = n
    BY <2>1, <2>2
  <2>3. CASE h # n
    <3>1. h \in 1..(n - 1) /\ n \in (h + 1)..n /\ \A k \in (h + 1)..(n - 1) : k \in (h + 1)..n
      BY <2>3
    <3> QED
      BY <2>1, <3>1 DEF OpenAt
  <2> QED
    BY <2>2, <2>3
<1>3. ASSUME Scan!OpensOptions(n)  PROVE OpenAt(n + 1)
  <2>1. n \in 1..n /\ (n + 1)..n = {}
    OBVIOUS
  <2> QED
    BY <1>1, <1>3, <2>1 DEF OpenAt
<1>4. ASSUME OpenAt(n), 1 \notin Scan!CodeColumns(n)  PROVE OpenAt(n + 1)
  <2>1. PICK h \in 1..(n - 1) : /\ Scan!OpensOptions(h)
                                /\ \A k \in (h + 1)..(n - 1) : 1 \notin Scan!CodeColumns(k)
    BY <1>4 DEF OpenAt
  <2>2. h \in 1..n /\ \A k \in (h + 1)..n : k = n \/ k \in (h + 1)..(n - 1)
    OBVIOUS
  <2>3. \A k \in (h + 1)..n : 1 \notin Scan!CodeColumns(k)
    BY <1>4, <2>1, <2>2
  <2> QED
    BY <1>1, <2>1, <2>2, <2>3 DEF OpenAt
<1> QED
  BY <1>2, <1>3, <1>4

-----------------------------------------------------------------------------
(* The part of the next line that is looked at.                            *)

\* Outside comments it holds the code of the line, in its columns.
LEMMA OutsideLine ==
  ASSUME TidyLines, doc \in Seq(Shapes), next \in 1..Len(doc), inBlock = FALSE,
         ~Scan!CommentAt(next),
         NEW raw, raw = Scan!Raw(doc[next])
  PROVE  /\ raw \in Seq(STRING)
         /\ Code(raw) = Scan!CodeColumns(next)
         /\ \A i \in Code(raw) : raw[i] = doc[next][i]
         /\ (\E line \in Shapes : HasOptions(line)) =>
              (Indented(raw) <=> 1 \notin Scan!CodeColumns(next))
<1> DEFINE line == doc[next]
<1>1. /\ line \in Shapes /\ line \in Seq(STRING)
      /\ DOMAIN line = 1..Len(line) /\ Len(line) \in Nat
      /\ Hashes(line) \in SUBSET (1..Len(line))
      /\ Scan!Triples(line) \in SUBSET Hashes(line)
      /\ \A t \in Scan!Triples(line) : Scan!Min(Scan!Triples(line)) = t
  BY LinesAre
<1>2. Scan!CodeColumns(next) = Code(line)
  BY ColumnsOutside
<1>3. raw = IF Scan!Triples(line) = {} THEN line
            ELSE Piece(line, 1, Scan!Min(Scan!Triples(line)) - 1)
  BY DEF Scan!Raw, Piece
<1> HIDE DEF line
<1>4. /\ raw \in Seq(STRING) /\ Code(raw) = Code(line)
      /\ \A i \in DOMAIN raw : raw[i] = line[i]
      /\ raw = <<>> => line = <<>> \/ 1 \in Hashes(line)
      /\ DOMAIN raw \subseteq DOMAIN line
  <2>1. CASE Scan!Triples(line) = {}
    BY <1>1, <1>3, <2>1
  <2>2. CASE Scan!Triples(line) # {}
    <3>1. PICK t \in Scan!Triples(line) : TRUE
      BY <2>2
    <3>2. raw = Piece(line, 1, t - 1) /\ t \in Hashes(line) /\ t \in 1..Len(line)
      BY <1>1, <1>3, <2>2, <3>1
    <3>3. /\ raw \in Seq(STRING) /\ Code(raw) = Code(line) /\ DOMAIN raw = 1..(t - 1)
          /\ \A i \in DOMAIN raw : raw[i] = line[i]
      BY <1>1, <3>2, CodeOfPrefix
    <3>4. raw = <<>> => t = 1
      <4> SUFFICES ASSUME raw = <<>>  PROVE t = 1
        OBVIOUS
      <4>1. 1..(t - 1) = {}
        BY <3>3
      <4> QED
        BY <1>1, <3>2, <4>1
    <3> QED
      BY <3>2, <3>3, <3>4
  <2> QED
    BY <2>1, <2>2
<1>5. \A i \in Code(raw) : raw[i] = line[i]
  BY <1>4 DEF Code
<1>6. ASSUME \E s \in Shapes : HasOptions(s)
      PROVE  Indented(raw) <=> 1 \notin Code(line)
  <2>1. Indented(raw) <=> raw = <<>> \/ White(raw[1])
    BY <1>4, IndentationIs
  <2>2. 1 \in Hashes(line) => 1 \notin Code(line)
    BY DEF Code
  <2>3. CASE raw = <<>>
    <3>1. 1 \notin Code(line)
      BY <1>4, <2>2, <2>3 DEF Code
    <3> QED
      BY <2>1, <2>3, <3>1
  <2>4. CASE raw # <<>>
    <3>1. 1 \in DOMAIN raw
      BY <1>4, <2>4, LenProperties, EmptySeq
    <3>2. raw[1] = line[1]
      BY <1>4, <3>1
    <3>3. ASSUME ~White(raw[1])  PROVE 1 \in Code(raw)
      <4>1. 1 \notin Hashes(line)
        <5>1. ASSUME 1 \in Hashes(line)  PROVE FALSE
          <6>1. 1 \in DOMAIN line /\ (line[1] = "#" \/ line[1] = "###")
            BY <5>1, Zenon DEF Hashes, Scan!Runs
          <6>2. line[1] # "#"
            BY <1>1, <1>6, <6>1 DEF TidyLines, OptionsFlushLeft
          <6>3. 1 \in Scan!Triples(line)
            BY <5>1, <6>1, <6>2, Zenon DEF Hashes, Scan!Runs, Scan!Triples
          <6>4. raw = Piece(line, 1, 0)
            BY <1>1, <1>3, <6>3
          <6>5. raw = <<>>
            BY <6>4, SubSeqEmpty DEF Piece
          <6> QED
            BY <2>4, <6>5
        <5> QED
          BY <5>1
      <4>2. 1 \in DOMAIN line
        BY <1>4, <3>1
      <4>3. ~\E h \in Hashes(line) : h <= 1
        BY <1>1, <4>1
      <4> QED
        BY <1>4, <3>2, <3>3, <4>2, <4>3 DEF Code
    <3>4. White(raw[1]) => 1 \notin Code(raw)
      BY DEF Code
    <3> QED
      BY <1>4, <2>1, <2>4, <3>3, <3>4
  <2> QED
    BY <2>3, <2>4
<1> QED
  BY <1>2, <1>4, <1>5, <1>6 DEF line

\* Behind the toggle that closes a comment nothing is to be reported.
LEMMA InsideLine ==
  ASSUME TidyLines, doc \in Seq(Shapes), next \in 1..Len(doc), inBlock = TRUE,
         Scan!CommentAt(next), Scan!Triples(doc[next]) # {},
         NEW raw, raw = Scan!Raw(doc[next])
  PROVE  /\ raw \in Seq(STRING)
         /\ ~Unmatched(raw)
         /\ \A i \in Code(raw) : raw[i] # "opt"
         /\ 1 \notin Scan!CodeColumns(next)
         /\ \A i \in Scan!CodeColumns(next) : doc[next][i] \notin {"bad", "wide", "call"}
         /\ (\E line \in Shapes : HasOptions(line)) => Indented(raw)
<1> DEFINE line == doc[next]
<1>1. /\ line \in Shapes /\ line \in Seq(STRING)
      /\ DOMAIN line = 1..Len(line) /\ Len(line) \in Nat
      /\ Hashes(line) \in SUBSET (1..Len(line))
      /\ Scan!Triples(line) \in SUBSET Hashes(line)
      /\ \A t \in Scan!Triples(line) : Scan!Min(Scan!Triples(line)) = t
  BY LinesAre
<1>2. PICK t \in Scan!Triples(line) : TRUE
  OBVIOUS
<1>3. raw = Piece(line, t + 1, Len(line))
  <2>1. Scan!Min(Scan!Triples(line)) = t
    BY <1>1
  <2> QED
    BY <2>1 DEF Scan!Raw, Piece
<1>4. Scan!CodeColumns(next) = {i \in DOMAIN line : CodeBehind(line, t, i)}
  BY <1>2, ColumnsInside
<1>5. t \in 1..Len(line)
  BY <1>1, <1>2
<1>6. \A i \in DOMAIN line : CodeBehind(line, t, i) => line[i] \notin {"bad", "wide", "call"}
  BY <1>1, <1>2 DEF TidyLines, ClosedPlainly
<1> HIDE DEF line
<1>7. /\ raw \in Seq(STRING) /\ DOMAIN raw = 1..(Len(line) - t)
      /\ \A i \in 1..(Len(line) - t) : /\ raw[i] = line[t + i]
                                       /\ i \in Code(raw) <=> CodeBehind(line, t, t + i)
  BY <1>1, <1>2, <1>3, CodeOfSuffix
<1>8. ~Unmatched(raw)
  <2> SUFFICES ASSUME NEW i \in Code(raw)  PROVE raw[i] \notin {"bad", "wide", "call"}
    BY DEF Unmatched
  <2>1. i \in 1..(Len(line) - t)
    BY <1>7 DEF Code
  <2>2. t + i \in DOMAIN line
    BY <1>1, <1>5, <2>1
  <2> QED
    BY <1>6, <1>7, <2>1, <2>2
<1>9. 1 \notin Scan!CodeColumns(next)
  BY <1>4, <1>5 DEF CodeBehind
<1>10. ASSUME \E s \in Shapes : HasOptions(s)  PROVE Indented(raw)
  <2>1. t + 1 \notin DOMAIN line \/ White(line[t + 1])
    BY <1>1, <1>2, <1>10 DEF TidyLines, OptionsFlushLeft
  <2>2. raw = <<>> \/ White(raw[1])
    <3>1. CASE t + 1 \in DOMAIN line
      <4>1. 1 \in 1..(Len(line) - t)
        BY <1>1, <1>5, <3>1
      <4>2. raw[1] = line[t + 1]
        BY <1>7, <4>1
      <4> QED
        BY <2>1, <3>1, <4>2
    <3>2. CASE t + 1 \notin DOMAIN line
      <4>1. Len(line) - t = 0
        <5>1. ~(t + 1 <= Len(line))
          <6>1. t + 1 \notin 1..Len(line)
            BY <1>1, <3>2
          <6> QED
            BY <1>1, <1>5, <6>1
        <5>2. \A a, b \in Int : a <= b /\ ~(a + 1 <= b) => b - a = 0
          OBVIOUS
        <5>3. t \in Int /\ Len(line) \in Int /\ t <= Len(line)
          BY <1>1, <1>5
        <5> QED
          BY <5>1, <5>2, <5>3
      <4>2. Len(raw) = 0
        BY <1>7, <4>1, LenProperties
      <4> QED
        BY <1>7, <4>2, EmptySeq
    <3> QED
      BY <3>1, <3>2
  <2> QED
    BY <1>7, <2>2, IndentationIs
<1>11. \A i \in Code(raw) : raw[i] # "opt"
  <2> SUFFICES ASSUME NEW i \in Code(raw), raw[i] = "opt"  PROVE FALSE
    OBVIOUS
  <2>1. i \in 1..(Len(line) - t)
    BY <1>7 DEF Code
  <2>2. t + i \in DOMAIN line /\ line[t + i] = "opt" /\ t + i # 1
    BY <1>1, <1>5, <1>7, <2>1
  <2>3. HasOptions(line)
    BY <2>2 DEF HasOptions
  <2> QED
    BY <1>1, <2>2, <2>3 DEF TidyLines, OptionsFlushLeft
<1> QED
  BY <1>4, <1>6, <1>7, <1>8, <1>9, <1>10, <1>11 DEF line

-----------------------------------------------------------------------------
(* The invariant.                                                          *)

\* What the loop makes of line `next`.
LineRight ==
  /\ options' \in {Scan!NoIndent, 0}
  /\ diags \subseteq diags'
  /\ \A d \in diags' \ diags : /\ d.line = next
                               /\ Scan!CodeColumns(next) # {}
                               /\ d.from = Scan!Min(Scan!CodeColumns(next)) - 1
                               /\ d.to = Scan!Max(Scan!CodeColumns(next))
  /\ ~panicked' => /\ options' = 0 <=> OpenAt(next + 1)
                   /\ ~Scan!Expected(next) => diags' = diags
                   /\ Scan!Expected(next) => \E d \in diags' : d.line = next

\* An open options: block is one that the loop entered.
LEMMA InOptionsIs ==
  ASSUME TidyLines, ScanInv, ~panicked, NEW raw, raw \in Seq(STRING)
  PROVE  /\ options = 0 => \E line \in Shapes : HasOptions(line)
         /\ Scan!InOptions(raw) <=> options = 0 /\ Indented(raw)
<1>1. options \in {-1, 0} /\ (options = 0 <=> OpenAt(next)) /\ doc \in Seq(Shapes)
      /\ next \in 1..(Len(doc) + 1)
  BY DEF ScanInv, Scan!NoIndent
<1>2. ASSUME options = 0  PROVE \E line \in Shapes : HasOptions(line)
  <2>1. PICK h \in 1..(next - 1) : Scan!OpensOptions(h)
    BY <1>1, <1>2 DEF OpenAt
  <2>2. h \in 1..Len(doc)
    BY <1>1, LenProperties
  <2> QED
    BY <1>1, <2>1, <2>2, HeadersAreFlushLeft
<1>3. Scan!InOptions(raw) <=> options = 0 /\ Indented(raw)
  BY <1>1 DEF Scan!InOptions, Indented, Scan!NoIndent
<1> QED
  BY <1>2, <1>3

LEMMA LineStep ==
  ASSUME TidyLines, ScanInv, Scan!CheckLine
  PROVE  LineRight
<1> DEFINE n == next
           C == Scan!CodeColumns(n)
           raw == Scan!Raw(doc[n])
<1>1. /\ doc \in Seq(Shapes) /\ n \in 1..Len(doc) /\ n \in Nat /\ n > 0 /\ ~panicked
      /\ inBlock = Scan!CommentAt(n) /\ inBlock \in BOOLEAN
      /\ options \in {-1, 0} /\ (options = 0 <=> OpenAt(n))
  BY LenProperties DEF ScanInv, Scan!CheckLine, Scan!More, Scan!NoIndent
<1>2. Scan!NoIndent = -1
  BY DEF Scan!NoIndent
<1>3. OpenAt(n + 1) <=> Scan!OpensOptions(n) \/ (OpenAt(n) /\ 1 \notin C)
  BY <1>1, OpenBehind
<1>4. C = {} => ~Scan!OpensOptions(n) /\ ~Scan!Expected(n)
  BY DEF Scan!OpensOptions, Scan!Expected
<1>5. \/ Scan!InsideComment
      \/ /\ ~(inBlock /\ Scan!Triples(doc[n]) = {})
         /\ \/ Scan!OptionEntry(raw) \/ Scan!Directive(raw) \/ Scan!SliceInsideChar(raw)
            \/ Scan!Nothing(raw) \/ Scan!Statement(raw)
  BY DEF Scan!CheckLine
<1> HIDE DEF n, C, raw
<1>6. CASE Scan!InsideComment
  <2>1. inBlock = TRUE /\ Scan!Triples(doc[n]) = {} /\ options' = options /\ diags' = diags
        /\ panicked' = panicked
    BY <1>1, <1>6 DEF Scan!InsideComment, n
  <2>2. C = {}
    BY <1>1, <2>1, ColumnsInside DEF C
  <2>3. OpenAt(n + 1) <=> OpenAt(n)
    BY <1>3, <1>4, <2>2
  <2> QED
    BY <1>1, <1>2, <1>4, <2>1, <2>2, <2>3 DEF LineRight, n
<1>7. CASE inBlock /\ Scan!Triples(doc[n]) # {}
  <2>1. /\ raw \in Seq(STRING) /\ ~Unmatched(raw) /\ 1 \notin C
        /\ \A i \in Code(raw) : raw[i] # "opt"
        /\ \A i \in C : doc[n][i] \notin {"bad", "wide", "call"}
        /\ (\E line \in Shapes : HasOptions(line)) => Indented(raw)
    BY <1>1, <1>7, InsideLine DEF n, raw, C
  <2>2. ~Scan!OpensOptions(n)
    BY <1>1, <2>1, HeadersAreFlushLeft DEF C
  <2>3. ~Scan!Expected(n)
    <3>1. Scan!CodeAt(n) \cap {"bad", "wide", "call"} = {}
      BY <2>1 DEF Scan!CodeAt, C
    <3> QED
      BY <3>1 DEF Scan!Expected
  <2>4. OpenAt(n + 1) <=> OpenAt(n)
    BY <1>3, <2>1, <2>2
  <2>5. Scan!InOptions(raw) <=> options = 0
    BY <1>1, <2>1, InOptionsIs
  <2>6. Scan!Stripped(raw) # <<"opt">>
    BY <2>1, LineIs
  <2>7. ~Scan!Unparseable(raw)
    BY <2>1, LineIs DEF Scan!Unparseable
  <2>8. ~Scan!InsideComment
    BY <1>7 DEF Scan!InsideComment, n
  <2>9. options' = options \/ (options # 0 /\ options' = -1)
    BY <1>2, <1>5, <2>5, <2>6, <2>8
       DEF Scan!OptionEntry, Scan!Directive, Scan!SliceInsideChar, Scan!Nothing, Scan!Statement
  <2>10. diags' = diags
    BY <1>5, <2>7, <2>8
       DEF Scan!OptionEntry, Scan!Directive, Scan!SliceInsideChar, Scan!Nothing, Scan!Statement
  <2> QED
    BY <1>1, <1>2, <2>3, <2>4, <2>9, <2>10 DEF LineRight, n
<1>8. CASE ~inBlock
  <2>1. /\ raw \in Seq(STRING) /\ Code(raw) = C
        /\ \A i \in C : raw[i] = doc[n][i]
        /\ (\E line \in Shapes : HasOptions(line)) => (Indented(raw) <=> 1 \notin C)
    BY <1>1, <1>8, OutsideLine DEF n, raw, C
  <2>2. Scan!InOptions(raw) <=> OpenAt(n) /\ 1 \notin C
    BY <1>1, <2>1, InOptionsIs
  <2>3. Scan!IsEntry(n) <=> C # {} /\ Scan!InOptions(raw)
    BY <1>1, <2>2, EntryIs DEF C
  <2>4. OpenAt(n + 1) <=> Scan!OpensOptions(n) \/ Scan!InOptions(raw)
    BY <1>3, <2>2
  <2>5. ASSUME C # {}
        PROVE  /\ FirstColumn(raw) = Scan!Min(C) /\ LastColumn(raw) = Scan!Max(C)
               /\ FirstColumn(raw) \in C /\ FirstColumn(raw) \in Nat /\ LastColumn(raw) \in Nat
               /\ raw[FirstColumn(raw)] = Scan!FirstAt(n)
    <3>1. FirstColumn(raw) = Scan!Min(C) /\ LastColumn(raw) = Scan!Max(C)
      BY <2>1 DEF FirstColumn, LastColumn
    <3>2. FirstColumn(raw) \in C /\ LastColumn(raw) \in C /\ C \in SUBSET (1..Len(raw))
          /\ Len(raw) \in Nat
      BY <2>1, <2>5, CodeColumnsAre
    <3> QED
      BY <2>1, <3>1, <3>2 DEF Scan!FirstAt, C
  <2>6. \A kinds : Scan!StartsWith(raw, kinds) <=> C # {} /\ Scan!FirstAt(n) \in kinds
    BY <2>1, <2>5, LineIs
  <2>7. Scan!Stripped(raw) = <<>> <=> C = {}
    BY <2>1, LineIs
  <2>8. Scan!Stripped(raw) = <<"opt">> <=> Scan!OpensOptions(n)
    BY <2>1, LineIs DEF Scan!OpensOptions, C
  <2>9. ASSUME Scan!OpensOptions(n)
        PROVE  C # {} /\ Scan!FirstAt(n) = "opt" /\ Scan!LeadingWhitespace(raw) = 0
    <3>1. C = {1} /\ doc[n][1] = "opt"
      BY <1>1, <2>9, HeadersAreFlushLeft DEF C
    <3>2. FirstColumn(raw) = 1
      BY <2>5, <3>1
    <3>3. Scan!LeadingWhitespace(raw) = 1 - 1
      BY <2>1, <3>1, <3>2, IndentationIs
    <3> QED
      BY <2>1, <2>5, <3>1, <3>2, <3>3
  <2>10. ~Scan!InsideComment
    BY <1>8 DEF Scan!InsideComment
  <2>11. ASSUME NEW kinds, Scan!StartsWith(raw, kinds), kinds \cap {"bad"} = {}
         PROVE  C # {} /\ Scan!FirstAt(n) \in kinds
    BY <2>6, <2>11
  <2>12. CASE Scan!OptionEntry(raw)
    <3>1. options' = options /\ diags' = diags /\ Scan!InOptions(raw)
      BY <2>12 DEF Scan!OptionEntry
    <3>2. ~Scan!Expected(n)
      BY <2>3, <3>1 DEF Scan!Expected, C
    <3> QED
      BY <1>1, <1>2, <2>2, <2>4, <3>1, <3>2 DEF LineRight, n
  <2>13. CASE Scan!Directive(raw)
    <3>1. /\ ~Scan!InOptions(raw) /\ diags' = diags
          /\ Scan!StartsWith(raw, {"opt", "dir"})
          /\ options' = IF Scan!Stripped(raw) = <<"opt">> THEN Scan!LeadingWhitespace(raw) ELSE -1
      BY <1>2, <2>13 DEF Scan!Directive
    <3>2. ~Scan!Expected(n)
      <4>1. Scan!FirstAt(n) \in {"opt", "dir"}
        BY <2>6, <3>1
      <4> QED
        BY <4>1 DEF Scan!Expected
    <3>3. options' = IF Scan!OpensOptions(n) THEN 0 ELSE -1
      BY <2>8, <2>9, <3>1
    <3> QED
      BY <1>2, <2>4, <3>1, <3>2, <3>3 DEF LineRight, n
  <2>14. CASE Scan!SliceInsideChar(raw)
    <3>1. panicked' = TRUE /\ diags' = diags /\ options' = -1
      BY <1>2, <2>14 DEF Scan!SliceInsideChar
    <3> QED
      BY <1>2, <3>1 DEF LineRight
  <2>15. CASE Scan!Nothing(raw)
    <3>1. /\ ~Scan!InOptions(raw) /\ diags' = diags /\ options' = -1
          /\ Scan!Stripped(raw) = <<>> \/ Scan!StartsWith(raw, {"use"})
      BY <1>2, <2>15 DEF Scan!Nothing
    <3>2. C = {} \/ Scan!FirstAt(n) = "use"
      BY <2>6, <2>7, <3>1
    <3>3. ~Scan!Expected(n) /\ ~Scan!OpensOptions(n)
      BY <1>4, <2>9, <3>2 DEF Scan!Expected
    <3> QED
      BY <1>2, <2>4, <3>1, <3>3 DEF LineRight, n
  <2>16. CASE Scan!Statement(raw)
    <3>1. /\ ~Scan!InOptions(raw) /\ options' = -1
          /\ Scan!Stripped(raw) # <<>> /\ ~Scan!StartsWith(raw, {"opt", "dir", "use", "wide"})
          /\ diags' = IF Scan!Unparseable(raw) THEN diags \cup {Scan!Span(raw)} ELSE diags
      BY <1>2, <2>16 DEF Scan!Statement
    <3>2. C # {} /\ Scan!FirstAt(n) \notin {"opt", "dir", "use", "wide"}
      BY <2>6, <2>7, <3>1
    <3>3. ~Scan!OpensOptions(n)
      BY <2>9, <3>2
    <3>4. Scan!Unparseable(raw) <=> Scan!Expected(n)
      <4>1. (\E i \in DOMAIN Scan!Stripped(raw) :
               Scan!Stripped(raw)[i] \in {"bad", "wide", "call"}) <=> Unmatched(raw)
        BY <2>1, LineIs
      <4>2. Unmatched(raw) <=> Scan!CodeAt(n) \cap {"bad", "wide", "call"} # {}
        <5>1. Scan!CodeAt(n) = {raw[i] : i \in C}
          BY <2>1 DEF Scan!CodeAt, C
        <5> QED
          BY <2>1, <5>1 DEF Unmatched
      <4>3. Scan!StartsWith(raw, {"call"}) <=> Scan!FirstAt(n) = "call"
        BY <2>6, <3>2
      <4>4. Scan!Unparseable(raw) <=> /\ Unmatched(raw)
                                      /\ ~(Scan!FirstAt(n) = "call" /\ Scan!FunctionsDeclared)
        BY <4>1, <4>3 DEF Scan!Unparseable
      <4>5. ~Scan!IsEntry(n) /\ Scan!FirstAt(n) \notin {"opt", "dir", "use"}
        BY <2>3, <3>1, <3>2
      <4> QED
        BY <3>2, <4>2, <4>4, <4>5 DEF Scan!Expected, C
    <3>5. Scan!Span(raw) = [line |-> n, from |-> Scan!Min(C) - 1, to |-> Scan!Max(C)]
      <4> DEFINE a == FirstColumn(raw)
                 b == LastColumn(raw)
      <4>1. /\ a = Scan!Min(C) /\ b = Scan!Max(C) /\ a \in Nat /\ b \in Nat
        BY <2>5, <3>2
      <4>2. Scan!LeadingWhitespace(raw) = a - 1 /\ Len(Scan!Stripped(raw)) = b - a + 1
        BY <2>1, <3>2, IndentationIs, LineIs
      <4>3. Scan!Span(raw) = [line |-> n, from |-> Scan!LeadingWhitespace(raw),
                              to |-> Scan!LeadingWhitespace(raw) + Len(Scan!Stripped(raw))]
        BY DEF Scan!Span, n
      <4> HIDE DEF a, b
      <4>4. \A x, y \in Nat : (x - 1) + (y - x + 1) = y
        OBVIOUS
      <4>5. Scan!LeadingWhitespace(raw) + Len(Scan!Stripped(raw)) = b
        BY <4>1, <4>2, <4>4
      <4>6. Scan!Span(raw) = [line |-> n, from |-> a - 1, to |-> b]
        BY <4>2, <4>3, <4>5
      <4> QED
        BY <4>1, <4>6
    <3>6. ASSUME ~Scan!Expected(n)  PROVE diags' = diags
      BY <3>1, <3>4, <3>6
    <3>7. ASSUME Scan!Expected(n)
          PROVE  diags' = diags \cup {[line |-> n, from |-> Scan!Min(C) - 1, to |-> Scan!Max(C)]}
      BY <3>1, <3>4, <3>5, <3>7
    <3>8. ~OpenAt(n + 1)
      BY <2>4, <3>1, <3>3
    <3>9. options' \in {Scan!NoIndent, 0} /\ (options' = 0 <=> OpenAt(n + 1))
      BY <1>2, <3>1, <3>8
    <3> DEFINE d0 == [line |-> n, from |-> Scan!Min(C) - 1, to |-> Scan!Max(C)]
    <3>10. d0.line = n /\ d0.from = Scan!Min(C) - 1 /\ d0.to = Scan!Max(C)
      OBVIOUS
    <3> HIDE DEF d0
    <3>11. /\ diags \subseteq diags' /\ \A d \in diags' \ diags : d = d0
           /\ Scan!Expected(n) => d0 \in diags'
      BY <3>6, <3>7 DEF d0
    <3> QED
      BY <3>2, <3>6, <3>9, <3>10, <3>11 DEF LineRight, n, C
  <2> QED
    BY <1>5, <2>10, <2>12, <2>13, <2>14, <2>15, <2>16
<1> QED
  BY <1>5, <1>6, <1>7, <1>8

-----------------------------------------------------------------------------
\* The columns of code, said of a document.
ColumnsOf(d, n) ==
  LET line == d[n]
      hashes == Scan!Runs(line, {"#", "###"})
      toggles == UNION {{<<k, i>> : i \in Scan!Triples(d[k])} : k \in 1..(n - 1)}
      start == IF ~(Scan!Cardinality(toggles) % 2 = 1) THEN 0
               ELSE IF Scan!Triples(line) = {} THEN Len(line) ELSE Scan!Min(Scan!Triples(line))
  IN  {i \in (start + 1)..Len(line) :
         line[i] # "_" /\ ~\E h \in hashes : start < h /\ h <= i}

\* The loop leaves the document alone, and so what is expected of its lines.
LEMMA DocumentIsKept ==
  ASSUME doc' = doc
  PROVE  /\ \A n : Scan!CodeColumns(n)' = Scan!CodeColumns(n)
         /\ \A n : Scan!OpensOptions(n)' = Scan!OpensOptions(n)
         /\ \A n : Scan!Expected(n)' = Scan!Expected(n)
<1>1. \A n : Scan!CodeColumns(n) = ColumnsOf(doc, n)
  BY Zenon DEF Scan!CodeColumns, Scan!CommentAt, Scan!TogglesBefore, ColumnsOf
<1>2. \A n : Scan!CodeColumns(n)' = ColumnsOf(doc', n)
  BY Zenon DEF Scan!CodeColumns, Scan!CommentAt, Scan!TogglesBefore, ColumnsOf
<1>3. \A n : Scan!CodeColumns(n)' = Scan!CodeColumns(n)
  BY <1>1, <1>2
<1>4. \A n : Scan!OpensOptions(n)' = Scan!OpensOptions(n)
  BY <1>3 DEF Scan!OpensOptions
<1>5. \A n : Scan!IsEntry(n)' = Scan!IsEntry(n)
  BY <1>3, <1>4 DEF Scan!IsEntry, Scan!EntryOf, Scan!IndentAt
<1>6. Scan!FunctionsDeclared' = Scan!FunctionsDeclared
  BY DEF Scan!FunctionsDeclared
<1>7. \A n : Scan!FirstAt(n)' = Scan!FirstAt(n) /\ Scan!CodeAt(n)' = Scan!CodeAt(n)
  BY <1>3 DEF Scan!FirstAt, Scan!CodeAt
<1>8. \A n : Scan!Expected(n)' = Scan!Expected(n)
  BY <1>3, <1>5, <1>6, <1>7 DEF Scan!Expected
<1> QED
  BY <1>3, <1>4, <1>8

LEMMA ScanInit == Scan!Init => ScanInv
<1> SUFFICES ASSUME Scan!Init  PROVE ScanInv
  OBVIOUS
<1>1. doc \in Seq(Shapes)
  <2>1. PICK n \in 1..MaxLines : doc \in [1..n -> Shapes]
    BY DEF Scan!Init
  <2> QED
    BY <2>1
<1>2. /\ next = 1 /\ inBlock = FALSE /\ options = Scan!NoIndent /\ diags = {}
      /\ panicked = FALSE
  BY DEF Scan!Init
<1>3. 1..(next - 1) = {} /\ next \in 1..(Len(doc) + 1)
  BY <1>1, <1>2, LenProperties
<1>4. ~Scan!CommentAt(next)
  <2>1. Scan!TogglesBefore(next) = {}
    BY <1>3 DEF Scan!TogglesBefore
  <2>2. Cardinality(Scan!TogglesBefore(next)) = 0
    BY <2>1, FS_EmptySet
  <2> QED
    BY <2>2, SameScanCardinality DEF Scan!CommentAt
<1>5. ~OpenAt(next) /\ Scan!NoIndent # 0
  BY <1>3 DEF OpenAt, Scan!NoIndent
<1>6. Scan!ReportsAreRight /\ Scan!ColumnsAreOriginal
  BY <1>2, <1>3 DEF Scan!ReportsAreRight, Scan!ColumnsAreOriginal
<1> QED
  BY <1>1, <1>2, <1>3, <1>4, <1>5, <1>6 DEF ScanInv, Scan!CommentAt

\* The flag behind a line is the parity of the toggles up to there.
LEMMA FlagIsParity ==
  ASSUME TidyLines, doc \in Seq(Shapes), next \in 1..Len(doc), inBlock = Scan!CommentAt(next)
  PROVE  Scan!BlockAfter(doc[next]) <=> Scan!CommentAt(next + 1)
<1>1. CASE Scan!Triples(doc[next]) = {}
  <2>1. Scan!CommentAt(next + 1) <=> Scan!CommentAt(next)
    BY <1>1, TogglesAlternate
  <2>2. Scan!Cardinality(Scan!Triples(doc[next])) = 0
    BY <1>1, SameScanCardinality, FS_EmptySet
  <2> QED
    BY <1>1, <2>1, <2>2 DEF Scan!BlockAfter
<1>2. CASE Scan!Triples(doc[next]) # {}
  <2>1. Scan!CommentAt(next + 1) <=> ~Scan!CommentAt(next)
    BY <1>2, TogglesAlternate
  <2>2. PICK t : Scan!Triples(doc[next]) = {t}
    BY <1>2, LinesAre
  <2>3. Scan!Cardinality(Scan!Triples(doc[next])) = 1
    BY <2>2, SameScanCardinality, FS_Singleton
  <2> QED
    BY <1>2, <2>1, <2>3 DEF Scan!BlockAfter
<1> QED
  BY <1>1, <1>2

LEMMA ScanStep == TidyLines /\ ScanInv /\ [Scan!Next]_(Scan!vars) => ScanInv'
<1> SUFFICES ASSUME TidyLines, ScanInv, [Scan!Next]_(Scan!vars)  PROVE ScanInv'
  OBVIOUS
<1>1. CASE Scan!Next
  <2>1. Scan!CheckLine
    BY <1>1 DEF Scan!Next
  <2>2. LineRight
    BY <2>1, LineStep
  <2>3. doc' = doc /\ next' = next + 1 /\ inBlock' = Scan!BlockAfter(doc[next])
    BY <2>1 DEF Scan!CheckLine
  <2>4. panicked' \in BOOLEAN
    BY <2>1 DEF ScanInv, Scan!CheckLine, Scan!InsideComment, Scan!OptionEntry, Scan!Directive,
                Scan!SliceInsideChar, Scan!Nothing, Scan!Statement
  <2>5. /\ doc \in Seq(Shapes) /\ next \in 1..Len(doc) /\ ~panicked
        /\ inBlock = Scan!CommentAt(next) /\ Scan!ReportsAreRight /\ Scan!ColumnsAreOriginal
        /\ \A d \in diags : d.line \in 1..(next - 1)
    BY <2>1, LenProperties DEF ScanInv, Scan!CheckLine, Scan!More
  <2>6. next' \in 1..(Len(doc') + 1) /\ next \in Nat /\ next' - 1 = next
        /\ 1..(next' - 1) = 1..next /\ 1..next = (1..(next - 1)) \cup {next}
    BY <2>3, <2>5, LenProperties
  <2>7. inBlock' \in BOOLEAN /\ inBlock' = Scan!CommentAt(next + 1)
    <3>1. Scan!BlockAfter(doc[next]) \in BOOLEAN /\ Scan!CommentAt(next + 1) \in BOOLEAN
      BY DEF Scan!BlockAfter, Scan!CommentAt
    <3> QED
      BY <2>3, <2>5, <3>1, FlagIsParity
  <2>8. /\ \A n : Scan!CodeColumns(n)' = Scan!CodeColumns(n)
        /\ \A n : Scan!OpensOptions(n)' = Scan!OpensOptions(n)
        /\ \A n : Scan!Expected(n)' = Scan!Expected(n)
    BY <2>3, DocumentIsKept
  <2>9. \A d \in diags' : d.line \in 1..(next' - 1)
    BY <2>2, <2>5, <2>6 DEF LineRight
  <2>10. Scan!ColumnsAreOriginal'
    <3>1. \A d \in diags' : d.from = Scan!Min(Scan!CodeColumns(d.line)) - 1
                              /\ d.to = Scan!Max(Scan!CodeColumns(d.line))
      <4> TAKE d \in diags'
      <4>1. CASE d \in diags
        BY <2>5, <4>1 DEF Scan!ColumnsAreOriginal
      <4>2. CASE d \notin diags
        BY <2>2, <4>2 DEF LineRight
      <4> QED
        BY <4>1, <4>2
    <3> QED
      BY <2>8, <3>1 DEF Scan!ColumnsAreOriginal
  <2>11. ASSUME ~panicked'  PROVE Scan!ReportsAreRight'
    <3>1. {d.line : d \in diags} = {n \in 1..(next - 1) : Scan!Expected(n)}
      BY <2>5 DEF Scan!ReportsAreRight
    <3>2. {d.line : d \in diags'} = {n \in 1..next : Scan!Expected(n)}
      <4>1. CASE Scan!Expected(next)
        <5>1. \E d \in diags' : d.line = next
          BY <2>2, <2>11, <4>1 DEF LineRight
        <5>2. diags \subseteq diags' /\ \A d \in diags' \ diags : d.line = next
          BY <2>2 DEF LineRight
        <5>3. {d.line : d \in diags'} = {d.line : d \in diags} \cup {next}
          BY <5>1, <5>2
        <5> QED
          BY <2>6, <3>1, <4>1, <5>3
      <4>2. CASE ~Scan!Expected(next)
        <5>1. diags' = diags
          BY <2>2, <2>11, <4>2 DEF LineRight
        <5> QED
          BY <2>6, <3>1, <4>2, <5>1
      <4> QED
        BY <4>1, <4>2
    <3>3. {d.line : d \in diags'} = {n \in 1..(next' - 1) : Scan!Expected(n)'}
      BY <2>6, <2>8, <3>2
    <3> QED
      BY <3>3 DEF Scan!ReportsAreRight
  <2>12. OpenAt(next)' <=> OpenAt(next + 1)
    BY <2>3, <2>8 DEF OpenAt
  <2>13. Scan!CommentAt(next)' <=> Scan!CommentAt(next + 1)
    BY <2>3 DEF Scan!CommentAt, Scan!TogglesBefore, Scan!Triples, Scan!Runs, Scan!Unquoted
  <2>14. Scan!CommentAt(next)' \in BOOLEAN /\ Scan!CommentAt(next + 1) \in BOOLEAN
    BY DEF Scan!CommentAt
  <2>15. /\ options' \in {Scan!NoIndent, 0}
         /\ ~panicked' => (options' = 0 <=> OpenAt(next + 1))
    BY <2>2 DEF LineRight
  <2>16. ~panicked' => /\ inBlock' = Scan!CommentAt(next)'
                       /\ options' = 0 <=> OpenAt(next)'
                       /\ Scan!ReportsAreRight'
    BY <2>7, <2>11, <2>12, <2>13, <2>14, <2>15
  <2> QED
    BY <2>3, <2>4, <2>5, <2>6, <2>7, <2>9, <2>10, <2>15, <2>16 DEF ScanInv
<1>2. CASE UNCHANGED Scan!vars
  <2>1. /\ doc' = doc /\ next' = next /\ inBlock' = inBlock /\ options' = options
        /\ diags' = diags /\ panicked' = panicked
    BY <1>2 DEF Scan!vars
  <2>2. /\ \A n : Scan!CodeColumns(n)' = Scan!CodeColumns(n)
        /\ \A n : Scan!OpensOptions(n)' = Scan!OpensOptions(n)
        /\ \A n : Scan!Expected(n)' = Scan!Expected(n)
    BY <2>1, DocumentIsKept
  <2>3. OpenAt(next)' <=> OpenAt(next)
    BY <2>1, <2>2 DEF OpenAt
  <2>4. Scan!CommentAt(next)' = Scan!CommentAt(next)
    BY <2>1 DEF Scan!CommentAt, Scan!TogglesBefore, Scan!Triples, Scan!Runs, Scan!Unquoted
  <2>5. Scan!ReportsAreRight' <=> Scan!ReportsAreRight
    BY <2>1, <2>2 DEF Scan!ReportsAreRight
  <2>6. Scan!ColumnsAreOriginal' <=> Scan!ColumnsAreOriginal
    BY <2>1, <2>2 DEF Scan!ColumnsAreOriginal
  <2> QED
    BY <2>1, <2>3, <2>4, <2>5, <2>6 DEF ScanInv
<1> QED
  BY <1>1, <1>2

\* The invariant of the scan: the flag is the parity of the toggles so far, an
\* options: block is open exactly as long as its lines are indented, and the
\* reports are those expected of the lines so far.
THEOREM ScanInvariant == ASSUME TidyLines PROVE Scan!Spec => []ScanInv
<1>1. Scan!Init => ScanInv
  BY ScanInit
<1>2. ScanInv /\ [Scan!Next]_(Scan!vars) => ScanInv'
  BY ScanStep
<1> QED
  BY <1>1, <1>2, PTL DEF Scan!Spec

\* In any script of tidy lines check_document reports exactly the lines that
\* are, in the whole document, statements no pattern matches: the state it
\* carries from line to line loses no comment and no options: block.
THEOREM ReportsAreComplete == ASSUME TidyLines PROVE Scan!Spec => []ReportsAreRight
<1>1. ScanInv => ReportsAreRight
  BY DEF ScanInv, ReportsAreRight, Scan!ReportsAreRight
<1> QED
  BY <1>1, ScanInvariant, PTL

\* The columns of a report cover the code of its line and nothing else.
THEOREM ColumnsAreTheCode == ASSUME TidyLines PROVE Scan!Spec => []ColumnsAreOriginal
<1>1. ScanInv => ColumnsAreOriginal
  BY DEF ScanInv, ColumnsAreOriginal
<1> QED
  BY <1>1, ScanInvariant, PTL

-----------------------------------------------------------------------------
(* The incremental parse (IncrementalParse).                               *)

\* The flattening of the instance is that of the lemmas.
LEMMA SameFlattenSeq == \A ss : Parse!FlattenSeq(ss) = FlattenSeq(ss)
BY DEF Parse!FlattenSeq, FlattenSeq

\* The lines at some numbers.
Listing(src, at) == [i \in DOMAIN src |-> IF i \in at THEN <<i>> ELSE <<>>]

LEMMA Listed ==
  ASSUME NEW T, NEW src \in Seq(T), NEW at \in SUBSET DOMAIN src
  PROVE  /\ Listing(src, at) \in Seq(Seq(at))
         /\ Parse!LinesAt(src, at) = FlattenSeq(Listing(src, at))
         /\ Parse!LinesAt(src, at) \in Seq(at)
<1> DEFINE ss == Listing(src, at)
<1>1. DOMAIN src = 1..Len(src) /\ Len(src) \in Nat
  BY LenProperties
<1>2. ASSUME NEW i \in DOMAIN src  PROVE ss[i] \in Seq(at)
  <2>1. <<>> \in Seq(at)
    OBVIOUS
  <2>2. i \in at => <<i>> \in Seq(at)
    OBVIOUS
  <2> QED
    BY <2>1, <2>2 DEF Listing
<1>3. ss \in Seq(Seq(at))
  <2>1. ss \in [1..Len(src) -> Seq(at)]
    BY <1>1, <1>2 DEF Listing
  <2> HIDE DEF ss
  <2> QED
    BY <1>1, <2>1, IsASeq
<1>4. Parse!LinesAt(src, at) = FlattenSeq(ss)
  BY SameFlattenSeq DEF Parse!LinesAt, Listing
<1> QED
  BY <1>3, <1>4, FlattenType

\* What is listed of no line, and of the first line.
LEMMA NoneListed ==
  ASSUME NEW T, NEW src \in Seq(T)
  PROVE  Parse!LinesAt(src, {}) = <<>>
<1> DEFINE l == Parse!LinesAt(src, {})
<1>1. l \in Seq({})
  BY Listed
<1> HIDE DEF l
<1>2. l = <<>>
  <2>1. DOMAIN l = 1..Len(l) /\ Len(l) \in Nat /\ \A k \in 1..Len(l) : l[k] \in {}
    BY <1>1, LenProperties, ElementOfSeq
  <2>2. Len(l) = 0
    BY <2>1
  <2> QED
    BY <1>1, <2>2, EmptySeq
<1> QED
  BY <1>2 DEF l

LEMMA OnlyTheFirst ==
  ASSUME NEW T, NEW src \in Seq(T), src # <<>>
  PROVE  Parse!LinesAt(src, {1}) = <<1>>
<1> DEFINE n == Len(src)
           ss == [i \in DOMAIN src |-> IF i \in {1} THEN <<i>> ELSE <<>>]
           front(k) == SubSeq(ss, 1, k)
           Proved == {k \in 0..n : k > 0 => FlattenSeq(front(k)) = <<1>>}
<1>1. DOMAIN src = 1..n /\ n \in Nat /\ n # 0
  BY LenProperties, EmptySeq
<1>2. <<1>> \in Seq(Nat) /\ <<>> \in Seq(Nat)
  OBVIOUS
<1>3. ss \in Seq(Seq(Nat)) /\ Len(ss) = n
  <2>1. ASSUME NEW i \in 1..n  PROVE ss[i] \in Seq(Nat)
    <3>1. i \in Nat /\ <<i>> \in Seq(Nat)
      BY <1>1
    <3> QED
      BY <1>1, <1>2, <3>1
  <2>2. ss \in [1..n -> Seq(Nat)]
    BY <1>1, <2>1
  <2> HIDE DEF ss, n
  <2> QED
    BY <1>1, <2>2, IsASeq, LenProperties
<1>4. ss[1] = <<1>> /\ \A i \in 2..n : ss[i] = <<>>
  BY <1>1
<1> HIDE DEF ss
<1>5. 0 \in Proved
  BY <1>1
<1>6. ASSUME NEW k \in 1..n, k - 1 \in Proved  PROVE k \in Proved
  <2>1. front(k) = Append(front(k - 1), ss[k]) /\ front(k - 1) \in Seq(Seq(Nat))
        /\ ss[k] \in Seq(Nat)
    BY <1>3, FrontGrows
  <2>2. FlattenSeq(front(k)) = FlattenSeq(front(k - 1)) \o ss[k]
    BY <2>1, FlattenAppend
  <2>3. CASE k = 1
    <3>1. front(k - 1) = <<>>
      <4>1. Len(front(0)) = 0 /\ front(0) \in Seq(Seq(Nat))
        <5>1. 1 \in 1..(Len(ss) + 1) /\ 0 \in (1 - 1)..Len(ss)
          BY <1>1, <1>3
        <5>2. Len(SubSeq(ss, 1, 0)) = 0 - 1 + 1 /\ SubSeq(ss, 1, 0) \in Seq(Seq(Nat))
          BY <1>3, <5>1, Part
        <5> QED
          BY <5>2
      <4> QED
        BY <2>3, <4>1, EmptySeq
    <3>2. FlattenSeq(front(k)) = <<>> \o <<1>>
      BY <1>4, <2>2, <2>3, <3>1, FlattenEmpty
    <3> QED
      BY <1>1, <1>2, <3>2, ConcatEmptySeq
  <2>4. CASE k # 1
    <3>1. k \in 2..n /\ k - 1 > 0
      BY <1>1, <2>4
    <3>2. FlattenSeq(front(k)) = <<1>> \o <<>>
      BY <1>4, <1>6, <2>2, <3>1
    <3> QED
      BY <1>1, <1>2, <3>2, ConcatEmptySeq
  <2> QED
    BY <2>3, <2>4
<1>7. n \in Proved
  <2> HIDE DEF Proved, n
  <2>1. 0..n \subseteq Proved
    BY <1>1, <1>5, <1>6, Induction
  <2> QED
    BY <1>1, <2>1
<1>8. front(n) = ss
  BY <1>3, SubSeqFull
<1>9. Parse!LinesAt(src, {1}) = FlattenSeq(ss)
  BY SameFlattenSeq DEF Parse!LinesAt, ss
<1>10. FlattenSeq(front(n)) = <<1>>
  <2> HIDE DEF front, n
  <2> QED
    BY <1>1, <1>7
<1> HIDE DEF front
<1> QED
  BY <1>8, <1>9, <1>10

\* What is made of the lines listed is made of each of them in its place.
LEMMA ListedImages ==
  ASSUME NEW src \in Seq(Parse!Lines), NEW at \in SUBSET DOMAIN src,
         NEW g, \E V : g \in [DOMAIN src -> V]
  PROVE  Mapped(Parse!LinesAt(src, at), g)
           = FlattenSeq([i \in DOMAIN src |-> IF i \in at THEN <<g[i]>> ELSE <<>>])
<1>0. PICK V : g \in [DOMAIN src -> V]
  OBVIOUS
<1> DEFINE D == DOMAIN src
           ss == Listing(src, at)
<1>1. ss \in Seq(Seq(at)) /\ Parse!LinesAt(src, at) = FlattenSeq(ss)
  BY Listed
<1>2. ss \in Seq(Seq(D))
  <2>1. Seq(at) \subseteq Seq(D)
    BY SeqMonotonic
  <2> QED
    BY <1>1, <2>1, SeqMonotonic
<1>3. Mapped(FlattenSeq(ss), g) = FlattenSeq(MappedParts(ss, g))
  <2> HIDE DEF ss, D
  <2>1. g \in [D -> V]
    BY <1>0 DEF D
  <2> QED
    BY <1>2, <2>1, MappedFlatten
<1>4. DOMAIN ss = D
  BY DEF Listing
<1>5. ASSUME NEW i \in D
      PROVE  Mapped(ss[i], g) = IF i \in at THEN <<g[i]>> ELSE <<>>
  <2>1. ss[i] = IF i \in at THEN <<i>> ELSE <<>>
    BY DEF Listing
  <2>2. Mapped(<<i>>, g) = <<g[i]>>
    BY <1>0, MappedOne
  <2> QED
    BY <2>1, <2>2, MappedEmpty, Zenon
<1>6. MappedParts(ss, g) = [i \in D |-> IF i \in at THEN <<g[i]>> ELSE <<>>]
  <2> HIDE DEF ss, D
  <2> QED
    BY <1>4, <1>5 DEF MappedParts
<1> QED
  BY <1>1, <1>3, <1>6

LEMMA ListedValues ==
  ASSUME NEW src \in Seq(Parse!Lines), NEW at \in SUBSET DOMAIN src,
         NEW g, \E V : g \in [DOMAIN src -> Seq(V)]
  PROVE  FlattenSeq(Mapped(Parse!LinesAt(src, at), g))
           = FlattenSeq([i \in DOMAIN src |-> IF i \in at THEN g[i] ELSE <<>>])
<1>0. PICK V : g \in [DOMAIN src -> Seq(V)]
  OBVIOUS
<1> DEFINE D == DOMAIN src
           ss == Listing(src, at)
<1>1. ss \in Seq(Seq(at)) /\ Parse!LinesAt(src, at) = FlattenSeq(ss)
  BY Listed
<1>2. ss \in Seq(Seq(D))
  <2>1. Seq(at) \subseteq Seq(D)
    BY SeqMonotonic
  <2> QED
    BY <1>1, <2>1, SeqMonotonic
<1>3. FlattenSeq(Mapped(FlattenSeq(ss), g))
        = FlattenSeq([i \in DOMAIN ss |-> FlattenSeq(Mapped(ss[i], g))])
  <2> HIDE DEF ss, D
  <2>1. g \in [D -> Seq(V)]
    BY <1>0 DEF D
  <2> QED
    BY <1>2, <2>1, FlattenMappedFlatten
<1>4. DOMAIN ss = D
  BY DEF Listing
<1>5. ASSUME NEW i \in D
      PROVE  FlattenSeq(Mapped(ss[i], g)) = IF i \in at THEN g[i] ELSE <<>>
  <2>1. ss[i] = IF i \in at THEN <<i>> ELSE <<>>
    BY DEF Listing
  <2>2. Mapped(<<i>>, g) = <<g[i]>>
    BY <1>0, MappedOne
  <2>3. g[i] \in Seq(V)
    BY <1>0
  <2>4. FlattenSeq(<<g[i]>>) = g[i]
    BY <2>3, FlattenOne
  <2> QED
    BY <2>1, <2>2, <2>4, MappedEmpty, FlattenEmpty, Zenon
<1>6. [i \in DOMAIN ss |-> FlattenSeq(Mapped(ss[i], g))]
        = [i \in D |-> IF i \in at THEN g[i] ELSE <<>>]
  <2> HIDE DEF ss, D
  <2> QED
    BY <1>4, <1>5
<1> QED
  BY <1>1, <1>3, <1>6

\* A block ends behind its head, at the next flush-left line.
LEMMA BlockEnds ==
  ASSUME NEW T, NEW src \in Seq(T), NEW i \in 1..Len(src)
  PROVE  /\ Parse!BlockEnd(src, i) \in (i + 1)..(Len(src) + 1)
         /\ \A j \in (i + 1)..(Parse!BlockEnd(src, i) - 1) : ~Parse!FlushLeft(src[j])
         /\ (\A j \in (i + 1)..Len(src) : ~Parse!FlushLeft(src[j])) =>
              Parse!BlockEnd(src, i) = Len(src) + 1
<1> DEFINE n == Len(src)
           later == {j \in (i + 1)..n : Parse!FlushLeft(src[j])}
           end == Parse!BlockEnd(src, i)
<1>1. n \in Nat /\ i \in Nat /\ i <= n
  BY LenProperties
<1>2. end = IF later = {} THEN n + 1 ELSE CHOOSE j \in later : \A k \in later : j <= k
  BY DEF Parse!BlockEnd
<1>3. CASE later = {}
  <2>1. end = n + 1 /\ \A j \in (i + 1)..n : ~Parse!FlushLeft(src[j])
    BY <1>2, <1>3
  <2> HIDE DEF end, n
  <2>2. (n + 1) - 1 = n
    BY <1>1
  <2>3. end - 1 = n /\ end \in (i + 1)..(n + 1)
    BY <1>1, <2>1, <2>2
  <2>4. \A j \in (i + 1)..(end - 1) : ~Parse!FlushLeft(src[j])
    BY <2>1, <2>3
  <2> QED
    BY <2>1, <2>3, <2>4 DEF end, n
<1>4. CASE later # {}
  <2>1. later \in SUBSET Nat
    BY <1>1
  <2>2. \E j \in later : \A k \in later : j <= k
    <3> HIDE DEF later
    <3> QED
      BY <1>4, <2>1, LeastNumber
  <2>3. end \in later /\ \A k \in later : end <= k
    <3> HIDE DEF later
    <3> QED
      BY <1>2, <1>4, <2>2
  <2> HIDE DEF end
  <2>4. end \in (i + 1)..(n + 1) /\ end \in (i + 1)..n /\ Parse!FlushLeft(src[end])
    BY <1>1, <2>3
  <2>5. ASSUME NEW j \in (i + 1)..(end - 1)  PROVE ~Parse!FlushLeft(src[j])
    <3>1. j \in (i + 1)..n /\ ~(end <= j)
      BY <1>1, <2>4
    <3>2. j \notin later
      BY <2>3, <3>1
    <3> QED
      BY <3>1, <3>2
  <2> QED
    BY <2>4, <2>5 DEF end
<1> QED
  BY <1>3, <1>4

\* What a section says, its line numbers left out.
Said(section) ==
  [head |-> section[1], body |-> Parse!Statements(SubSeq(section, 2, Len(section)))]
SameContent(item, said) == item.head = said.head /\ item.body = said.body

\* The section of line i, and what its item says.
Block(src, i) == SubSeq(src, i, Parse!BlockEnd(src, i) - 1)
LEMMA SectionIsItem ==
  ASSUME NEW T, NEW src \in Seq(T), NEW i \in 1..Len(src),
         NEW section, section = Block(src, i)
  PROVE  /\ section \in Seq(T) /\ Len(section) \in Nat /\ Len(section) >= 1
         /\ section[1] = src[i]
         /\ \A j \in 2..Len(section) : ~Parse!FlushLeft(section[j])
         /\ Parse!StartsFlush(src) => SameContent(Parse!Item(src, i), Said(section))
<1> DEFINE n == Len(src)
           end == Parse!BlockEnd(src, i)
<1>1. n \in Nat /\ i \in Nat /\ i <= n
  BY LenProperties
<1>2. end \in (i + 1)..(n + 1) /\ \A j \in (i + 1)..(end - 1) : ~Parse!FlushLeft(src[j])
  BY BlockEnds
<1> HIDE DEF end
<1>3. end \in Nat /\ i \in 1..(n + 1) /\ end - 1 \in (i - 1)..n /\ end - i >= 1
  BY <1>1, <1>2
<1>4. /\ section \in Seq(T) /\ Len(section) = end - i
      /\ \A k \in 1..(end - i) : section[k] = src[i + k - 1]
  <2>1. /\ SubSeq(src, i, end - 1) \in Seq(T)
        /\ Len(SubSeq(src, i, end - 1)) = (end - 1) - i + 1
        /\ \A k \in 1..((end - 1) - i + 1) : SubSeq(src, i, end - 1)[k] = src[i + k - 1]
    BY <1>3, Part
  <2>2. (end - 1) - i + 1 = end - i
    BY <1>1, <1>3
  <2> QED
    BY <2>1, <2>2 DEF end, Block
<1>5. section[1] = src[i]
  <2>1. 1 \in 1..(end - i) /\ i + 1 - 1 = i
    BY <1>1, <1>3
  <2> QED
    BY <1>4, <2>1
<1>6. ASSUME NEW j \in 2..Len(section)  PROVE ~Parse!FlushLeft(section[j])
  <2>1. j \in 1..(end - i) /\ i + j - 1 \in (i + 1)..(end - 1)
    BY <1>1, <1>3, <1>4
  <2> QED
    BY <1>2, <1>4, <2>1
<1>7. SubSeq(section, 2, Len(section)) = SubSeq(src, i + 1, end - 1)
  <2> DEFINE m == end - i - 1
             a == SubSeq(section, 2, Len(section))
             b == SubSeq(src, i + 1, end - 1)
  <2>1. /\ m \in Nat /\ 2 \in 1..(Len(section) + 1) /\ Len(section) \in (2 - 1)..Len(section)
        /\ Len(section) - 2 + 1 = m /\ i + 1 \in 1..(n + 1)
        /\ end - 1 \in ((i + 1) - 1)..n /\ (end - 1) - (i + 1) + 1 = m
    BY <1>1, <1>3, <1>4
  <2>2. /\ a \in Seq(T) /\ Len(a) = Len(section) - 2 + 1
        /\ \A k \in 1..(Len(section) - 2 + 1) : a[k] = section[2 + k - 1]
    <3>1. /\ SubSeq(section, 2, Len(section)) \in Seq(T)
          /\ Len(SubSeq(section, 2, Len(section))) = Len(section) - 2 + 1
          /\ \A k \in 1..(Len(section) - 2 + 1) :
               SubSeq(section, 2, Len(section))[k] = section[2 + k - 1]
      <4> DEFINE l == Len(section)
      <4>1. section \in Seq(T) /\ 2 \in 1..(Len(section) + 1) /\ l \in (2 - 1)..Len(section)
        BY <1>4, <2>1
      <4> HIDE DEF l
      <4>2. /\ SubSeq(section, 2, l) \in Seq(T)
            /\ Len(SubSeq(section, 2, l)) = l - 2 + 1
            /\ \A k \in 1..(l - 2 + 1) : SubSeq(section, 2, l)[k] = section[2 + k - 1]
        BY <4>1, Part
      <4> QED
        BY <4>2 DEF l
    <3> QED
      BY <3>1
  <2>3. /\ b \in Seq(T) /\ Len(b) = (end - 1) - (i + 1) + 1
        /\ \A k \in 1..((end - 1) - (i + 1) + 1) : b[k] = src[(i + 1) + k - 1]
    BY <2>1, Part
  <2> HIDE DEF a, b
  <2>4. ASSUME NEW k \in 1..m  PROVE a[k] = b[k]
    <3>1. 2 + k - 1 \in 1..(end - i) /\ i + (2 + k - 1) - 1 = (i + 1) + k - 1
      BY <1>1, <1>3, <2>1
    <3>2. section[2 + k - 1] = src[i + (2 + k - 1) - 1]
      BY <1>4, <3>1
    <3> QED
      BY <2>1, <2>2, <2>3, <3>1, <3>2
  <2> HIDE DEF m
  <2>5. a = b
    BY <2>1, <2>2, <2>3, <2>4, SeqEqual
  <2> QED
    BY <2>5 DEF a, b
<1>8. Parse!StartsFlush(src) => SameContent(Parse!Item(src, i), Said(section))
  BY <1>5, <1>7 DEF SameContent, Said, Parse!Item, end
<1> QED
  BY <1>3, <1>4, <1>5, <1>6, <1>8

\* The parse of a section alone has its declaration, if it is one.
LEMMA SectionParse ==
  ASSUME NEW src \in Seq(Parse!Lines), NEW i \in 1..Len(src)
  PROVE  Parse!Content(Parse!ParseItems(Block(src, i)))
           = IF src[i] \in Headers THEN <<Said(Block(src, i))>> ELSE <<>>
<1> DEFINE s == Block(src, i)
<1>1. /\ s \in Seq(Parse!Lines) /\ Len(s) \in Nat /\ Len(s) >= 1 /\ s[1] = src[i]
      /\ \A j \in 2..Len(s) : ~Parse!FlushLeft(s[j])
  BY SectionIsItem
<1> HIDE DEF s
<1> DEFINE at == {j \in DOMAIN s : s[j] \in Headers}
<1>2. /\ DOMAIN s = 1..Len(s) /\ s # <<>> /\ 1 \in DOMAIN s
      /\ \A j \in DOMAIN s : j = 1 \/ j \in 2..Len(s)
  <2>1. DOMAIN s = 1..Len(s)
    BY <1>1, LenProperties
  <2> QED
    BY <1>1, <2>1, EmptySeq
<1>3. \A j \in 2..Len(s) : s[j] \notin Headers
  BY <1>1 DEF Parse!FlushLeft
<1>4. CASE src[i] \in Headers
  <2>1. at = {1}
    BY <1>1, <1>2, <1>3, <1>4
  <2>2. Parse!Declarations(s) = <<1>>
    BY <1>1, <1>2, <2>1, OnlyTheFirst DEF Parse!Declarations
  <2> DEFINE x == Parse!Item(s, 1)
  <2>3. Parse!ParseItems(s) = <<x>>
    <3>1. Parse!ParseItems(s) = [j \in DOMAIN <<1>> |-> Parse!Item(s, (<<1>>)[j])]
      BY <2>2, Zenon DEF Parse!ParseItems
    <3> QED
      BY <3>1
  <2>4. Parse!StartsFlush(s)
    <3> SUFFICES ASSUME NEW j \in DOMAIN s, \A k \in 1..(j - 1) : s[k] = "note"
                 PROVE  j = 1
      BY <1>1, <1>4 DEF Parse!StartsFlush, Parse!FlushLeft
    <3>1. j # 1 => 1 \in 1..(j - 1)
      BY <1>1, <1>2
    <3>2. s[1] # "note"
      BY <1>1, <1>4, HeadersAssumption
    <3> QED
      BY <3>1, <3>2
  <2>5. SameContent(x, Said(s))
    <3>1. 1 \in 1..Len(s) /\ \A j \in (1 + 1)..Len(s) : ~Parse!FlushLeft(s[j])
      BY <1>1
    <3>2. Parse!BlockEnd(s, 1) = Len(s) + 1
      BY <1>1, <3>1, BlockEnds
    <3>3. Parse!BlockEnd(s, 1) - 1 = Len(s)
      BY <1>1, <3>2
    <3>4. Block(s, 1) = s
      BY <1>1, <3>3, SubSeqFull DEF Block
    <3> QED
      BY <1>1, <2>4, <3>1, <3>4, SectionIsItem
  <2> HIDE DEF x
  <2>6. Parse!Content(<<x>>) = <<[head |-> x.head, body |-> x.body]>>
    BY DEF Parse!Content
  <2>7. [head |-> x.head, body |-> x.body] = Said(s)
    BY <2>5, Zenon DEF SameContent, Said
  <2> QED
    BY <1>4, <2>3, <2>6, <2>7 DEF s
<1>5. CASE src[i] \notin Headers
  <2>1. at = {}
    BY <1>1, <1>2, <1>3, <1>5
  <2>2. Parse!Declarations(s) = <<>>
    BY <1>1, <2>1, NoneListed DEF Parse!Declarations
  <2>3. Parse!ParseItems(s) = <<>>
    BY <2>2 DEF Parse!ParseItems
  <2>4. Parse!Content(<<>>) = <<>>
    BY DEF Parse!Content
  <2> QED
    BY <1>5, <2>3, <2>4 DEF s
<1> QED
  BY <1>4, <1>5

\* The sections of a text are the blocks of its section starts.
Heads(src) == {i \in DOMAIN src : src[i] \in Headers}
Starts(src) == {i \in DOMAIN src : src[i] # "note" /\ (i = 1 \/ Parse!FlushLeft(src[i]))}

LEMMA SectionsAreBlocks ==
  ASSUME NEW src \in Seq(Parse!Lines)
  PROVE  /\ Parse!SectionStarts(src) = Parse!LinesAt(src, Starts(src))
         /\ \E m \in Nat : /\ DOMAIN Parse!SectionStarts(src) = 1..m
                           /\ DOMAIN Parse!Sections(src) = 1..m
         /\ \A k \in DOMAIN Parse!Sections(src) :
              /\ Parse!SectionStarts(src)[k] \in Starts(src)
              /\ Parse!SectionStarts(src)[k] \in 1..Len(src)
              /\ Parse!Sections(src)[k] = Block(src, Parse!SectionStarts(src)[k])
<1> DEFINE starts == Parse!SectionStarts(src)
<1>1. starts = Parse!LinesAt(src, Starts(src))
  BY DEF Parse!SectionStarts, Starts
<1>2. starts \in Seq(Starts(src))
  <2>1. Starts(src) \in SUBSET DOMAIN src
    BY DEF Starts
  <2> QED
    BY <1>1, <2>1, Listed
<1>3. Len(starts) \in Nat /\ DOMAIN starts = 1..Len(starts)
  BY <1>2, LenProperties
<1>4. \A k \in DOMAIN starts : starts[k] \in Starts(src)
  BY <1>2, <1>3, ElementOfSeq
<1>5. Starts(src) \subseteq 1..Len(src)
  BY LenProperties DEF Starts
<1>6. Parse!Sections(src) = [k \in DOMAIN starts |-> Block(src, starts[k])]
  BY Zenon DEF Parse!Sections, Block
<1> HIDE DEF starts
<1>7. /\ DOMAIN Parse!Sections(src) = DOMAIN starts
      /\ \A k \in DOMAIN starts : Parse!Sections(src)[k] = Block(src, starts[k])
  BY <1>6
<1> QED
  BY <1>1, <1>3, <1>4, <1>5, <1>7 DEF starts

\* The declarations of a text, and the items of a full parse.
LEMMA FullParse ==
  ASSUME NEW src \in Seq(Parse!Lines), Parse!StartsFlush(src)
  PROVE  /\ Parse!Declarations(src) = Parse!LinesAt(src, Heads(src))
         /\ DOMAIN Parse!ParseItems(src) = DOMAIN Parse!Declarations(src)
         /\ \A k \in DOMAIN Parse!Declarations(src) :
              /\ Parse!Declarations(src)[k] \in Heads(src)
              /\ SameContent(Parse!ParseItems(src)[k],
                             Said(Block(src, Parse!Declarations(src)[k])))
<1> DEFINE heads == Parse!Declarations(src)
<1>1. heads = Parse!LinesAt(src, Heads(src))
  BY DEF Parse!Declarations, Heads
<1>2. heads \in Seq(Heads(src))
  <2>1. Heads(src) \in SUBSET DOMAIN src
    BY DEF Heads
  <2> QED
    BY <1>1, <2>1, Listed
<1>3. \A k \in DOMAIN heads : heads[k] \in Heads(src)
  BY <1>2, LenProperties, ElementOfSeq
<1>4. Heads(src) \subseteq 1..Len(src)
  BY LenProperties DEF Heads
<1>5. Parse!ParseItems(src) = [k \in DOMAIN heads |-> Parse!Item(src, heads[k])]
  BY DEF Parse!ParseItems
<1> HIDE DEF heads
<1>6. ASSUME NEW k \in DOMAIN heads
      PROVE  SameContent(Parse!ParseItems(src)[k], Said(Block(src, heads[k])))
  <2>1. heads[k] \in 1..Len(src)
    BY <1>3, <1>4
  <2>2. SameContent(Parse!Item(src, heads[k]), Said(Block(src, heads[k])))
    BY <2>1, SectionIsItem
  <2>3. Parse!ParseItems(src)[k] = Parse!Item(src, heads[k])
    BY <1>5
  <2> QED
    BY <2>2, <2>3
<1>7. DOMAIN Parse!ParseItems(src) = DOMAIN heads
  BY <1>5
<1> QED
  BY <1>1, <1>3, <1>6, <1>7 DEF heads

\* What the parses of the sections of a text say, one after the other.
BySections(src) ==
  FlattenSeq([k \in DOMAIN Parse!Sections(src) |->
                Parse!Content(Parse!ParseItems(Parse!Sections(src)[k]))])

\* parse_program on the whole of a text that starts flush left says what it
\* says on the sections of split_sections, one after the other, whatever lines
\* the text is made of: sections that are no declaration included.
THEOREM SectionsAreTheText ==
  ASSUME NEW src \in Seq(Parse!Lines), Parse!StartsFlush(src)
  PROVE  Parse!Content(Parse!ParseItems(src)) = BySections(src)
<1> DEFINE D == DOMAIN src
           W == [i \in D |-> Said(Block(src, i))]
           V == {W[i] : i \in D}
           G == [i \in D |-> IF src[i] \in Headers THEN <<W[i]>> ELSE <<>>]
           heads == Parse!Declarations(src)
           starts == Parse!SectionStarts(src)
<1>1. D = 1..Len(src)
  BY LenProperties
<1>2. /\ heads = Parse!LinesAt(src, Heads(src))
      /\ DOMAIN Parse!ParseItems(src) = DOMAIN heads
      /\ \A k \in DOMAIN heads :
           /\ heads[k] \in Heads(src)
           /\ SameContent(Parse!ParseItems(src)[k], Said(Block(src, heads[k])))
  BY FullParse
<1>3. /\ starts = Parse!LinesAt(src, Starts(src))
      /\ DOMAIN Parse!Sections(src) = DOMAIN starts
      /\ \A k \in DOMAIN starts :
           /\ starts[k] \in 1..Len(src)
           /\ Parse!Sections(src)[k] = Block(src, starts[k])
  BY SectionsAreBlocks
<1> HIDE DEF heads, starts
<1>4. W \in [D -> V] /\ \A i \in D : W[i] = Said(Block(src, i))
  OBVIOUS
<1>5. G \in [D -> Seq(V)] /\ \A i \in D : G[i] = IF src[i] \in Headers THEN <<W[i]>> ELSE <<>>
  <2>1. ASSUME NEW i \in D  PROVE G[i] \in Seq(V)
    <3>1. W[i] \in V
      OBVIOUS
    <3> HIDE DEF V, W
    <3> QED
      BY <3>1
  <2> HIDE DEF V, W
  <2> QED
    BY <2>1
<1> HIDE DEF W, G, V
<1>6. Parse!Content(Parse!ParseItems(src)) = Mapped(heads, W)
  <2>1. ASSUME NEW k \in DOMAIN heads
        PROVE  [head |-> Parse!ParseItems(src)[k].head, body |-> Parse!ParseItems(src)[k].body]
                 = W[heads[k]]
    <3>1. heads[k] \in D
      BY <1>2 DEF Heads
    <3>2. SameContent(Parse!ParseItems(src)[k], W[heads[k]])
      BY <1>2, <1>4, <3>1
    <3>3. W[heads[k]] = Said(Block(src, heads[k]))
      BY <1>4, <3>1
    <3> QED
      BY <3>2, <3>3, Zenon DEF SameContent, Said
  <2> QED
    BY <1>2, <2>1, Zenon DEF Parse!Content, Mapped
<1>7. Mapped(heads, W)
        = FlattenSeq([i \in D |-> IF i \in Heads(src) THEN <<W[i]>> ELSE <<>>])
  <2>1. Heads(src) \in SUBSET D
    BY DEF Heads
  <2>2. \E U : W \in [D -> U]
    BY <1>4
  <2> QED
    BY <1>2, <2>1, <2>2, ListedImages
<1>8. [i \in D |-> IF i \in Heads(src) THEN <<W[i]>> ELSE <<>>]
        = [i \in D |-> IF i \in Starts(src) THEN G[i] ELSE <<>>]
  <2>1. ASSUME NEW i \in D
        PROVE  (IF i \in Heads(src) THEN <<W[i]>> ELSE <<>>)
                 = (IF i \in Starts(src) THEN G[i] ELSE <<>>)
    <3>1. i \in Heads(src) <=> src[i] \in Headers
      BY DEF Heads
    <3>2. src[i] \in Headers => i \in Starts(src)
      BY HeadersAssumption DEF Starts, Parse!FlushLeft
    <3> QED
      BY <1>5, <3>1, <3>2, Zenon
  <2> QED
    BY <2>1
<1>9. FlattenSeq([i \in D |-> IF i \in Starts(src) THEN G[i] ELSE <<>>])
        = FlattenSeq(Mapped(starts, G))
  <2>1. Starts(src) \in SUBSET D
    BY DEF Starts
  <2>2. \E U : G \in [D -> Seq(U)]
    BY <1>5
  <2> QED
    BY <1>3, <2>1, <2>2, ListedValues
<1>10. Mapped(starts, G)
         = [k \in DOMAIN Parse!Sections(src) |->
              Parse!Content(Parse!ParseItems(Parse!Sections(src)[k]))]
  <2>1. ASSUME NEW k \in DOMAIN starts
        PROVE  G[starts[k]] = Parse!Content(Parse!ParseItems(Parse!Sections(src)[k]))
    <3>1. starts[k] \in 1..Len(src) /\ starts[k] \in D
      BY <1>1, <1>3
    <3>2. Parse!Content(Parse!ParseItems(Block(src, starts[k])))
            = IF src[starts[k]] \in Headers THEN <<W[starts[k]]>> ELSE <<>>
      BY <1>4, <3>1, SectionParse
    <3> QED
      BY <1>3, <1>5, <3>1, <3>2
  <2> QED
    BY <1>3, <2>1, Zenon DEF Mapped
<1> QED
  BY <1>6, <1>7, <1>8, <1>9, <1>10 DEF BySections

\* In a tidy text every section is a declaration: item k is that of section k.
LEMMA TidySections ==
  ASSUME NEW src \in Seq(Parse!Lines), Parse!Tidy(src)
  PROVE  /\ DOMAIN Parse!ParseItems(src) = DOMAIN Parse!Sections(src)
         /\ \A k \in DOMAIN Parse!Sections(src) :
              /\ Parse!Content(Parse!ParseItems(Parse!Sections(src)[k]))
                   = <<Said(Parse!Sections(src)[k])>>
              /\ SameContent(Parse!ParseItems(src)[k], Said(Parse!Sections(src)[k]))
<1> DEFINE starts == Parse!SectionStarts(src)
           heads == Parse!Declarations(src)
<1>1. DOMAIN src = 1..Len(src) /\ \A i \in DOMAIN src : src[i] # "plain"
  BY LenProperties DEF Parse!Tidy
<1>2. Parse!StartsFlush(src)
  BY DEF Parse!Tidy
<1>3. Starts(src) = Heads(src)
  <2>1. ASSUME NEW i \in DOMAIN src  PROVE i \in Starts(src) <=> i \in Heads(src)
    <3>1. Parse!FlushLeft(src[i]) <=> src[i] \in Headers
      BY <1>1 DEF Parse!FlushLeft
    <3>2. src[i] \in Headers => src[i] # "note"
      BY HeadersAssumption
    <3>3. i = 1 /\ src[i] # "note" => Parse!FlushLeft(src[i])
      <4>1. i = 1 => \A j \in 1..(i - 1) : src[j] = "note"
        OBVIOUS
      <4> QED
        BY <1>2, <4>1 DEF Parse!StartsFlush
    <3> QED
      BY <3>1, <3>2, <3>3 DEF Starts, Heads
  <2> QED
    BY <2>1 DEF Starts, Heads
<1>4. /\ heads = Parse!LinesAt(src, Heads(src))
      /\ DOMAIN Parse!ParseItems(src) = DOMAIN heads
      /\ \A k \in DOMAIN heads :
           /\ heads[k] \in Heads(src)
           /\ SameContent(Parse!ParseItems(src)[k], Said(Block(src, heads[k])))
  BY <1>2, FullParse
<1>5. /\ starts = Parse!LinesAt(src, Starts(src))
      /\ DOMAIN Parse!Sections(src) = DOMAIN starts
      /\ \A k \in DOMAIN starts :
           /\ starts[k] \in 1..Len(src)
           /\ Parse!Sections(src)[k] = Block(src, starts[k])
  BY SectionsAreBlocks
<1> HIDE DEF starts, heads
<1>6. starts = heads
  BY <1>3, <1>4, <1>5
<1>7. ASSUME NEW k \in DOMAIN starts
      PROVE  Parse!Content(Parse!ParseItems(Parse!Sections(src)[k]))
               = <<Said(Parse!Sections(src)[k])>>
  <2>1. starts[k] \in 1..Len(src) /\ src[starts[k]] \in Headers
    BY <1>4, <1>5, <1>6 DEF Heads
  <2>2. Parse!Content(Parse!ParseItems(Block(src, starts[k]))) = <<Said(Block(src, starts[k]))>>
    BY <2>1, SectionParse
  <2> QED
    BY <1>5, <2>2
<1> QED
  BY <1>4, <1>5, <1>6, <1>7

\* What a program says is what its items say.
LEMMA SameSaying ==
  ASSUME NEW p, NEW q, Parse!Content(p) = Parse!Content(q)
  PROVE  /\ DOMAIN p = DOMAIN q
         /\ \A k \in DOMAIN q : p[k].head = q[k].head /\ p[k].body = q[k].body
<1>1. /\ DOMAIN Parse!Content(p) = DOMAIN p /\ DOMAIN Parse!Content(q) = DOMAIN q
      /\ \A k \in DOMAIN p : /\ Parse!Content(p)[k].head = p[k].head
                             /\ Parse!Content(p)[k].body = p[k].body
      /\ \A k \in DOMAIN q : /\ Parse!Content(q)[k].head = q[k].head
                             /\ Parse!Content(q)[k].body = q[k].body
  BY DEF Parse!Content
<1> QED
  BY <1>1

\* What flattened programs say is what each of them says, flattened.
LEMMA ContentOfFlatten ==
  ASSUME NEW m \in Nat, NEW ss, DOMAIN ss = 1..m, ss = [k \in 1..m |-> ss[k]],
         \A k \in 1..m : \E n \in Nat : /\ DOMAIN ss[k] = 1..n
                                        /\ ss[k] = [j \in 1..n |-> ss[k][j]]
  PROVE  Parse!Content(FlattenSeq(ss)) = FlattenSeq([k \in 1..m |-> Parse!Content(ss[k])])
<1> DEFINE T == UNION {{ss[k][j] : j \in DOMAIN ss[k]} : k \in 1..m}
           g == [x \in T |-> [head |-> x.head, body |-> x.body]]
           V == {g[x] : x \in T}
<1>1. ASSUME NEW k \in 1..m  PROVE ss[k] \in Seq(T)
  <2>1. PICK n \in Nat : DOMAIN ss[k] = 1..n /\ ss[k] = [j \in 1..n |-> ss[k][j]]
    OBVIOUS
  <2>2. \A j \in 1..n : ss[k][j] \in T
    BY <2>1
  <2> HIDE DEF T
  <2>3. ss[k] \in [1..n -> T]
    BY <2>1, <2>2
  <2> QED
    BY <2>3, IsASeq
<1>2. ss \in Seq(Seq(T))
  <2> HIDE DEF T
  <2>1. ss \in [1..m -> Seq(T)]
    BY <1>1
  <2> QED
    BY <2>1, IsASeq
<1>3. g \in [T -> V] /\ \A x \in T : g[x] = [head |-> x.head, body |-> x.body]
  OBVIOUS
<1> HIDE DEF T, g, V
<1>4. ASSUME NEW p \in Seq(T)  PROVE Parse!Content(p) = Mapped(p, g)
  <2>1. \A k \in DOMAIN p : p[k] \in T
    BY LenProperties, ElementOfSeq
  <2> QED
    BY <1>3, <2>1, Zenon DEF Parse!Content, Mapped
<1>5. FlattenSeq(ss) \in Seq(T)
  BY <1>2, FlattenType
<1>6. Mapped(FlattenSeq(ss), g) = FlattenSeq(MappedParts(ss, g))
  BY <1>2, <1>3, MappedFlatten
<1>7. MappedParts(ss, g) = [k \in 1..m |-> Parse!Content(ss[k])]
  BY <1>1, <1>4, Zenon DEF MappedParts
<1> QED
  BY <1>4, <1>5, <1>6, <1>7

\* The invariant of the snapshot.
SnapshotInv ==
  /\ text \in Seq(Parse!Lines)
  /\ ContentIsCurrent

\* The items of a section, from the old program or from its own parse.
LEMMA SectionItemsSay ==
  ASSUME text \in Seq(Parse!Lines), Parse!Tidy(text),
         Parse!Content(items) = Parse!Content(Parse!ParseItems(text)),
         NEW new \in Seq(Parse!Lines), NEW k \in DOMAIN Parse!Sections(new)
  PROVE  /\ Parse!Content(Parse!SectionItems(text, new, k))
              = Parse!Content(Parse!ParseItems(Parse!Sections(new)[k]))
         /\ \E n \in Nat :
              /\ DOMAIN Parse!SectionItems(text, new, k) = 1..n
              /\ Parse!SectionItems(text, new, k)
                   = [j \in 1..n |-> Parse!SectionItems(text, new, k)[j]]
<1>1. CASE Parse!Unchanged(text, new, k)
  <2>1. k \in DOMAIN Parse!Sections(text) /\ Parse!Sections(text)[k] = Parse!Sections(new)[k]
    BY <1>1 DEF Parse!Unchanged
  <2>2. /\ DOMAIN items = DOMAIN Parse!ParseItems(text)
        /\ \A j \in DOMAIN Parse!ParseItems(text) :
             /\ items[j].head = Parse!ParseItems(text)[j].head
             /\ items[j].body = Parse!ParseItems(text)[j].body
    BY SameSaying
  <2>3. /\ DOMAIN Parse!ParseItems(text) = DOMAIN Parse!Sections(text)
        /\ Parse!Content(Parse!ParseItems(Parse!Sections(text)[k]))
             = <<Said(Parse!Sections(text)[k])>>
        /\ SameContent(Parse!ParseItems(text)[k], Said(Parse!Sections(text)[k]))
    BY <2>1, TidySections
  <2>4. Parse!SectionItems(text, new, k) = <<items[k]>>
    BY <1>1, <2>1, <2>2, <2>3, Zenon DEF Parse!SectionItems
  <2> DEFINE x == items[k]
  <2>5. SameContent(x, Said(Parse!Sections(new)[k]))
    BY <2>1, <2>2, <2>3 DEF SameContent
  <2> HIDE DEF x
  <2>6. Parse!Content(<<x>>) = <<[head |-> x.head, body |-> x.body]>>
    BY DEF Parse!Content
  <2>7. [head |-> x.head, body |-> x.body] = Said(Parse!Sections(new)[k])
    BY <2>5, Zenon DEF SameContent, Said
  <2>8. DOMAIN <<x>> = 1..1 /\ <<x>> = [j \in 1..1 |-> (<<x>>)[j]]
    OBVIOUS
  <2> QED
    BY <2>1, <2>3, <2>4, <2>6, <2>7, <2>8 DEF x
<1>2. CASE ~Parse!Unchanged(text, new, k)
  <2> DEFINE s == Parse!Sections(new)[k]
  <2>1. Parse!SectionItems(text, new, k) = Parse!ParseItems(s)
    BY <1>2, Zenon DEF Parse!SectionItems
  <2>2. s \in Seq(Parse!Lines)
    <3>1. PICK i \in 1..Len(new) : s = Block(new, i)
      BY SectionsAreBlocks
    <3> HIDE DEF s
    <3> QED
      BY <3>1, SectionIsItem
  <2> HIDE DEF s
  <2> DEFINE heads == Parse!Declarations(s)
             at == {i \in DOMAIN s : s[i] \in Headers}
  <2>3. heads \in Seq(at)
    BY <2>2, Listed DEF Parse!Declarations
  <2>4. Parse!ParseItems(s) = [j \in DOMAIN heads |-> Parse!Item(s, heads[j])]
    BY DEF Parse!ParseItems
  <2> HIDE DEF heads
  <2>5. DOMAIN heads = 1..Len(heads) /\ Len(heads) \in Nat
    BY <2>3, LenProperties
  <2>6. \E n \in Nat : /\ DOMAIN Parse!ParseItems(s) = 1..n
                       /\ Parse!ParseItems(s) = [j \in 1..n |-> Parse!ParseItems(s)[j]]
    BY <2>4, <2>5
  <2> QED
    BY <2>1, <2>6 DEF s
<1> QED
  BY <1>1, <1>2

\* An update of the snapshot of a tidy text says what the sections say.
LEMMA UpdatedItems ==
  ASSUME text \in Seq(Parse!Lines), Parse!Tidy(text),
         Parse!Content(items) = Parse!Content(Parse!ParseItems(text)),
         NEW new \in Seq(Parse!Lines)
  PROVE  Parse!Content(Parse!IncrementalItems(text, new)) = BySections(new)
<1>1. PICK m \in Nat : DOMAIN Parse!Sections(new) = 1..m
  BY SectionsAreBlocks
<1> DEFINE ss == [k \in 1..m |-> Parse!SectionItems(text, new, k)]
<1>2. ASSUME NEW k \in 1..m
      PROVE  /\ Parse!Content(ss[k]) = Parse!Content(Parse!ParseItems(Parse!Sections(new)[k]))
             /\ \E n \in Nat : DOMAIN ss[k] = 1..n /\ ss[k] = [j \in 1..n |-> ss[k][j]]
  BY <1>1, SectionItemsSay
<1>3. DOMAIN ss = 1..m /\ ss = [k \in 1..m |-> ss[k]]
  OBVIOUS
<1>4. Parse!IncrementalItems(text, new) = FlattenSeq(ss)
  BY <1>1, SameFlattenSeq, Zenon DEF Parse!IncrementalItems
<1> HIDE DEF ss
<1>5. Parse!Content(FlattenSeq(ss)) = FlattenSeq([k \in 1..m |-> Parse!Content(ss[k])])
  BY <1>2, <1>3, ContentOfFlatten
<1>6. [k \in 1..m |-> Parse!Content(ss[k])]
        = [k \in 1..m |-> Parse!Content(Parse!ParseItems(Parse!Sections(new)[k]))]
  BY <1>2
<1> QED
  BY <1>1, <1>4, <1>5, <1>6 DEF BySections

\* A client's text is a sequence of lines.
LEMMA DocumentsAreTexts == Parse!Documents \subseteq Seq(Parse!Lines)
<1> SUFFICES ASSUME NEW d \in Parse!Documents  PROVE d \in Seq(Parse!Lines)
  OBVIOUS
<1>1. CASE d = <<>>
  BY <1>1
<1>2. CASE d \in UNION {[1..n -> Parse!Lines] : n \in 1..MaxLines}
  <2>1. PICK n \in 1..MaxLines : d \in [1..n -> Parse!Lines]
    BY <1>2
  <2> QED
    BY <2>1
<1> QED
  BY <1>1, <1>2 DEF Parse!Documents

LEMMA SnapshotInit == Parse!Init => SnapshotInv
<1> SUFFICES ASSUME Parse!Init  PROVE SnapshotInv
  OBVIOUS
<1>1. text \in Seq(Parse!Lines) /\ items = Parse!ParseItems(text)
  BY DocumentsAreTexts DEF Parse!Init
<1> QED
  BY <1>1 DEF SnapshotInv, ContentIsCurrent, Parse!ContentIsCurrent

LEMMA SnapshotStep == SnapshotInv /\ [Parse!Next]_(Parse!vars) => SnapshotInv'
<1> SUFFICES ASSUME SnapshotInv, [Parse!Next]_(Parse!vars)  PROVE SnapshotInv'
  OBVIOUS
<1>1. CASE Parse!Next
  <2>1. PICK new \in Parse!Edited : Parse!Update(new)
    BY <1>1 DEF Parse!Next
  <2>2. new \in Seq(Parse!Lines)
    BY DocumentsAreTexts DEF Parse!Edited
  <2>3. /\ text' = new /\ items' = Parse!IncrementalItems(text, new)
        /\ aligned' = (aligned /\ Parse!Tidy(text))
    BY <2>1 DEF Parse!Update
  <2>4. ASSUME aligned', Parse!StartsFlush(new)
        PROVE  Parse!Content(items') = Parse!Content(Parse!ParseItems(new))
    <3>1. aligned /\ Parse!Tidy(text)
      BY <2>3, <2>4
    <3>2. Parse!Content(items) = Parse!Content(Parse!ParseItems(text))
      BY <3>1 DEF SnapshotInv, ContentIsCurrent, Parse!ContentIsCurrent, Parse!Tidy
    <3>3. Parse!Content(Parse!IncrementalItems(text, new)) = BySections(new)
      BY <2>2, <3>1, <3>2, UpdatedItems DEF SnapshotInv
    <3>4. Parse!Content(Parse!ParseItems(new)) = BySections(new)
      BY <2>2, <2>4, SectionsAreTheText
    <3> QED
      BY <2>3, <3>3, <3>4
  <2>5. ContentIsCurrent'
    <3>1. Parse!StartsFlush(text)' = Parse!StartsFlush(new)
      BY <2>3 DEF Parse!StartsFlush, Parse!FlushLeft
    <3>2. Parse!ParseItems(text)' = Parse!ParseItems(new)
      BY <2>3 DEF Parse!ParseItems, Parse!Declarations, Parse!LinesAt, Parse!Item,
           Parse!BlockEnd, Parse!FlushLeft, Parse!StartsFlush
    <3>3. (Parse!Content(items) = Parse!Content(Parse!ParseItems(text)))'
            <=> Parse!Content(items') = Parse!Content(Parse!ParseItems(new))
      BY <3>2 DEF Parse!Content
    <3> QED
      BY <2>4, <3>1, <3>3 DEF ContentIsCurrent, Parse!ContentIsCurrent
  <2> QED
    BY <2>2, <2>3, <2>5 DEF SnapshotInv
<1>2. CASE UNCHANGED Parse!vars
  <2>1. text' = text /\ items' = items /\ aligned' = aligned
    BY <1>2 DEF Parse!vars
  <2>2. Parse!StartsFlush(text)' = Parse!StartsFlush(text)
    BY <2>1 DEF Parse!StartsFlush, Parse!FlushLeft
  <2>3. Parse!ParseItems(text)' = Parse!ParseItems(text)
    BY <2>1 DEF Parse!ParseItems, Parse!Declarations, Parse!LinesAt, Parse!Item,
         Parse!BlockEnd, Parse!FlushLeft, Parse!StartsFlush
  <2>4. (Parse!Content(items) = Parse!Content(Parse!ParseItems(text)))'
          <=> Parse!Content(items) = Parse!Content(Parse!ParseItems(text))
    BY <2>1, <2>3 DEF Parse!Content
  <2> QED
    BY <2>1, <2>2, <2>4 DEF SnapshotInv, ContentIsCurrent, Parse!ContentIsCurrent
<1> QED
  BY <1>1, <1>2

\* Whatever the lines of the texts: as long as the texts that are changed are
\* tidy, DocumentSnapshot::update leaves what a full parse of the new text
\* would say, in order and with the bodies: reusing item k of the old program
\* for section k never takes the item of another section.
THEOREM ContentIsRight == Parse!Spec => []ContentIsCurrent
<1>1. Parse!Init => SnapshotInv
  BY SnapshotInit
<1>2. SnapshotInv /\ [Parse!Next]_(Parse!vars) => SnapshotInv'
  BY SnapshotStep
<1>3. SnapshotInv => ContentIsCurrent
  BY DEF SnapshotInv
<1> QED
  BY <1>1, <1>2, <1>3, PTL DEF Parse!Spec
=============================================================================
