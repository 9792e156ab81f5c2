------------------------------- MODULE Editor -------------------------------
(***************************************************************************)
(* What the editor is told of a document beside its diagnostics: semantic  *)
(* tokens (crates/skript-core/src/tokens.rs), folding ranges               *)
(* (crates/skript-lsp/src/folding.rs), selections, signature help, hints,  *)
(* quick fixes and the outline (crates/skript-lsp/src/backend.rs).  Each   *)
(* answer is computed from the text, its tokens or its parsed items.       *)
(***************************************************************************)
EXTENDS Semantic, Positions

CONSTANT TypeNames   \* words that are names of types

-----------------------------------------------------------------------------
(* Semantic tokens: places in bytes with a type.                           *)

SemanticToken(line, col, length, ty) ==
    [line |-> line, col |-> col, length |-> length, ty |-> ty]
OperatorWords == {<<"and">>, <<"or">>, <<"not">>, <<"is">>, <<"isn't">>}
Unshown == {<<":">>, <<",">>, <<";">>, <<"(">>, <<")">>, <<"[">>, <<"]">>}
IsWord(t) == t.kind \in {"keyword", "identifier"}
IsShown(t) ==
    \/ IsWord(t)
    \/ t.kind \in {"string", "strtext", "tagopen", "tagclose", "variable",
                   "number", "boolean"}
    \/ t.kind = "operator" /\ t.value \notin Unshown

\* The last word before token i, on whatever line.
PrevWord(i) ==
    LET words == {j \in 1 .. i - 1 : IsWord(tokens[j])}
    IN IF words = {} THEN <<>> ELSE tokens[Max(words)].value
SemanticType(i) ==
    LET t == tokens[i] IN
    CASE t.kind \in {"string", "strtext", "tagopen", "tagclose"} -> "string"
      [] t.kind \in {"variable", "number", "operator"} -> t.kind
      [] IsWord(t) /\ t.value \in OperatorWords -> "operator"
      [] IsWord(t) /\ PrevWord(i) = <<"on">> -> "event"
      [] IsWord(t) /\ PrevWord(i) = <<"function">> -> "function"
      [] t.kind = "identifier" /\ t.value \in TypeNames -> "type"
      [] OTHER -> "keyword"

\* The line is found in a table of byte offsets, by a token's offset in
\* characters.
LineTable(s) == [n \in 1 .. LineCount(s) |-> LineStartOffset(s, n - 1)]
LineIndex(starts, offset) ==
    Cardinality({n \in DOMAIN starts : starts[n] <= offset}) - 1
Placement(start, length, ty) == [at |-> start, length |-> length, ty |-> ty]
LexedOn(lineOf, line) ==
    LET on == SelectSeq([i \in DOMAIN tokens |-> i],
                        LAMBDA i : IsShown(tokens[i]) /\ lineOf[i] = line)
    IN [k \in DOMAIN on |->
          Placement(tokens[on[k]].start, tokens[on[k]].end - tokens[on[k]].start,
                    SemanticType(on[k]))]

\* The comment pre-pass: from the first # of a line to its end, unless an odd
\* number of quotes comes before it on that line.
Occurrences(s, c) == Cardinality({i \in DOMAIN s : s[i] = c})
CommentOn(s, line) ==
    LET raw == RawLine(s, line)
        hash == {i \in DOMAIN raw : raw[i] = "#"}
        before == Prefix(raw, Min(hash) - 1)
    IN IF hash = {} THEN <<>>
       ELSE IF Occurrences(before, "\"") % 2 = 1 THEN <<>>
       ELSE <<Placement(LineStartOffset(s, line) + ByteLen(before),
                        ByteLen(raw) - ByteLen(before), "comment")>>

MergeAdjacent(seq) ==
    FoldLeft(LAMBDA done, t :
               IF /\ done # <<>>
                  /\ t.at = Last(done).at + Last(done).length
                  /\ t.ty = Last(done).ty
               THEN [done EXCEPT ![Len(done)].length = @ + t.length]
               ELSE Append(done, t),
             <<>>, seq)
\* The lexed tokens of a line are in order; its comment is sorted into them.
WithComment(lexed, comment) ==
    Then(SelectSeq(lexed, LAMBDA t : comment = <<>> \/ t.at <= comment[1].at),
         LAMBDA upTo :
           MergeAdjacent(upTo \o comment \o SubSeq(lexed, Len(upTo) + 1, Len(lexed))))
TokensOn(s, starts, lineOf, line) ==
    Then(WithComment(LexedOn(lineOf, line), CommentOn(s, line)), LAMBDA found :
      [k \in DOMAIN found |->
         SemanticToken(line, found[k].at - starts[line + 1],
                       found[k].length, found[k].ty)])
OfLines(s, starts, lineOf) ==
    FlattenSeq([n \in DOMAIN starts |-> TokensOn(s, starts, lineOf, n - 1)])
SemanticTokens(s) ==
    Then(LineTable(s), LAMBDA starts :
      OfLines(s, starts,
              [i \in DOMAIN tokens |-> LineIndex(starts, tokens[i].start)]))

\* Fault: a column counts from the token before even on a new line.
FaultRelative(prev, t) ==
    <<Max({0, t.line - prev.line}), Max({0, t.start - prev.start}), t.end - t.start, t.ty>>

Relative(prev, t) ==
    LET down == Max({0, t.line - prev.line})
        right == IF down = 0 THEN Max({0, t.start - prev.start}) ELSE t.start
    IN <<down, right, t.end - t.start, t.ty>>
\* Each token in units, cut off at the end of its line, relative to the one
\* before it.
Column(lines, t, byte) == ByteOffsetToUtf16Col(lines[t.line + 1], byte)
CutOff(lines, t) ==
    [line |-> t.line, start |-> Column(lines, t, t.col),
     end |-> Column(lines, t, t.col + t.length), ty |-> t.ty]
EachRelative(cut) ==
    [i \in DOMAIN cut |->
       Relative(IF i = 1 THEN [line |-> 0, start |-> 0] ELSE cut[i - 1], cut[i])]
EncodeSemanticTokens(s, toks) ==
    Then([n \in 1 .. LineCount(s) |-> LineTextAt(s, n - 1)], LAMBDA lines :
      EachRelative([i \in DOMAIN toks |-> CutOff(lines, toks[i])]))
SemanticTokensFull(s) == EncodeSemanticTokens(s, SemanticTokens(s))

-----------------------------------------------------------------------------
(* Folding ranges, from the blanks each line begins with.                  *)

LeadingBlanks(line) ==
    Min({n \in 0 .. Len(line) : n = Len(line) \/ line[n + 1] \notin Blanks})
IsSkipped(line) ==
    LET content == SelectSeq(line, LAMBDA c : c \notin Blanks \cup {"\r"})
    IN content = <<>> \/ content[1] = "#"
TextLines(s) ==
    [n \in 1 .. LineCount(s) - (IF RawLine(s, LineCount(s) - 1) = <<>> THEN 1 ELSE 0)
       |-> LineTextAt(s, n - 1)]

EndsRange(indent, open) == indent <= open.indent
\* Every line ends the ranges as deep as it or deeper, the innermost first,
\* and opens one unless it is flush left.
FoldLine(acc, n) ==
    LET line == acc.lines[n + 1]
        indent == LeadingBlanks(line)
        ended == SelectSeq(acc.stack, LAMBDA o : EndsRange(indent, o))
        kept == SelectSeq(acc.stack, LAMBDA o : ~EndsRange(indent, o))
        longer == SelectSeq(Reverse(ended), LAMBDA o : n > o.line + 1)
    IN IF IsSkipped(line) THEN acc
       ELSE [acc EXCEPT
               !.stack = IF indent > 0 /\ (kept = <<>> \/ Last(kept).indent < indent)
                         THEN Append(kept, [line |-> n, indent |-> indent])
                         ELSE kept,
               !.ranges = @ \o [k \in DOMAIN longer |-> <<longer[k].line, n - 1>>]]
ComputeFoldingRanges(s) ==
    LET lines == TextLines(s)
        walked == FoldLeft(FoldLine, [lines |-> lines, stack |-> <<>>, ranges |-> <<>>],
                           [n \in DOMAIN lines |-> n - 1])
        open == SelectSeq(Reverse(walked.stack),
                          LAMBDA o : Len(lines) - 1 > o.line + 1)
    IN walked.ranges \o [k \in DOMAIN open |-> <<open[k].line, Len(lines) - 1>>]

-----------------------------------------------------------------------------
(* Selections, quick fixes and hints.                                      *)

WordChars == Letters \cup Digits
WordBefore(s, i) == {k \in 0 .. i : \A j \in k + 1 .. i : s[j] \in WordChars}
WordBehind(s, i) == {k \in i .. Len(s) : \A j \in i + 1 .. k : s[j] \in WordChars}
LineRange(s, line) == <<<<line, 0>>, <<line, Units(LineTextAt(s, line))>>>>

\* The word at a position, its line and the document.
SelectionRange(s, position) ==
    LET line == LineTextAt(s, position[1])
        i == Whole(line, Utf16ColToByteOffset(line, position[2]))
        Place(k) == <<position[1], Units(Prefix(line, k))>>
    IN <<<<Place(Min(WordBefore(line, i))), Place(Max(WordBehind(line, i)))>>,
         LineRange(s, position[1]),
         <<<<0, 0>>, DocumentEndPosition(s)>>>>

\* The quick fix of an unused variable empties the line of its diagnostic.
RemoveUnused(s, declaration) ==
    LineRange(s, OffsetToLspPosition(s, declaration.start)[1])
InlayHints(s, program) ==
    LET hints == TypeHints(program)
    IN [i \in DOMAIN hints |-> OffsetToLspPosition(s, hints[i].at)]
Outline(s, program) ==
    LET found == DocumentSymbols(program)
    IN [i \in DOMAIN found |-> SpanToRange(s, found[i].start, found[i].end)]

-----------------------------------------------------------------------------
(* Signature help: the call around the cursor, found in the raw text.      *)

\* Fault: closed parentheses are not skipped.
FaultOpens(s, i) == s[i] = "("

\* The parenthesis at i is open at the end of s.
Opens(s, i) ==
    LET inner == SubSeq(s, i + 1, Len(s))
    IN s[i] = "(" /\ Occurrences(inner, ")") <= Occurrences(inner, "(")
FindFunctionCallContext(s, offset) ==
    LET before == Prefix(s, Whole(s, offset))
        opening == {i \in DOMAIN before : Opens(before, i)}
        i == Max(opening)
        name == SubSeq(before, Min(WordBefore(before, i - 1)) + 1, i - 1)
    IN IF opening = {} THEN <<>>
       ELSE IF name = <<>> THEN <<>>
       ELSE <<[name |-> name,
               active |-> Occurrences(SubSeq(before, i + 1, Len(before)), ",")]>>
SignatureHelp(s, program, offset) ==
    LET context == FindFunctionCallContext(s, offset)
        info == Registered(program, context[1].name)
        count == Len(Params(info[1]))
    IN IF context = <<>> THEN <<>>
       ELSE IF info = <<>> THEN <<>>
       ELSE <<[name |-> info[1].name,
               active |-> IF count = 0 THEN 0 ELSE Min({context[1].active, count - 1})]>>

-----------------------------------------------------------------------------
(* Properties.                                                             *)

\* What the client makes of the relative tokens.
Decoded(data) ==
    LET from[k \in 0 .. Len(data)] ==
          IF k = 0 THEN <<0, 0>>
          ELSE LET prev == from[k - 1] IN
               IF data[k][1] = 0 THEN <<prev[1], prev[2] + data[k][2]>>
               ELSE <<prev[1] + data[k][1], data[k][2]>>
    IN [k \in DOMAIN data |->
          [from |-> from[k], to |-> <<from[k][1], from[k][2] + data[k][3]>>,
           ty |-> data[k][4]]]

\* The client's tokens come in order and do not overlap; in a text without
\* wide characters each token of the lexer that is shown is inside one of its
\* type, and nothing else is but the comments.
Lexed ==
    {[at |-> tokens[i].start, to |-> tokens[i].end - 1, ty |-> SemanticType(i)] :
       i \in {j \in DOMAIN tokens : IsShown(tokens[j]) /\ tokens[j].start < tokens[j].end}}
InChars(t) ==
    LET from == LspPositionToOffset(text, t.from)
    IN [ty |-> t.ty, chars |-> from .. from + t.to[2] - t.from[2] - 1]
HighlightsAreInPlace ==
    \A shown \in {Decoded(SemanticTokensFull(text))} :
      /\ \A k \in 2 .. Len(shown) : Before(shown[k - 1].to, shown[k].from)
      /\ Range(text) \cap Wide = {} =>
           \A lexed \in {Lexed}, marks \in {{InChars(t) : t \in Range(shown)}} :
             /\ \A t \in lexed : \E m \in marks : m.ty = t.ty /\ t.at \in m.chars
             /\ \A m \in marks : m.ty # "comment" =>
                  m.chars \subseteq UNION {t.at .. t.to : t \in lexed}

\* Two folds are apart or one is in the other, and below its first line a fold
\* has only deeper lines.
FoldsAreDeeper ==
    LET folds == ComputeFoldingRanges(text)
        lines == TextLines(text)
    IN \A i \in DOMAIN folds :
         /\ folds[i][1] < folds[i][2] /\ folds[i][2] < Len(lines)
         /\ \A n \in folds[i][1] + 1 .. folds[i][2] :
              \/ IsSkipped(lines[n + 1])
              \/ LeadingBlanks(lines[n + 1]) > LeadingBlanks(lines[folds[i][1] + 1])
         /\ \A j \in 1 .. i - 1 :
              \/ folds[j][2] < folds[i][1] \/ folds[i][2] < folds[j][1]
              \/ folds[i][1] < folds[j][1] /\ folds[j][2] <= folds[i][2]
              \/ folds[j][1] < folds[i][1] /\ folds[i][2] <= folds[j][2]

\* Each selection is inside the next, around the position it was asked for.
SelectionsNest ==
    \A p \in {OffsetToLspPosition(text, o) : o \in Places(text)} :
      LET chain == <<<<p, p>>>> \o SelectionRange(text, p) IN
      \A i \in 2 .. Len(chain) : /\ Before(chain[i][1], chain[i - 1][1])
                                 /\ Before(chain[i - 1][2], chain[i][2])

\* The outline is in the order of the text, two hints are never at one place,
\* and the quick fix of an unused variable covers where it is set.
AnalysisIsInPlace ==
    /\ \A outline \in {Outline(text, items)} : \A i \in DOMAIN outline :
         /\ Before(outline[i][1], outline[i][2])
         /\ i > 1 => Before(outline[i - 1][2], outline[i][1])
    /\ \A hints \in {InlayHints(text, items)} :
         \A i, j \in DOMAIN hints : hints[i] = hints[j] => i = j
    /\ \A d \in Range(UnusedLocals(items)) :
         \A fix \in {RemoveUnused(text, d)}, at \in {SpanToRange(text, d.start, d.end)} :
           Before(fix[1], at[1]) /\ Before(at[2], fix[2])

\* What the editor shows is where the text has it, in lines, columns and
\* relative tokens that each went through several conversions.  A # inside
\* quotes or braces and a carriage return that ends the text are left out:
\* there the code's answers do overlap.
RangesAreWellFormed ==
    Done =>
      /\ Range(text) \cap {"#"} = {} \/ Range(text) \cap {"\"", "{"} = {}
           => HighlightsAreInPlace
      /\ FoldsAreDeeper
      /\ (text = <<>> \/ Last(text) # "\r") => SelectionsNest
      /\ NoErrors => AnalysisIsInPlace

\* The cursor in an argument of a call in a statement, behind arguments
\* without commas and strings of their own: however many calls and
\* parentheses are closed before it, the help is that of the call the parser
\* sees there, if that function is declared, at that argument.
SignatureIsOfTheCall ==
    Analysed =>
      \A c \in Range(RecordedCalls(items)) : \A k \in 2 .. Len(c.kids) :
        \A offset \in c.kids[k].start .. c.kids[k].end :
          LET written == Slice(c.kids[2].start, offset)
              argument == Slice(c.kids[k].start, offset)
              info == Registered(items, c.kids[1].name)
          IN (/\ Char(c.kids[1].end) = "("
              /\ "\"" \notin Range(written)
              /\ Occurrences(written, ",") = k - 2
              /\ Occurrences(argument, "(") = Occurrences(argument, ")")) =>
               SignatureHelp(text, items, offset) =
                 IF info = <<>> THEN <<>>
                 ELSE <<[name |-> info[1].name,
                         active |-> IF Params(info[1]) = <<>> THEN 0
                                    ELSE Min({k - 2, Len(Params(info[1])) - 1})]>>

=============================================================================
