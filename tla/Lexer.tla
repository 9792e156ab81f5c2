------------------------------- MODULE Lexer -------------------------------
(***************************************************************************)
(* The indentation-aware lexer (crates/skript-core/src/lexer.rs): the      *)
(* token stream of one text, with INDENT and DEDENT tokens, as a state     *)
(* machine.  One action is one round of Lexer::next_token, which calls     *)
(* itself again where a round yields no token.                             *)
(*                                                                         *)
(* A text is a sequence of lexemes: single characters, and whole words     *)
(* where the code scans a word letter by letter (two adjacent words make   *)
(* one longer word, as their letters would).  Offsets count lexemes from   *)
(* 0 as the code's offsets count characters; a lexeme of Wide stands for   *)
(* one character of several bytes.  Letter case is left out.               *)
(***************************************************************************)
EXTENDS Integers, Sequences, FiniteSets, SequencesExt, FiniteSetsExt

CONSTANTS
    Texts,      \* the texts to be read, sequences of lexemes
    Names,      \* words that are no keyword
    LocalNames, \* those of them that start with "_"
    Wide,       \* lexemes that take two bytes or four
    Astral      \* those of them that take four, two UTF-16 units

ASSUME LexerAssumption == Texts \subseteq Seq(STRING) /\ Astral \subseteq Wide

Keywords ==
    {"add", "after", "aliases", "and", "as", "at", "before", "broadcast", "by",
     "cancel", "clear", "command", "continue", "damage", "delete", "do",
     "else", "erase", "every", "example", "execute", "exit", "for", "from",
     "function", "give", "heal", "if", "in", "into", "is", "isn't", "loop",
     "make", "named", "no", "not", "now", "of", "on", "options", "or", "play",
     "remove", "return", "run", "send", "set", "spawn", "stop", "teleport",
     "to", "trigger", "using", "variables", "wait", "where", "while", "with",
     "yes"}
Booleans == {"true", "false"}
Letters == Keywords \cup Booleans \cup Names \cup LocalNames
Digits == {"1"}
WordTail == Letters \cup Digits \cup {"-", "'"}
Blanks == {" ", "\t"}
LineEnds == {"\n", "\r"}

\* No word holds a line break.
ASSUME WordsAssumption == (Names \cup LocalNames) \cap LineEnds = {}

DoubleOperators ==
    {<<"=", "=">>, <<"!", "=">>, <<"<", "=">>, <<">", "=">>, <<"+", "=">>,
     <<"-", "=">>, <<"*", "=">>, <<"/", "=">>, <<":", "=">>, <<"-", ">">>}
SingleOperators ==
    {"+", "-", "*", "/", "%", "^", "~", "<", ">", "=", ":", ".", ",", ";",
     "|", "(", ")", "[", "]"}

VARIABLES
    text,           \* chars, the text being read
    pos,            \* the next lexeme to read
    indentStack,    \* the widths of the open blocks, the outermost first
    pendingDedents, \* DEDENT tokens still to be handed out
    atLineStart,    \* the next round begins a line
    mode,           \* LexMode
    interpDepth,    \* the depth of {} inside an interpolation
    stringBuf,      \* the text of the string read so far
    hasInterp,      \* the string has an interpolation or a tag
    pending,        \* a token queued behind the one just returned
    tokens          \* what next_token has returned so far

strings == <<interpDepth, stringBuf, hasInterp, pending>>
lexer == <<text, pos, indentStack, pendingDedents, atLineStart, mode,
           strings, tokens>>

-----------------------------------------------------------------------------
(* Reading the text.                                                       *)

Size == Len(text)
Char(p) == IF p < Size THEN text[p + 1] ELSE "end-of-text"
Slice(p, q) == SubSeq(text, p + 1, q)

\* The first offset from p on whose lexeme is not in S.
SkipWhile(p, S) == Min({q \in p .. Size : q = Size \/ Char(q) \notin S})
\* The end of the line break at p; p itself where there is none.
SkipNewline(p) ==
    IF Char(p) \notin LineEnds THEN p
    ELSE IF Char(p) = "\r" /\ Char(p + 1) = "\n" THEN p + 2 ELSE p + 1
SkipToEndOfLine(p) ==
    SkipNewline(Min({q \in p .. Size : q = Size \/ Char(q) \in LineEnds}))

ByteLen(s) == Len(s) + Cardinality({i \in DOMAIN s : s[i] \in Wide})
                     + 2 * Cardinality({i \in DOMAIN s : s[i] \in Astral})

\* The columns of a run of blanks; a tab reaches the next multiple of four.
ColumnBehind(c, width) == IF c = "\t" THEN width + 4 - (width % 4) ELSE width + 1
Width(blanks) ==
    LET width[i \in 0 .. Len(blanks)] ==
          IF i = 0 THEN 0 ELSE ColumnBehind(blanks[i], width[i - 1])
    IN width[Len(blanks)]

Token(kind, value, start, end) ==
    [kind |-> kind, value |-> value, start |-> start, end |-> end]
Emit(kind, value, start, end) ==
    tokens' = Append(tokens, Token(kind, value, start, end))
EmitNothing == UNCHANGED tokens

Finished == tokens # <<>> /\ Last(tokens).kind = "eof"

Init ==
    /\ text \in Texts
    /\ pos = 0
    /\ indentStack = <<>>
    /\ pendingDedents = 0
    /\ atLineStart = TRUE
    /\ mode = "Normal"
    /\ interpDepth = 0
    /\ stringBuf = <<>>
    /\ hasInterp = FALSE
    /\ pending = <<>>
    /\ tokens = <<>>

-----------------------------------------------------------------------------
(* next_token: what is queued goes first, then the line's indentation.     *)

TakePending ==
    /\ pending # <<>>
    /\ tokens' = Append(tokens, pending[1])
    /\ pending' = <<>>
    /\ UNCHANGED <<text, pos, indentStack, pendingDedents, atLineStart, mode,
                   interpDepth, stringBuf, hasInterp>>

TakeDedent ==
    /\ pending = <<>>
    /\ pendingDedents > 0
    /\ pendingDedents' = pendingDedents - 1
    /\ Emit("dedent", <<>>, pos, pos)
    /\ UNCHANGED <<text, pos, indentStack, atLineStart, mode, strings>>

NothingQueued == ~Finished /\ pending = <<>> /\ pendingDedents = 0

\* The end of the text closes the open blocks, one DEDENT each, and then
\* yields Eof (eof_or_dedent).
EndOfText(p) ==
    /\ p = Size
    /\ pos' = p
    /\ IF Len(indentStack) > 1
       THEN /\ pendingDedents' = Len(indentStack) - 1
            /\ indentStack' = <<indentStack[1]>>
            /\ EmitNothing
       ELSE /\ Emit("eof", <<>>, p, p)
            /\ UNCHANGED <<pendingDedents, indentStack>>
    /\ UNCHANGED <<text, atLineStart, mode, strings>>

AtLineStart == NothingQueued /\ atLineStart /\ mode = "Normal"
IsBlankLine(p) == p = Size \/ Char(p) \in LineEnds \cup {"#"}

\* A line of blanks or a comment leaves the indentation alone.
BlankLine ==
    /\ AtLineStart
    /\ IsBlankLine(SkipWhile(pos, Blanks))
    /\ LET next == SkipToEndOfLine(pos) IN
       IF next = Size THEN EndOfText(next)
       ELSE /\ pos' = next
            /\ EmitNothing
            /\ UNCHANGED <<text, indentStack, pendingDedents, atLineStart,
                           mode, strings>>

\* Fault: one DEDENT however many blocks end.
FaultOneDedent ==
    /\ AtLineStart
    /\ LET p == SkipWhile(pos, Blanks)
           width == Width(Slice(pos, p))
           kept == Cardinality({i \in DOMAIN indentStack :
                                  i = 1 \/ indentStack[i] <= width})
       IN /\ ~IsBlankLine(p)
          /\ pos' = p
          /\ atLineStart' = FALSE
          /\ IF indentStack # <<>> /\ width <= Last(indentStack)
             THEN /\ pendingDedents' = Min({1, Len(indentStack) - kept})
                  /\ indentStack' = SubSeq(indentStack, 1, kept)
                  /\ EmitNothing
             ELSE /\ indentStack' = Append(indentStack, width)
                  /\ IF indentStack = <<>> THEN EmitNothing
                                           ELSE Emit("indent", <<>>, pos, p)
                  /\ UNCHANGED pendingDedents
    /\ UNCHANGED <<text, mode, strings>>

\* Fault: a line as deep as its block ends the block.
FaultEqualEnds ==
    /\ AtLineStart
    /\ LET p == SkipWhile(pos, Blanks)
           width == Width(Slice(pos, p))
           kept == Cardinality({i \in DOMAIN indentStack :
                                  i = 1 \/ indentStack[i] < width})
       IN /\ ~IsBlankLine(p)
          /\ pos' = p
          /\ atLineStart' = FALSE
          /\ IF indentStack # <<>> /\ width <= Last(indentStack)
             THEN /\ pendingDedents' = Len(indentStack) - kept
                  /\ indentStack' = SubSeq(indentStack, 1, kept)
                  /\ EmitNothing
             ELSE /\ indentStack' = Append(indentStack, width)
                  /\ IF indentStack = <<>> THEN EmitNothing
                                           ELSE Emit("indent", <<>>, pos, p)
                  /\ UNCHANGED pendingDedents
    /\ UNCHANGED <<text, mode, strings>>

\* handle_indentation: the first line sets the base; a deeper line opens a
\* block; a shallower one closes every block wider than itself.
Indentation ==
    /\ AtLineStart
    /\ LET p == SkipWhile(pos, Blanks)
           width == Width(Slice(pos, p))
           kept == Cardinality({i \in DOMAIN indentStack :
                                  i = 1 \/ indentStack[i] <= width})
       IN /\ ~IsBlankLine(p)
          /\ pos' = p
          /\ atLineStart' = FALSE
          /\ \/ /\ indentStack = <<>>
                /\ indentStack' = <<width>>
                /\ EmitNothing
                /\ UNCHANGED pendingDedents
             \/ /\ indentStack # <<>>
                /\ width > Last(indentStack)
                /\ indentStack' = Append(indentStack, width)
                /\ Emit("indent", <<>>, pos, p)
                /\ UNCHANGED pendingDedents
             \/ /\ indentStack # <<>>
                /\ width <= Last(indentStack)
                /\ pendingDedents' = Len(indentStack) - kept
                /\ indentStack' = SubSeq(indentStack, 1, kept)
                /\ EmitNothing
    /\ UNCHANGED <<text, mode, strings>>

-----------------------------------------------------------------------------
(* Normal mode, and what it shares with the mode inside %{ }%.             *)

InNormal == NothingQueued /\ mode = "Normal" /\ ~atLineStart
InInterpolation == NothingQueued /\ mode = "InStringInterpolation"
InCode == InNormal \/ InInterpolation
Start == SkipWhile(pos, Blanks)

\* An unfinished interpolation ends with the text.
CodeEnd ==
    \/ InNormal /\ EndOfText(Start)
    \/ /\ InInterpolation
       /\ Start = Size
       /\ mode' = "Normal"
       /\ pos' = Size
       /\ EmitNothing
       /\ UNCHANGED <<text, indentStack, pendingDedents, atLineStart, strings>>

Advance(p) ==
    /\ pos' = p
    /\ UNCHANGED <<text, indentStack, pendingDedents, strings>>

\* The rest of the line, its line break included, is dropped; whether the
\* next round begins a line is left as it was.
Comment ==
    /\ InCode
    /\ Char(Start) = "#"
    /\ Advance(SkipToEndOfLine(Start))
    /\ EmitNothing
    /\ UNCHANGED <<atLineStart, mode>>

Newline ==
    /\ InNormal
    /\ Char(Start) \in LineEnds
    /\ Advance(SkipNewline(Start))
    /\ atLineStart' = TRUE
    /\ Emit("newline", <<>>, Start, pos')
    /\ UNCHANGED mode

StartsNumber(p) ==
    \/ Char(p) \in Digits
    \/ Char(p) \in {"+", "-"} /\ Char(p + 1) \in Digits
NumberEnd(p) ==
    LET q == SkipWhile(IF Char(p) \in {"+", "-"} THEN p + 1 ELSE p, Digits)
    IN IF Char(q) = "." THEN SkipWhile(q + 1, Digits) ELSE q

ParseNumber ==
    /\ InCode
    /\ StartsNumber(Start)
    /\ Advance(NumberEnd(Start))
    /\ Emit("number", Slice(Start, pos'), Start, pos')
    /\ UNCHANGED <<atLineStart, mode>>

WordKind(w) ==
    IF Len(w) > 1 THEN "identifier"
    ELSE IF w[1] \in Booleans THEN "boolean"
    ELSE IF w[1] \in Keywords THEN "keyword" ELSE "identifier"

ParseWord ==
    /\ InCode
    /\ Char(Start) \in Letters
    /\ Advance(SkipWhile(Start, WordTail))
    /\ LET w == Slice(Start, pos') IN Emit(WordKind(w), w, Start, pos')
    /\ UNCHANGED <<atLineStart, mode>>

StartsInterpolation(p) == Char(p) = "%" /\ Char(p + 1) = "{"
\* Behind the %{ ... }% at q, which a variable's name skips as a pair.
SkipInterpolation(q) ==
    LET ends == {r \in q + 2 .. Size - 2 : Char(r) = "}" /\ Char(r + 1) = "%"}
    IN IF ends = {} THEN Max({q + 2, Size - 1}) ELSE Min(ends) + 2
DepthBehind(q, d) ==
    IF Char(q) = "{" THEN d + 1 ELSE IF Char(q) = "}" THEN d - 1 ELSE d

\* Where a variable ends, seen from q at depth d: behind the brace that closes
\* depth 1, or at the end of the text.
VariableScan(end, q, d) ==
    IF q >= Size THEN [at |-> Size, closed |-> FALSE]
    ELSE IF StartsInterpolation(q) THEN end[<<SkipInterpolation(q), d>>]
    ELSE IF Char(q) = "}" /\ d = 1 THEN [at |-> q + 1, closed |-> TRUE]
    ELSE end[<<q + 1, DepthBehind(q, d)>>]
VariableEnd(start) ==
    LET end[at \in Nat \X Int] == VariableScan(end, at[1], at[2])
    IN end[<<start + 1, 1>>]

ParseVariable ==
    /\ InNormal
    /\ Char(Start) = "{"
    /\ LET end == VariableEnd(Start) IN
       /\ Advance(end.at)
       /\ Emit("variable",
               Slice(Start + 1, IF end.closed THEN end.at - 1 ELSE end.at),
               Start, end.at)
    /\ UNCHANGED <<atLineStart, mode>>

IsDouble(p) == <<Char(p), Char(p + 1)>> \in DoubleOperators

Operator ==
    /\ InCode
    /\ ~StartsNumber(Start)
    /\ \/ IsDouble(Start) /\ Advance(Start + 2)
       \/ /\ ~IsDouble(Start) /\ Char(Start) \in SingleOperators
          /\ Advance(Start + 1)
    /\ Emit("operator", Slice(Start, pos'), Start, pos')
    /\ UNCHANGED <<atLineStart, mode>>

\* What starts no token is dropped: in an interpolation a quote or a line
\* break too.
Junk ==
    /\ InCode
    /\ Start < Size
    /\ ~IsDouble(Start)
    /\ Char(Start) \notin Letters \cup Digits \cup SingleOperators
                          \cup {"#", "{"}
    /\ IF InNormal THEN Char(Start) \notin LineEnds \cup {"\""}
                   ELSE Char(Start) # "}"
    /\ Advance(Start + 1)
    /\ EmitNothing
    /\ UNCHANGED <<atLineStart, mode>>

-----------------------------------------------------------------------------
(* Strings.                                                                *)

InString == NothingQueued /\ mode = "InString"

OpenString ==
    /\ InNormal
    /\ Char(Start) = "\""
    /\ pos' = Start + 1
    /\ mode' = "InString"
    /\ stringBuf' = <<>>
    /\ hasInterp' = FALSE
    /\ EmitNothing
    /\ UNCHANGED <<text, indentStack, pendingDedents, atLineStart,
                   interpDepth, pending>>

\* Fault: the text is taken to end behind its quote.
FaultEmitText(kind, p) ==
    /\ Emit(kind, stringBuf, p + 1 - ByteLen(stringBuf), p + 1)
    /\ stringBuf' = <<>>

\* The text read so far ends at p; its start is computed from its length in
\* bytes (below 0 the unsigned subtraction of the code underflows).
EmitText(kind, p) ==
    /\ Emit(kind, stringBuf, p - ByteLen(stringBuf), p)
    /\ stringBuf' = <<>>
StringKind == IF hasInterp THEN "strtext" ELSE "string"

StringEnd ==
    /\ InString
    /\ pos = Size
    /\ mode' = "Normal"
    /\ IF stringBuf = <<>> THEN EmitNothing /\ UNCHANGED stringBuf
                           ELSE EmitText(StringKind, pos)
    /\ UNCHANGED <<text, pos, indentStack, pendingDedents, atLineStart,
                   interpDepth, hasInterp, pending>>

CloseString ==
    /\ InString
    /\ Char(pos) = "\""
    /\ mode' = "Normal"
    /\ pos' = pos + 1
    /\ IF hasInterp /\ stringBuf = <<>> THEN EmitNothing /\ UNCHANGED stringBuf
                                        ELSE EmitText(StringKind, pos)
    /\ UNCHANGED <<text, indentStack, pendingDedents, atLineStart,
                   interpDepth, hasInterp, pending>>

StartInterpolation ==
    /\ InString
    /\ StartsInterpolation(pos)
    /\ hasInterp' = TRUE
    /\ mode' = "InStringInterpolation"
    /\ interpDepth' = 1
    /\ pos' = pos + 2
    /\ IF stringBuf = <<>>
       THEN /\ Emit("interpstart", <<>>, pos, pos + 2)
            /\ UNCHANGED <<stringBuf, pending>>
       ELSE /\ EmitText("strtext", pos)
            /\ pending' = <<Token("interpstart", <<>>, pos, pos + 2)>>
    /\ UNCHANGED <<text, indentStack, pendingDedents, atLineStart>>

\* parse_minimessage_tag: the name from p on, up to the character that must
\* be its ">".
TagName(p) == IF Char(p + 1) = "/" THEN p + 2 ELSE p + 1
TagEnd(p) == SkipWhile(TagName(p), Letters \cup Digits \cup {"-"})
StartsTag(p) == Char(p) = "<" /\ Char(p + 1) \in Letters \cup {"/"}
IsTag(p) == StartsTag(p) /\ TagName(p) < Size /\ Char(TagEnd(p)) = ">"

\* A possible tag first flushes the text before it ...
FlushBeforeTag ==
    /\ InString
    /\ StartsTag(pos)
    /\ stringBuf # <<>>
    /\ EmitText("strtext", pos)
    /\ UNCHANGED <<text, pos, indentStack, pendingDedents, atLineStart, mode,
                   interpDepth, hasInterp, pending>>

\* ... and then is a tag, or else text again (StringChar).
MiniMessageTag ==
    /\ InString
    /\ IsTag(pos)
    /\ stringBuf = <<>>
    /\ pos' = TagEnd(pos) + 1
    /\ hasInterp' = TRUE
    /\ Emit(IF Char(pos + 1) = "/" THEN "tagclose" ELSE "tagopen",
            Slice(TagName(pos), TagEnd(pos)), pos, pos')
    /\ UNCHANGED <<text, indentStack, pendingDedents, atLineStart, mode,
                   interpDepth, stringBuf, pending>>

StringChar ==
    /\ InString
    /\ pos < Size
    /\ Char(pos) # "\""
    /\ ~StartsInterpolation(pos)
    /\ StartsTag(pos) => stringBuf = <<>> /\ ~IsTag(pos)
    /\ stringBuf' = Append(stringBuf, Char(pos))
    /\ pos' = pos + 1
    /\ EmitNothing
    /\ UNCHANGED <<text, indentStack, pendingDedents, atLineStart, mode,
                   interpDepth, hasInterp, pending>>

-----------------------------------------------------------------------------
(* Inside %{ }%: braces are counted, }% at the outermost depth ends it.    *)

EndsInterpolation(p) ==
    Char(p) = "}" /\ interpDepth <= 1 /\ Char(p + 1) = "%"

EndInterpolation ==
    /\ InInterpolation
    /\ EndsInterpolation(Start)
    /\ pos' = Start + 2
    /\ mode' = "InString"
    /\ Emit("interpend", <<>>, Start, Start + 2)
    /\ UNCHANGED <<text, indentStack, pendingDedents, atLineStart, strings>>

InterpolationBrace ==
    /\ InInterpolation
    /\ Char(Start) \in {"{", "}"}
    /\ ~EndsInterpolation(Start)
    /\ interpDepth' = IF Char(Start) = "{" THEN interpDepth + 1
                      ELSE Max({interpDepth - 1, 0})
    /\ pos' = Start + 1
    /\ Emit("brace", <<Char(Start)>>, Start, Start + 1)
    /\ UNCHANGED <<text, indentStack, pendingDedents, atLineStart, mode,
                   stringBuf, hasInterp, pending>>

-----------------------------------------------------------------------------
NextToken ==
    \/ TakePending \/ TakeDedent \/ BlankLine \/ Indentation
    \/ CodeEnd \/ Comment \/ Newline \/ ParseNumber \/ ParseWord
    \/ ParseVariable \/ Operator \/ Junk
    \/ OpenString \/ StringEnd \/ CloseString \/ StartInterpolation
    \/ FlushBeforeTag \/ MiniMessageTag \/ StringChar
    \/ EndInterpolation \/ InterpolationBrace

LexerSpec == Init /\ [][NextToken]_lexer /\ WF_lexer(NextToken)

-----------------------------------------------------------------------------
(* Properties.                                                             *)

Count(kind) == Cardinality({i \in DOMAIN tokens : tokens[i].kind = kind})
OpenBlocks == IF indentStack = <<>> THEN 0 ELSE Len(indentStack) - 1

\* Every INDENT is closed by one DEDENT, through blank lines, comments,
\* strings and the end of the text: handle_indentation and eof_or_dedent
\* owe exactly the blocks that are still open.
IndentsBalance ==
    /\ Count("indent") = Count("dedent") + OpenBlocks + pendingDedents
    /\ Finished => Count("indent") = Count("dedent")

\* The depth in blocks of the token at index i (from 0).
Depth(i) ==
    Cardinality({j \in 1 .. i : tokens[j].kind = "indent"})
      - Cardinality({j \in 1 .. i : tokens[j].kind = "dedent"})

\* The lines of the text that hold something, by where they start; the first
\* lexeme of a line, and its width.
First(q) == SkipWhile(q, Blanks)
WidthOf(q) == Width(Slice(q, First(q)))
Lines == {q \in 0 .. Size : (q = 0 \/ Char(q - 1) \in LineEnds) /\ ~IsBlankLine(First(q))}
\* The lines that line q is inside of: those before it that are narrower than
\* everything from there up to and including line q.
Around(lines, q) ==
    {k \in lines : k < q /\ \A m \in lines : k < m /\ m <= q => WidthOf(m) > WidthOf(k)}
\* Nothing in quotes, no comment behind code, and every line that is less deep
\* than the one before it returns to the width of a line around that one.
Aligned(lines) ==
    /\ \A q \in 0 .. Size - 1 :
         /\ Char(q) \notin {"\"", "{"}
         /\ Char(q) = "#" => \A k \in lines : First(k) < q =>
                                \E r \in First(k) .. q : Char(r) \in LineEnds
    /\ \A p, q \in lines :
         /\ p < q /\ ~\E r \in lines : p < r /\ r < q
         /\ WidthOf(q) < WidthOf(p)
         => \E k \in Around(lines, p) : WidthOf(k) = WidthOf(q)

\* In a text whose lines align, the INDENT and DEDENT tokens put the first
\* token of every line as deep as there are lines around it.
DepthIsIndentation ==
    Finished =>
      LET lines == Lines IN
      Aligned(lines) =>
        \A q \in lines : \A t \in 1 .. Len(tokens) :
          tokens[t].start = First(q)
            /\ tokens[t].kind \notin {"newline", "indent", "dedent", "eof"} =>
              Depth(t - 1) = Cardinality(Around(lines, q))

\* What a token's text should be in its span.
Spelling(t) ==
    CASE t.kind = "variable" -> <<"{">> \o t.value \o <<"}">>
      [] t.kind = "tagopen" -> <<"<">> \o t.value \o <<">">>
      [] t.kind = "tagclose" -> <<"<", "/">> \o t.value \o <<">">>
      [] OTHER -> t.value
Spelled == {"keyword", "identifier", "boolean", "number", "operator", "brace",
            "string", "strtext", "variable", "tagopen", "tagclose"}

\* The spans of the tokens are in the order of the text and do not overlap,
\* and the text of a span is the token's own, through queued tokens, string
\* pieces flushed before a tag and unfinished strings and variables: every
\* editor position is computed from these spans.
SpansAreTheText ==
    \A i \in DOMAIN tokens : LET t == tokens[i] IN
       /\ 0 <= t.start /\ t.start <= t.end /\ t.end <= Size
       /\ i > 1 => tokens[i - 1].end <= t.start
       /\ t.kind \in Spelled =>
            Slice(t.start, t.end) \in {Spelling(t), <<"{">> \o t.value}

=============================================================================
