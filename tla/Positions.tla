----------------------------- MODULE Positions -----------------------------
(***************************************************************************)
(* Editor positions (crates/skript-lsp/src/position.rs and the helpers of  *)
(* crates/skript-lsp/src/backend.rs): the code indexes a text by its UTF-8 *)
(* bytes, the protocol by lines and UTF-16 units.  Offsets here count      *)
(* bytes; a lexeme that is not of Wide counts as one byte and one unit.    *)
(***************************************************************************)
EXTENDS Lexer

Before(p, q) == p[1] < q[1] \/ (p[1] = q[1] /\ p[2] <= q[2])

Units(s) == Len(s) + Cardinality({i \in DOMAIN s : s[i] \in Astral})
Prefix(s, i) == SubSeq(s, 1, i)

\* Fault: a column inside a character is rounded up to the character's end.
FaultUtf16ColToByteOffset(line, col) ==
    ByteLen(Prefix(line, Min({i \in 0 .. Len(line) :
                                i = Len(line) \/ Units(Prefix(line, i)) >= col})))

\* The start of the character that holds the column; a column behind the line
\* is its end.
Utf16ColToByteOffset(line, col) ==
    ByteLen(Prefix(line, Max({i \in 0 .. Len(line) :
                                Units(Prefix(line, i)) <= col})))
\* How many lexemes end at or before an offset.
Whole(s, offset) ==
    IF Range(s) \cap Wide = {} THEN Min({Len(s), offset})
    ELSE Cardinality({i \in DOMAIN s : ByteLen(Prefix(s, i)) <= offset})
ByteOffsetToUtf16Col(line, byte) == Units(Prefix(line, Whole(line, byte)))

LineFeeds(s) == {i \in DOMAIN s : s[i] = "\n"}
LineCount(s) == 1 + Cardinality(LineFeeds(s))
\* How many lexemes come before line n: up to the n-th line feed.
LineStart(s, n) ==
    IF n = 0 THEN 0
    ELSE CHOOSE i \in LineFeeds(s) : Cardinality({j \in LineFeeds(s) : j <= i}) = n
\* Where line n ends, in front of its line feed.
LineEnd(s, n) ==
    IF n + 1 < LineCount(s) THEN LineStart(s, n + 1) - 1 ELSE Len(s)
\* Line n from 0, without its line feed.
RawLine(s, n) == SubSeq(s, LineStart(s, n) + 1, LineEnd(s, n))
StripReturn(line) ==
    IF line # <<>> /\ Last(line) = "\r" THEN Front(line) ELSE line
\* str::lines: only before a line feed is a carriage return no part of the
\* line.
LineTextAt(s, n) ==
    CASE n >= LineCount(s) -> <<>>
      [] n + 1 = LineCount(s) -> RawLine(s, n)
      [] OTHER -> StripReturn(RawLine(s, n))
LineStartOffset(s, n) == ByteLen(Prefix(s, LineStart(s, n)))

LspPositionToOffset(s, position) ==
    IF position[1] >= LineCount(s) THEN ByteLen(s)
    ELSE LineStartOffset(s, position[1])
           + Utf16ColToByteOffset(StripReturn(RawLine(s, position[1])), position[2])

OffsetToLinecol(s, offset) ==
    LET line == Max({n \in 0 .. LineCount(s) - 1 :
                       n = 0 \/ LineStartOffset(s, n) <= offset})
    IN <<line, offset - LineStartOffset(s, line)>>
OffsetToLspPosition(s, offset) ==
    LET at == OffsetToLinecol(s, offset)
    IN <<at[1], ByteOffsetToUtf16Col(LineTextAt(s, at[1]), at[2])>>
SpanToRange(s, start, end) ==
    <<OffsetToLspPosition(s, start), OffsetToLspPosition(s, end)>>

DocumentEndPosition(s) ==
    LET last == LineCount(s) - 1
    IN <<last, Units(StripReturn(RawLine(s, last)))>>

-----------------------------------------------------------------------------
(* Properties.                                                             *)

\* The places of a text that are positions: between its characters, but not
\* behind a carriage return that ends its line.
Places(s) ==
    {ByteLen(Prefix(s, i)) : i \in
       {j \in 0 .. Len(s) : (j > 0 /\ s[j] = "\r")
                              => (j < Len(s) /\ s[j + 1] # "\n")}}
Positions(s) == (0 .. LineCount(s)) \X (0 .. Units(s) + 1)
CountsDiffer == Range(text) \cap (Wide \cup {"\r"}) # {}

\* Crossing the protocol's boundary loses no place, in texts where bytes and
\* units or lines are counted differently: an offset becomes a position that
\* becomes the offset again; every position, one inside a surrogate pair or
\* behind the end of its line included, becomes a place, which is not behind
\* it; one below the text becomes its end; and positions keep their order.
PositionsRoundTrip ==
    Finished /\ CountsDiffer =>
      /\ \A offset \in Places(text) :
           LspPositionToOffset(text, OffsetToLspPosition(text, offset)) = offset
      /\ \A p \in Positions(text) :
           LET offset == LspPositionToOffset(text, p) IN
           /\ IF p[1] < LineCount(text) THEN offset \in Places(text)
                                        ELSE offset = ByteLen(text)
           /\ Before(OffsetToLspPosition(text, offset), p)
           /\ \A q \in Positions(text) :
                Before(p, q) => offset <= LspPositionToOffset(text, q)

=============================================================================
