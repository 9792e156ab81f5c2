------------------------------ MODULE TextProofs -----------------------------
(***************************************************************************)
(* What TLAPS proves of Lexer, for every set of texts and of names: INDENT *)
(* and DEDENT tokens balance; in the texts whose strings are of one-byte   *)
(* characters, the spans of the tokens are in order and hold the tokens'   *)
(* own text; in the texts whose lines align, every line's first token is as*)
(* deep as there are lines around it.  The first needs nothing of what a   *)
(* round reads, only what it hands out and owes; the others follow the     *)
(* reader through the text, the last with the stack of widths.  And of     *)
(* Positions, for every text: byte offsets and positions of the protocol   *)
(* convert into each other without a loss.                                 *)
(***************************************************************************)
EXTENDS Positions, SequenceLemmas, FiniteSetTheorems, TLAPS

IsSequence(s) == s \in Seq(Range(s))

\* The kinds that the balance is about, and the end.
Plain(t) == t.kind \notin {"indent", "dedent", "eof"}
KindCount(s, kind) == Cardinality({i \in DOMAIN s : s[i].kind = kind})

\* What is handed out and owed balances; at the end nothing is owed, so that
\* no token can follow.  A queued token is none of those that are counted.
Balanced ==
    /\ Count("indent") \in Nat /\ Count("dedent") \in Nat
    /\ Count("indent") = Count("dedent") + OpenBlocks + pendingDedents
LexerInv ==
    /\ IsSequence(tokens) /\ IsSequence(indentStack)
    /\ pendingDedents \in Nat
    /\ pending # <<>> => Plain(pending[1])
    /\ Balanced
    /\ Finished => OpenBlocks = 0 /\ pendingDedents = 0 /\ pending = <<>>

-----------------------------------------------------------------------------
(* Sequences.                                                              *)

\* A sequence over some set is one over the set of its own elements.
LEMMA IsSequenceOfAny ==
    ASSUME NEW S, NEW s \in Seq(S)
    PROVE  IsSequence(s)
<1>1. s \in [1 .. Len(s) -> S] /\ Len(s) \in Nat
  BY LenProperties
<1>2. s \in [1 .. Len(s) -> Range(s)]
  BY <1>1 DEF Range
<1> QED
  BY <1>1, <1>2 DEF IsSequence

\* A sequence of one element.
LEMMA OneBlock == \A x : IsSequence(<<x>>) /\ Len(<<x>>) = 1
<1> SUFFICES ASSUME NEW x  PROVE IsSequence(<<x>>) /\ Len(<<x>>) = 1
  OBVIOUS
<1>1. <<x>> \in Seq({x})
  OBVIOUS
<1> QED
  BY <1>1, IsSequenceOfAny

\* What Append makes of a sequence.
LEMMA AppendLast ==
    ASSUME NEW s, IsSequence(s), NEW e
    PROVE  /\ IsSequence(Append(s, e))
           /\ Len(s) \in Nat /\ DOMAIN s = 1 .. Len(s)
           /\ Len(Append(s, e)) = Len(s) + 1
           /\ DOMAIN Append(s, e) = 1 .. Len(s) + 1
           /\ \A i \in 1 .. Len(s) : Append(s, e)[i] = s[i]
           /\ Append(s, e)[Len(s) + 1] = e
           /\ Append(s, e) # <<>>
           /\ Last(Append(s, e)) = e
<1> DEFINE T == Range(s) \cup {e}
<1>1. s \in Seq(T) /\ e \in T
  BY SeqMonotonic DEF IsSequence
<1>2. Append(s, e) \in Seq(T)
  BY <1>1
<1>3. /\ Len(s) \in Nat /\ DOMAIN s = 1 .. Len(s)
      /\ Len(Append(s, e)) = Len(s) + 1
      /\ DOMAIN Append(s, e) = 1 .. Len(s) + 1
      /\ \A i \in 1 .. Len(s) : Append(s, e)[i] = s[i]
      /\ Append(s, e)[Len(s) + 1] = e
  BY <1>1, <1>2, LenProperties
<1>4. Append(s, e) # <<>>
  BY <1>3
<1>5. Last(Append(s, e)) = e
  BY <1>3 DEF Last
<1> QED
  BY <1>2, <1>3, <1>4, <1>5, IsSequenceOfAny

\* A kind is counted once more exactly when the token appended is of it.
LEMMA CountAppend ==
    ASSUME NEW s, IsSequence(s), NEW e, NEW kind
    PROVE  /\ KindCount(s, kind) \in Nat
           /\ KindCount(Append(s, e), kind) =
                KindCount(s, kind) + (IF e.kind = kind THEN 1 ELSE 0)
<1> DEFINE old == {i \in DOMAIN s : s[i].kind = kind}
           new == {i \in DOMAIN Append(s, e) : Append(s, e)[i].kind = kind}
           last == Len(s) + 1
<1>1. /\ Len(s) \in Nat /\ DOMAIN s = 1 .. Len(s)
      /\ DOMAIN Append(s, e) = 1 .. last
      /\ \A i \in 1 .. Len(s) : Append(s, e)[i] = s[i]
      /\ Append(s, e)[last] = e
  BY AppendLast
<1>2. IsFiniteSet(old)
  <2>1. IsFiniteSet(1 .. Len(s)) /\ old \in SUBSET (1 .. Len(s))
    BY <1>1, FS_Interval
  <2> QED
    BY <2>1, FS_Subset
<1>3. Cardinality(old) \in Nat
  BY <1>2, FS_CardinalityType
<1>4. last \notin old
  BY <1>1
<1>5. new = IF e.kind = kind THEN old \cup {last} ELSE old
  BY <1>1
<1>6. Cardinality(old \cup {last}) = Cardinality(old) + 1
  BY <1>2, <1>4, FS_AddElement
<1>7. /\ KindCount(s, kind) = Cardinality(old)
      /\ KindCount(Append(s, e), kind) = Cardinality(new)
  BY DEF KindCount
<1> HIDE DEF old, new
<1>8. CASE e.kind = kind
  BY <1>3, <1>5, <1>6, <1>7, <1>8
<1>9. CASE e.kind # kind
  BY <1>3, <1>5, <1>7, <1>9
<1> QED
  BY <1>8, <1>9

\* Only the empty sequence has length 0.
LEMMA NotEmpty == \A s : Len(s) # 0 => s # <<>>
<1>1. Len(<<>>) = 0
  BY EmptySeq
<1> SUFFICES ASSUME NEW s, s = <<>>  PROVE Len(s) = 0
  OBVIOUS
<1> QED
  BY <1>1

\* The blocks handle_indentation keeps: the outermost one at least.
LEMMA KeptBlocks ==
    ASSUME NEW s, IsSequence(s), s # <<>>, NEW width,
           NEW kept, kept = Cardinality({i \in DOMAIN s : i = 1 \/ s[i] <= width})
    PROVE  /\ Len(s) \in Nat /\ kept \in 1 .. Len(s)
           /\ IsSequence(SubSeq(s, 1, kept))
           /\ Len(SubSeq(s, 1, kept)) = kept
           /\ SubSeq(s, 1, kept) # <<>>
<1> DEFINE K == {i \in DOMAIN s : i = 1 \/ s[i] <= width}
<1>1. Len(s) \in Nat /\ DOMAIN s = 1 .. Len(s) /\ s \in Seq(Range(s)) /\ Len(s) > 0
  BY LenProperties, EmptySeq DEF IsSequence
<1>2. /\ IsFiniteSet(1 .. Len(s)) /\ Cardinality(1 .. Len(s)) = Len(s)
      /\ K \in SUBSET (1 .. Len(s))
  BY <1>1, FS_Interval
<1>3. /\ IsFiniteSet(K) /\ Cardinality(K) <= Len(s)
      /\ Cardinality(K) \in Nat
  BY <1>2, FS_Subset, FS_CardinalityType
<1>4. Cardinality(K) # 0
  <2>1. 1 \in K
    BY <1>1
  <2> QED
    BY <1>3, <2>1, FS_EmptySet
<1>5. kept \in 1 .. Len(s)
  BY <1>1, <1>3, <1>4
<1>6. \A i \in 1 .. kept : s[i] \in Range(s)
  BY <1>1, <1>5 DEF Range
<1>7. /\ SubSeq(s, 1, kept) \in Seq(Range(s))
      /\ Len(SubSeq(s, 1, kept)) = kept
  BY <1>5, <1>6, SubSeqProperties
<1>8. SubSeq(s, 1, kept) # <<>>
  <2>1. Len(SubSeq(s, 1, kept)) # 0
    BY <1>1, <1>5, <1>7
  <2> QED
    BY <2>1, NotEmpty
<1> QED
  BY <1>1, <1>5, <1>7, <1>8, IsSequenceOfAny

-----------------------------------------------------------------------------
(* Steps.                                                                  *)

\* A step that hands out at most one token that is not counted, and leaves
\* what is owed as it was.
Quiet ==
    /\ UNCHANGED <<indentStack, pendingDedents>>
    /\ \/ tokens' = tokens
       \/ \E t : tokens' = Append(tokens, t) /\ Plain(t)
    /\ \/ pending' = pending
       \/ pending' = <<>>
       \/ \E t : pending' = <<t>> /\ Plain(t)

\* A quiet round changes nothing the balance counts.
LEMMA QuietStep ==
    ASSUME LexerInv, ~Finished, Quiet
    PROVE  LexerInv'
<1>1. /\ indentStack' = indentStack /\ pendingDedents' = pendingDedents
      /\ OpenBlocks' = OpenBlocks
  BY DEF Quiet, OpenBlocks
<1>2. pending' # <<>> => Plain(pending'[1])
  BY DEF Quiet, LexerInv
<1>3. CASE tokens' = tokens
  BY <1>1, <1>2, <1>3 DEF LexerInv, Balanced, Count, Finished, Plain
<1>4. ASSUME NEW t, tokens' = Append(tokens, t), Plain(t)
      PROVE  LexerInv'
  <2>1. IsSequence(tokens') /\ ~Finished'
    BY <1>4, AppendLast DEF LexerInv, Finished, Plain
  <2>2. \A k \in {"indent", "dedent"} :
          KindCount(tokens', k) = KindCount(tokens, k) /\ KindCount(tokens, k) \in Nat
    BY <1>4, CountAppend DEF LexerInv, Plain
  <2>3. Balanced'
    BY <1>1, <2>2 DEF LexerInv, Balanced, Count, KindCount
  <2> QED
    BY <1>1, <1>2, <2>1, <2>3 DEF LexerInv, Plain
<1> QED
  BY <1>3, <1>4 DEF Quiet

\* Emit of any other kind is quiet.
LEMMA PlainEmit ==
    \A kind, value, start, end :
      Emit(kind, value, start, end) /\ kind \notin {"indent", "dedent", "eof"} =>
        \E t : tokens' = Append(tokens, t) /\ Plain(t)
BY DEF Emit, Token, Plain

\* An INDENT opens a block; a DEDENT was owed.
LEMMA CountedEmit ==
    ASSUME LexerInv, NEW kind \in {"indent", "dedent", "eof"},
           NEW value, NEW start, NEW end, Emit(kind, value, start, end)
    PROVE  /\ IsSequence(tokens')
           /\ Finished' <=> kind = "eof"
           /\ \A k \in {"indent", "dedent"} :
                /\ KindCount(tokens, k) \in Nat
                /\ KindCount(tokens', k) = KindCount(tokens, k) + (IF k = kind THEN 1 ELSE 0)
<1> DEFINE t == Token(kind, value, start, end)
<1>1. tokens' = Append(tokens, t) /\ t.kind = kind
  BY DEF Emit, Token
<1>2. IsSequence(tokens') /\ tokens' # <<>> /\ Last(tokens') = t
  BY <1>1, AppendLast DEF LexerInv
<1>3. \A k \in {"indent", "dedent"} :
        /\ KindCount(tokens, k) \in Nat
        /\ KindCount(tokens', k) = KindCount(tokens, k) + (IF k = kind THEN 1 ELSE 0)
  BY <1>1, CountAppend DEF LexerInv
<1> QED
  BY <1>1, <1>2, <1>3 DEF Finished

\* The end of the text: the open blocks become owed DEDENTs, then EOF.
LEMMA EndOfTextStep ==
    ASSUME LexerInv, ~Finished, pending = <<>>, pendingDedents = 0,
           NEW p, EndOfText(p)
    PROVE  LexerInv'
<1>1. pending' = pending
  BY DEF EndOfText, strings
<1>2. Len(indentStack) \in Nat /\ (indentStack # <<>> => Len(indentStack) > 0)
  BY EmptySeq, LenProperties DEF LexerInv, IsSequence
<1>3. CASE Len(indentStack) > 1
  <2>1. /\ pendingDedents' = Len(indentStack) - 1
        /\ indentStack' = <<indentStack[1]>>
        /\ tokens' = tokens
    BY <1>3 DEF EndOfText, EmitNothing
  <2>2. indentStack # <<>>
    BY <1>3
  <2>3. IsSequence(indentStack') /\ OpenBlocks' = 0
    <3>1. IsSequence(<<indentStack[1]>>) /\ Len(<<indentStack[1]>>) = 1
      BY OneBlock
    <3> QED
      BY <2>1, <3>1 DEF OpenBlocks
  <2>4. OpenBlocks = Len(indentStack) - 1
    BY <2>2 DEF OpenBlocks
  <2> QED
    BY <1>1, <1>2, <1>3, <2>1, <2>3, <2>4 DEF LexerInv, Balanced, Count, Finished
<1>4. CASE ~(Len(indentStack) > 1)
  <2>1. /\ Emit("eof", <<>>, p, p)
        /\ pendingDedents' = 0 /\ indentStack' = indentStack
    BY <1>4 DEF EndOfText
  <2>2. OpenBlocks = 0 /\ OpenBlocks' = 0
    BY <1>2, <1>4, <2>1 DEF OpenBlocks
  <2>3. /\ IsSequence(tokens')
        /\ \A k \in {"indent", "dedent"} :
             KindCount(tokens, k) \in Nat /\ KindCount(tokens', k) = KindCount(tokens, k)
    BY <2>1, CountedEmit
  <2>4. Balanced'
    BY <2>1, <2>2, <2>3 DEF LexerInv, Balanced, Count, KindCount
  <2> QED
    BY <1>1, <2>1, <2>2, <2>3, <2>4 DEF LexerInv
<1> QED
  BY <1>3, <1>4

\* A DEDENT that was owed is handed out.
LEMMA TakeDedentStep ==
    ASSUME LexerInv, TakeDedent
    PROVE  LexerInv'
<1>1. /\ pendingDedents > 0 /\ pendingDedents' = pendingDedents - 1
      /\ Emit("dedent", <<>>, pos, pos)
      /\ indentStack' = indentStack /\ pending' = pending
      /\ OpenBlocks' = OpenBlocks
  BY DEF TakeDedent, strings, OpenBlocks
<1>2. /\ IsSequence(tokens') /\ ~Finished'
      /\ \A k \in {"indent", "dedent"} :
           /\ KindCount(tokens, k) \in Nat
           /\ KindCount(tokens', k) = KindCount(tokens, k) + (IF k = "dedent" THEN 1 ELSE 0)
  BY <1>1, CountedEmit
<1>3. OpenBlocks \in Int
  BY LenProperties DEF OpenBlocks, LexerInv, IsSequence
<1>4. Balanced'
  BY <1>1, <1>2, <1>3 DEF LexerInv, Balanced, Count, KindCount
<1> QED
  BY <1>1, <1>2, <1>4 DEF LexerInv

\* A round that hands out nothing and owes what it closes.
LEMMA OwedStep ==
    ASSUME LexerInv, ~Finished, tokens' = tokens, pending' = pending,
           IsSequence(indentStack'), pendingDedents' \in Nat,
           OpenBlocks \in Int, OpenBlocks' \in Int,
           OpenBlocks' + pendingDedents' = OpenBlocks + pendingDedents
    PROVE  LexerInv'
<1>1. Balanced'
  <2>1. Count("indent")' = Count("indent") /\ Count("dedent")' = Count("dedent")
    BY DEF Count
  <2>2. /\ Count("indent") \in Nat /\ Count("dedent") \in Nat
        /\ Count("indent") = Count("dedent") + OpenBlocks + pendingDedents
        /\ pendingDedents \in Nat
    BY DEF LexerInv, Balanced
  <2>3. Count("dedent") + (OpenBlocks + pendingDedents) = Count("dedent") + OpenBlocks + pendingDedents
    BY <2>2
  <2>4. Count("dedent") + (OpenBlocks' + pendingDedents') = Count("dedent") + OpenBlocks' + pendingDedents'
    BY <2>2
  <2>5. Count("indent") = Count("dedent") + OpenBlocks' + pendingDedents'
    BY <2>2, <2>3, <2>4
  <2> QED
    BY <2>1, <2>2, <2>5 DEF Balanced
<1>2. ~Finished'
  BY DEF Finished
<1> QED
  BY <1>1, <1>2 DEF LexerInv, Plain

\* handle_indentation opens a block, or owes the DEDENTs of those it leaves.
LEMMA IndentationStep ==
    ASSUME LexerInv, Indentation
    PROVE  LexerInv'
<1> DEFINE p == SkipWhile(pos, Blanks)
           width == Width(Slice(pos, p))
           kept == Cardinality({i \in DOMAIN indentStack :
                                  i = 1 \/ indentStack[i] <= width})
<1>1. ~Finished /\ pending = <<>> /\ pendingDedents = 0 /\ pending' = pending
  BY DEF Indentation, AtLineStart, NothingQueued, strings
<1>2. Len(indentStack) \in Nat
  BY LenProperties DEF LexerInv, IsSequence
<1>3. CASE /\ indentStack = <<>> /\ indentStack' = <<width>>
           /\ tokens' = tokens /\ pendingDedents' = pendingDedents
  <2>1. IsSequence(<<width>>) /\ Len(<<width>>) = 1
    BY OneBlock
  <2>2. IsSequence(indentStack') /\ OpenBlocks = 0 /\ OpenBlocks' = 0
    BY <1>3, <2>1 DEF OpenBlocks
  <2> QED
    BY <1>1, <1>3, <2>2 DEF LexerInv, Balanced, Count, Finished
<1>4. CASE /\ indentStack # <<>> /\ indentStack' = Append(indentStack, width)
           /\ Emit("indent", <<>>, pos, p) /\ pendingDedents' = pendingDedents
  <2>1. /\ IsSequence(indentStack') /\ Len(indentStack') = Len(indentStack) + 1
        /\ indentStack' # <<>>
    BY <1>4, AppendLast DEF LexerInv
  <2>2. OpenBlocks' = OpenBlocks + 1 /\ OpenBlocks \in Int
    BY <1>2, <1>4, <2>1 DEF OpenBlocks
  <2>3. /\ IsSequence(tokens') /\ ~Finished'
        /\ \A k \in {"indent", "dedent"} :
             /\ KindCount(tokens, k) \in Nat
             /\ KindCount(tokens', k) = KindCount(tokens, k) + (IF k = "indent" THEN 1 ELSE 0)
    BY <1>4, CountedEmit
  <2>4. Balanced'
    BY <1>4, <2>2, <2>3 DEF LexerInv, Balanced, Count, KindCount
  <2> QED
    BY <1>1, <1>4, <2>1, <2>3, <2>4 DEF LexerInv
<1>5. CASE /\ indentStack # <<>> /\ pendingDedents' = Len(indentStack) - kept
           /\ indentStack' = SubSeq(indentStack, 1, kept) /\ tokens' = tokens
  <2>1. /\ kept \in 1 .. Len(indentStack) /\ IsSequence(indentStack')
        /\ Len(indentStack') = kept /\ indentStack' # <<>>
    BY <1>5, KeptBlocks DEF LexerInv
  <2>2. OpenBlocks = Len(indentStack) - 1 /\ OpenBlocks' = kept - 1
    BY <1>5, <2>1 DEF OpenBlocks
  <2>3. /\ pendingDedents' \in Nat
        /\ OpenBlocks' + pendingDedents' = OpenBlocks + pendingDedents
    <3> HIDE DEF kept
    <3> QED
      BY <1>1, <1>2, <1>5, <2>1, <2>2
  <2>4. OpenBlocks \in Int /\ OpenBlocks' \in Int
    BY <1>2, <2>1, <2>2
  <2> HIDE DEF kept
  <2> QED
    BY <1>1, <1>5, <2>1, <2>3, <2>4, OwedStep
<1> QED
  BY <1>3, <1>4, <1>5 DEF Indentation, EmitNothing

\* Every round of next_token keeps the balance.
LEMMA NextTokenStep == LexerInv /\ [NextToken]_lexer => LexerInv'
<1> SUFFICES ASSUME LexerInv, [NextToken]_lexer  PROVE LexerInv'
  OBVIOUS
<1> USE DEF NothingQueued, InNormal, InInterpolation, InCode, InString, Advance,
            strings, EmitNothing, Quiet
<1>1. CASE TakePending
  <2>1. /\ ~Finished
        /\ tokens' = Append(tokens, pending[1]) /\ Plain(pending[1])
        /\ indentStack' = indentStack /\ pendingDedents' = pendingDedents
        /\ pending' = <<>>
    BY <1>1 DEF TakePending, LexerInv
  <2>2. Quiet
    BY <2>1
  <2> QED
    BY <2>1, <2>2, QuietStep
<1>2. CASE TakeDedent
  BY <1>2, TakeDedentStep
<1>3. CASE BlankLine
  <2>1. CASE SkipToEndOfLine(pos) = Size
    BY <1>3, <2>1, EndOfTextStep DEF BlankLine, AtLineStart
  <2>2. CASE SkipToEndOfLine(pos) # Size
    BY <1>3, <2>2, QuietStep DEF BlankLine, AtLineStart
  <2> QED
    BY <2>1, <2>2
<1>4. CASE Indentation
  BY <1>4, IndentationStep
<1>5. CASE CodeEnd
  <2>1. CASE InNormal /\ EndOfText(Start)
    BY <2>1, EndOfTextStep
  <2>2. CASE ~(InNormal /\ EndOfText(Start))
    BY <1>5, <2>2, QuietStep DEF CodeEnd
  <2> QED
    BY <2>1, <2>2
<1>6. CASE Comment
  BY <1>6, QuietStep DEF Comment
<1>7. CASE Newline
  BY <1>7, QuietStep, PlainEmit DEF Newline
<1>8. CASE ParseNumber
  BY <1>8, QuietStep, PlainEmit DEF ParseNumber
<1>9. CASE ParseWord
  BY <1>9, QuietStep, PlainEmit DEF ParseWord, WordKind
<1>10. CASE ParseVariable
  <2> DEFINE end == VariableEnd(Start)
             name == Slice(Start + 1, IF end.closed THEN end.at - 1 ELSE end.at)
  <2>1. Emit("variable", name, Start, end.at)
    BY <1>10 DEF ParseVariable
  <2>2. \E t : tokens' = Append(tokens, t) /\ Plain(t)
    <3> HIDE DEF end, name
    <3> QED
      BY <2>1, PlainEmit
  <2> QED
    BY <1>10, <2>2, QuietStep DEF ParseVariable
<1>11. CASE Operator
  BY <1>11, QuietStep, PlainEmit DEF Operator
<1>12. CASE Junk
  BY <1>12, QuietStep DEF Junk
<1>13. CASE OpenString
  BY <1>13, QuietStep DEF OpenString
<1>14. CASE StringEnd
  BY <1>14, QuietStep, PlainEmit DEF StringEnd, EmitText, StringKind
<1>15. CASE CloseString
  BY <1>15, QuietStep, PlainEmit DEF CloseString, EmitText, StringKind
<1>16. CASE StartInterpolation
  <2>1. Plain(Token("interpstart", <<>>, pos, pos + 2))
    BY DEF Plain, Token
  <2> QED
    BY <1>16, <2>1, QuietStep, PlainEmit DEF StartInterpolation, EmitText
<1>17. CASE FlushBeforeTag
  BY <1>17, QuietStep, PlainEmit DEF FlushBeforeTag, EmitText
<1>18. CASE MiniMessageTag
  BY <1>18, QuietStep, PlainEmit DEF MiniMessageTag
<1>19. CASE StringChar
  BY <1>19, QuietStep DEF StringChar
<1>20. CASE EndInterpolation
  BY <1>20, QuietStep, PlainEmit DEF EndInterpolation
<1>21. CASE InterpolationBrace
  <2>1. \E t : tokens' = Append(tokens, t) /\ Plain(t)
    <3>1. Emit("brace", <<Char(Start)>>, Start, Start + 1)
      BY <1>21 DEF InterpolationBrace
    <3> QED
      BY <3>1, PlainEmit
  <2> QED
    BY <1>21, <2>1, QuietStep DEF InterpolationBrace
<1>22. CASE UNCHANGED lexer
  BY <1>22 DEF lexer, LexerInv, Balanced, Count, OpenBlocks, Finished, Plain
<1> QED
  BY <1>1, <1>2, <1>3, <1>4, <1>5, <1>6, <1>7, <1>8, <1>9, <1>10, <1>11,
     <1>12, <1>13, <1>14, <1>15, <1>16, <1>17, <1>18, <1>19, <1>20, <1>21,
     <1>22 DEF NextToken

\* Lexer::new starts in balance: nothing handed out, nothing owed.
LEMMA InitBalanced == Init => LexerInv
<1> SUFFICES ASSUME Init  PROVE LexerInv
  OBVIOUS
<1>1. tokens = <<>> /\ indentStack = <<>> /\ pendingDedents = 0 /\ pending = <<>>
  BY DEF Init
<1>2. <<>> \in Seq({})
  OBVIOUS
<1>3. IsSequence(<<>>)
  BY <1>2, IsSequenceOfAny
<1>4. \A k : Count(k) = 0
  <2>1. \A k : {i \in DOMAIN tokens : tokens[i].kind = k} = {}
    BY <1>1
  <2> QED
    BY <2>1, FS_EmptySet DEF Count
<1>5. Balanced
  <2>1. OpenBlocks = 0
    BY <1>1 DEF OpenBlocks
  <2>2. Count("indent") = 0 /\ Count("dedent") = 0
    BY <1>4
  <2> QED
    BY <1>1, <2>1, <2>2 DEF Balanced
<1>6. ~Finished /\ IsSequence(tokens) /\ IsSequence(indentStack)
  BY <1>1, <1>3 DEF Finished
<1> QED
  BY <1>1, <1>5, <1>6 DEF LexerInv

\* The invariant holds of the lexer on every text.
THEOREM LexerInvariant == LexerSpec => []LexerInv
BY InitBalanced, NextTokenStep, PTL DEF LexerSpec

\* Every INDENT is closed by one DEDENT, whatever the text: what
\* handle_indentation and eof_or_dedent owe is exactly what is open.
THEOREM BlocksBalance == LexerSpec => []IndentsBalance
<1>1. LexerInv => IndentsBalance
  BY DEF LexerInv, Balanced, IndentsBalance
<1> QED
  BY <1>1, LexerInvariant, PTL

-----------------------------------------------------------------------------
(* Reading a text.                                                         *)

\* A text with a character of several bytes has no quote, hence no string.
PlainStrings ==
    \A s \in Texts : Range(s) \cap (Wide \cup Astral) = {} \/ "\"" \notin Range(s)
OneByte == Range(text) \cap (Wide \cup Astral) = {}
Quoteless == "\"" \notin Range(text)

\* The reader is within the text.
InText == text \in Seq(STRING) /\ pos \in 0 .. Size

LEMMA LeastIsMin ==
    ASSUME NEW S \in SUBSET Nat, S # {}
    PROVE  Min(S) \in S /\ \A x \in S : Min(S) <= x
<1>1. \E x \in S : \A y \in S : x <= y
  BY LeastNumber
<1> QED
  BY <1>1 DEF Min

LEMMA TextFacts ==
    ASSUME InText
    PROVE  /\ Size \in Nat
           /\ \A p \in 0 .. Size : p < Size => Char(p) = text[p + 1] /\ p + 1 \in 1 .. Size
           /\ \A p \in Nat : p >= Size => Char(p) = "end-of-text"
<1>1. Size \in Nat
  BY LenProperties DEF InText, Size
<1> QED
  BY <1>1 DEF Char

\* Skipping goes forward and stays in the text.
LEMMA SkipFacts ==
    ASSUME InText, NEW p \in 0 .. Size
    PROVE  /\ \A S : SkipWhile(p, S) \in p .. Size
           /\ SkipNewline(p) \in p .. Size
           /\ SkipToEndOfLine(p) \in p .. Size
<1>1. Size \in Nat /\ \A q \in Nat : q >= Size => Char(q) = "end-of-text"
  BY TextFacts
<1>2. ASSUME NEW S  PROVE SkipWhile(p, S) \in p .. Size
  <2> DEFINE Q == {q \in p .. Size : q = Size \/ Char(q) \notin S}
  <2>1. Q \in SUBSET Nat /\ Size \in Q
    BY <1>1
  <2> HIDE DEF Q
  <2>2. Min(Q) \in Q
    BY <2>1, LeastIsMin
  <2> QED
    BY <2>2 DEF Q, SkipWhile
<1>3. \A q \in 0 .. Size : SkipNewline(q) \in q .. Size
  <2> SUFFICES ASSUME NEW q \in 0 .. Size  PROVE SkipNewline(q) \in q .. Size
    OBVIOUS
  <2>1. Char(q) \in LineEnds => q < Size
    BY <1>1 DEF LineEnds
  <2>2. Char(q + 1) = "\n" => q + 1 < Size
    BY <1>1
  <2> QED
    BY <1>1, <2>1, <2>2 DEF SkipNewline
<1>4. SkipToEndOfLine(p) \in p .. Size
  <2> DEFINE Q == {q \in p .. Size : q = Size \/ Char(q) \in LineEnds}
  <2>1. Q \in SUBSET Nat /\ Size \in Q /\ Q \subseteq p .. Size
    BY <1>1
  <2>2. SkipToEndOfLine(p) = SkipNewline(Min(Q))
    BY DEF SkipToEndOfLine
  <2> HIDE DEF Q
  <2>3. Min(Q) \in p .. Size
    BY <2>1, LeastIsMin
  <2>4. SkipNewline(Min(Q)) \in Min(Q) .. Size
    BY <1>1, <1>3, <2>3
  <2> QED
    BY <1>1, <2>2, <2>3, <2>4
<1> QED
  BY <1>1, <1>2, <1>3, <1>4

\* Slices of the text.
LEMMA SliceFacts ==
    ASSUME InText, NEW p \in 0 .. Size, NEW q \in p .. Size
    PROVE  /\ Slice(p, q) \in Seq(STRING) /\ Len(Slice(p, q)) = q - p
           /\ \A i \in 1 .. (q - p) : Slice(p, q)[i] = text[p + i]
<1>1. text \in Seq(STRING) /\ Size \in Nat /\ Size = Len(text)
  BY TextFacts DEF InText, Size
<1>2. p + 1 \in 1 .. (Len(text) + 1) /\ q \in ((p + 1) - 1) .. Len(text)
  BY <1>1
<1>3. /\ SubSeq(text, p + 1, q) \in Seq(STRING)
      /\ Len(SubSeq(text, p + 1, q)) = q - (p + 1) + 1
      /\ \A i \in 1 .. (q - (p + 1) + 1) : SubSeq(text, p + 1, q)[i] = text[(p + 1) + i - 1]
  BY <1>1, <1>2, Part
<1> QED
  BY <1>1, <1>3 DEF Slice

LEMMA SliceEmpty ==
    ASSUME InText, NEW p \in 0 .. Size
    PROVE  Slice(p, p) = <<>>
<1>1. p \in p .. Size /\ Size \in Nat
  BY TextFacts
<1>2. Slice(p, p) \in Seq(STRING) /\ Len(Slice(p, p)) = p - p
  BY <1>1, SliceFacts
<1>3. Len(Slice(p, p)) = 0
  BY <1>1, <1>2
<1> QED
  BY <1>2, <1>3, EmptySeq

LEMMA SliceOne ==
    ASSUME InText, NEW p \in 0 .. Size, p < Size
    PROVE  Slice(p, p + 1) = <<Char(p)>> /\ Char(p) \in STRING
<1>1. Size \in Nat /\ Char(p) = text[p + 1] /\ p + 1 \in 1 .. Size
  BY TextFacts
<1>2. Char(p) \in STRING
  BY <1>1, ElementOfSeq DEF InText, Size
<1>3. /\ Slice(p, p + 1) \in Seq(STRING) /\ Len(Slice(p, p + 1)) = 1
      /\ Slice(p, p + 1)[1] = text[p + 1]
  <2> DEFINE q == p + 1
  <2>1. q \in p .. Size /\ q - p = 1
    BY <1>1
  <2> HIDE DEF q
  <2>2. /\ Slice(p, q) \in Seq(STRING) /\ Len(Slice(p, q)) = q - p
        /\ \A i \in 1 .. (q - p) : Slice(p, q)[i] = text[p + i]
    BY <2>1, SliceFacts
  <2>3. 1 \in 1 .. (q - p)
    BY <2>1
  <2>4. Slice(p, q) \in Seq(STRING) /\ Len(Slice(p, q)) = 1 /\ Slice(p, q)[1] = text[p + 1]
    BY <2>1, <2>2, <2>3
  <2> QED
    BY <2>4 DEF q
<1> QED
  BY <1>1, <1>2, <1>3

\* A slice is the slices of its parts, one behind the other.
LEMMA SliceJoin ==
    ASSUME InText, NEW p \in 0 .. Size, NEW q \in p .. Size, NEW r \in q .. Size
    PROVE  Slice(p, q) \o Slice(q, r) = Slice(p, r)
<1>0. Size \in Nat /\ q \in 0 .. Size /\ r \in p .. Size
  BY TextFacts
<1> DEFINE a == Slice(p, q)
           b == Slice(q, r)
           c == Slice(p, r)
<1>1. /\ a \in Seq(STRING) /\ Len(a) = q - p /\ \A i \in 1 .. (q - p) : a[i] = text[p + i]
      /\ b \in Seq(STRING) /\ Len(b) = r - q /\ \A i \in 1 .. (r - q) : b[i] = text[q + i]
      /\ c \in Seq(STRING) /\ Len(c) = r - p /\ \A i \in 1 .. (r - p) : c[i] = text[p + i]
  BY <1>0, SliceFacts
<1> HIDE DEF a, b, c
<1>2. a \o b \in Seq(STRING) /\ Len(a \o b) = r - p
  <2>1. a \o b \in Seq(STRING) /\ Len(a \o b) = Len(a) + Len(b)
    BY <1>1, ConcatProperties
  <2> QED
    BY <1>0, <1>1, <2>1
<1>3. ASSUME NEW i \in 1 .. (r - p)  PROVE (a \o b)[i] = c[i]
  <2>1. (a \o b)[i] = IF i <= Len(a) THEN a[i] ELSE b[i - Len(a)]
    BY <1>0, <1>1, ConcatProperties
  <2>2. CASE i <= q - p
    BY <1>0, <1>1, <2>1, <2>2
  <2>3. CASE ~(i <= q - p)
    <3>1. i - (q - p) \in 1 .. (r - q) /\ q + (i - (q - p)) = p + i
      BY <1>0, <2>3
    <3>2. b[i - (q - p)] = text[p + i]
      BY <1>1, <3>1
    <3> QED
      BY <1>1, <2>1, <2>3, <3>2
  <2> QED
    BY <2>2, <2>3
<1>4. a \o b = c
  BY <1>1, <1>2, <1>3, SeqEqual
<1> QED
  BY <1>4 DEF a, b, c

\* Where every character is a byte, a slice has as many bytes as characters.
LEMMA SliceBytes ==
    ASSUME InText, OneByte, NEW s, NEW p \in 0 .. Size, NEW q \in p .. Size, s = Slice(p, q)
    PROVE  ByteLen(s) = Len(s) /\ Len(s) = q - p
<1>0. Size \in Nat
  BY TextFacts
<1>1. /\ s \in Seq(STRING) /\ Len(s) = q - p
      /\ \A i \in 1 .. (q - p) : s[i] = text[p + i]
  BY SliceFacts
<1>2. DOMAIN s = 1 .. (q - p)
  BY <1>1, LenProperties
<1>3. \A i \in DOMAIN s : s[i] \in Range(text)
  <2> SUFFICES ASSUME NEW i \in DOMAIN s  PROVE s[i] \in Range(text)
    OBVIOUS
  <2>1. p + i \in 1 .. Size /\ s[i] = text[p + i]
    BY <1>0, <1>1, <1>2
  <2>2. DOMAIN text = 1 .. Size
    BY LenProperties DEF InText, Size
  <2> QED
    BY <2>1, <2>2 DEF Range
<1>4. /\ {i \in DOMAIN s : s[i] \in Wide} = {}
      /\ {i \in DOMAIN s : s[i] \in Astral} = {}
  BY <1>3 DEF OneByte
<1>5. ByteLen(s) = Len(s) + 0 + 2 * 0
  BY <1>4, FS_EmptySet DEF ByteLen
<1> QED
  BY <1>0, <1>1, <1>5

-----------------------------------------------------------------------------
(* Where a variable ends.                                                  *)

Opens(p) == Char(p) = "{"
Closes(p) == Char(p) = "}"

\* Any character that is there to be read is within the text.
LEMMA BeforeEnd ==
    ASSUME InText, NEW p \in Nat, Char(p) # "end-of-text"
    PROVE  p < Size
BY TextFacts

LEMMA BracesAreThere ==
    \A p : /\ Opens(p) \/ Closes(p) \/ StartsInterpolation(p) => Char(p) # "end-of-text"
          /\ StartsInterpolation(p) => Char(p + 1) # "end-of-text"
          /\ ~(Opens(p) /\ Closes(p))
BY Zenon DEF Opens, Closes, StartsInterpolation

LEMMA InterpolationIsSkipped ==
    ASSUME InText, NEW q \in Nat, StartsInterpolation(q)
    PROVE  /\ q + 2 <= Size
           /\ SkipInterpolation(q) \in Nat /\ SkipInterpolation(q) > q + 1
           /\ SkipInterpolation(q) <= Size
<1>2. q + 1 < Size /\ Size \in Nat
  <2>1. Char(q + 1) # "end-of-text"
    BY Zenon DEF StartsInterpolation
  <2>2. q + 1 \in Nat
    OBVIOUS
  <2> QED
    BY <2>1, <2>2, BeforeEnd, TextFacts
<1> DEFINE Q == {r \in q + 2 .. Size - 2 : Char(r) = "}" /\ Char(r + 1) = "%"}
           m == Max({q + 2, Size - 1})
<1>3. SkipInterpolation(q) = IF Q = {} THEN m ELSE Min(Q) + 2
  BY Zenon DEF SkipInterpolation
<1>4. m \in {q + 2, Size - 1} /\ m >= q + 2
  <2> DEFINE S == {q + 2, Size - 1}
  <2>1. \E x \in S : \A y \in S : x >= y
    BY <1>2
  <2>2. Max(S) \in S /\ \A y \in S : Max(S) >= y
    <3> HIDE DEF S
    <3> QED
      BY <2>1 DEF Max
  <2> QED
    BY <2>2
<1>5. Q \subseteq q + 2 .. Size - 2
  OBVIOUS
<1> HIDE DEF Q, m
<1>6. Q # {} => Min(Q) \in q + 2 .. Size - 2
  <2>1. Q \in SUBSET Nat
    BY <1>2, <1>5
  <2> QED
    BY <1>5, <2>1, LeastIsMin
<1> QED
  BY <1>2, <1>3, <1>4, <1>6

LEMMA DepthIsInteger ==
    ASSUME NEW q, NEW d \in Int
    PROVE  DepthBehind(q, d) \in Int
<1>1. DepthBehind(q, d) = d + 1 \/ DepthBehind(q, d) = d \/ DepthBehind(q, d) = d - 1
  BY Zenon DEF DepthBehind
<1> QED
  BY <1>1

\* A round of the scan looks only further on.
LEMMA ScanLooksAhead ==
    ASSUME InText, NEW q \in Nat, NEW d \in Int, NEW f, NEW g,
           \A at \in Nat \X Int : at[1] > q => f[at] = g[at]
    PROVE  VariableScan(f, q, d) = VariableScan(g, q, d)
<1>1. CASE q >= Size
  BY <1>1, Zenon DEF VariableScan
<1>2. CASE StartsInterpolation(q)
  <2>1. <<SkipInterpolation(q), d>> \in Nat \X Int /\ SkipInterpolation(q) > q
    BY <1>2, InterpolationIsSkipped
  <2>2. f[<<SkipInterpolation(q), d>>] = g[<<SkipInterpolation(q), d>>]
    BY <2>1
  <2> QED
    BY <1>2, <2>2, Zenon DEF VariableScan
<1>3. CASE ~StartsInterpolation(q)
  <2>1. <<q + 1, DepthBehind(q, d)>> \in Nat \X Int /\ q + 1 > q
    BY DepthIsInteger
  <2>2. f[<<q + 1, DepthBehind(q, d)>>] = g[<<q + 1, DepthBehind(q, d)>>]
    BY <2>1
  <2> QED
    BY <1>3, <2>2, Zenon DEF VariableScan
<1> QED
  BY <1>2, <1>3

Scans(f, n) ==
    /\ f = [at \in Nat \X Int |-> f[at]]
    /\ \A at \in Nat \X Int : at[1] + n >= Size => f[at] = VariableScan(f, at[1], at[2])

LEMMA ScanExists ==
    ASSUME InText
    PROVE  \E f : f = [at \in Nat \X Int |-> VariableScan(f, at[1], at[2])]
<1> DEFINE D == Nat \X Int
           Done == {n \in Nat : \E f : Scans(f, n)}
           end == [at |-> Size, closed |-> FALSE]
<1>0. Size \in Nat
  BY TextFacts
<1>1. 0 \in Done
  <2> DEFINE f == [at \in D |-> end]
  <2>1. \A at \in D : at[1] >= Size => f[at] = VariableScan(f, at[1], at[2])
    BY Zenon DEF VariableScan
  <2>2. \A at \in D : at[1] + 0 >= Size => at[1] >= Size
    BY <1>0
  <2>3. f = [at \in D |-> f[at]]
    OBVIOUS
  <2> HIDE DEF f
  <2>4. Scans(f, 0)
    BY <2>1, <2>2, <2>3 DEF Scans
  <2> QED
    BY <2>4
<1>2. ASSUME NEW n \in Nat, n \in Done  PROVE n + 1 \in Done
  <2>1. PICK f : Scans(f, n)
    BY <1>2
  <2> DEFINE g == [at \in D |-> IF at[1] + n >= Size THEN f[at] ELSE VariableScan(f, at[1], at[2])]
  <2>2. g = [at \in D |-> g[at]]
    OBVIOUS
  <2>3. \A at \in D : at[1] + n >= Size => g[at] = f[at]
    OBVIOUS
  <2>4. \A at \in D : ~(at[1] + n >= Size) => g[at] = VariableScan(f, at[1], at[2])
    OBVIOUS
  <2>5. \A at \in D : at[1] + n >= Size => f[at] = VariableScan(f, at[1], at[2])
    BY <2>1 DEF Scans
  <2> HIDE DEF g
  <2>6. ASSUME NEW at \in D, at[1] + (n + 1) >= Size
        PROVE  g[at] = VariableScan(g, at[1], at[2])
    <3>1. at[1] \in Nat /\ at[2] \in Int
      OBVIOUS
    <3>2. \A bt \in Nat \X Int : bt[1] > at[1] => g[bt] = f[bt]
      BY <1>0, <2>3, <2>6, <3>1
    <3>3. VariableScan(g, at[1], at[2]) = VariableScan(f, at[1], at[2])
      BY <3>1, <3>2, ScanLooksAhead
    <3> QED
      BY <2>3, <2>4, <2>5, <3>3
  <2>7. Scans(g, n + 1)
    BY <2>2, <2>6 DEF Scans
  <2> QED
    BY <2>7
<1>3. Size \in Done
  <2> HIDE DEF Done
  <2>1. \A k \in 1 .. Size : k - 1 \in Done => k \in Done
    <3> SUFFICES ASSUME NEW k \in 1 .. Size, k - 1 \in Done  PROVE k \in Done
      OBVIOUS
    <3>1. k - 1 \in Nat /\ (k - 1) + 1 = k
      OBVIOUS
    <3> QED
      BY <1>2, <3>1
  <2>2. 0 .. Size \subseteq Done
    BY <1>0, <1>1, <2>1, Induction
  <2> QED
    BY <1>0, <2>2
<1>4. PICK f : Scans(f, Size)
  BY <1>3
<1>5. \A at \in D : f[at] = VariableScan(f, at[1], at[2])
  <2>1. \A at \in D : at[1] + Size >= Size
    BY <1>0
  <2> QED
    BY <1>4, <2>1 DEF Scans
<1>6. f = [at \in D |-> VariableScan(f, at[1], at[2])]
  BY <1>4, <1>5 DEF Scans
<1> QED
  BY <1>6

\* What the definition of VariableEnd asks for.
LEMMA VariableScanned ==
    ASSUME InText, NEW start \in Nat, start < Size
    PROVE  \E f : /\ \A q \in Nat, d \in Int : f[<<q, d>>] = VariableScan(f, q, d)
                 /\ VariableEnd(start) = f[<<start + 1, 1>>]
<1> DEFINE F == CHOOSE f : f = [at \in Nat \X Int |-> VariableScan(f, at[1], at[2])]
<1>1. F = [at \in Nat \X Int |-> VariableScan(F, at[1], at[2])]
  BY ScanExists
<1>2. VariableEnd(start) = F[<<start + 1, 1>>]
  BY Zenon DEF VariableEnd
<1> HIDE DEF F
<1>3. ASSUME NEW q \in Nat, NEW d \in Int  PROVE F[<<q, d>>] = VariableScan(F, q, d)
  <2>1. <<q, d>> \in Nat \X Int /\ <<q, d>>[1] = q /\ <<q, d>>[2] = d
    OBVIOUS
  <2> QED
    BY <1>1, <2>1
<1> QED
  BY <1>2, <1>3

\* A variable ends in the text: behind a brace, or where the text ends.
EndsWell(r, from) ==
    /\ r.at \in from .. Size
    /\ r.closed => r.at > from /\ Closes(r.at - 1)
    /\ ~r.closed => r.at = Size

LEMMA VariableEnds ==
    ASSUME InText, NEW start \in Nat, start < Size
    PROVE  /\ EndsWell(VariableEnd(start), start + 1)
           /\ VariableEnd(start).closed \in BOOLEAN
<1>0. Size \in Nat
  BY TextFacts
<1>1. PICK f : /\ \A q \in Nat, d \in Int : f[<<q, d>>] = VariableScan(f, q, d)
               /\ VariableEnd(start) = f[<<start + 1, 1>>]
  BY VariableScanned
<1> DEFINE Good(n) == \A q \in 0 .. Size, d \in Int : q + n >= Size =>
                        EndsWell(f[<<q, d>>], q) /\ f[<<q, d>>].closed \in BOOLEAN
           S == {n \in Nat : Good(n)}
<1>2. ASSUME NEW q \in 0 .. Size, NEW d \in Int, 
             \A r \in 0 .. Size, e \in Int : r > q =>
                EndsWell(f[<<r, e>>], r) /\ f[<<r, e>>].closed \in BOOLEAN
      PROVE  EndsWell(f[<<q, d>>], q) /\ f[<<q, d>>].closed \in BOOLEAN
  <2>0. q \in Nat /\ q + 1 \in Nat /\ (q + 1) - 1 = q /\ f[<<q, d>>] = VariableScan(f, q, d)
    BY <1>0, <1>1
  <2>1. ASSUME NEW r \in 0 .. Size, NEW e \in Int, r > q, f[<<q, d>>] = f[<<r, e>>]
        PROVE  EndsWell(f[<<q, d>>], q) /\ f[<<q, d>>].closed \in BOOLEAN
    <3> DEFINE x == f[<<r, e>>]
    <3>1. EndsWell(x, r) /\ x.closed \in BOOLEAN
      BY <1>2, <2>1
    <3> HIDE DEF x
    <3>2. EndsWell(x, q)
      BY <1>0, <2>0, <2>1, <3>1 DEF EndsWell
    <3> QED
      BY <2>1, <3>1, <3>2 DEF x
  <2>2. CASE q >= Size
    <3>1. f[<<q, d>>] = [at |-> Size, closed |-> FALSE]
      BY <2>0, <2>2, Zenon DEF VariableScan
    <3>2. q = Size
      BY <1>0, <2>2
    <3> QED
      BY <1>0, <3>1, <3>2 DEF EndsWell
  <2>3. CASE q < Size /\ StartsInterpolation(q)
    <3>1. SkipInterpolation(q) \in 0 .. Size /\ SkipInterpolation(q) > q
      BY <1>0, <2>0, <2>3, InterpolationIsSkipped
    <3>2. f[<<q, d>>] = f[<<SkipInterpolation(q), d>>]
      <4>1. ~(q >= Size)
        BY <1>0, <2>0, <2>3
      <4> QED
        BY <2>0, <2>3, <4>1, Zenon DEF VariableScan
    <3> QED
      BY <2>1, <3>1, <3>2
  <2>4. CASE q < Size /\ ~StartsInterpolation(q) /\ Closes(q) /\ d = 1
    <3>1. f[<<q, d>>] = [at |-> q + 1, closed |-> TRUE]
      <4>1. ~(q >= Size)
        BY <1>0, <2>0, <2>4
      <4> QED
        BY <2>0, <2>4, <4>1, Zenon DEF VariableScan, Closes
    <3> DEFINE x == f[<<q, d>>]
    <3>2. x.at = q + 1 /\ x.closed = TRUE
      BY <3>1
    <3> HIDE DEF x
    <3>3. x.at - 1 = q
      BY <2>0, <3>2
    <3>4. Closes(x.at - 1)
      BY <2>4, <3>3
    <3>5. x.at \in q .. Size /\ x.at > q
      BY <1>0, <2>0, <2>4, <3>2
    <3>6. EndsWell(x, q) /\ x.closed \in BOOLEAN
      BY <3>2, <3>4, <3>5 DEF EndsWell
    <3> QED
      BY <3>6 DEF x
  <2>5. CASE q < Size /\ ~StartsInterpolation(q) /\ ~(Closes(q) /\ d = 1)
    <3>1. q + 1 \in 0 .. Size /\ q + 1 > q /\ DepthBehind(q, d) \in Int
      BY <1>0, <2>0, <2>5, DepthIsInteger
    <3>2. f[<<q, d>>] = f[<<q + 1, DepthBehind(q, d)>>]
      <4>1. ~(q >= Size)
        BY <1>0, <2>0, <2>5
      <4> QED
        BY <2>0, <2>5, <4>1, Zenon DEF VariableScan, Closes
    <3> QED
      BY <2>1, <3>1, <3>2
  <2> QED
    BY <1>0, <2>0, <2>2, <2>3, <2>4, <2>5
<1>3. 0 \in S
  <2> SUFFICES ASSUME NEW q \in 0 .. Size, NEW d \in Int, q + 0 >= Size
               PROVE  EndsWell(f[<<q, d>>], q) /\ f[<<q, d>>].closed \in BOOLEAN
    OBVIOUS
  <2>1. \A r \in 0 .. Size : ~(r > q)
    BY <1>0
  <2> QED
    BY <1>2, <2>1
<1>4. ASSUME NEW n \in 1 .. Size, n - 1 \in S  PROVE n \in S
  <2> SUFFICES ASSUME NEW q \in 0 .. Size, NEW d \in Int, q + n >= Size
               PROVE  EndsWell(f[<<q, d>>], q) /\ f[<<q, d>>].closed \in BOOLEAN
    OBVIOUS
  <2>1. \A r \in 0 .. Size : r > q => r + (n - 1) >= Size
    BY <1>0
  <2> QED
    BY <1>2, <1>4, <2>1
<1>5. Size \in S
  <2> HIDE DEF S
  <2>1. 0 .. Size \subseteq S
    BY <1>0, <1>3, <1>4, Induction
  <2> QED
    BY <1>0, <2>1
<1>6. start + 1 \in 0 .. Size /\ start + 1 + Size >= Size
  BY <1>0
<1> QED
  BY <1>1, <1>5, <1>6

-----------------------------------------------------------------------------
(* The spans of the tokens.                                                *)

\* A token lies in the text and is spelled as its span.
Placed(t) ==
    /\ t.start \in Nat /\ t.end \in Nat
    /\ t.start <= t.end /\ t.end <= Size
    /\ t.kind \in Spelled =>
         Slice(t.start, t.end) \in {Spelling(t), <<"{">> \o t.value}
\* The tokens of s are placed one behind the other, all before an offset.
InPlace(s, limit) ==
    \A i \in DOMAIN s : /\ Placed(s[i])
                        /\ i > 1 => s[i - 1].end <= s[i].start
                        /\ s[i].end <= limit

\* Where the next token may start: a queued one at its own start, the text of
\* a string where it began, any other at the reader.
Limit ==
    IF pending # <<>> THEN pending[1].start
    ELSE IF mode = "InString" THEN pos - Len(stringBuf) ELSE pos

\* The buffer holds the text just read, and only within a string.
Buffered ==
    /\ mode = "InString" => /\ Len(stringBuf) \in 0 .. pos
                            /\ stringBuf = Slice(pos - Len(stringBuf), pos)
    /\ mode = "InStringInterpolation" => stringBuf = <<>>

SpanInv ==
    /\ InText /\ (OneByte \/ Quoteless)
    /\ mode # "Normal" => OneByte
    /\ mode \in {"Normal", "InString", "InStringInterpolation"}
    /\ pending # <<>> => /\ mode = "InStringInterpolation"
                         /\ Placed(pending[1]) /\ pending[1].end <= pos
    /\ pendingDedents # 0 => mode = "Normal"
    /\ Buffered
    /\ InPlace(tokens, Limit)

LEMMA PlacedSpan ==
    ASSUME NEW t, Placed(t)
    PROVE  /\ t.start \in Nat /\ t.end \in Nat
           /\ t.start <= t.end /\ t.end <= Size
BY Zenon DEF Placed

LEMMA InTextStays ==
    ASSUME InText, text' = text, pos' \in 0 .. Size
    PROVE  InText'
BY DEF InText, Size

LEMMA TextStays ==
    ASSUME text' = text
    PROVE  (OneByte' <=> OneByte) /\ (Quoteless' <=> Quoteless)
BY Zenon DEF OneByte, Quoteless

LEMMA LimitIsOffset ==
    ASSUME SpanInv
    PROVE  Limit \in 0 .. pos /\ pos \in 0 .. Size /\ Size \in Nat
<1>1. Size \in Nat /\ pos \in 0 .. Size
  BY TextFacts DEF SpanInv, InText
<1>2. pending # <<>> => pending[1].start \in 0 .. pos
  <2> SUFFICES ASSUME pending # <<>>  PROVE pending[1].start \in 0 .. pos
    OBVIOUS
  <2>1. Placed(pending[1]) /\ pending[1].end <= pos
    BY DEF SpanInv
  <2> QED
    BY <1>1, <2>1, PlacedSpan
<1>3. mode = "InString" => pos - Len(stringBuf) \in 0 .. pos
  BY <1>1 DEF SpanInv, Buffered
<1> QED
  BY <1>1, <1>2, <1>3 DEF Limit

\* A round that hands out nothing only moves the limit on ...
LEMMA TokensStay ==
    ASSUME SpanInv, text' = text, tokens' = tokens, Limit' \in Nat, Limit <= Limit'
    PROVE  InPlace(tokens, Limit)'
<1>1. Limit \in Nat
  BY LimitIsOffset
<1> SUFFICES ASSUME NEW i \in DOMAIN tokens
             PROVE  /\ Placed(tokens[i])'
                    /\ i > 1 => tokens[i - 1].end <= tokens[i].start
                    /\ tokens[i].end <= Limit'
  BY DEF InPlace
<1>2. /\ Placed(tokens[i]) /\ tokens[i].end <= Limit
      /\ i > 1 => tokens[i - 1].end <= tokens[i].start
  BY DEF SpanInv, InPlace
<1> DEFINE t == tokens[i]
<1>3. Placed(t)'
  <2>1. Placed(t) /\ t' = t
    BY <1>2
  <2> HIDE DEF t
  <2> QED
    BY <2>1 DEF Placed, Size, Slice, Spelling, Spelled
<1>4. tokens[i].end \in Nat
  BY <1>2 DEF Placed
<1> QED
  BY <1>1, <1>2, <1>3, <1>4

\* ... and one that hands out a token puts it behind the others.
LEMMA TokenAdded ==
    ASSUME SpanInv, IsSequence(tokens), text' = text,
           NEW t, Placed(t), tokens' = Append(tokens, t),
           Limit <= t.start, Limit' \in Nat, t.end <= Limit'
    PROVE  InPlace(tokens, Limit)'
<1>1. Limit \in Nat
  BY LimitIsOffset
<1>2. /\ Len(tokens) \in Nat /\ DOMAIN tokens = 1 .. Len(tokens)
      /\ DOMAIN tokens' = 1 .. Len(tokens) + 1
      /\ \A i \in 1 .. Len(tokens) : tokens'[i] = tokens[i]
      /\ tokens'[Len(tokens) + 1] = t
  BY AppendLast
<1>3. ASSUME NEW i \in 1 .. Len(tokens)
      PROVE  /\ Placed(tokens[i]) /\ tokens[i].end <= Limit
             /\ tokens[i].end \in Nat
             /\ i > 1 => tokens[i - 1].end <= tokens[i].start
  BY <1>2 DEF SpanInv, InPlace, Placed
<1>4. t.start \in Nat /\ t.end \in Nat /\ t.start <= t.end
  BY DEF Placed
<1> SUFFICES ASSUME NEW i \in DOMAIN tokens'
             PROVE  /\ Placed(tokens[i])'
                    /\ i > 1 => tokens'[i - 1].end <= tokens'[i].start
                    /\ tokens'[i].end <= Limit'
  BY DEF InPlace
<1>5. CASE i \in 1 .. Len(tokens)
  <2>1. tokens'[i] = tokens[i]
    BY <1>2, <1>5
  <2>2. Placed(tokens[i])'
    <3> DEFINE u == tokens[i]
    <3>1. Placed(u) /\ u' = u
      BY <1>3, <1>5, <2>1
    <3> HIDE DEF u
    <3> QED
      BY <3>1 DEF Placed, Size, Slice, Spelling, Spelled, u
  <2>3. tokens'[i].end <= Limit'
    BY <1>1, <1>3, <1>4, <1>5, <2>1
  <2>4. i > 1 => tokens'[i - 1].end <= tokens'[i].start
    BY <1>2, <1>3, <1>5, <2>1
  <2> QED
    BY <2>2, <2>3, <2>4
<1>6. CASE i = Len(tokens) + 1
  <2>1. tokens'[i] = t
    BY <1>2, <1>6
  <2>2. Placed(tokens[i])'
    BY <2>1 DEF Placed, Size, Slice, Spelling, Spelled
  <2>3. i > 1 => tokens'[i - 1].end <= tokens'[i].start
    <3> SUFFICES ASSUME i > 1  PROVE tokens'[i - 1].end <= tokens'[i].start
      OBVIOUS
    <3>1. i - 1 \in 1 .. Len(tokens) /\ i - 1 = Len(tokens)
      BY <1>2, <1>6
    <3>2. tokens'[i - 1] = tokens[i - 1]
      BY <1>2, <3>1
    <3> QED
      BY <1>1, <1>3, <1>4, <2>1, <3>1, <3>2
  <2> QED
    BY <2>1, <2>2, <2>3
<1> QED
  BY <1>2, <1>5, <1>6

\* What a round hands out, if anything, lies between its limit and the next.
HandsOut ==
    \/ tokens' = tokens /\ Limit <= Limit'
    \/ \E t : /\ Placed(t) /\ tokens' = Append(tokens, t)
              /\ Limit <= t.start /\ t.end <= Limit'

\* The rounds that queue nothing.
LEMMA SpanStep ==
    ASSUME SpanInv, IsSequence(tokens), text' = text, pos' \in 0 .. Size,
           mode' \in {"Normal", "InString", "InStringInterpolation"},
           pending' = <<>>, pendingDedents' # 0 => mode' = "Normal",
           mode' # "Normal" => OneByte, Buffered', HandsOut
    PROVE  SpanInv'
<1>1. InText'
  BY InTextStays DEF SpanInv
<1>2. Limit' \in Nat
  <2>1. pos' \in Nat
    BY LimitIsOffset
  <2>2. mode' = "InString" => pos' - Len(stringBuf') \in Nat
    BY <2>1 DEF Buffered
  <2> QED
    BY <2>1, <2>2 DEF Limit
<1>3. InPlace(tokens, Limit)'
  BY <1>2, TokensStay, TokenAdded DEF HandsOut
<1> QED
  BY <1>1, <1>3, TextStays DEF SpanInv

\* Outside strings the reader goes on, and a token lies between.
LEMMA CodeStep ==
    ASSUME SpanInv, IsSequence(tokens), text' = text, pos' \in pos .. Size,
           pending = <<>>, pending' = <<>>,
           mode \in {"Normal", "InStringInterpolation"},
           mode' \in {"Normal", mode}, stringBuf' = stringBuf,
           pendingDedents' # 0 => mode' = "Normal",
           \/ tokens' = tokens
           \/ \E t : /\ Placed(t) /\ tokens' = Append(tokens, t)
                     /\ pos <= t.start /\ t.end <= pos'
    PROVE  SpanInv'
<1>1. pos \in 0 .. Size /\ Size \in Nat
  BY LimitIsOffset
<1>2. Limit = pos /\ Limit' = pos'
  BY DEF Limit
<1>3. HandsOut
  BY <1>1, <1>2 DEF HandsOut
<1>4. Buffered' /\ (mode' # "Normal" => OneByte)
  BY DEF SpanInv, Buffered
<1> QED
  BY <1>1, <1>3, <1>4, SpanStep

-----------------------------------------------------------------------------
(* Tokens are spelled as their spans.                                      *)

\* Most tokens are written as they are valued.
AsValued == {"keyword", "identifier", "boolean", "number", "operator", "brace",
             "string", "strtext"}

LEMMA PlacedAsValued ==
    ASSUME InText, NEW kind \in AsValued, NEW p \in 0 .. Size, NEW q \in p .. Size,
           NEW value, value = Slice(p, q)
    PROVE  /\ Placed(Token(kind, value, p, q))
           /\ Token(kind, value, p, q).start = p /\ Token(kind, value, p, q).end = q
<1> DEFINE t == Token(kind, value, p, q)
<1>1. t.kind = kind /\ t.value = value /\ t.start = p /\ t.end = q
  BY DEF Token
<1> HIDE DEF t
<1>2. kind # "variable" /\ kind # "tagopen" /\ kind # "tagclose"
  BY DEF AsValued
<1>3. Spelling(t) = value
  BY <1>1, <1>2, Zenon DEF Spelling
<1>4. Slice(t.start, t.end) = Spelling(t)
  BY <1>1, <1>3
<1>5. Size \in Nat
  BY TextFacts
<1>6. t.start \in Nat /\ t.end \in Nat /\ t.start <= t.end /\ t.end <= Size
  BY <1>1, <1>5
<1>7. Placed(t)
  BY <1>4, <1>6, Zenon DEF Placed
<1> QED
  BY <1>1, <1>7 DEF t

\* The others of no text say only where they are.
Unspelled == {"newline", "indent", "dedent", "eof", "interpstart", "interpend"}

LEMMA PlacedUnspelled ==
    ASSUME InText, NEW kind \in Unspelled, NEW p \in 0 .. Size, NEW q \in p .. Size
    PROVE  /\ Placed(Token(kind, <<>>, p, q))
           /\ Token(kind, <<>>, p, q).start = p /\ Token(kind, <<>>, p, q).end = q
<1> DEFINE t == Token(kind, <<>>, p, q)
<1>1. t.kind = kind /\ t.start = p /\ t.end = q
  BY DEF Token
<1> HIDE DEF t
<1>2. t.kind \notin Spelled
  BY <1>1 DEF Unspelled, Spelled
<1>3. Size \in Nat
  BY TextFacts
<1>4. t.start \in Nat /\ t.end \in Nat /\ t.start <= t.end /\ t.end <= Size
  BY <1>1, <1>3
<1>5. Placed(t)
  BY <1>2, <1>4, Zenon DEF Placed
<1> QED
  BY <1>1, <1>5 DEF t

\* A variable is written with its braces, or without the last one.
LEMMA PlacedVariable ==
    ASSUME InText, NEW p \in 0 .. Size, p < Size, Opens(p),
           NEW end, EndsWell(end, p + 1), end.closed \in BOOLEAN,
           NEW value, value = Slice(p + 1, IF end.closed THEN end.at - 1 ELSE end.at)
    PROVE  /\ Placed(Token("variable", value, p, end.at))
           /\ Token("variable", value, p, end.at).start = p
           /\ Token("variable", value, p, end.at).end = end.at
<1> DEFINE q == end.at
           t == Token("variable", value, p, q)
<1>1. t.kind = "variable" /\ t.value = value /\ t.start = p /\ t.end = q
  BY DEF Token
<1> HIDE DEF t
<1>2. /\ Size \in Nat /\ p \in Nat /\ p + 1 \in 0 .. Size /\ p + 1 \in p .. Size
      /\ q \in p + 1 .. Size /\ q \in p .. Size
  BY TextFacts DEF EndsWell
<1>3. Slice(p, p + 1) = <<Char(p)>>
  BY SliceOne
<1>4. Char(p) = "{"
  BY Zenon DEF Opens
<1>5. Slice(p, p + 1) = <<"{">>
  BY <1>3, <1>4, Zenon
<1>6. Slice(t.start, t.end) \in {Spelling(t), <<"{">> \o t.value}
  <2>1. CASE end.closed
    <3> DEFINE m == q - 1
    <3>1. /\ m \in p + 1 .. Size /\ m \in 0 .. Size /\ m \in p .. Size
          /\ q \in m .. Size /\ m < Size /\ m + 1 = q
      BY <1>2, <2>1 DEF EndsWell
    <3>2. Closes(m)
      BY <2>1 DEF EndsWell
    <3>3. value = Slice(p + 1, m)
      BY <2>1
    <3> HIDE DEF m
    <3>4. Slice(m, m + 1) = <<Char(m)>>
      BY <3>1, SliceOne
    <3>5. Slice(m, q) = <<Char(m)>>
      BY <3>1, <3>4
    <3>6. Slice(m, q) = <<"}">>
      BY <3>2, <3>5, Zenon DEF Closes
    <3>7. Slice(p, p + 1) \o Slice(p + 1, m) = Slice(p, m)
      BY <1>2, <3>1, SliceJoin
    <3>8. Slice(p, m) \o Slice(m, q) = Slice(p, q)
      BY <1>2, <3>1, SliceJoin
    <3>9. Slice(p, q) = <<"{">> \o value \o <<"}">>
      BY <1>5, <3>3, <3>6, <3>7, <3>8, Zenon
    <3>10. Spelling(t) = <<"{">> \o value \o <<"}">>
      BY <1>1, Zenon DEF Spelling
    <3> QED
      BY <1>1, <3>9, <3>10, Zenon
  <2>2. CASE ~end.closed
    <3>1. value = Slice(p + 1, q)
      BY <2>2
    <3>2. Slice(p, p + 1) \o Slice(p + 1, q) = Slice(p, q)
      BY <1>2, SliceJoin
    <3>3. Slice(p, q) = <<"{">> \o value
      BY <1>5, <3>1, <3>2, Zenon
    <3> QED
      BY <1>1, <3>3, Zenon
  <2> QED
    BY <2>1, <2>2, Zenon
<1>7. t.start \in Nat /\ t.end \in Nat /\ t.start <= t.end /\ t.end <= Size
  BY <1>1, <1>2
<1>8. Placed(t)
  BY <1>6, <1>7, Zenon DEF Placed
<1> QED
  BY <1>1, <1>8 DEF t

\* A tag is written between < or </ and >.
LEMMA PlacedTag ==
    ASSUME InText, NEW p \in 0 .. Size, p < Size, IsTag(p),
           NEW kind, kind = IF Char(p + 1) = "/" THEN "tagclose" ELSE "tagopen",
           NEW value, value = Slice(TagName(p), TagEnd(p)),
           NEW q, q = TagEnd(p) + 1
    PROVE  /\ q \in p .. Size
           /\ Placed(Token(kind, value, p, q))
           /\ Token(kind, value, p, q).start = p /\ Token(kind, value, p, q).end = q
<1> DEFINE t == Token(kind, value, p, q)
           n == TagName(p)
           m == TagEnd(p)
<1>1. t.kind = kind /\ t.value = value /\ t.start = p /\ t.end = q
  BY DEF Token
<1> HIDE DEF t
<1>2. Size \in Nat /\ p \in Nat
  BY TextFacts
<1>3. n = (IF Char(p + 1) = "/" THEN p + 2 ELSE p + 1) /\ n < Size
  BY DEF TagName, IsTag
<1>4. n \in 0 .. Size /\ n \in p + 1 .. Size
  BY <1>2, <1>3
<1>5. m \in n .. Size
  BY <1>4, SkipFacts DEF TagEnd
<1>6. Char(p) = "<" /\ Char(m) = ">"
  BY DEF IsTag, StartsTag
<1>7. m < Size
  <2>1. m \in Nat /\ Char(m) # "end-of-text"
    BY <1>2, <1>4, <1>5, <1>6
  <2> QED
    BY <2>1, BeforeEnd
<1> HIDE DEF m, n
<1>8. q = m + 1 /\ q \in m .. Size /\ q \in p .. Size /\ m \in 0 .. Size /\ m \in p .. Size
      /\ n \in p .. Size
  BY <1>2, <1>4, <1>5, <1>7 DEF m
<1>9. Slice(m, q) = <<">">> /\ value = Slice(n, m)
  <2>1. Slice(m, m + 1) = <<Char(m)>>
    BY <1>7, <1>8, SliceOne
  <2> QED
    BY <1>6, <1>8, <2>1 DEF m, n
<1>10. Slice(p, n) \o Slice(n, m) = Slice(p, m) /\ Slice(p, m) \o Slice(m, q) = Slice(p, q)
  BY <1>4, <1>5, <1>8, SliceJoin
<1>11. Slice(p, p + 1) = <<"<">>
  <2>1. Slice(p, p + 1) = <<Char(p)>>
    BY SliceOne
  <2> QED
    BY <1>6, <2>1
<1>12. Slice(p, q) = Spelling(t)
  <2>1. CASE Char(p + 1) = "/"
    <3>1. n = p + 2 /\ p + 1 \in p .. Size /\ p + 1 \in 0 .. Size /\ n \in p + 1 .. Size /\ p + 1 < Size
      BY <1>2, <1>3, <1>4, <2>1
    <3>2. Slice(p + 1, (p + 1) + 1) = <<Char(p + 1)>>
      BY <3>1, SliceOne
    <3>3. Slice(p + 1, n) = <<"/">>
      <4>1. (p + 1) + 1 = n
        BY <1>2, <3>1
      <4> QED
        BY <2>1, <3>2, <4>1
    <3>4. Slice(p, p + 1) \o Slice(p + 1, n) = Slice(p, n)
      BY <3>1, SliceJoin
    <3>5. Slice(p, n) = <<"<", "/">>
      BY <1>11, <3>3, <3>4
    <3>6. Slice(p, q) = <<"<", "/">> \o value \o <<">">>
      BY <1>9, <1>10, <3>5
    <3>7. t.kind = "tagclose"
      BY <1>1, <2>1
    <3>8. Spelling(t) = <<"<", "/">> \o t.value \o <<">">>
      BY <3>7, Zenon DEF Spelling
    <3> QED
      BY <1>1, <3>6, <3>8
  <2>2. CASE Char(p + 1) # "/"
    <3>1. n = p + 1
      BY <1>3, <2>2
    <3>2. Slice(p, q) = <<"<">> \o value \o <<">">>
      BY <1>9, <1>10, <1>11, <3>1
    <3>3. t.kind = "tagopen"
      BY <1>1, <2>2
    <3>4. Spelling(t) = <<"<">> \o t.value \o <<">">>
      BY <3>3, Zenon DEF Spelling
    <3> QED
      BY <1>1, <3>2, <3>4
  <2> QED
    BY <2>1, <2>2
<1>13. t.start \in Nat /\ t.end \in Nat /\ t.start <= t.end /\ t.end <= Size
  BY <1>1, <1>2, <1>8
<1>14. Placed(t)
  <2>1. Slice(t.start, t.end) = Spelling(t)
    BY <1>1, <1>12
  <2> QED
    BY <1>13, <2>1, Zenon DEF Placed
<1> QED
  BY <1>1, <1>8, <1>14 DEF t

-----------------------------------------------------------------------------
(* The rounds, one by one.                                                 *)

LEMMA StartIsAhead ==
    ASSUME SpanInv
    PROVE  /\ InText /\ Size \in Nat /\ pos \in 0 .. Size
           /\ Start \in pos .. Size /\ Start \in 0 .. Size /\ Start \in Nat
<1>1. InText /\ Size \in Nat /\ pos \in 0 .. Size
  BY LimitIsOffset DEF SpanInv
<1>2. Start \in pos .. Size
  BY <1>1, SkipFacts DEF Start
<1> QED
  BY <1>1, <1>2

\* A round outside strings that hands out the text from the start to the end.
LEMMA CodeToken ==
    ASSUME SpanInv, IsSequence(tokens), InCode, Advance(pos'), pos' \in Start .. Size,
           mode' = mode, NEW kind \in AsValued, Emit(kind, Slice(Start, pos'), Start, pos')
    PROVE  SpanInv'
<1>1. /\ InText /\ Size \in Nat /\ pos \in 0 .. Size /\ Start \in pos .. Size
      /\ Start \in 0 .. Size
  BY StartIsAhead
<1> DEFINE t == Token(kind, Slice(Start, pos'), Start, pos')
<1>2. Placed(t) /\ t.start = Start /\ t.end = pos'
  BY <1>1, PlacedAsValued
<1>3. tokens' = Append(tokens, t)
  BY DEF Emit
<1> HIDE DEF t
<1>4. pos' \in pos .. Size /\ pos <= t.start /\ t.end <= pos'
  BY <1>1, <1>2
<1>5. /\ pending = <<>> /\ pending' = <<>> /\ text' = text /\ stringBuf' = stringBuf
      /\ pendingDedents' = 0 /\ mode \in {"Normal", "InStringInterpolation"}
  BY DEF InCode, InNormal, InInterpolation, NothingQueued, Advance, strings
<1> QED
  BY <1>2, <1>3, <1>4, <1>5, CodeStep

\* A round outside strings that hands out nothing.
LEMMA CodeSkip ==
    ASSUME SpanInv, IsSequence(tokens), InCode, Advance(pos'), pos' \in Start .. Size,
           mode' = mode, tokens' = tokens
    PROVE  SpanInv'
<1>1. Size \in Nat /\ pos \in 0 .. Size /\ Start \in pos .. Size
  BY StartIsAhead
<1>2. pos' \in pos .. Size
  BY <1>1
<1>3. /\ pending = <<>> /\ pending' = <<>> /\ text' = text /\ stringBuf' = stringBuf
      /\ pendingDedents' = 0 /\ mode \in {"Normal", "InStringInterpolation"}
  BY DEF InCode, InNormal, InInterpolation, NothingQueued, Advance, strings
<1> QED
  BY <1>2, <1>3, CodeStep

\* A round outside strings that hands out a token of no text, or nothing.
LEMMA CodeMark ==
    ASSUME SpanInv, IsSequence(tokens), text' = text, pending = <<>>, pending' = <<>>,
           stringBuf' = stringBuf, mode \in {"Normal", "InStringInterpolation"},
           mode' \in {"Normal", mode}, pendingDedents' # 0 => mode' = "Normal",
           NEW p \in pos .. Size, NEW q \in p .. Size, pos' = q,
           NEW kind \in Unspelled, tokens' = tokens \/ Emit(kind, <<>>, p, q)
    PROVE  SpanInv'
<1>1. InText /\ Size \in Nat /\ pos \in 0 .. Size
  BY StartIsAhead
<1>2. p \in 0 .. Size /\ pos' \in pos .. Size
  BY <1>1
<1> DEFINE t == Token(kind, <<>>, p, q)
<1>3. Placed(t) /\ t.start = p /\ t.end = q
  BY <1>1, <1>2, PlacedUnspelled
<1>4. tokens' = tokens \/ tokens' = Append(tokens, t)
  BY DEF Emit
<1> HIDE DEF t
<1>5. pos <= t.start /\ t.end <= pos'
  BY <1>1, <1>3
<1> QED
  BY <1>2, <1>3, <1>4, <1>5, CodeStep

LEMMA TakeDedentSpan ==
    ASSUME SpanInv, IsSequence(tokens), TakeDedent, LexerInv  PROVE SpanInv'
<1>1. Size \in Nat /\ pos \in pos .. Size /\ pendingDedents # 0
  BY StartIsAhead DEF TakeDedent
<1>2. mode = "Normal"
  BY <1>1 DEF SpanInv
<1>3. "dedent" \in Unspelled
  BY DEF Unspelled
<1>4. /\ text' = text /\ pending = <<>> /\ pending' = <<>> /\ stringBuf' = stringBuf
      /\ mode' = mode /\ pos' = pos /\ Emit("dedent", <<>>, pos, pos)
  BY DEF TakeDedent, strings
<1> QED
  BY <1>1, <1>2, <1>3, <1>4, CodeMark

LEMMA EndOfTextSpan ==
    ASSUME SpanInv, IsSequence(tokens), NothingQueued, mode = "Normal",
           NEW p \in pos .. Size, EndOfText(p)
    PROVE  SpanInv'
<1>1. Size \in Nat /\ pos \in 0 .. Size /\ p \in p .. Size
  BY StartIsAhead
<1>2. "eof" \in Unspelled
  BY DEF Unspelled
<1>3. tokens' = tokens \/ Emit("eof", <<>>, p, p)
  BY DEF EndOfText, EmitNothing
<1>4. /\ text' = text /\ pending = <<>> /\ pending' = <<>> /\ stringBuf' = stringBuf
      /\ mode' = mode /\ pos' = p
  BY DEF EndOfText, NothingQueued, strings
<1> QED
  BY <1>1, <1>2, <1>3, <1>4, CodeMark

LEMMA BlankLineSpan ==
    ASSUME SpanInv, IsSequence(tokens), BlankLine  PROVE SpanInv'
<1> DEFINE next == SkipToEndOfLine(pos)
<1>1. InText /\ Size \in Nat /\ pos \in 0 .. Size
  BY StartIsAhead
<1>2. next \in pos .. Size
  BY <1>1, SkipFacts
<1>3. NothingQueued /\ mode = "Normal"
  BY DEF BlankLine, AtLineStart
<1>4. CASE EndOfText(next)
  BY <1>2, <1>3, <1>4, EndOfTextSpan
<1>5. CASE /\ pos' = next /\ tokens' = tokens
           /\ UNCHANGED <<text, indentStack, pendingDedents, atLineStart, mode, strings>>
  <2>1. pending = <<>> /\ pending' = <<>> /\ pendingDedents' = 0 /\ stringBuf' = stringBuf
    BY <1>3, <1>5 DEF NothingQueued, strings
  <2> QED
    BY <1>2, <1>3, <1>5, <2>1, CodeStep
<1> QED
  BY <1>4, <1>5 DEF BlankLine, EmitNothing

LEMMA IndentationSpan ==
    ASSUME SpanInv, IsSequence(tokens), Indentation  PROVE SpanInv'
<1>1. InText /\ Size \in Nat /\ pos \in pos .. Size /\ Start \in pos .. Size
  BY StartIsAhead
<1>2. NothingQueued /\ mode = "Normal"
  BY DEF Indentation, AtLineStart
<1>3. pos' = Start /\ (tokens' = tokens \/ Emit("indent", <<>>, pos, Start))
  BY Zenon DEF Indentation, EmitNothing, Start
<1>4. /\ text' = text /\ mode' = mode /\ pending = <<>> /\ pending' = <<>>
      /\ stringBuf' = stringBuf
  BY <1>2 DEF Indentation, NothingQueued, strings
<1>5. "indent" \in Unspelled
  BY DEF Unspelled
<1> QED
  BY <1>1, <1>2, <1>3, <1>4, <1>5, CodeMark

LEMMA CodeEndSpan ==
    ASSUME SpanInv, IsSequence(tokens), CodeEnd  PROVE SpanInv'
<1>1. Size \in Nat /\ pos \in 0 .. Size /\ Start \in pos .. Size
  BY StartIsAhead
<1>2. CASE InNormal /\ EndOfText(Start)
  BY <1>1, <1>2, EndOfTextSpan DEF InNormal
<1>3. CASE ~(InNormal /\ EndOfText(Start))
  <2>1. /\ text' = text /\ mode' = "Normal" /\ mode = "InStringInterpolation"
        /\ pending = <<>> /\ pending' = <<>> /\ stringBuf' = stringBuf
        /\ pos' = Size /\ tokens' = tokens
    BY <1>3 DEF CodeEnd, InInterpolation, NothingQueued, strings, EmitNothing
  <2>2. pos' \in pos .. Size
    BY <1>1, <2>1
  <2> QED
    BY <2>1, <2>2, CodeStep
<1> QED
  BY <1>2, <1>3

LEMMA NewlineSpan ==
    ASSUME SpanInv, IsSequence(tokens), Newline  PROVE SpanInv'
<1>1. InText /\ Size \in Nat /\ Start \in 0 .. Size /\ Start \in pos .. Size
  BY StartIsAhead
<1>2. pos' = SkipNewline(Start) /\ SkipNewline(Start) \in Start .. Size
  BY <1>1, SkipFacts DEF Newline, Advance
<1>3. Emit("newline", <<>>, Start, pos') /\ "newline" \in Unspelled
  BY DEF Newline, Unspelled
<1>4. /\ text' = text /\ mode' = mode /\ mode = "Normal" /\ pending = <<>> /\ pending' = <<>>
      /\ stringBuf' = stringBuf
  BY DEF Newline, InNormal, NothingQueued, Advance, strings
<1> QED
  BY <1>1, <1>2, <1>3, <1>4, CodeMark

LEMMA CommentSpan ==
    ASSUME SpanInv, IsSequence(tokens), Comment  PROVE SpanInv'
<1>1. InText /\ Start \in 0 .. Size
  BY StartIsAhead
<1>2. Advance(pos') /\ pos' = SkipToEndOfLine(Start) /\ InCode /\ mode' = mode /\ tokens' = tokens
  BY DEF Comment, Advance, EmitNothing
<1>3. pos' \in Start .. Size
  BY <1>1, <1>2, SkipFacts
<1> QED
  BY <1>2, <1>3, CodeSkip

LEMMA NumberEnds ==
    ASSUME InText, NEW p \in 0 .. Size, StartsNumber(p)
    PROVE  NumberEnd(p) \in p .. Size
<1>0. Size \in Nat /\ p \in Nat
  BY TextFacts
<1> DEFINE r == IF Char(p) \in {"+", "-"} THEN p + 1 ELSE p
           q == SkipWhile(r, Digits)
<1>1. r \in p .. Size /\ r \in 0 .. Size
  <2>1. Char(p) \in {"+", "-"} => Char(p) # "end-of-text"
    OBVIOUS
  <2>2. Char(p) \in {"+", "-"} => p < Size
    BY <1>0, <2>1, BeforeEnd
  <2> QED
    BY <1>0, <2>2
<1> HIDE DEF r
<1>2. q \in r .. Size
  BY <1>1, SkipFacts
<1>3. NumberEnd(p) = IF Char(q) = "." THEN SkipWhile(q + 1, Digits) ELSE q
  BY DEF NumberEnd, r
<1> HIDE DEF q
<1>4. CASE Char(q) = "."
  <2>1. q \in Nat /\ Char(q) # "end-of-text"
    BY <1>1, <1>2, <1>4
  <2>2. q < Size
    BY <2>1, BeforeEnd
  <2>3. q + 1 \in 0 .. Size
    BY <1>0, <2>1, <2>2
  <2>4. SkipWhile(q + 1, Digits) \in q + 1 .. Size
    BY <2>3, SkipFacts
  <2> QED
    BY <1>0, <1>1, <1>2, <1>3, <1>4, <2>4
<1>5. CASE Char(q) # "."
  BY <1>0, <1>1, <1>2, <1>3, <1>5
<1> QED
  BY <1>4, <1>5

LEMMA ParseNumberSpan ==
    ASSUME SpanInv, IsSequence(tokens), ParseNumber  PROVE SpanInv'
<1>1. InText /\ Start \in 0 .. Size
  BY StartIsAhead
<1>2. /\ Advance(pos') /\ pos' = NumberEnd(Start) /\ InCode /\ mode' = mode
      /\ StartsNumber(Start) /\ Emit("number", Slice(Start, pos'), Start, pos')
  BY DEF ParseNumber, Advance
<1>3. pos' \in Start .. Size
  BY <1>1, <1>2, NumberEnds
<1>4. "number" \in AsValued
  BY DEF AsValued
<1> QED
  BY <1>2, <1>3, <1>4, CodeToken

LEMMA ParseWordSpan ==
    ASSUME SpanInv, IsSequence(tokens), ParseWord  PROVE SpanInv'
<1>1. InText /\ Start \in 0 .. Size
  BY StartIsAhead
<1>2. /\ Advance(pos') /\ pos' = SkipWhile(Start, WordTail) /\ InCode /\ mode' = mode
      /\ Emit(WordKind(Slice(Start, pos')), Slice(Start, pos'), Start, pos')
  BY DEF ParseWord, Advance
<1>3. pos' \in Start .. Size
  BY <1>1, <1>2, SkipFacts
<1>4. WordKind(Slice(Start, pos')) \in AsValued
  BY DEF AsValued, WordKind
<1> QED
  BY <1>2, <1>3, <1>4, CodeToken

LEMMA ParseVariableSpan ==
    ASSUME SpanInv, IsSequence(tokens), ParseVariable  PROVE SpanInv'
<1> DEFINE end == VariableEnd(Start)
           value == Slice(Start + 1, IF end.closed THEN end.at - 1 ELSE end.at)
           t == Token("variable", value, Start, end.at)
<1>1. /\ InText /\ Size \in Nat /\ pos \in 0 .. Size
      /\ Start \in 0 .. Size /\ Start \in pos .. Size /\ Start \in Nat
  BY StartIsAhead
<1>2. Opens(Start)
  BY Zenon DEF ParseVariable, Opens
<1>3. Start < Size
  <2>1. Char(Start) # "end-of-text"
    BY <1>2, Zenon DEF Opens
  <2> QED
    BY <1>1, <2>1, BeforeEnd
<1>4. tokens' = Append(tokens, t) /\ pos' = end.at
  BY Zenon DEF ParseVariable, Emit, Advance
<1>5. /\ pending = <<>> /\ pending' = <<>> /\ text' = text /\ stringBuf' = stringBuf
      /\ mode' = mode /\ mode = "Normal"
  BY Zenon DEF ParseVariable, InNormal, NothingQueued, Advance, strings
<1>6. EndsWell(end, Start + 1) /\ end.closed \in BOOLEAN
  BY <1>1, <1>3, VariableEnds
<1>7. end.at \in pos .. Size
  BY <1>1, <1>6 DEF EndsWell
<1> HIDE DEF end
<1>8. Placed(t) /\ t.start = Start /\ t.end = end.at
  BY <1>1, <1>2, <1>3, <1>6, PlacedVariable
<1> HIDE DEF t
<1>9. pos <= t.start /\ t.end <= pos' /\ pos' \in pos .. Size
  BY <1>1, <1>4, <1>7, <1>8
<1> QED
  BY <1>4, <1>5, <1>8, <1>9, CodeStep

LEMMA OperatorsAreThere ==
    ASSUME InText, NEW p \in Nat
    PROVE  /\ IsDouble(p) => p + 2 \in p .. Size
           /\ Char(p) \in SingleOperators => p + 1 \in p .. Size
<1>0. Size \in Nat
  BY TextFacts
<1>1. IsDouble(p) => Char(p + 1) # "end-of-text"
  BY DEF IsDouble, DoubleOperators
<1>2. Char(p) \in SingleOperators => Char(p) # "end-of-text"
  BY Zenon DEF SingleOperators
<1>3. IsDouble(p) => p + 1 < Size
  BY <1>1, BeforeEnd
<1>4. Char(p) \in SingleOperators => p < Size
  BY <1>2, BeforeEnd
<1> QED
  BY <1>0, <1>3, <1>4

LEMMA OperatorSpan ==
    ASSUME SpanInv, IsSequence(tokens), Operator  PROVE SpanInv'
<1>1. InText /\ Size \in Nat /\ Start \in 0 .. Size /\ Start \in Nat
  BY StartIsAhead
<1>2. /\ Advance(pos') /\ InCode /\ mode' = mode
      /\ Emit("operator", Slice(Start, pos'), Start, pos')
      /\ \/ IsDouble(Start) /\ pos' = Start + 2
         \/ Char(Start) \in SingleOperators /\ pos' = Start + 1
  BY Zenon DEF Operator, Advance
<1>3. pos' \in Start .. Size
  BY <1>1, <1>2, OperatorsAreThere
<1>4. "operator" \in AsValued
  BY DEF AsValued
<1> QED
  BY <1>2, <1>3, <1>4, CodeToken

LEMMA JunkSpan ==
    ASSUME SpanInv, IsSequence(tokens), Junk  PROVE SpanInv'
<1>1. Size \in Nat /\ Start \in Nat
  BY StartIsAhead
<1>2. /\ Advance(pos') /\ InCode /\ mode' = mode /\ tokens' = tokens
      /\ Start < Size /\ pos' = Start + 1
  BY Zenon DEF Junk, Advance, EmitNothing
<1>3. pos' \in Start .. Size
  BY <1>1, <1>2
<1> QED
  BY <1>2, <1>3, CodeSkip

-----------------------------------------------------------------------------
(* The rounds within strings.                                              *)

\* The text read so far ends at the reader; every character is a byte, since
\* the string began with a quote.
LEMMA BufferIsText ==
    ASSUME SpanInv, mode = "InString"
    PROVE  /\ pending = <<>> /\ InText /\ Size \in Nat /\ pos \in 0 .. Size
           /\ pos \in Nat /\ OneByte
           /\ Len(stringBuf) \in 0 .. pos /\ Limit = pos - Len(stringBuf)
           /\ Limit \in 0 .. Size /\ pos \in Limit .. Size
           /\ stringBuf = Slice(Limit, pos) /\ ByteLen(stringBuf) = Len(stringBuf)
<1>1. InText /\ Size \in Nat /\ pos \in 0 .. Size /\ OneByte
  BY LimitIsOffset DEF SpanInv
<1>2. pending = <<>> /\ Limit = pos - Len(stringBuf)
  BY DEF SpanInv, Limit
<1>3. Len(stringBuf) \in 0 .. pos /\ stringBuf = Slice(Limit, pos)
  BY <1>2 DEF SpanInv, Buffered
<1>4. Limit \in 0 .. Size /\ pos \in Limit .. Size
  BY <1>1, <1>2, <1>3
<1>5. ByteLen(stringBuf) = Len(stringBuf)
  BY <1>1, <1>3, <1>4, SliceBytes
<1> QED
  BY <1>1, <1>2, <1>3, <1>4, <1>5

LEMMA TextHandedOut ==
    ASSUME SpanInv, mode = "InString", NEW kind \in AsValued, EmitText(kind, pos)
    PROVE  /\ stringBuf' = <<>>
           /\ \E t : /\ Placed(t) /\ tokens' = Append(tokens, t)
                     /\ t.start = Limit /\ t.end = pos
<1>1. /\ InText /\ Limit \in 0 .. Size /\ pos \in Limit .. Size
      /\ stringBuf = Slice(Limit, pos) /\ Limit = pos - ByteLen(stringBuf)
  BY BufferIsText
<1> DEFINE t == Token(kind, stringBuf, Limit, pos)
<1>2. Placed(t) /\ t.start = Limit /\ t.end = pos
  BY <1>1, PlacedAsValued
<1>3. tokens' = Append(tokens, t) /\ stringBuf' = <<>>
  BY <1>1 DEF EmitText, Emit
<1> HIDE DEF t
<1> QED
  BY <1>2, <1>3

\* A round that leaves the buffer empty behind what it hands out.
LEMMA EmptyBufferStep ==
    ASSUME SpanInv, IsSequence(tokens), text' = text,
           pos' \in 0 .. Size, stringBuf' = <<>>,
           mode' \in {"Normal", "InString", "InStringInterpolation"},
           pending' = <<>>, pendingDedents' = 0, mode' # "Normal" => OneByte,
           \/ tokens' = tokens /\ Limit <= pos'
           \/ \E t : /\ Placed(t) /\ tokens' = Append(tokens, t)
                     /\ Limit <= t.start /\ t.end <= pos'
    PROVE  SpanInv'
<1>1. pos' \in Nat /\ Len(<<>>) = 0 /\ Size \in Nat
  BY LimitIsOffset, EmptySeq
<1>2. pos' - Len(<<>>) = pos'
  <2>1. \A n \in Nat : n - 0 = n
    OBVIOUS
  <2> QED
    BY <1>1, <2>1
<1>3. Limit' = pos'
  BY <1>2 DEF Limit
<1>4. Buffered'
  <2>1. Slice(pos', pos') = <<>>
    BY SliceEmpty DEF SpanInv
  <2>2. Slice(pos, pos)' = <<>>
    BY <2>1 DEF Slice
  <2> QED
    BY <1>1, <1>2, <2>2 DEF Buffered
<1>5. HandsOut
  BY <1>3 DEF HandsOut
<1> QED
  BY <1>4, <1>5, SpanStep

LEMMA CharInText ==
    ASSUME InText, NEW p \in Nat, p < Size
    PROVE  Char(p) \in Range(text)
<1>1. p \in 0 .. Size
  BY TextFacts
<1>2. Char(p) = text[p + 1] /\ p + 1 \in 1 .. Size
  BY <1>1, TextFacts
<1>3. DOMAIN text = 1 .. Size
  BY LenProperties DEF InText, Size
<1> QED
  BY <1>2, <1>3 DEF Range

LEMMA OpenStringSpan ==
    ASSUME SpanInv, IsSequence(tokens), OpenString  PROVE SpanInv'
<1>1. Size \in Nat /\ pos \in 0 .. Size /\ Start \in pos .. Size /\ Start \in Nat /\ InText
  BY StartIsAhead
<1>2. Char(Start) # "end-of-text"
  BY Zenon DEF OpenString
<1>3. Start < Size
  BY <1>1, <1>2, BeforeEnd
<1>4. /\ text' = text /\ pos' = Start + 1 /\ mode = "Normal" /\ mode' = "InString"
      /\ stringBuf' = <<>> /\ tokens' = tokens /\ pending = <<>> /\ pending' = <<>>
      /\ pendingDedents' = 0
  BY Zenon DEF OpenString, InNormal, NothingQueued, EmitNothing
<1>5. Limit = pos /\ OneByte
  <2>1. ~Quoteless
    <3>1. Char(Start) \in Range(text)
      BY <1>1, <1>3, CharInText
    <3> QED
      BY <3>1, Zenon DEF OpenString, Quoteless
  <2> QED
    BY <1>4, <2>1 DEF Limit, SpanInv
<1>6. pos' \in 0 .. Size /\ Limit <= pos'
  BY <1>1, <1>3, <1>4, <1>5
<1> QED
  BY <1>4, <1>5, <1>6, EmptyBufferStep

LEMMA StringKindAsValued == StringKind \in AsValued /\ "strtext" \in AsValued
BY DEF StringKind, AsValued

LEMMA StringEndSpan ==
    ASSUME SpanInv, IsSequence(tokens), StringEnd  PROVE SpanInv'
<1>1. /\ text' = text /\ pos' = pos /\ mode = "InString" /\ mode' = "Normal"
      /\ pending' = <<>> /\ pendingDedents' = 0
      /\ \/ stringBuf = <<>> /\ tokens' = tokens /\ stringBuf' = stringBuf
         \/ EmitText(StringKind, pos)
  BY DEF StringEnd, InString, NothingQueued, EmitNothing
<1>2. Size \in Nat /\ pos \in 0 .. Size /\ pos \in Limit .. Size /\ Limit \in 0 .. Size
  BY <1>1, BufferIsText
<1>3. CASE EmitText(StringKind, pos)
  <2>1. /\ stringBuf' = <<>>
        /\ \E t : /\ Placed(t) /\ tokens' = Append(tokens, t)
                  /\ t.start = Limit /\ t.end = pos
    BY <1>1, <1>3, StringKindAsValued, TextHandedOut
  <2>2. pos' \in 0 .. Size /\ Limit <= Limit /\ pos <= pos'
    BY <1>1, <1>2
  <2>3. \E t : /\ Placed(t) /\ tokens' = Append(tokens, t)
               /\ Limit <= t.start /\ t.end <= pos'
    BY <2>1, <2>2
  <2> QED
    BY <1>1, <2>1, <2>2, <2>3, EmptyBufferStep
<1>4. CASE stringBuf = <<>> /\ tokens' = tokens /\ stringBuf' = stringBuf
  <2>1. pos' \in 0 .. Size /\ Limit <= pos'
    BY <1>1, <1>2
  <2> QED
    BY <1>1, <1>4, <2>1, EmptyBufferStep
<1> QED
  BY <1>1, <1>3, <1>4

LEMMA CloseStringSpan ==
    ASSUME SpanInv, IsSequence(tokens), CloseString  PROVE SpanInv'
<1>1. /\ text' = text /\ pos' = pos + 1 /\ mode = "InString" /\ mode' = "Normal"
      /\ pending' = <<>> /\ pendingDedents' = 0
      /\ \/ stringBuf = <<>> /\ tokens' = tokens /\ stringBuf' = stringBuf
         \/ EmitText(StringKind, pos)
  BY Zenon DEF CloseString, InString, NothingQueued, EmitNothing
<1>2. /\ InText /\ Size \in Nat /\ pos \in 0 .. Size /\ pos \in Nat
      /\ pos \in Limit .. Size /\ Limit \in 0 .. Size
  BY <1>1, BufferIsText
<1>3. pos < Size
  <2>1. Char(pos) # "end-of-text"
    BY Zenon DEF CloseString
  <2> QED
    BY <1>2, <2>1, BeforeEnd
<1>4. pos' \in 0 .. Size /\ Limit <= pos' /\ pos <= pos' /\ Limit <= Limit
  BY <1>1, <1>2, <1>3
<1>5. CASE EmitText(StringKind, pos)
  <2>1. /\ stringBuf' = <<>>
        /\ \E t : /\ Placed(t) /\ tokens' = Append(tokens, t)
                  /\ t.start = Limit /\ t.end = pos
    BY <1>1, <1>5, StringKindAsValued, TextHandedOut
  <2>2. \E t : /\ Placed(t) /\ tokens' = Append(tokens, t)
               /\ Limit <= t.start /\ t.end <= pos'
    BY <1>4, <2>1
  <2> QED
    BY <1>1, <1>4, <2>1, <2>2, EmptyBufferStep
<1>6. CASE stringBuf = <<>> /\ tokens' = tokens /\ stringBuf' = stringBuf
  BY <1>1, <1>4, <1>6, EmptyBufferStep
<1> QED
  BY <1>1, <1>5, <1>6

LEMMA FlushBeforeTagSpan ==
    ASSUME SpanInv, IsSequence(tokens), FlushBeforeTag  PROVE SpanInv'
<1>1. /\ text' = text /\ pos' = pos /\ mode = "InString" /\ mode' = "InString"
      /\ pending' = <<>> /\ pendingDedents' = 0 /\ EmitText("strtext", pos)
  BY DEF FlushBeforeTag, InString, NothingQueued
<1>2. Size \in Nat /\ pos \in 0 .. Size /\ pos \in Limit .. Size /\ Limit \in 0 .. Size
  BY <1>1, BufferIsText
<1>3. /\ stringBuf' = <<>>
      /\ \E t : /\ Placed(t) /\ tokens' = Append(tokens, t)
                /\ t.start = Limit /\ t.end = pos
  BY <1>1, StringKindAsValued, TextHandedOut
<1>4. pos' \in 0 .. Size /\ Limit <= Limit /\ pos <= pos'
  BY <1>1, <1>2
<1>5. \E t : /\ Placed(t) /\ tokens' = Append(tokens, t)
             /\ Limit <= t.start /\ t.end <= pos'
  BY <1>3, <1>4
<1> QED
  BY <1>1, <1>3, <1>4, <1>5, BufferIsText, EmptyBufferStep

LEMMA MiniMessageTagSpan ==
    ASSUME SpanInv, IsSequence(tokens), MiniMessageTag  PROVE SpanInv'
<1> DEFINE kind == IF Char(pos + 1) = "/" THEN "tagclose" ELSE "tagopen"
           value == Slice(TagName(pos), TagEnd(pos))
           t == Token(kind, value, pos, pos')
<1>1. /\ text' = text /\ pos' = TagEnd(pos) + 1 /\ mode = "InString" /\ mode' = "InString"
      /\ pending' = <<>> /\ pendingDedents' = 0 /\ IsTag(pos)
      /\ stringBuf = <<>> /\ stringBuf' = <<>>
  BY DEF MiniMessageTag, InString, NothingQueued
<1>2. tokens' = Append(tokens, t)
  BY DEF MiniMessageTag, Emit
<1>3. /\ InText /\ Size \in Nat /\ pos \in 0 .. Size /\ pos \in Nat
      /\ Limit \in 0 .. Size /\ pos \in Limit .. Size
  BY <1>1, BufferIsText
<1>4. pos < Size
  <2>1. Char(pos) # "end-of-text"
    BY <1>1 DEF IsTag, StartsTag
  <2> QED
    BY <1>3, <2>1, BeforeEnd
<1>5. pos' \in pos .. Size /\ Placed(t) /\ t.start = pos /\ t.end = pos'
  BY <1>1, <1>3, <1>4, PlacedTag
<1> HIDE DEF t
<1>6. pos' \in 0 .. Size /\ Limit <= t.start /\ t.end <= pos'
  BY <1>3, <1>5
<1> QED
  BY <1>1, <1>2, <1>5, <1>6, BufferIsText, EmptyBufferStep

LEMMA StringCharSpan ==
    ASSUME SpanInv, IsSequence(tokens), StringChar  PROVE SpanInv'
<1>1. /\ text' = text /\ pos' = pos + 1 /\ mode = "InString" /\ mode' = "InString"
      /\ pending' = <<>> /\ pendingDedents' = 0 /\ tokens' = tokens /\ pos < Size
      /\ stringBuf' = Append(stringBuf, Char(pos))
  BY Zenon DEF StringChar, InString, NothingQueued, EmitNothing
<1>2. /\ InText /\ Size \in Nat /\ pos \in 0 .. Size /\ pos \in Nat
      /\ Len(stringBuf) \in 0 .. pos /\ Limit = pos - Len(stringBuf)
      /\ Limit \in 0 .. Size /\ pos \in Limit .. Size /\ stringBuf = Slice(Limit, pos)
  BY <1>1, BufferIsText
<1>3. Slice(pos, pos + 1) = <<Char(pos)>> /\ Char(pos) \in STRING
  BY <1>1, <1>2, SliceOne
<1>4. stringBuf \in Seq(STRING)
  BY <1>2, SliceFacts
<1>5. /\ stringBuf' = stringBuf \o <<Char(pos)>>
      /\ Len(stringBuf') = Len(stringBuf) + 1
  BY <1>1, <1>3, <1>4, AppendIsConcat, AppendProperties
<1>6. pos + 1 \in pos .. Size
  BY <1>1, <1>2
<1>7. stringBuf' = Slice(Limit, pos + 1)
  BY <1>2, <1>3, <1>5, <1>6, SliceJoin
<1>8. Len(stringBuf') \in 0 .. pos' /\ pos' - Len(stringBuf') = Limit
  BY <1>1, <1>2, <1>5
<1>9. Buffered'
  <2>1. stringBuf' = Slice(pos' - Len(stringBuf'), pos')
    BY <1>1, <1>7, <1>8
  <2>2. stringBuf' = Slice(pos - Len(stringBuf), pos)'
    BY <1>1, <2>1 DEF Slice
  <2> QED
    BY <1>1, <1>8, <2>2 DEF Buffered
<1>10. Limit' = Limit
  BY <1>1, <1>8 DEF Limit
<1>11. HandsOut
  <2>1. Limit <= Limit
    BY <1>2
  <2>2. Limit <= Limit'
    BY <1>10, <2>1, Zenon
  <2> QED
    BY <1>1, <2>2 DEF HandsOut
<1>12. pos' \in 0 .. Size
  BY <1>1, <1>2
<1> QED
  BY <1>1, <1>9, <1>11, <1>12, BufferIsText, SpanStep

-----------------------------------------------------------------------------
(* The rounds that begin and end an interpolation, and those within one.   *)

LEMMA StartInterpolationSpan ==
    ASSUME SpanInv, IsSequence(tokens), StartInterpolation  PROVE SpanInv'
<1> DEFINE u == Token("interpstart", <<>>, pos, pos + 2)
<1>1. /\ text' = text /\ pos' = pos + 2 /\ mode = "InString"
      /\ mode' = "InStringInterpolation" /\ pending = <<>> /\ pendingDedents' = 0
      /\ StartsInterpolation(pos)
  BY DEF StartInterpolation, InString, NothingQueued
<1>2. /\ InText /\ Size \in Nat /\ pos \in 0 .. Size /\ pos \in Nat
      /\ Limit \in 0 .. Size /\ pos \in Limit .. Size
  BY <1>1, BufferIsText
<1>3. pos' \in 0 .. Size /\ pos + 2 \in pos .. Size
  BY <1>1, <1>2, InterpolationIsSkipped
<1>4. Placed(u) /\ u.start = pos /\ u.end = pos + 2
  <2>1. "interpstart" \in Unspelled
    BY DEF Unspelled
  <2> QED
    BY <1>2, <1>3, <2>1, PlacedUnspelled
<1>5. CASE stringBuf = <<>> /\ Emit("interpstart", <<>>, pos, pos + 2)
           /\ stringBuf' = stringBuf /\ pending' = pending
  <2>1. tokens' = Append(tokens, u)
    BY <1>5 DEF Emit
  <2> HIDE DEF u
  <2>2. Limit <= u.start /\ u.end <= pos'
    BY <1>1, <1>2, <1>4
  <2> QED
    BY <1>1, <1>3, <1>4, <1>5, <2>1, <2>2, BufferIsText, EmptyBufferStep
<1>6. CASE EmitText("strtext", pos) /\ pending' = <<u>>
  <2> HIDE DEF u
  <2>1. stringBuf' = <<>>
    BY <1>1, <1>6, StringKindAsValued, TextHandedOut
  <2>2. PICK t : /\ Placed(t) /\ tokens' = Append(tokens, t)
                 /\ t.start = Limit /\ t.end = pos
    BY <1>1, <1>6, StringKindAsValued, TextHandedOut
  <2>3. pending' # <<>> /\ pending'[1] = u
    BY <1>6
  <2>4. Limit' = pos
    BY <1>4, <2>3 DEF Limit
  <2>5. InPlace(tokens, Limit)'
    <3>1. Limit <= t.start /\ t.end <= Limit' /\ Limit' \in Nat
      BY <1>2, <2>2, <2>4
    <3> QED
      BY <1>1, <2>2, <3>1, TokenAdded
  <2>6. InText'
    BY <1>1, <1>2, <1>3, InTextStays
  <2>7. Buffered'
    BY <1>1, <2>1 DEF Buffered
  <2>8. Placed(pending[1])'
    <3>1. PICK v : v = u
      OBVIOUS
    <3>2. Placed(v) /\ pending'[1] = v
      BY <1>4, <2>3, <3>1
    <3> QED
      BY <1>1, <3>2 DEF Placed, Size, Slice, Spelling, Spelled
  <2>9. pending'[1].end <= pos'
    BY <1>1, <1>3, <1>4, <2>3
  <2> QED
    BY <1>1, <2>3, <2>5, <2>6, <2>7, <2>8, <2>9, BufferIsText, TextStays DEF SpanInv
<1> QED
  BY <1>1, <1>5, <1>6 DEF StartInterpolation

LEMMA TakePendingSpan ==
    ASSUME SpanInv, IsSequence(tokens), TakePending  PROVE SpanInv'
<1>1. /\ text' = text /\ pos' = pos /\ mode' = mode /\ pending # <<>> /\ pending' = <<>>
      /\ pendingDedents' = pendingDedents /\ stringBuf' = stringBuf
      /\ tokens' = Append(tokens, pending[1])
  BY DEF TakePending
<1>2. /\ mode = "InStringInterpolation" /\ stringBuf = <<>> /\ OneByte
      /\ Placed(pending[1]) /\ pending[1].end <= pos /\ Limit = pending[1].start
  BY <1>1 DEF SpanInv, Buffered, Limit
<1>3. Size \in Nat /\ pos \in 0 .. Size
  BY StartIsAhead
<1>4. Limit' = pos
  BY <1>1, <1>2 DEF Limit
<1>5. HandsOut
  <2>1. Limit <= pending[1].start
    BY <1>2, PlacedSpan
  <2> QED
    BY <1>1, <1>2, <1>4, <2>1 DEF HandsOut
<1>6. Buffered'
  BY <1>1, <1>2 DEF Buffered
<1>7. pendingDedents' # 0 => mode' = "Normal"
  BY <1>1 DEF SpanInv
<1> QED
  BY <1>1, <1>2, <1>3, <1>5, <1>6, <1>7, SpanStep

LEMMA EndInterpolationSpan ==
    ASSUME SpanInv, IsSequence(tokens), EndInterpolation  PROVE SpanInv'
<1> DEFINE u == Token("interpend", <<>>, Start, Start + 2)
<1>1. /\ text' = text /\ pos' = Start + 2 /\ mode = "InStringInterpolation"
      /\ mode' = "InString" /\ pending = <<>> /\ pending' = <<>> /\ pendingDedents' = 0
      /\ EndsInterpolation(Start) /\ stringBuf' = stringBuf
  BY DEF EndInterpolation, InInterpolation, NothingQueued, strings
<1>2. tokens' = Append(tokens, u)
  BY DEF EndInterpolation, Emit
<1>3. /\ InText /\ Size \in Nat /\ pos \in 0 .. Size /\ Start \in pos .. Size
      /\ Start \in 0 .. Size /\ Start \in Nat
  BY StartIsAhead
<1>4. stringBuf' = <<>> /\ Limit = pos /\ OneByte
  BY <1>1 DEF SpanInv, Buffered, Limit
<1>5. Start + 1 < Size
  <2>1. Char(Start + 1) # "end-of-text"
    BY <1>1, Zenon DEF EndsInterpolation
  <2> QED
    BY <1>3, <2>1, BeforeEnd
<1>6. Start + 2 \in Start .. Size /\ pos' \in 0 .. Size
  BY <1>1, <1>3, <1>5
<1>7. Placed(u) /\ u.start = Start /\ u.end = Start + 2
  <2>1. "interpend" \in Unspelled
    BY DEF Unspelled
  <2> QED
    BY <1>3, <1>6, <2>1, PlacedUnspelled
<1> HIDE DEF u
<1>8. Limit <= u.start /\ u.end <= pos'
  BY <1>1, <1>3, <1>4, <1>7
<1> QED
  BY <1>1, <1>2, <1>4, <1>6, <1>7, <1>8, EmptyBufferStep

LEMMA InterpolationBraceSpan ==
    ASSUME SpanInv, IsSequence(tokens), InterpolationBrace  PROVE SpanInv'
<1> DEFINE t == Token("brace", <<Char(Start)>>, Start, Start + 1)
<1>1. /\ text' = text /\ pos' = Start + 1 /\ mode = "InStringInterpolation"
      /\ mode' = mode /\ pending = <<>> /\ pending' = <<>> /\ pendingDedents' = 0
      /\ stringBuf' = stringBuf /\ tokens' = Append(tokens, t)
  BY Zenon DEF InterpolationBrace, InInterpolation, NothingQueued, Emit
<1>2. /\ InText /\ Size \in Nat /\ pos \in 0 .. Size /\ Start \in pos .. Size
      /\ Start \in 0 .. Size /\ Start \in Nat
  BY StartIsAhead
<1>3. Start < Size
  <2>1. Char(Start) # "end-of-text"
    BY Zenon DEF InterpolationBrace
  <2> QED
    BY <1>2, <2>1, BeforeEnd
<1>4. Start + 1 \in Start .. Size /\ pos' \in pos .. Size
  BY <1>1, <1>2, <1>3
<1>5. Placed(t) /\ t.start = Start /\ t.end = Start + 1
  <2>1. "brace" \in AsValued /\ <<Char(Start)>> = Slice(Start, Start + 1)
    BY <1>2, <1>3, SliceOne DEF AsValued
  <2> QED
    BY <1>2, <1>4, <2>1, PlacedAsValued
<1> HIDE DEF t
<1>6. pos <= t.start /\ t.end <= pos'
  BY <1>1, <1>2, <1>4, <1>5
<1> QED
  BY <1>1, <1>4, <1>5, <1>6, CodeStep

-----------------------------------------------------------------------------
\* Every round of next_token keeps the spans in place.
LEMMA SpanNext == LexerInv /\ SpanInv /\ [NextToken]_lexer => SpanInv'
<1> SUFFICES ASSUME LexerInv, SpanInv, [NextToken]_lexer  PROVE SpanInv'
  OBVIOUS
<1>1. IsSequence(tokens)
  BY DEF LexerInv
<1>2. CASE TakePending \/ TakeDedent \/ BlankLine \/ Indentation
  BY <1>1, <1>2, TakePendingSpan, TakeDedentSpan, BlankLineSpan, IndentationSpan
<1>3. CASE CodeEnd \/ Comment \/ Newline \/ ParseNumber \/ ParseWord
  BY <1>1, <1>3, CodeEndSpan, CommentSpan, NewlineSpan, ParseNumberSpan, ParseWordSpan
<1>4. CASE ParseVariable \/ Operator \/ Junk
  BY <1>1, <1>4, ParseVariableSpan, OperatorSpan, JunkSpan
<1>5. CASE OpenString \/ StringEnd \/ CloseString \/ StartInterpolation
  BY <1>1, <1>5, OpenStringSpan, StringEndSpan, CloseStringSpan, StartInterpolationSpan
<1>6. CASE FlushBeforeTag \/ MiniMessageTag \/ StringChar
  BY <1>1, <1>6, FlushBeforeTagSpan, MiniMessageTagSpan, StringCharSpan
<1>7. CASE EndInterpolation \/ InterpolationBrace
  BY <1>1, <1>7, EndInterpolationSpan, InterpolationBraceSpan
<1>8. CASE UNCHANGED lexer
  <2>1. /\ text' = text /\ pos' = pos /\ mode' = mode /\ tokens' = tokens
        /\ pendingDedents' = pendingDedents /\ stringBuf' = stringBuf /\ pending' = pending
    BY <1>8 DEF lexer, strings
  <2>2. Limit' = Limit /\ Limit \in Nat /\ Limit <= Limit
    BY <2>1, LimitIsOffset DEF Limit
  <2>3. InPlace(tokens, Limit)'
    BY <2>1, <2>2, TokensStay
  <2>4. InText' /\ Buffered'
    BY <2>1 DEF SpanInv, InText, Size, Buffered, Slice
  <2>5. pending # <<>> => Placed(pending[1])'
    BY <2>1 DEF SpanInv, Placed, Size, Slice, Spelling, Spelled
  <2> QED
    BY <2>1, <2>3, <2>4, <2>5, TextStays DEF SpanInv
<1> QED
  BY <1>2, <1>3, <1>4, <1>5, <1>6, <1>7, <1>8 DEF NextToken

LEMMA SpanInit == PlainStrings /\ Init => SpanInv
<1> SUFFICES ASSUME PlainStrings, Init  PROVE SpanInv
  OBVIOUS
<1>1. text \in Seq(STRING)
  BY LexerAssumption DEF Init
<1>0. OneByte \/ Quoteless
  BY Zenon DEF Init, PlainStrings, OneByte, Quoteless
<1>2. InText
  <2>1. Len(text) \in Nat /\ pos = 0
    BY <1>1, LenProperties DEF Init
  <2> QED
    BY <1>1, <2>1 DEF InText, Size
<1>3. mode = "Normal" /\ pending = <<>> /\ pendingDedents = 0 /\ tokens = <<>>
  BY DEF Init
<1>4. InPlace(tokens, Limit)
  <2>1. DOMAIN tokens = {}
    BY <1>3
  <2> QED
    BY <2>1 DEF InPlace
<1> QED
  BY <1>0, <1>2, <1>3, <1>4 DEF SpanInv, Buffered

\* The spans are in place in every text whose strings are of one-byte
\* characters.
THEOREM SpanInvariant == ASSUME PlainStrings PROVE LexerSpec => []SpanInv
<1>1. Init => SpanInv
  BY SpanInit
<1> QED
  BY <1>1, SpanNext, LexerInvariant, PTL DEF LexerSpec

\* Where strings are of one-byte characters every token is where its text is,
\* and they follow one another, through the token queued behind a flushed piece of a
\* string, unfinished strings and variables, and nested braces.
THEOREM SpansAreRight == ASSUME PlainStrings PROVE LexerSpec => []SpansAreTheText
<1>1. SpanInv => SpansAreTheText
  <2> SUFFICES ASSUME SpanInv, NEW i \in DOMAIN tokens
               PROVE  LET t == tokens[i] IN
                      /\ 0 <= t.start /\ t.start <= t.end /\ t.end <= Size
                      /\ i > 1 => tokens[i - 1].end <= t.start
                      /\ t.kind \in Spelled =>
                           Slice(t.start, t.end) \in {Spelling(t), <<"{">> \o t.value}
    BY Zenon DEF SpansAreTheText
  <2>1. /\ Placed(tokens[i])
        /\ i > 1 => tokens[i - 1].end <= tokens[i].start
    BY DEF SpanInv, InPlace
  <2>2. /\ tokens[i].start \in Nat /\ tokens[i].start <= tokens[i].end
        /\ tokens[i].end <= Size
    BY <2>1, PlacedSpan
  <2>3. \A n \in Nat : 0 <= n
    OBVIOUS
  <2> QED
    BY <2>1, <2>2, <2>3, Zenon DEF Placed
<1> QED
  BY <1>1, SpanInvariant, PTL
-----------------------------------------------------------------------------
(* How deep a line is.                                                     *)

\* Columns are counted.
LEMMA WidthType ==
    ASSUME NEW s \in Seq(STRING)
    PROVE  Width(s) \in Nat
<1> DEFINE n == Len(s)
           behind == [i \in 1 .. n |-> [w \in Nat |-> ColumnBehind(s[i], w)]]
           Fills(g) == g = [i \in 0 .. Len(s) |->
                              IF i = 0 THEN 0 ELSE ColumnBehind(s[i], g[i - 1])]
           F == CHOOSE g : Fills(g)
<1>1. n \in Nat
  BY LenProperties
<1>2. \A c : \A w \in Nat : ColumnBehind(c, w) \in Nat
  BY DEF ColumnBehind
<1>3. behind \in StepFunctions(n, Nat)
  BY <1>2 DEF StepFunctions
<1>4. PICK g : g \in Values(n, Nat, 0, behind)
  <2> HIDE DEF n, behind
  <2> QED
    BY <1>1, <1>3, Recursion
<1>5. /\ g \in [0 .. n -> Nat] /\ g[0] = 0
      /\ \A i \in 1 .. n : g[i] = behind[i][g[i - 1]]
  BY <1>4 DEF Values
<1>6. \A i \in 1 .. n : g[i] = ColumnBehind(s[i], g[i - 1])
  <2> SUFFICES ASSUME NEW i \in 1 .. n  PROVE g[i] = ColumnBehind(s[i], g[i - 1])
    OBVIOUS
  <2>1. i - 1 \in 0 .. n
    BY <1>1
  <2>2. g[i - 1] \in Nat
    BY <1>5, <2>1
  <2> QED
    BY <1>5, <2>2
<1>7. Fills(g)
  <2>1. ASSUME NEW i \in 0 .. n
        PROVE  g[i] = IF i = 0 THEN 0 ELSE ColumnBehind(s[i], g[i - 1])
    BY <1>1, <1>5, <1>6
  <2> QED
    BY <1>5, <2>1
<1>8. Fills(F)
  <2> HIDE DEF Fills
  <2> QED
    BY <1>7
<1>9. Width(s) = F[n]
  BY Zenon DEF Width
<1>10. /\ F[0] = 0
       /\ \A i \in 1 .. n : F[i] = ColumnBehind(s[i], F[i - 1])
  <2> HIDE DEF F
  <2> QED
    BY <1>1, <1>8
<1> DEFINE T == {k \in 0 .. n : F[k] \in Nat}
<1>11. 0 .. n \subseteq T
  <2> HIDE DEF F, n
  <2>1. 0 \in T
    BY <1>1, <1>10
  <2>2. \A k \in 1 .. n : k - 1 \in T => k \in T
    BY <1>1, <1>2, <1>10
  <2> HIDE DEF T
  <2> QED
    BY <1>1, <2>1, <2>2, Induction
<1>12. n \in T
  <2> HIDE DEF T, n
  <2> QED
    BY <1>1, <1>11
<1> QED
  BY <1>9, <1>12

\* What a line is: a place in the text, and a width.
LEMMA LineFacts ==
    ASSUME InText, NEW q \in Lines
    PROVE  /\ q \in 0 .. Size /\ q \in Nat /\ (q = 0 \/ Char(q - 1) \in LineEnds)
           /\ First(q) \in q .. Size /\ First(q) \in Nat
           /\ ~IsBlankLine(First(q)) /\ First(q) < Size
           /\ WidthOf(q) \in Nat
<1>1. q \in 0 .. Size /\ Size \in Nat
  BY TextFacts DEF Lines
<1>2. First(q) \in q .. Size
  BY <1>1, SkipFacts DEF First
<1>3. (q = 0 \/ Char(q - 1) \in LineEnds) /\ ~IsBlankLine(First(q))
  BY DEF Lines
<1>4. First(q) # Size
  BY <1>3 DEF IsBlankLine
<1>5. WidthOf(q) \in Nat
  <2>1. Slice(q, First(q)) \in Seq(STRING)
    BY <1>1, <1>2, SliceFacts
  <2> QED
    BY <2>1, WidthType DEF WidthOf
<1> QED
  BY <1>1, <1>2, <1>3, <1>4, <1>5

LEMMA LinesAreNumbers ==
    ASSUME InText
    PROVE  /\ Lines \subseteq Nat
           /\ \A q \in Lines : WidthOf(q) \in Nat /\ Around(Lines, q) \subseteq Lines
           /\ \A q \in Lines : \A k \in Around(Lines, q) : k < q /\ WidthOf(k) < WidthOf(q)
           /\ \A q \in Lines : /\ IsFiniteSet(Around(Lines, q))
                               /\ Cardinality(Around(Lines, q)) \in Nat
<1>1. \A q \in Lines : q \in Nat /\ WidthOf(q) \in Nat
  BY LineFacts
<1>2. \A q \in Lines : Around(Lines, q) \subseteq Lines
  BY DEF Around
<1>3. \A q \in Lines : \A k \in Around(Lines, q) : k < q /\ WidthOf(k) < WidthOf(q)
  BY <1>1 DEF Around
<1>4. \A q \in Lines : IsFiniteSet(Around(Lines, q)) /\ Cardinality(Around(Lines, q)) \in Nat
  <2> SUFFICES ASSUME NEW q \in Lines
               PROVE  IsFiniteSet(Around(Lines, q)) /\ Cardinality(Around(Lines, q)) \in Nat
    OBVIOUS
  <2>1. Around(Lines, q) \in SUBSET (0 .. q)
    BY <1>1, <1>2, <1>3
  <2>2. IsFiniteSet(0 .. q)
    BY <1>1, FS_Interval
  <2>3. IsFiniteSet(Around(Lines, q))
    BY <2>1, <2>2, FS_Subset
  <2> QED
    BY <2>3, FS_CardinalityType
<1> QED
  BY <1>1, <1>2, <1>3, <1>4

\* Line l is the last one before line m.
Adjacent(l, m) == l \in Lines /\ m \in Lines /\ l < m /\ \A q \in Lines : ~(l < q /\ q < m)

\* Around a line are those of the lines around the line before it, and of that
\* line itself, that are narrower.
LEMMA AroundNext ==
    ASSUME InText, NEW l, NEW m, Adjacent(l, m)
    PROVE  Around(Lines, m) =
             {k \in Around(Lines, l) \cup {l} : WidthOf(k) < WidthOf(m)}
<1>1. Lines \subseteq Nat /\ \A q \in Lines : WidthOf(q) \in Nat
  BY LinesAreNumbers
<1>2. l \in Lines /\ m \in Lines /\ l < m /\ \A q \in Lines : q < m => q <= l
  BY <1>1 DEF Adjacent
<1>3. ASSUME NEW k \in Around(Lines, m)
      PROVE  k \in Around(Lines, l) \cup {l} /\ WidthOf(k) < WidthOf(m)
  BY <1>1, <1>2 DEF Around
<1>4. ASSUME NEW k \in Around(Lines, l) \cup {l}, WidthOf(k) < WidthOf(m)
      PROVE  k \in Around(Lines, m)
  <2>1. k \in Lines /\ k < m
    BY <1>1, <1>2 DEF Around
  <2>2. ASSUME NEW q \in Lines, k < q, q <= m  PROVE WidthOf(q) > WidthOf(k)
    <3>1. CASE q = m
      BY <1>1, <1>4, <2>1, <3>1
    <3>2. CASE q # m
      <4>1. q <= l
        BY <1>1, <1>2, <2>2, <3>2
      <4> QED
        BY <1>1, <1>2, <2>1, <2>2, <4>1 DEF Around
    <3> QED
      BY <3>1, <3>2
  <2> QED
    BY <2>1, <2>2 DEF Around
<1> QED
  BY <1>3, <1>4

\* The lines around one that is itself around a line l, or that is l: those
\* around l that are narrower.
LEMMA AroundInner ==
    ASSUME InText, NEW l \in Lines, NEW j \in Around(Lines, l) \cup {l}
    PROVE  Around(Lines, j) = {k \in Around(Lines, l) \cup {l} : WidthOf(k) < WidthOf(j)}
<1>1. /\ Lines \subseteq Nat /\ \A q \in Lines : WidthOf(q) \in Nat
      /\ Around(Lines, l) \subseteq Lines
      /\ \A k \in Around(Lines, l) : k < l
      /\ j \in Lines /\ j <= l
  BY LinesAreNumbers
<1>2. ASSUME NEW k \in Around(Lines, j)
      PROVE  k \in Around(Lines, l) \cup {l} /\ WidthOf(k) < WidthOf(j)
  <2>1. k \in Lines /\ k < j /\ \A q \in Lines : k < q /\ q <= j => WidthOf(q) > WidthOf(k)
    BY DEF Around
  <2>2. WidthOf(k) < WidthOf(j)
    BY <1>1, <2>1
  <2>3. \A q \in Lines : j < q /\ q <= l => WidthOf(q) > WidthOf(j)
    BY <1>1 DEF Around
  <2>4. ASSUME NEW q \in Lines, k < q, q <= l  PROVE WidthOf(q) > WidthOf(k)
    BY <1>1, <2>1, <2>2, <2>3, <2>4
  <2>5. k < l
    BY <1>1, <2>1
  <2> QED
    BY <2>1, <2>2, <2>4, <2>5 DEF Around
<1>3. ASSUME NEW k \in Around(Lines, l) \cup {l}, WidthOf(k) < WidthOf(j)
      PROVE  k \in Around(Lines, j)
  <2>1. k \in Lines /\ \A q \in Lines : k < q /\ q <= l => WidthOf(q) > WidthOf(k)
    BY <1>1 DEF Around
  <2>2. k < j
    <3>1. ~(j < k)
      <4> SUFFICES ASSUME j < k  PROVE FALSE
        OBVIOUS
      <4>1. k \in Around(Lines, l) \cup {l} /\ k <= l /\ j # l
        BY <1>1, <2>1
      <4>2. WidthOf(k) > WidthOf(j)
        BY <1>1, <2>1, <4>1 DEF Around
      <4> QED
        BY <1>1, <1>3, <2>1, <4>2
    <3>2. j # k
      BY <1>1, <1>3
    <3> QED
      BY <1>1, <2>1, <3>1, <3>2
  <2> QED
    BY <1>1, <2>1, <2>2 DEF Around
<1> QED
  BY <1>2, <1>3

-----------------------------------------------------------------------------
(* The stack of widths.                                                    *)

\* How many lines are around line k.
Inside(k) == Cardinality(Around(Lines, k))

\* The stack that line l leaves: the widths of the lines around it and its own,
\* each as far up as there are lines around that one.
StackOf(stack, l) ==
    /\ l \in Lines
    /\ stack \in Seq(Nat) /\ Len(stack) = Inside(l) + 1
    /\ \A i, j \in 1 .. Len(stack) : i < j => stack[i] < stack[j]
    /\ \A k \in Around(Lines, l) \cup {l} :
         Inside(k) + 1 \in 1 .. Len(stack) /\ stack[Inside(k) + 1] = WidthOf(k)

LEMMA StackFacts ==
    ASSUME InText, NEW l, NEW stack, StackOf(stack, l)
    PROVE  /\ stack \in Seq(Nat) /\ Len(stack) \in Nat /\ DOMAIN stack = 1 .. Len(stack)
           /\ Len(stack) > 0 /\ stack # <<>> /\ Last(stack) = WidthOf(l)
           /\ Inside(l) \in Nat /\ WidthOf(l) \in Nat
           /\ \A i \in 1 .. Len(stack) : stack[i] \in Nat
<1>1. l \in Lines /\ stack \in Seq(Nat) /\ Len(stack) = Inside(l) + 1
      /\ stack[Inside(l) + 1] = WidthOf(l)
  BY DEF StackOf
<1>2. Inside(l) \in Nat /\ WidthOf(l) \in Nat
  BY <1>1, LinesAreNumbers DEF Inside
<1>3. Len(stack) \in Nat /\ DOMAIN stack = 1 .. Len(stack)
      /\ \A i \in 1 .. Len(stack) : stack[i] \in Nat
  BY <1>1, LenProperties, ElementOfSeq
<1>4. Len(stack) > 0
  BY <1>1, <1>2
<1>5. stack # <<>>
  BY <1>3, <1>4, NotEmpty
<1>6. Last(stack) = WidthOf(l)
  BY <1>1 DEF Last
<1> QED
  BY <1>1, <1>2, <1>3, <1>4, <1>5, <1>6

\* The first line of the text.
LEMMA StackFirst ==
    ASSUME InText, NEW l \in Lines, \A q \in Lines : ~(q < l)
    PROVE  StackOf(<<WidthOf(l)>>, l)
<1>1. Around(Lines, l) = {}
  BY DEF Around
<1>2. Inside(l) = 0
  BY <1>1, FS_EmptySet DEF Inside
<1>3. WidthOf(l) \in Nat
  BY LinesAreNumbers
<1> DEFINE stack == <<WidthOf(l)>>
<1>4. stack \in Seq(Nat) /\ Len(stack) = 1 /\ stack[1] = WidthOf(l)
  BY <1>3
<1> HIDE DEF stack
<1>5. \A k \in Around(Lines, l) \cup {l} :
        Inside(k) + 1 \in 1 .. Len(stack) /\ stack[Inside(k) + 1] = WidthOf(k)
  BY <1>1, <1>2, <1>4
<1>6. \A i, j \in 1 .. Len(stack) : ~(i < j)
  BY <1>4
<1>7. StackOf(stack, l)
  BY <1>2, <1>4, <1>5, <1>6 DEF StackOf
<1> QED
  BY <1>7 DEF stack

\* A line wider than the one before it is inside of that one too.
LEMMA StackDeeper ==
    ASSUME InText, NEW l, NEW m, Adjacent(l, m), NEW stack, StackOf(stack, l),
           WidthOf(m) > Last(stack)
    PROVE  StackOf(Append(stack, WidthOf(m)), m)
<1> DEFINE deeper == Append(stack, WidthOf(m))
<1>1. /\ stack \in Seq(Nat) /\ Len(stack) \in Nat /\ Last(stack) = WidthOf(l)
      /\ Inside(l) \in Nat /\ WidthOf(l) \in Nat
      /\ \A i \in 1 .. Len(stack) : stack[i] \in Nat
  BY StackFacts
<1>2. l \in Lines /\ m \in Lines /\ WidthOf(m) \in Nat /\ l < m
  BY LinesAreNumbers DEF Adjacent
<1>3. \A k \in Around(Lines, l) : WidthOf(k) \in Nat /\ WidthOf(k) < WidthOf(l) /\ k < l
  BY <1>2, LinesAreNumbers
<1>4. Around(Lines, m) = Around(Lines, l) \cup {l}
  <2>1. \A k \in Around(Lines, l) \cup {l} : WidthOf(k) < WidthOf(m)
    BY <1>1, <1>2, <1>3
  <2> QED
    BY <2>1, AroundNext
<1>5. Inside(m) = Inside(l) + 1
  <2>1. IsFiniteSet(Around(Lines, l)) /\ l \notin Around(Lines, l)
    BY <1>2, <1>3, LinesAreNumbers
  <2> QED
    BY <1>4, <2>1, FS_AddElement DEF Inside
<1>6. /\ deeper \in Seq(Nat) /\ Len(deeper) = Len(stack) + 1
      /\ \A i \in 1 .. Len(stack) : deeper[i] = stack[i]
      /\ deeper[Len(stack) + 1] = WidthOf(m)
  BY <1>1, <1>2
<1> HIDE DEF deeper
<1>7. /\ Len(stack) = Inside(l) + 1 /\ stack[Len(stack)] = WidthOf(l)
      /\ \A i, j \in 1 .. Len(stack) : i < j => stack[i] < stack[j]
      /\ \A k \in Around(Lines, l) \cup {l} :
           Inside(k) + 1 \in 1 .. Len(stack) /\ stack[Inside(k) + 1] = WidthOf(k)
  BY DEF StackOf
<1>8. \A i \in 1 .. Len(stack) : stack[i] < WidthOf(m)
  <2>1. \A i \in 1 .. Len(stack) : stack[i] <= WidthOf(l)
    BY <1>1, <1>7
  <2> QED
    BY <1>1, <1>2, <2>1
<1>9. \A i, j \in 1 .. Len(deeper) : i < j => deeper[i] < deeper[j]
  <2> SUFFICES ASSUME NEW i \in 1 .. Len(deeper), NEW j \in 1 .. Len(deeper), i < j
               PROVE  deeper[i] < deeper[j]
    OBVIOUS
  <2>1. i \in 1 .. Len(stack)
    BY <1>1, <1>6
  <2>2. CASE j \in 1 .. Len(stack)
    BY <1>6, <1>7, <2>1, <2>2
  <2>3. CASE j = Len(stack) + 1
    BY <1>6, <1>8, <2>1, <2>3
  <2>4. j \in 1 .. Len(stack) \/ j = Len(stack) + 1
    <3>1. \A n \in Nat : \A x \in 1 .. (n + 1) : x \in 1 .. n \/ x = n + 1
      OBVIOUS
    <3>2. Len(stack) \in Nat /\ j \in 1 .. (Len(stack) + 1)
      BY <1>1, <1>6
    <3> QED
      BY <3>1, <3>2
  <2> QED
    BY <2>2, <2>3, <2>4
<1>10. \A k \in Around(Lines, m) \cup {m} :
         Inside(k) + 1 \in 1 .. Len(deeper) /\ deeper[Inside(k) + 1] = WidthOf(k)
  <2> SUFFICES ASSUME NEW k \in Around(Lines, m) \cup {m}
               PROVE  Inside(k) + 1 \in 1 .. Len(deeper) /\ deeper[Inside(k) + 1] = WidthOf(k)
    OBVIOUS
  <2>1. CASE k = m
    <3>1. Inside(k) + 1 = Len(stack) + 1
      BY <1>1, <1>5, <1>7, <2>1
    <3> QED
      BY <1>1, <1>6, <2>1, <3>1
  <2>2. CASE k \in Around(Lines, l) \cup {l}
    <3> DEFINE i == Inside(k) + 1
    <3>1. i \in 1 .. Len(stack) /\ stack[i] = WidthOf(k)
      BY <1>7, <2>2
    <3> HIDE DEF i
    <3>2. i \in 1 .. Len(deeper) /\ deeper[i] = WidthOf(k)
      BY <1>1, <1>6, <3>1
    <3> QED
      BY <3>2 DEF i
  <2> QED
    BY <1>4, <2>1, <2>2
<1>11. Len(deeper) = Inside(m) + 1
  BY <1>1, <1>5, <1>6, <1>7
<1>12. StackOf(deeper, m)
  BY <1>2, <1>6, <1>9, <1>10, <1>11 DEF StackOf
<1> QED
  BY <1>12 DEF deeper

\* How many entries of a stack are no wider than the entry at index n.
LEMMA NoWider ==
    ASSUME NEW stack \in Seq(Nat), NEW n \in 1 .. Len(stack),
           \A i, j \in 1 .. Len(stack) : i < j => stack[i] < stack[j]
    PROVE  Cardinality({i \in DOMAIN stack : i = 1 \/ stack[i] <= stack[n]}) = n
<1>1. Len(stack) \in Nat /\ DOMAIN stack = 1 .. Len(stack)
      /\ \A i \in 1 .. Len(stack) : stack[i] \in Nat
  BY LenProperties, ElementOfSeq
<1>2. {i \in DOMAIN stack : i = 1 \/ stack[i] <= stack[n]} = 1 .. n
  <2>1. ASSUME NEW i \in 1 .. Len(stack), i = 1 \/ stack[i] <= stack[n]  PROVE i <= n
    BY <1>1, <2>1
  <2>2. ASSUME NEW i \in 1 .. n  PROVE i \in 1 .. Len(stack) /\ (i = 1 \/ stack[i] <= stack[n])
    BY <1>1, <2>2
  <2> QED
    BY <1>1, <2>1, <2>2
<1>3. Cardinality(1 .. n) = n
  <2>1. n \in Nat /\ 1 \in Int /\ n \in Int /\ ~(1 > n)
    BY <1>1
  <2>2. Cardinality(1 .. n) = n - 1 + 1
    BY <2>1, FS_Interval
  <2> QED
    BY <2>1, <2>2
<1> QED
  BY <1>2, <1>3

\* A line no wider than the one before it returns to the width of a line
\* around that one, or to that one's own.
LEMMA StackShallower ==
    ASSUME InText, Aligned(Lines), NEW l, NEW m, Adjacent(l, m), NEW stack, StackOf(stack, l),
           WidthOf(m) <= Last(stack),
           NEW kept, kept = Cardinality({i \in DOMAIN stack : i = 1 \/ stack[i] <= WidthOf(m)})
    PROVE  StackOf(SubSeq(stack, 1, kept), m)
<1>1. /\ stack \in Seq(Nat) /\ Len(stack) \in Nat /\ Last(stack) = WidthOf(l)
      /\ Inside(l) \in Nat /\ WidthOf(l) \in Nat
      /\ \A i \in 1 .. Len(stack) : stack[i] \in Nat
  BY StackFacts
<1>2. l \in Lines /\ m \in Lines /\ WidthOf(m) \in Nat /\ l < m
      /\ ~\E q \in Lines : l < q /\ q < m
  BY LinesAreNumbers DEF Adjacent
<1>3. /\ Len(stack) = Inside(l) + 1 /\ stack[Len(stack)] = WidthOf(l)
      /\ \A i, j \in 1 .. Len(stack) : i < j => stack[i] < stack[j]
      /\ \A k \in Around(Lines, l) \cup {l} :
           Inside(k) + 1 \in 1 .. Len(stack) /\ stack[Inside(k) + 1] = WidthOf(k)
  BY DEF StackOf
<1>4. PICK k \in Around(Lines, l) \cup {l} : WidthOf(k) = WidthOf(m)
  <2>1. CASE WidthOf(m) = WidthOf(l)
    BY <2>1
  <2>2. CASE WidthOf(m) < WidthOf(l)
    <3>1. \E k \in Around(Lines, l) : WidthOf(k) = WidthOf(m)
      BY <1>2, <2>2 DEF Aligned
    <3> QED
      BY <3>1
  <2> QED
    BY <1>1, <1>2, <2>1, <2>2
<1> DEFINE n == Inside(k) + 1
<1>5. n \in 1 .. Len(stack) /\ stack[n] = WidthOf(m)
  BY <1>3, <1>4
<1>6. kept = n
  <2> HIDE DEF n
  <2> QED
    BY <1>1, <1>3, <1>5, NoWider
<1>7. Around(Lines, m) = Around(Lines, k)
  BY <1>2, <1>4, AroundNext, AroundInner
<1>8. Inside(m) + 1 = n
  BY <1>7 DEF Inside
<1>9. Around(Lines, m) = {j \in Around(Lines, l) \cup {l} : WidthOf(j) < WidthOf(m)}
  BY AroundNext
<1> HIDE DEF n
<1> DEFINE left == SubSeq(stack, 1, n)
<1>10. /\ left \in Seq(Nat) /\ Len(left) = n
       /\ \A i \in 1 .. n : left[i] = stack[i]
  <2>1. n - 1 + 1 = n /\ 1 \in 1 .. (Len(stack) + 1) /\ n \in (1 - 1) .. Len(stack)
    BY <1>1, <1>5
  <2>2. /\ left \in Seq(Nat) /\ Len(left) = n - 1 + 1
        /\ \A i \in 1 .. (n - 1 + 1) : left[i] = stack[1 + i - 1]
    BY <1>1, <2>1, Part
  <2>3. \A i \in 1 .. n : 1 + i - 1 = i
    BY <1>1, <1>5
  <2> QED
    BY <2>1, <2>2, <2>3
<1> HIDE DEF left
<1>11. \A j \in Around(Lines, m) \cup {m} :
         Inside(j) + 1 \in 1 .. Len(left) /\ left[Inside(j) + 1] = WidthOf(j)
  <2> SUFFICES ASSUME NEW j \in Around(Lines, m) \cup {m}
               PROVE  Inside(j) + 1 \in 1 .. Len(left) /\ left[Inside(j) + 1] = WidthOf(j)
    OBVIOUS
  <2>1. CASE j = m
    <3>1. n \in 1 .. n
      BY <1>1, <1>5
    <3> QED
      BY <1>5, <1>8, <1>10, <2>1, <3>1
  <2>2. CASE j \in Around(Lines, m)
    <3> DEFINE i == Inside(j) + 1
    <3>1. j \in Around(Lines, l) \cup {l} /\ WidthOf(j) < WidthOf(m)
      BY <1>9, <2>2
    <3>2. i \in 1 .. Len(stack) /\ stack[i] = WidthOf(j)
      BY <1>3, <3>1
    <3> HIDE DEF i
    <3>3. stack[i] < stack[n]
      BY <1>5, <3>1, <3>2
    <3>4. i \in 1 .. n
      BY <1>1, <1>3, <1>5, <3>2, <3>3
    <3>5. i \in 1 .. Len(left) /\ left[i] = WidthOf(j)
      BY <1>10, <3>2, <3>4
    <3> QED
      BY <3>5 DEF i
  <2> QED
    BY <2>1, <2>2
<1>12. \A i, j \in 1 .. Len(left) : i < j => left[i] < left[j]
  <2>1. \A i \in 1 .. Len(left) : i \in 1 .. Len(stack)
    BY <1>1, <1>5, <1>10
  <2> QED
    BY <1>3, <1>10, <2>1
<1>13. StackOf(left, m)
  BY <1>2, <1>8, <1>10, <1>11, <1>12 DEF StackOf
<1> QED
  BY <1>6, <1>13 DEF left

-----------------------------------------------------------------------------
(* The reader on a line.                                                   *)

Breaks(r) == Char(r) \in LineEnds
NoBreak(p, q) == \A r \in p .. q - 1 : ~Breaks(r)

\* What is skipped is of the set; what stops the skipping is not.
LEMMA Skipped ==
    ASSUME InText, NEW p \in 0 .. Size, NEW S
    PROVE  /\ \A r \in p .. SkipWhile(p, S) - 1 : Char(r) \in S
           /\ SkipWhile(p, S) = Size \/ Char(SkipWhile(p, S)) \notin S
<1> DEFINE Q == {q \in p .. Size : q = Size \/ Char(q) \notin S}
<1>1. Size \in Nat
  BY TextFacts
<1>2. Q \in SUBSET Nat /\ Size \in Q
  BY <1>1
<1>3. SkipWhile(p, S) = Min(Q)
  BY DEF SkipWhile
<1>4. Min(Q) \in Q /\ \A x \in Q : Min(Q) <= x
  <2> HIDE DEF Q
  <2> QED
    BY <1>2, LeastIsMin
<1> DEFINE e == Min(Q)
<1>5. e \in Q /\ e \in p .. Size /\ e \in Nat
  BY <1>1, <1>4
<1>6. \A x \in Q : e <= x
  BY <1>4
<1> HIDE DEF e
<1>7. ASSUME NEW r \in p .. e - 1  PROVE Char(r) \in S
  <2>1. r \notin Q
    BY <1>5, <1>6
  <2>2. r \in p .. Size /\ r # Size
    BY <1>1, <1>5
  <2> QED
    BY <2>1, <2>2
<1>8. e = Size \/ Char(e) \notin S
  BY <1>5
<1> QED
  BY <1>3, <1>7, <1>8 DEF e

\* Blanks break no line.
LEMMA BlanksBreakNot == \A r : Char(r) \in Blanks => ~Breaks(r)
BY Zenon DEF Blanks, Breaks, LineEnds

LEMMA BreakIsThere ==
    ASSUME InText, NEW r \in Nat, Breaks(r)
    PROVE  r < Size
<1>1. Char(r) # "end-of-text"
  BY Zenon DEF Breaks, LineEnds
<1> QED
  BY <1>1, BeforeEnd

\* From one line to a later one the text breaks.
LEMMA LaterLine ==
    ASSUME InText, NEW l \in Lines, NEW q \in Lines, q > l,
           NEW p \in Nat, NoBreak(First(l), p)
    PROVE  q > p
<1>1. /\ l \in 0 .. Size /\ l \in Nat /\ First(l) \in l .. Size /\ First(l) \in Nat
      /\ Size \in Nat
  BY LineFacts, TextFacts
<1>2. q \in Nat /\ Breaks(q - 1)
  <2>1. q \in Nat /\ (q = 0 \/ Char(q - 1) \in LineEnds)
    BY LineFacts
  <2> QED
    BY <1>1, <2>1 DEF Breaks
<1>3. \A r \in l .. First(l) - 1 : ~Breaks(r)
  <2>1. \A r \in l .. First(l) - 1 : Char(r) \in Blanks
    BY <1>1, Skipped DEF First
  <2> QED
    BY <2>1, BlanksBreakNot
<1>4. q - 1 \in Nat /\ q - 1 >= l
  BY <1>1, <1>2
<1>5. ~(q - 1 < First(l))
  BY <1>1, <1>2, <1>3, <1>4
<1>6. ~(q - 1 < p)
  BY <1>1, <1>2, <1>4, <1>5 DEF NoBreak
<1> QED
  BY <1>2, <1>6

\* Only a line's own first lexeme is at its place.
LEMMA LineIsAt ==
    ASSUME InText, NEW l \in Lines, NEW q \in Lines,
           First(l) <= First(q), NoBreak(First(l), First(q))
    PROVE  q = l
<1>1. /\ l \in Nat /\ First(l) \in Nat /\ l <= First(l)
      /\ q \in Nat /\ First(q) \in Nat /\ q <= First(q)
  BY LineFacts, TextFacts
<1>2. ~(q > l)
  BY <1>1, LaterLine
<1>3. NoBreak(First(q), First(q))
  BY <1>1 DEF NoBreak
<1>4. ~(l > q)
  BY <1>1, <1>3, LaterLine
<1> QED
  BY <1>1, <1>2, <1>4

\* Behind a line break: no line begins within it.
LEMMA BehindBreak ==
    ASSUME InText, NEW e \in Nat, Breaks(e)
    PROVE  /\ SkipNewline(e) \in Nat /\ SkipNewline(e) > e /\ SkipNewline(e) <= Size
           /\ Breaks(SkipNewline(e) - 1)
           /\ \A q \in Lines : q > e => q >= SkipNewline(e)
<1>1. e < Size /\ Size \in Nat /\ e \in 0 .. Size
  BY BreakIsThere, TextFacts
<1>2. Char(e) \in LineEnds
  BY DEF Breaks
<1>3. SkipNewline(e) = e + 1 \/ (SkipNewline(e) = e + 2 /\ Char(e + 1) = "\n")
  BY <1>2, Zenon DEF SkipNewline
<1>4. SkipNewline(e) \in e .. Size
  BY <1>1, SkipFacts
<1>5. CASE SkipNewline(e) = e + 1
  <2>1. \A q \in Lines : q > e => q >= e + 1
    <3>1. \A q \in Lines : q \in Nat
      BY LineFacts
    <3> QED
      BY <3>1
  <2>2. (e + 1) - 1 = e
    OBVIOUS
  <2> QED
    BY <1>1, <1>5, <2>1, <2>2
<1>6. CASE SkipNewline(e) = e + 2 /\ Char(e + 1) = "\n"
  <2>1. Breaks(e + 1)
    BY <1>6, Zenon DEF Breaks, LineEnds
  <2>2. e + 1 \notin Lines
    <3> DEFINE q == e + 1
    <3> SUFFICES ASSUME q \in Lines  PROVE FALSE
      OBVIOUS
    <3>1. q \in 0 .. Size /\ First(q) \in q .. Size /\ ~IsBlankLine(First(q)) /\ q \in Nat
      BY LineFacts
    <3>2. First(q) # q
      BY <2>1, <3>1, Zenon DEF IsBlankLine, Breaks
    <3>3. \A r \in q .. First(q) - 1 : Char(r) \in Blanks
      <4> HIDE DEF q
      <4> QED
        BY <3>1, Skipped DEF First
    <3>4. q \in q .. First(q) - 1
      <4> HIDE DEF q
      <4> QED
        BY <3>1, <3>2
    <3> QED
      BY <2>1, <3>3, <3>4, BlanksBreakNot
  <2>3. \A q \in Lines : q > e => q >= e + 2
    <3>1. \A q \in Lines : q \in Nat
      BY LineFacts
    <3> QED
      BY <2>2, <3>1
  <2>4. (e + 2) - 1 = e + 1 /\ e + 2 \in Nat /\ e + 2 > e
    OBVIOUS
  <2>5. SkipNewline(e) = e + 2
    BY <1>6
  <2> QED
    BY <1>1, <1>4, <2>1, <2>3, <2>4, <2>5
<1> QED
  BY <1>3, <1>5, <1>6

-----------------------------------------------------------------------------
(* The depth of the tokens.                                                *)

\* The tokens that are no lexeme of a line.
Passive == {"newline", "indent", "dedent", "eof"}
DepthIn(s, i) == Cardinality({j \in 1 .. i : s[j].kind = "indent"})
                   - Cardinality({j \in 1 .. i : s[j].kind = "dedent"})
\* The first token of a line is as deep as there are lines around it.
Deep(s) == \A t \in 1 .. Len(s) : \A q \in Lines :
             s[t].start = First(q) /\ s[t].kind \notin Passive
               => DepthIn(s, t - 1) = Inside(q)

LEMMA DeepAppend ==
    ASSUME NEW s, IsSequence(s), Deep(s), NEW e,
           \A q \in Lines : e.start = First(q) /\ e.kind \notin Passive
                              => DepthIn(s, Len(s)) = Inside(q)
    PROVE  Deep(Append(s, e))
<1> DEFINE n == Len(s)
           more == Append(s, e)
<1>1. /\ n \in Nat /\ Len(more) = n + 1
      /\ \A i \in 1 .. n : more[i] = s[i]
      /\ more[n + 1] = e
  BY AppendLast
<1>2. \A q \in Lines : e.start = First(q) /\ e.kind \notin Passive => DepthIn(s, n) = Inside(q)
  OBVIOUS
<1>3. \A t \in 1 .. n : \A q \in Lines :
        s[t].start = First(q) /\ s[t].kind \notin Passive => DepthIn(s, t - 1) = Inside(q)
  BY DEF Deep
<1> HIDE DEF n, more
<1>4. ASSUME NEW i \in 0 .. n  PROVE DepthIn(more, i) = DepthIn(s, i)
  <2>1. \A j \in 1 .. i : more[j] = s[j]
    BY <1>1
  <2>2. \A kind : {j \in 1 .. i : more[j].kind = kind} = {j \in 1 .. i : s[j].kind = kind}
    BY <2>1
  <2> QED
    BY <2>2 DEF DepthIn
<1>5. ASSUME NEW t \in 1 .. n + 1, NEW q \in Lines,
             more[t].start = First(q), more[t].kind \notin Passive
      PROVE  DepthIn(more, t - 1) = Inside(q)
  <2>1. t - 1 \in 0 .. n /\ DepthIn(more, t - 1) = DepthIn(s, t - 1)
    BY <1>1, <1>4
  <2>2. CASE t \in 1 .. n
    BY <1>1, <1>3, <1>5, <2>1, <2>2
  <2>3. CASE t = n + 1
    <3>1. t - 1 = n
      BY <1>1, <2>3
    <3> QED
      BY <1>1, <1>2, <1>5, <2>1, <2>3, <3>1
  <2>4. t \in 1 .. n \/ t = n + 1
    BY <1>1
  <2> QED
    BY <2>2, <2>3, <2>4
<1>6. Deep(more)
  BY <1>1, <1>5 DEF Deep
<1> QED
  BY <1>6 DEF more

\* How deep the next token would be.
LEMMA DepthOfNext ==
    ASSUME LexerInv, pendingDedents = 0
    PROVE  DepthIn(tokens, Len(tokens)) = OpenBlocks
<1>1. IsSequence(tokens) /\ Count("indent") = Count("dedent") + OpenBlocks + pendingDedents
      /\ Count("indent") \in Nat /\ Count("dedent") \in Nat
  BY DEF LexerInv, Balanced
<1>2. DOMAIN tokens = 1 .. Len(tokens)
  BY <1>1, AppendLast
<1>3. DepthIn(tokens, Len(tokens)) = Count("indent") - Count("dedent")
  BY <1>2 DEF DepthIn, Count
<1>4. OpenBlocks \in Nat
  BY AppendLast, NotEmpty DEF LexerInv, OpenBlocks
<1> QED
  BY <1>1, <1>3, <1>4

-----------------------------------------------------------------------------
(* The invariant.                                                          *)

\* Before a line the stack is that of the last line passed, on a line it is
\* that line's, until the text has ended.
Between ==
    \/ indentStack = <<>> /\ \A q \in Lines : ~(q < pos)
    \/ \E l : StackOf(indentStack, l) /\ l < pos /\ \A q \in Lines : q < pos => q <= l
On(l) ==
    /\ l \in Lines /\ First(l) <= pos /\ NoBreak(First(l), pos)
    /\ pos < Size => StackOf(indentStack, l)
DepthInv ==
    /\ InText /\ mode = "Normal" /\ pending = <<>>
    /\ atLineStart => pos = Size \/ ((pos = 0 \/ Breaks(pos - 1)) /\ Between)
    /\ ~atLineStart => \E l : On(l)
    /\ Deep(tokens)

\* What is said of the text stays as long as the text does.
LEMMA LinesStay ==
    ASSUME text' = text
    PROVE  /\ Size' = Size /\ Lines' = Lines
           /\ \A q : First(q)' = First(q) /\ WidthOf(q)' = WidthOf(q)
                     /\ (Breaks(q)' <=> Breaks(q)) /\ Inside(q)' = Inside(q)
           /\ \A s, l : StackOf(s, l)' <=> StackOf(s, l)
           /\ \A p, q : NoBreak(p, q)' <=> NoBreak(p, q)
           /\ \A s : Deep(s)' <=> Deep(s)
<1>1. Size' = Size
  BY DEF Size
<1>2. \A q : Char(q)' = Char(q)
  BY <1>1 DEF Char
<1>3. \A q : First(q)' = First(q)
  BY <1>1, <1>2, Zenon DEF First, SkipWhile
<1>4. \A q : WidthOf(q)' = WidthOf(q)
  BY <1>3 DEF WidthOf, Slice
<1>5. \A q : (Breaks(q)' <=> Breaks(q)) /\ (IsBlankLine(q)' <=> IsBlankLine(q))
  BY <1>1, <1>2, Zenon DEF Breaks, IsBlankLine
<1>6. Lines' = Lines
  BY <1>1, <1>2, <1>3, <1>5, Zenon DEF Lines
<1>7. \A q : Around(Lines, q)' = Around(Lines, q)
  BY <1>4, <1>6 DEF Around
<1>8. \A q : Inside(q)' = Inside(q)
  BY <1>7 DEF Inside
<1>9. \A s, l : StackOf(s, l)' <=> StackOf(s, l)
  BY <1>4, <1>6, <1>7, <1>8 DEF StackOf
<1>10. \A p, q : NoBreak(p, q)' <=> NoBreak(p, q)
  BY <1>5 DEF NoBreak
<1>11. \A s : Deep(s)' <=> Deep(s)
  BY <1>3, <1>6, <1>8 DEF Deep
<1> QED
  BY <1>1, <1>3, <1>4, <1>5, <1>6, <1>8, <1>9, <1>10, <1>11

\* What the next state's invariant comes down to when the text stays.
LEMMA DepthInvNext ==
    ASSUME text' = text, mode' = "Normal", pending' = <<>>, InText, pos' \in 0 .. Size,
           atLineStart' =>
             \/ pos' = Size
             \/ /\ pos' = 0 \/ Breaks(pos' - 1)
                /\ \/ indentStack' = <<>> /\ \A q \in Lines : ~(q < pos')
                   \/ \E l : /\ StackOf(indentStack', l) /\ l < pos'
                             /\ \A q \in Lines : q < pos' => q <= l,
           ~atLineStart' =>
             \E l \in Lines : /\ First(l) <= pos' /\ NoBreak(First(l), pos')
                              /\ pos' < Size => StackOf(indentStack', l),
           Deep(tokens')
    PROVE  DepthInv'
<1>1. InText'
  BY InTextStays
<1>2. /\ Size' = Size /\ Lines' = Lines
      /\ \A q : First(q)' = First(q) /\ (Breaks(q)' <=> Breaks(q))
      /\ \A s, l : StackOf(s, l)' <=> StackOf(s, l)
      /\ \A p, q : NoBreak(p, q)' <=> NoBreak(p, q)
      /\ \A s : Deep(s)' <=> Deep(s)
  BY LinesStay
<1>3. Deep(tokens)'
  BY <1>2
<1>4. atLineStart' => pos' = Size' \/ ((pos' = 0 \/ Breaks(pos - 1)') /\ Between')
  BY <1>2 DEF Between
<1>5. ~atLineStart' => \E l : On(l)'
  BY <1>2 DEF On
<1> QED
  BY <1>1, <1>3, <1>4, <1>5 DEF DepthInv

-----------------------------------------------------------------------------
(* The rounds.                                                             *)

\* The reader on a line: where the next lexeme starts.
LEMMA OnLine ==
    ASSUME DepthInv, InNormal
    PROVE  /\ InText /\ Size \in Nat /\ pos \in 0 .. Size
           /\ Start \in pos .. Size /\ Start \in Nat /\ Start \in 0 .. Size
           /\ \E l \in Lines : /\ First(l) <= pos /\ First(l) <= Start /\ First(l) \in Nat
                               /\ NoBreak(First(l), pos) /\ NoBreak(First(l), Start)
                               /\ pos < Size => StackOf(indentStack, l)
<1>1. InText /\ Size \in Nat /\ pos \in 0 .. Size /\ ~atLineStart
  BY TextFacts DEF DepthInv, InNormal, InText
<1>2. Start \in pos .. Size
  BY <1>1, SkipFacts DEF Start
<1>3. PICK l : On(l)
  BY <1>1 DEF DepthInv
<1>4. l \in Lines /\ First(l) \in Nat /\ First(l) <= pos /\ NoBreak(First(l), pos)
      /\ (pos < Size => StackOf(indentStack, l))
  BY <1>1, <1>3, LineFacts DEF On
<1>5. \A r \in pos .. Start - 1 : ~Breaks(r)
  BY <1>1, Skipped, BlanksBreakNot DEF Start
<1>6. NoBreak(First(l), Start)
  BY <1>1, <1>2, <1>4, <1>5 DEF NoBreak
<1> QED
  BY <1>1, <1>2, <1>4, <1>6

\* A token that starts where the reader is, on a line.
LEMMA DeepOnLine ==
    ASSUME LexerInv, DepthInv, InNormal, NEW e, e.start = Start \/ e.kind \in Passive
    PROVE  Deep(Append(tokens, e))
<1>1. Size \in Nat /\ pos \in 0 .. Size /\ Start \in pos .. Size /\ Start \in Nat /\ InText
  BY OnLine
<1>2. PICK l \in Lines : /\ First(l) <= Start /\ NoBreak(First(l), Start)
                         /\ pos < Size => StackOf(indentStack, l)
  BY OnLine
<1>3. Deep(tokens) /\ IsSequence(tokens) /\ pendingDedents = 0
  BY DEF DepthInv, LexerInv, InNormal, NothingQueued
<1>4. ASSUME NEW q \in Lines, e.start = First(q), e.kind \notin Passive
      PROVE  DepthIn(tokens, Len(tokens)) = Inside(q)
  <2>1. Start = First(q)
    BY <1>4
  <2>2. q = l
    BY <1>1, <1>2, <2>1, LineIsAt
  <2>3. First(q) < Size
    BY <1>1, LineFacts
  <2>4. StackOf(indentStack, l)
    BY <1>1, <1>2, <2>1, <2>3
  <2>5. indentStack # <<>> /\ Len(indentStack) = Inside(l) + 1 /\ Inside(l) \in Nat
    BY <1>1, <2>4, StackFacts DEF StackOf
  <2>6. OpenBlocks = Inside(l)
    BY <2>5 DEF OpenBlocks
  <2> QED
    BY <1>3, <2>2, <2>6, DepthOfNext
<1> QED
  BY <1>3, <1>4, DeepAppend

\* A round on a line that reads on without a break.
LEMMA LineStep ==
    ASSUME LexerInv, DepthInv, InNormal, Advance(pos'), pos' \in Start .. Size,
           NoBreak(Start, pos'), UNCHANGED <<atLineStart, mode>>,
           tokens' = tokens \/ \E e : tokens' = Append(tokens, e) /\ e.start = Start
    PROVE  DepthInv'
<1>1. Size \in Nat /\ pos \in 0 .. Size /\ Start \in pos .. Size /\ Start \in Nat /\ InText
  BY OnLine
<1>2. PICK l \in Lines : /\ First(l) <= Start /\ First(l) \in Nat /\ NoBreak(First(l), Start)
                         /\ pos < Size => StackOf(indentStack, l)
  BY OnLine
<1>3. /\ text' = text /\ indentStack' = indentStack /\ pending' = pending
      /\ ~atLineStart' /\ mode' = "Normal" /\ pending' = <<>>
  BY DEF Advance, strings, InNormal, DepthInv
<1>4. pos' \in 0 .. Size /\ First(l) <= pos' /\ pos' >= pos
  BY <1>1, <1>2
<1>5. NoBreak(First(l), pos')
  <2>1. /\ \A r \in First(l) .. Start - 1 : ~Breaks(r)
        /\ \A r \in Start .. pos' - 1 : ~Breaks(r)
    BY <1>2 DEF NoBreak
  <2>2. \A r \in First(l) .. pos' - 1 : r \in First(l) .. Start - 1 \/ r \in Start .. pos' - 1
    <3>1. \A a, b, c \in Nat : \A r \in a .. c - 1 : r \in a .. b - 1 \/ r \in b .. c - 1
      OBVIOUS
    <3>2. First(l) \in Nat /\ Start \in Nat /\ pos' \in Nat
      BY <1>1, <1>2, <1>4
    <3> QED
      BY <3>1, <3>2
  <2> QED
    BY <2>1, <2>2 DEF NoBreak
<1>6. pos' < Size => StackOf(indentStack', l)
  BY <1>1, <1>2, <1>3, <1>4
<1>7. Deep(tokens')
  <2>1. CASE tokens' = tokens
    BY <2>1 DEF DepthInv
  <2>2. CASE \E e : tokens' = Append(tokens, e) /\ e.start = Start
    BY <2>2, DeepOnLine
  <2> QED
    BY <2>1, <2>2
<1> QED
  BY <1>1, <1>2, <1>3, <1>4, <1>5, <1>6, <1>7, DepthInvNext

LEMMA EmitStarts ==
    \A kind, value, start, end : Emit(kind, value, start, end) =>
      \E e : tokens' = Append(tokens, e) /\ e.start = start /\ e.kind = kind
BY DEF Emit, Token

\* Words, numbers and operators break no line.
LEMMA CodeBreaksNot ==
    \A c : c \in WordTail \cup SingleOperators \cup {"+", "-", ".", "=", ">"} => c \notin LineEnds
<1>1. \A c : c \in Names \cup LocalNames => c \notin LineEnds
  BY WordsAssumption
<1>2. \A c : c \in Keywords => c \notin LineEnds
  BY ZenonT(30) DEF Keywords, LineEnds
<1>3. \A c : c \in Booleans \cup Digits \cup {"-", "'"} => c \notin LineEnds
  BY Zenon DEF Booleans, Digits, LineEnds
<1>4. \A c : c \in SingleOperators \cup {"+", "-", ".", "=", ">"} => c \notin LineEnds
  BY Zenon DEF SingleOperators, LineEnds
<1> QED
  BY <1>1, <1>2, <1>3, <1>4 DEF WordTail, Letters

LEMMA ParseWordDepth ==
    ASSUME LexerInv, DepthInv, InNormal, ParseWord  PROVE DepthInv'
<1>1. InText /\ Start \in 0 .. Size /\ Size \in Nat
  BY OnLine
<1>2. /\ Advance(pos') /\ UNCHANGED <<atLineStart, mode>> /\ pos' = SkipWhile(Start, WordTail)
      /\ Emit(WordKind(Slice(Start, pos')), Slice(Start, pos'), Start, pos')
  BY DEF ParseWord, Advance
<1>3. pos' \in Start .. Size /\ \A r \in Start .. pos' - 1 : Char(r) \in WordTail
  BY <1>1, <1>2, SkipFacts, Skipped
<1>4. NoBreak(Start, pos')
  BY <1>3, CodeBreaksNot DEF NoBreak, Breaks
<1> QED
  BY <1>2, <1>3, <1>4, EmitStarts, LineStep

LEMMA NumberBreaksNot ==
    ASSUME InText, NEW p \in 0 .. Size, StartsNumber(p)
    PROVE  NumberEnd(p) \in p .. Size /\ NoBreak(p, NumberEnd(p))
<1>0. Size \in Nat /\ p \in Nat /\ NumberEnd(p) \in p .. Size
  BY TextFacts, NumberEnds
<1> DEFINE r == IF Char(p) \in {"+", "-"} THEN p + 1 ELSE p
           q == SkipWhile(r, Digits)
<1>1. r \in p .. Size /\ r \in 0 .. Size
  <2>1. Char(p) \in {"+", "-"} => Char(p) # "end-of-text"
    OBVIOUS
  <2>2. Char(p) \in {"+", "-"} => p < Size
    BY <1>0, <2>1, BeforeEnd
  <2> QED
    BY <1>0, <2>2
<1>2. \A s \in p .. r - 1 : ~Breaks(s)
  <2> SUFFICES ASSUME NEW s \in p .. r - 1  PROVE ~Breaks(s)
    OBVIOUS
  <2>1. Char(p) \in {"+", "-"} /\ s = p
    BY <1>0
  <2> QED
    BY <2>1, CodeBreaksNot DEF Breaks
<1> HIDE DEF r
<1>3. q \in r .. Size /\ \A s \in r .. q - 1 : Char(s) \in Digits
  BY <1>1, SkipFacts, Skipped
<1>4. \A s \in r .. q - 1 : ~Breaks(s)
  BY <1>3, CodeBreaksNot DEF Breaks, WordTail
<1>5. NumberEnd(p) = IF Char(q) = "." THEN SkipWhile(q + 1, Digits) ELSE q
  BY DEF NumberEnd, r
<1> HIDE DEF q
<1>6. \A s \in p .. q - 1 : ~Breaks(s)
  BY <1>0, <1>1, <1>2, <1>3, <1>4
<1>7. CASE Char(q) = "."
  <2>1. q \in Nat /\ Char(q) # "end-of-text"
    BY <1>1, <1>3, <1>7
  <2>2. q < Size
    BY <2>1, BeforeEnd
  <2>3. q + 1 \in 0 .. Size
    BY <1>0, <2>1, <2>2
  <2> DEFINE n == SkipWhile(q + 1, Digits)
  <2>4. n \in q + 1 .. Size /\ \A s \in q + 1 .. n - 1 : Char(s) \in Digits
    BY <2>3, SkipFacts, Skipped
  <2>5. \A s \in q + 1 .. n - 1 : ~Breaks(s)
    BY <2>4, CodeBreaksNot DEF Breaks, WordTail
  <2>6. ~Breaks(q)
    BY <1>7, CodeBreaksNot DEF Breaks
  <2>7. NumberEnd(p) = n
    BY <1>5, <1>7
  <2> HIDE DEF n
  <2>8. \A s \in p .. n - 1 : s \in p .. q - 1 \/ s = q \/ s \in q + 1 .. n - 1
    BY <1>0, <1>1, <1>3, <2>1, <2>4
  <2>9. \A s \in p .. n - 1 : ~Breaks(s)
    BY <1>6, <2>5, <2>6, <2>8
  <2> QED
    BY <1>0, <2>7, <2>9 DEF NoBreak
<1>8. CASE Char(q) # "."
  BY <1>0, <1>5, <1>6, <1>8 DEF NoBreak
<1> QED
  BY <1>7, <1>8

LEMMA ParseNumberDepth ==
    ASSUME LexerInv, DepthInv, InNormal, ParseNumber  PROVE DepthInv'
<1>1. InText /\ Start \in 0 .. Size
  BY OnLine
<1>2. /\ Advance(pos') /\ UNCHANGED <<atLineStart, mode>> /\ pos' = NumberEnd(Start)
      /\ StartsNumber(Start) /\ Emit("number", Slice(Start, pos'), Start, pos')
  BY DEF ParseNumber, Advance
<1>3. pos' \in Start .. Size /\ NoBreak(Start, pos')
  BY <1>1, <1>2, NumberBreaksNot
<1> QED
  BY <1>2, <1>3, EmitStarts, LineStep

LEMMA OperatorDepth ==
    ASSUME LexerInv, DepthInv, InNormal, Operator  PROVE DepthInv'
<1>1. InText /\ Start \in 0 .. Size /\ Start \in Nat /\ Size \in Nat
  BY OnLine
<1>2. /\ Advance(pos') /\ UNCHANGED <<atLineStart, mode>>
      /\ Emit("operator", Slice(Start, pos'), Start, pos')
      /\ \/ IsDouble(Start) /\ pos' = Start + 2
         \/ Char(Start) \in SingleOperators /\ pos' = Start + 1
  BY Zenon DEF Operator, Advance
<1>3. pos' \in Start .. Size
  BY <1>1, <1>2, OperatorsAreThere
<1>4. IsDouble(Start) => ~Breaks(Start) /\ ~Breaks(Start + 1)
  BY Zenon DEF IsDouble, DoubleOperators, Breaks, LineEnds
<1>5. Char(Start) \in SingleOperators => ~Breaks(Start)
  BY CodeBreaksNot DEF Breaks
<1>6. NoBreak(Start, pos')
  BY <1>1, <1>2, <1>4, <1>5 DEF NoBreak
<1> QED
  BY <1>2, <1>3, <1>6, EmitStarts, LineStep

LEMMA JunkDepth ==
    ASSUME LexerInv, DepthInv, InNormal, Junk  PROVE DepthInv'
<1>1. Start \in Nat /\ Size \in Nat
  BY OnLine
<1>2. /\ Advance(pos') /\ UNCHANGED <<atLineStart, mode>> /\ tokens' = tokens
      /\ Start < Size /\ pos' = Start + 1 /\ ~Breaks(Start)
  BY Zenon DEF Junk, Advance, EmitNothing, Breaks
<1>3. pos' \in Start .. Size /\ NoBreak(Start, pos')
  BY <1>1, <1>2 DEF NoBreak
<1> QED
  BY <1>2, <1>3, LineStep

\* A line break ends the line.
LEMMA NewlineDepth ==
    ASSUME LexerInv, DepthInv, Newline  PROVE DepthInv'
<1>1. InNormal
  BY DEF Newline
<1>2. InText /\ Size \in Nat /\ pos \in 0 .. Size /\ Start \in pos .. Size /\ Start \in Nat
  BY <1>1, OnLine
<1>3. PICK l \in Lines : /\ First(l) <= Start /\ First(l) \in Nat /\ NoBreak(First(l), Start)
                         /\ pos < Size => StackOf(indentStack, l)
  BY <1>1, OnLine
<1>4. /\ text' = text /\ indentStack' = indentStack /\ mode' = "Normal" /\ pending' = <<>>
      /\ atLineStart' /\ pos' = SkipNewline(Start) /\ Breaks(Start)
      /\ Emit("newline", <<>>, Start, pos')
  BY DEF Newline, Advance, strings, DepthInv, Breaks
<1>5. /\ pos' \in Nat /\ pos' > Start /\ pos' <= Size /\ Breaks(pos' - 1)
      /\ \A q \in Lines : q > Start => q >= pos'
  BY <1>2, <1>4, BehindBreak
<1>6. StackOf(indentStack', l)
  BY <1>2, <1>3, <1>4, <1>5
<1>7. l \in Nat /\ l <= First(l)
  BY <1>2, LineFacts
<1>8. \A q \in Lines : q < pos' => q <= l
  <2> SUFFICES ASSUME NEW q \in Lines, q > l  PROVE ~(q < pos')
    BY <1>2, <1>7, LinesAreNumbers
  <2>1. q > Start /\ q \in Nat
    BY <1>2, <1>3, LaterLine, LinesAreNumbers
  <2> QED
    BY <1>5, <2>1
<1>9. l < pos'
  BY <1>2, <1>3, <1>5, <1>7
<1>10. Deep(tokens')
  <2>1. PICK e : tokens' = Append(tokens, e) /\ e.kind = "newline"
    BY <1>4, EmitStarts
  <2> QED
    BY <1>1, <2>1, DeepOnLine DEF Passive
<1>11. pos' \in 0 .. Size
  BY <1>2, <1>5
<1> QED
  BY <1>2, <1>4, <1>5, <1>6, <1>8, <1>9, <1>10, <1>11, DepthInvNext

\* The end of the text: what is left of the stack no longer matters.
LEMMA EndOfTextDepth ==
    ASSUME LexerInv, DepthInv, NEW p, EndOfText(p),
           atLineStart \/ \E l \in Lines : First(l) <= p /\ NoBreak(First(l), p)
    PROVE  DepthInv'
<1>1. InText /\ Size \in Nat
  BY TextFacts DEF DepthInv
<1>2. /\ p = Size /\ pos' = p /\ text' = text /\ atLineStart' = atLineStart
      /\ mode' = "Normal" /\ pending' = <<>>
      /\ tokens' = tokens \/ Emit("eof", <<>>, p, p)
  BY DEF EndOfText, strings, DepthInv, EmitNothing
<1>3. Deep(tokens')
  <2>1. CASE tokens' = tokens
    BY <2>1 DEF DepthInv
  <2>2. CASE Emit("eof", <<>>, p, p)
    <3>1. PICK e : tokens' = Append(tokens, e) /\ e.kind = "eof"
      BY <2>2, EmitStarts
    <3> QED
      BY <3>1, DeepAppend DEF Passive, DepthInv, LexerInv
  <2> QED
    BY <1>2, <2>1, <2>2
<1>4. pos' \in 0 .. Size /\ pos' = Size
  BY <1>1, <1>2
<1> QED
  BY <1>1, <1>2, <1>3, <1>4, DepthInvNext

LEMMA CodeEndDepth ==
    ASSUME LexerInv, DepthInv, CodeEnd  PROVE DepthInv'
<1>1. InNormal /\ EndOfText(Start)
  BY DEF CodeEnd, InInterpolation, DepthInv
<1>2. \E l \in Lines : First(l) <= Start /\ NoBreak(First(l), Start)
  BY <1>1, OnLine
<1> QED
  BY <1>1, <1>2, EndOfTextDepth

LEMMA TakeDedentDepth ==
    ASSUME LexerInv, DepthInv, TakeDedent  PROVE DepthInv'
<1>1. /\ text' = text /\ pos' = pos /\ indentStack' = indentStack /\ atLineStart' = atLineStart
      /\ mode' = mode /\ pending' = pending /\ Emit("dedent", <<>>, pos, pos)
  BY DEF TakeDedent, strings
<1>2. PICK e : tokens' = Append(tokens, e) /\ e.kind = "dedent"
  BY <1>1, EmitStarts
<1>3. Deep(tokens')
  BY <1>2, DeepAppend DEF Passive, DepthInv, LexerInv
<1>4. pos' \in 0 .. Size /\ InText
  BY <1>1 DEF DepthInv, InText
<1> QED
  BY <1>1, <1>3, <1>4, DepthInvNext DEF DepthInv, Between, On

\* A line of blanks or of a comment is none of the lines.
LEMMA BlankLineDepth ==
    ASSUME LexerInv, DepthInv, BlankLine  PROVE DepthInv'
<1>1. InText /\ Size \in Nat /\ pos \in 0 .. Size /\ pos \in Nat /\ atLineStart
  BY TextFacts DEF BlankLine, AtLineStart, DepthInv, InText
<1> DEFINE next == SkipToEndOfLine(pos)
           Q == {q \in pos .. Size : q = Size \/ Char(q) \in LineEnds}
           e == Min(Q)
<1>2. CASE next = Size /\ EndOfText(next)
  BY <1>1, <1>2, EndOfTextDepth
<1>3. CASE /\ next # Size /\ pos' = next /\ tokens' = tokens
           /\ UNCHANGED <<text, indentStack, pendingDedents, atLineStart, mode, strings>>
  <2>1. next \in pos .. Size /\ next = SkipNewline(e)
    BY <1>1, SkipFacts DEF SkipToEndOfLine
  <2>2. e \in Q
    <3>1. Q \in SUBSET Nat /\ Size \in Q
      BY <1>1
    <3> HIDE DEF Q
    <3> QED
      BY <3>1, LeastIsMin
  <2>3. \A x \in Q : e <= x
    <3>1. Q \in SUBSET Nat /\ Size \in Q
      BY <1>1
    <3> HIDE DEF Q
    <3> QED
      BY <3>1, LeastIsMin
  <2>4. e \in pos .. Size /\ e \in Nat /\ (e = Size \/ Breaks(e))
    BY <1>1, <2>2 DEF Breaks
  <2>5. \A r \in pos .. e - 1 : ~Breaks(r)
    <3> SUFFICES ASSUME NEW r \in pos .. e - 1, Breaks(r)  PROVE FALSE
      OBVIOUS
    <3>1. r \in Q
      BY <1>1, <2>4 DEF Breaks
    <3>2. r \in Nat /\ r < e
      BY <1>1, <2>4
    <3> QED
      BY <2>3, <2>4, <3>1, <3>2
  <2> HIDE DEF Q, e, next
  <2>6. e # Size
    <3>1. ~Breaks(Size)
      BY <1>1, BreakIsThere
    <3>2. SkipNewline(Size) = Size
      BY <3>1 DEF SkipNewline, Breaks
    <3> QED
      BY <1>3, <2>1, <3>2
  <2>7. /\ next \in Nat /\ next > e /\ next <= Size /\ Breaks(next - 1)
        /\ \A q \in Lines : q > e => q >= next
    BY <1>1, <2>1, <2>4, <2>6, BehindBreak
  <2>8. pos \notin Lines
    BY DEF BlankLine, Lines, First
  <2>9. \A q \in Lines : q < next => q < pos
    <3> SUFFICES ASSUME NEW q \in Lines, q < next, ~(q < pos)  PROVE FALSE
      OBVIOUS
    <3>1. q \in Nat /\ (q = 0 \/ Breaks(q - 1))
      BY <1>1, LineFacts DEF Breaks
    <3>2. q > pos /\ Breaks(q - 1) /\ q - 1 \in Nat /\ q - 1 >= pos
      BY <1>1, <2>8, <3>1
    <3>3. ~(q - 1 < e)
      BY <1>1, <2>4, <2>5, <3>1, <3>2
    <3>4. q > e
      BY <2>4, <3>1, <3>3
    <3> QED
      BY <2>7, <3>1, <3>4
  <2>10. /\ pos' = next /\ text' = text /\ indentStack' = indentStack
         /\ atLineStart' = atLineStart /\ mode' = mode /\ pending' = pending
         /\ tokens' = tokens
    BY <1>3 DEF strings
  <2>11. pos # Size
    BY <1>1, <1>3, <2>1, <2>7, <2>4
  <2>12. Between
    BY <1>1, <2>11 DEF DepthInv
  <2>13. \/ indentStack' = <<>> /\ \A q \in Lines : ~(q < pos')
         \/ \E l : /\ StackOf(indentStack', l) /\ l < pos'
                   /\ \A q \in Lines : q < pos' => q <= l
    <3>1. CASE indentStack = <<>> /\ \A q \in Lines : ~(q < pos)
      BY <2>9, <2>10, <3>1
    <3>2. CASE \E l : StackOf(indentStack, l) /\ l < pos /\ \A q \in Lines : q < pos => q <= l
      <4>1. PICK l : StackOf(indentStack, l) /\ l < pos /\ \A q \in Lines : q < pos => q <= l
        BY <3>2
      <4>2. l \in Nat
        BY <1>1, <4>1, LinesAreNumbers DEF StackOf
      <4>3. l < pos'
        BY <1>1, <2>1, <2>10, <4>1, <4>2
      <4>4. \A q \in Lines : q < pos' => q <= l
        BY <2>9, <2>10, <4>1
      <4> QED
        BY <2>10, <4>1, <4>3, <4>4
    <3> QED
      BY <2>12, <3>1, <3>2 DEF Between
  <2>14. pos' \in 0 .. Size
    BY <1>1, <2>7, <2>10
  <2> QED
    BY <1>1, <2>7, <2>10, <2>13, <2>14, DepthInvNext DEF DepthInv
<1> QED
  BY <1>2, <1>3 DEF BlankLine, EmitNothing

\* A line that holds something: the stack becomes that of the line.
LEMMA IndentationDepth ==
    ASSUME LexerInv, DepthInv, Aligned(Lines), Indentation  PROVE DepthInv'
<1>1. InText /\ Size \in Nat /\ pos \in 0 .. Size /\ pos \in Nat /\ atLineStart
  BY TextFacts DEF Indentation, AtLineStart, DepthInv, InText
<1>2. /\ text' = text /\ mode' = mode /\ pending' = pending /\ ~atLineStart'
      /\ pos' = First(pos) /\ ~IsBlankLine(First(pos))
  BY DEF Indentation, strings, First
<1>3. First(pos) \in pos .. Size /\ pos < Size
  <2>1. First(pos) \in pos .. Size
    BY <1>1, SkipFacts DEF First
  <2>2. First(pos) # Size
    BY <1>2 DEF IsBlankLine
  <2> QED
    BY <1>1, <2>1, <2>2
<1>4. (pos = 0 \/ Breaks(pos - 1)) /\ Between
  BY <1>1, <1>3 DEF DepthInv
<1>5. pos \in Lines
  BY <1>1, <1>2, <1>4 DEF Lines, Breaks
<1> DEFINE width == WidthOf(pos)
           kept == Cardinality({i \in DOMAIN indentStack : i = 1 \/ indentStack[i] <= width})
<1>6. \/ /\ indentStack = <<>> /\ indentStack' = <<width>> /\ tokens' = tokens
      \/ /\ indentStack # <<>> /\ width > Last(indentStack)
         /\ indentStack' = Append(indentStack, width)
         /\ Emit("indent", <<>>, pos, First(pos))
      \/ /\ indentStack # <<>> /\ width <= Last(indentStack)
         /\ indentStack' = SubSeq(indentStack, 1, kept) /\ tokens' = tokens
  BY Zenon DEF Indentation, First, WidthOf, EmitNothing
<1>7. Deep(tokens')
  <2>1. CASE tokens' = tokens
    BY <2>1 DEF DepthInv
  <2>2. CASE Emit("indent", <<>>, pos, First(pos))
    <3>1. PICK e : tokens' = Append(tokens, e) /\ e.kind = "indent"
      BY <2>2, EmitStarts
    <3> QED
      BY <3>1, DeepAppend DEF Passive, DepthInv, LexerInv
  <2> QED
    BY <1>6, <2>1, <2>2
<1>8. StackOf(indentStack', pos)
  <2>1. CASE indentStack = <<>>
    <3>1. ~\E l : StackOf(indentStack, l)
      BY <1>1, <2>1, StackFacts
    <3>2. \A q \in Lines : ~(q < pos)
      BY <1>4, <3>1 DEF Between
    <3>3. indentStack' = <<width>>
      BY <1>6, <2>1
    <3> QED
      BY <1>1, <1>5, <3>2, <3>3, StackFirst
  <2>2. CASE indentStack # <<>>
    <3>1. PICK l : StackOf(indentStack, l) /\ l < pos /\ \A q \in Lines : q < pos => q <= l
      BY <1>4, <2>2 DEF Between
    <3>2. Adjacent(l, pos)
      <4>1. l \in Lines /\ l \in Nat /\ \A q \in Lines : q \in Nat
        BY <1>1, <3>1, LinesAreNumbers DEF StackOf
      <4> QED
        BY <1>1, <1>5, <3>1, <4>1 DEF Adjacent
    <3>3. CASE width > Last(indentStack) /\ indentStack' = Append(indentStack, width)
      BY <1>1, <3>1, <3>2, <3>3, StackDeeper
    <3>4. CASE width <= Last(indentStack) /\ indentStack' = SubSeq(indentStack, 1, kept)
      BY <1>1, <3>1, <3>2, <3>4, StackShallower
    <3> QED
      BY <1>6, <2>2, <3>3, <3>4
  <2> QED
    BY <2>1, <2>2
<1> HIDE DEF width, kept
<1>9. NoBreak(First(pos), First(pos)) /\ First(pos) <= First(pos) /\ pos' \in 0 .. Size
  BY <1>1, <1>2, <1>3 DEF NoBreak
<1> QED
  BY <1>1, <1>2, <1>5, <1>7, <1>8, <1>9, DepthInvNext DEF DepthInv

\* In a text that is aligned no quote, brace or comment is met on a line.
LEMMA NeverMet ==
    ASSUME DepthInv, Aligned(Lines)
    PROVE  ~OpenString /\ ~ParseVariable /\ ~Comment
<1>1. ASSUME InNormal
      PROVE  /\ Char(Start) \notin {"\"", "{"}
             /\ Char(Start) # "#"
  <2>1. InText /\ Size \in Nat /\ Start \in Nat /\ Start \in 0 .. Size
    BY <1>1, OnLine
  <2>2. PICK l \in Lines : First(l) <= Start /\ First(l) \in Nat /\ NoBreak(First(l), Start)
    BY <1>1, OnLine
  <2>3. Char(Start) \in {"\"", "{", "#"} => Char(Start) # "end-of-text"
    BY Zenon
  <2>4. Char(Start) \in {"\"", "{", "#"} => Start \in 0 .. Size - 1
    <3>1. Char(Start) # "end-of-text" => Start \in 0 .. Size - 1
      BY <2>1, BeforeEnd
    <3> QED
      BY <2>3, <3>1, Zenon
  <2>5. \A q \in 0 .. Size - 1 :
          /\ Char(q) \notin {"\"", "{"}
          /\ Char(q) = "#" => \A k \in Lines : First(k) < q =>
                                 \E r \in First(k) .. q : Char(r) \in LineEnds
    BY Zenon DEF Aligned
  <2>6. Char(Start) \notin {"\"", "{"}
    BY <2>4, <2>5, Zenon
  <2>7. ASSUME Char(Start) = "#"  PROVE FALSE
    <3>1. ~Breaks(Start)
      BY <2>7, Zenon DEF Breaks, LineEnds
    <3>2. Start # First(l)
      <4>1. ~IsBlankLine(First(l))
        BY <2>1, LineFacts
      <4> QED
        BY <2>7, <4>1, Zenon DEF IsBlankLine
    <3>3. Start \in 0 .. Size - 1
      BY <2>4, <2>7, Zenon
    <3>4. First(l) < Start
      BY <2>1, <2>2, <3>2
    <3>5. \E r \in First(l) .. Start : Char(r) \in LineEnds
      BY <2>5, <2>7, <3>3, <3>4, Zenon
    <3>6. \A r \in First(l) .. Start : r = Start \/ r \in First(l) .. Start - 1
      BY <2>1, <2>2
    <3>7. \A r \in First(l) .. Start : ~Breaks(r)
      BY <2>2, <3>1, <3>6, Zenon DEF NoBreak
    <3> QED
      BY <3>5, <3>7, Zenon DEF Breaks
  <2> QED
    BY <2>6, <2>7, Zenon
<1>2. ~InInterpolation
  BY DEF InInterpolation, DepthInv
<1> QED
  BY <1>1, <1>2, Zenon DEF OpenString, ParseVariable, Comment, InCode

\* The lines align as long as the text is the same.
LEMMA AlignedStays ==
    ASSUME text' = text
    PROVE  Aligned(Lines)' <=> Aligned(Lines)
<1>1. /\ Size' = Size /\ Lines' = Lines
      /\ \A q : First(q)' = First(q) /\ WidthOf(q)' = WidthOf(q)
  BY LinesStay
<1>2. \A q : Char(q)' = Char(q)
  BY <1>1 DEF Char
<1>3. \A q : Around(Lines, q)' = Around(Lines, q)
  BY <1>1 DEF Around
<1> DEFINE Unquoted ==
             \A q \in 0 .. Size - 1 :
               /\ Char(q) \notin {"\"", "{"}
               /\ Char(q) = "#" => \A k \in Lines : First(k) < q =>
                                      \E r \in First(k) .. q : Char(r) \in LineEnds
           Returns ==
             \A p, q \in Lines :
               /\ p < q /\ ~\E r \in Lines : p < r /\ r < q
               /\ WidthOf(q) < WidthOf(p)
               => \E k \in Around(Lines, p) : WidthOf(k) = WidthOf(q)
<1>4. Unquoted' <=> Unquoted
  BY <1>1, <1>2
<1>5. Returns' <=> Returns
  BY <1>1, <1>3
<1>6. (Aligned(Lines)' <=> Unquoted' /\ Returns') /\ (Aligned(Lines) <=> Unquoted /\ Returns)
  BY Zenon DEF Aligned
<1> QED
  BY <1>4, <1>5, <1>6, Zenon

LEMMA TextIsKept == [NextToken]_lexer => text' = text
<1> SUFFICES ASSUME [NextToken]_lexer  PROVE text' = text
  OBVIOUS
<1>1. CASE UNCHANGED lexer
  BY <1>1 DEF lexer
<1>2. CASE NextToken
  BY <1>2, Zenon
     DEF NextToken, TakePending, TakeDedent, BlankLine, Indentation, CodeEnd, EndOfText,
         Comment, Newline, ParseNumber, ParseWord, ParseVariable, Operator, Junk, Advance,
         OpenString, StringEnd, CloseString, StartInterpolation, FlushBeforeTag,
         MiniMessageTag, StringChar, EndInterpolation, InterpolationBrace
<1> QED
  BY <1>1, <1>2

LEMMA DepthNext ==
    Aligned(Lines) /\ LexerInv /\ DepthInv /\ [NextToken]_lexer => DepthInv'
<1> SUFFICES ASSUME Aligned(Lines), LexerInv, DepthInv, [NextToken]_lexer
             PROVE  DepthInv'
  OBVIOUS
<1>1. CASE UNCHANGED lexer
  <2>1. /\ text' = text /\ pos' = pos /\ indentStack' = indentStack /\ tokens' = tokens
        /\ atLineStart' = atLineStart /\ mode' = mode /\ pending' = pending
    BY <1>1 DEF lexer, strings
  <2>2. InText /\ pos' \in 0 .. Size
    BY <2>1 DEF DepthInv, InText
  <2> QED
    BY <2>1, <2>2, DepthInvNext DEF DepthInv, Between, On
<1>2. mode = "Normal" /\ pending = <<>> /\ ~InInterpolation /\ ~InString
  BY DEF DepthInv, InInterpolation, InString
<1>3. CASE NextToken
  <2>1. /\ ~TakePending /\ ~StringEnd /\ ~CloseString /\ ~StartInterpolation
        /\ ~FlushBeforeTag /\ ~MiniMessageTag /\ ~StringChar
        /\ ~EndInterpolation /\ ~InterpolationBrace
    BY <1>2, Zenon
       DEF TakePending, StringEnd, CloseString, StartInterpolation, FlushBeforeTag,
           MiniMessageTag, StringChar, EndInterpolation, InterpolationBrace
  <2>2. CASE TakeDedent
    BY <2>2, TakeDedentDepth
  <2>3. CASE BlankLine
    BY <2>3, BlankLineDepth
  <2>4. CASE Indentation
    BY <2>4, IndentationDepth
  <2>5. CASE CodeEnd
    BY <2>5, CodeEndDepth
  <2>6. CASE Newline
    BY <2>6, NewlineDepth
  <2>7. CASE ParseNumber
    BY <1>2, <2>7, ParseNumberDepth DEF ParseNumber, InCode
  <2>8. CASE ParseWord
    BY <1>2, <2>8, ParseWordDepth DEF ParseWord, InCode
  <2>9. CASE Operator
    BY <1>2, <2>9, OperatorDepth DEF Operator, InCode
  <2>10. CASE Junk
    <3>1. InNormal
      BY <1>2, <2>10, Zenon DEF Junk, InCode
    <3> QED
      BY <2>10, <3>1, JunkDepth
  <2>11. ~OpenString /\ ~ParseVariable /\ ~Comment
    BY NeverMet
  <2> QED
    BY <1>3, <2>1, <2>2, <2>3, <2>4, <2>5, <2>6, <2>7, <2>8, <2>9, <2>10, <2>11, Zenon
       DEF NextToken
<1> QED
  BY <1>1, <1>3

LEMMA DepthInit == Init => DepthInv
<1> SUFFICES ASSUME Init  PROVE DepthInv
  OBVIOUS
<1>1. /\ text \in Seq(STRING) /\ pos = 0 /\ atLineStart /\ mode = "Normal" /\ pending = <<>>
      /\ indentStack = <<>> /\ tokens = <<>>
  BY LexerAssumption DEF Init
<1>2. InText
  BY <1>1, LenProperties DEF InText, Size
<1>3. \A q \in Lines : ~(q < pos)
  BY <1>1, <1>2, LinesAreNumbers
<1>4. Deep(tokens)
  <2>1. Len(tokens) = 0
    BY <1>1, EmptySeq
  <2> QED
    BY <2>1 DEF Deep
<1> QED
  BY <1>1, <1>2, <1>3, <1>4 DEF DepthInv, Between

\* On every text whose lines align the stack is that of the line read last.
THEOREM DepthInvariant == LexerSpec => [](Aligned(Lines) => DepthInv)
<1>1. Init => (Aligned(Lines) => DepthInv)
  BY DepthInit
<1>2. LexerInv /\ (Aligned(Lines) => DepthInv) /\ [NextToken]_lexer
        => (Aligned(Lines) => DepthInv)'
  <2> SUFFICES ASSUME LexerInv, Aligned(Lines) => DepthInv, [NextToken]_lexer, Aligned(Lines)'
               PROVE  DepthInv'
    OBVIOUS
  <2>1. Aligned(Lines)
    BY TextIsKept, AlignedStays
  <2> QED
    BY <2>1, DepthNext
<1> QED
  BY <1>1, <1>2, LexerInvariant, PTL DEF LexerSpec

\* In every text whose lines align, the INDENT and DEDENT tokens of
\* handle_indentation put the first token of each line as deep as there are
\* lines around it.
THEOREM IndentationIsDepth == LexerSpec => []DepthIsIndentation
<1>1. (Aligned(Lines) => DepthInv) => DepthIsIndentation
  BY DEF DepthIsIndentation, DepthInv, Deep, Passive, DepthIn, Depth, Inside
<1> QED
  BY <1>1, DepthInvariant, PTL

-----------------------------------------------------------------------------
(* Positions.                                                              *)

\* How many of the first i lexemes are of W.
CountOf(s, W, i) == Cardinality({k \in 1 .. i : s[k] \in W})

\* Bytes and units in front of every place of a text.
BytesAt(s) == [i \in 0 .. Len(s) |-> ByteLen(Prefix(s, i))]
UnitsAt(s) == [i \in 0 .. Len(s) |-> Units(Prefix(s, i))]

One(c, W) == IF c \in W THEN 1 ELSE 0
Bytes(c) == 1 + One(c, Wide) + 2 * One(c, Astral)
UnitsOf(c) == 1 + One(c, Astral)

-----------------------------------------------------------------------------
(* Numbers.                                                                *)

\* A bounded set of numbers has a greatest one.
LEMMA GreatestIsMax ==
    ASSUME NEW n \in Nat, NEW S \in SUBSET (0 .. n), S # {}
    PROVE  Max(S) \in S /\ \A x \in S : x <= Max(S)
<1> DEFINE T == {y \in 0 .. n : n - y \in S}
<1>1. T \in SUBSET Nat /\ T # {}
  <2>1. PICK x \in S : TRUE
    OBVIOUS
  <2>2. n - x \in 0 .. n /\ n - (n - x) = x
    BY <2>1
  <2>3. n - x \in T
    BY <2>2
  <2>4. T \in SUBSET Nat
    OBVIOUS
  <2> QED
    BY <2>3, <2>4
<1> HIDE DEF T
<1>2. PICK y \in T : \A z \in T : y <= z
  BY <1>1, LeastNumber
<1>3. n - y \in S /\ y \in 0 .. n
  BY <1>2 DEF T
<1>4. \A x \in S : x <= n - y
  <2> SUFFICES ASSUME NEW x \in S  PROVE x <= n - y
    OBVIOUS
  <2>1. x \in 0 .. n /\ n - x \in 0 .. n /\ n - (n - x) = x
    OBVIOUS
  <2>2. y <= n - x
    BY <1>2, <2>1 DEF T
  <2> QED
    BY <1>3, <2>1, <2>2
<1>5. \E x \in S : \A z \in S : x >= z
  <2>1. \A z \in S : n - y >= z
    BY <1>3, <1>4
  <2> QED
    BY <1>3, <2>1
<1>6. Max(S) \in S /\ \A z \in S : Max(S) >= z
  BY <1>5, Zenon DEF Max
<1> QED
  BY <1>6

\* What grows in every step keeps the order of the places.
LEMMA Increasing ==
    ASSUME NEW n \in Nat, NEW f \in [0 .. n -> Nat],
           \A i \in 1 .. n : f[i - 1] < f[i]
    PROVE  \A i, j \in 0 .. n : i <= j <=> f[i] <= f[j]
<1> DEFINE T == {k \in 0 .. n : \A i \in 0 .. n : i < k => f[i] < f[k]}
<1>1. 0 \in T
  OBVIOUS
<1>2. ASSUME NEW k \in 1 .. n, k - 1 \in T  PROVE k \in T
  <2>1. k \in 0 .. n /\ k - 1 \in 0 .. n /\ f[k - 1] < f[k]
    OBVIOUS
  <2>2. \A i \in 0 .. n : i < k - 1 => f[i] < f[k - 1]
    BY <1>2
  <2>3. ASSUME NEW i \in 0 .. n, i < k  PROVE f[i] < f[k]
    <3>1. f[i] \in Nat /\ f[k - 1] \in Nat /\ f[k] \in Nat
      BY <2>1
    <3>2. i < k - 1 \/ i = k - 1
      BY <2>3
    <3> QED
      BY <2>1, <2>2, <3>1, <3>2
  <2> QED
    BY <2>1, <2>3
<1> HIDE DEF T
<1>3. 0 .. n \subseteq T
  BY <1>1, <1>2, Induction
<1>4. \A i, j \in 0 .. n : i < j => f[i] < f[j]
  BY <1>3 DEF T
<1> SUFFICES ASSUME NEW i \in 0 .. n, NEW j \in 0 .. n  PROVE i <= j <=> f[i] <= f[j]
  OBVIOUS
<1>5. f[i] \in Nat /\ f[j] \in Nat
  OBVIOUS
<1>6. /\ i < j => f[i] < f[j]
      /\ j < i => f[j] < f[i]
  BY <1>4
<1> QED
  BY <1>5, <1>6

\* What grows in the same steps from place a on differs by its value at a.
LEMMA SameSteps ==
    ASSUME NEW n \in Nat, NEW f \in [0 .. n -> Nat], NEW a \in 0 .. n, NEW m \in 0 .. (n - a),
           NEW g \in [0 .. m -> Nat], g[0] = 0,
           \A i \in 1 .. m : g[i] - g[i - 1] = f[a + i] - f[a + i - 1]
    PROVE  \A i \in 0 .. m : g[i] = f[a + i] - f[a]
<1> DEFINE T == {k \in 0 .. m : g[k] = f[a + k] - f[a]}
<1>1. 0 \in T
  OBVIOUS
<1>2. ASSUME NEW k \in 1 .. m, k - 1 \in T  PROVE k \in T
  <2>1. /\ k \in 0 .. m /\ k - 1 \in 0 .. m
        /\ a + k \in 0 .. n /\ a + k - 1 \in 0 .. n /\ a + (k - 1) = a + k - 1
    OBVIOUS
  <2>2. /\ g[k] \in Nat /\ g[k - 1] \in Nat
        /\ f[a + k] \in Nat /\ f[a + k - 1] \in Nat /\ f[a] \in Nat
    BY <2>1
  <2>3. g[k - 1] = f[a + k - 1] - f[a]
    BY <1>2, <2>1
  <2>4. g[k] - g[k - 1] = f[a + k] - f[a + k - 1]
    OBVIOUS
  <2>5. g[k] = f[a + k] - f[a]
    <3> DEFINE u == g[k]
               v == g[k - 1]
               x == f[a + k]
               y == f[a + k - 1]
               z == f[a]
    <3>1. u \in Nat /\ v \in Nat /\ x \in Nat /\ y \in Nat /\ z \in Nat
      BY <2>2
    <3>2. v = y - z /\ u - v = x - y
      BY <2>3, <2>4
    <3> HIDE DEF u, v, x, y, z
    <3>3. u = x - z
      BY <3>1, <3>2
    <3> QED
      BY <3>3 DEF u, x, z
  <2> QED
    BY <2>1, <2>5
<1> HIDE DEF T
<1>3. m \in Nat
  OBVIOUS
<1>4. 0 .. m \subseteq T
  BY <1>1, <1>2, <1>3, Induction
<1> QED
  BY <1>4 DEF T

-----------------------------------------------------------------------------
(* Counting along a text.                                                  *)

LEMMA CountSteps ==
    ASSUME NEW s, NEW W, NEW i \in Nat
    PROVE  /\ CountOf(s, W, 0) = 0
           /\ CountOf(s, W, i) \in Nat
           /\ CountOf(s, W, i + 1) = CountOf(s, W, i) + One(s[i + 1], W)
<1> DEFINE old == {k \in 1 .. i : s[k] \in W}
           new == {k \in 1 .. (i + 1) : s[k] \in W}
<1>1. CountOf(s, W, 0) = 0
  <2>1. {k \in 1 .. 0 : s[k] \in W} = {}
    OBVIOUS
  <2> QED
    BY <2>1, FS_EmptySet DEF CountOf
<1>2. IsFiniteSet(old) /\ i + 1 \notin old
  <2>1. IsFiniteSet(1 .. i) /\ old \in SUBSET (1 .. i)
    BY FS_Interval
  <2> QED
    BY <2>1, FS_Subset
<1>3. new = IF s[i + 1] \in W THEN old \cup {i + 1} ELSE old
  <2>1. 1 .. (i + 1) = (1 .. i) \cup {i + 1}
    OBVIOUS
  <2> QED
    BY <2>1
<1>4. CountOf(s, W, i) = Cardinality(old) /\ CountOf(s, W, i + 1) = Cardinality(new)
  BY Zenon DEF CountOf
<1> HIDE DEF old, new
<1>5. /\ Cardinality(old) \in Nat
      /\ Cardinality(old \cup {i + 1}) = Cardinality(old) + 1
  BY <1>2, FS_CardinalityType, FS_AddElement
<1> QED
  BY <1>1, <1>3, <1>4, <1>5 DEF One

LEMMA PrefixMeasures ==
    ASSUME NEW s \in Seq(STRING), NEW i \in 0 .. Len(s)
    PROVE  /\ ByteLen(Prefix(s, i)) = i + CountOf(s, Wide, i) + 2 * CountOf(s, Astral, i)
           /\ Units(Prefix(s, i)) = i + CountOf(s, Astral, i)
<1> DEFINE p == Prefix(s, i)
<1>1. p \in Seq(STRING) /\ Len(p) = i /\ \A k \in 1 .. i : p[k] = s[k]
  <2>1. Len(s) \in Nat
    BY LenProperties
  <2>2. 1 \in 1 .. (Len(s) + 1) /\ i \in (1 - 1) .. Len(s) /\ i - 1 + 1 = i
    BY <2>1
  <2>3. /\ SubSeq(s, 1, i) \in Seq(STRING) /\ Len(SubSeq(s, 1, i)) = i - 1 + 1
        /\ \A k \in 1 .. (i - 1 + 1) : SubSeq(s, 1, i)[k] = s[1 + k - 1]
    BY <2>2, Part
  <2>4. \A k \in 1 .. i : 1 + k - 1 = k
    OBVIOUS
  <2> QED
    BY <2>2, <2>3, <2>4, Zenon DEF Prefix
<1> HIDE DEF p
<1>2. DOMAIN p = 1 .. i
  BY <1>1, LenProperties
<1>3. \A W : {k \in DOMAIN p : p[k] \in W} = {k \in 1 .. i : s[k] \in W}
  BY <1>1, <1>2
<1>4. /\ Cardinality({k \in DOMAIN p : p[k] \in Wide}) = CountOf(s, Wide, i)
      /\ Cardinality({k \in DOMAIN p : p[k] \in Astral}) = CountOf(s, Astral, i)
  BY <1>3, Zenon DEF CountOf
<1> QED
  BY <1>1, <1>4, Zenon DEF ByteLen, Units, p

\* A lexeme adds its bytes and its units.
LEMMA MeasureSteps ==
    ASSUME NEW s \in Seq(STRING)
    PROVE  /\ BytesAt(s) \in [0 .. Len(s) -> Nat] /\ UnitsAt(s) \in [0 .. Len(s) -> Nat]
           /\ BytesAt(s)[0] = 0 /\ UnitsAt(s)[0] = 0
           /\ \A i \in 1 .. Len(s) :
                /\ BytesAt(s)[i] = BytesAt(s)[i - 1] + Bytes(s[i])
                /\ UnitsAt(s)[i] = UnitsAt(s)[i - 1] + UnitsOf(s[i])
<1>1. Len(s) \in Nat
  BY LenProperties
<1>2. ASSUME NEW i \in 0 .. Len(s)
      PROVE  /\ BytesAt(s)[i] = i + CountOf(s, Wide, i) + 2 * CountOf(s, Astral, i)
             /\ UnitsAt(s)[i] = i + CountOf(s, Astral, i)
             /\ CountOf(s, Wide, i) \in Nat /\ CountOf(s, Astral, i) \in Nat
  <2>1. i \in Nat
    BY <1>1
  <2> QED
    BY <2>1, PrefixMeasures, CountSteps DEF BytesAt, UnitsAt
<1>3. /\ DOMAIN BytesAt(s) = 0 .. Len(s) /\ DOMAIN UnitsAt(s) = 0 .. Len(s)
      /\ \A i \in 0 .. Len(s) : BytesAt(s)[i] \in Nat /\ UnitsAt(s)[i] \in Nat
  <2>1. \A i \in 0 .. Len(s) : BytesAt(s)[i] \in Nat /\ UnitsAt(s)[i] \in Nat
    BY <1>1, <1>2
  <2> QED
    BY <2>1 DEF BytesAt, UnitsAt
<1>4. BytesAt(s) \in [0 .. Len(s) -> Nat] /\ UnitsAt(s) \in [0 .. Len(s) -> Nat]
  BY <1>3 DEF BytesAt, UnitsAt
<1>5. BytesAt(s)[0] = 0 /\ UnitsAt(s)[0] = 0
  <2>1. 0 \in 0 .. Len(s) /\ CountOf(s, Wide, 0) = 0 /\ CountOf(s, Astral, 0) = 0
    BY <1>1, CountSteps
  <2>2. /\ BytesAt(s)[0] = 0 + CountOf(s, Wide, 0) + 2 * CountOf(s, Astral, 0)
        /\ UnitsAt(s)[0] = 0 + CountOf(s, Astral, 0)
    BY <1>2, <2>1
  <2> QED
    BY <2>1, <2>2
<1>6. ASSUME NEW i \in 1 .. Len(s)
      PROVE  /\ BytesAt(s)[i] = BytesAt(s)[i - 1] + Bytes(s[i])
             /\ UnitsAt(s)[i] = UnitsAt(s)[i - 1] + UnitsOf(s[i])
  <2>1. PICK j \in Nat : i = j + 1 /\ i - 1 = j
    <3>1. i - 1 \in Nat /\ i = (i - 1) + 1
      BY <1>1
    <3> QED
      BY <3>1
  <2>2. j \in 0 .. Len(s) /\ j + 1 \in 0 .. Len(s)
    BY <1>1, <2>1
  <2>3. /\ CountOf(s, Wide, j + 1) = CountOf(s, Wide, j) + One(s[j + 1], Wide)
        /\ CountOf(s, Astral, j + 1) = CountOf(s, Astral, j) + One(s[j + 1], Astral)
    BY CountSteps, Zenon
  <2>4. /\ BytesAt(s)[j] = j + CountOf(s, Wide, j) + 2 * CountOf(s, Astral, j)
        /\ UnitsAt(s)[j] = j + CountOf(s, Astral, j)
        /\ BytesAt(s)[j + 1] = j + 1 + CountOf(s, Wide, j + 1) + 2 * CountOf(s, Astral, j + 1)
        /\ UnitsAt(s)[j + 1] = j + 1 + CountOf(s, Astral, j + 1)
        /\ CountOf(s, Wide, j) \in Nat /\ CountOf(s, Astral, j) \in Nat
    BY <1>2, <2>2
  <2>5. /\ BytesAt(s)[j + 1] = BytesAt(s)[j] + Bytes(s[j + 1])
        /\ UnitsAt(s)[j + 1] = UnitsAt(s)[j] + UnitsOf(s[j + 1])
    <3> DEFINE w == CountOf(s, Wide, j)
               a == CountOf(s, Astral, j)
               x == One(s[j + 1], Wide)
               y == One(s[j + 1], Astral)
    <3>1. w \in Nat /\ a \in Nat /\ x \in Nat /\ y \in Nat
      BY <2>4 DEF One
    <3>2. /\ BytesAt(s)[j] = j + w + 2 * a /\ UnitsAt(s)[j] = j + a
          /\ BytesAt(s)[j + 1] = j + 1 + (w + x) + 2 * (a + y)
          /\ UnitsAt(s)[j + 1] = j + 1 + (a + y)
      BY <2>3, <2>4
    <3>3. Bytes(s[j + 1]) = 1 + x + 2 * y /\ UnitsOf(s[j + 1]) = 1 + y
      BY DEF Bytes, UnitsOf
    <3> HIDE DEF w, a, x, y
    <3>4. /\ j + 1 + (w + x) + 2 * (a + y) = (j + w + 2 * a) + (1 + x + 2 * y)
          /\ j + 1 + (a + y) = (j + a) + (1 + y)
      BY <3>1
    <3> QED
      BY <3>2, <3>3, <3>4
  <2> QED
    BY <2>1, <2>5
<1> QED
  BY <1>4, <1>5, <1>6

\* Later places have more bytes and more units in front of them.
LEMMA MeasuresGrow ==
    ASSUME NEW s \in Seq(STRING)
    PROVE  \A i, j \in 0 .. Len(s) :
             /\ i <= j <=> BytesAt(s)[i] <= BytesAt(s)[j]
             /\ i <= j <=> UnitsAt(s)[i] <= UnitsAt(s)[j]
<1>1. Len(s) \in Nat
  BY LenProperties
<1>2. /\ BytesAt(s) \in [0 .. Len(s) -> Nat] /\ UnitsAt(s) \in [0 .. Len(s) -> Nat]
      /\ \A i \in 1 .. Len(s) :
           /\ BytesAt(s)[i] = BytesAt(s)[i - 1] + Bytes(s[i])
           /\ UnitsAt(s)[i] = UnitsAt(s)[i - 1] + UnitsOf(s[i])
  BY MeasureSteps
<1> DEFINE b == BytesAt(s)
           u == UnitsAt(s)
<1>3. \A i \in 1 .. Len(s) : b[i - 1] < b[i] /\ u[i - 1] < u[i]
  <2> SUFFICES ASSUME NEW i \in 1 .. Len(s)  PROVE b[i - 1] < b[i] /\ u[i - 1] < u[i]
    OBVIOUS
  <2>1. /\ i \in 0 .. Len(s) /\ i - 1 \in 0 .. Len(s)
    BY <1>1
  <2>2. b[i - 1] \in Nat /\ u[i - 1] \in Nat
    BY <1>2, <2>1
  <2>3. b[i] = b[i - 1] + Bytes(s[i]) /\ u[i] = u[i - 1] + UnitsOf(s[i])
    BY <1>2
  <2>4. Bytes(s[i]) \in Nat /\ UnitsOf(s[i]) \in Nat /\ Bytes(s[i]) >= 1 /\ UnitsOf(s[i]) >= 1
    BY DEF Bytes, UnitsOf, One
  <2> QED
    BY <2>2, <2>3, <2>4
<1> HIDE DEF b, u
<1>4. /\ b \in [0 .. Len(s) -> Nat] /\ \A i \in 1 .. Len(s) : b[i - 1] < b[i]
      /\ u \in [0 .. Len(s) -> Nat] /\ \A i \in 1 .. Len(s) : u[i - 1] < u[i]
  BY <1>2, <1>3 DEF b, u
<1>5. \A i, j \in 0 .. Len(s) : i <= j <=> b[i] <= b[j]
  BY <1>1, <1>4, Increasing
<1>6. \A i, j \in 0 .. Len(s) : i <= j <=> u[i] <= u[j]
  BY <1>1, <1>4, Increasing
<1> QED
  BY <1>5, <1>6 DEF b, u

\* A piece of a text measures what the text does.
LEMMA PieceMeasures ==
    ASSUME NEW s \in Seq(STRING), NEW a \in 0 .. Len(s), NEW e \in a .. Len(s)
    PROVE  LET line == SubSeq(s, a + 1, e) IN
           /\ line \in Seq(STRING) /\ Len(line) = e - a
           /\ \A i \in 1 .. (e - a) : line[i] = s[a + i]
           /\ \A k \in 0 .. (e - a) :
                /\ ByteLen(Prefix(line, k)) = BytesAt(s)[a + k] - BytesAt(s)[a]
                /\ Units(Prefix(line, k)) = UnitsAt(s)[a + k] - UnitsAt(s)[a]
<1> DEFINE line == SubSeq(s, a + 1, e)
           m == e - a
<1>1. Len(s) \in Nat
  BY LenProperties
<1>2. line \in Seq(STRING) /\ Len(line) = m /\ \A i \in 1 .. m : line[i] = s[a + i]
  <2>1. a + 1 \in 1 .. (Len(s) + 1) /\ e \in ((a + 1) - 1) .. Len(s) /\ e - (a + 1) + 1 = m
    BY <1>1
  <2>2. \A i \in 1 .. m : (a + 1) + i - 1 = a + i
    BY <1>1
  <2>3. /\ SubSeq(s, a + 1, e) \in Seq(STRING)
        /\ Len(SubSeq(s, a + 1, e)) = e - (a + 1) + 1
        /\ \A i \in 1 .. (e - (a + 1) + 1) : SubSeq(s, a + 1, e)[i] = s[(a + 1) + i - 1]
    BY <2>1, Part
  <2> QED
    BY <2>1, <2>2, <2>3, Zenon
<1> HIDE DEF line
<1>3. m \in 0 .. (Len(s) - a) /\ \A i \in 1 .. m : a + i \in 1 .. Len(s) /\ i \in 1 .. Len(line)
  BY <1>1, <1>2
<1>4. /\ BytesAt(line) \in [0 .. m -> Nat] /\ UnitsAt(line) \in [0 .. m -> Nat]
      /\ BytesAt(line)[0] = 0 /\ UnitsAt(line)[0] = 0
      /\ \A i \in 1 .. m : /\ BytesAt(line)[i] = BytesAt(line)[i - 1] + Bytes(line[i])
                           /\ UnitsAt(line)[i] = UnitsAt(line)[i - 1] + UnitsOf(line[i])
  BY <1>2, MeasureSteps
<1>5. /\ BytesAt(s) \in [0 .. Len(s) -> Nat] /\ UnitsAt(s) \in [0 .. Len(s) -> Nat]
      /\ \A i \in 1 .. Len(s) : /\ BytesAt(s)[i] = BytesAt(s)[i - 1] + Bytes(s[i])
                                /\ UnitsAt(s)[i] = UnitsAt(s)[i - 1] + UnitsOf(s[i])
  BY MeasureSteps
<1> HIDE DEF m
<1>6. \A i \in 1 .. m :
        /\ BytesAt(line)[i] - BytesAt(line)[i - 1] = BytesAt(s)[a + i] - BytesAt(s)[a + i - 1]
        /\ UnitsAt(line)[i] - UnitsAt(line)[i - 1] = UnitsAt(s)[a + i] - UnitsAt(s)[a + i - 1]
  <2> SUFFICES ASSUME NEW i \in 1 .. m
               PROVE  /\ BytesAt(line)[i] - BytesAt(line)[i - 1]
                           = BytesAt(s)[a + i] - BytesAt(s)[a + i - 1]
                      /\ UnitsAt(line)[i] - UnitsAt(line)[i - 1]
                           = UnitsAt(s)[a + i] - UnitsAt(s)[a + i - 1]
    OBVIOUS
  <2>1. /\ a + i \in 1 .. Len(s) /\ a + i - 1 \in 0 .. Len(s) /\ i - 1 \in 0 .. m
        /\ line[i] = s[a + i]
    BY <1>1, <1>2, <1>3
  <2>2. /\ BytesAt(s)[a + i - 1] \in Nat /\ UnitsAt(s)[a + i - 1] \in Nat
        /\ BytesAt(line)[i - 1] \in Nat /\ UnitsAt(line)[i - 1] \in Nat
    BY <1>4, <1>5, <2>1
  <2>3. Bytes(s[a + i]) \in Nat /\ UnitsOf(s[a + i]) \in Nat
    BY DEF Bytes, UnitsOf, One
  <2>4. /\ BytesAt(line)[i] = BytesAt(line)[i - 1] + Bytes(s[a + i])
        /\ UnitsAt(line)[i] = UnitsAt(line)[i - 1] + UnitsOf(s[a + i])
    BY <1>4, <2>1
  <2>5. /\ BytesAt(s)[a + i] = BytesAt(s)[a + i - 1] + Bytes(s[a + i])
        /\ UnitsAt(s)[a + i] = UnitsAt(s)[a + i - 1] + UnitsOf(s[a + i])
    BY <1>5, <2>1
  <2> QED
    BY <2>2, <2>3, <2>4, <2>5, SMTT(30)
<1>7. \A k \in 0 .. m : BytesAt(line)[k] = BytesAt(s)[a + k] - BytesAt(s)[a]
  BY <1>1, <1>3, <1>4, <1>5, <1>6, SameSteps
<1>8. \A k \in 0 .. m : UnitsAt(line)[k] = UnitsAt(s)[a + k] - UnitsAt(s)[a]
  BY <1>1, <1>3, <1>4, <1>5, <1>6, SameSteps
<1>9. \A k \in 0 .. m : /\ ByteLen(Prefix(line, k)) = BytesAt(line)[k]
                        /\ Units(Prefix(line, k)) = UnitsAt(line)[k]
  BY <1>2 DEF BytesAt, UnitsAt
<1> QED
  BY <1>2, <1>7, <1>8, <1>9 DEF line, m

-----------------------------------------------------------------------------
(* Lines.                                                                  *)

Feed == {"\n"}
IsFeed(c) == c \in Feed
IsReturn(c) == c = "\r"

\* The line of every place: how many line feeds are in front of it.
LineAt(s) == [i \in 0 .. Len(s) |-> Cardinality({j \in LineFeeds(s) : j <= i})]

LEMMA LineSteps ==
    ASSUME NEW s \in Seq(STRING)
    PROVE  /\ LineAt(s) \in [0 .. Len(s) -> Nat] /\ LineAt(s)[0] = 0
           /\ LineCount(s) = LineAt(s)[Len(s)] + 1
           /\ \A i \in 1 .. Len(s) :
                LineAt(s)[i] = LineAt(s)[i - 1] + (IF IsFeed(s[i]) THEN 1 ELSE 0)
<1>1. Len(s) \in Nat /\ DOMAIN s = 1 .. Len(s)
  BY LenProperties
<1>2. \A i \in 0 .. Len(s) : LineAt(s)[i] = CountOf(s, Feed, i)
  <2> SUFFICES ASSUME NEW i \in 0 .. Len(s)  PROVE LineAt(s)[i] = CountOf(s, Feed, i)
    OBVIOUS
  <2>1. {j \in LineFeeds(s) : j <= i} = {k \in 1 .. i : s[k] \in Feed}
    BY <1>1 DEF LineFeeds, Feed
  <2> QED
    BY <2>1, Zenon DEF LineAt, CountOf
<1>3. \A i \in Nat : /\ CountOf(s, Feed, 0) = 0
                     /\ CountOf(s, Feed, i) \in Nat
                     /\ CountOf(s, Feed, i + 1) = CountOf(s, Feed, i) + One(s[i + 1], Feed)
  BY CountSteps, Zenon
<1>4. \A c : One(c, Feed) = IF IsFeed(c) THEN 1 ELSE 0
  BY DEF One, IsFeed
<1>5. LineAt(s) \in [0 .. Len(s) -> Nat]
  <2>1. ASSUME NEW i \in 0 .. Len(s)  PROVE LineAt(s)[i] \in Nat
    <3>1. i \in Nat
      BY <1>1
    <3> QED
      BY <1>2, <1>3, <3>1, Zenon
  <2> QED
    BY <2>1 DEF LineAt
<1>6. LineAt(s)[0] = 0
  <2>1. 0 \in 0 .. Len(s) /\ 0 \in Nat
    BY <1>1
  <2> QED
    BY <1>2, <1>3, <2>1, Zenon
<1>7. LineCount(s) = LineAt(s)[Len(s)] + 1
  <2>1. {j \in LineFeeds(s) : j <= Len(s)} = LineFeeds(s) /\ Len(s) \in 0 .. Len(s)
    BY <1>1 DEF LineFeeds
  <2>2. LineAt(s)[Len(s)] = Cardinality(LineFeeds(s))
    BY <2>1, Zenon DEF LineAt
  <2>3. LineAt(s)[Len(s)] \in Nat
    BY <1>5, <2>1
  <2> QED
    BY <2>2, <2>3 DEF LineCount
<1>8. ASSUME NEW i \in 1 .. Len(s)
      PROVE  LineAt(s)[i] = LineAt(s)[i - 1] + (IF IsFeed(s[i]) THEN 1 ELSE 0)
  <2>1. PICK j \in Nat : i = j + 1 /\ i - 1 = j
    <3>1. i - 1 \in Nat /\ i = (i - 1) + 1
      BY <1>1
    <3> QED
      BY <3>1
  <2>2. j \in 0 .. Len(s) /\ j + 1 \in 0 .. Len(s)
    BY <1>1, <2>1
  <2>3. LineAt(s)[j + 1] = LineAt(s)[j] + One(s[j + 1], Feed)
    BY <1>2, <1>3, <2>2, Zenon
  <2> QED
    BY <1>4, <2>1, <2>3, Zenon
<1> QED
  BY <1>5, <1>6, <1>7, <1>8, Zenon

\* A later place is on the same line or a later one.
LEMMA LinesGrow ==
    ASSUME NEW s \in Seq(STRING)
    PROVE  \A i, j \in 0 .. Len(s) : i <= j => LineAt(s)[i] <= LineAt(s)[j]
<1> DEFINE f == LineAt(s)
           n == Len(s)
           T == {k \in 0 .. n : \A i \in 0 .. n : i <= k => f[i] <= f[k]}
<1>1. n \in Nat
  BY LenProperties
<1>2. /\ f \in [0 .. n -> Nat]
      /\ \A i \in 1 .. n : f[i] = f[i - 1] + (IF IsFeed(s[i]) THEN 1 ELSE 0)
  BY LineSteps
<1> HIDE DEF f, n
<1>3. 0 \in T
  BY <1>1, <1>2
<1>4. ASSUME NEW k \in 1 .. n, k - 1 \in T  PROVE k \in T
  <2>1. k \in 0 .. n /\ k - 1 \in 0 .. n /\ f[k] \in Nat /\ f[k - 1] \in Nat
    BY <1>1, <1>2
  <2>2. f[k - 1] <= f[k]
    BY <1>2, <2>1
  <2>3. ASSUME NEW i \in 0 .. n, i <= k  PROVE f[i] <= f[k]
    <3>1. f[i] \in Nat
      BY <1>2
    <3>2. i = k \/ i <= k - 1
      BY <1>1, <2>3
    <3>3. i <= k - 1 => f[i] <= f[k - 1]
      BY <1>4
    <3> QED
      BY <2>1, <2>2, <3>1, <3>2, <3>3
  <2> QED
    BY <2>1, <2>3
<1> HIDE DEF T
<1>5. 0 .. n \subseteq T
  BY <1>1, <1>3, <1>4, Induction
<1> QED
  BY <1>5 DEF T, f, n

\* line_start_offset: a line starts behind its line feed.
LEMMA LineStartIs ==
    ASSUME NEW s \in Seq(STRING), NEW n \in 0 .. (LineCount(s) - 1)
    PROVE  /\ LineStart(s, n) \in 0 .. Len(s)
           /\ LineAt(s)[LineStart(s, n)] = n
           /\ n = 0 => LineStart(s, n) = 0
           /\ n > 0 => /\ LineStart(s, n) \in 1 .. Len(s)
                       /\ IsFeed(s[LineStart(s, n)])
<1> DEFINE f == LineAt(s)
           L == Len(s)
<1>1. L \in Nat /\ DOMAIN s = 1 .. L
  BY LenProperties
<1>2. /\ f \in [0 .. L -> Nat] /\ f[0] = 0 /\ LineCount(s) = f[L] + 1
      /\ \A i \in 1 .. L : f[i] = f[i - 1] + (IF IsFeed(s[i]) THEN 1 ELSE 0)
  BY LineSteps
<1>3. \A i \in 0 .. L : f[i] = Cardinality({j \in LineFeeds(s) : j <= i})
  BY DEF LineAt
<1> HIDE DEF f, L
<1>4. n \in Nat /\ n <= f[L]
  BY <1>1, <1>2
<1>5. CASE n = 0
  BY <1>1, <1>2, <1>5 DEF LineStart, f, L
<1>6. CASE n # 0
  <2>1. \A i : i \in LineFeeds(s) <=> i \in 1 .. L /\ IsFeed(s[i])
    BY <1>1 DEF LineFeeds, IsFeed, Feed
  <2> DEFINE T == {i \in 0 .. L : f[i] >= n}
  <2>2. T \in SUBSET Nat /\ L \in T
    BY <1>1, <1>4
  <2>3. PICK i \in T : \A j \in T : i <= j
    BY <2>2, LeastNumber
  <2>4. i \in 0 .. L /\ f[i] >= n
    BY <2>3
  <2>5. i \in 1 .. L /\ i - 1 \in 0 .. L /\ i - 1 \notin T
    <3>1. i # 0
      BY <1>2, <1>4, <1>6, <2>4
    <3>2. i \in 1 .. L /\ i - 1 \in 0 .. L /\ ~(i <= i - 1)
      BY <1>1, <2>4, <3>1
    <3> QED
      BY <2>3, <3>2
  <2>6. f[i] \in Nat /\ f[i - 1] \in Nat /\ f[i - 1] < n
    BY <1>2, <1>4, <2>4, <2>5
  <2>7. f[i] = n /\ IsFeed(s[i])
    <3>1. f[i] = f[i - 1] + (IF IsFeed(s[i]) THEN 1 ELSE 0)
      BY <1>2, <2>5
    <3> QED
      BY <1>4, <2>4, <2>6, <3>1
  <2> HIDE DEF T
  <2> DEFINE IsStart(k) == Cardinality({j \in LineFeeds(s) : j <= k}) = n
  <2>8. \E k \in LineFeeds(s) : IsStart(k)
    BY <1>3, <2>1, <2>4, <2>5, <2>7
  <2>9. LineStart(s, n) = CHOOSE k \in LineFeeds(s) : IsStart(k)
    BY <1>6, Zenon DEF LineStart
  <2> HIDE DEF IsStart
  <2>10. LineStart(s, n) \in LineFeeds(s) /\ IsStart(LineStart(s, n))
    BY <2>8, <2>9, Zenon
  <2>11. LineStart(s, n) \in 1 .. L /\ IsFeed(s[LineStart(s, n)])
    BY <2>1, <2>10, Zenon
  <2>12. LineStart(s, n) \in 0 .. L
    BY <1>1, <2>11
  <2>13. f[LineStart(s, n)] = n
    BY <1>3, <2>10, <2>12, Zenon DEF IsStart
  <2> QED
    BY <1>6, <2>11, <2>12, <2>13 DEF f, L
<1> QED
  BY <1>5, <1>6

\* Line n reaches from its start to its end, and holds no line feed.
LEMMA LineIs ==
    ASSUME NEW s \in Seq(STRING), NEW n \in 0 .. (LineCount(s) - 1)
    PROVE  /\ LineEnd(s, n) \in LineStart(s, n) .. Len(s)
           /\ \A i \in 0 .. Len(s) :
                LineAt(s)[i] = n <=> i \in LineStart(s, n) .. LineEnd(s, n)
           /\ LineEnd(s, n) = Len(s) \/ IsFeed(s[LineEnd(s, n) + 1])
<1> DEFINE f == LineAt(s)
           L == Len(s)
           S == LineStart(s, n)
           E == LineEnd(s, n)
<1>1. L \in Nat
  BY LenProperties
<1>2. /\ f \in [0 .. L -> Nat] /\ LineCount(s) = f[L] + 1
      /\ \A i \in 1 .. L : f[i] = f[i - 1] + (IF IsFeed(s[i]) THEN 1 ELSE 0)
  BY LineSteps
<1>3. \A i, j \in 0 .. L : i <= j => f[i] <= f[j]
  BY LinesGrow
<1>4. /\ S \in 0 .. L /\ f[S] = n /\ (n = 0 => S = 0)
      /\ n > 0 => S \in 1 .. L /\ IsFeed(s[S])
  BY LineStartIs
<1>5. LineEnd(s, n) = IF n + 1 < LineCount(s) THEN LineStart(s, n + 1) - 1 ELSE Len(s)
  BY DEF LineEnd
<1> HIDE DEF f, L, S, E
<1>6. n \in Nat /\ f[L] \in Nat
  BY <1>1, <1>2
<1>7. \A i \in 0 .. L : f[i] \in Nat
  BY <1>2
<1>8. \A i \in 0 .. L : i < S => f[i] < n
  <2> SUFFICES ASSUME NEW i \in 0 .. L, i < S  PROVE f[i] < n
    OBVIOUS
  <2>1. n > 0
    BY <1>4, <1>6
  <2>2. S \in 1 .. L /\ IsFeed(s[S]) /\ S - 1 \in 0 .. L /\ i <= S - 1
    BY <1>1, <1>4, <2>1
  <2>3. f[S] = f[S - 1] + 1
    BY <1>2, <2>2
  <2>4. f[i] <= f[S - 1]
    BY <1>3, <2>2
  <2> QED
    BY <1>4, <1>6, <1>7, <2>2, <2>3, <2>4
<1>9. CASE n + 1 < LineCount(s)
  <2> DEFINE R == LineStart(s, n + 1)
  <2>1. n + 1 \in 0 .. (LineCount(s) - 1) /\ n + 1 > 0
    BY <1>2, <1>6, <1>9
  <2>2. R \in 1 .. L /\ f[R] = n + 1 /\ IsFeed(s[R])
    BY <2>1, LineStartIs DEF f, L
  <2>3. E = R - 1
    BY <1>5, <1>9 DEF E
  <2> HIDE DEF R
  <2>4. R \in 0 .. L /\ R - 1 \in 0 .. L /\ f[R - 1] = n
    <3>1. R \in 0 .. L /\ R - 1 \in 0 .. L
      BY <1>1, <2>2
    <3>2. f[R] = f[R - 1] + 1
      BY <1>2, <2>2
    <3> QED
      BY <1>6, <1>7, <2>2, <3>1, <3>2
  <2>5. S < R
    BY <1>1, <1>3, <1>4, <1>6, <2>2, <2>4
  <2>6. \A i \in 0 .. L : i < R => f[i] <= n
    <3> SUFFICES ASSUME NEW i \in 0 .. L, i < R  PROVE f[i] <= n
      OBVIOUS
    <3>1. i <= R - 1
      BY <1>1, <2>4
    <3> QED
      BY <1>3, <2>4, <3>1
  <2>7. \A i \in 0 .. L : R <= i => n < f[i]
    <3> SUFFICES ASSUME NEW i \in 0 .. L, R <= i  PROVE n < f[i]
      OBVIOUS
    <3>1. f[R] <= f[i]
      BY <1>3, <2>4
    <3> QED
      BY <1>6, <1>7, <2>2, <3>1
  <2>8. \A i \in 0 .. L : S <= i => n <= f[i]
    BY <1>3, <1>4
  <2>9. ASSUME NEW i \in 0 .. L  PROVE f[i] = n <=> i \in S .. E
    <3>1. i < S => f[i] < n
      BY <1>8
    <3>2. S <= i => n <= f[i]
      BY <2>8
    <3>3. i < R => f[i] <= n
      BY <2>6
    <3>4. R <= i => n < f[i]
      BY <2>7
    <3>5. f[i] \in Nat /\ i \in Int /\ S \in Int /\ R \in Int
      BY <1>1, <1>4, <1>7, <2>4
    <3> QED
      BY <1>6, <2>3, <3>1, <3>2, <3>3, <3>4, <3>5
  <2>10. E \in S .. L /\ E + 1 = R
    BY <1>1, <1>4, <2>2, <2>3, <2>5
  <2> QED
    BY <2>2, <2>9, <2>10 DEF f, L, S, E
<1>10. CASE ~(n + 1 < LineCount(s))
  <2>1. E = L /\ n = f[L]
    BY <1>2, <1>5, <1>6, <1>10 DEF E, L
  <2>2. L \in 0 .. L
    BY <1>1
  <2>3. ASSUME NEW i \in 0 .. L  PROVE f[i] = n <=> i \in S .. E
    <3>1. i < S => f[i] < n
      BY <1>8
    <3>2. S <= i => n <= f[i]
      BY <1>3, <1>4
    <3>3. f[i] <= n
      BY <1>1, <1>3, <2>1, <2>2
    <3>4. f[i] \in Nat /\ i \in Int /\ i <= L /\ S \in Int
      BY <1>1, <1>4, <1>7
    <3> QED
      BY <1>1, <1>6, <2>1, <3>1, <3>2, <3>3, <3>4
  <2> QED
    BY <1>1, <1>4, <2>1, <2>3 DEF f, L, S, E
<1> QED
  BY <1>9, <1>10

\* The end of a line's text, in front of the carriage return that ends it.
TextEnd(s, n) ==
    IF LineStart(s, n) < LineEnd(s, n) /\ IsReturn(s[LineEnd(s, n)])
    THEN LineEnd(s, n) - 1 ELSE LineEnd(s, n)

LEMMA StrippedIs ==
    ASSUME NEW s \in Seq(STRING), NEW n \in 0 .. (LineCount(s) - 1)
    PROVE  /\ TextEnd(s, n) \in LineStart(s, n) .. LineEnd(s, n)
           /\ StripReturn(RawLine(s, n)) = SubSeq(s, LineStart(s, n) + 1, TextEnd(s, n))
<1> DEFINE S == LineStart(s, n)
           E == LineEnd(s, n)
           raw == RawLine(s, n)
<1>1. Len(s) \in Nat /\ S \in 0 .. Len(s) /\ E \in S .. Len(s)
  BY LenProperties, LineStartIs, LineIs
<1>2. raw = SubSeq(s, S + 1, E)
  BY DEF RawLine
<1>3. TextEnd(s, n) = IF S < E /\ IsReturn(s[E]) THEN E - 1 ELSE E
  BY DEF TextEnd
<1>4. StripReturn(raw) = IF raw # <<>> /\ IsReturn(Last(raw)) THEN Front(raw) ELSE raw
  BY Zenon DEF StripReturn, IsReturn
<1> HIDE DEF S, E, raw
<1>5. TextEnd(s, n) \in S .. E
  BY <1>1, <1>3
<1>6. raw \in Seq(STRING) /\ Len(raw) = E - S /\ \A i \in 1 .. (E - S) : raw[i] = s[S + i]
  BY <1>1, <1>2, PieceMeasures
<1>7. CASE S = E
  <2>1. raw = <<>>
    <3>1. Len(raw) = 0
      BY <1>1, <1>6, <1>7
    <3> QED
      BY <1>6, <3>1, EmptySeq
  <2>2. TextEnd(s, n) = E /\ StripReturn(raw) = raw
    <3>1. ~(S < E)
      BY <1>1, <1>7
    <3> QED
      BY <1>3, <1>4, <2>1, <3>1
  <2> QED
    BY <1>2, <1>5, <2>2 DEF S, E, raw
<1>8. CASE S < E
  <2>1. raw # <<>> /\ Last(raw) = s[E]
    <3>1. E - S \in 1 .. (E - S) /\ S + (E - S) = E
      BY <1>1, <1>8
    <3>2. raw # <<>>
      BY <1>1, <1>6, <1>8, EmptySeq
    <3> QED
      BY <1>6, <3>1, <3>2 DEF Last
  <2>2. CASE ~IsReturn(s[E])
    <3>1. TextEnd(s, n) = E /\ StripReturn(raw) = raw
      BY <1>3, <1>4, <2>1, <2>2
    <3> QED
      BY <1>2, <1>5, <3>1 DEF S, E, raw
  <2>3. CASE IsReturn(s[E])
    <3>1. TextEnd(s, n) = E - 1 /\ StripReturn(raw) = Front(raw)
      BY <1>3, <1>4, <1>8, <2>1, <2>3
    <3> DEFINE m == E - S - 1
               left == Front(raw)
               right == SubSeq(s, S + 1, E - 1)
    <3>2. m \in Nat /\ m <= E - S /\ Len(raw) - 1 = m /\ E - 1 \in S .. Len(s) /\ (E - 1) - S = m
      BY <1>1, <1>6, <1>8
    <3>3. left \in Seq(STRING) /\ Len(left) = m /\ \A i \in 1 .. m : left[i] = raw[i]
      <4>1. 1 \in 1 .. (Len(raw) + 1) /\ m \in (1 - 1) .. Len(raw) /\ m - 1 + 1 = m
        BY <1>6, <3>2
      <4>2. /\ SubSeq(raw, 1, m) \in Seq(STRING) /\ Len(SubSeq(raw, 1, m)) = m - 1 + 1
            /\ \A i \in 1 .. (m - 1 + 1) : SubSeq(raw, 1, m)[i] = raw[1 + i - 1]
        BY <1>6, <4>1, Part
      <4>3. left = SubSeq(raw, 1, m)
        BY <3>2, Zenon DEF Front
      <4>4. \A i \in 1 .. m : 1 + i - 1 = i
        BY <3>2
      <4> QED
        BY <4>1, <4>2, <4>3, <4>4, Zenon
    <3>4. right \in Seq(STRING) /\ Len(right) = m /\ \A i \in 1 .. m : right[i] = s[S + i]
      BY <1>1, <3>2, PieceMeasures
    <3> HIDE DEF left, right, m
    <3>5. \A i \in 1 .. m : left[i] = right[i]
      <4>1. \A i \in 1 .. m : i \in 1 .. (E - S)
        BY <1>1, <3>2
      <4> QED
        BY <1>6, <3>3, <3>4, <4>1
    <3>6. left = right
      BY <3>3, <3>4, <3>5, SeqEqual
    <3> QED
      BY <1>5, <3>1, <3>6 DEF left, right, raw, S, E
  <2> QED
    BY <2>2, <2>3
<1> QED
  BY <1>1, <1>7, <1>8

-----------------------------------------------------------------------------
(* The conversions.                                                        *)

\* A piece of one-byte lexemes has as many bytes as lexemes.
LEMMA NarrowBytes ==
    ASSUME NEW s \in Seq(STRING), Range(s) \cap Wide = {}, NEW k \in 0 .. Len(s)
    PROVE  ByteLen(Prefix(s, k)) = k
<1>1. Len(s) \in Nat /\ DOMAIN s = 1 .. Len(s)
  BY LenProperties
<1>2. \A i \in 1 .. k : s[i] \notin Wide /\ s[i] \notin Astral
  <2> SUFFICES ASSUME NEW i \in 1 .. k  PROVE s[i] \notin Wide /\ s[i] \notin Astral
    OBVIOUS
  <2>1. s[i] \in Range(s)
    BY <1>1 DEF Range
  <2> QED
    BY <2>1, LexerAssumption
<1>3. {i \in 1 .. k : s[i] \in Wide} = {} /\ {i \in 1 .. k : s[i] \in Astral} = {}
  BY <1>2
<1>4. CountOf(s, Wide, k) = 0 /\ CountOf(s, Astral, k) = 0
  BY <1>3, FS_EmptySet, Zenon DEF CountOf
<1>5. ByteLen(Prefix(s, k)) = k + CountOf(s, Wide, k) + 2 * CountOf(s, Astral, k)
  BY PrefixMeasures
<1> QED
  BY <1>1, <1>4, <1>5

\* As many lexemes of a piece end before a place as lie in front of it.
LEMMA WholeIs ==
    ASSUME NEW s \in Seq(STRING), NEW a \in 0 .. Len(s), NEW e \in a .. Len(s), NEW i \in a .. e
    PROVE  Whole(SubSeq(s, a + 1, e), BytesAt(s)[i] - BytesAt(s)[a]) = i - a
<1> DEFINE line == SubSeq(s, a + 1, e)
           b == BytesAt(s)
           byte == b[i] - b[a]
           m == i - a
<1>1. Len(s) \in Nat /\ a \in Nat /\ i \in 0 .. Len(s) /\ e \in 0 .. Len(s)
  BY LenProperties
<1>2. /\ line \in Seq(STRING) /\ Len(line) = e - a
      /\ \A k \in 0 .. (e - a) : ByteLen(Prefix(line, k)) = b[a + k] - b[a]
  BY PieceMeasures
<1>3. \A p, q \in 0 .. Len(s) : p <= q <=> b[p] <= b[q]
  BY MeasuresGrow
<1>4. b \in [0 .. Len(s) -> Nat]
  BY MeasureSteps
<1>5. Whole(line, byte) =
        IF Range(line) \cap Wide = {} THEN Min({Len(line), byte})
        ELSE Cardinality({k \in DOMAIN line : ByteLen(Prefix(line, k)) <= byte})
  BY Zenon DEF Whole
<1>6. DOMAIN line = 1 .. (e - a)
  BY <1>2, LenProperties
<1> HIDE DEF line, b
<1>7. m \in 0 .. (e - a) /\ a + m = i /\ byte = ByteLen(Prefix(line, m))
  BY <1>1, <1>2
<1>8. CASE Range(line) \cap Wide = {}
  <2>1. byte = m
    BY <1>2, <1>7, <1>8, NarrowBytes
  <2>2. {Len(line), byte} \in SUBSET Nat /\ {Len(line), byte} # {} /\ m <= Len(line)
    BY <1>1, <1>2, <1>7, <2>1
  <2>3. Min({Len(line), byte}) \in {Len(line), byte} /\ Min({Len(line), byte}) <= byte
    BY <2>2, LeastIsMin
  <2>4. Min({Len(line), byte}) = m
    BY <1>1, <1>2, <1>7, <2>1, <2>2, <2>3
  <2> QED
    BY <1>5, <1>8, <2>4 DEF line, b
<1>9. CASE Range(line) \cap Wide # {}
  <2>1. ASSUME NEW k \in 1 .. (e - a)
        PROVE  ByteLen(Prefix(line, k)) <= byte <=> k <= m
    <3>1. k \in 0 .. (e - a) /\ a + k \in 0 .. Len(s) /\ (a + k <= i <=> k <= m)
      BY <1>1
    <3>2. ByteLen(Prefix(line, k)) = b[a + k] - b[a]
      BY <1>2, <3>1
    <3>3. b[a + k] \in Nat /\ b[a] \in Nat /\ b[i] \in Nat
      BY <1>1, <1>4, <3>1
    <3>4. a + k <= i <=> b[a + k] <= b[i]
      BY <1>1, <1>3, <3>1
    <3> QED
      BY <3>1, <3>2, <3>3, <3>4
  <2>2. {k \in DOMAIN line : ByteLen(Prefix(line, k)) <= byte} = 1 .. m
    <3>1. \A k : k \in 1 .. m <=> k \in 1 .. (e - a) /\ k <= m
      BY <1>1, <1>7
    <3> HIDE DEF m, byte
    <3> QED
      BY <1>6, <2>1, <3>1
  <2>3. Cardinality(1 .. m) = m
    <3>1. 1 \in Int /\ m \in Int /\ (IF 1 > m THEN 0 ELSE m - 1 + 1) = m
      BY <1>1, <1>7
    <3> QED
      BY <3>1, FS_Interval
  <2>4. Whole(line, byte) = m
    BY <1>5, <1>9, <2>2, <2>3, Zenon
  <2> QED
    BY <2>4 DEF line, b
<1> QED
  BY <1>8, <1>9

\* lsp_position_to_offset: on line n, the last place of its text that is not
\* behind the column.
LEMMA ToOffset ==
    ASSUME NEW s \in Seq(STRING), NEW n \in 0 .. (LineCount(s) - 1), NEW c \in Nat
    PROVE  \E i \in LineStart(s, n) .. TextEnd(s, n) :
             /\ LspPositionToOffset(s, <<n, c>>) = BytesAt(s)[i]
             /\ UnitsAt(s)[i] - UnitsAt(s)[LineStart(s, n)] <= c
             /\ \A j \in LineStart(s, n) .. TextEnd(s, n) :
                  UnitsAt(s)[j] - UnitsAt(s)[LineStart(s, n)] <= c => j <= i
<1> DEFINE S == LineStart(s, n)
           E == TextEnd(s, n)
           b == BytesAt(s)
           u == UnitsAt(s)
           line == StripReturn(RawLine(s, n))
           Q == {k \in 0 .. Len(line) : Units(Prefix(line, k)) <= c}
<1>1. /\ Len(s) \in Nat /\ S \in 0 .. Len(s) /\ E \in S .. Len(s)
      /\ LineEnd(s, n) \in S .. Len(s)
  <2>1. /\ Len(s) \in Nat /\ S \in 0 .. Len(s) /\ LineEnd(s, n) \in S .. Len(s)
        /\ E \in S .. LineEnd(s, n)
    BY LenProperties, LineStartIs, LineIs, StrippedIs
  <2> HIDE DEF S, E
  <2> QED
    BY <2>1
<1>2. line = SubSeq(s, S + 1, E)
  BY StrippedIs
<1>3. /\ n < LineCount(s)
      /\ <<n, c>>[1] = n /\ <<n, c>>[2] = c
  <2>1. LineCount(s) \in Int
    BY <1>1, LineSteps
  <2> QED
    BY <2>1
<1>4. LspPositionToOffset(s, <<n, c>>) = LineStartOffset(s, n) + Utf16ColToByteOffset(line, c)
  <2>1. ~(n >= LineCount(s))
    <3>1. LineCount(s) \in Int /\ n \in Int
      BY <1>1, LineSteps
    <3> QED
      BY <1>3, <3>1
  <2> QED
    BY <1>3, <2>1, Zenon DEF LspPositionToOffset
<1>5. LineStartOffset(s, n) = b[S]
  BY <1>1, Zenon DEF LineStartOffset, BytesAt
<1>6. Utf16ColToByteOffset(line, c) = ByteLen(Prefix(line, Max(Q)))
  BY Zenon DEF Utf16ColToByteOffset
<1>7. b \in [0 .. Len(s) -> Nat] /\ u \in [0 .. Len(s) -> Nat]
  BY MeasureSteps
<1> HIDE DEF S, E, b, u, line
<1>8. /\ line \in Seq(STRING) /\ Len(line) = E - S
      /\ \A k \in 0 .. (E - S) : /\ ByteLen(Prefix(line, k)) = b[S + k] - b[S]
                                 /\ Units(Prefix(line, k)) = u[S + k] - u[S]
  BY <1>1, <1>2, PieceMeasures DEF b, u
<1>9. E - S \in Nat /\ u[S] \in Nat /\ b[S] \in Nat /\ c \in Nat
  BY <1>1, <1>7
<1>10. Q \in SUBSET (0 .. (E - S)) /\ 0 \in Q
  <2>1. 0 \in 0 .. (E - S) /\ S + 0 = S
    BY <1>1, <1>9
  <2>2. Units(Prefix(line, 0)) = u[S] - u[S]
    BY <1>8, <2>1
  <2>3. u[S] - u[S] <= c
    BY <1>9
  <2> QED
    BY <1>8, <2>1, <2>2, <2>3
<1>11. \A k : k \in Q <=> k \in 0 .. (E - S) /\ u[S + k] - u[S] <= c
  BY <1>8
<1> DEFINE m == Max(Q)
<1> HIDE DEF Q
<1>12. m \in Q /\ \A k \in Q : k <= m
  BY <1>9, <1>10, GreatestIsMax
<1>13. m \in 0 .. (E - S) /\ u[S + m] - u[S] <= c
  BY <1>11, <1>12
<1> DEFINE i == S + m
<1> HIDE DEF m
<1>14. i \in S .. E /\ i \in 0 .. Len(s)
  BY <1>1, <1>13
<1>15. LspPositionToOffset(s, <<n, c>>) = b[i]
  <2>1. LspPositionToOffset(s, <<n, c>>) = b[S] + (b[i] - b[S])
    BY <1>4, <1>5, <1>6, <1>8, <1>13 DEF m
  <2>2. b[i] \in Nat /\ b[S] \in Nat
    BY <1>7, <1>9, <1>14
  <2> HIDE DEF i
  <2> QED
    BY <2>1, <2>2
<1>16. ASSUME NEW j \in S .. E, u[j] - u[S] <= c  PROVE j <= i
  <2>1. j - S \in 0 .. (E - S) /\ S + (j - S) = j
    BY <1>1
  <2>2. u[S + (j - S)] - u[S] <= c
    BY <1>16, <2>1
  <2>3. j - S \in Q
    BY <1>11, <2>1, <2>2
  <2>4. j - S <= m
    BY <1>12, <2>3
  <2> QED
    BY <1>1, <1>13, <2>4
<1> QED
  BY <1>13, <1>14, <1>15, <1>16 DEF S, E, b, u

\* offset_to_linecol finds the line of a place.
LEMMA LinecolIs ==
    ASSUME NEW s \in Seq(STRING), NEW i \in 0 .. Len(s)
    PROVE  LET n == LineAt(s)[i] IN
           /\ n \in 0 .. (LineCount(s) - 1) /\ i \in LineStart(s, n) .. LineEnd(s, n)
           /\ OffsetToLinecol(s, BytesAt(s)[i]) =
                <<n, BytesAt(s)[i] - BytesAt(s)[LineStart(s, n)]>>
<1> DEFINE f == LineAt(s)
           b == BytesAt(s)
           N == LineCount(s)
           n == f[i]
           offset == b[i]
           Q == {k \in 0 .. (N - 1) : k = 0 \/ LineStartOffset(s, k) <= offset}
           line == Max(Q)
<1>1. Len(s) \in Nat /\ Len(s) \in 0 .. Len(s)
  BY LenProperties
<1>2. f \in [0 .. Len(s) -> Nat] /\ N = f[Len(s)] + 1
  BY LineSteps
<1>3. \A p, q \in 0 .. Len(s) : /\ p <= q => f[p] <= f[q]
                                /\ p <= q <=> b[p] <= b[q]
  BY LinesGrow, MeasuresGrow
<1>4. \A k \in 0 .. (N - 1) : LineStart(s, k) \in 0 .. Len(s) /\ f[LineStart(s, k)] = k
  BY LineStartIs
<1>5. \A k \in 0 .. (N - 1) : LineStartOffset(s, k) = b[LineStart(s, k)]
  BY <1>4, Zenon DEF LineStartOffset, BytesAt
<1>6. OffsetToLinecol(s, offset) = <<line, offset - LineStartOffset(s, line)>>
  BY Zenon DEF OffsetToLinecol
<1>7. n \in 0 .. (N - 1) /\ N \in Nat
  <2>1. f[i] \in Nat /\ f[Len(s)] \in Nat /\ f[i] <= f[Len(s)]
    BY <1>1, <1>2, <1>3
  <2> QED
    BY <1>2, <2>1
<1>8. i \in LineStart(s, n) .. LineEnd(s, n)
  BY <1>7, LineIs
<1> HIDE DEF f, b, N, n
<1>9. LineStart(s, n) <= i
  BY <1>4, <1>7, <1>8
<1>10. n \in Q
  BY <1>3, <1>4, <1>5, <1>7, <1>9
<1>11. ASSUME NEW k \in Q  PROVE k <= n
  <2>1. CASE k = 0
    BY <1>7, <2>1
  <2>2. CASE k # 0
    <3>1. k \in 0 .. (N - 1) /\ LineStartOffset(s, k) <= offset
      BY <2>2
    <3>2. LineStart(s, k) \in 0 .. Len(s) /\ b[LineStart(s, k)] <= b[i] /\ f[LineStart(s, k)] = k
      BY <1>4, <1>5, <3>1
    <3>3. LineStart(s, k) <= i
      BY <1>3, <3>2
    <3> QED
      BY <1>3, <3>2, <3>3 DEF n
  <2> QED
    BY <2>1, <2>2
<1>12. Q \in SUBSET (0 .. (N - 1)) /\ N - 1 \in Nat
  BY <1>7
<1> HIDE DEF Q
<1>13. line \in Q /\ \A k \in Q : k <= line
  BY <1>10, <1>12, GreatestIsMax
<1> HIDE DEF line
<1>14. line = n
  <2>1. line <= n /\ n <= line
    BY <1>10, <1>11, <1>13
  <2>2. line \in Int /\ n \in Int
    BY <1>7, <1>12, <1>13
  <2> QED
    BY <2>1, <2>2
<1> QED
  BY <1>5, <1>6, <1>7, <1>8, <1>14 DEF f, b, N, n

\* The text of a line by str::lines reaches at least as far as it does without
\* a carriage return.
LEMMA LineTextIs ==
    ASSUME NEW s \in Seq(STRING), NEW n \in 0 .. (LineCount(s) - 1)
    PROVE  \E e \in TextEnd(s, n) .. LineEnd(s, n) :
             LineTextAt(s, n) = SubSeq(s, LineStart(s, n) + 1, e)
<1>1. /\ StripReturn(RawLine(s, n)) = SubSeq(s, LineStart(s, n) + 1, TextEnd(s, n))
      /\ TextEnd(s, n) \in LineStart(s, n) .. LineEnd(s, n)
  BY StrippedIs
<1>2. RawLine(s, n) = SubSeq(s, LineStart(s, n) + 1, LineEnd(s, n))
  BY DEF RawLine
<1>3. LineStart(s, n) \in Int /\ LineEnd(s, n) \in Int
  <2>1. /\ LineStart(s, n) \in 0 .. Len(s) /\ LineEnd(s, n) \in LineStart(s, n) .. Len(s)
        /\ Len(s) \in Nat
    BY LenProperties, LineStartIs, LineIs
  <2> QED
    BY <2>1
<1>4. /\ TextEnd(s, n) \in TextEnd(s, n) .. LineEnd(s, n)
      /\ LineEnd(s, n) \in TextEnd(s, n) .. LineEnd(s, n)
  BY <1>1, <1>3
<1>5. ~(n >= LineCount(s))
  <2>1. LineCount(s) \in Int
    <3>1. LineCount(s) = LineAt(s)[Len(s)] + 1 /\ LineAt(s)[Len(s)] \in Nat
      BY LenProperties, LineSteps
    <3> QED
      BY <3>1
  <2> QED
    BY <2>1
<1>6. LineTextAt(s, n) = RawLine(s, n) \/ LineTextAt(s, n) = StripReturn(RawLine(s, n))
  BY <1>5, Zenon DEF LineTextAt
<1> QED
  BY <1>1, <1>2, <1>4, <1>6, Zenon

\* offset_to_lsp_position: the line of the place, and its units from there.
LEMMA ToPosition ==
    ASSUME NEW s \in Seq(STRING), NEW i \in 0 .. Len(s)
    PROVE  LET n == LineAt(s)[i] IN
           /\ OffsetToLspPosition(s, BytesAt(s)[i])[1] = n
           /\ i <= TextEnd(s, n) =>
                OffsetToLspPosition(s, BytesAt(s)[i]) =
                  <<n, UnitsAt(s)[i] - UnitsAt(s)[LineStart(s, n)]>>
<1> DEFINE n == LineAt(s)[i]
           S == LineStart(s, n)
           byte == BytesAt(s)[i] - BytesAt(s)[S]
           line == LineTextAt(s, n)
<1>1. /\ n \in 0 .. (LineCount(s) - 1) /\ i \in S .. LineEnd(s, n)
      /\ OffsetToLinecol(s, BytesAt(s)[i]) = <<n, byte>>
  BY LinecolIs
<1>2. OffsetToLspPosition(s, BytesAt(s)[i]) = <<n, ByteOffsetToUtf16Col(line, byte)>>
  BY <1>1 DEF OffsetToLspPosition
<1> HIDE DEF n
<1>3. /\ Len(s) \in Nat /\ S \in 0 .. Len(s) /\ LineEnd(s, n) \in S .. Len(s)
      /\ TextEnd(s, n) \in S .. LineEnd(s, n)
  BY <1>1, LenProperties, LineStartIs, LineIs, StrippedIs
<1>4. PICK e \in TextEnd(s, n) .. LineEnd(s, n) : line = SubSeq(s, S + 1, e)
  BY <1>1, LineTextIs
<1> HIDE DEF S, line
<1>5. ASSUME i <= TextEnd(s, n)
      PROVE  ByteOffsetToUtf16Col(line, byte) = UnitsAt(s)[i] - UnitsAt(s)[S]
  <2>1. e \in S .. Len(s) /\ i \in S .. e /\ i - S \in 0 .. (e - S) /\ S + (i - S) = i
    BY <1>1, <1>3, <1>4, <1>5
  <2>2. Whole(line, byte) = i - S
    BY <1>3, <1>4, <2>1, WholeIs
  <2>3. Units(Prefix(line, i - S)) = UnitsAt(s)[S + (i - S)] - UnitsAt(s)[S]
    BY <1>3, <1>4, <2>1, PieceMeasures
  <2> QED
    BY <2>1, <2>2, <2>3, Zenon DEF ByteOffsetToUtf16Col
<1> QED
  BY <1>2, <1>5 DEF n, S

-----------------------------------------------------------------------------
(* The round trip.                                                         *)

\* A place is not behind the carriage return that ends its line.
InFront(s, i) ==
    (i > 0 /\ IsReturn(s[i])) => (i < Len(s) /\ ~IsFeed(s[i + 1]))

LEMMA PlacesAre ==
    ASSUME NEW s \in Seq(STRING)
    PROVE  \A offset : offset \in Places(s) <=>
             \E i \in 0 .. Len(s) : InFront(s, i) /\ offset = BytesAt(s)[i]
<1>1. \A i \in 0 .. Len(s) : ByteLen(Prefix(s, i)) = BytesAt(s)[i]
  BY Zenon DEF BytesAt
<1>2. \A c : (c = "\r" <=> IsReturn(c)) /\ (c = "\n" <=> IsFeed(c))
  BY DEF IsReturn, IsFeed, Feed
<1> DEFINE Free == {j \in 0 .. Len(s) : (j > 0 /\ s[j] = "\r")
                                          => (j < Len(s) /\ s[j + 1] # "\n")}
<1>3. \A i : i \in Free <=> i \in 0 .. Len(s) /\ InFront(s, i)
  BY <1>2, Zenon DEF InFront
<1>4. Places(s) = {ByteLen(Prefix(s, i)) : i \in Free}
  BY Zenon DEF Places
<1> HIDE DEF Free
<1>5. \A offset : offset \in Places(s) <=> \E i \in Free : offset = ByteLen(Prefix(s, i))
  BY <1>4, Zenon
<1> QED
  BY <1>1, <1>3, <1>5, ZenonT(30)

LEMMA PlacesAreText ==
    ASSUME NEW s \in Seq(STRING), NEW i \in 0 .. Len(s)
    PROVE  InFront(s, i) <=> i <= TextEnd(s, LineAt(s)[i])
<1> DEFINE n == LineAt(s)[i]
           S == LineStart(s, n)
           E == LineEnd(s, n)
<1>1. n \in 0 .. (LineCount(s) - 1) /\ i \in S .. E /\ Len(s) \in Nat
  BY LinecolIs, LenProperties
<1>2. TextEnd(s, n) = IF S < E /\ IsReturn(s[E]) THEN E - 1 ELSE E
  BY DEF TextEnd
<1>3. /\ LineAt(s) \in [0 .. Len(s) -> Nat]
      /\ \A j \in 1 .. Len(s) :
           LineAt(s)[j] = LineAt(s)[j - 1] + (IF IsFeed(s[j]) THEN 1 ELSE 0)
  BY LineSteps
<1>4. LineAt(s)[i] = n
  OBVIOUS
<1> HIDE DEF n
<1>5. /\ S \in 0 .. Len(s) /\ (n = 0 => S = 0) /\ (n > 0 => IsFeed(s[S]))
      /\ E \in S .. Len(s)
      /\ \A j \in 0 .. Len(s) : LineAt(s)[j] = n <=> j \in S .. E
      /\ E = Len(s) \/ IsFeed(s[E + 1])
  BY <1>1, LineStartIs, LineIs
<1>6. \A c : ~(IsFeed(c) /\ IsReturn(c))
  BY DEF IsFeed, Feed, IsReturn
<1>7. n \in Nat
  BY <1>3, <1>4
<1> HIDE DEF S, E
<1>8. ASSUME InFront(s, i)  PROVE i <= TextEnd(s, n)
  <2>1. CASE S < E /\ IsReturn(s[E])
    <3>1. i # E
      <4> SUFFICES ASSUME i = E  PROVE FALSE
        OBVIOUS
      <4>1. i > 0 /\ IsReturn(s[i])
        BY <1>5, <2>1
      <4>2. i < Len(s) /\ ~IsFeed(s[i + 1])
        BY <1>8, <4>1 DEF InFront
      <4> QED
        BY <1>1, <1>5, <4>2
    <3> QED
      BY <1>1, <1>2, <1>5, <2>1, <3>1
  <2>2. CASE ~(S < E /\ IsReturn(s[E]))
    BY <1>1, <1>2, <1>5, <2>2
  <2> QED
    BY <2>1, <2>2
<1>9. ASSUME i <= TextEnd(s, n), i > 0, IsReturn(s[i])
      PROVE  i < Len(s) /\ ~IsFeed(s[i + 1])
  <2>1. i # S
    BY <1>5, <1>6, <1>7, <1>9
  <2>2. S < i
    BY <1>1, <1>5, <2>1
  <2>3. i # E
    <3> SUFFICES ASSUME i = E  PROVE FALSE
      OBVIOUS
    <3>1. TextEnd(s, n) = E - 1
      BY <1>2, <1>9, <2>2
    <3> QED
      BY <1>5, <1>9, <3>1
  <2>4. i < E /\ i < Len(s) /\ i + 1 \in S .. E /\ i + 1 \in 1 .. Len(s) /\ i + 1 \in 0 .. Len(s)
        /\ (i + 1) - 1 = i
    BY <1>1, <1>5, <2>3
  <2>5. LineAt(s)[i + 1] = n
    BY <1>5, <2>4
  <2>6. LineAt(s)[i + 1] = LineAt(s)[i] + (IF IsFeed(s[i + 1]) THEN 1 ELSE 0)
    BY <1>3, <2>4
  <2>7. ~IsFeed(s[i + 1])
    BY <1>4, <1>7, <2>5, <2>6
  <2> QED
    BY <2>4, <2>7
<1> QED
  BY <1>4, <1>8, <1>9 DEF InFront

\* A place comes back from its position.
LEMMA PlacesComeBack ==
    ASSUME NEW s \in Seq(STRING), NEW offset \in Places(s)
    PROVE  LspPositionToOffset(s, OffsetToLspPosition(s, offset)) = offset
<1>1. PICK i \in 0 .. Len(s) : InFront(s, i) /\ offset = BytesAt(s)[i]
  BY PlacesAre
<1> DEFINE n == LineAt(s)[i]
           S == LineStart(s, n)
           c == UnitsAt(s)[i] - UnitsAt(s)[S]
<1>2. i <= TextEnd(s, n)
  BY <1>1, PlacesAreText
<1>3. n \in 0 .. (LineCount(s) - 1) /\ i \in S .. LineEnd(s, n)
  BY LinecolIs
<1>4. OffsetToLspPosition(s, offset) = <<n, c>>
  BY <1>1, <1>2, ToPosition
<1> HIDE DEF n
<1>5. /\ Len(s) \in Nat /\ S \in 0 .. Len(s) /\ LineEnd(s, n) \in S .. Len(s)
      /\ TextEnd(s, n) \in S .. LineEnd(s, n)
  BY <1>3, LenProperties, LineStartIs, LineIs, StrippedIs
<1>6. UnitsAt(s) \in [0 .. Len(s) -> Nat]
  BY MeasureSteps
<1>7. \A p, q \in 0 .. Len(s) : p <= q <=> UnitsAt(s)[p] <= UnitsAt(s)[q]
  BY MeasuresGrow
<1> HIDE DEF S
<1>8. i \in S .. TextEnd(s, n) /\ S <= i
  BY <1>2, <1>3, <1>5
<1>9. UnitsAt(s)[i] \in Nat /\ UnitsAt(s)[S] \in Nat /\ UnitsAt(s)[S] <= UnitsAt(s)[i]
  BY <1>5, <1>6, <1>7, <1>8
<1>10. c \in Nat
  BY <1>9
<1>11. PICK k \in S .. TextEnd(s, n) :
         /\ LspPositionToOffset(s, <<n, c>>) = BytesAt(s)[k]
         /\ UnitsAt(s)[k] - UnitsAt(s)[S] <= c
         /\ \A j \in S .. TextEnd(s, n) : UnitsAt(s)[j] - UnitsAt(s)[S] <= c => j <= k
  BY <1>3, <1>10, ToOffset DEF S
<1>12. i <= k
  BY <1>8, <1>10, <1>11
<1>13. k \in 0 .. Len(s)
  BY <1>5, <1>11
<1>14. UnitsAt(s)[k] \in Nat
  BY <1>6, <1>13
<1>15. UnitsAt(s)[k] <= UnitsAt(s)[i]
  BY <1>9, <1>11, <1>14
<1>16. k <= i
  BY <1>7, <1>13, <1>15
<1>17. k = i
  BY <1>12, <1>13, <1>16
<1> QED
  BY <1>1, <1>4, <1>11, <1>17

\* Any position of the protocol becomes a place that is not behind it.
LEMMA PositionsAreFloored ==
    ASSUME NEW s \in Seq(STRING), NEW n \in Nat, NEW c \in Nat
    PROVE  LET offset == LspPositionToOffset(s, <<n, c>>) IN
           /\ IF n < LineCount(s) THEN offset \in Places(s) ELSE offset = ByteLen(s)
           /\ \E i \in 0 .. Len(s) : offset = BytesAt(s)[i]
           /\ Before(OffsetToLspPosition(s, offset), <<n, c>>)
<1> DEFINE offset == LspPositionToOffset(s, <<n, c>>)
<1>1. /\ Len(s) \in Nat /\ LineAt(s) \in [0 .. Len(s) -> Nat]
      /\ LineCount(s) = LineAt(s)[Len(s)] + 1
  BY LenProperties, LineSteps
<1>2. LineCount(s) \in Nat
  BY <1>1
<1>3. <<n, c>>[1] = n /\ <<n, c>>[2] = c
  OBVIOUS
<1>4. CASE n < LineCount(s)
  <2>1. n \in 0 .. (LineCount(s) - 1)
    BY <1>2, <1>4
  <2>2. PICK i \in LineStart(s, n) .. TextEnd(s, n) :
          /\ offset = BytesAt(s)[i]
          /\ UnitsAt(s)[i] - UnitsAt(s)[LineStart(s, n)] <= c
    BY <2>1, ToOffset
  <2>3. /\ LineStart(s, n) \in 0 .. Len(s) /\ LineEnd(s, n) \in LineStart(s, n) .. Len(s)
        /\ TextEnd(s, n) \in LineStart(s, n) .. LineEnd(s, n)
        /\ \A j \in 0 .. Len(s) :
             LineAt(s)[j] = n <=> j \in LineStart(s, n) .. LineEnd(s, n)
    BY <2>1, LineStartIs, LineIs, StrippedIs
  <2> HIDE DEF offset
  <2>4. /\ i \in 0 .. Len(s) /\ i \in LineStart(s, n) .. LineEnd(s, n) /\ i <= TextEnd(s, n)
    BY <1>1, <2>3
  <2>5. LineAt(s)[i] = n
    BY <2>3, <2>4
  <2>6. InFront(s, i)
    BY <2>4, <2>5, PlacesAreText
  <2>7. offset \in Places(s)
    BY <2>2, <2>4, <2>6, PlacesAre
  <2>8. OffsetToLspPosition(s, offset) =
          <<n, UnitsAt(s)[i] - UnitsAt(s)[LineStart(s, n)]>>
    BY <2>2, <2>4, <2>5, ToPosition
  <2>9. Before(OffsetToLspPosition(s, offset), <<n, c>>)
    BY <2>2, <2>8 DEF Before
  <2> QED
    BY <1>4, <2>2, <2>4, <2>7, <2>9 DEF offset
<1>5. CASE ~(n < LineCount(s))
  <2>1. n >= LineCount(s) /\ Len(s) \in 0 .. Len(s)
    BY <1>1, <1>2, <1>5
  <2>2. offset = ByteLen(s)
    BY <1>3, <2>1, Zenon DEF LspPositionToOffset
  <2>3. ByteLen(s) = BytesAt(s)[Len(s)]
    <3>1. Prefix(s, Len(s)) = s
      BY SubSeqFull DEF Prefix
    <3> QED
      BY <2>1, <3>1, Zenon DEF BytesAt
  <2>4. OffsetToLspPosition(s, BytesAt(s)[Len(s)])[1] = LineAt(s)[Len(s)]
    BY <2>1, ToPosition
  <2> HIDE DEF offset
  <2>5. OffsetToLspPosition(s, offset)[1] < n
    <3>1. LineAt(s)[Len(s)] \in Nat
      BY <1>1, <2>1
    <3>2. LineAt(s)[Len(s)] < n
      BY <1>1, <2>1, <3>1
    <3> QED
      BY <2>2, <2>3, <2>4, <3>2
  <2>6. Before(OffsetToLspPosition(s, offset), <<n, c>>)
    BY <1>3, <2>5 DEF Before
  <2> QED
    BY <1>5, <2>1, <2>2, <2>3, <2>6 DEF offset
<1> QED
  BY <1>4, <1>5

\* Positions keep their order.
LEMMA PositionsKeepOrder ==
    ASSUME NEW s \in Seq(STRING), NEW n \in Nat, NEW c \in Nat, NEW m \in Nat, NEW d \in Nat,
           Before(<<n, c>>, <<m, d>>)
    PROVE  LspPositionToOffset(s, <<n, c>>) <= LspPositionToOffset(s, <<m, d>>)
<1> DEFINE x == LspPositionToOffset(s, <<n, c>>)
           y == LspPositionToOffset(s, <<m, d>>)
           b == BytesAt(s)
           u == UnitsAt(s)
<1>1. /\ Len(s) \in Nat /\ LineAt(s) \in [0 .. Len(s) -> Nat]
      /\ LineCount(s) = LineAt(s)[Len(s)] + 1
  BY LenProperties, LineSteps
<1>2. LineCount(s) \in Nat
  BY <1>1
<1>3. n < m \/ (n = m /\ c <= d)
  BY DEF Before
<1>4. /\ \A i, j \in 0 .. Len(s) : i <= j => LineAt(s)[i] <= LineAt(s)[j]
      /\ \A i, j \in 0 .. Len(s) : i <= j <=> b[i] <= b[j]
  BY LinesGrow, MeasuresGrow
<1>5. u \in [0 .. Len(s) -> Nat]
  BY MeasureSteps
<1>6. ByteLen(s) = b[Len(s)]
  <2>1. Prefix(s, Len(s)) = s
    BY SubSeqFull DEF Prefix
  <2>2. Len(s) \in 0 .. Len(s)
    BY <1>1
  <2> QED
    BY <2>1, <2>2, Zenon DEF BytesAt
<1>7. CASE ~(m < LineCount(s))
  <2>1. y = ByteLen(s)
    BY <1>7, PositionsAreFloored
  <2>2. PICK i \in 0 .. Len(s) : x = b[i]
    BY PositionsAreFloored
  <2> HIDE DEF x, y, b
  <2>3. b[i] <= b[Len(s)]
    BY <1>1, <1>4
  <2> QED
    BY <1>6, <2>1, <2>2, <2>3 DEF x, y
<1>8. CASE m < LineCount(s)
  <2>1. n \in 0 .. (LineCount(s) - 1) /\ m \in 0 .. (LineCount(s) - 1)
    BY <1>2, <1>3, <1>8
  <2> DEFINE S == LineStart(s, n)
             R == LineStart(s, m)
  <2>2. PICK i \in S .. TextEnd(s, n) : x = b[i] /\ u[i] - u[S] <= c
    BY <2>1, ToOffset
  <2>3. PICK j \in R .. TextEnd(s, m) :
          /\ y = b[j]
          /\ \A k \in R .. TextEnd(s, m) : u[k] - u[R] <= d => k <= j
    BY <2>1, ToOffset
  <2>4. /\ S \in 0 .. Len(s) /\ LineEnd(s, n) \in S .. Len(s) /\ TextEnd(s, n) \in S .. LineEnd(s, n)
        /\ R \in 0 .. Len(s) /\ LineEnd(s, m) \in R .. Len(s) /\ TextEnd(s, m) \in R .. LineEnd(s, m)
        /\ \A k \in 0 .. Len(s) : LineAt(s)[k] = n <=> k \in S .. LineEnd(s, n)
        /\ \A k \in 0 .. Len(s) : LineAt(s)[k] = m <=> k \in R .. LineEnd(s, m)
    BY <2>1, LineStartIs, LineIs, StrippedIs
  <2> HIDE DEF x, y, b, u, S, R
  <2>5. /\ i \in 0 .. Len(s) /\ i \in S .. LineEnd(s, n)
        /\ j \in 0 .. Len(s) /\ j \in R .. LineEnd(s, m)
    BY <1>1, <2>4
  <2>6. LineAt(s)[i] = n /\ LineAt(s)[j] = m
    BY <2>4, <2>5
  <2>7. i <= j
    <3>1. CASE n < m
      <4>1. ~(j <= i)
        BY <1>4, <2>5, <2>6, <3>1
      <4> QED
        BY <1>1, <2>5, <4>1
    <3>2. CASE n = m /\ c <= d
      <4>1. S = R
        BY <3>2 DEF S, R
      <4>2. u[i] \in Nat /\ u[S] \in Nat
        BY <1>5, <2>4, <2>5
      <4>3. u[i] - u[R] <= d
        BY <2>2, <3>2, <4>1, <4>2
      <4> QED
        BY <2>3, <3>2, <4>1, <4>3
    <3> QED
      BY <1>3, <3>1, <3>2
  <2>8. b[i] <= b[j]
    BY <1>4, <2>5, <2>7
  <2> QED
    BY <2>2, <2>3, <2>8 DEF x, y
<1> QED
  BY <1>7, <1>8

-----------------------------------------------------------------------------
\* In every text, places and positions convert into each other without a loss:
\* past every line end, byte width and surrogate pair that position.rs and the
\* helpers of backend.rs count separately.
THEOREM PositionsAreRight == LexerSpec => []PositionsRoundTrip
<1>1. Init => text \in Seq(STRING)
  BY LexerAssumption DEF Init
<1>2. text \in Seq(STRING) /\ [NextToken]_lexer => (text \in Seq(STRING))'
  BY TextIsKept
<1>3. text \in Seq(STRING) => PositionsRoundTrip
  <2> SUFFICES ASSUME text \in Seq(STRING)  PROVE PositionsRoundTrip
    OBVIOUS
  <2>1. \A offset \in Places(text) :
          LspPositionToOffset(text, OffsetToLspPosition(text, offset)) = offset
    BY PlacesComeBack
  <2>2. ASSUME NEW p \in Positions(text)
        PROVE  LET offset == LspPositionToOffset(text, p) IN
               /\ IF p[1] < LineCount(text) THEN offset \in Places(text)
                                            ELSE offset = ByteLen(text)
               /\ Before(OffsetToLspPosition(text, offset), p)
               /\ \A q \in Positions(text) :
                    Before(p, q) => offset <= LspPositionToOffset(text, q)
    <3>1. ASSUME NEW r \in Positions(text)
          PROVE  \E n, c \in Nat : r = <<n, c>> /\ r[1] = n
      <4>1. r \in (0 .. LineCount(text)) \X (0 .. Units(text) + 1)
        BY Zenon DEF Positions
      <4> QED
        BY <4>1
    <3>2. PICK n, c \in Nat : p = <<n, c>> /\ p[1] = n
      BY <3>1
    <3>3. ASSUME NEW q \in Positions(text), Before(p, q)
          PROVE  LspPositionToOffset(text, p) <= LspPositionToOffset(text, q)
      <4>1. PICK m, d \in Nat : q = <<m, d>>
        BY <3>1
      <4> QED
        BY <3>2, <3>3, <4>1, PositionsKeepOrder
    <3>4. LET offset == LspPositionToOffset(text, p) IN
          /\ IF p[1] < LineCount(text) THEN offset \in Places(text)
                                       ELSE offset = ByteLen(text)
          /\ Before(OffsetToLspPosition(text, offset), p)
      BY <3>2, PositionsAreFloored
    <3> QED
      BY <3>3, <3>4
  <2> QED
    BY <2>1, <2>2, Zenon DEF PositionsRoundTrip
<1> QED
  BY <1>1, <1>2, <1>3, PTL DEF LexerSpec
=============================================================================
