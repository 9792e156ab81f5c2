--------------------------- MODULE CheckDocument ---------------------------
(***************************************************************************)
(* skript-checks/src/lib.rs, check_document: the scan of a script line by  *)
(* line, with its ### block comments, options: blocks, directives, calls   *)
(* of the document's own functions, and the column spans it reports.       *)
(*                                                                         *)
(* A line is a sequence of tokens, each one column wide:                   *)
(*   "_"    white space              "'"    a double quote                 *)
(*   "#"    a run of hashes, not 3   "###"  a run of exactly 3 hashes      *)
(*   "ok"   text that some pattern matches                                 *)
(*   "bad"  text no pattern matches (an options entry outside its block)   *)
(*   "wide" like "bad", its fifth byte inside a multi-byte character       *)
(*   "opt"  options:   "dir" another directive key   "use" using ...       *)
(*   "fun"  function f(...)   "call" f(...)                                *)
(* A line that matches may still earn a warning (evaluate_matches); here   *)
(* a diagnostic is an `unparseable`.                                       *)
(***************************************************************************)
EXTENDS Integers, Sequences, FiniteSets, FiniteSetsExt

CONSTANTS Shapes,     \* the lines a document may consist of
          MaxLines    \* bound on the length of a document

VARIABLES
  doc,          \* the document
  next,         \* the line the loop is at
  inBlock,      \* in_block_comment
  options,      \* options_indent; NoIndent is None
  diags,        \* what has been pushed to `out`
  panicked      \* the scan unwound

vars == <<doc, next, inBlock, options, diags, panicked>>

NoIndent == -1

Init ==
  /\ doc \in UNION {[1..n -> Shapes] : n \in 1..MaxLines}
  /\ next = 1
  /\ inBlock = FALSE
  /\ options = NoIndent
  /\ diags = {}
  /\ panicked = FALSE

-----------------------------------------------------------------------------
(* Helpers on one line.                                                    *)

\* Every double quote toggles the quote state.
Unquoted(line, i) == Cardinality({j \in 1..(i - 1) : line[j] = "'"}) % 2 = 0

Runs(line, kinds) == {i \in DOMAIN line : line[i] \in kinds /\ Unquoted(line, i)}

Triples(line) == Runs(line, {"###"})

StripComment(line) ==
  LET hashes == Runs(line, {"#", "###"})
  IN  IF hashes = {} THEN line ELSE SubSeq(line, 1, Min(hashes) - 1)

Solid(line) == {i \in DOMAIN line : line[i] # "_"}

Trim(line) ==
  IF Solid(line) = {} THEN <<>> ELSE SubSeq(line, Min(Solid(line)), Max(Solid(line)))

LeadingWhitespace(line) ==
  IF Solid(line) = {} THEN Len(line) ELSE Min(Solid(line)) - 1

\* What the directive tests and analyze_line look at.
Stripped(raw) == Trim(StripComment(raw))

StartsWith(raw, kinds) == Stripped(raw) # <<>> /\ Stripped(raw)[1] \in kinds

\* declared_functions: every line counts, commented out or not.
FunctionsDeclared == \E i \in DOMAIN doc : StartsWith(doc[i], {"fun"})

\* No candidate pattern fits, and it is no call of a declared function.
Unparseable(raw) ==
  /\ \E i \in DOMAIN Stripped(raw) : Stripped(raw)[i] \in {"bad", "wide", "call"}
  /\ ~(StartsWith(raw, {"call"}) /\ FunctionsDeclared)

-----------------------------------------------------------------------------
(* The ### toggles of one line.                                            *)

\* in_block_comment behind the line: a closing ### ends the block and is the
\* last one looked at; outside a block an odd number of ### opens one.
BlockAfter(line) ==
  IF inBlock THEN Triples(line) = {} ELSE Cardinality(Triples(line)) % 2 = 1

\* The part of the line that is looked at: behind the closing ###, or before
\* the opening one.
Raw(line) ==
  CASE Triples(line) = {} -> line
    [] inBlock /\ Triples(line) # {} -> SubSeq(line, Min(Triples(line)) + 1, Len(line))
    [] OTHER -> SubSeq(line, 1, Min(Triples(line)) - 1)

\* Fault: the columns are those of the trimmed text.
FaultSpan(raw) ==
  [line |-> next, from |-> 0, to |-> Len(Stripped(raw))]

\* col_start and col_end of analyze_line, 0-based and half-open.
Span(raw) ==
  [line |-> next,
   from |-> LeadingWhitespace(raw),
   to   |-> LeadingWhitespace(raw) + Len(Stripped(raw))]

-----------------------------------------------------------------------------
(* One iteration of the loop; each disjunct of CheckLine is a way through  *)
(* its body.                                                               *)
More == next <= Len(doc) /\ ~panicked

\* A line inside a block comment.
InsideComment ==
  /\ inBlock /\ Triples(doc[next]) = {}
  /\ UNCHANGED <<options, diags, panicked>>

\* Fault: the header's own indentation is still inside the block.
FaultInOptions(raw) ==
  options # NoIndent /\ (Trim(raw) = <<>> \/ LeadingWhitespace(raw) >= options)

\* A blank line, or an entry, of an options: block.
InOptions(raw) == options # NoIndent /\ (Trim(raw) = <<>> \/ LeadingWhitespace(raw) > options)

OptionEntry(raw) ==
  /\ InOptions(raw)
  /\ UNCHANGED <<options, diags, panicked>>

\* is_structure_directive; a bare options: opens a block.
Directive(raw) ==
  /\ ~InOptions(raw)
  /\ StartsWith(raw, {"opt", "dir"})
  /\ options' = IF Stripped(raw) = <<"opt">> THEN LeadingWhitespace(raw) ELSE NoIndent
  /\ UNCHANGED <<diags, panicked>>

\* is_using_directive slices the first five bytes of the code.
SliceInsideChar(raw) ==
  /\ ~InOptions(raw)
  /\ StartsWith(raw, {"wide"})
  /\ options' = NoIndent
  /\ panicked' = TRUE
  /\ UNCHANGED diags

\* A using line, or one without code.
Nothing(raw) ==
  /\ ~InOptions(raw)
  /\ Stripped(raw) = <<>> \/ StartsWith(raw, {"use"})
  /\ options' = NoIndent
  /\ UNCHANGED <<diags, panicked>>

Statement(raw) ==
  /\ ~InOptions(raw)
  /\ Stripped(raw) # <<>> /\ ~StartsWith(raw, {"opt", "dir", "use", "wide"})
  /\ options' = NoIndent
  /\ diags' = IF Unparseable(raw) THEN diags \cup {Span(raw)} ELSE diags
  /\ UNCHANGED panicked

CheckLine ==
  /\ More
  /\ next' = next + 1
  /\ inBlock' = BlockAfter(doc[next])
  /\ UNCHANGED doc
  /\ \/ InsideComment
     \/ /\ ~(inBlock /\ Triples(doc[next]) = {})
        /\ LET raw == Raw(doc[next])
           IN  OptionEntry(raw) \/ Directive(raw) \/ SliceInsideChar(raw)
                 \/ Nothing(raw) \/ Statement(raw)

Next == CheckLine

Spec == Init /\ [][Next]_vars

-----------------------------------------------------------------------------
(* The reference: what a line is, said of the whole document at once.      *)

\* A ### toggles: line n starts in a comment iff an odd number precedes it.
TogglesBefore(n) == UNION {{<<k, i>> : i \in Triples(doc[k])} : k \in 1..(n - 1)}
CommentAt(n) == Cardinality(TogglesBefore(n)) % 2 = 1

\* The columns of line n that hold code: between its last toggle out of a
\* comment and the next comment.
CodeColumns(n) ==
  LET line == doc[n]
      hashes == Runs(line, {"#", "###"})
      start == IF ~CommentAt(n) THEN 0
               ELSE IF Triples(line) = {} THEN Len(line) ELSE Min(Triples(line))
  IN  {i \in (start + 1)..Len(line) :
         line[i] # "_" /\ ~\E h \in hashes : start < h /\ h <= i}

CodeAt(n) == {doc[n][i] : i \in CodeColumns(n)}
IndentAt(n) == Min(CodeColumns(n)) - 1
FirstAt(n) == doc[n][Min(CodeColumns(n))]

\* Line n is a bare options:.
OpensOptions(n) == \E i \in CodeColumns(n) : CodeColumns(n) = {i} /\ doc[n][i] = "opt"

\* Line n is an entry of the options: block opened at h.
EntryOf(h, n) ==
  /\ h < n /\ CodeColumns(n) # {}
  /\ OpensOptions(h)
  /\ IndentAt(n) > IndentAt(h)
  /\ \A k \in (h + 1)..(n - 1) : CodeColumns(k) # {} => IndentAt(k) > IndentAt(h)

IsEntry(n) == \E h \in 1..(n - 1) : EntryOf(h, n)

Expected(n) ==
  /\ CodeColumns(n) # {}
  /\ ~IsEntry(n)
  /\ FirstAt(n) \notin {"opt", "dir", "use"}
  /\ CodeAt(n) \cap {"bad", "wide", "call"} # {}
  /\ ~(FirstAt(n) = "call" /\ FunctionsDeclared)

-----------------------------------------------------------------------------
(* Properties.                                                             *)

\* "only a bare ### toggles a block": the flag is the parity of the toggles
\* on all the lines before.
BlockStateIsParity == ~panicked => (inBlock <=> CommentAt(next))

\* A line is reported exactly when its code, in the whole document, is a
\* statement that matches nothing: no comment, directive, options entry or
\* call of a declared function is, and nothing else is passed over.
ReportsAreRight ==
  ~panicked => {d.line : d \in diags} = {n \in 1..(next - 1) : Expected(n)}

\* The span of a diagnostic covers the code of its line, in columns "into the
\* original line".
ColumnsAreOriginal ==
  \A d \in diags :
    LET code == CodeColumns(d.line)
    IN  d.from = Min(code) - 1 /\ d.to = Max(code)

\* "name: value option entry -- not corpus syntax": no entry of an options:
\* block is reported, wherever comments stand in the block.
OptionEntriesAreSilent == \A d \in diags : ~IsEntry(d.line)

\* A script may hold any character: "UTF-8 character counts -- not byte
\* offsets".
NeverPanics == ~panicked
=============================================================================
