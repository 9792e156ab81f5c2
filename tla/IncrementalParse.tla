-------------------------- MODULE IncrementalParse --------------------------
(***************************************************************************)
(* skript-core/src/parser/incremental.rs and its only caller,              *)
(* DocumentSnapshot::update in skript-lsp/src/state.rs: the snapshot of a  *)
(* document is parsed in full when the document is opened and from then on *)
(* only section by section.                                                *)
(*                                                                         *)
(* A document is a sequence of lines, and a line is one unit long:         *)
(*   Headers   flush-left lines that start a declaration                   *)
(*   "plain"   a flush-left line that starts none (`broadcast "x"`, or a   *)
(*             keyword that is still being typed)                          *)
(*   "stmt"    an indented line       "err"  an indented line with a       *)
(*   "note"    a comment, flush left         parse error                   *)
(***************************************************************************)
EXTENDS Naturals, Sequences, FiniteSets, SequencesExt

CONSTANTS Headers,   \* declarations with different names
          Others,    \* the other kinds of lines in use
          MaxLines,  \* bound on the length of a document
          MaxEdits   \* bound on the number of changes

VARIABLES
  text,      \* the document
  items,     \* snapshot: program.items
  errors,    \* snapshot: the parse errors
  edits,     \* changes so far
  aligned    \* auxiliary, read by a property alone: every text that was
             \* changed so far was tidy

vars == <<text, items, errors, edits, aligned>>

Lines == Headers \cup Others
FlushLeft(l) == l \in Headers \cup {"plain"}

\* The line numbers in a set, in the order of the text.
LinesAt(src, at) ==
  FlattenSeq([i \in DOMAIN src |-> IF i \in at THEN <<i>> ELSE <<>>])

Documents == {<<>>} \cup UNION {[1..n -> Lines] : n \in 1..MaxLines}

-----------------------------------------------------------------------------
(* parse_program.                                                          *)

\* The lexer takes the indentation of the first line that is no comment as
\* that of the whole text. When that line is indented, nothing below it is
\* indented any further: no declaration has a body.
StartsFlush(src) ==
  \A i \in DOMAIN src :
    src[i] # "note" /\ (\A j \in 1..(i - 1) : src[j] = "note") => FlushLeft(src[i])

\* The line behind the block that line i heads.
BlockEnd(src, i) ==
  LET next == {j \in (i + 1)..Len(src) : FlushLeft(src[j])}
  IN  IF next = {} THEN Len(src) + 1 ELSE CHOOSE j \in next : \A k \in next : j <= k

\* Comments leave no trace in a body.
Statements(block) == SelectSeq(block, LAMBDA l : l # "note")

\* A declaration: its head, its statements, and where it starts.
Item(src, i) ==
  [head |-> src[i],
   body |-> IF StartsFlush(src) THEN Statements(SubSeq(src, i + 1, BlockEnd(src, i) - 1))
            ELSE <<>>,
   at   |-> i]

\* parse_top_level_item returns None for a line that starts no declaration:
\* it leaves no item, and sync passes over its block without an error.
Declarations(src) == LinesAt(src, {i \in DOMAIN src : src[i] \in Headers})

ParseItems(src) ==
  LET heads == Declarations(src)
  IN  [k \in DOMAIN heads |-> Item(src, heads[k])]

ParseErrors(src) ==
  {e \in DOMAIN src :
     /\ StartsFlush(src)
     /\ src[e] = "err"
     /\ \E k \in DOMAIN Declarations(src) :
          LET i == Declarations(src)[k] IN i < e /\ e < BlockEnd(src, i)}

-----------------------------------------------------------------------------
(* split_sections: one section per flush-left line, declaration or not, and *)
(* one for the first line, flush left or not. Comments start none.         *)
SectionStarts(src) ==
  LinesAt(src, {i \in DOMAIN src : src[i] # "note" /\ (i = 1 \/ FlushLeft(src[i]))})

Sections(src) ==
  LET starts == SectionStarts(src)
  IN  [k \in DOMAIN starts |-> SubSeq(src, starts[k], BlockEnd(src, starts[k]) - 1)]

\* Fault: a section counts as unchanged while its first line is the same.
FaultUnchanged(old, new, k) ==
  k \in DOMAIN Sections(old) /\ Sections(old)[k][1] = Sections(new)[k][1]

Unchanged(old, new, k) ==
  k \in DOMAIN Sections(old) /\ Sections(old)[k] = Sections(new)[k]

\* What section k contributes: item number k of the old program when the text
\* of section k is the same, else a parse of its text alone.
SectionItems(old, new, k) ==
  IF Unchanged(old, new, k)
  THEN IF k \in DOMAIN items THEN <<items[k]>> ELSE <<>>
  ELSE ParseItems(Sections(new)[k])

SectionErrors(old, new, k) ==
  IF Unchanged(old, new, k) THEN {} ELSE ParseErrors(Sections(new)[k])

IncrementalItems(old, new) ==
  FlattenSeq([k \in DOMAIN Sections(new) |-> SectionItems(old, new, k)])

IncrementalErrors(old, new) ==
  UNION {SectionErrors(old, new, k) : k \in DOMAIN Sections(new)}

-----------------------------------------------------------------------------
(* open_doc and update_doc.                                                *)
Init ==
  /\ text \in Documents
  /\ items = ParseItems(text)
  /\ errors = ParseErrors(text)
  /\ edits = 0
  /\ aligned = TRUE

\* Every section of the text is a declaration that the parser reads whole.
Tidy(src) == StartsFlush(src) /\ \A i \in DOMAIN src : src[i] # "plain"

\* An unchanged text keeps its snapshot, errors included.
Update(new) ==
  /\ edits < MaxEdits
  /\ new # text
  /\ text' = new
  /\ items' = IncrementalItems(text, new)
  /\ errors' = IncrementalErrors(text, new)
  /\ edits' = edits + 1
  /\ aligned' = (aligned /\ Tidy(text))

\* One line is inserted, removed or replaced.
Edited ==
  {d \in Documents :
     \/ \E i \in DOMAIN d : RemoveAt(d, i) = text
     \/ \E i \in DOMAIN text : RemoveAt(text, i) = d
     \/ Len(d) = Len(text) /\ Cardinality({i \in DOMAIN d : d[i] # text[i]}) = 1}

Next == \E new \in Edited : Update(new)

Spec == Init /\ [][Next]_vars

-----------------------------------------------------------------------------
(* Properties.                                                             *)

\* What an item says, without its position.
Content(program) ==
  [k \in DOMAIN program |-> [head |-> program[k].head, body |-> program[k].body]]

\* The snapshot of a text that starts flush left holds its declarations, in
\* their order and with their bodies, after any sequence of changes to texts
\* whose sections are all declarations. The text it is the snapshot of may
\* hold sections that are none; only what is made of it next may then be wrong.
ContentIsCurrent ==
  aligned /\ StartsFlush(text) => Content(items) = Content(ParseItems(text))

\* "incr.program.items.len() == full.program.items.len()": the snapshot has as
\* many items as a full parse.
SameNumberOfItems == Len(items) = Len(ParseItems(text))

\* An item is where the snapshot says it is, as after a full parse.
ItemsAreInPlace ==
  \A k \in DOMAIN items : items[k].at \in DOMAIN text /\ text[items[k].at] = items[k].head

\* "The cached result of parsing ... a document": the snapshot has an error
\* whenever the document has one.
ErrorsAreKept == ParseErrors(text) # {} => errors # {}
=============================================================================
