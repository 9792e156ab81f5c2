---------------------------- MODULE PatternMatch ----------------------------
(***************************************************************************)
(* The pattern engine of skript-patterns: compiler.rs turns a pattern of   *)
(* the corpus into elements linked by `next` and `original_next`,          *)
(* keyword.rs derives the prefilter, and SkriptPattern::match_ (pattern.rs)*)
(* runs both on a line of a script.                                        *)
(*                                                                         *)
(* A pattern is a sequence of symbols: the letters of its literals, "_" (a *)
(* space), "%" (a whole %type% slot) and the brackets and bars of the DSL. *)
(* Escapes, <regex> elements and parse tags are not among them, nor are    *)
(* quotes and variables on the line; both sides are in lower case.         *)
(***************************************************************************)
EXTENDS Integers, Sequences, FiniteSets, SequencesExt, FiniteSetsExt

CONSTANTS Patterns,   \* patterns of the corpus
          Lines       \* trimmed, not empty lines of scripts

ASSUME TextAssumption ==
  /\ \A s \in Patterns \cup Lines : s \in Seq(Range(s))
  /\ \A l \in Lines : l # <<>> /\ l[1] # "_" /\ l[Len(l)] # "_"

VARIABLES
  pattern,    \* the pattern
  heap,       \* its elements; a reference is an index
  calls,      \* the calls of compile_element, the outermost first
  first,      \* the head of the compiled pattern, once it is compiled
  answer      \* the last line it was matched with, and both verdicts

vars == <<pattern, heap, calls, first, answer>>

Nil == 0       \* no element

-----------------------------------------------------------------------------
(* Elements.                                                               *)
Element(kind, text, kids) ==
  [kind |-> kind, text |-> text, kids |-> kids, next |-> Nil, onext |-> Nil]

Empty == Element("literal", <<>>, <<>>)

\* The end of the chain at n.
LastOf(h) ==
  LET last[n \in DOMAIN h] == IF h[n].next = Nil THEN n ELSE last[h[n].next]
  IN  last

\* Fault: the link is not passed on.
FaultOpenEnds(h) == [n \in DOMAIN h |-> {n}]

\* What a link behind n is written to: choices, groups and optionals pass it
\* on to the ends of the chains inside them (set_last_next).
OpenEnds(h) ==
  LET ends[n \in DOMAIN h] ==
        {n} \cup UNION {ends[LastOf(h)[h[n].kids[k]]] : k \in DOMAIN h[n].kids}
  IN  ends

SetNext(h, n, m) ==
  [i \in DOMAIN h |-> IF i \in OpenEnds(h)[n] THEN [h[i] EXCEPT !.next = m] ELSE h[i]]

-----------------------------------------------------------------------------
(* Chains.  Operators give the heap and the head that they leave.          *)
Chain(h, f) == [heap |-> h, first |-> f]

Linked(h, f, n) ==
  LET last == LastOf(h)[f]
  IN  [SetNext(h, last, n) EXCEPT ![last].onext = n]

\* An empty head is replaced.
Replaceable(h, f) ==
  f = Nil \/ (h[f].kind = "literal" /\ h[f].text = <<>> /\ h[f].next = Nil)

AppendToChain(h, f, n) ==
  IF Replaceable(h, f) THEN Chain(h, n) ELSE Chain(Linked(h, f, n), f)

IsChoice(h, f) == f # Nil /\ h[f].kind = "choice"

\* A choice takes the element into its last alternative, which is no choice.
AppendElement(h, f, n) ==
  IF IsChoice(h, f)
  THEN LET r == AppendToChain(h, Last(h[f].kids), n)
       IN  Chain([r.heap EXCEPT ![f].kids[Len(h[f].kids)] = r.first], f)
  ELSE AppendToChain(h, f, n)

Add(h, f, element) == AppendElement(Append(h, element), f, Len(h) + 1)

\* A bar makes the head a choice, unless it is one, and opens an empty
\* alternative.
Bar(h, f) ==
  LET seeded == IF f = Nil THEN Append(h, Empty) ELSE h
      old    == IF f = Nil THEN Len(seeded) ELSE f
      fresh  == Len(seeded) + 1
      g      == Append(seeded, Empty)
  IN  IF IsChoice(h, f)
      THEN Chain([g EXCEPT ![f].kids = Append(@, fresh)], f)
      ELSE Chain(Append(g, Element("choice", <<>>, <<old, fresh>>)), fresh + 1)

-----------------------------------------------------------------------------
(* The compiler.  compile_element calls itself for the content of a        *)
(* bracket.  A call has a slice lo..hi of the pattern, its place in it,    *)
(* the head of its chain and the literal that it collects; `kind` says     *)
(* what becomes of the chain it returns.                                   *)
Call(kind, lo, hi) ==
  [kind |-> kind, lo |-> lo, hi |-> hi, at |-> lo, first |-> Nil, literal |-> <<>>]

Top == Last(calls)
Symbol == pattern[Top.at]
Reading == calls # <<>> /\ Top.at <= Top.hi

\* The chain of the top call with its literal appended.
Flushed ==
  IF Top.literal = <<>> THEN Chain(heap, Top.first)
  ELSE Add(heap, Top.first, Element("literal", Top.literal, <<>>))

\* The top call with chain r at place i, its literal flushed.
Advanced(r, i) == [Top EXCEPT !.at = i, !.first = r.first, !.literal = <<>>]

Goes(r, i) ==
  /\ heap' = r.heap
  /\ calls' = Append(Front(calls), Advanced(r, i))
  /\ UNCHANGED <<pattern, first, answer>>

Brackets == [optional |-> <<"[", "]">>, group |-> <<"(", ")">>]
Openings == {"[", "("}
Closings == {"]", ")"}

TakeLetter ==
  /\ Reading /\ Symbol \notin Openings \cup {"|", "%"}
  /\ calls' = Append(Front(calls), [Top EXCEPT !.at = @ + 1, !.literal = Append(@, Symbol)])
  /\ UNCHANGED <<pattern, heap, first, answer>>

TakeSlot ==
  /\ Reading /\ Symbol = "%"
  /\ Goes(Add(Flushed.heap, Flushed.first, Element("type", <<>>, <<>>)), Top.at + 1)

TakeBar ==
  /\ Reading /\ Symbol = "|"
  /\ Goes(Bar(Flushed.heap, Flushed.first), Top.at + 1)

\* next_bracket, with its counter `index`; Nil is its error.
NextBracket(p, kind, from, hi) ==
  LET index[j \in (from - 1)..Len(p)] ==
        IF j = from - 1 THEN 0
        ELSE CASE p[j] = Brackets[kind][1] -> index[j - 1] + 1
               [] p[j] = Brackets[kind][2] -> index[j - 1] - 1
               [] OTHER -> index[j - 1]
      ends == {j \in from..hi : index[j] = -1}
  IN  IF ends = {} THEN Nil ELSE Min(ends)

End(kind) == NextBracket(pattern, kind, Top.at + 1, Top.hi)

\* The literal is flushed and the content of the bracket compiled.
OpenBracket(kind) ==
  /\ Reading /\ Symbol = Brackets[kind][1] /\ End(kind) # Nil
  /\ heap' = Flushed.heap
  /\ calls' = Front(calls) \o <<Advanced(Flushed, Top.at), Call(kind, Top.at + 1, End(kind) - 1)>>
  /\ UNCHANGED <<pattern, first, answer>>

\* A malformed pattern is dropped from the corpus.
Reject(kind) ==
  /\ Reading /\ Symbol = Brackets[kind][1] /\ End(kind) = Nil
  /\ calls' = <<>>
  /\ UNCHANGED <<pattern, heap, first, answer>>

\* What a call returns: its chain, or an empty literal.
Returned ==
  IF Flushed.first = Nil THEN Chain(Append(heap, Empty), Len(heap) + 1) ELSE Flushed

\* OptionalPatternElement::new_rc: [(...)] becomes [...].
Content(kind, r) ==
  IF kind = "optional" /\ r.heap[r.first].kind = "group" /\ r.heap[r.first].next = Nil
  THEN r.heap[r.first].kids[1] ELSE r.first

\* The caller appends an element around the chain and moves behind the bracket.
Return ==
  /\ Len(calls) > 1 /\ Top.at > Top.hi
  /\ LET caller == calls[Len(calls) - 1]
         r == Add(Returned.heap, caller.first,
                  Element(Top.kind, <<>>, <<Content(Top.kind, Returned)>>))
     IN  /\ heap' = r.heap
         /\ calls' = Append(Front(Front(calls)),
                            [caller EXCEPT !.at = Top.hi + 2, !.first = r.first])
  /\ UNCHANGED <<pattern, first, answer>>

Finish ==
  /\ Len(calls) = 1 /\ Top.at > Top.hi
  /\ heap' = Returned.heap /\ first' = Returned.first
  /\ calls' = <<>>
  /\ UNCHANGED <<pattern, answer>>

-----------------------------------------------------------------------------
(* The prefilter.                                                          *)
Trim(t) ==
  LET solid == {i \in DOMAIN t : t[i] # "_"}
  IN  IF solid = {} THEN <<>> ELSE SubSeq(t, Min(solid), Max(solid))

\* Trimmed, with every run of spaces collapsed.
KeywordText(t) ==
  LET s == Trim(t)
      text[i \in 0..Len(s)] ==
        IF i = 0 THEN <<>>
        ELSE IF s[i] = "_" /\ s[i - 1] = "_" THEN text[i - 1] ELSE Append(text[i - 1], s[i])
  IN  text[Len(s)]

\* Keyword::is_present of a simple keyword.
IsPresent(keyword, starting, ending, line) ==
  CASE starting -> IsPrefix(keyword, line)
    [] ~starting /\ ending -> IsSuffix(keyword, line)
    [] OTHER -> \E i \in 0..Len(line) : IsPrefix(keyword, SubSeq(line, i + 1, Len(line)))

\* Fault: what follows the brackets around the literal is overlooked.
FaultEnding(e) == e.onext = Nil

\* Nothing is matched behind the literal.
Ending(e) == e.next = Nil

\* All keywords of the chain at n, along `original_next`, are on the line:
\* none of optionals and slots, of choices only down to depth 1.  An alternative
\* without keywords is always present, so that its choice is none of them.
KeywordsPresent(h, line) ==
  LET present[n \in DOMAIN h] == [starting \in BOOLEAN |-> [depth \in Nat |->
        LET e == h[n]
            own == CASE e.kind = "literal" ->
                          KeywordText(e.text) = <<>>
                            \/ IsPresent(KeywordText(e.text), starting, Ending(e), line)
                     [] e.kind = "group" -> present[e.kids[1]][starting][depth + 1]
                     [] e.kind = "choice" ->
                          depth > 1 \/ \E k \in DOMAIN e.kids : present[e.kids[k]][starting][depth]
                     [] OTHER -> TRUE
        IN  own /\ (e.onext = Nil \/ present[e.onext][FALSE][depth])]]
  IN  present

Solid(t) == Cardinality({i \in DOMAIN t : t[i] # "_"})

\* compute_min_length: what no match of the chain can do without.
MinLength(h) ==
  LET length[n \in DOMAIN h] ==
        LET e == h[n]
            own == CASE e.kind = "literal" -> Solid(e.text)
                     [] e.kind = "group" -> length[e.kids[1]]
                     [] e.kind = "choice" -> Min({length[e.kids[k]] : k \in DOMAIN e.kids})
                     [] OTHER -> 0
        IN  own + (IF e.onext = Nil THEN 0 ELSE length[e.onext])
  IN  length

Prefilter(h, f, line) ==
  Len(line) >= MinLength(h)[f] /\ KeywordsPresent(h, line)[f][TRUE][0]

-----------------------------------------------------------------------------
(* The matcher.  Offsets are 0-based.                                      *)

\* Where one character of a literal leads to, if it fits: a space of the
\* pattern is skipped at both ends of the line and behind a space of the line.
Consume(c, line, at) ==
  IF c = "_"
  THEN IF at \in {0, Len(line)} THEN {at}
       ELSE IF line[at + 1] = "_" THEN {at + 1}
       ELSE IF line[at] = "_" THEN {at} ELSE {}
  ELSE IF at < Len(line) /\ line[at + 1] = c THEN {at + 1} ELSE {}

\* PermissiveResolver.
Parses(text) == \E i \in DOMAIN text : text[i] # "_"

\* Where a symbol leads to; a slot takes any text that parses.
Behind(c, line, at) ==
  IF c = "%" THEN {end \in (at + 1)..Len(line) : Parses(SubSeq(line, at + 1, end))}
  ELSE Consume(c, line, at)

\* Where a text leads to, symbol by symbol.
Read(text, line, at) ==
  LET reached[k \in 0..Len(text)] ==
        IF k = 0 THEN {at} ELSE UNION {Behind(text[k], line, o) : o \in reached[k - 1]}
  IN  reached[Len(text)]

TrimEnd(t) ==
  LET solid == {i \in DOMAIN t : t[i] # "_"}
  IN  IF solid = {} THEN t ELSE SubSeq(t, 1, Max(solid))

Occurrences(text, line, at) ==
  {p \in at..(Len(line) - 1) : IsPrefix(text, SubSeq(line, p + 1, Len(line)))}

\* The ends a slot may have (init_offset and advance_offset): the end of the
\* line, the occurrences of the next literal, or, behind the last one of a
\* literal that is blank and before any other element, every offset.
Splits(h, n, line, at) ==
  LET next == h[n].next
      found == Occurrences(TrimEnd(h[next].text), line, at)
  IN  IF next = Nil THEN {Len(line)}
      ELSE IF h[next].kind # "literal" THEN (at + 1)..Len(line)
      ELSE IF Solid(h[next].text) > 0 THEN found
      ELSE found \cup ((IF found = {} THEN at ELSE Max(found)) + 1)..Len(line)

\* The chain at n takes the line from an offset to its end.
Match(h, line) ==
  LET match[n \in DOMAIN h] == [at \in 0..Len(line) |->
        LET e == h[n]
            Onward(end) == IF e.next = Nil THEN end = Len(line) ELSE match[e.next][end]
        IN  CASE e.kind = "literal" -> \E end \in Read(e.text, line, at) : Onward(end)
              [] e.kind = "choice" -> \E k \in DOMAIN e.kids : match[e.kids[k]][at]
              [] e.kind = "group" -> match[e.kids[1]][at]
              [] e.kind = "optional" -> match[e.kids[1]][at] \/ Onward(at)
              [] OTHER -> \E end \in Splits(h, n, line, at) :
                            Onward(end) /\ Parses(SubSeq(line, at + 1, end))]
  IN  match

-----------------------------------------------------------------------------
NoAnswer == [line |-> <<>>, passed |-> FALSE, matched |-> FALSE]

Init ==
  /\ pattern \in Patterns
  /\ heap = <<>>
  /\ calls = <<Call("pattern", 1, Len(pattern))>>
  /\ first = Nil
  /\ answer = NoAnswer

\* match_: it returns a match when both verdicts are TRUE; the matcher's is
\* taken here of every line, to compare them.  A match leaves the elements as
\* they are, so one line per behaviour says it all.
MatchLine(line) ==
  /\ first # Nil /\ answer = NoAnswer
  /\ answer' = [line |-> line, passed |-> Prefilter(heap, first, line),
                matched |-> Match(heap, line)[first][0]]
  /\ UNCHANGED <<pattern, heap, calls, first>>

Compile ==
  \/ TakeLetter \/ TakeSlot \/ TakeBar \/ Return \/ Finish
  \/ \E kind \in DOMAIN Brackets : OpenBracket(kind) \/ Reject(kind)

Next == Compile \/ \E line \in Lines : MatchLine(line)

Spec == Init /\ [][Next]_vars

-----------------------------------------------------------------------------
(* The reference: the pattern as a grammar.  A word is a sequence of       *)
(* letters, spaces and slots.                                              *)

Depth(p) ==
  LET depth[i \in 0..Len(p)] ==
        IF i = 0 THEN 0
        ELSE CASE p[i] \in Openings -> depth[i - 1] + 1
               [] p[i] \in Closings -> depth[i - 1] - 1
               [] OTHER -> depth[i - 1]
  IN  depth

\* Where the bracket at i is closed, and that brackets of both kinds are, each
\* by one of its kind.
Closing(p, i) == Min({j \in i..Len(p) : Depth(p)[j] = Depth(p)[i - 1]})
WellNested(p) ==
  /\ \A i \in DOMAIN p : Depth(p)[i] >= 0
  /\ Depth(p)[Len(p)] = 0
  /\ \A i \in DOMAIN p : \A kind \in DOMAIN Brackets :
       p[i] = Brackets[kind][1] => p[Closing(p, i)] = Brackets[kind][2]

\* The words of the slice lo..hi: of what is before its last bar or behind it;
\* else those of what is before its last unit, each with one of the unit's.
Words(p) ==
  LET words[slice \in (1..(Len(p) + 1)) \X (0..Len(p))] ==
        LET lo    == slice[1]
            hi    == slice[2]
            bars  == {i \in lo..hi : p[i] = "|" /\ Depth(p)[i] = Depth(p)[lo - 1]}
            unit  == Max({lo} \cup {i \in lo..hi : Depth(p)[i - 1] = Depth(p)[hi]})
            tails == CASE p[hi] = "]" -> words[<<unit + 1, hi - 1>>] \cup {<<>>}
                       [] p[hi] = ")" -> words[<<unit + 1, hi - 1>>]
                       [] OTHER -> {<<p[hi]>>}
        IN  IF bars # {}
            THEN words[<<lo, Max(bars) - 1>>] \cup words[<<Max(bars) + 1, hi>>]
            ELSE IF hi < lo THEN {<<>>}
            ELSE {head \o tail : head \in words[<<lo, unit - 1>>], tail \in tails}
  IN  words

-----------------------------------------------------------------------------
(* Properties.                                                             *)

\* No two spaces side by side.
SingleSpaces(p) == \A i \in 1..(Len(p) - 1) : ~(p[i] = "_" /\ p[i + 1] = "_")

\* The linked elements accept exactly the language of the pattern: the links
\* the compiler patches into nested brackets, the ends a slot tries and the
\* backtracking lose no word and add none.
MatcherIsLanguage ==
  answer # NoAnswer /\ WellNested(pattern) =>
    (answer.matched <=>
       \E word \in Words(pattern)[<<1, Len(pattern)>>] : Len(answer.line) \in Read(word, answer.line, 0))

\* "A required component of a pattern, used as a cheap prefilter before the
\* full match": what the matcher accepts passes the prefilter.
PrefilterIsSound == answer.matched => answer.passed

=============================================================================
