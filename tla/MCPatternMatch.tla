-------------------------- MODULE MCPatternMatch ---------------------------
EXTENDS PatternMatch

CONSTANTS MaxPattern,   \* bound on the length of the enumerated patterns
          MaxLine       \* bound on the length of a line

Symbols == {"a", "b", "_", "%", "[", "]", "(", ")", "|"}

Sequences(set, n) == UNION {[1..k -> set] : k \in 0..n}

\* Longer patterns, in the shapes the corpus is written in.
Shaped == {
  <<"[","a","_","]","%","_","(","a","|","b","[","a","]",")">>,
  <<"%","_","[","a","_","]","b","_","%">>,
  <<"(","a","|","(","b","|","a","b",")","_","a",")","[","_","%","]">>,
  <<"[","(","a","|","b",")","_","]","a","|","%","_","b">>,
  <<"(","a","|",")","%","[","_","]","(","b","|","[","a","]",")">>,
  <<"a","[","b","|","[","_","a","]","_","b","]","_","%">>,
  <<"[","[","a","]","_","b","]","_","%","[","_","%","]">>,
  <<"[","b","_","]","%","_","(","a","|","b","|","(","a","[","b","]","|","b",")",")">>,
  <<"(","a","|",")","_","%","_","(","a","_","b","|","b",")","_","%">>,
  <<"(","(","(","a","|","b",")","|","%",")","_","a",")">> }

\* Brackets that do not close or do not nest, and one that closes nothing.
Unbalanced == {
  <<"a","(","b">>, <<"[","(","a","]",")">>, <<"(","[",")","a","]">>, <<"[","[","a","]">>,
  <<"a","]","b">>, <<"[","%",")","]","a">> }

MCPatterns == {p \in Sequences(Symbols, MaxPattern) : WellNested(p) /\ SingleSpaces(p)}
                \cup Shaped \cup Unbalanced

\* Two spaces in a literal.
DoublePatterns == {p \in Sequences({"a", "_"}, 4) : p # <<>>}

MCLines == {l \in Sequences({"a", "b", "_"}, MaxLine) :
              l # <<>> /\ l[1] # "_" /\ l[Len(l)] # "_"}
=============================================================================
