---------------------------- MODULE MCLanguage ----------------------------
EXTENDS Editor

\* Indentation: every run of these up to Deep lexemes.
Deep == 5
Indented == BoundedSeq({" ", "\t", "\n", "#", "x"}, Deep)

\* Strings: every run of these up to Long lexemes behind a quote.
Long == 4
Quoted == {<<"\"">> \o s :
             s \in BoundedSeq({"\"", "%", "{", "}", "<", "x", ">", "/"}, Long)}

\* Programs: a declaration, two lines below it, each at a width of its own,
\* and another declaration.
Heads == {
  <<"on", " ", "x", ":">>,
  <<"every", " ", "1", ":">>,
  <<"function", " ", "f", "(", "x", ":", "y", "=", "1", ")", ":">>,
  <<"function", " ", "f", "(", "x", ")", "->", "y", ":">>,
  <<"command", " ", "/", "x", "[", "<", "x", ":", "y", ">", "]", ":">>,
  <<"options", ":">>, <<"aliases", ":">>, <<"variables", ":">>,
  <<"example", ":">>, <<"using", " ", "x">>, <<"x", ":">> }
Bodies == {
  <<"set", " ", "{", "x", "}", " ", "to", " ", "1", "+", "x">>,
  <<"if", " ", "x", ".", "y", " ", "is", " ", "1", ":">>,
  <<"else", ":">>,
  <<"else", " ", "if", " ", "x", ":">>,
  <<"add", " ", "x">>,
  <<"send", " ", "\"", "x", "%", "{", "x", "}", "%", "\"", " ", "to", " ", "x">>,
  <<"trigger", ":">>,
  <<"x", ":", " ", "1">>,
  <<"x", "=", "1">>,
  <<"1", "=", "x">>,
  <<"f", "(", "x", ",", "1", ")", " ", "(", "x", ")", "[", "1", "]">>,
  <<"stop", " ", "#">>,
  <<"on", " ", "x", ":">> }
Line(width, s) == [i \in 1 .. width |-> " "] \o s \o <<"\n">>
\* How deep the two lines are.
Layouts == {<<1, 0>>, <<1, 1>>, <<1, 2>>, <<2, 1>>}
Programs == {h \o <<"\n">> \o Line(layout[1], a) \o Line(layout[2], b)
               \o Line(0, <<"using", " ", "y">>) :
               h \in Heads, a \in Bodies, b \in Bodies, layout \in Layouts}

\* Analysis: an item of four lines, the third in a section, and another item.
Uses == {
  <<"set", " ", "{", "_x", "}", " ", "to", " ", "1">>,
  <<"set", " ", "{", "y", "}", " ", "to", " ", "x">>,
  <<"set", " ", "{", "y", "}", " ", "to", " ", "f", "(", "y", "(", "{", "_x", "}", ")", ",", "1", ")">>,
  <<"send", " ", "\"", "%", "{", "{", "_x", "}", "}", "%", "\"">>,
  <<"f", "(", "{", "_x", "}", ")">> }
LastUses == {
  <<"set", " ", "{", "_x", "}", " ", "to", " ", "1">>,
  <<"set", " ", "{", "y", "}", " ", "to", " ", "x">>,
  <<"send", " ", "\"", "%", "{", "{", "_x", "}", "}", "%", "\"">> }
Openings == {
  <<"if", " ", "{", "_x", "}", " ", "is", " ", "1", ":">>,
  <<"while", " ", "{", "_x", "}", ":">>,
  <<"do", " ", "while", " ", "{", "_x", "}", ":">>,
  <<"for", " ", "_x", " ", "in", " ", "{", "_x", "}", ":">> }
Others == {<<"stop">>, <<"else", ":">>, <<"else", " ", "if", " ", "x", ":">>}
Analyses ==
  {<<"function", " ", "f", "(", "x", ":", "y", ")", ":", "\n">>
     \o Line(1, a) \o Line(1, o) \o Line(2, b) \o Line(1, e)
     \o (IF e = <<"stop">> THEN <<>> ELSE Line(2, c)) \o Line(1, c)
     \o <<"on", " ", "x", ":", "\n">> \o Line(1, b) :
     a \in Uses, o \in Openings, b \in Uses, e \in Others, c \in LastUses}

MCBuiltins == {<<"y">>}
MCPropertyTypes == [n \in {<<"x">>} |-> <<"number">>]
\* Positions: every run of these up to Mixed characters, one of two bytes and
\* one of four.
Mixed == 4
Characters == BoundedSeq({"x", "\n", "\r", "W", "A"}, Mixed)

MCTypeNames == {<<"y">>}
MCTexts == Characters \cup Indented \cup Quoted \cup Programs \cup Analyses

\* Entries that begin with no name.
EntryTexts == {<<w, ":", "\n">> \o Line(1, <<"1", "=", "x">>) :
                 w \in {"options", "aliases", "variables"}}
\* A call inside a statement.
CallTexts == {<<"function", " ", "f", "(", "x", ")", ":", "\n">> \o Line(1, b) :
                b \in Bodies \cup Uses}
\* Variables, one of them with the name of a function that is called.
CalleeTexts == {<<"function", " ", "f", "(", "x", ")", ":", "\n">> \o Line(1, b) :
                  b \in Uses}
=============================================================================
