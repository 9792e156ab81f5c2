---------------------------- MODULE MCDocuments ----------------------------
(***************************************************************************)
(* What is computed from the text of a document, side by side: from an     *)
(* initial state one of three runs, while the others rest: the scan of the *)
(* line checker, its rules on the matches of one line, or the incremental  *)
(* parse of a document that is edited.                                     *)
(***************************************************************************)
EXTENDS CheckRules, TLC

CONSTANTS Shapes, MaxLines, Headers, Others, MaxEdits,
          base, plain, needy, newer, ready   \* the entries of the corpus

VARIABLES doc, next, inBlock, options, diags, panicked,
          text, items, errors, edits, aligned,
          part

\* A comment starts no declaration.
ASSUME HeadersAssumption == "note" \notin Headers

Scan == INSTANCE CheckDocument
Parse == INSTANCE IncrementalParse

scan == <<doc, next, inBlock, options, diags, panicked>>
parse == <<text, items, errors, edits, aligned>>

\* Lines with every kind of content, comment and indentation.
MCShapes == {
  <<>>, <<"_", "bad">>, <<"ok">>,
  <<"opt">>, <<"_", "dir">>, <<"use", "bad">>,
  <<"fun">>, <<"_", "_", "call">>,
  <<"bad", "_", "#", "bad">>, <<"_", "#", "bad">>,
  <<"'", "###", "'", "bad">>, <<"###">>, <<"bad", "_", "###", "_", "ok">>,
  <<"_", "bad", "###", "_", "'", "###">> }

\* The base plugin's entry, and others of two addons: one that requires
\* nothing, one that requires two plugins, one of a later version, and one
\* that requires a plugin and mentions two versions.
MCAddonOf == (base :> "Skript") @@ (plain :> "skBee") @@ (needy :> "skBee")
               @@ (newer :> "SkQuery") @@ (ready :> "SkQuery")
MCPluginsOf == (base :> {}) @@ (plain :> {}) @@ (needy :> {"p", "q"})
               @@ (newer :> {}) @@ (ready :> {"p"})
MCCompatOf == (base :> <<>>) @@ (plain :> <<1>>) @@ (needy :> <<2>>)
               @@ (newer :> <<3>>) @@ (ready :> <<1, 3>>)

RulesRest == matches = <<>> /\ config \in {[enabled |-> {}, installed |-> {}, version |-> NoVersion]}
               /\ verdict = "unchecked"
ScanRests == doc = <<<<"ok">>>> /\ next = 1 /\ inBlock = FALSE
               /\ options = Scan!NoIndent /\ diags = {} /\ panicked = FALSE
ParseRests == text = <<>> /\ items = <<>> /\ errors = {}
               /\ edits = 0 /\ aligned = TRUE

MCInit ==
  \/ part = "rules" /\ Init /\ ScanRests /\ ParseRests
  \/ part = "scan" /\ Scan!Init /\ RulesRest /\ ParseRests
  \/ part = "parse" /\ Parse!Init /\ RulesRest /\ ScanRests

MCNext ==
  /\ UNCHANGED part
  /\ \/ part = "rules" /\ Next /\ UNCHANGED <<scan, parse>>
     \/ part = "scan" /\ Scan!Next /\ UNCHANGED <<vars, parse>>
     \/ part = "parse" /\ Parse!Next /\ UNCHANGED <<vars, scan>>

MCSpec == MCInit /\ [][MCNext]_<<vars, scan, parse, part>>

\* A line is reported exactly when its code, in the whole document, is a
\* statement that matches nothing.
ReportsAreRight == Scan!ReportsAreRight

\* The span of a diagnostic covers the code of its line, in columns of the
\* original line.
ColumnsAreOriginal == Scan!ColumnsAreOriginal

\* The snapshot holds the declarations of the text, with their bodies, as long
\* as the texts that were changed had a declaration in every section.
ContentIsCurrent == Parse!ContentIsCurrent
=============================================================================
