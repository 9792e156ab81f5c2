-------------------------------- MODULE Ast --------------------------------
(***************************************************************************)
(* The syntax tree (crates/skript-core/src/ast.rs).  Every node, from the  *)
(* program's items down to a literal, has the same record: its kind, its   *)
(* name, its declared type (a sequence of at most one name), its children  *)
(* in the order the code visits them, and its span [start, end).  A block  *)
(* is a node of its own: the statements of one body.                       *)
(***************************************************************************)
EXTENDS Integers, Sequences, SequencesExt

Node(kind, name, type, kids, start, end) ==
    [node |-> kind, name |-> name, type |-> type, kids |-> kids,
     start |-> start, end |-> end]

NoNode == <<>>

BodyItems == {"function", "command", "event", "periodic", "example"}
Sections == {"if", "loop", "while", "dowhile", "forin"}
StatementKinds ==
    Sections \cup {"assignment", "effect", "return", "stop", "exit",
                   "continue", "cancel", "wait", "blank"}
ExpressionKinds ==
    {"binary", "unary", "property", "call", "index", "literal", "variable",
     "eventvalue", "list", "parens", "interpolation", "unknown"}
\* What an assignment may write to; the tree below a target is visited, the
\* target itself is no expression.
TargetOf == [variable |-> "target", property |-> "property target",
             index |-> "index target"]

\* walk_program ... walk_expression: a node and everything under it, each
\* parent before its children.
RECURSIVE Walk(_)
Walk(n) == <<n>> \o FlattenSeq([i \in DOMAIN n.kids |-> Walk(n.kids[i])])
WalkProgram(items) == FlattenSeq([i \in DOMAIN items |-> Walk(items[i])])

\* The statements and expressions of n, blocks opened.
Kids(n) ==
    FlattenSeq([i \in DOMAIN n.kids |->
                  IF n.kids[i].node = "block" THEN n.kids[i].kids
                  ELSE <<n.kids[i]>>])

\* Fault: the end is part of the span.
FaultCovers(n, offset) == n.start <= offset /\ offset <= n.end

Covers(n, offset) == n.start <= offset /\ offset < n.end
BlankSpan(n) == IF n.node = "blank" THEN [n EXCEPT !.start = 0, !.end = 0]
                ELSE n

(* node_at_offset: the innermost node that has a reference of its own.     *)

\* A call's callee, an assignment's target, parameters and entries are not
\* searched.
Searched(n) ==
    CASE n.node = "call" -> Tail(n.kids)
      [] n.node = "assignment" -> Tail(n.kids)
      [] OTHER -> SelectSeq(Kids(n), LAMBDA k :
                    k.node \in StatementKinds \cup ExpressionKinds)

\* The nodes that stand for themselves when nothing deeper was found.
Referable ==
    Sections \cup {"function", "command", "assignment", "binary", "unary",
                   "property", "call", "literal", "variable", "eventvalue"}

RECURSIVE NodeAt(_, _)
NodeAt(n, offset) ==
    IF ~Covers(BlankSpan(n), offset) THEN NoNode
    ELSE LET found == SelectSeq([i \in DOMAIN Searched(n) |->
                                   NodeAt(Searched(n)[i], offset)],
                                LAMBDA r : r # NoNode)
         IN IF found # <<>> THEN found[1]
            ELSE IF n.node \in Referable THEN <<n>> ELSE NoNode

NodeAtOffset(items, offset) ==
    LET hit == SelectSeq(items, LAMBDA n : Covers(n, offset))
    IN IF hit = <<>> THEN NoNode ELSE NodeAt(hit[1], offset)

=============================================================================
