------------------------------- MODULE Parser -------------------------------
(***************************************************************************)
(* The recursive-descent parser (crates/skript-core/src/parser) over the   *)
(* token stream of Lexer.  parse_program is the state machine: one action  *)
(* is one round of its item loop.  The functions it calls are operators    *)
(* from a parser state p = [pos, errors, stuck] to a record with the node  *)
(* they build and the state they leave.                                    *)
(*                                                                         *)
(* An error is kept as the span it is reported at.  "stuck" stands for a   *)
(* loop of the code that no longer consumes anything: the call does not    *)
(* return, and neither does the round that made it.                        *)
(***************************************************************************)
EXTENDS Lexer, Ast

VARIABLES
    parser,     \* the Parser, minus its tokens
    items,      \* the items parsed so far
    itemStarts, \* for each item, the index of its first token
    phase       \* "lexing", "parsing" or "done"

parsing == <<parser, items, itemStarts, phase>>
vars == <<lexer, parsing>>

-----------------------------------------------------------------------------
(* The parser's own operations (parser/mod.rs).                            *)

Peek(p) == IF p.pos < Len(tokens) THEN tokens[p.pos + 1]
           ELSE Token("eof", <<>>, 0, 0)
Shape(t) == <<t.kind, t.value>>
At(p, shapes) == Shape(Peek(p)) \in shapes
AtKind(p, kinds) == Peek(p).kind \in kinds

Next1(p) == [p EXCEPT !.pos = @ + 1]
Skip(p, shapes) == IF At(p, shapes) THEN Next1(p) ELSE p
ErrorAt(p, start, end) ==
    [p EXCEPT !.errors = Append(@, [start |-> start, end |-> end])]
Error(p) == ErrorAt(p, Peek(p).start, Peek(p).end)
Expect(p, shape) == IF At(p, {shape}) THEN Next1(p) ELSE Error(p)

LineStops == {"newline", "dedent", "eof"}
\* To the next token of a shape or kind that stops; nothing is skipped once
\* the tokens are used up.
SkipTo(p, kinds, shapes) ==
    LET stops == {q \in p.pos .. Len(tokens) - 1 :
                    \/ tokens[q + 1].kind \in kinds
                    \/ Shape(tokens[q + 1]) \in shapes}
    IN IF stops = {} THEN p ELSE [p EXCEPT !.pos = Min(stops)]
Sync(p) == SkipTo(p, LineStops, {})
SkipLine(p) == SkipTo(p, LineStops, {})

RECURSIVE SkipAll(_, _)
SkipAll(p, kinds) == IF AtKind(p, kinds) THEN SkipAll(Next1(p), kinds) ELSE p

NEWLINE == <<"newline", <<>>>>
INDENT == <<"indent", <<>>>>
DEDENT == <<"dedent", <<>>>>
Op(c) == <<"operator", <<c>>>>
Op2(c, d) == <<"operator", <<c, d>>>>
Kw(w) == <<"keyword", <<w>>>>

Result(node, p) == [node |-> node, p |-> p]
\* One part is parsed, and what follows is given its result.
Then(result, Rest(_)) == Rest(result)
\* A node from start to where the next token begins.
UpTo(kind, name, type, kids, start, p) ==
    Result(Node(kind, name, type, kids, start, Peek(p).start), p)

\* Values of several tokens, with a blank between them.
RECURSIVE Join(_)
Join(values) ==
    IF values = <<>> THEN <<>>
    ELSE IF Len(values) = 1 THEN values[1]
    ELSE values[1] \o <<" ">> \o Join(Tail(values))

-----------------------------------------------------------------------------
(* Expressions (parser/expr.rs): precedence climbing.                      *)

Precedence(t) ==
    CASE Shape(t) = Kw("or") -> 1
      [] Shape(t) = Kw("and") -> 2
      [] Shape(t) \in {Kw("is"), Kw("isn't"), Op2("=", "="), Op2("!", "=")} -> 3
      [] Shape(t) \in {Op("<"), Op(">"), Op2("<", "="), Op2(">", "=")} -> 4
      [] Shape(t) \in {Kw("in"), <<"identifier", <<"instanceof">>>>} -> 5
      [] Shape(t) = Op("~") -> 6
      [] Shape(t) \in {Op("+"), Op("-")} -> 7
      [] Shape(t) \in {Op("*"), Op("/"), Op("%")} -> 8
      [] Shape(t) = Op("^") -> 9
      [] OTHER -> 0
RightAssociative == 9

Leaf(kind, t) == Node(kind, t.value, <<>>, <<>>, t.start, t.end)
Literal(t) == [Leaf("literal", t) EXCEPT !.type = <<t.kind>>]
Span2(kind, name, kids, start, end) == Node(kind, name, <<>>, kids, start, end)

InterpolationKinds == {"strtext", "interpstart", "tagopen", "tagclose"}

RECURSIVE ParsePrecedence(_, _), ParsePrefix(_), ParseRest(_, _),
          ParseList(_, _, _), ParseParts(_, _)

ParseExpression(p) == ParsePrecedence(p, 0)
ParsePrecedence(p, minPrec) ==
    ParseRest(ParsePrefix(p), minPrec)

\* Comma-separated expressions; a list in parentheses may end after a comma.
ParseList(p, elements, mayEnd) ==
    IF mayEnd /\ At(p, {Op(")")}) THEN Result(elements, p)
    ELSE Then(ParseExpression(p), LAMBDA e :
           IF At(e.p, {Op(",")})
           THEN ParseList(Next1(e.p), Append(elements, e.node), mayEnd)
           ELSE Result(Append(elements, e.node), e.p))

\* Fault: the call begins at its parenthesis.
FaultFunctionCall(callee, p) ==
    Then(IF At(Next1(p), {Op(")")}) THEN Result(<<>>, Next1(p))
         ELSE ParseList(Next1(p), <<>>, FALSE),
         LAMBDA args :
           Result(Span2("call", <<>>, <<callee>> \o args.node,
                        Peek(p).start, Peek(args.p).end),
                  Expect(args.p, Op(")"))))

ParseFunctionCall(callee, p) ==
    Then(IF At(Next1(p), {Op(")")}) THEN Result(<<>>, Next1(p))
         ELSE ParseList(Next1(p), <<>>, FALSE),
         LAMBDA args :
           Result(Span2("call", <<>>, <<callee>> \o args.node,
                        callee.start, Peek(args.p).end),
                  Expect(args.p, Op(")"))))

ParseIndex(target, p) ==
    Then(ParseExpression(Next1(p)), LAMBDA e :
      Result(Span2("index", <<>>, <<target, e.node>>,
                   target.start, Peek(e.p).end),
             Expect(e.p, Op("]"))))

\* p is behind the opening parenthesis.
ParseParenthesized(p) ==
    LET open == Peek(p)
        Closed(kind, kids, q) ==
          Result(Span2(kind, <<>>, kids, open.start, Peek(q).end),
                 Expect(q, Op(")")))
        More(first) ==
          IF At(first.p, {Op(",")})
          THEN Then(ParseList(Next1(first.p), <<first.node>>, TRUE),
                    LAMBDA list : Closed("list", list.node, list.p))
          ELSE Closed("parens", <<first.node>>, first.p)
    IN IF At(p, {Op(")")})
       THEN Result(Span2("list", <<>>, <<>>, open.start, open.end), Next1(p))
       ELSE More(ParseExpression(p))

\* The pieces of a string in pieces; of the text only the code is kept.
ParseParts(p, parts) ==
    IF AtKind(p, {"interpstart"})
    THEN Then(ParseExpression(Next1(p)), LAMBDA e :
           ParseParts(Expect(e.p, <<"interpend", <<>>>>), Append(parts, e.node)))
    ELSE IF AtKind(p, InterpolationKinds) THEN ParseParts(Next1(p), parts)
    ELSE Result(parts, p)
ParseInterpolation(p) ==
    Then(ParseParts(p, <<>>), LAMBDA r :
      UpTo("interpolation", <<>>, <<>>, r.node, Peek(p).start, r.p))

ParseUnary(p) ==
    Then(ParsePrecedence(Next1(p), 10), LAMBDA e :
      Result(Span2("unary", Peek(p).value, <<e.node>>, Peek(p).start, e.node.end),
             e.p))

\* Any word is an expression.  Every branch consumes a token, the error
\* branch whatever it finds there, a line break or a DEDENT too.
ParsePrefix(p) ==
    LET t == Peek(p) IN
    CASE t.kind \in {"number", "string", "boolean"} ->
           Result(Literal(t), Next1(p))
      [] t.kind = "variable" -> Result(Leaf("variable", t), Next1(p))
      [] t.kind = "identifier" ->
           Result(Leaf(IF t.value = <<"event">> THEN "eventvalue"
                       ELSE "variable", t), Next1(p))
      [] Shape(t) \in {Op("-"), Kw("not")} -> ParseUnary(p)
      [] t.kind = "keyword" /\ Shape(t) # Kw("not") ->
           Result(Leaf("variable", t), Next1(p))
      [] Shape(t) = Op("(") -> ParseParenthesized(Next1(p))
      [] t.kind \in InterpolationKinds -> ParseInterpolation(p)
      [] OTHER -> Result(Leaf("unknown", t), Next1(Error(p)))

ParseProperty(left, p) ==
    LET isName == AtKind(p, {"identifier", "keyword"})
    IN Result(Span2("property", IF isName THEN Peek(p).value ELSE <<>>,
                    <<left>>, left.start, Peek(p).end),
              IF isName THEN Next1(p) ELSE Error(p))
ParseBinary(left, p, prec) ==
    Then(ParsePrecedence(Next1(p), IF prec = RightAssociative THEN prec ELSE prec + 1),
         LAMBDA right :
           Result(Span2("binary", Peek(p).value, <<left, right.node>>,
                        left.start, right.node.end), right.p))

\* What follows the expression parsed so far.
ParseRest(left, minPrec) ==
    LET p == left.p IN
    Then(Precedence(Peek(p)), LAMBDA prec :
      IF At(p, {Op(".")})
      THEN ParseRest(ParseProperty(left.node, Next1(p)), minPrec)
      ELSE IF At(p, {Op("(")})
      THEN ParseRest(ParseFunctionCall(left.node, p), minPrec)
      ELSE IF At(p, {Op("[")})
      THEN ParseRest(ParseIndex(left.node, p), minPrec)
      ELSE IF prec > 0 /\ prec >= minPrec
      THEN ParseRest(ParseBinary(left.node, p, prec), minPrec)
      ELSE left)

-----------------------------------------------------------------------------
(* Statements (parser/stmt.rs).                                            *)

RECURSIVE ParseStatement(_), Statements(_, _), ElseChain(_, _),
          Arguments(_, _)

Block(stmts, start, end) == Node("block", <<>>, <<>>, stmts, start, end)

\* Fault: the DEDENT of the block is left to the caller.
FaultStatements(p, stmts) ==
    LET q == SkipAll(p, {"newline"}) IN
    IF AtKind(q, {"dedent", "eof"}) THEN Result(stmts, q)
    ELSE Then(ParseStatement(q), LAMBDA s : Statements(s.p, Append(stmts, s.node)))

\* parse_block_body: an optional line break, then INDENT, statements, DEDENT;
\* no statements at all when no INDENT follows.
Statements(p, stmts) ==
    LET q == SkipAll(p, {"newline"}) IN
    IF AtKind(q, {"dedent", "eof"}) THEN Result(stmts, Expect(q, DEDENT))
    ELSE Then(ParseStatement(q), LAMBDA s : Statements(s.p, Append(stmts, s.node)))
ParseBlockBody(p) ==
    LET q == Skip(p, {NEWLINE}) IN
    Then(IF At(q, {INDENT}) THEN Statements(Next1(q), <<>>) ELSE Result(<<>>, q),
         LAMBDA r : Result(Block(r.node, Peek(q).start, Peek(r.p).start), r.p))

\* ":" and the block behind it.
ParseColonBlock(p) == ParseBlockBody(Expect(p, Op(":")))

\* Rounds of "else if", then at most one "else": the nodes to append to an
\* "if", each branch spanning from its "else".
ElseChain(p, kids) ==
    LET q == SkipAll(p, {"newline"})
        start == Peek(q).start
        Branch(r) == [r.node EXCEPT !.start = start, !.end = Peek(r.p).start]
    IN IF ~At(q, {Kw("else")}) THEN Result(kids, q)
       ELSE IF At(Next1(q), {Kw("if")})
       THEN Then(ParseExpression(Next1(Next1(q))), LAMBDA condition :
            Then(ParseColonBlock(condition.p), LAMBDA r :
              ElseChain(r.p, kids \o <<condition.node, Branch(r)>>)))
       ELSE Then(ParseColonBlock(Next1(q)), LAMBDA r :
              Result(Append(kids, Branch(r)), r.p))

\* The condition's leftover words are skipped up to the colon.
ParseIf(p) ==
    Then(ParseExpression(Next1(p)), LAMBDA condition :
    Then(ParseColonBlock(SkipTo(condition.p, LineStops, {Op(":")})), LAMBDA body :
    Then(ElseChain(body.p, <<>>), LAMBDA rest :
      Result(Node("if", <<>>, <<>>,
                  <<condition.node, body.node>> \o rest.node, Peek(p).start,
                  IF rest.node = <<>> THEN Peek(rest.p).start
                  ELSE Last(rest.node).end),
             rest.p))))

\* What is looped over is parsed and dropped.
ParseLoop(p) ==
    LET q == IF At(Next1(p), {Op(":")}) THEN Next1(p)
             ELSE SkipTo(ParseExpression(Next1(p)).p, LineStops, {Op(":")})
    IN Then(ParseColonBlock(q), LAMBDA body :
         UpTo("loop", <<>>, <<>>, <<body.node>>, Peek(p).start, body.p))

ParseWhile(p) ==
    Then(ParseExpression(Next1(p)), LAMBDA condition :
    Then(ParseColonBlock(condition.p), LAMBDA body :
      UpTo("while", <<>>, <<>>, <<condition.node, body.node>>,
           Peek(p).start, body.p)))

Arguments(p, args) ==
    IF AtKind(p, LineStops) \/ At(p, {Op(":")}) THEN Result(args, p)
    ELSE Then(ParseExpression(p), LAMBDA e : Arguments(e.p, Append(args, e.node)))
\* A statement of one word and its arguments: parse_effect,
\* parse_effect_statement and the fallback of "do".
ParseEffect(p) ==
    LET t == Peek(p) IN
    Then(Arguments(Next1(p), <<>>), LAMBDA r :
      Result(Node("effect", t.value, <<>>, r.node, t.start,
                  IF r.node = <<>> THEN t.end ELSE Last(r.node).end), r.p))

ParseDoWhile(p) ==
    LET true == Literal(Token("boolean", <<"true">>, 0, 0))
        bare == CASE At(Next1(p), {Op(":")}) -> Next1(p)
                  [] At(Next1(p), {Kw("while")}) -> Next1(Next1(p))
                  [] OTHER -> p
        start == Peek(p).start
        Loop(condition, body) ==
          UpTo("dowhile", <<>>, <<>>,
               <<body.node, IF condition.node # true THEN condition.node
                            ELSE [true EXCEPT !.start = start, !.end = Peek(body.p).start]>>,
               start, body.p)
    IN IF bare = p THEN ParseEffect(p)
       ELSE Then(IF At(bare, {Op(":")}) THEN Result(true, bare) ELSE ParseExpression(bare),
                 LAMBDA condition : Loop(condition, ParseColonBlock(condition.p)))

ParseForIn(p) ==
    LET q == Skip(Next1(p), {<<"identifier", <<"each">>>>})
        named == AtKind(q, {"identifier", "variable", "keyword"})
        r == IF named THEN Next1(q) ELSE Error(q)
    IN Then(ParseExpression(Expect(r, Kw("in"))), LAMBDA iterable :
       Then(ParseColonBlock(iterable.p), LAMBDA body :
         UpTo("forin", IF named THEN Peek(q).value ELSE <<>>, <<>>,
              <<iterable.node, body.node>>, Peek(p).start, body.p)))

\* What may be assigned to is parsed as an expression; a braced variable
\* must stay one, a word may also be a property or an index.
ParseAssignmentTarget(p) ==
    LET t == Peek(p)
        allowed == IF t.kind = "variable" THEN {"variable"}
                   ELSE DOMAIN TargetOf
        Unnamed(start, end) == Node("target", <<>>, <<>>, <<>>, start, end)
        Target(e) ==
          IF e.node.node \in allowed
          THEN Result([e.node EXCEPT !.node = TargetOf[@]], e.p)
          ELSE Result(Unnamed(e.node.start, e.node.end),
                      ErrorAt(e.p, e.node.start, e.node.end))
    IN IF t.kind \notin {"variable", "identifier", "keyword"}
       THEN Result(Unnamed(t.start, t.end), Next1(Error(p)))
       ELSE Target(ParseExpression(p))

AssignmentOps ==
    {Kw("to"), Op("="), Op2(":", "="), Op2("+", "="), Op2("-", "="),
     Op2("*", "="), Op2("/", "=")}
ParseAssignment(p) ==
    Then(ParseAssignmentTarget(Next1(p)), LAMBDA target :
    Then(ParseExpression(IF At(target.p, AssignmentOps) THEN Next1(target.p)
                         ELSE Error(target.p)), LAMBDA value :
      Result(Node("assignment", <<>>, <<>>, <<target.node, value.node>>,
                  Peek(p).start, value.node.end), value.p)))

ParseAddRemove(p) ==
    LET link == IF At(p, {Kw("add")}) THEN Kw("to") ELSE Kw("from") IN
    Then(ParseExpression(Next1(p)), LAMBDA value :
    Then(ParseExpression(Expect(value.p, link)), LAMBDA target :
      Result(Node("effect", Peek(p).value, <<>>, <<value.node, target.node>>,
                  Peek(p).start, target.node.end), target.p)))

ParseSend(p) ==
    LET Sent(args, q) ==
          Result(Node("effect", Peek(p).value, <<>>, args, Peek(p).start,
                      Last(args).end), q)
    IN Then(ParseExpression(Next1(p)), LAMBDA message :
         IF At(message.p, {Kw("to")})
         THEN Then(ParseExpression(Next1(message.p)), LAMBDA target :
                Sent(<<message.node, target.node>>, target.p))
         ELSE Sent(<<message.node>>, message.p))

\* "return" and "wait", with or without an expression.
ParseOptional(kind, p) ==
    LET t == Peek(p) IN
    IF AtKind(Next1(p), LineStops)
    THEN Result(Node(kind, <<>>, <<>>, <<>>, t.start, t.end), Next1(p))
    ELSE Then(ParseExpression(Next1(p)), LAMBDA e :
           Result(Node(kind, <<>>, <<>>, <<e.node>>, t.start, e.node.end), e.p))

OneWord(kind, p, q) ==
    Result(Node(kind, <<>>, <<>>, <<>>, Peek(p).start, Peek(p).end), q)
BlankStatement == Node("blank", <<>>, <<>>, <<>>, 0, 0)

ParseStatement(p0) ==
    Then(SkipAll(p0, {"newline"}), LAMBDA p :
    Then(IF AtKind(p, {"keyword"}) THEN Peek(p).value[1] ELSE "", LAMBDA word :
         CASE word = "if" -> ParseIf(p)
         [] word = "loop" -> ParseLoop(p)
         [] word = "while" -> ParseWhile(p)
         [] word = "for" -> ParseForIn(p)
         [] word = "set" -> ParseAssignment(p)
         [] word \in {"add", "remove"} -> ParseAddRemove(p)
         [] word \in {"send", "broadcast"} -> ParseSend(p)
         [] word \in {"return", "wait"} -> ParseOptional(word, p)
         [] word \in {"stop", "continue"} -> OneWord(word, p, Next1(p))
         [] word = "exit" -> OneWord(word, p, Skip(Next1(p), {Kw("loop")}))
         [] word = "cancel" ->
              UpTo("cancel", <<>>, <<>>, <<>>, Peek(p).start, Next1(p))
         [] word = "do" -> ParseDoWhile(p)
         [] AtKind(p, {"dedent", "eof"}) -> Result(BlankStatement, p)
         [] OTHER -> IF AtKind(p, {"identifier", "keyword"})
                     THEN ParseEffect(p)
                     ELSE Result(BlankStatement, Sync(Next1(Error(p))))))

-----------------------------------------------------------------------------
(* Declarations (parser/decl.rs).                                          *)

\* token_text and reconstruct_text: tokens as text again; quotes are lost.
TokenText(t) ==
    CASE t.kind = "variable" -> <<"{">> \o t.value \o <<"}">>
      [] t.kind = "tagopen" -> <<"<">> \o t.value \o <<">">>
      [] t.kind = "tagclose" -> <<"<", "/">> \o t.value \o <<">">>
      [] t.kind = "interpstart" -> <<"%", "{">>
      [] t.kind = "interpend" -> <<"}", "%">>
      [] OTHER -> t.value
TextBetween(p, q) ==
    LET Gap(i) == i > p.pos + 1 /\ tokens[i - 1].end < tokens[i].start
    IN FlattenSeq([k \in 1 .. q.pos - p.pos |->
         (IF Gap(p.pos + k) THEN <<" ">> ELSE <<>>)
           \o TokenText(tokens[p.pos + k])])

WordKinds == {"identifier", "keyword", "variable"}

\* parse_identifier_or_keyword: no name, and nothing consumed, on anything
\* else.
ParseName(p) ==
    IF AtKind(p, WordKinds) THEN Result(Peek(p).value, Next1(p))
    ELSE Result(<<>>, Error(p))
ParseType(p) ==
    IF AtKind(p, {"identifier", "keyword"})
    THEN Result(<<Peek(p).value>>, Next1(p)) ELSE Result(<<>>, p)
OptionalType(p) ==
    IF At(p, {Op(":")}) THEN ParseType(Next1(p)) ELSE Result(<<>>, p)

\* The value behind an "=", up to the end of the line or a stopping token:
\* one unknown expression.
OptionalValue(p, stops) ==
    LET from == Next1(p)
        to == SkipTo(from, LineStops, stops)
    IN IF ~At(p, {Op("=")}) THEN Result(<<>>, p)
       ELSE IF from.pos = to.pos THEN Result(<<>>, from)
       ELSE Result(<<Node("unknown", TextBetween(from, to), <<>>, <<>>,
                          Peek(from).start, tokens[to.pos].end)>>, to)

\* Only a comma or the end of the line ends a default value.
ParseParameter(p) ==
    LET name == ParseName(p)
        type == OptionalType(name.p)
        default == OptionalValue(type.p, {Op(",")})
    IN IF name.node = <<>>
       THEN Result(Node("parameter", <<>>, <<>>, <<>>, Peek(p).start,
                        Peek(p).end), name.p)
       ELSE UpTo("parameter", name.node, type.node, default.node,
                 Peek(p).start, default.p)

RECURSIVE Parameters(_, _), CommandArguments(_, _), MetadataKey(_, _),
          Metadata(_), EventType(_, _), AliasSource(_, _), Entries(_, _, _)

Parameters(p, params) ==
    Then(ParseParameter(p), LAMBDA r :
      IF At(r.p, {Op(",")}) THEN Parameters(Next1(r.p), Append(params, r.node))
      ELSE Result(Append(params, r.node), r.p))

ParseFunction(p) ==
    LET List(open) == IF At(open, {Op(")")}) THEN Result(<<>>, open)
                      ELSE Parameters(open, <<>>)
        Type(close) == CASE At(close, {Op2("-", ">")}) -> ParseType(Next1(close))
                         [] At(close, {Op(":")}) /\ At(Next1(close), {Op(":")}) ->
                              ParseType(Next1(Next1(close)))
                         [] OTHER -> Result(<<>>, close)
    IN Then(ParseName(Next1(p)), LAMBDA name :
       Then(List(Expect(name.p, Op("("))), LAMBDA params :
       Then(Type(Expect(params.p, Op(")"))), LAMBDA type :
       Then(ParseColonBlock(type.p), LAMBDA body :
         UpTo("function", name.node, type.node,
              Append(params.node, body.node), Peek(p).start, body.p)))))

\* What stands for the argument's name is consumed whatever it is.
ParseCommandArg(p) ==
    LET optional == At(p, {Op("[")})
        named == Expect(Skip(p, {Op("[")}), Op("<"))
        isName == AtKind(named, {"identifier"})
        type == OptionalType(Next1(IF isName THEN named ELSE Error(named)))
        close == Expect(type.p, Op(">"))
    IN UpTo("argument", IF isName THEN Peek(named).value ELSE <<>>,
            type.node, <<>>, Peek(named).start,
            IF optional THEN Expect(close, Op("]")) ELSE close)
CommandArguments(p, args) ==
    IF ~At(p, {Op("<"), Op("[")}) THEN Result(args, p)
    ELSE Then(ParseCommandArg(p), LAMBDA r :
           CommandArguments(r.p, Append(args, r.node)))

\* parse_metadata_key: what the keys say is of no account here.
MetadataKey(p, first) ==
    IF first THEN LET r == ParseName(p)
                  IN IF r.node = <<>> THEN r.p ELSE MetadataKey(r.p, FALSE)
    ELSE IF AtKind(p, {"identifier", "keyword"})
         THEN MetadataKey(Next1(p), FALSE) ELSE p
\* Entries up to the trigger, whose block ends the loop.
Metadata(p) ==
    IF AtKind(p, {"dedent", "eof"}) THEN Result(Block(<<>>, 0, 0), p)
    ELSE IF At(p, {Kw("trigger")}) THEN ParseColonBlock(Next1(p))
    ELSE Metadata(Skip(SkipLine(Expect(MetadataKey(p, TRUE), Op(":"))),
                       {NEWLINE}))

\* What comes behind the entries is the body if they had none.
LateBody(r) ==
    IF r.node.kids = <<>> /\ ~AtKind(r.p, {"dedent", "eof"})
    THEN ParseBlockBody(r.p) ELSE r
ParseCommandBody(p) ==
    IF At(p, {INDENT})
    THEN Then(LateBody(Metadata(Next1(p))), LAMBDA r :
           Result(r.node, Expect(r.p, DEDENT)))
    ELSE Result(Block(<<>>, 0, 0), p)
ParseCommand(p) ==
    Then(ParseName(Skip(Next1(p), {Op("/")})), LAMBDA name :
    Then(CommandArguments(name.p, <<>>), LAMBDA args :
    Then(ParseCommandBody(Skip(Expect(args.p, Op(":")), {NEWLINE})), LAMBDA body :
      UpTo("command", name.node, <<>>, Append(args.node, body.node),
           Peek(p).start, body.p))))

EventType(p, parts) ==
    IF \/ AtKind(p, {"identifier", "string"})
       \/ AtKind(p, {"keyword"}) /\ ~At(p, {Kw("on")})
    THEN EventType(Next1(p), Append(parts, Peek(p).value))
    ELSE Result(Join(parts), p)
ParseEvent(p) ==
    Then(EventType(Next1(p), <<>>), LAMBDA type :
    Then(ParseColonBlock(type.p), LAMBDA body :
      UpTo("event", type.node, <<>>, <<body.node>>, Peek(p).start, body.p)))

ParsePeriodicEvent(p) ==
    LET colon == SkipTo(Next1(p), LineStops, {Op(":")}) IN
    Then(ParseColonBlock(colon), LAMBDA body :
      UpTo("periodic", TextBetween(Next1(p), colon), <<>>, <<body.node>>,
           Peek(p).start, body.p))

ParseExample(p) ==
    Then(ParseColonBlock(Next1(p)), LAMBDA body :
      UpTo("example", <<>>, <<>>, <<body.node>>, Peek(p).start, body.p))

ParseUsing(p) ==
    LET end == SkipLine(Next1(p))
    IN UpTo("using", TextBetween(Next1(p), end), <<>>, <<>>,
            Peek(p).start, end)

(* The blocks of entries: options, aliases and variables.                  *)

\* The words of an alias up to its "="; ParseName leaves anything that is no
\* word where it is, and the loop with it.
AliasSource(p, parts) ==
    IF AtKind(p, LineStops) \/ At(p, {Op("=")}) THEN Result(Join(parts), p)
    ELSE IF ~AtKind(p, WordKinds)
    THEN Result(Join(parts), [Error(p) EXCEPT !.stuck = TRUE])
    ELSE AliasSource(Next1(p), Append(parts, Peek(p).value))

OptionEntry(p) ==
    LET name == ParseName(p)
    IN UpTo("entry", name.node, <<>>, <<>>, Peek(p).start,
            SkipLine(Expect(name.p, Op(":"))))
AliasEntry(p) ==
    LET source == AliasSource(p, <<>>)
    IN UpTo("entry", source.node, <<>>, <<>>, Peek(p).start,
            IF source.p.stuck THEN source.p
            ELSE SkipLine(Expect(source.p, Op("="))))
VariableDecl(p) ==
    LET name == ParseName(p)
        type == OptionalType(name.p)
        value == OptionalValue(type.p, {})
    IN UpTo("declaration", name.node, type.node, value.node, Peek(p).start,
            value.p)
Entry(kind, p) == CASE kind = "options" -> OptionEntry(p)
                    [] kind = "aliases" -> AliasEntry(p)
                    [] kind = "variables" -> VariableDecl(p)

\* A round that consumes nothing is repeated for ever.
Entries(kind, p, nodes) ==
    IF AtKind(p, {"dedent", "eof"}) THEN Result(nodes, Expect(p, DEDENT))
    ELSE Then(Entry(kind, p), LAMBDA e :
         Then(Skip(e.p, {NEWLINE}), LAMBDA next :
           IF next.stuck \/ next.pos = p.pos
           THEN Result(nodes, [next EXCEPT !.stuck = TRUE])
           ELSE Entries(kind, next, Append(nodes, e.node))))
ParseEntries(kind, p) ==
    LET open == Skip(Expect(Next1(p), Op(":")), {NEWLINE})
        r == IF At(open, {INDENT}) THEN Entries(kind, Next1(open), <<>>)
             ELSE Result(<<>>, open)
    IN UpTo(kind, <<>>, <<>>, r.node, Peek(p).start, r.p)

\* The keywords that begin an item, and what parses it.
ItemKeywords ==
    {"function", "command", "on", "every", "options", "aliases", "variables",
     "using", "example"}
\* Fault: one declaration is not dispatched.
FaultStartsItem(p) ==
    \E w \in ItemKeywords \ {"example"} : At(p, {Kw(w)})

StartsItem(p) == \E w \in ItemKeywords : At(p, {Kw(w)})
ParseTopLevelItem(p) ==
    LET word == Peek(p).value[1] IN
    CASE word = "function" -> ParseFunction(p)
      [] word = "command" -> ParseCommand(p)
      [] word = "on" -> ParseEvent(p)
      [] word = "every" -> ParsePeriodicEvent(p)
      [] word = "using" -> ParseUsing(p)
      [] word = "example" -> ParseExample(p)
      [] OTHER -> ParseEntries(word, p)

-----------------------------------------------------------------------------
(* parse_program: all tokens first, then item after item.                  *)

ParserInit ==
    /\ Init
    /\ parser = [pos |-> 0, errors |-> <<>>, stuck |-> FALSE]
    /\ items = <<>>
    /\ itemStarts = <<>>
    /\ phase = "lexing"

Tokenize == phase = "lexing" /\ NextToken /\ UNCHANGED parsing

StartParsing ==
    /\ phase = "lexing"
    /\ Finished
    /\ phase' = "parsing"
    /\ UNCHANGED <<lexer, parser, items, itemStarts>>

AtItem == SkipAll(parser, {"newline", "dedent"})
InRound == phase = "parsing" /\ ~AtKind(AtItem, {"eof"})

\* A round that is stuck in an item does not return.
ParseItem ==
    /\ InRound
    /\ StartsItem(AtItem)
    /\ \E r \in {ParseTopLevelItem(AtItem)} :
       /\ ~r.p.stuck
       /\ parser' = r.p
       /\ items' = Append(items, r.node)
       /\ itemStarts' = Append(itemStarts, AtItem.pos)
    /\ UNCHANGED <<lexer, phase>>

\* What starts no item is skipped to the end of its line, without an error.
SkipNoItem ==
    /\ InRound
    /\ ~StartsItem(AtItem)
    /\ parser' = Sync(AtItem)
    /\ UNCHANGED <<lexer, items, itemStarts, phase>>

EndParsing ==
    /\ phase = "parsing"
    /\ AtKind(AtItem, {"eof"})
    /\ parser' = AtItem
    /\ phase' = "done"
    /\ UNCHANGED <<lexer, items, itemStarts>>

Next == Tokenize \/ StartParsing \/ ParseItem \/ SkipNoItem \/ EndParsing

\* parse_program is one call on one thread: it goes on as long as it can.
Spec == ParserInit /\ [][Next]_vars /\ WF_vars(Next)

-----------------------------------------------------------------------------
(* Properties.                                                             *)

Done == phase = "done"
NoErrors == parser.errors = <<>>

StartsLine(i) == i = 0 \/ tokens[i].kind \in {"newline", "indent", "dedent"}

\* Parsing ends on every text; the loops over the entries of an aliases or a
\* variables block stop consuming on some.
EveryParseEnds == <>Done

\* The item that begins at start, up to where the parser stands behind it,
\* closes the blocks it opens, or an error is reported in it: what eats the
\* DEDENT of its block (and the next item with it), or leaves a block behind,
\* does not go unnoticed.
MisalignmentIsReported ==
    [][\A i \in DOMAIN items' \ DOMAIN items :
         LET end == Min({parser'.pos, Len(tokens)}) IN
           \/ Depth(end) = Depth(itemStarts'[i])
           \/ Len(parser'.errors) > Len(parser.errors)]_vars

\* A text parsed without an error loses no declaration: every line outside
\* all blocks that begins with an item's keyword is an item.
DeclarationsAreKept ==
    Done /\ NoErrors =>
      \A i \in 0 .. Len(tokens) - 1 :
        (Shape(tokens[i + 1]) \in {Kw(w) : w \in ItemKeywords}
           /\ StartsLine(i) /\ Depth(i) = 0) => Contains(itemStarts, i)

\* In a text parsed without an error a node lies inside its parent, and the
\* children that are visited in the order of the text do not overlap: what
\* node_at_offset relies on.
Spanned(n) == SelectSeq(Kids(n), LAMBDA k : k.node # "blank")
SpansNest ==
    Done /\ NoErrors =>
      \A n \in Range(WalkProgram(items)) :
        LET kids == Spanned(n) IN
           \A j \in DOMAIN kids :
             /\ n.start <= kids[j].start /\ kids[j].end <= n.end
             /\ j > 1 /\ n.node # "dowhile" => kids[j - 1].end <= kids[j].start

=============================================================================
