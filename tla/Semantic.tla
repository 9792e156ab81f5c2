------------------------------ MODULE Semantic ------------------------------
(***************************************************************************)
(* Semantic analysis (crates/skript-core/src/semantic) of a parsed         *)
(* program, and what the editor asks of it: the symbol at an offset, its   *)
(* references, renaming, highlights, hints and the outline                 *)
(* (crates/skript-core/src/references.rs, crates/skript-lsp/src/           *)
(* backend.rs).  All of it is computed from the items at once, so it is    *)
(* given as operators on them; a name is the sequence of its lexemes.      *)
(***************************************************************************)
EXTENDS Parser

CONSTANTS
    Builtins,       \* names of Skript's own functions
    PropertyTypes   \* the types of well-known properties, by their names

\* What an item declares between its parentheses, and its statements.
Params(item) == Front(item.kids)
Body(item) == Last(item.kids).kids
Blocks(s) == SelectSeq(s.kids, LAMBDA k : k.node = "block")

-----------------------------------------------------------------------------
(* The scope tree (scope.rs): scopes in the order they are entered, the    *)
(* global one first; a scope's symbols are the first of each name.         *)

Symbol(kind, name, type, n) ==
    [kind |-> kind, name |-> name, type |-> type,
     start |-> n.start, end |-> n.end]
Named(seq, name) == SelectSeq(seq, LAMBDA s : s.name = name)
Declare(symbols, new) ==
    IF Named(symbols, new.name) # <<>> THEN symbols ELSE Append(symbols, new)

\* Only named scopes have a name; only the global one has no span.
Scope(kind, parent, name, span, symbols) ==
    [kind |-> kind, parent |-> parent, name |-> name, span |-> span,
     symbols |-> FoldLeft(Declare, <<>>, symbols)]
Root == 1
GlobalScope == Scope("Global", 0, <<>>, <<>>, <<>>)

RECURSIVE ScopeStatement(_, _, _)
ScopeStatements(tree, cur, stmts) ==
    FoldLeft(LAMBDA t, s : ScopeStatement(t, cur, s), tree, stmts)
EnterScope(tree, kind, cur, name, n, symbols, stmts) ==
    LET new == Append(tree, Scope(kind, cur, name, <<n.start, n.end>>, symbols))
    IN ScopeStatements(new, Len(new), stmts)

\* A section's first body is in a scope of the whole section, each further
\* branch of an "if" in one of its own.
ScopeStatement(tree, cur, s) ==
    CASE s.node \in Sections ->
           LET bodies == Blocks(s)
               Enter(t, i) ==
                 EnterScope(t, "Block", cur,
                   IF s.node = "forin" THEN <<s.name>> ELSE <<>>,
                   IF i = 1 THEN s ELSE bodies[i],
                   IF s.node = "forin"
                   THEN <<Symbol("LoopVariable", s.name, <<>>, s)>> ELSE <<>>,
                   bodies[i].kids)
           IN FoldLeft(Enter, tree, [i \in DOMAIN bodies |-> i])
      [] s.node = "assignment" /\ s.kids[1].node = "target" ->
           [tree EXCEPT ![cur].symbols =
              Declare(@, Symbol("Variable", s.kids[1].name, <<>>, s))]
      [] OTHER -> tree

ScopeKinds == [function |-> "Function", command |-> "Command",
               event |-> "Event", periodic |-> "Event"]
\* An example's statements are in the global scope itself.
ScopeItem(tree, item) ==
    CASE item.node \in DOMAIN ScopeKinds ->
           EnterScope(tree, ScopeKinds[item.node], Root, <<item.name>>, item,
             [i \in DOMAIN Params(item) |->
                Symbol("Parameter", Params(item)[i].name,
                       Params(item)[i].type, Params(item)[i])],
             Body(item))
      [] item.node = "example" -> ScopeStatements(tree, Root, Body(item))
      [] OTHER -> tree
ScopeTree(program) == FoldLeft(ScopeItem, <<GlobalScope>>, program)

\* The symbol of that name in the scope or the nearest one around it.
RECURSIVE Lookup(_, _, _)
\* Fault: the scopes around are not searched.
FaultLookup(tree, i, name) ==
    IF i = 0 THEN <<>> ELSE Named(tree[i].symbols, name)

Lookup(tree, i, name) ==
    IF i = 0 THEN <<>>
    ELSE IF Named(tree[i].symbols, name) # <<>>
    THEN Named(tree[i].symbols, name)
    ELSE Lookup(tree, tree[i].parent, name)

\* The smallest scope around the offset, its end included; the first of
\* equal ones.
ScopeAtOffset(tree, offset) ==
    LET hits == {i \in 2 .. Len(tree) :
                   tree[i].span[1] <= offset /\ offset <= tree[i].span[2]}
        Extent(i) == tree[i].span[2] - tree[i].span[1]
        smallest == {i \in hits : \A j \in hits : Extent(i) <= Extent(j)}
    IN IF hits = {} THEN Root ELSE Min(smallest)

-----------------------------------------------------------------------------
(* The variable tracker (variables.rs): declarations in the order of the   *)
(* walk, all of an item's in one scope; a use counts for the latest        *)
(* declaration of the name in its item.                                    *)

IsLocal(name) == name # <<>> /\ name[1] \in LocalNames
KindFromName(name) == IF IsLocal(name) THEN "Local" ELSE "Global"

Record(tracker, kind, n) ==
    [tracker EXCEPT !.declarations =
       Append(@, [kind |-> kind, name |-> n.name, start |-> n.start,
                  end |-> n.end, item |-> tracker.item, used |-> FALSE])]
\* Fault: a use counts for a declaration of another item.
FaultRecordUsage(tracker, name) ==
    LET found == {i \in DOMAIN tracker.declarations :
                    tracker.declarations[i].name = name}
    IN IF found = {} THEN tracker
       ELSE [tracker EXCEPT !.declarations[Max(found)].used = TRUE]

RecordUsage(tracker, name) ==
    LET found == {i \in DOMAIN tracker.declarations :
                    /\ tracker.declarations[i].name = name
                    /\ tracker.declarations[i].item = tracker.item}
    IN IF found = {} THEN tracker
       ELSE [tracker EXCEPT !.declarations[Max(found)].used = TRUE]

\* An assignment declares its target before its value is visited, and what
\* is below a property or an index it writes to is not visited.
RECURSIVE Track(_, _)
Track(tracker, n) ==
    CASE n.node = "variable" -> RecordUsage(tracker, n.name)
      [] n.node = "assignment" ->
           Track(IF n.kids[1].node = "target"
                 THEN Record(tracker, KindFromName(n.kids[1].name), n.kids[1])
                 ELSE tracker, n.kids[2])
      [] n.node = "forin" ->
           Track(Record(Track(tracker, n.kids[1]), "LoopVar", n), n.kids[2])
      [] OTHER -> FoldLeft(Track, tracker, n.kids)
TrackItem(tracker, item) ==
    LET entered == [tracker EXCEPT !.item = @ + 1]
        known == FoldLeft(LAMBDA t, p : Record(t, "Parameter", p),
                          entered, Params(item))
    IN IF item.node \in BodyItems THEN Track(known, Last(item.kids))
       ELSE tracker
VariableTracker(program) ==
    FoldLeft(TrackItem, [item |-> 0, declarations |-> <<>>], program)
UnusedLocals(program) ==
    SelectSeq(VariableTracker(program).declarations,
              LAMBDA d : d.kind = "Local" /\ ~d.used)

-----------------------------------------------------------------------------
(* The function registry (functions.rs): the first declaration of a name   *)
(* counts; calls are recorded by the name they call.                       *)

Functions(program) == SelectSeq(program, LAMBDA i : i.node = "function")
Registered(program, name) ==
    LET found == Named(Functions(program), name)
    IN IF found = <<>> THEN found ELSE <<found[1]>>
DuplicateFunctions(program) ==
    LET f == Functions(program)
    IN SelectSeq([i \in DOMAIN f |-> i],
                 LAMBDA i : \E j \in 1 .. i - 1 : f[j].name = f[i].name)

CallsNamed(n) == n.node = "call" /\ n.kids[1].node = "variable"
\* What is called is not visited, only the arguments.
RECURSIVE Calls(_)
Calls(n) ==
    (IF CallsNamed(n) THEN <<n>> ELSE <<>>)
      \o FlattenSeq([i \in DOMAIN n.kids |->
           IF n.node = "call" /\ i = 1 THEN <<>> ELSE Calls(n.kids[i])])
RecordedCalls(program) ==
    FlattenSeq([i \in DOMAIN program |-> Calls(program[i])])

SemanticError(code, n) == [code |-> code, start |-> n.start, end |-> n.end]
NoSpan == [start |-> 0, end |-> 0]
CallError(program, call) ==
    LET info == Registered(program, call.kids[1].name)
    IN IF info # <<>> THEN Len(Params(info[1])) # Len(call.kids) - 1
       ELSE call.kids[1].name \notin Builtins
ValidateCalls(program) ==
    SelectSeq(RecordedCalls(program), LAMBDA c : CallError(program, c))

\* analyze: a duplicate is reported by the registry's errors and again by
\* check_duplicates; unused locals are reported apart.
Errors(program) ==
    LET duplicates == [i \in DOMAIN DuplicateFunctions(program) |->
                         SemanticError("duplicate-function", NoSpan)]
        calls == ValidateCalls(program)
    IN duplicates
         \o [i \in DOMAIN calls |-> SemanticError("function-call", calls[i])]
         \o duplicates

-----------------------------------------------------------------------------
(* Type inference (types.rs): the types it records, each at the start of   *)
(* its expression, in the order of the walk; of two at one place the later *)
(* counts.                                                                 *)

AnyType == <<>>
UnknownType == <<"unknown">>
Number == <<"number">>
Text == <<"text">>
Boolean == <<"boolean">>

Logical == {<<"is">>, <<"isn't">>, <<"in">>, <<"and">>, <<"or">>,
            <<"instanceof">>, <<"=", "=">>, <<"!", "=">>, <<"<">>, <<">">>,
            <<"<", "=">>, <<">", "=">>}

RECURSIVE TypeOf(_, _, _, _)
TypeOf(program, tree, cur, e) ==
    LET Of(k) == TypeOf(program, tree, cur, e.kids[k])
        declared == CASE e.node = "variable" -> Lookup(tree, cur, e.name)
                      [] CallsNamed(e) -> Registered(program, e.kids[1].name)
                      [] OTHER -> <<>>
        known == declared # <<>> /\ declared[1].type # <<>>
    IN CASE e.node = "literal" ->
              IF e.type[1] = "string" THEN Text ELSE e.type
         [] e.node \in {"variable", "call"} /\ known -> declared[1].type[1]
         [] e.node \in {"call", "unknown"} /\ ~known -> UnknownType
         [] e.node = "binary" ->
              IF e.name \in Logical THEN Boolean
              ELSE IF \/ e.name = <<"~">>
                      \/ e.name = <<"+">> /\ Text \in {Of(1), Of(2)}
              THEN Text ELSE Number
         [] e.node = "unary" -> IF e.name = <<"not">> THEN Boolean ELSE Number
         [] e.node = "parens" -> Of(1)
         [] e.node = "interpolation" -> Text
         [] e.node = "property" /\ e.name \in DOMAIN PropertyTypes ->
              PropertyTypes[e.name]
         [] OTHER -> AnyType

RECURSIVE ExpressionTypes(_, _, _, _), StatementTypes(_, _, _, _)
ExpressionTypes(program, tree, cur, e) ==
    (IF e.node \in {"binary", "unary", "parens"}
     THEN FlattenSeq([i \in DOMAIN e.kids |->
            ExpressionTypes(program, tree, cur, e.kids[i])])
     ELSE <<>>) \o <<<<e.start, TypeOf(program, tree, cur, e)>>>>

ChildScopes(tree, cur) ==
    SelectSeq([i \in DOMAIN tree |-> i], LAMBDA i : tree[i].parent = cur)
\* The scope a body is taken to be in: some child of the current one.
BodyScope(tree, cur, s) ==
    LET kids == ChildScopes(tree, cur)
        fit == IF s.node = "if"
               THEN SelectSeq(kids, LAMBDA i : tree[i].kind = "Block"
                                                 /\ ChildScopes(tree, i) # <<>>)
               ELSE SelectSeq(SubSeq(kids, 1, Min({1, Len(kids)})),
                              LAMBDA i : tree[i].kind = "Block")
    IN IF fit = <<>> THEN cur ELSE fit[1]
TypesOfBody(program, tree, cur, stmts) ==
    FlattenSeq([i \in DOMAIN stmts |->
                  StatementTypes(program, tree, cur, stmts[i])])

\* The bodies of "else if" are not visited, that of "else" once in every
\* child scope.
StatementTypes(program, tree, cur, s) ==
    LET Exprs(es) == FlattenSeq([i \in DOMAIN es |->
                       ExpressionTypes(program, tree, cur, es[i])])
        bodies == Blocks(s)
        inBody == TypesOfBody(program, tree, BodyScope(tree, cur, s),
                              bodies[1].kids)
        others == SelectSeq(s.kids, LAMBDA k : k.node # "block")
        hasElse == s.node = "if" /\ Len(bodies) > Len(others)
        scopes == IF ChildScopes(tree, cur) = <<>> THEN <<cur>>
                  ELSE ChildScopes(tree, cur)
        inElse == FlattenSeq([i \in DOMAIN scopes |->
                    TypesOfBody(program, tree, scopes[i], Last(bodies).kids)])
        target == s.kids[1]
        value == s.kids[2]
    IN CASE s.node \in Sections ->
              IF s.node = "if"
              THEN Exprs(<<others[1]>>) \o inBody \o Exprs(Tail(others))
                     \o (IF hasElse THEN inElse ELSE <<>>)
              ELSE IF s.node = "dowhile" THEN inBody \o Exprs(others)
              ELSE Exprs(others) \o inBody
         [] s.node = "assignment" ->
              Exprs(<<value>>)
                \o (IF target.node = "target"
                    THEN <<<<target.start, TypeOf(program, tree, cur, value)>>>>
                    ELSE <<>>)
         [] OTHER -> Exprs(s.kids)

\* An item's scope is found by its name; the statements of an example have
\* the global one.
TypesOfItem(program, tree, item) ==
    LET fit == SelectSeq(ChildScopes(tree, Root),
                         LAMBDA i : tree[i].name = <<item.name>>)
        cur == IF fit = <<>> \/ item.node = "example" THEN Root ELSE fit[1]
    IN IF item.node \in BodyItems
       THEN TypesOfBody(program, tree, cur, Body(item)) ELSE <<>>
TypeInference(program) ==
    FlattenSeq([i \in DOMAIN program |->
                  TypesOfItem(program, ScopeTree(program), program[i])])
GetType(types, start) ==
    LET found == {i \in DOMAIN types : types[i][1] = start}
    IN IF found = {} THEN UnknownType ELSE types[Max(found)][2]

-----------------------------------------------------------------------------
(* References (references.rs) and the requests answered from them          *)
(* (backend.rs: goto_definition, references, rename, document_highlight).  *)

\* The symbol an offset stands for, with the span of its declaration.
Found(kind, name, decl) ==
    IF decl = <<>> THEN <<>>
    ELSE <<[kind |-> kind, name |-> name, start |-> decl[1].start,
            end |-> decl[1].end]>>
FindVariable(tree, offset, name) ==
    Found("variable", name, Lookup(tree, ScopeAtOffset(tree, offset), name))
SymbolOf(program, offset, n) ==
    IF n.node \in {"function", "command"} THEN Found(n.node, n.name, <<n>>)
    ELSE IF CallsNamed(n)
    THEN Found("function", n.kids[1].name, Registered(program, n.kids[1].name))
    ELSE IF \/ n.node = "variable"
            \/ n.node = "assignment" /\ n.kids[1].node = "target"
    THEN FindVariable(ScopeTree(program), offset,
                      IF n.node = "variable" THEN n.name ELSE n.kids[1].name)
    ELSE <<>>
FindSymbol(program, offset) ==
    Then(NodeAtOffset(program, offset), LAMBDA at :
      IF at = NoNode THEN <<>> ELSE SymbolOf(program, offset, at[1]))

\* Fault: what is assigned to is no reference.
FaultFindReferences(program, symbol) ==
    SelectSeq(WalkProgram(program), LAMBDA n :
      CASE symbol.kind = "variable" ->
             n.node = "variable" /\ n.name = symbol.name
        [] symbol.kind = "function" ->
             CallsNamed(n) /\ n.kids[1].name = symbol.name
        [] OTHER -> FALSE)

\* Every place of the name in the program: for a variable, targets and all
\* expressions, bare words and what a call calls among them; for a function,
\* whole calls.
FindReferences(program, symbol) ==
    SelectSeq(WalkProgram(program), LAMBDA n :
      CASE symbol.kind = "variable" ->
             n.node \in {"variable", "target"} /\ n.name = symbol.name
        [] symbol.kind = "function" ->
             CallsNamed(n) /\ n.kids[1].name = symbol.name
        [] OTHER -> FALSE)

\* One edit for each reference; a variable is written in braces.
Edits(refs, kind, newName) ==
    [i \in DOMAIN refs |->
       [start |-> refs[i].start, end |-> refs[i].end,
        text |-> IF kind = "variable" THEN <<"{">> \o newName \o <<"}">>
                 ELSE newName]]
Rename(program, offset, newName) ==
    Then(FindSymbol(program, offset), LAMBDA symbol :
      IF symbol = <<>> THEN <<>>
      ELSE Edits(FindReferences(program, symbol[1]), symbol[1].kind, newName))

\* collect_type_hints: behind the target of every assignment to a variable
\* whose value has a known type.
HintsFrom(types, program) ==
    LET Known(n) == GetType(types, n.kids[2].start) \notin {AnyType, UnknownType}
        hinted == SelectSeq(WalkProgram(program), LAMBDA n :
          n.node = "assignment" /\ n.kids[1].node = "target" /\ Known(n))
    IN [i \in DOMAIN hinted |->
          [at |-> hinted[i].kids[1].end,
           type |-> GetType(types, hinted[i].kids[2].start)]]
TypeHints(program) == HintsFrom(TypeInference(program), program)

\* The outline: an entry for each item of these kinds.
DocumentSymbols(program) ==
    SelectSeq(program, LAMBDA i : i.node \in DOMAIN ScopeKinds)

-----------------------------------------------------------------------------
(* Properties, of texts that are parsed without an error.                  *)

Analysed == Done /\ NoErrors

\* The nodes node_at_offset is to find, each parent before its children:
\* what is called and what is assigned to stand for the call and the
\* assignment.
RECURSIVE Seen(_)
Seen(n) ==
    <<n>> \o FlattenSeq([i \in DOMAIN n.kids |->
               IF \/ n.node \in {"call", "assignment"} /\ i = 1
                  \/ n.kids[i].node \in {"parameter", "argument", "declaration"}
               THEN <<>> ELSE Seen(n.kids[i])])

\* At every offset node_at_offset, which goes down the first child that
\* covers the offset and comes back up where nothing is found, finds the
\* innermost of all the nodes around it, through adjoining spans, branches
\* and nested expressions.
NodeAtIsInnermost ==
    Analysed =>
      LET referable == SelectSeq(FlattenSeq([i \in DOMAIN items |-> Seen(items[i])]),
                                 LAMBDA n : n.node \in Referable)
      IN \A offset \in 0 .. Size - 1 :
           LET around == SelectSeq(referable, LAMBDA n : offset \in n.start .. n.end - 1)
           IN NodeAtOffset(items, offset) =
                IF around = <<>> THEN NoNode ELSE <<Last(around)>>

\* The places of item n that write a name, and those that read it: the
\* condition of a "do while" behind its body, and none below a property or an
\* index that is assigned to.
Writes(n) == SelectSeq(Walk(n), LAMBDA k : k.node = "target")
RECURSIVE Reads(_)
Reads(n) ==
    IF n.node = "variable" THEN <<n>>
    ELSE FlattenSeq([i \in DOMAIN n.kids |->
           LET reads == Reads(n.kids[i]) IN
           CASE n.node = "assignment" /\ i = 1 -> <<>>
             [] n.node = "dowhile" /\ i = 2 ->
                  [j \in DOMAIN reads |-> [reads[j] EXCEPT !.start = n.end - 1]]
             [] OTHER -> reads])
LoopStarts(n) ==
    LET loops == SelectSeq(Walk(n), LAMBDA k : k.node = "forin")
    IN [i \in DOMAIN loops |-> [loops[i] EXCEPT !.start = loops[i].kids[2].start]]

\* A local variable is reported as unused where it is set exactly if no place
\* between there and the next one that sets it reads it, across the branches
\* and blocks of its item, whatever the walk visits first. Places are taken in
\* the order of the text: the body of a loop is not read a second time.
UnusedLocalsAreRight ==
    Analysed =>
      LET unused == {d.start : d \in Range(UnusedLocals(items))} IN
      \A n \in {i \in Range(items) : i.node \in BodyItems} :
        LET reads == Range(Reads(Last(n.kids)))
            writes == Range(Writes(n) \o LoopStarts(n))
        IN \A w \in {v \in Range(Writes(n)) : IsLocal(v.name)} :
             w.start \notin unused <=>
               \E r \in reads :
                 /\ r.name = w.name /\ r.start > w.start
                 /\ ~\E v \in writes : v.name = w.name
                                         /\ v.start > w.start /\ v.start <= r.start

\* Lines of which the parser keeps every expression.
Kept == {Kw("set"), Kw("send"), Kw("while"), Kw("return"), Kw("else")}
OnKeptLine(t) ==
    Shape(tokens[1 + Max({i \in 0 .. t - 1 : StartsLine(i)
                            /\ tokens[i + 1].kind \notin {"indent", "dedent"}})])
      \in Kept

\* The edits of a renamed variable do not overlap, and every place in braces
\* of that name, on the lines whose expressions are kept, is among them:
\* no use is left behind with the old name.
VariableRenameReachesEveryUse ==
    Analysed =>
      LET variables == {t \in DOMAIN tokens : tokens[t].kind = "variable"} IN
      \A t \in variables :
        \A edits \in {Rename(items, tokens[t].start, <<"new">>)} :
          edits # <<>> =>
             /\ \A i \in DOMAIN edits : \A j \in 1 .. i - 1 :
                  edits[j].end <= edits[i].start \/ edits[i].end <= edits[j].start
             /\ \A u \in variables :
                  tokens[u].value = tokens[t].value
                    /\ OnKeptLine(u) /\ Depth(u) > 0 =>
                    \E i \in DOMAIN edits : edits[i].start = tokens[u].start

\* "Variables are `{name}` -- the span covers the braces", and "the callee
\* Variable is semantically a function name, not a data variable reference":
\* renaming a variable edits nothing but its name in braces.
VariableRenameIsExact ==
    Analysed =>
      \A t \in DOMAIN tokens :
        \A symbol \in Range(FindSymbol(items, tokens[t].start)) :
          tokens[t].kind = "variable" /\ symbol.kind = "variable" =>
            \A edit \in Range(Rename(items, tokens[t].start, <<"new">>)) :
              Slice(edit.start, edit.end) = <<"{">> \o symbol.name \o <<"}">>

\* A parameter that its item does not set keeps its declared type through all
\* blocks: a hint for a variable that is set to it shows no other type.
ParametersKeepTheirType ==
    Analysed /\ DuplicateFunctions(items) = <<>> =>
      LET types == TypeInference(items) IN
      \A n \in Range(Functions(items)) : \A p \in Range(Params(n)) :
        (p.type # <<>> /\ Named(Writes(n) \o LoopStarts(n), p.name) = <<>>) =>
          \A a \in Range(Walk(n)) :
            (a.node = "assignment" /\ a.kids[2].node = "variable"
               /\ a.kids[2].name = p.name) =>
              GetType(types, a.kids[2].start) \in {p.type[1], UnknownType}

\* Renaming a function edits nothing but its name.
FunctionRenameIsExact ==
    Analysed =>
      \A t \in DOMAIN tokens :
        \A symbol \in Range(FindSymbol(items, tokens[t].start)) :
          symbol.kind = "function" =>
            \A edit \in Range(Rename(items, tokens[t].start, <<"new">>)) :
              Slice(edit.start, edit.end) = symbol.name

=============================================================================
