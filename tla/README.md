# Verification of skript-studio

TLA+ models of the Skript language server in this repository (`src/`), the TLC
configurations that check them on small instances, and TLAPS proofs of the
theorems that hold for every instance. Paths below are relative to
`src/crates/` unless they start with `src/`.

    tlc -workers 2 -config MCEngine.cfg MCEngine     # check one configuration
    tlapm EngineProofs.tla                           # check the proofs

## 1. The system

`skript-lsp` is a tower-lsp language server. An editor (the VS Code extension,
over stdio, or a launcher's web client, over WebSocket) sends documents; the
server tokenizes and parses them, analyses the program, matches every line
against the patterns of some 8,700 syntax entries of Skript and its addons, and
publishes diagnostics, hovers, renames, folds and so on. The core logic sits in
five places: the sharing of one pattern engine among async handlers, the
document store with its incremental snapshots, the language itself (lexer,
parser, analysis), the line checker, and the pattern matcher.

### Components, their state and operations

| Component | State | Operations | Talks to |
|---|---|---|---|
| Pattern engine (`skript-lsp/src/state.rs` 331-660) | `engine_state`, request channel, one dedicated thread with its registry | `start_engine`, `ensure_engine`, `check_document_via_engine`, `hover_via_engine`, `engine_thread_main` | async tasks through an mpsc channel and oneshots; blocking callers through a condition variable |
| Document store (`state.rs` 216-277) | text and snapshot per URI | `open_doc`, `update_doc`, `close_doc` | handlers, background tasks |
| Handlers and publication (`backend.rs`) | handler futures, two background tasks | `did_open`, `did_change`, `did_close`, `hover`, `completion`, `initialize`, `initialized`, `publish_diagnostics_for_all` | store, engine, client |
| WebSocket bridge (`ws.rs`) | `read_buf`, `read_pos`, `write_buf` | `poll_read`, `poll_write`, `poll_flush`, `poll_shutdown` | tower-lsp's codec, tungstenite's sink and stream |
| Accept loop (`main.rs`) | `shutdown` flag, session tasks | `serve_websocket`, `serve_connection` | TCP listener, tokio |
| Incremental parser (`skript-core/src/parser/incremental.rs`) | the snapshot's items and errors | `split_sections`, `incremental_update` | store, parser |
| Lexer (`skript-core/src/lexer.rs`) | position, indentation stack, owed DEDENTs, string and interpolation mode, queued tokens | `next_token` | parser, semantic tokens |
| Parser, AST (`skript-core/src/parser`, `ast.rs`) | token index, errors | `parse_program` and the functions below it, `node_at_offset` | snapshots |
| Semantic analysis (`skript-core/src/semantic`) | scope tree, variables, functions, types | `analyze` | snapshots |
| References and rename (`references.rs`) | none | `find_symbol_at_offset`, `find_references` | handlers |
| Presentation (`tokens.rs`, `folding.rs`, `position.rs`, `backend.rs` from 929 on) | none | pure functions of one text and snapshot | handlers |
| Line checker (`skript-checks/src/lib.rs`) | block-comment flag, options indentation, diagnostics | `check_document`, `evaluate_matches`, `match_line_for_hover` | registry, patterns |
| Pattern compiler and matcher (`skript-patterns`) | linked pattern elements, keywords, minimum length | `compile_pattern`, `SkriptPattern::match_`, `Keyword::*` | type resolver |
| Registry, entry table, lattice (`skript-registry`, `skript-core/src/syntax.rs`) | compiled entries, type variants | `compile_all`, lookup, expansion | corpus |
| Configuration (`options.rs`) | `CheckConfig` | merge of initialization options and `.skriptrc` | `initialize` |
| VS Code extension (`src/extensions/vscode-skript`) | one client | activate, restart, deactivate | server process |

### What is hard here

* **Many tasks, one engine.** Handlers race to start the engine, park on
  oneshots while it compiles, are cancelled while parked, and the thread may
  fail to spawn, find no corpus, or panic with a queue behind it.
* **Overlapping handlers.** tower-lsp keeps up to four handler futures in
  flight; each stores a text, awaits the engine and publishes. Two background
  tasks on other threads publish the same documents.
* **Byte streams over messages.** Partial reads, partial writes, a sink that
  answers Pending between two frames, a connection that goes away.
* **Malformed text.** Every keystroke is a program that is not finished. What
  the lexer owes (DEDENTs, the rest of a string) and what a parse function takes
  or leaves moves everything below it.
* **Four ways to count.** Bytes, characters, UTF-16 units and lines meet in
  spans, positions and relative tokens.
* **State carried from line to line** in the checker, and from edit to edit in
  the incremental parser.
* **A cheap test in front of an expensive one**: the prefilter must not reject
  what the matcher would accept; the matcher works on elements that are linked
  through several open ends at once and backtracks.

`PROJECT.json` lists each hazard at its line, with the properties that cover it.

### What makes each component correct

* Engine: built at most once; every call resolved exactly once, in FIFO order;
  no lost wake-up; failure is final and truthful.
* Handlers: the store follows the client; diagnostics of a document are
  published in the order of its edits and from one version of it; nobody waits
  for ever.
* Bridge: both directions carry exactly the sent messages, in order.
* Accept loop: the end of a session is heeded, no connection is left in limbo.
* Incremental parser: the snapshot equals a full parse.
* Lexer: balanced indentation, spans that are the text. Parser: progress; no
  declaration or block is lost silently. AST: the innermost node is found.
* Analysis: a use counts for the declaration it belongs to, across branches;
  an edit touches what it names and nothing else. Presentation: places survive
  the round trip, ranges nest and do not overlap.
* Checker: exactly the statements that match nothing are reported, at their
  columns; the verdict on a line does not get worse as the workspace gets
  richer.
* Matcher: accepts exactly the language of the pattern; the prefilter is sound.

## 2. The modules

| Module | Models | Checked by |
|---|---|---|
| `Engine` | the engine's lifecycle: thread, channel, condition variable, calls | `MCEngine` |
| `EngineService` | what the engine promises its callers: the abstract specification of `Engine`, and the engine inside `Server` | `MCEngine` (as a property), `MCServer` |
| `Server` | document store, handlers, background tasks over `EngineService` | `MCServer`, `MCServerRepublish` |
| `WsBridge` | `ws.rs` | `MCTransport` |
| `Sessions` | `serve_websocket` | `MCTransport`, `MCSessionsExit` |
| `IncrementalParse` | snapshots over a sequence of edits | `MCDocuments`, `MCIncrementalCount` |
| `CheckDocument` | the scan of a document line by line | `MCDocuments`, `MCCheckWide` |
| `CheckRules` | the rule cascade on one line | `MCDocuments` |
| `PatternMatch` | compiler, keywords, minimum length and matcher | `MCPatternMatch` |
| `Lexer` | `lexer.rs`: one action per way through `next_token` | `MCLanguage` |
| `Ast` | the nodes of `ast.rs`, walks and `node_at_offset` | `MCLanguage` |
| `Parser` | `parser/mod.rs`, `decl.rs`, `stmt.rs`, `expr.rs` over the tokens of `Lexer` | `MCLanguage`, `MCLanguageEnds` |
| `Semantic` | scope tree, variable tracker, function registry, type inference, references, rename over the items of `Parser` | `MCLanguage`, `MCLanguageRename` |
| `Positions` | conversions of offsets and positions | `MCLanguage` |
| `Editor` | semantic tokens, folding, selections, signature help, hints, quick fixes, outline | `MCLanguage` |
| `EngineProofs`, `ServerProofs` | theorems about the module each is named after | TLAPS |
| `TransportProofs` | theorems about `WsBridge` and `Sessions`, as `MCTransport` puts them together | TLAPS |
| `TextProofs` | theorems about `Lexer` and `Positions` | TLAPS |
| `PatternChains`, `PatternMatchProofs` | lemmas on chains of elements, theorems about `PatternMatch` | TLAPS |
| `DocumentsProofs` | theorems about `CheckRules`, `CheckDocument` and `IncrementalParse`, as `MCDocuments` puts them together | TLAPS |
| `SequenceLemmas` | induction, recursive functions and flattened sequences, for the proofs | TLAPS |

`Lexer`, `Parser`, `Semantic` and `Editor` extend one another: one behaviour
takes a text through all of them. `Server` uses `EngineService` as its engine,
which `Engine` is shown, and proved, to implement. `MCTransport` and
`MCDocuments` put components side by side that share no state: an initial state
picks the one that runs, so that one run covers each of them.

Each `MC...` module extends the module it instantiates and defines the values of
its constants. Definitions named `Fault...` are seeded errors, one plausible
slip each; no specification uses them. Replacing the definition named after the
fault by it must make a property fail, which shows that the property depends on
the code it is about (`PROJECT.json`, `mutants`).

### Engine

Variables mirror `Inner`: `engineState` is `engine_state`, `channel` and `queue`
are `engine_requests` and its receiver, `thread`/`registry`/`current` are the
locals of `engine_thread_main`, and `pc`, `reply`, `result` belong to the tasks.
A task is a call (`check_document_via_engine` or `hover_via_engine`, whose
control is the same) or a blocking waiter (`ensure_engine`).

The granularity is that of the locks. `start_engine` holds the state lock over
its test, the creation of the channel and the store of `Building`
(`StartIdle`/`StartRunning`/`StartBroken`), then spawns the thread *without* it
(`SpawnOk`, `SpawnFails`, `SpawnSetBroken`, `SpawnNotify`). Storing a state and
notifying the condition variable are separate steps (`CompileOk`/`BuiltNotify`,
`ReportPanic`/`PanicNotify`), so a lost wake-up could happen if the code
allowed one. A panic unwinds the thread: the receiver is dropped, with it the
queued requests and their oneshots (`DropReceiver`), and only later is `Broken`
stored. `Cancel` is the drop of a handler future by tower-lsp. `ReleaseState`
is the server dropping its `AppState`; the thread's own clone keeps the sender
alive, so there is no step in which the channel closes under a running thread.
Diagnostics and hovers are the value "answer".

### EngineService

Three variables: available or not, the accepted calls in order, and each
call's outcome. `Engine` implements it under the mapping in `Engine.tla`
(`Service`): the service is available until the state is `Broken` or the
receiver is gone, its inbox is the matched request followed by the queue.

### Server

A text is the number of the message that carried it, so "older" and "newer"
are comparisons. `log` is a whole legal session chosen at the start; `Admit`
turns its next message into a handler future as long as fewer than
`HandlerLimit` are in flight. Futures are polled in the order in which they
were admitted or woken (`runq`), which is what `FuturesUnordered` does, each
until its await or its end: `HandleWithoutEngine`, `HandleUntilAwait` (store the
text, read the versions the publication is made of, send the request),
`HandleRefused`, `HandleReply`. The two background tasks (`initialize`'s build
task and `initialized`'s index task) run on other threads and go through
`publish_diagnostics_for_all` in steps of their own: read the text (`BgRead`),
compute the core diagnostics from the snapshot that is there *then*
(`BgVersions`), call the engine, publish. The engine may build, fail its
corpus, answer, decline or die at any step.

Abstractions: one document's diagnostics are the pair of versions they were
made of, plus whether the engine's lines are in; a hover or completion leaves
only its response; index content is a flag. With `Batches = TRUE` a `didChange`
carries two changes; the runs use `FALSE` (see Known divergences).

### WsBridge

A byte is `<<message, position>>`, so the framing properties are equalities of
byte sequences. `ReadStaged`, `ReadMessage`, `ReadClose`, `ReadPending` and
`ReadEnds` are the ways through `poll_read`; `FlushWrite` is the loop of
`flush_write`, which drains a frame only after the sink was ready and which all
three write polls call. The header parser is modelled by what it accepts:
a complete header at the start of the buffer. Each poll is one step because
`tokio::io::split` guards the stream with a lock.

`WriteFails` is a poll that ends in an error, at any round of the loop
(`FlushRounds`, `FlushFailures`) or in the flush or close behind it: frames of
earlier rounds are in the sink, the frame of this round is still buffered when
the sink was not ready and gone when `start_send` refused it, and the bytes that
`poll_write` was given are in its buffer although the caller is told that none
were taken. A caller that tried again would send them twice; tower-lsp's writer
ends at the first error. `WriteIsFraming` therefore says of the buffers what it
says until a write fails, and of what the client got that it is right always.

### Sessions

The accept loop's three points (accept, spawn, check), the life of a
connection, and the flag a session stores when it is over. Leaving the loop
ends `main`, so sessions still served are killed and waiting connections
refused.

### IncrementalParse

A document is any sequence of lines of a few kinds: declarations, flush-left
lines that declare nothing, statements, comments, statements with a parse
error. `Sections` is `split_sections`, which starts a section at every flush-left
line and at the first line of the text, indented or not. The lexer takes the
indentation of the first line of code as that of the whole text: when it is
indented (`StartsFlush` is false), no line below is deeper, so a full parse finds
declarations without bodies. `SectionItems` pairs section k with item
k of the old program when its text is unchanged, as the code does, and parses
the section alone otherwise, with positions that count from the section.
`Update` is `update_doc`, one edited line at a time. `aligned` is an auxiliary
variable that only a property reads: it records whether every text that was
changed so far was `Tidy`, that is, whether each of its sections was a
declaration. Once one was not, sections and items are paired wrongly, and no
later change repairs that (`incremental_count`).

### Lexer

A text is a sequence of lexemes: a word, a space, a tab, a line feed or one
sign. A word is one lexeme because the lexer never looks inside one; `Wide` and
`Astral` lexemes are characters of two and of four bytes. One step is one round
of `next_token`'s loop, and each of its ways out is an action: queued tokens
(`TakePending`, `TakeDedent`), the start of a line (`BlankLine`, `Indentation`),
code (`ParseWord`, `ParseNumber`, `ParseVariable`, `Operator`, `Comment`, ...),
and the string mode with interpolation and MiniMessage tags. `indentStack`,
`pendingDedents`, `pending`, `mode`, `interpDepth`, `stringBuf` and `hasInterp`
are the fields of the struct. Spans count as the code counts, characters for
positions and bytes where it subtracts the length of a text.

### Ast, Parser

Every node is a record of kind, name, declared type, children and span; a
block is a node. `parse_program` is the state machine: `ParseItem` is one round
of its item loop, `SkipNoItem` a round whose token begins no item. The functions
below it are operators from a parser state `[pos, errors, stuck]` to the node
they build and the state they leave; `Then` sequences two of them. Each takes
its tokens in the order of the code and records its errors where the code does.
A loop that takes no token sets `stuck`: the call never returns, and neither
does the round that made it. An error is its span; wording is left out.

### Semantic, Positions, Editor

All of it is computed from one parsed program, as in the code, where an
analysis is a pure function of a snapshot. Scopes are entered in the order of
the walk; the variable tracker's reads and writes, the function registry's
calls and the types are visits of the items in the code's order, which is not
always the order of the text. `FindReferences` is by name over the whole
program, as `find_references` is; `Rename` is `rename`. `Positions` is the
arithmetic of `position.rs` and of the helpers in `backend.rs`; `Editor` what is
drawn from it.

### CheckDocument

A line is a sequence of one-column tokens: white space, a double quote, a run
of hashes (three or not), text that matches or not, and the heads that the
directive tests look for. The step `CheckLine` is one round of the loop; its
disjuncts are the loop's ways out. The reference below it says of the whole
document at once what a comment, an options entry (deeper than a bare `options:`
line, as is every line between) and a reportable statement are, with no carried
state.

### CheckRules

`evaluate_matches` with its rules in the order of the code: addon-not-enabled,
plugin-missing, version-mismatch, ambiguous-addon. Names are single values,
versions are numbers, and an entry's free-form version field is the sequence
of versions it mentions (the code takes the first).

### PatternMatch

The compiler builds a heap of elements with `next` and `original_next` links, as
the `Rc<RefCell<..>>` elements do. `calls` is the call stack of
`compile_element`: a call has its slice of the pattern, its place `i` in it, the
head `first` of its chain and its `literal_builder`. One action is one round of
its loop (`TakeLetter`, `TakeSlot`, `TakeBar`), the call for the content of a
bracket (`OpenBracket`, with the bracket `next_bracket` finds, or `Reject`), or
its return into the caller (`Return`, `Finish`). `AppendElement` and `SetNext`
patch the ends of nested optionals, groups and choices; `Bar` turns the head into
a choice. `MatchLine` is one `match_`: `Prefilter` (minimum length, then
keywords) and `Match`, the backtracking matcher, with `Splits` for the ends that
a type slot tries. What the code does by recursion over elements is a recursive
function on the heap. The reference is `Words`, the set of words of a pattern,
read off its text without elements or links. A slot accepts any text with a
letter in it (`PermissiveResolver`).

## 3. Runs

| Run | Module / cfg | Properties | Instance | Distinct states |
|---|---|---|---|---|
| `engine` | MCEngine | TypeOK, ChannelFollowsState, SingleBuilder, NoOrphanReply, ResultsAreTrue, BrokenIsFinal, ImplementsService, EveryCallReturns, EveryWaiterWakes | 3 calls, 1 waiter | 19,193 |
| `server` | MCServer | DocsFollowClient, NoCoreOnlyFlash, HandlerPublishesOneVersion, LastHandlerPublishIsFresh, HandlersPublishInOrder, EveryMessageIsHandled | 1 document, all sessions of up to 3 messages of 5 kinds, 2 in flight | 469,475 |
| `transport` | MCTransport | ReadIsFraming, WriteIsFraming, EverythingArrives (bridge); ShutdownIsHeeded, NobodyHangs (sessions) | up to 3 items in and 2 messages out, 4 together, chunks up to 3 bytes; 4 connections | 116,884 |
| `documents` | MCDocuments | ReportsAreRight, ColumnsAreOriginal (scan); RicherWorkspaceIsNoWorse (rules); ContentIsCurrent (edits) | all documents of up to 4 lines of 14 shapes; every order of every subset of 5 entries, every configuration; all texts of up to 4 lines of 5 kinds, 2 edits | 309,323 |
| `pattern_match` | MCPatternMatch | MatcherIsLanguage, PrefilterIsSound | all well-nested patterns of up to 4 symbols, 10 longer and 6 badly nested ones, all lines of up to 5 | 176,632 |
| `language` | MCLanguage | IndentsBalance, SpansAreTheText, DepthIsIndentation (lexer); MisalignmentIsReported, DeclarationsAreKept, SpansNest (parser); NodeAtIsInnermost, UnusedLocalsAreRight, VariableRenameReachesEveryUse, ParametersKeepTheirType (analysis); PositionsRoundTrip, RangesAreWellFormed, SignatureIsOfTheCall (editor) | some 17,000 texts of five families | 381,708 |
| `check_wide` | MCCheckDocument / MCCheckWide | NeverPanics (violated) | 3 lines, one with a wide character | - |
| `server_republish` | MCServer / MCServerRepublish | RepublishIsFresh (violated) | 3 messages, 4 in flight | - |
| `sessions_exit` | MCSessions / MCSessionsExit | SessionEndExits (violated) | 4 connections | - |
| `incremental_count` | MCIncrementalParse / MCIncrementalCount | SameNumberOfItems (violated) | 3 lines, 1 edit | - |
| `parse_ends` | MCLanguage / MCLanguageEnds | EveryParseEnds (violated) | an entry that begins with a number, in three kinds of block | - |
| `rename` | MCLanguage / MCLanguageRename | FunctionRenameIsExact (violated) | a function and a call of it in a statement | - |

What they show:

* `engine` - whoever wins the race in `start_engine`, one thread is spawned; a
  call parked behind a panicking one gets an error instead of silence; a waiter
  that checks the state just before it changes still wakes; and callers cannot
  tell the engine from `EngineService`.
* `server` - although handlers overlap and interleave at their awaits, they
  publish a document's diagnostics in the order of its edits and from one
  version, as long as the engine lives; a dying engine strands nobody and the
  core-only fallback appears only once the engine is gone for good.
* `transport` - no buffer size, chunking, control frame or blocked sink loses,
  repeats or reorders a byte, a write that fails leaves the client with whole
  messages in order, and on a live connection everything arrives; after
  the flag is raised at most one more connection is taken, and nobody is left
  half accepted.
* `documents` - the state that is carried from line to line gives what the
  declarative reading of the document gives; installing a plugin or enabling an
  addon never makes a verdict worse; over sequences of edits, as long as the
  texts that are edited had a declaration in every section, the snapshot of a
  text that starts flush left says what a full parse of it says.
* `pattern_match` - the links the compiler patches and the matcher's backtracking
  neither lose nor add a word; keywords and minimum length reject no match.
* `language` - INDENT and DEDENT balance and put every line as deep as it
  stands; a token's span is its text; a parse without an error keeps every
  declaration and nests every span, and an item that eats or leaves a DEDENT
  reports something; `node_at_offset` finds the innermost node; an unused local
  is one that nothing between there and the next place that sets it reads, in
  the order of the text (a loop's body is not read a second time: a local set in
  the body of a `while` and read by its condition counts as unused); a variable
  rename reaches every use in braces (and more, see `VariableRenameIsExact` in
  section 5); a place survives the way through the protocol, and what is drawn
  from it nests, is in order and does not overlap.

All configurations set `CHECK_DEADLOCK FALSE` where the modelled program comes to
an end (all calls returned, the document scanned, the text parsed, the session
over), and only there.

### Bounds and why they are enough

* Engine: three calls give one that is matched, one queued behind it and one
  that races to start or is cancelled; one waiter suffices because waiters
  interact with nothing but the state.
* Server: the ordering hazards need a message, a newer message and a background
  publication of the older one; two handlers in flight leave one to overtake the
  other, and one message that must wait for a free slot. Documents are
  independent except for the queue of the engine, which `Engine` covers.
* WsBridge: one body shorter and one longer than a chunk, a header split from
  its body, a control frame between two messages, a sink with room for one.
  `MaxBoth` bounds both directions together: they share no buffer.
* Sessions: one session to raise the flag, one to be accepted after it, one
  still served, one in the backlog.
* CheckDocument: the carried state is a flag and an indentation; four lines
  open, use, close and leave each.
* CheckRules: two entries of each addon, with and without plugins and versions,
  next to the base entry.
* IncrementalParse: two edits, so that what the first leaves behind is used by
  the second, and four lines, so that two sections with a body, or three sections
  and a comment, can be swapped, merged and split, under each kind of first line.
* PatternMatch: every nesting of two constructs with text around them fits in
  the enumerated or the ten longer patterns; six more do not nest. Beyond these
  bounds the theorems hold.
* Language: five families of texts, each for what can go wrong there.
  `Indented` (`Deep` = 5): three lines with tabs, spaces, comments and blanks in
  any order. `Quoted` (`Long` = 4): every way to open, nest and not close an
  interpolation or a tag behind a quote. `Characters` (`Mixed` = 4): a wide and
  an astral character on either side of any line end. `Programs`: each kind of
  declaration, two lines of 13 kinds below it at four pairs of depths, and a
  declaration behind them that a wrong DEDENT would swallow. `Analyses`: a
  parameter, a local that is set, read or passed before, inside and behind each
  kind of section and its `else`, and another item that uses the same name.

### Fairness

* `Engine`: weak fairness of each task that has begun and of the thread: tokio's
  workers and the OS schedule them, compilation is finite, matching one text
  ends. Nothing obliges a client to issue or cancel a call.
* `Server`: weak fairness of admission and polling (the serve task is woken
  whenever it can make progress), of the engine and of the background tasks.
  The client is free and the engine need not die.
* `WsBridge`: tower-lsp reads, writes and flushes while the session is open, and
  the socket takes what it is sent. `EverythingArrives` is conditional on a
  connection that is not lost.
* `Sessions`: the loop and the session tasks run; no client has to connect or
  leave, and no session has to end.
* `Lexer` and `Parser`: the rounds of their loops follow one another, since one
  thread runs them; a round whose call does not return is no step.
* The other modules have safety properties only.

## 4. What is proved

Every safety invariant and action property that a passing run checks of the
engine, the server, the bridge, the accept loop, the checker, the incremental
parser, the lexer, the positions and the patterns is a theorem, for every value
of the constants.

| Theorem | Establishes |
|---|---|
| `EngineProofs!EngineInvariant` | `Spec => []EngineInv` |
| `EngineProofs!TypeCorrect`, `ChannelIsThere`, `EngineIsBuiltOnce`, `NoReplyIsLost`, `ResultsAreSound` | `Spec => []` of `TypeOK`, `ChannelFollowsState`, `SingleBuilder`, `NoOrphanReply`, `ResultsAreTrue` |
| `EngineProofs!BrokenStaysBroken` | `Spec => BrokenIsFinal` |
| `EngineProofs!EngineImplementsService` | `Spec => ImplementsService` |
| `ServerProofs!ServerInvariant`, `NoFlashOfCoreOutput` | `Spec => []` of `ServerInv`, `NoCoreOnlyFlash` |
| `ServerProofs!OneVersionIsPublished` | `Spec => []HandlerPublishesOneVersion` |
| `ServerProofs!FollowInvariant`, `StoreFollowsClient`, `SettledIsFresh` | without batches: `Spec => []` of `FollowInv`, `DocsFollowClient`, `LastHandlerPublishIsFresh` |
| `ServerProofs!PublicationsInOrder` | without batches: `Spec => HandlersPublishInOrder` |
| `TransportProofs!NoByteIsLostReading`, `NoByteIsLostWriting` | `Spec => []` of `ReadIsFraming`, `WriteIsFraming` |
| `TransportProofs!AtMostOneMore` | `Spec => []ShutdownIsHeeded` |
| `DocumentsProofs!RicherIsNoWorse` | `Spec => []RicherWorkspaceIsNoWorse` |
| `DocumentsProofs!ReportsAreComplete`, `ColumnsAreTheCode` | of tidy lines: `Scan!Spec => []` of `ReportsAreRight`, `ColumnsAreOriginal` |
| `DocumentsProofs!SectionsAreTheText` | of any text that starts flush left, a full parse says what the parses of its sections say |
| `DocumentsProofs!ContentIsRight` | `Parse!Spec => []ContentIsCurrent` |
| `TextProofs!BlocksBalance` | `LexerSpec => []IndentsBalance` |
| `TextProofs!SpansAreRight` | where strings are of one-byte characters: `LexerSpec => []SpansAreTheText` |
| `TextProofs!IndentationIsDepth` | `LexerSpec => []DepthIsIndentation` |
| `TextProofs!PositionsAreRight` | `LexerSpec => []PositionsRoundTrip` |
| `PatternMatchProofs!CompilerInvariant` | `Spec => []CompilerInv` |
| `PatternMatchProofs!MatcherTheorem`, `PrefilterTheorem` | of patterns without double spaces: `Spec => []` of `MatcherIsLanguage`, `PrefilterIsSound` |
| `PatternMatchProofs!NoneIsDropped` | no well-nested one of them is ever rejected |

**Assumptions on the constants.** Named in the module that declares them and
evaluated by TLC on every run: `TasksAssumption` (calls are not waiters, `NoCall`
is no call), `ServerAssumption` (finitely many documents, message kinds among
the five, at least one slot), `BridgeAssumption` (bodies, headers, chunks and the
sink have a size that is not 0; the kinds of control frames are no messages),
`RulesAssumption` (the types of the corpus' fields), `HeadersAssumption` (a comment
is no declaration), `TextAssumption` (patterns and
lines are sequences, a line is not empty and is trimmed), `LexerAssumption` (a text is
a sequence of lexemes; characters of four bytes are among the wide ones) and
`WordsAssumption` (no word holds a line break).

**Hypotheses of single theorems.** Each leaves out inputs on which the code does
something else, as section 5 says, and the values the runs give satisfy each:

* `Batches = FALSE`: with several changes in one notification the code stores
  the first (`MCServerBatch`).
* `TidyLines`: a line holds one `###` at most, and what stands behind it matches a
  pattern (`MCCheckReopen`, `MCCheckBehind`); in documents with an `options:` that
  line is flush left, comments are not (`MCCheckOptions`), and a `###` is not
  followed without a space.
* `SingleSpaces(pattern)`: no two spaces side by side. With two in a literal the
  prefilter hides matches (`MCPatternDouble`), and a slot before such a literal
  looks for both, where the matcher is content with one.
* `PlainStrings`: a text with characters of several bytes has no quote; the code
  subtracts bytes from characters there.

**Engine.** None of the safety invariants is inductive alone. `EngineInv` is
`TypeOK` with

* `Lifecycle` - how state, channel, thread and spawning task go together: who
  is between `StartIdle` and the end of the spawn, that there is no thread yet
  while one is, that the channel is open as long as the thread works, and which
  state each point of the thread implies. `ChannelFollowsState` and
  `SingleBuilder` follow from it.
* `Truthful` - a call that has not sent has no oneshot, an answer implies a
  built registry, and `ResultsAreTrue`. A result is returned from a reply, so
  what is true of replies has to be carried along.
* `NoOrphanReply` - open oneshots are exactly those of the queued and the
  matched requests, each once.

Each part has a lemma that every step preserves it, one case per action;
`EngineInvariant` puts them together. `BrokenStaysBroken` is an action property
proved from the invariant: an answer needs a thread that matches, and the
invariant says that under `Broken` such a thread has no registry.

**Refinement.** `MapInv` adds to `EngineInv` what the mapping reads: only a call
that is done has a result, one that waits has a oneshot, and behind
`start_engine` the engine is not idle. `PendingCalls` says that the abstract
inbox holds exactly the calls whose oneshot is open. Three lemmas give the
abstract steps once each: `StutterStep` (nothing a caller can see),
`RefuseStep`, and `CollapseStep` (the receiver goes with every open oneshot,
whether spawning, compiling or matching failed). One lemma per actor then maps
its actions.

**Server.** `VersionInv` says that what each handler holds over its await is one
version, and that the slots of background tasks, which do mix versions, are
others. The rest turns on the order in which handlers run. `QueueInv(p)` says
that exactly the first p messages have been polled: the run queue holds the
handlers from p + 1 on, in order, and among them those that were woken, in the
order of their messages; a parked handler that was not woken has its call in the
inbox, which is in that order too and holds younger handlers than the queue. So
the engine's answers, first in first out, wake them in order, and a crash, which
wakes them all at once, does too. `OutcomeInv` says that a call is resolved with
nothing only by an engine that is gone. `FollowInv` adds `DocsAt(p)` - the store
has for each document its last edit among the first p messages, or nothing if
that was a close - and `ShownAt(p)` - as long as the engine lives, an edit newer
than one in flight is in flight too, what a handler published is of an edit no
longer in flight, and it is the text in the store unless that is. Once all are
polled p is the whole session, which gives `DocsFollowClient`; when none is in
flight, `LastHandlerPublishIsFresh`; that a publication is of a newer edit than
the one before it is `HandlersPublishInOrder`.

**Bridge.** Reading: what was taken, what is staged from the read position on,
and the framing of what is still in the socket make up the framing of what was
sent (`ReadInv`). Writing: what the codec has written and will write is the
framing of the messages that no frame has carried yet (`WriteInv`): a frame is
cut off as soon as the buffer holds its header and body, which leaves less than a
frame, whatever the pieces were. `FlushStep` shows this of every round of the
loop, so it holds where a write fails as well; what the failed step does to the
buffers is `FailureStep`. Both directions need that flattening distributes over
concatenation, for which `SequenceLemmas` has the induction.

**Sessions.** The backlog holds each waiting connection once, so no step of one
connection undoes that another is over; a connection accepted late keeps the
loop away from `accept` until it has read the flag.

**Checker.** Each rule that is silent in a workspace is silent in a richer one
(`RulesAreMonotone`), and the severity depends on which rule fires first.
`ScanInv` says what the carried state means: the flag is the parity of the
toggles on the lines so far, an `options:` block is open exactly as long as the
lines behind its head are indented, and the reports are those the reference
expects of the lines so far. A report's columns are those of the code on the
original line because both cuts, of the comment and of the indentation, are
counted.

**Incremental parse.** `SectionParse`: a section parsed alone gives its
declaration with its body, if it is one, and nothing otherwise.
`SectionsAreTheText`: in a text that starts flush left, these parses, flattened,
say what the full parse says; the items are mapped over the declarations, the
sections over all section starts, and the lines that are the one but not the
other contribute nothing. `TidySections`: in a tidy text item k is that of section
k, so an unchanged section contributes what its own parse would (`UpdatedItems`),
whatever lines the new text has. With that `ContentIsCurrent` is inductive
together with the type of the text (`SnapshotInv`).

**Lexer.** `LexerInv` says that INDENTs are DEDENTs plus open blocks plus owed
DEDENTs, that a queued token is neither, and that with EOF nothing is owed. The
counted steps (`Indentation`, `TakeDedent`, the end of the text) have a lemma
each; all others are `Quiet`. It reads nothing of the text.

`SpanInv` follows the reader: the tokens are in place (`InPlace`) before a `Limit`,
which is the place of the reader, or of the queued token, or where the text of
the open string began; and the string buffer is the text just read (`Buffered`).
One lemma per round. `VariableEnd` is a recursive function; that it is defined at
all, and ends in the text, is shown by induction on what is left of the text
(`ScanExists`, `VariableEnds`).

`DepthInv` says whose stack `indentStack` is. `StackOf(stack, l)`: it has one
entry more than there are lines around line l, its entries grow, and the width of
each line around l is as far up as there are lines around that one. `AroundNext`
gives the lines around the next line, so that a wider line appends
(`StackDeeper`) and a narrower one cuts the stack at the line whose width it
returns to (`StackShallower`), which is where alignment is needed. A token that
starts a line can only be that of the line the reader is on (`LineIsAt`), and with
`LexerInv` its depth is the height of the stack.

**Positions.** No invariant over states is needed beyond the text being one:
bytes, UTF-16 units and line feeds in front of a place grow with the place
(`MeasuresGrow`, `LinesGrow`), and those of a piece of the text are the difference
(`PieceMeasures`). A place is then in exactly one line, at one column
(`PlacesComeBack`), and what lies between two places is floored
(`PositionsAreFloored`).

**Patterns.** `CompilerInv` says of every call of `compile_element` what its
unfinished chain means. It has three layers.

* `Framed` - where the calls stand: the slices lie in one another, each between
  the brackets its caller has stopped at, and only the top call has a literal,
  which is what it read last.
* `Built` - what the heap is. It is sound (`Sound`): an order `pos` of the
  elements, the places of the pattern they come from, makes every link point
  forward, so that nothing reaches itself and every recursive function on the
  heap is defined (`RankedRecursion` in `SequenceLemmas`). And it is a `Forest`:
  ghosts `g` give each chain its end, its owner - the element that it is inside
  of, or the call that is building it - and its words. The chains of a call are
  its `Alternatives`.
* `Spelled` - what the words are of: the alternatives of a call have the words
  that the grammar gives its slice up to where it stands (`WordsGrow`).

The invariant quantifies over orders, ghosts and words, hence TLC cannot evaluate
it; what it says of the finished chain is `MatcherIsLanguage`, which TLC can.
The heart is `Link`: a chain whose end is patched, with all the open ends inside
of its last element (`EndsAreOpen`), has the words of both chains concatenated,
and the chains of other owners keep theirs. From it follow `AddElement` (the
empty head, the last alternative), `BarIs`, `ContentIs` (`[(..)]` becomes `[..]`)
and `Wrap`, one for each way through the loop. Each step of the compiler is then
proved twice, for the heap and for the words (`SlotStep` and `SlotSpells`, and so
on).

What a finished chain does to a line is proved of every heap that is a forest.
`MatchAccepts`: the matcher takes exactly the lines that some word of the chain
reads. Its hard case is the slot (`SlotIs`), which tries only the occurrences of
the literal behind it: from any other end at which that literal can be read,
because a space of it is skipped, there is a tried end that leads to the same
place (`ShapedStart`, `BlankStart`), which is where single spaces are needed. `LengthAccepts` and `KeywordsAccept`: a line with a
word of the chain is long enough and has the keywords, since a trimmed literal
that is read stands on the line as it is (`KeywordStands`). All three are
inductions along the order, by the least element for which they would fail.

`NoneIsDropped` needs no heap: between a bracket and its end in the sense of both
kinds the brackets of each kind balance (`Balanced`), so that counting one kind
finds the same end (`NextBracketIs`).

**Induction.** The library's induction theorems take an operator as a parameter,
which the provers cannot instantiate. `SequenceLemmas` states induction over
numbers and sequences with the *set* of what the claim holds for, and derives
from it that recursive functions exist and what they are; `LeastNumber` rests on
the well-foundedness of the natural numbers.

Only model-checked:

* liveness (`EveryCallReturns`, `EveryWaiterWakes`, `EveryMessageIsHandled`,
  `EverythingArrives`, `NobodyHangs`): fairness and ENABLED are beyond the prover;
* what speaks of syntax trees (`DeclarationsAreKept`, `SpansNest`,
  `MisalignmentIsReported`, `NodeAtIsInnermost`, `UnusedLocalsAreRight`,
  `VariableRenameReachesEveryUse`, `ParametersKeepTheirType`, `RangesAreWellFormed`,
  `SignatureIsOfTheCall`): `Ast`, `Parser`, `Semantic` and `Editor` are written
  with RECURSIVE operators, as the code is with recursive functions, and the
  prover takes no module that reaches one.

## 5. Known divergences

Six disagreements between a statement of the repository and its code have a run
of their own:

* **`NeverPanics`** (`skript-checks/src/lib.rs:262`): `code[..5]` slices bytes
  behind a length check only. A line with a multi-byte character across byte 5
  panics; the panic is contained, but the engine is `Broken` for the rest of
  the process.
* **`RepublishIsFresh`** (`backend.rs:362`): "publish fresh diagnostics"; the
  republish after the build can overtake a newer change and leave stale ones.
* **`SessionEndExits`** (`main.rs:103`): "treat the first session's end as a
  request to exit"; the flag is looked at only after the next accept.
* **`SameNumberOfItems`** (`parser/incremental.rs:105`): the test asserts as many
  items as a full parse; a flush-left line that declares nothing, or an indented
  first line, shifts the pairing of sections and items.
* **`EveryParseEnds`** (`parser/decl.rs:577`): an entry of an `aliases:` or
  `variables:` block that begins with no name (`1 = x`) keeps the loop over its
  words going without a token taken, each round with one more error.
* **`FunctionRenameIsExact`** (`references.rs:180`): the reference of a function
  is its whole call; the edit replaces arguments and all, and the declaration
  is not among the edits (`backend.rs:744` says it is).

Others met on the way are stated as properties in the modules and can be
reproduced with the configuration named; no other run depends on them:

| Property | Configuration | What the code does |
|---|---|---|
| `ThreadEndsAtShutdown` | `MCEngineShutdown` (MCEngine) | the thread owns a clone of the state that owns its sender, so its channel never closes (`state.rs:610`) |
| `AstOnlyUntilReady` | `MCServerAstOnly` (MCServer) | nothing is published while the engine builds (`backend.rs:26`) |
| `CompletionDegrades` | `MCServerDegrade` (MCServer) | four parked handlers shut out a completion during the build (`src/README.md:219`) |
| `DocsFollowClient` with batches | `MCServerBatch` (MCServer) | the first, not the last change of a `didChange` is stored (`backend.rs:454`) |
| `ExitSparesSessions` | `MCSessionsSpare` (MCSessions) | the exit cuts off sessions that are still served (`main.rs:78`) |
| `ColumnsAreOriginal` | `MCCheckBehind` (MCCheckDocument) | behind a closing `###` columns count from the slice (`lib.rs:436`) |
| `BlockStateIsParity` | `MCCheckReopen` (MCCheckDocument) | a block closed and reopened on one line is taken for closed (`lib.rs:131`) |
| `OptionEntriesAreSilent` | `MCCheckOptions` (MCCheckDocument) | a flush-left comment ends an `options:` block (`lib.rs:162`) |
| `ItemsAreInPlace`, `ErrorsAreKept` | `MCIncrementalPlace`, `MCIncrementalErrors` (MCIncrementalParse) | reused items keep old positions, errors of unchanged sections are dropped (`incremental.rs:104`) |
| `VariableRenameIsExact` | `MCLanguageVariable` (MCLanguage) | renaming `{y}` turns the call `y({_x})` into `{new}({_x})` and a bare `y` into `{new}` (`references.rs:168`), although "the callee Variable is semantically a function name" (`ast.rs:1201`) and spans of variables "cover the braces" (`backend.rs:954`) |
| `PrefilterIsSound` with double spaces | `MCPatternDouble` (MCPatternMatch) | keywords collapse double spaces, the line does not (`keyword.rs:95`) |
| `DistantVersionsDoNotMatter` | `MCCheckRulesVersion` (MCCheckRules) | a distant addon's version warns on a line the base entry covers (`lib.rs:771`) |

Consequently the passing runs exclude exactly these inputs, in their `MC`
modules: lines with code behind a closing `###`, a `###` that reopens, a
flush-left comment in an `options:` block, characters across byte 5, batches,
and double spaces in patterns; and `ContentIsCurrent` says nothing of texts that
start indented, nor of what follows a change to a text with a section that is no
declaration.

The language modules follow the code in what follows; the properties are stated
so that they say nothing about these cases, and each guard is at the property:

* Lexer: in a string with characters of several bytes, byte lengths are
  subtracted from character positions, so spans shift
  (`lexer.rs:805`; `ast.rs:1` and `tokens.rs:57` call them byte offsets). The
  texts with wide characters have no quotes. A comment behind code takes the
  line feed with it, and a line that returns to a width between two others
  (0, 4, 2) stands at depth 0, so `DepthIsIndentation` is about texts that align.
* Parser: an unfinished `add` takes the DEDENT behind it; declarations inside a
  section of unknown kind become items; the default value of the last parameter
  takes the parenthesis; `cancel event` leaves `event` behind as a statement of
  its own. An error is reported in most of these, which is what
  `MisalignmentIsReported` checks; `DeclarationsAreKept` and `SpansNest` speak of
  texts parsed without one.
* Analysis: a call that is a statement is parsed as an effect and never
  validated; scopes are those of blocks, although `variables.rs:125` calls
  variables function-scoped, so `goto definition` finds none behind the block
  that sets a local; bodies of `else if` get no types; a rename is by name
  across the whole program.
* Editor: rename, definition, references and hints read the text and the
  snapshot under two locks, one after the other (`backend.rs:929`); a hover mixes
  two versions in the same way. A `#` in quotes gives overlapping semantic
  tokens; a carriage return that ends the text puts the selection of its line
  beyond the document; blocks that are flush-left do not fold; signature help
  counts the commas of nested calls.

## 6. What is not modelled

* The wording of diagnostics, hovers, completions and the text of tokens.
  `completion.rs` and `hover.rs` render entries of the catalogue and keep no
  state.
* In the checker: the search for candidates (`collect_matches`),
  `closest_hints` and the hover match; they walk the corpus and decide nothing
  that the rules do not decide again.
* In the matcher: escapes, regex elements, parse tags (nothing downstream
  reads them), case folding, and the skipping of quoted text, variables and
  parentheses on the line.
* In the server: a stdio stream that ends; more than one client on the same
  state. The handlers that compute their answer from one snapshot are operators
  of `Semantic` and `Editor`.
* Registry, entry table and lattice: tables built once from the corpus. What
  could go wrong (a truncated expansion, a lost entry) happens at sizes that
  TLC does not reach.
* Initialization options: deserialisation and a file lookup. `parse_version`
  overflows at ten digits; `CheckRules` compares parsed versions.
* The VS Code extension: what two overlapping restarts do is decided inside
  vscode-languageclient, which is not in this repository.
* Command line, logging, tests, corpus: data and I/O.
* External code, by how `src/` uses it: tower-lsp's admission and polling, tokio
  channels and oneshots, tungstenite's sink and stream, the editor.

## 7. Layout of a module

Constants and their named assumption, variables, type, `Init`, one action per
way through the code, `Next`, `Spec`, fairness, reference definitions, properties.
`PROJECT.json` maps every definition that stands for code to its lines. In the
modules that are checked over thousands of texts, operators take intermediate
results as parameters rather than naming them in nested `LET`s: TLC evaluates
an argument once.

## 8. Order in which it was built

Engine and its service, server, bridge and sessions, incremental parser,
checker, matcher: from what every request goes through to what one line goes
through. Then the language from the bottom up: lexer, tree, parser, analysis,
positions, editor; then the refinement and the invariants that hold for every
instance.

## 9. Plan

1. **Proofs**: the views of `Editor` that need no tree (semantic tokens, folds,
   selections) in a module over `Lexer` and `Positions`, so that their part of
   `RangesAreWellFormed` can be proved; the grammar of expressions as recursive
   functions, as `PatternMatch` is, as a step towards `SpansNest`.
2. **Composition**: `IncrementalParse` over `Parser` in place of its one-line
   parser, on the texts of `Programs`; `CheckRules` as what `CheckDocument` asks
   of a statement.
3. **Larger texts**: `Indented` and `Quoted` one lexeme longer, for which
   `language` would have to be split.
4. **PatternMatch**: escapes, parse tags and skipping; the expansion of variants
   with a small cap in front of it.
5. **Server**: a second document and a session that ends, once the state space
   leaves room.

The project is kept to a dozen runs and forty properties, so that all of it can
be checked in minutes; a divergence that is repaired in the code gives its run
back.
