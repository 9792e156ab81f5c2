------------------------------- MODULE Server -------------------------------
(***************************************************************************)
(* The language server of skript-lsp/src/backend.rs around its shared      *)
(* document store: notifications and requests arrive in order, at most     *)
(* HandlerLimit handlers are in flight, they interleave at their awaits,   *)
(* and two background tasks republish diagnostics on other threads while   *)
(* the handlers run.  The pattern engine is the abstract EngineService.    *)
(*                                                                         *)
(* The text of a document is abstracted to the number of the message that  *)
(* carried it, so a larger text is a later one; 0 is "not open".           *)
(***************************************************************************)
EXTENDS Integers, Sequences, FiniteSets, SequencesExt

CONSTANTS Docs,          \* document URIs
          MaxMsgs,       \* bound: messages the client sends
          Kinds,         \* the kinds of message it sends
          HandlerLimit,  \* handlers tower-lsp keeps in flight
          Batches        \* TRUE if a didChange may carry two changes

ASSUME ServerAssumption ==
  /\ IsFiniteSet(Docs)
  /\ MaxMsgs \in Nat
  /\ Kinds \subseteq {"open", "change", "close", "hover", "completion"}
  /\ HandlerLimit \in Nat \ {0}
  /\ Batches \in BOOLEAN

VARIABLES
  log,          \* every message the client sends, in order
  admitted,     \* how many of them have become handler tasks
  runq,         \* handler tasks to be polled: new ones and woken ones
  parked,       \* handler tasks that await an engine reply
  docs,         \* AppState.docs: text of each document, 0 when not open
  held,         \* per engine call: the versions its publication is made of
  bg,           \* per background task: where it stands
  todo,         \* per background task: URIs it still has to republish
  built,        \* the engine thread has stored Ready or Broken
  indexReady,   \* AppState.ready
  shown,        \* the diagnostics the client shows for each document
  answers,      \* the responses sent: request number and what it was made of
  available, inbox, outcome     \* the engine, as an EngineService

handlerVars == <<log, admitted, runq, parked, answers>>
engineVars  == <<available, inbox, outcome>>
vars == <<handlerVars, docs, held, bg, todo, built, indexReady, shown, engineVars>>

-----------------------------------------------------------------------------
Background == {"build", "index"}
Numbers    == 1..MaxMsgs
MsgCall(n)   == <<"msg", n>>
BgCall(b, u) == <<b, u>>
Calls == {MsgCall(n) : n \in Numbers} \cup (Background \X Docs)

Engine == INSTANCE EngineService

Texts == (-MaxMsgs)..MaxMsgs       \* -n is the intermediate text of a batch n
NoVersions == [text |-> 0, ast |-> 0]
NotShown == [text |-> 0, ast |-> 0, lines |-> FALSE, by |-> "nobody"]
IsHandler(c) == c[1] = "msg"

-----------------------------------------------------------------------------
(* The client is a correct one: it opens, edits and closes documents in    *)
(* protocol order and may send requests about any document.  What it will  *)
(* send is chosen once, in Init; when it arrives is up to Admit.           *)

Messages == [kind : Kinds, uri : Docs, batch : BOOLEAN]

About(u, m) == m.uri = u /\ m.kind \in {"open", "change", "close"}

\* Message n is the last that opens, changes or closes u.
LastWord(u, sent, n) ==
  /\ n \in 1..Len(sent) /\ About(u, sent[n])
  /\ \A k \in (n + 1)..Len(sent) : ~About(u, sent[k])

OpenAfter(u, sent) == \E n \in 1..Len(sent) : LastWord(u, sent, n) /\ sent[n].kind # "close"

Allowed(m, sent) ==
  /\ m.kind = "open" => ~OpenAfter(m.uri, sent)
  /\ m.kind \in {"change", "close"} => OpenAfter(m.uri, sent)
  /\ m.batch => Batches /\ m.kind = "change"

Sessions ==
  {sent \in BoundedSeq(Messages, MaxMsgs) :
     \A n \in DOMAIN sent : Allowed(sent[n], SubSeq(sent, 1, n - 1))}

-----------------------------------------------------------------------------
Init ==
  /\ log \in Sessions /\ admitted = 0
  /\ runq = <<>> /\ parked = {}
  /\ docs = [u \in Docs |-> 0]
  /\ held = [c \in Calls |-> NoVersions]
  /\ bg = [b \in Background |-> "waiting"]
  /\ todo = [b \in Background |-> <<>>]
  /\ built = FALSE /\ indexReady = FALSE
  /\ shown = [u \in Docs |-> NotShown]
  /\ answers = {}
  /\ Engine!Init

-----------------------------------------------------------------------------
(* tower-lsp's serve task: a bounded set of handler futures, polled in the *)
(* order in which they were admitted or woken.                             *)

InFlight == Range(runq) \cup parked

Admit ==
  /\ admitted < Len(log)
  /\ Cardinality(InFlight) < HandlerLimit
  /\ admitted' = admitted + 1
  /\ runq' = Append(runq, admitted + 1)
  /\ UNCHANGED <<log, parked, answers, docs, held, bg, todo, built,
                 indexReady, shown, engineVars>>

\* Client::publish_diagnostics: what was sent last is what the client shows.
Publish(u, versions, withLines, who) ==
  shown' = [shown EXCEPT ![u] = [text |-> versions.text, ast |-> versions.ast,
                                 lines |-> withLines, by |-> who]]

\* Fault: did_close leaves the document in the store.
FaultCloseKeepsDoc(n) ==
  LET m == log[n] IN
  CASE m.kind = "open"   -> [docs EXCEPT ![m.uri] = n]
    [] m.kind = "change" -> [docs EXCEPT ![m.uri] = IF m.batch THEN -n ELSE n]
    [] OTHER             -> docs

\* The document store after message n has been handled.
Stored(n) ==
  LET m == log[n] IN
  CASE m.kind = "open"   -> [docs EXCEPT ![m.uri] = n]
    [] m.kind = "change" -> [docs EXCEPT ![m.uri] = IF m.batch THEN -n ELSE n]
    [] m.kind = "close"  -> [docs EXCEPT ![m.uri] = 0]
    [] OTHER             -> docs

\* The first poll of handler n.
FirstPoll(n) == runq # <<>> /\ Head(runq) = n /\ n \notin parked

\* did_close, and requests answered without the engine: completion, and a
\* hover before the index is ready or on a document that is not open.
HandleWithoutEngine(n) ==
  LET m == log[n] IN
  /\ FirstPoll(n)
  /\ \/ m.kind \in {"close", "completion"}
     \/ m.kind = "hover" /\ (~indexReady \/ docs[m.uri] = 0)
  /\ docs' = Stored(n)
  /\ answers' = IF m.kind = "close" THEN answers
                ELSE answers \cup {[request |-> n, text |-> 0, ast |-> 0]}
  /\ runq' = Tail(runq)
  /\ UNCHANGED <<log, admitted, parked, held, bg, todo, built, indexReady,
                 shown, engineVars>>

NeedsEngine(n) ==
  \/ log[n].kind \in {"open", "change"}
  \/ log[n].kind = "hover" /\ indexReady /\ docs[log[n].uri] # 0

\* Fault: AST diagnostics are published before the engine is asked.
FaultPublishThenAwait(n) ==
  LET text == Stored(n)[log[n].uri]
      versions == [text |-> text, ast |-> text] IN
  /\ FirstPoll(n)
  /\ NeedsEngine(n)
  /\ docs' = Stored(n)
  /\ held' = [held EXCEPT ![MsgCall(n)] = versions]
  /\ runq' = Tail(runq)
  /\ parked' = parked \cup {n}
  /\ Engine!Accept(MsgCall(n))
  /\ Publish(log[n].uri, versions, FALSE, "handler")
  /\ UNCHANGED <<log, admitted, answers, bg, todo, built, indexReady>>

\* Fault: the text is read before the change is stored.
FaultReadBeforeStore(n) ==
  LET text == docs[log[n].uri] IN
  /\ FirstPoll(n)
  /\ NeedsEngine(n)
  /\ docs' = Stored(n)
  /\ held' = [held EXCEPT ![MsgCall(n)] = [text |-> text, ast |-> text]]
  /\ runq' = Tail(runq)
  /\ parked' = parked \cup {n}
  /\ Engine!Accept(MsgCall(n))
  /\ UNCHANGED <<log, admitted, answers, bg, todo, built, indexReady, shown>>

\* did_open, did_change and hover up to the await: store the text, read it
\* back, validate the snapshot, send the engine request, all in one poll.
HandleUntilAwait(n) ==
  LET text == Stored(n)[log[n].uri] IN
  /\ FirstPoll(n)
  /\ NeedsEngine(n)
  /\ docs' = Stored(n)
  /\ held' = [held EXCEPT ![MsgCall(n)] = [text |-> text, ast |-> text]]
  /\ runq' = Tail(runq)
  /\ parked' = parked \cup {n}
  /\ Engine!Accept(MsgCall(n))
  /\ UNCHANGED <<log, admitted, answers, bg, todo, built, indexReady, shown>>

\* The end of a handler: publish the merged diagnostics, or answer the hover
\* from the text it read and the snapshot that is there now.
Finish(n, store, versions, withLines) ==
  LET m == log[n] IN
  IF m.kind = "hover"
    THEN /\ answers' = answers \cup
              {[request |-> n, text |-> versions.text, ast |-> store[m.uri]]}
         /\ UNCHANGED shown
    ELSE /\ Publish(m.uri, versions, withLines, "handler")
         /\ UNCHANGED answers

\* The same handlers when the engine refuses the call: no await parks them.
HandleRefused(n) ==
  LET text == Stored(n)[log[n].uri]
      versions == [text |-> text, ast |-> text] IN
  /\ FirstPoll(n)
  /\ NeedsEngine(n)
  /\ docs' = Stored(n)
  /\ runq' = Tail(runq)
  /\ Engine!Refuse(MsgCall(n))
  /\ Finish(n, Stored(n), versions, FALSE)
  /\ UNCHANGED <<log, admitted, parked, held, bg, todo, built, indexReady>>

\* Fault: the snapshot is validated after the await.
FaultValidateAfterAwait(n) ==
  /\ runq # <<>> /\ Head(runq) = n /\ n \in parked
  /\ runq' = Tail(runq)
  /\ parked' = parked \ {n}
  /\ Finish(n, docs, [held[MsgCall(n)] EXCEPT !.ast = docs[log[n].uri]],
            outcome[MsgCall(n)] = "answer")
  /\ held' = [held EXCEPT ![MsgCall(n)] = NoVersions]
  /\ UNCHANGED <<log, admitted, docs, bg, todo, built, indexReady, engineVars>>

\* Fault: woken handlers run in any order, as on a pool of worker threads.
FaultResumeAnyOrder(n) ==
  /\ n \in Range(runq) /\ n \in parked
  /\ runq' = SelectSeq(runq, LAMBDA k : k # n)
  /\ parked' = parked \ {n}
  /\ Finish(n, docs, held[MsgCall(n)], outcome[MsgCall(n)] = "answer")
  /\ held' = [held EXCEPT ![MsgCall(n)] = NoVersions]
  /\ UNCHANGED <<log, admitted, docs, bg, todo, built, indexReady, engineVars>>

\* Fault: a finished handler keeps its place among those in flight.
FaultKeepSlot(n) ==
  /\ runq # <<>> /\ Head(runq) = n /\ n \in parked
  /\ runq' = Tail(runq)
  /\ Finish(n, docs, held[MsgCall(n)], outcome[MsgCall(n)] = "answer")
  /\ held' = [held EXCEPT ![MsgCall(n)] = NoVersions]
  /\ UNCHANGED <<log, admitted, parked, docs, bg, todo, built, indexReady, engineVars>>

\* The poll after the engine's reply woke handler n.
HandleReply(n) ==
  /\ runq # <<>> /\ Head(runq) = n /\ n \in parked
  /\ runq' = Tail(runq)
  /\ parked' = parked \ {n}
  /\ Finish(n, docs, held[MsgCall(n)], outcome[MsgCall(n)] = "answer")
  /\ held' = [held EXCEPT ![MsgCall(n)] = NoVersions]
  /\ UNCHANGED <<log, admitted, docs, bg, todo, built, indexReady, engineVars>>

-----------------------------------------------------------------------------
(* The engine thread, seen from the server.                                *)

\* Wake the handlers among the resolved calls, oldest first.
Wake(calls) ==
  LET woken(c) == IF IsHandler(c) THEN <<c[2]>> ELSE <<>> IN
  runq' = runq \o FlattenSeq([i \in DOMAIN calls |-> woken(calls[i])])

EngineRest == UNCHANGED <<log, admitted, parked, answers, docs, held, bg, todo,
                          indexReady, shown>>

EngineBuilt ==
  /\ ~built /\ available
  /\ built' = TRUE
  /\ UNCHANGED <<runq, engineVars>>
  /\ EngineRest

EngineAnswers ==
  /\ built
  /\ Engine!Answer
  /\ Wake(<<Head(inbox)>>)
  /\ UNCHANGED built
  /\ EngineRest

EngineCorpusFails ==
  /\ ~built
  /\ Engine!Fail
  /\ built' = TRUE
  /\ UNCHANGED runq
  /\ EngineRest

EngineDeclines ==
  /\ built
  /\ Engine!Decline
  /\ Wake(<<Head(inbox)>>)
  /\ UNCHANGED built
  /\ EngineRest

EngineDies ==
  /\ Engine!Collapse
  /\ Wake(inbox)
  /\ built' = TRUE
  /\ EngineRest

-----------------------------------------------------------------------------
(* The two tasks spawned by initialize and initialized.                    *)

BgRest == UNCHANGED <<handlerVars, docs, built, indexReady>>

OpenUris == {u \in Docs : docs[u] # 0}

BgStart(b) == 
  \E uris \in SetToSeqs(OpenUris) :
    /\ todo' = [todo EXCEPT ![b] = uris]
    /\ bg' = [bg EXCEPT ![b] = "next"]

BgStop(b) == bg' = [bg EXCEPT ![b] = "done"] /\ UNCHANGED todo

\* initialize: ensure_engine has returned a failure count ...
BuildTaskReady ==
  /\ bg["build"] = "waiting" /\ built /\ available
  /\ bg' = [bg EXCEPT !["build"] = "ready"]
  /\ UNCHANGED <<todo, held, shown, engineVars>> /\ BgRest

\* ... has been logged, and the URIs to republish are collected ...
BuildTaskStarts ==
  /\ bg["build"] = "ready"
  /\ BgStart("build")
  /\ UNCHANGED <<held, shown, engineVars>> /\ BgRest

\* ... or ensure_engine returned usize::MAX.
BuildTaskStops ==
  /\ bg["build"] = "waiting" /\ built /\ ~available
  /\ BgStop("build")
  /\ UNCHANGED <<held, shown, engineVars>> /\ BgRest

\* initialized: the poll loop sees the index ready ...
IndexTaskStarts ==
  /\ bg["index"] = "waiting" /\ indexReady
  /\ BgStart("index")
  /\ UNCHANGED <<held, shown, engineVars>> /\ BgRest

\* ... or runs out of its 600 polls.
IndexTaskStops ==
  /\ bg["index"] = "waiting" /\ ~indexReady
  /\ BgStop("index")
  /\ UNCHANGED <<held, shown, engineVars>> /\ BgRest

\* publish_merged_diagnostics: get_doc; a closed document is skipped.
BgRead(b) ==
  /\ bg[b] = "next" /\ todo[b] # <<>>
  /\ LET u == Head(todo[b]) IN
     IF docs[u] = 0
       THEN /\ todo' = [todo EXCEPT ![b] = Tail(@)]
            /\ UNCHANGED <<held, bg>>
       ELSE /\ held' = [held EXCEPT ![BgCall(b, u)].text = docs[u]]
            /\ bg' = [bg EXCEPT ![b] = "read"]
            /\ UNCHANGED todo
  /\ UNCHANGED <<shown, engineVars>> /\ BgRest

BgEnd(b) ==
  /\ bg[b] = "next" /\ todo[b] = <<>>
  /\ BgStop(b)
  /\ UNCHANGED <<held, shown, engineVars>> /\ BgRest

\* core_lsp_diagnostics: the snapshot that is there now, or else the text.
BgVersions(b, u) ==
  [text |-> held[BgCall(b, u)].text,
   ast  |-> IF docs[u] # 0 THEN docs[u] ELSE held[BgCall(b, u)].text]

BgCallEngine(b) ==
  LET u == Head(todo[b]) IN
  /\ bg[b] = "read"
  /\ held' = [held EXCEPT ![BgCall(b, u)] = BgVersions(b, u)]
  /\ bg' = [bg EXCEPT ![b] = "parked"]
  /\ Engine!Accept(BgCall(b, u)) \/ Engine!Refuse(BgCall(b, u))
  /\ UNCHANGED <<todo, shown>> /\ BgRest

BgPublish(b) ==
  LET u == Head(todo[b]) IN
  /\ bg[b] = "parked" /\ outcome[BgCall(b, u)] # "open"
  /\ Publish(u, held[BgCall(b, u)], outcome[BgCall(b, u)] = "answer", b)
  /\ todo' = [todo EXCEPT ![b] = Tail(@)]
  /\ bg' = [bg EXCEPT ![b] = "next"]
  /\ held' = [held EXCEPT ![BgCall(b, u)] = NoVersions]
  /\ UNCHANGED engineVars /\ BgRest

\* refresh: the entry table is installed and the ready flag is stored.
IndexInstalled ==
  /\ ~indexReady
  /\ indexReady' = TRUE
  /\ UNCHANGED <<handlerVars, docs, held, bg, todo, built, shown, engineVars>>

-----------------------------------------------------------------------------
Poll == \E n \in Numbers :
  HandleWithoutEngine(n) \/ HandleUntilAwait(n) \/ HandleRefused(n) \/ HandleReply(n)

EngineBuild == EngineBuilt \/ EngineCorpusFails
EngineServe == EngineAnswers \/ EngineDeclines

BgStep(b) == BgRead(b) \/ BgEnd(b) \/ BgCallEngine(b) \/ BgPublish(b)
BgBegin == BuildTaskReady \/ BuildTaskStarts \/ BuildTaskStops \/ IndexTaskStarts \/ IndexTaskStops

Next ==
  \/ Admit \/ Poll
  \/ EngineBuild \/ EngineServe \/ EngineDies
  \/ BgBegin \/ \E b \in Background : BgStep(b)
  \/ IndexInstalled

Spec == Init /\ [][Next]_vars

\* The serve task is polled whenever it can make progress, the engine thread
\* finishes its finite build and serves, and the background tasks run.  The
\* client is free, and nothing obliges the engine to die.
Fairness ==
  /\ WF_vars(Admit) /\ WF_vars(Poll)
  /\ WF_vars(EngineBuild) /\ WF_vars(EngineServe)
  /\ WF_vars(BgBegin) /\ \A b \in Background : WF_vars(BgStep(b))

FairSpec == Spec /\ Fairness

-----------------------------------------------------------------------------
(* Properties.                                                             *)

AllPolled == admitted = Len(log) /\ Range(runq) \subseteq parked
Settled   == AllPolled /\ InFlight = {}
Quiescent == Settled /\ \A b \in Background : bg[b] = "done"

\* The text the client has for u once all its messages have been sent.
ClientText(u) ==
  IF OpenAfter(u, log) THEN CHOOSE n \in 1..Len(log) : LastWord(u, log, n) ELSE 0

\* The document store follows the client: when every message has been polled,
\* each document holds the client's text, and a closed one is gone (did_open,
\* did_change, did_close: handlers overlap, their effects must not).
DocsFollowClient == AllPolled => \A u \in Docs : docs[u] = ClientText(u)

\* What a handler publishes is made of one version of the document, although
\* it reads the store twice and awaits the engine in between.
HandlerPublishesOneVersion ==
  \A u \in Docs : shown[u].by = "handler" => shown[u].ast = shown[u].text

\* No flash of core-engine output: diagnostics without the engine's lines are
\* published only once the engine is unavailable for good (state.rs, the
\* comment on check_document_via_engine).
NoCoreOnlyFlash ==
  \A u \in Docs : shown[u].by # "nobody" /\ ~shown[u].lines => ~available

\* While the engine is alive, handlers publish a document's diagnostics in the
\* order of its edits, although up to HandlerLimit of them overlap.
HandlersPublishInOrder ==
  [][\A u \in Docs :
       /\ shown'[u] # shown[u] /\ available
       /\ shown[u].by = "handler" /\ shown'[u].by = "handler"
       => shown'[u].text > shown[u].text]_vars

\* ... hence, when the dust settles and a handler published last, the client
\* shows the diagnostics of the text it has.
LastHandlerPublishIsFresh ==
  Settled /\ available =>
    \A u \in Docs : docs[u] # 0 /\ shown[u].by = "handler" => shown[u].text = docs[u]

\* Every message is handled to its end, and every request among them answered,
\* whatever the engine does: no handler waits for ever, and those in flight do
\* not shut out the ones behind them.
EveryMessageIsHandled ==
  \A n \in Numbers :
    (n <= Len(log)) ~>
      /\ n <= admitted /\ n \notin InFlight
      /\ log[n].kind \in {"hover", "completion"} => \E a \in answers : a.request = n

\* "Re-validate every open document and publish fresh diagnostics": when all
\* work is done and the engine is there, each open document shows the
\* diagnostics of its own text.
RepublishIsFresh ==
  Quiescent /\ available =>
    \A u \in Docs : docs[u] # 0 => shown[u].text = docs[u]

\* "Until it is ready, only AST diagnostics are published": while the engine is
\* building, a handler that has stored a new text has published something.
AstOnlyUntilReady ==
  ~built => \A u \in Docs : docs[u] # 0 => shown[u].by # "nobody"

\* "All features degrade gracefully before the pattern engine becomes ready":
\* a completion is never kept waiting by handlers that wait for the build.
CompletionDegrades ==
  ~( /\ ~built
     /\ admitted < Len(log) /\ log[admitted + 1].kind = "completion"
     /\ runq = <<>> /\ Cardinality(parked) = HandlerLimit )
=============================================================================
