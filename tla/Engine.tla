------------------------------- MODULE Engine -------------------------------
(***************************************************************************)
(* The pattern-engine lifecycle of skript-lsp/src/state.rs: one dedicated  *)
(* thread, built at most once, serving checks and hovers from one FIFO     *)
(* request channel; async tasks that park on a oneshot reply; and blocking *)
(* ensure_engine callers that sleep on a condition variable.               *)
(*                                                                         *)
(* A call (check_document_via_engine or hover_via_engine) is one element   *)
(* of Calls and runs once; the two kinds share all of their control, so    *)
(* the model keeps only the call's identity.  Diagnostics and hover data   *)
(* are abstracted to "answer"; None is the "none" result.                  *)
(*                                                                         *)
(* Definitions named Fault... are seeded errors: each shows that one of    *)
(* the properties can fail.  The specification uses none of them.          *)
(***************************************************************************)
EXTENDS Naturals, Sequences

CONSTANTS Calls,     \* the check and hover calls the async side makes
          Waiters,   \* the blocking threads that call ensure_engine
          NoCall     \* stands for "the thread is matching no request"

ASSUME TasksAssumption ==
  /\ Calls \cap Waiters = {}
  /\ NoCall \notin Calls

Tasks == Calls \cup Waiters

VARIABLES
  engineState,   \* Inner.engine_state
  channel,       \* Inner.engine_requests and the fate of its receiver
  queue,         \* requests sent and not yet received, oldest first
  thread,        \* where the dedicated thread stands
  registry,      \* TRUE when engine_thread_main holds Some(registry)
  current,       \* the request the thread took out of the channel
  pc,            \* where each task stands
  reply,         \* the oneshot of each call
  result,        \* what each task's function returned
  handles        \* TRUE while the server still owns its AppState

threadVars == <<thread, registry, current>>
vars == <<engineState, channel, queue, thread, registry, current,
          pc, reply, result, handles>>

-----------------------------------------------------------------------------
EngineStates == {"Idle", "Building", "Ready", "Broken"}
ThreadStates == {"none", "compiling", "built", "serving", "matching",
                 "unwound", "reported", "exited"}
TaskStates   == {"idle", "spawn", "spawnFailed", "failNotify", "send",
                 "await", "check", "asleep", "done"}

TypeOK ==
  /\ engineState \in EngineStates
  /\ channel \in {"absent", "open", "closed"}
  /\ queue \in Seq(Calls)
  /\ thread \in ThreadStates
  /\ registry \in BOOLEAN
  /\ current \in Calls \cup {NoCall}
  /\ current # NoCall <=> thread = "matching"
  /\ pc \in [Tasks -> TaskStates]
  /\ reply \in [Calls -> {"none", "pending", "answer", "unavailable", "dropped"}]
  /\ result \in [Tasks -> {"pending", "some", "none", "cancelled"}]
  /\ handles \in BOOLEAN

Init ==
  /\ engineState = "Idle"
  /\ channel = "absent"
  /\ queue = <<>>
  /\ thread = "none"
  /\ registry = FALSE
  /\ current = NoCall
  /\ pc = [t \in Tasks |-> "idle"]
  /\ reply = [c \in Calls |-> "none"]
  /\ result = [t \in Tasks |-> "pending"]
  /\ handles = TRUE

-----------------------------------------------------------------------------
(* Control of one task.                                                    *)
Goto(t, l) == pc' = [pc EXCEPT ![t] = l]

Return(t, r) ==
  /\ Goto(t, "done")
  /\ result' = [result EXCEPT ![t] = r]

\* Where a task stands once start_engine has returned TRUE.
Started(t) == IF t \in Calls THEN "send" ELSE "check"

Queued == {queue[i] : i \in DOMAIN queue}

\* Fault: the queue is abandoned instead of dropped, its oneshots stay open.
FaultForgetQueue(lost) ==
  /\ channel' = "closed"
  /\ queue' = <<>>
  /\ UNCHANGED reply

\* The receiver goes away: later sends fail, and every request still in the
\* channel is dropped together with its oneshot sender.  lost is the request
\* the unwinding thread was matching, if any.
DropReceiver(lost) ==
  /\ channel' = "closed"
  /\ queue' = <<>>
  /\ reply' = [c \in Calls |-> IF c \in Queued \cup lost THEN "dropped" ELSE reply[c]]

\* Fault: the state is stored and nobody is notified.
FaultWakeNobody == pc

\* Condvar::notify_all, called by task or engine thread: every sleeper wakes.
WakeAll == [t \in Tasks |-> IF pc[t] = "asleep" THEN "check" ELSE pc[t]]

-----------------------------------------------------------------------------
(* start_engine, run under the engine_state lock.                          *)

\* Fault: Building is stored only after the thread has been spawned.
FaultStartBeforeStore(t) ==
  /\ pc[t] = "idle" /\ handles
  /\ engineState = "Idle"
  /\ channel' = "open"
  /\ Goto(t, "spawn")
  /\ UNCHANGED <<engineState, queue, threadVars, reply, result, handles>>

\* Fault: the state is published before the request channel.
FaultStartWithoutChannel(t) ==
  /\ pc[t] = "idle" /\ handles
  /\ engineState = "Idle"
  /\ engineState' = "Building"
  /\ Goto(t, "spawn")
  /\ UNCHANGED <<channel, queue, threadVars, reply, result, handles>>

\* Fault: a broken engine is started again.
FaultRestartBroken(t) ==
  /\ pc[t] = "idle" /\ handles
  /\ engineState \in {"Idle", "Broken"}
  /\ channel' = "open"
  /\ engineState' = "Building"
  /\ Goto(t, "spawn")
  /\ UNCHANGED <<queue, threadVars, reply, result, handles>>

StartIdle(t) ==
  /\ pc[t] = "idle" /\ handles
  /\ engineState = "Idle"
  /\ channel' = "open"
  /\ engineState' = "Building"
  /\ Goto(t, "spawn")
  /\ UNCHANGED <<queue, threadVars, reply, result, handles>>

StartRunning(t) ==
  /\ pc[t] = "idle" /\ handles
  /\ engineState \in {"Building", "Ready"}
  /\ Goto(t, Started(t))
  /\ UNCHANGED <<engineState, channel, queue, threadVars, reply, result, handles>>

StartBroken(t) ==
  /\ pc[t] = "idle" /\ handles
  /\ engineState = "Broken"
  /\ Return(t, "none")
  /\ UNCHANGED <<engineState, channel, queue, threadVars, reply, handles>>

\* thread::Builder::spawn, after the state lock was released.
SpawnOk(t) ==
  /\ pc[t] = "spawn"
  /\ thread' = "compiling"
  /\ Goto(t, Started(t))
  /\ UNCHANGED <<engineState, channel, queue, registry, current, reply, result, handles>>

\* The failed spawn drops the closure and the receiver inside it.
SpawnFails(t) ==
  /\ pc[t] = "spawn"
  /\ DropReceiver({})
  /\ Goto(t, "spawnFailed")
  /\ UNCHANGED <<engineState, threadVars, result, handles>>

SpawnSetBroken(t) ==
  /\ pc[t] = "spawnFailed"
  /\ engineState' = "Broken"
  /\ Goto(t, "failNotify")
  /\ UNCHANGED <<channel, queue, threadVars, reply, result, handles>>

SpawnNotify(t) ==
  /\ pc[t] = "failNotify"
  /\ pc' = [WakeAll EXCEPT ![t] = "done"]
  /\ result' = [result EXCEPT ![t] = "none"]
  /\ UNCHANGED <<engineState, channel, queue, threadVars, reply, handles>>

-----------------------------------------------------------------------------
(* check_document_via_engine and hover_via_engine after start_engine.      *)

SendRequest(c) ==
  /\ pc[c] = "send"
  /\ channel = "open"
  /\ queue' = Append(queue, c)
  /\ reply' = [reply EXCEPT ![c] = "pending"]
  /\ Goto(c, "await")
  /\ UNCHANGED <<engineState, channel, threadVars, result, handles>>

\* `.ok()?` on a channel whose receiver is gone.
SendFails(c) ==
  /\ pc[c] = "send"
  /\ channel # "open"
  /\ Return(c, "none")
  /\ UNCHANGED <<engineState, channel, queue, threadVars, reply, handles>>

ReceiveReply(c) ==
  /\ pc[c] = "await"
  /\ reply[c] # "pending"
  /\ Return(c, IF reply[c] = "answer" THEN "some" ELSE "none")
  /\ UNCHANGED <<engineState, channel, queue, threadVars, reply, handles>>

\* The client cancels the request, or its session ends: the future is dropped
\* while it is parked, and its request stays in the channel.
Cancel(c) ==
  /\ pc[c] = "await"
  /\ Return(c, "cancelled")
  /\ UNCHANGED <<engineState, channel, queue, threadVars, reply, handles>>

-----------------------------------------------------------------------------
(* ensure_engine: the loop around Condvar::wait.  Reading the state and    *)
(* going to sleep is one step, because the lock is held in between.        *)

\* Fault: waking up is taken for success.
FaultReturnOnWake(w) ==
  /\ pc[w] = "check"
  /\ engineState \in {"Ready", "Broken"}
  /\ Return(w, "some")
  /\ UNCHANGED <<engineState, channel, queue, threadVars, reply, handles>>

EnsureReturns(w) ==
  /\ pc[w] = "check"
  /\ engineState \in {"Ready", "Broken"}
  /\ Return(w, IF engineState = "Ready" THEN "some" ELSE "none")
  /\ UNCHANGED <<engineState, channel, queue, threadVars, reply, handles>>

EnsureSleeps(w) ==
  /\ pc[w] = "check"
  /\ engineState \in {"Idle", "Building"}
  /\ Goto(w, "asleep")
  /\ UNCHANGED <<engineState, channel, queue, threadVars, reply, result, handles>>

-----------------------------------------------------------------------------
(* engine_thread_main and the catch_unwind around it.                      *)

\* Registry::embedded and compile_all succeed; set_engine_ready stores Ready.
CompileOk ==
  /\ thread = "compiling"
  /\ registry' = TRUE
  /\ engineState' = "Ready"
  /\ thread' = "built"
  /\ UNCHANGED <<channel, queue, current, pc, reply, result, handles>>

\* Registry::embedded returns Err; the thread goes on and serves Unavailable.
CorpusFails ==
  /\ thread = "compiling"
  /\ registry' = FALSE
  /\ engineState' = "Broken"
  /\ thread' = "built"
  /\ UNCHANGED <<channel, queue, current, pc, reply, result, handles>>

\* The notify_all that follows the store of Ready or Broken.
BuiltNotify ==
  /\ thread = "built"
  /\ pc' = WakeAll
  /\ thread' = "serving"
  /\ UNCHANGED <<engineState, channel, queue, registry, current, reply, result, handles>>

CompilePanics ==
  /\ thread = "compiling"
  /\ DropReceiver({})
  /\ thread' = "unwound"
  /\ UNCHANGED <<engineState, registry, current, pc, result, handles>>

\* A sender is alive while Inner is, and Inner is alive while anyone holds an
\* AppState: the server, or the engine thread itself through its own clones.
SenderAlive == handles \/ thread \notin {"none", "exited"}

\* Fault: the newest request is served first.
FaultReceiveNewest ==
  /\ thread = "serving"
  /\ queue # <<>>
  /\ current' = queue[Len(queue)]
  /\ queue' = SubSeq(queue, 1, Len(queue) - 1)
  /\ thread' = "matching"
  /\ UNCHANGED <<engineState, channel, registry, pc, reply, result, handles>>

\* One blocking_recv: the oldest request, or the end of the channel.
ReceiveRequest ==
  /\ thread = "serving"
  /\ queue # <<>> \/ ~SenderAlive
  /\ IF queue # <<>>
       THEN /\ current' = Head(queue)
            /\ queue' = Tail(queue)
            /\ thread' = "matching"
       ELSE /\ thread' = "exited"
            /\ UNCHANGED <<current, queue>>
  /\ UNCHANGED <<engineState, channel, registry, pc, reply, result, handles>>

\* Fault: the request is answered but not let go.
FaultReplyAndKeep ==
  /\ thread = "matching"
  /\ reply' = [reply EXCEPT ![current] = IF registry THEN "answer" ELSE "unavailable"]
  /\ thread' = "serving"
  /\ UNCHANGED <<engineState, channel, queue, registry, current, pc, result, handles>>

\* reply.send; a receiver that is gone makes it a no-op for the caller.
ReplyRequest ==
  /\ thread = "matching"
  /\ reply' = [reply EXCEPT ![current] = IF registry THEN "answer" ELSE "unavailable"]
  /\ current' = NoCall
  /\ thread' = "serving"
  /\ UNCHANGED <<engineState, channel, queue, registry, pc, result, handles>>

\* check_document or match_line_for_hover panics and unwinds out of the loop.
MatchPanics ==
  /\ thread = "matching"
  /\ registry
  /\ DropReceiver({current})
  /\ current' = NoCall
  /\ thread' = "unwound"
  /\ UNCHANGED <<engineState, registry, pc, result, handles>>

\* catch_unwind returned Err: set_engine_broken stores Broken ...
ReportPanic ==
  /\ thread = "unwound"
  /\ engineState' = "Broken"
  /\ thread' = "reported"
  /\ UNCHANGED <<channel, queue, registry, current, pc, reply, result, handles>>

\* ... and notifies; the thread is over and its AppState clones are dropped.
PanicNotify ==
  /\ thread = "reported"
  /\ pc' = WakeAll
  /\ thread' = "exited"
  /\ UNCHANGED <<engineState, channel, queue, registry, current, reply, result, handles>>

-----------------------------------------------------------------------------
\* The server goes away and drops its AppState; no task holds a clone then.
ReleaseState ==
  /\ handles
  /\ \A t \in Tasks : pc[t] \in {"idle", "done"}
  /\ handles' = FALSE
  /\ UNCHANGED <<engineState, channel, queue, threadVars, pc, reply, result>>

StartEngine(t) == StartIdle(t) \/ StartRunning(t) \/ StartBroken(t)
FinishSpawn(t) == SpawnOk(t) \/ SpawnFails(t) \/ SpawnSetBroken(t) \/ SpawnNotify(t)
CallStep(c)    == SendRequest(c) \/ SendFails(c) \/ ReceiveReply(c)
EnsureStep(w)  == EnsureReturns(w) \/ EnsureSleeps(w)
Build          == CompileOk \/ CorpusFails \/ CompilePanics
ThreadStep     == Build \/ BuiltNotify \/ ReceiveRequest \/ ReplyRequest
                    \/ MatchPanics \/ ReportPanic \/ PanicNotify

Next ==
  \/ \E t \in Tasks : StartEngine(t) \/ FinishSpawn(t)
  \/ \E c \in Calls : CallStep(c) \/ Cancel(c)
  \/ \E w \in Waiters : EnsureStep(w)
  \/ ThreadStep
  \/ ReleaseState

Spec == Init /\ [][Next]_vars

\* Tasks that have begun, and the thread, keep running: the tokio workers and
\* the OS schedule them, the corpus is finite, and matching one text ends.
\* Nothing obliges a client to issue or to cancel a call.
Fairness ==
  /\ \A t \in Tasks : WF_vars(FinishSpawn(t))
  /\ \A c \in Calls : WF_vars(CallStep(c))
  /\ \A w \in Waiters : WF_vars(EnsureStep(w))
  /\ WF_vars(ThreadStep)

FairSpec == Spec /\ Fairness

-----------------------------------------------------------------------------
(* Properties.                                                             *)

\* The request channel exists exactly when the engine was started, so the
\* `sender?` after a successful start_engine never finds None; and once the
\* engine is Ready its receiver is alive or its thread is about to report the
\* panic that killed it.  (state.rs: "always set while holding the lock")
ChannelFollowsState ==
  /\ channel = "absent" <=> engineState = "Idle"
  /\ (engineState = "Ready" /\ channel = "closed") => thread = "unwound"
  /\ engineState = "Building" =>
       \/ thread \in {"compiling", "unwound"}
       \/ \E t \in Tasks : pc[t] \in {"spawn", "spawnFailed"}

\* start_engine builds the engine at most once, whatever the number of tasks
\* that race to start it: one task spawns, and only when there is no thread.
SingleBuilder ==
  /\ \A t, u \in Tasks :
       pc[t] \in {"spawn", "spawnFailed", "failNotify"} /\
       pc[u] \in {"spawn", "spawnFailed", "failNotify"} => t = u
  /\ (\E t \in Tasks : pc[t] \in {"spawn", "spawnFailed", "failNotify"}) => thread = "none"

\* A reply that is still open is owned by someone who will use or drop it: its
\* request waits in an open channel, once, or the thread is matching it.  No
\* caller can be parked on a oneshot that nobody holds.
NoOrphanReply ==
  /\ \A c \in Calls : reply[c] = "pending" <=> c \in Queued \cup {current}
  /\ \A i, j \in DOMAIN queue : queue[i] = queue[j] => i = j
  /\ current \notin Queued
  /\ (\E c \in Calls : reply[c] = "pending") => channel = "open"

\* ensure_engine and the calls report the truth: a failure-free count or an
\* answer is only returned by an engine that was built, and a waiter told that
\* the engine is unavailable is told so for good.
ResultsAreTrue ==
  /\ \A w \in Waiters : result[w] = "some" => registry
  /\ \A w \in Waiters : result[w] = "none" => engineState = "Broken"
  /\ \A c \in Calls   : result[c] = "some" => registry

\* Broken is permanent: no later step revives the engine, and no call sent or
\* still queued after that is answered.
BrokenIsFinal ==
  [][engineState = "Broken" =>
       /\ engineState' = "Broken"
       /\ \A c \in Calls : reply'[c] = "answer" => reply[c] = "answer"]_vars

\* Every call that was made returns, whatever panics, fails or is cancelled.
EveryCallReturns ==
  \A c \in Calls : (pc[c] # "idle") ~> (pc[c] = "done")

\* Every blocked ensure_engine wakes up: no wakeup is lost between the check
\* of the state and the sleep, on the success, failure and panic paths.
EveryWaiterWakes ==
  \A w \in Waiters : (pc[w] # "idle") ~> (pc[w] = "done")

\* The thread serves "until the channel closes (server shutdown)": when the
\* server has dropped its state, the thread ends.
ThreadEndsAtShutdown ==
  (~handles) ~> (thread \in {"none", "exited"})

-----------------------------------------------------------------------------
(* Refinement: the calls, seen from outside, are an EngineService.         *)

Inbox == IF current = NoCall THEN queue ELSE <<current>> \o queue

Outcome == [c \in Calls |->
  CASE reply[c] = "answer" -> "answer"
    [] reply[c] \in {"unavailable", "dropped"} -> "none"
    [] reply[c] = "none" /\ result[c] = "none" -> "none"
    [] OTHER -> "open"]

\* The engine can still answer: its receiver is alive, and it has a registry
\* or has not yet learnt that it will get none.
Available ==
  /\ channel # "closed"
  /\ engineState # "Broken"

Service == INSTANCE EngineService
  WITH available <- Available, inbox <- Inbox, outcome <- Outcome

\* The concrete engine implements the abstract service: answers in arrival
\* order, each call resolved once, None for ever after a failure.
ImplementsService == Service!Spec
=============================================================================
