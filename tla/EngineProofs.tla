---------------------------- MODULE EngineProofs ----------------------------
(***************************************************************************)
(* What TLAPS proves of Engine, for every set of calls and of waiters, and *)
(* that Engine implements EngineService: under the mapping of Engine every *)
(* step of a task or of the thread is a step of the service, or none.      *)
(***************************************************************************)
EXTENDS Engine, TLAPS

Spawning(t) == pc[t] \in {"spawn", "spawnFailed", "failNotify"}

\* How the state of the engine, its channel, its thread and the task that
\* spawns the thread go together.
Lifecycle ==
  /\ channel = "absent" <=> engineState = "Idle"
  /\ engineState = "Idle" => thread = "none" /\ \A t \in Tasks : ~Spawning(t)
  /\ \A t, u \in Tasks : Spawning(t) /\ Spawning(u) => t = u
  /\ \A t \in Tasks :
       /\ Spawning(t) => thread = "none"
       /\ pc[t] = "spawn" => engineState = "Building" /\ channel = "open"
       /\ pc[t] = "spawnFailed" => engineState = "Building" /\ channel = "closed"
       /\ pc[t] = "failNotify" => engineState = "Broken" /\ channel = "closed"
  /\ thread = "none" /\ engineState = "Building" =>
       \E t \in Tasks : pc[t] \in {"spawn", "spawnFailed"}
  /\ thread = "none" => engineState # "Ready"
  /\ thread \in {"none", "compiling"} => ~registry
  /\ thread = "compiling" => engineState = "Building" /\ channel = "open"
  /\ thread \in {"built", "serving", "matching"} =>
       /\ channel = "open"
       /\ engineState = IF registry THEN "Ready" ELSE "Broken"
  /\ thread = "unwound" =>
       /\ channel = "closed"
       /\ engineState = IF registry THEN "Ready" ELSE "Building"
  /\ thread \in {"reported", "exited"} => channel = "closed" /\ engineState = "Broken"

\* A call has no oneshot before it has sent its request.
NotYetSent ==
  \A c \in Calls :
    pc[c] \in {"idle", "spawn", "spawnFailed", "failNotify", "send"} => reply[c] = "none"

\* Only a built engine answers.
AnswersAreTrue ==
  \A c \in Calls : reply[c] = "answer" => registry

Truthful == NotYetSent /\ AnswersAreTrue /\ ResultsAreTrue

EngineInv == /\ TypeOK /\ Lifecycle /\ Truthful /\ NoOrphanReply

-----------------------------------------------------------------------------
(* One lemma per part of the invariant: every step preserves it.           *)

\* Every step keeps the types.
LEMMA TypeStep == EngineInv /\ [Next]_vars => TypeOK'
<1> SUFFICES ASSUME EngineInv, [Next]_vars  PROVE TypeOK'
  OBVIOUS
<1> USE TasksAssumption
    DEF EngineInv, Truthful, TypeOK, Tasks, EngineStates, ThreadStates, TaskStates,
        threadVars, Lifecycle, Spawning
<1>1. ASSUME NEW t \in Tasks, StartIdle(t)  PROVE TypeOK'
  BY <1>1 DEF StartIdle, Goto
<1>2. ASSUME NEW t \in Tasks, StartRunning(t)  PROVE TypeOK'
  BY <1>2 DEF StartRunning, Goto, Started
<1>3. ASSUME NEW t \in Tasks, StartBroken(t)  PROVE TypeOK'
  BY <1>3 DEF StartBroken, Return, Goto
<1>4. ASSUME NEW t \in Tasks, SpawnOk(t)  PROVE TypeOK'
  BY <1>4 DEF SpawnOk, Goto, Started
<1>5. ASSUME NEW t \in Tasks, SpawnFails(t)  PROVE TypeOK'
  BY <1>5 DEF SpawnFails, Goto, DropReceiver
<1>6. ASSUME NEW t \in Tasks, SpawnSetBroken(t)  PROVE TypeOK'
  BY <1>6 DEF SpawnSetBroken, Goto
<1>7. ASSUME NEW t \in Tasks, SpawnNotify(t)  PROVE TypeOK'
  BY <1>7 DEF SpawnNotify, WakeAll
<1>8. ASSUME NEW c \in Calls, SendRequest(c)  PROVE TypeOK'
  BY <1>8 DEF SendRequest, Goto
<1>9. ASSUME NEW c \in Calls, SendFails(c)  PROVE TypeOK'
  BY <1>9 DEF SendFails, Return, Goto
<1>10. ASSUME NEW c \in Calls, ReceiveReply(c)  PROVE TypeOK'
  BY <1>10 DEF ReceiveReply, Return, Goto
<1>11. ASSUME NEW c \in Calls, Cancel(c)  PROVE TypeOK'
  BY <1>11 DEF Cancel, Return, Goto
<1>12. ASSUME NEW w \in Waiters, EnsureReturns(w)  PROVE TypeOK'
  BY <1>12 DEF EnsureReturns, Return, Goto
<1>13. ASSUME NEW w \in Waiters, EnsureSleeps(w)  PROVE TypeOK'
  BY <1>13 DEF EnsureSleeps, Goto
<1>14. CASE CompileOk
  BY <1>14 DEF CompileOk
<1>15. CASE CorpusFails
  BY <1>15 DEF CorpusFails
<1>16. CASE BuiltNotify
  BY <1>16 DEF BuiltNotify, WakeAll
<1>17. CASE CompilePanics
  BY <1>17 DEF CompilePanics, DropReceiver
<1>18. CASE ReceiveRequest
  <2>1. queue # <<>> /\ queue \in Seq(Calls)
    BY <1>18 DEF ReceiveRequest, SenderAlive
  <2>2. Head(queue) \in Calls /\ Tail(queue) \in Seq(Calls)
    BY <2>1
  <2>. QED
    BY <1>18, <2>1, <2>2 DEF ReceiveRequest
<1>19. CASE ReplyRequest
  BY <1>19 DEF ReplyRequest
<1>20. CASE MatchPanics
  BY <1>20 DEF MatchPanics, DropReceiver
<1>21. CASE ReportPanic
  BY <1>21 DEF ReportPanic
<1>22. CASE PanicNotify
  BY <1>22 DEF PanicNotify, WakeAll
<1>23. CASE ReleaseState
  BY <1>23 DEF ReleaseState
<1>24. CASE UNCHANGED vars
  BY <1>24 DEF vars
<1>. QED
  BY <1>1, <1>2, <1>3, <1>4, <1>5, <1>6, <1>7, <1>8, <1>9, <1>10, <1>11, <1>12,
     <1>13, <1>14, <1>15, <1>16, <1>17, <1>18, <1>19, <1>20, <1>21, <1>22, <1>23, <1>24
     DEF Next, StartEngine, FinishSpawn, CallStep, EnsureStep, ThreadStep, Build

\* Every step keeps state, channel, thread and spawner in line.
LEMMA LifecycleStep == EngineInv /\ [Next]_vars => Lifecycle'
<1> SUFFICES ASSUME EngineInv, [Next]_vars  PROVE Lifecycle'
  OBVIOUS
<1> USE TasksAssumption
    DEF EngineInv, Truthful, TypeOK, Tasks, EngineStates, ThreadStates, TaskStates,
        threadVars, Lifecycle, Spawning
<1>1. ASSUME NEW t \in Tasks, StartIdle(t)  PROVE Lifecycle'
  BY <1>1 DEF StartIdle, Goto
<1>2. ASSUME NEW t \in Tasks, StartRunning(t)  PROVE Lifecycle'
  BY <1>2 DEF StartRunning, Goto, Started
<1>3. ASSUME NEW t \in Tasks, StartBroken(t)  PROVE Lifecycle'
  BY <1>3 DEF StartBroken, Return, Goto
<1>4. ASSUME NEW t \in Tasks, SpawnOk(t)  PROVE Lifecycle'
  BY <1>4 DEF SpawnOk, Goto, Started
<1>5. ASSUME NEW t \in Tasks, SpawnFails(t)  PROVE Lifecycle'
  BY <1>5 DEF SpawnFails, Goto, DropReceiver
<1>6. ASSUME NEW t \in Tasks, SpawnSetBroken(t)  PROVE Lifecycle'
  BY <1>6 DEF SpawnSetBroken, Goto
<1>7. ASSUME NEW t \in Tasks, SpawnNotify(t)  PROVE Lifecycle'
  BY <1>7 DEF SpawnNotify, WakeAll
<1>8. ASSUME NEW c \in Calls, SendRequest(c)  PROVE Lifecycle'
  BY <1>8 DEF SendRequest, Goto
<1>9. ASSUME NEW c \in Calls, SendFails(c)  PROVE Lifecycle'
  BY <1>9 DEF SendFails, Return, Goto
<1>10. ASSUME NEW c \in Calls, ReceiveReply(c)  PROVE Lifecycle'
  BY <1>10 DEF ReceiveReply, Return, Goto
<1>11. ASSUME NEW c \in Calls, Cancel(c)  PROVE Lifecycle'
  BY <1>11 DEF Cancel, Return, Goto
<1>12. ASSUME NEW w \in Waiters, EnsureReturns(w)  PROVE Lifecycle'
  BY <1>12 DEF EnsureReturns, Return, Goto
<1>13. ASSUME NEW w \in Waiters, EnsureSleeps(w)  PROVE Lifecycle'
  BY <1>13 DEF EnsureSleeps, Goto
<1>14. CASE CompileOk
  BY <1>14 DEF CompileOk
<1>15. CASE CorpusFails
  BY <1>15 DEF CorpusFails
<1>16. CASE BuiltNotify
  BY <1>16 DEF BuiltNotify, WakeAll
<1>17. CASE CompilePanics
  BY <1>17 DEF CompilePanics, DropReceiver
<1>18. CASE ReceiveRequest
  BY <1>18 DEF ReceiveRequest, SenderAlive
<1>19. CASE ReplyRequest
  BY <1>19 DEF ReplyRequest
<1>20. CASE MatchPanics
  BY <1>20 DEF MatchPanics, DropReceiver
<1>21. CASE ReportPanic
  BY <1>21 DEF ReportPanic
<1>22. CASE PanicNotify
  BY <1>22 DEF PanicNotify, WakeAll
<1>23. CASE ReleaseState
  BY <1>23 DEF ReleaseState
<1>24. CASE UNCHANGED vars
  BY <1>24 DEF vars
<1>. QED
  BY <1>1, <1>2, <1>3, <1>4, <1>5, <1>6, <1>7, <1>8, <1>9, <1>10, <1>11, <1>12,
     <1>13, <1>14, <1>15, <1>16, <1>17, <1>18, <1>19, <1>20, <1>21, <1>22, <1>23, <1>24
     DEF Next, StartEngine, FinishSpawn, CallStep, EnsureStep, ThreadStep, Build

\* No step makes a result, a reply or an unsent call untrue.
LEMMA ResultsStep == EngineInv /\ [Next]_vars => Truthful'
<1> SUFFICES ASSUME EngineInv, [Next]_vars  PROVE Truthful'
  OBVIOUS
<1> USE TasksAssumption
    DEF EngineInv, Truthful, TypeOK, Tasks, EngineStates, ThreadStates, TaskStates,
        threadVars, Lifecycle, Spawning, NotYetSent, AnswersAreTrue, ResultsAreTrue
<1>1. ASSUME NEW t \in Tasks, StartIdle(t)  PROVE Truthful'
  BY <1>1 DEF StartIdle, Goto
<1>2. ASSUME NEW t \in Tasks, StartRunning(t)  PROVE Truthful'
  BY <1>2 DEF StartRunning, Goto, Started
<1>3. ASSUME NEW t \in Tasks, StartBroken(t)  PROVE Truthful'
  BY <1>3 DEF StartBroken, Return, Goto
<1>4. ASSUME NEW t \in Tasks, SpawnOk(t)  PROVE Truthful'
  BY <1>4 DEF SpawnOk, Goto, Started
<1>5. ASSUME NEW t \in Tasks, SpawnFails(t)  PROVE Truthful'
  BY <1>5 DEF SpawnFails, Goto, DropReceiver, NoOrphanReply
<1>6. ASSUME NEW t \in Tasks, SpawnSetBroken(t)  PROVE Truthful'
  BY <1>6 DEF SpawnSetBroken, Goto
<1>7. ASSUME NEW t \in Tasks, SpawnNotify(t)  PROVE Truthful'
  BY <1>7 DEF SpawnNotify, WakeAll
<1>8. ASSUME NEW c \in Calls, SendRequest(c)  PROVE Truthful'
  BY <1>8 DEF SendRequest, Goto
<1>9. ASSUME NEW c \in Calls, SendFails(c)  PROVE Truthful'
  BY <1>9 DEF SendFails, Return, Goto
<1>10. ASSUME NEW c \in Calls, ReceiveReply(c)  PROVE Truthful'
  BY <1>10 DEF ReceiveReply, Return, Goto
<1>11. ASSUME NEW c \in Calls, Cancel(c)  PROVE Truthful'
  BY <1>11 DEF Cancel, Return, Goto
<1>12. ASSUME NEW w \in Waiters, EnsureReturns(w)  PROVE Truthful'
  BY <1>12 DEF EnsureReturns, Return, Goto
<1>13. ASSUME NEW w \in Waiters, EnsureSleeps(w)  PROVE Truthful'
  BY <1>13 DEF EnsureSleeps, Goto
<1>14. CASE CompileOk
  BY <1>14 DEF CompileOk
<1>15. CASE CorpusFails
  BY <1>15 DEF CorpusFails
<1>16. CASE BuiltNotify
  BY <1>16 DEF BuiltNotify, WakeAll
<1>17. CASE CompilePanics
  BY <1>17 DEF CompilePanics, DropReceiver, NoOrphanReply
<1>18. CASE ReceiveRequest
  BY <1>18 DEF ReceiveRequest, SenderAlive
<1>19. CASE ReplyRequest
  BY <1>19 DEF ReplyRequest, NoOrphanReply
<1>20. CASE MatchPanics
  BY <1>20 DEF MatchPanics, DropReceiver, NoOrphanReply
<1>21. CASE ReportPanic
  BY <1>21 DEF ReportPanic
<1>22. CASE PanicNotify
  BY <1>22 DEF PanicNotify, WakeAll
<1>23. CASE ReleaseState
  BY <1>23 DEF ReleaseState
<1>24. CASE UNCHANGED vars
  BY <1>24 DEF vars
<1>. QED
  BY <1>1, <1>2, <1>3, <1>4, <1>5, <1>6, <1>7, <1>8, <1>9, <1>10, <1>11, <1>12,
     <1>13, <1>14, <1>15, <1>16, <1>17, <1>18, <1>19, <1>20, <1>21, <1>22, <1>23, <1>24
     DEF Next, StartEngine, FinishSpawn, CallStep, EnsureStep, ThreadStep, Build

\* No step orphans a reply.
LEMMA RepliesStep == EngineInv /\ [Next]_vars => NoOrphanReply'
<1> SUFFICES ASSUME EngineInv, [Next]_vars  PROVE NoOrphanReply'
  OBVIOUS
<1> USE TasksAssumption
    DEF EngineInv, Truthful, TypeOK, Tasks, EngineStates, ThreadStates, TaskStates,
        threadVars, Lifecycle, Spawning, NotYetSent, NoOrphanReply, Queued
<1>1. ASSUME NEW t \in Tasks, StartIdle(t)  PROVE NoOrphanReply'
  BY <1>1 DEF StartIdle, Goto
<1>2. ASSUME NEW t \in Tasks, StartRunning(t)  PROVE NoOrphanReply'
  BY <1>2 DEF StartRunning, Goto, Started
<1>3. ASSUME NEW t \in Tasks, StartBroken(t)  PROVE NoOrphanReply'
  BY <1>3 DEF StartBroken, Return, Goto
<1>4. ASSUME NEW t \in Tasks, SpawnOk(t)  PROVE NoOrphanReply'
  BY <1>4 DEF SpawnOk, Goto, Started
<1>5. ASSUME NEW t \in Tasks, SpawnFails(t)  PROVE NoOrphanReply'
  BY <1>5 DEF SpawnFails, Goto, DropReceiver
<1>6. ASSUME NEW t \in Tasks, SpawnSetBroken(t)  PROVE NoOrphanReply'
  BY <1>6 DEF SpawnSetBroken, Goto
<1>7. ASSUME NEW t \in Tasks, SpawnNotify(t)  PROVE NoOrphanReply'
  BY <1>7 DEF SpawnNotify, WakeAll
<1>8. ASSUME NEW c \in Calls, SendRequest(c)  PROVE NoOrphanReply'
  <2>1. queue \in Seq(Calls) /\ c \notin Queued /\ c # current
    BY <1>8 DEF SendRequest
  <2>2. /\ Len(queue') = Len(queue) + 1
        /\ DOMAIN queue' = 1..Len(queue')
        /\ \A i \in 1..Len(queue) : queue'[i] = queue[i]
        /\ queue'[Len(queue')] = c
    BY <1>8, <2>1 DEF SendRequest
  <2>3. Queued' = Queued \cup {c}
    BY <2>1, <2>2
  <2>4. \A i, j \in DOMAIN queue' : queue'[i] = queue'[j] => i = j
    BY <2>1, <2>2
  <2>. QED
    BY <1>8, <2>1, <2>3, <2>4 DEF SendRequest, Goto
<1>9. ASSUME NEW c \in Calls, SendFails(c)  PROVE NoOrphanReply'
  BY <1>9 DEF SendFails, Return, Goto
<1>10. ASSUME NEW c \in Calls, ReceiveReply(c)  PROVE NoOrphanReply'
  BY <1>10 DEF ReceiveReply, Return, Goto
<1>11. ASSUME NEW c \in Calls, Cancel(c)  PROVE NoOrphanReply'
  BY <1>11 DEF Cancel, Return, Goto
<1>12. ASSUME NEW w \in Waiters, EnsureReturns(w)  PROVE NoOrphanReply'
  BY <1>12 DEF EnsureReturns, Return, Goto
<1>13. ASSUME NEW w \in Waiters, EnsureSleeps(w)  PROVE NoOrphanReply'
  BY <1>13 DEF EnsureSleeps, Goto
<1>14. CASE CompileOk
  BY <1>14 DEF CompileOk
<1>15. CASE CorpusFails
  BY <1>15 DEF CorpusFails
<1>16. CASE BuiltNotify
  BY <1>16 DEF BuiltNotify, WakeAll
<1>17. CASE CompilePanics
  BY <1>17 DEF CompilePanics, DropReceiver
<1>18. CASE ReceiveRequest
  <2>1. queue # <<>> /\ queue \in Seq(Calls) /\ current = NoCall
    BY <1>18 DEF ReceiveRequest, SenderAlive
  <2>2. /\ Len(queue') = Len(queue) - 1
        /\ DOMAIN queue' = 1..Len(queue')
        /\ \A i \in 1..Len(queue') : queue'[i] = queue[i + 1]
        /\ current' = queue[1]
    BY <1>18, <2>1, SMTT(30) DEF ReceiveRequest
  <2>a. DOMAIN queue = 1..Len(queue) /\ Len(queue) \in Nat /\ Len(queue) > 0
    BY <2>1
  <2>b. \A i \in 1..Len(queue') : i + 1 \in DOMAIN queue
    BY <2>2, <2>a
  <2>c. \A i \in DOMAIN queue :
          i # 1 => i - 1 \in 1..Len(queue') /\ queue'[i - 1] = queue[i]
    BY <2>2, <2>a
  <2>3. Queued' = Queued \ {current'}
    <3>1. ASSUME NEW x \in Queued'  PROVE x \in Queued \ {current'}
      <4>a. PICK i \in DOMAIN queue' : x = queue'[i]
        BY <3>1, Zenon
      <4>1. i \in 1..Len(queue') /\ x = queue[i + 1]
        BY <2>2, <4>a
      <4>2. queue[i + 1] # queue[1]
        BY <2>a, <2>b
      <4>. QED
        BY <4>1, <4>2, <2>2, <2>b
    <3>2. ASSUME NEW x \in Queued, x # current'  PROVE x \in Queued'
      <4>1. PICK i \in DOMAIN queue : x = queue[i]
        BY <3>2
      <4>2. i # 1
        BY <4>1, <3>2, <2>2
      <4>. QED
        BY <4>1, <4>2, <2>2, <2>c
    <3>. QED
      BY <3>1, <3>2
  <2>4. current' \in Queued
    BY <2>1, <2>2
  <2>5. ASSUME NEW i \in DOMAIN queue', NEW j \in DOMAIN queue', queue'[i] = queue'[j]
        PROVE i = j
    <3>1. queue[i + 1] = queue[j + 1]
      BY <2>2, <2>5
    <3>2. i + 1 = j + 1
      BY <3>1, <2>2, <2>b
    <3>. QED
      BY <3>2, <2>2
  <2>. QED
    BY <1>18, <2>1, <2>3, <2>4, <2>5, ZenonT(30) DEF ReceiveRequest
<1>19. CASE ReplyRequest
  BY <1>19 DEF ReplyRequest
<1>20. CASE MatchPanics
  BY <1>20 DEF MatchPanics, DropReceiver
<1>21. CASE ReportPanic
  BY <1>21 DEF ReportPanic
<1>22. CASE PanicNotify
  BY <1>22 DEF PanicNotify, WakeAll
<1>23. CASE ReleaseState
  BY <1>23 DEF ReleaseState
<1>24. CASE UNCHANGED vars
  BY <1>24 DEF vars
<1>. QED
  BY <1>1, <1>2, <1>3, <1>4, <1>5, <1>6, <1>7, <1>8, <1>9, <1>10, <1>11, <1>12,
     <1>13, <1>14, <1>15, <1>16, <1>17, <1>18, <1>19, <1>20, <1>21, <1>22, <1>23, <1>24
     DEF Next, StartEngine, FinishSpawn, CallStep, EnsureStep, ThreadStep, Build

-----------------------------------------------------------------------------
(* The theorems.                                                           *)

\* The engine starts Idle, without channel, thread or request.
LEMMA InvInit == Init => EngineInv
<1>. SUFFICES ASSUME Init  PROVE EngineInv
  OBVIOUS
<1>. USE TasksAssumption DEF Init, Tasks
<1>1. TypeOK
  <2>1. queue \in Seq(Calls)
    BY SMT
  <2>2. current \notin Calls /\ thread # "matching"
    BY SMT
  <2>3. pc \in [Calls \cup Waiters -> TaskStates]
    BY SMT DEF TaskStates
  <2>4. reply \in [Calls -> {"none", "pending", "answer", "unavailable", "dropped"}]
    BY SMT
  <2>5. result \in [Calls \cup Waiters -> {"pending", "some", "none", "cancelled"}]
    BY SMT
  <2>. QED
    BY <2>1, <2>2, <2>3, <2>4, <2>5 DEF TypeOK, EngineStates, ThreadStates
<1>2. Lifecycle
  BY DEF Lifecycle, Spawning
<1>3. Truthful
  BY DEF Truthful, NotYetSent, AnswersAreTrue, ResultsAreTrue
<1>4. NoOrphanReply
  BY DEF NoOrphanReply, Queued
<1>. QED
  BY <1>1, <1>2, <1>3, <1>4 DEF EngineInv

\* The parts are inductive together.
LEMMA InvStep == EngineInv /\ [Next]_vars => EngineInv'
BY TypeStep, LifecycleStep, ResultsStep, RepliesStep DEF EngineInv

\* The inductive invariant that the theorems below rest on.
THEOREM EngineInvariant == Spec => []EngineInv
BY InvInit, InvStep, PTL DEF Spec

\* Every variable keeps its type, and the thread holds a request exactly while
\* it matches one (engine_thread_main).
THEOREM TypeCorrect == Spec => []TypeOK
<1>1. EngineInv => TypeOK
  BY DEF EngineInv
<1>. QED
  BY EngineInvariant, <1>1, PTL

\* The request channel exists exactly when the engine was started, and a Ready
\* engine without a receiver is one whose panic is about to be reported.
THEOREM ChannelIsThere == Spec => []ChannelFollowsState
<1>1. EngineInv => ChannelFollowsState
  <2>. SUFFICES ASSUME EngineInv  PROVE ChannelFollowsState
    OBVIOUS
  <2>. QED
    BY DEF EngineInv, TypeOK, ThreadStates, Lifecycle, ChannelFollowsState
<1>. QED
  BY EngineInvariant, <1>1, PTL

\* However many tasks race in start_engine, one of them spawns the thread.
THEOREM EngineIsBuiltOnce == Spec => []SingleBuilder
<1>1. EngineInv => SingleBuilder
  BY DEF EngineInv, Lifecycle, Spawning, SingleBuilder
<1>. QED
  BY EngineInvariant, <1>1, PTL

\* Every open oneshot belongs to a request that is in the channel, once, or in
\* the thread's hands: no caller is parked on a reply that cannot come.
THEOREM NoReplyIsLost == Spec => []NoOrphanReply
<1>1. EngineInv => NoOrphanReply
  BY DEF EngineInv
<1>. QED
  BY EngineInvariant, <1>1, PTL

\* What ensure_engine and the calls return is true of the engine.
THEOREM ResultsAreSound == Spec => []ResultsAreTrue
<1>1. EngineInv => ResultsAreTrue
  BY DEF EngineInv, Truthful
<1>. QED
  BY EngineInvariant, <1>1, PTL

\* What a step from a broken engine must not change.
StaysBroken ==
  /\ engineState' = "Broken"
  /\ \A c \in Calls : reply'[c] = "answer" => reply[c] = "answer"

\* No step of the specification revives a broken engine.
LEMMA BrokenStep ==
  EngineInv /\ [Next]_vars =>
    (engineState = "Broken" => StaysBroken)
<1> SUFFICES ASSUME EngineInv, [Next]_vars, engineState = "Broken"  PROVE StaysBroken
  OBVIOUS
<1> USE TasksAssumption
    DEF EngineInv, Truthful, TypeOK, Tasks, EngineStates, ThreadStates, TaskStates,
        threadVars, Lifecycle, Spawning,
           StaysBroken
<1>1. ASSUME NEW t \in Tasks, StartIdle(t)  PROVE StaysBroken
  BY <1>1 DEF StartIdle, Goto
<1>2. ASSUME NEW t \in Tasks, StartRunning(t)  PROVE StaysBroken
  BY <1>2 DEF StartRunning, Goto, Started
<1>3. ASSUME NEW t \in Tasks, StartBroken(t)  PROVE StaysBroken
  BY <1>3 DEF StartBroken, Return, Goto
<1>4. ASSUME NEW t \in Tasks, SpawnOk(t)  PROVE StaysBroken
  BY <1>4 DEF SpawnOk, Goto, Started
<1>5. ASSUME NEW t \in Tasks, SpawnFails(t)  PROVE StaysBroken
  BY <1>5 DEF SpawnFails, Goto, DropReceiver
<1>6. ASSUME NEW t \in Tasks, SpawnSetBroken(t)  PROVE StaysBroken
  BY <1>6 DEF SpawnSetBroken, Goto
<1>7. ASSUME NEW t \in Tasks, SpawnNotify(t)  PROVE StaysBroken
  BY <1>7 DEF SpawnNotify, WakeAll
<1>8. ASSUME NEW c \in Calls, SendRequest(c)  PROVE StaysBroken
  BY <1>8 DEF SendRequest, Goto
<1>9. ASSUME NEW c \in Calls, SendFails(c)  PROVE StaysBroken
  BY <1>9 DEF SendFails, Return, Goto
<1>10. ASSUME NEW c \in Calls, ReceiveReply(c)  PROVE StaysBroken
  BY <1>10 DEF ReceiveReply, Return, Goto
<1>11. ASSUME NEW c \in Calls, Cancel(c)  PROVE StaysBroken
  BY <1>11 DEF Cancel, Return, Goto
<1>12. ASSUME NEW w \in Waiters, EnsureReturns(w)  PROVE StaysBroken
  BY <1>12 DEF EnsureReturns, Return, Goto
<1>13. ASSUME NEW w \in Waiters, EnsureSleeps(w)  PROVE StaysBroken
  BY <1>13 DEF EnsureSleeps, Goto
<1>14. CASE CompileOk
  BY <1>14 DEF CompileOk
<1>15. CASE CorpusFails
  BY <1>15 DEF CorpusFails
<1>16. CASE BuiltNotify
  BY <1>16 DEF BuiltNotify, WakeAll
<1>17. CASE CompilePanics
  BY <1>17 DEF CompilePanics, DropReceiver
<1>18. CASE ReceiveRequest
  BY <1>18 DEF ReceiveRequest, SenderAlive
<1>19. CASE ReplyRequest
  BY <1>19 DEF ReplyRequest
<1>20. CASE MatchPanics
  BY <1>20 DEF MatchPanics, DropReceiver
<1>21. CASE ReportPanic
  BY <1>21 DEF ReportPanic
<1>22. CASE PanicNotify
  BY <1>22 DEF PanicNotify, WakeAll
<1>23. CASE ReleaseState
  BY <1>23 DEF ReleaseState
<1>24. CASE UNCHANGED vars
  BY <1>24 DEF vars
<1>. QED
  BY <1>1, <1>2, <1>3, <1>4, <1>5, <1>6, <1>7, <1>8, <1>9, <1>10, <1>11, <1>12,
     <1>13, <1>14, <1>15, <1>16, <1>17, <1>18, <1>19, <1>20, <1>21, <1>22, <1>23, <1>24
     DEF Next, StartEngine, FinishSpawn, CallStep, EnsureStep, ThreadStep, Build

\* Broken is for ever: nothing revives the engine or answers a call after it.
THEOREM BrokenStaysBroken == Spec => BrokenIsFinal
BY EngineInvariant, BrokenStep, PTL DEF BrokenIsFinal, StaysBroken, Spec

-----------------------------------------------------------------------------
(* The refinement.                                                         *)

\* What the mapping needs beyond EngineInv: only a call that is done has a
\* result, one that waits has sent, and only an engine that was started has
\* tasks behind start_engine.
CallsInv ==
  /\ \A c \in Calls : pc[c] # "done" => result[c] = "pending"
  /\ \A c \in Calls : pc[c] = "await" => reply[c] # "none"
  /\ \A t \in Tasks : pc[t] # "idle" => engineState # "Idle"

MapInv == EngineInv /\ CallsInv

\* Every step keeps CallsInv.
LEMMA CallsStep == MapInv /\ [Next]_vars => CallsInv'
<1> SUFFICES ASSUME MapInv, [Next]_vars  PROVE CallsInv'
  OBVIOUS
<1> USE TasksAssumption
    DEF MapInv, CallsInv, EngineInv, TypeOK, Tasks, EngineStates, TaskStates, threadVars,
        Goto, Return, Started, WakeAll, DropReceiver
<1>1. ASSUME NEW t \in Tasks, StartEngine(t)  PROVE CallsInv'
  BY <1>1 DEF StartEngine, StartIdle, StartRunning, StartBroken
<1>2. ASSUME NEW t \in Tasks, FinishSpawn(t)  PROVE CallsInv'
  <2>1. CASE SpawnOk(t)
    BY <2>1 DEF SpawnOk
  <2>2. CASE SpawnFails(t)
    BY <2>2 DEF SpawnFails
  <2>3. CASE SpawnSetBroken(t)
    BY <2>3 DEF SpawnSetBroken
  <2>4. CASE SpawnNotify(t)
    BY <2>4 DEF SpawnNotify
  <2> QED
    BY <1>2, <2>1, <2>2, <2>3, <2>4 DEF FinishSpawn
<1>3. ASSUME NEW c \in Calls, CallStep(c) \/ Cancel(c)  PROVE CallsInv'
  BY <1>3 DEF CallStep, SendRequest, SendFails, ReceiveReply, Cancel
<1>4. ASSUME NEW w \in Waiters, EnsureStep(w)  PROVE CallsInv'
  BY <1>4 DEF EnsureStep, EnsureReturns, EnsureSleeps
<1>5. CASE Build
  BY <1>5 DEF Build, CompileOk, CorpusFails, CompilePanics
<1>6. CASE BuiltNotify
  BY <1>6 DEF BuiltNotify
<1>7. CASE ReceiveRequest
  BY <1>7 DEF ReceiveRequest
<1>8. CASE ReplyRequest
  BY <1>8 DEF ReplyRequest
<1>9. CASE MatchPanics
  BY <1>9 DEF MatchPanics
<1>10. CASE ReportPanic \/ PanicNotify
  BY <1>10 DEF ReportPanic, PanicNotify
<1>11. CASE ReleaseState \/ UNCHANGED vars
  BY <1>11 DEF ReleaseState, vars
<1> QED
  BY <1>1, <1>2, <1>3, <1>4, <1>5, <1>6, <1>7, <1>8, <1>9, <1>10, <1>11
     DEF Next, ThreadStep

\* The invariant under which steps are mapped.
THEOREM MappingInvariant == Spec => []MapInv
<1>1. Init => CallsInv
  BY DEF Init, CallsInv, Tasks
<1> QED
  BY <1>1, EngineInvariant, CallsStep, PTL DEF Spec, MapInv

-----------------------------------------------------------------------------
(* The mapping.                                                            *)

\* A call is pending exactly when its oneshot is open.
LEMMA PendingCalls ==
  ASSUME MapInv
  PROVE  /\ Inbox \in Seq(Calls)
         /\ \A c \in Calls : c \in Service!Pending <=> reply[c] = "pending"
<1> USE TasksAssumption DEF MapInv, EngineInv, TypeOK, Tasks, NoOrphanReply, Queued
<1>1. CASE current = NoCall
  BY <1>1 DEF Inbox, Service!Pending
<1>2. CASE current # NoCall
  <2>1. <<current>> \in Seq(Calls) /\ queue \in Seq(Calls) /\ Inbox = <<current>> \o queue
    BY <1>2 DEF Inbox
  <2>2. /\ Inbox \in Seq(Calls) /\ Len(Inbox) = Len(queue) + 1
        /\ Inbox[1] = current
        /\ \A i \in 1 .. Len(queue) : Inbox[i + 1] = queue[i]
    BY <2>1
  <2>3. \A c : c \in Service!Pending <=> c = current \/ c \in Queued
    <3>1. /\ Len(queue) \in Nat /\ DOMAIN queue = 1 .. Len(queue)
          /\ DOMAIN Inbox = 1 .. Len(queue) + 1
      BY <2>1, <2>2
    <3>2. ASSUME NEW i \in DOMAIN Inbox, i # 1
          PROVE  i - 1 \in 1 .. Len(queue) /\ Inbox[i] = queue[i - 1]
      <4>1. i - 1 \in 1 .. Len(queue) /\ (i - 1) + 1 = i
        BY <3>1, <3>2
      <4> QED
        BY <2>2, <4>1
    <3>3. ASSUME NEW i \in DOMAIN queue
          PROVE  i + 1 \in DOMAIN Inbox /\ Inbox[i + 1] = queue[i]
      BY <2>2, <3>1, <3>3
    <3>4. 1 \in DOMAIN Inbox
      BY <3>1
    <3>5. ASSUME NEW c \in Service!Pending  PROVE c = current \/ c \in Queued
      <4>1. PICK i \in DOMAIN Inbox : c = Inbox[i]
        BY <3>5 DEF Service!Pending
      <4> QED
        BY <2>2, <3>1, <3>2, <4>1
    <3>6. ASSUME NEW c \in Queued  PROVE c \in Service!Pending
      <4>1. PICK i \in DOMAIN queue : c = queue[i]
        BY <3>6
      <4> QED
        BY <3>3, <4>1 DEF Service!Pending
    <3>7. current \in Service!Pending
      BY <2>2, <3>4 DEF Service!Pending
    <3> QED
      BY <3>5, <3>6, <3>7
  <2> QED
    BY <1>2, <2>2, <2>3
<1> QED
  BY <1>1, <1>2

\* Steps that change nothing a caller can see.
LEMMA StutterStep ==
  ASSUME UNCHANGED <<queue, current, reply>>, Available' = Available,
         \A c \in Calls : reply[c] = "none" => (result'[c] = "none" <=> result[c] = "none")
  PROVE  UNCHANGED Service!vars
<1>1. Inbox' = Inbox
  BY DEF Inbox
<1>2. Outcome' = Outcome
  BY DEF Outcome
<1> QED
  BY <1>1, <1>2 DEF Service!vars

\* A call that has no oneshot is told that there is no engine.
LEMMA RefuseStep ==
  ASSUME MapInv, NEW c \in Calls, ~Available, pc[c] # "done", reply[c] = "none",
         result' = [result EXCEPT ![c] = "none"],
         UNCHANGED <<engineState, channel, queue, current, reply>>
  PROVE  Service!Refuse(c)
<1>1. /\ Available' = Available /\ Inbox' = Inbox
  BY DEF Available, Inbox
<1>2. Outcome[c] = "open" /\ c \notin Service!Pending
  BY PendingCalls DEF Outcome, MapInv, CallsInv
<1>3. Outcome' = [Outcome EXCEPT ![c] = "none"]
  BY DEF Outcome, MapInv, EngineInv, TypeOK, Tasks
<1> QED
  BY <1>1, <1>2, <1>3 DEF Service!Refuse

\* The receiver goes away with every oneshot that is open.
LEMMA CollapseStep ==
  ASSUME MapInv, Available, NEW lost, lost = {current} \ {NoCall}, DropReceiver(lost),
         current' = NoCall, UNCHANGED <<result, engineState>>
  PROVE  Service!Collapse
<1> USE TasksAssumption
<1>1. \A c \in Calls : reply[c] = "pending" <=> c \in Queued \cup lost
  BY DEF MapInv, EngineInv, NoOrphanReply
<1>2. ~Available' /\ Inbox' = <<>>
  BY DEF Available, Inbox, DropReceiver
<1>3. Outcome' = [c \in Calls |-> IF c \in Service!Pending THEN "none" ELSE Outcome[c]]
  <2>1. \A c \in Calls : Outcome'[c] = IF reply[c] = "pending" THEN "none" ELSE Outcome[c]
    BY <1>1 DEF Outcome, DropReceiver
  <2>2. Outcome' = [c \in Calls |-> Outcome'[c]]
    BY DEF Outcome
  <2> QED
    BY <2>1, <2>2, PendingCalls
<1> QED
  BY <1>2, <1>3 DEF Service!Collapse

-----------------------------------------------------------------------------
(* Steps.                                                                  *)

\* start_engine refuses the call, or nobody outside sees it.
LEMMA StartMaps ==
  ASSUME MapInv, NEW t \in Tasks, StartEngine(t)
  PROVE  Service!Next \/ UNCHANGED Service!vars
<1>1. CASE StartIdle(t) \/ StartRunning(t)
  <2>1. UNCHANGED <<queue, current, reply, result>> /\ Available' = Available
    BY <1>1 DEF StartIdle, StartRunning, threadVars, Available, MapInv, EngineInv, Lifecycle
  <2> QED
    BY <2>1, StutterStep
<1>2. CASE StartBroken(t)
  <2>1. /\ UNCHANGED <<engineState, channel, queue, current, reply>>
        /\ result' = [result EXCEPT ![t] = "none"]
        /\ ~Available /\ Available' = Available /\ pc[t] = "idle"
    BY <1>2 DEF StartBroken, Return, threadVars, Available
  <2>2. CASE t \in Calls
    <3>1. reply[t] = "none"
      BY <2>1, <2>2 DEF MapInv, EngineInv, Truthful, NotYetSent
    <3> QED
      BY <2>1, <2>2, <3>1, RefuseStep DEF Service!Next
  <2>3. CASE t \notin Calls
    BY <2>1, <2>3, StutterStep DEF MapInv, EngineInv, TypeOK, Tasks
  <2> QED
    BY <2>2, <2>3
<1> QED
  BY <1>1, <1>2 DEF StartEngine

\* A spawn that fails collapses the service and refuses the spawning call.
LEMMA SpawnMaps ==
  ASSUME MapInv, NEW t \in Tasks, FinishSpawn(t)
  PROVE  Service!Next \/ UNCHANGED Service!vars
<1> USE DEF threadVars
<1>1. CASE SpawnOk(t)
  <2>1. UNCHANGED <<queue, current, reply, result>> /\ Available' = Available
    BY <1>1 DEF SpawnOk, Available
  <2> QED
    BY <2>1, StutterStep
<1>2. CASE SpawnFails(t)
  <2>1. Available /\ current = NoCall
    BY <1>2 DEF SpawnFails, Available, MapInv, EngineInv, Lifecycle, Spawning, TypeOK
  <2>2. Service!Collapse
    BY <1>2, <2>1, CollapseStep DEF SpawnFails
  <2> QED
    BY <2>2 DEF Service!Next
<1>3. CASE SpawnSetBroken(t)
  <2>1. UNCHANGED <<queue, current, reply, result>> /\ Available' = Available
    BY <1>3 DEF SpawnSetBroken, Available, MapInv, EngineInv, Lifecycle, Spawning
  <2> QED
    BY <2>1, StutterStep
<1>4. CASE SpawnNotify(t)
  <2>1. /\ UNCHANGED <<engineState, channel, queue, current, reply>>
        /\ result' = [result EXCEPT ![t] = "none"]
        /\ Available' = Available /\ pc[t] = "failNotify"
    BY <1>4 DEF SpawnNotify, Available
  <2>2. ~Available
    BY <2>1 DEF Available, MapInv, EngineInv, Lifecycle
  <2>3. CASE t \in Calls
    <3>1. reply[t] = "none"
      BY <2>1, <2>3 DEF MapInv, EngineInv, Truthful, NotYetSent
    <3> QED
      BY <2>1, <2>2, <2>3, <3>1, RefuseStep DEF Service!Next
  <2>4. CASE t \notin Calls
    BY <2>1, <2>4, StutterStep DEF MapInv, EngineInv, TypeOK, Tasks
  <2> QED
    BY <2>3, <2>4
<1> QED
  BY <1>1, <1>2, <1>3, <1>4 DEF FinishSpawn

\* A call joins the inbox, is refused, or takes what was decided long ago.
LEMMA CallMaps ==
  ASSUME MapInv, NEW c \in Calls, CallStep(c) \/ Cancel(c)
  PROVE  Service!Next \/ UNCHANGED Service!vars
<1> USE DEF threadVars
<1>1. CASE SendRequest(c)
  <2>1. /\ UNCHANGED <<engineState, channel, current, result>>
        /\ queue' = Append(queue, c) /\ pc[c] = "send"
        /\ reply' = [reply EXCEPT ![c] = "pending"]
    BY <1>1 DEF SendRequest
  <2>2. reply[c] = "none" /\ result[c] = "pending"
    BY <2>1 DEF MapInv, EngineInv, Truthful, NotYetSent, CallsInv
  <2>3. Outcome[c] = "open" /\ c \notin Service!Pending
    BY <2>2, PendingCalls DEF Outcome
  <2>4. Outcome' = Outcome
    BY <2>1, <2>2 DEF Outcome, MapInv, EngineInv, TypeOK
  <2>5. Inbox' = Append(Inbox, c)
    <3>1. queue \in Seq(Calls) /\ current \in Calls \cup {NoCall}
      BY DEF MapInv, EngineInv, TypeOK
    <3>2. CASE current = NoCall
      BY <2>1, <3>2 DEF Inbox
    <3>3. CASE current # NoCall
      <4>1. <<current>> \o Append(queue, c) = Append(<<current>> \o queue, c)
        BY <3>1, <3>3
      <4> QED
        BY <2>1, <3>3, <4>1 DEF Inbox
    <3> QED
      BY <3>2, <3>3
  <2>6. Available' = Available
    BY <2>1 DEF Available
  <2>7. Service!Accept(c)
    BY <2>3, <2>4, <2>5, <2>6 DEF Service!Accept
  <2> QED
    BY <2>7 DEF Service!Next
<1>2. CASE SendFails(c)
  <2>1. /\ UNCHANGED <<engineState, channel, queue, current, reply>>
        /\ result' = [result EXCEPT ![c] = "none"]
        /\ pc[c] = "send" /\ channel # "open"
    BY <1>2 DEF SendFails, Return
  <2>2. ~Available
    BY <2>1 DEF Available, MapInv, EngineInv, Lifecycle, TypeOK, CallsInv, Tasks
  <2>3. reply[c] = "none"
    BY <2>1 DEF MapInv, EngineInv, Truthful, NotYetSent
  <2> QED
    BY <2>1, <2>2, <2>3, RefuseStep DEF Service!Next
<1>3. CASE ReceiveReply(c) \/ Cancel(c)
  <2>1. /\ UNCHANGED <<engineState, channel, queue, current, reply>> /\ Available' = Available
        /\ \E r : result' = [result EXCEPT ![c] = r]
        /\ pc[c] = "await"
    BY <1>3 DEF ReceiveReply, Cancel, Return, Available
  <2>2. reply[c] # "none"
    BY <2>1 DEF MapInv, CallsInv
  <2> QED
    BY <2>1, <2>2, StutterStep DEF MapInv, EngineInv, TypeOK, Tasks
<1> QED
  BY <1>1, <1>2, <1>3 DEF CallStep

\* Waiters are no callers.
LEMMA WaiterMaps ==
  ASSUME MapInv, NEW w \in Waiters, EnsureStep(w)
  PROVE  UNCHANGED Service!vars
<1>1. /\ UNCHANGED <<engineState, channel, queue, current, reply>> /\ Available' = Available
      /\ result' = result \/ \E r : result' = [result EXCEPT ![w] = r]
  BY DEF EnsureStep, EnsureReturns, EnsureSleeps, Return, threadVars, Available
<1> QED
  BY <1>1, StutterStep, TasksAssumption DEF MapInv, EngineInv, TypeOK, Tasks

\* The thread answers or declines the oldest call, fails, or dies.
LEMMA ThreadMaps ==
  ASSUME MapInv, ThreadStep
  PROVE  Service!Next \/ UNCHANGED Service!vars
<1> USE TasksAssumption DEF threadVars
<1>1. CASE CompileOk
  <2>1. UNCHANGED <<queue, current, reply, result>> /\ Available' = Available
    BY <1>1 DEF CompileOk, Available, MapInv, EngineInv, Lifecycle
  <2> QED
    BY <2>1, StutterStep
<1>2. CASE CorpusFails
  <2>1. /\ Available /\ ~Available'
        /\ Inbox' = Inbox /\ Outcome' = Outcome
    BY <1>2 DEF CorpusFails, Available, Inbox, Outcome, MapInv, EngineInv, Lifecycle
  <2> QED
    BY <2>1 DEF Service!Next, Service!Fail
<1>3. CASE CompilePanics
  <2>1. Available /\ current = NoCall
    BY <1>3 DEF CompilePanics, Available, MapInv, EngineInv, Lifecycle, TypeOK
  <2>2. Service!Collapse
    BY <1>3, <2>1, CollapseStep DEF CompilePanics
  <2> QED
    BY <2>2 DEF Service!Next
<1>4. CASE BuiltNotify
  <2>1. UNCHANGED <<queue, current, reply, result>> /\ Available' = Available
    BY <1>4 DEF BuiltNotify, Available
  <2> QED
    BY <2>1, StutterStep
<1>5. CASE ReceiveRequest
  <2>1. thread = "serving" /\ current = NoCall /\ queue \in Seq(Calls) /\ queue # <<>>
    BY <1>5 DEF ReceiveRequest, SenderAlive, MapInv, EngineInv, TypeOK
  <2>2. /\ UNCHANGED <<engineState, channel, reply, result>>
        /\ current' = Head(queue) /\ queue' = Tail(queue)
    BY <1>5, <2>1 DEF ReceiveRequest
  <2>3. <<Head(queue)>> \o Tail(queue) = queue /\ Head(queue) \in Calls
    BY <2>1
  <2>4. Inbox' = Inbox
    BY <2>1, <2>2, <2>3 DEF Inbox
  <2>5. Outcome' = Outcome /\ Available' = Available
    BY <2>2 DEF Outcome, Available
  <2> QED
    BY <2>4, <2>5 DEF Service!vars
<1>6. CASE ReplyRequest
  <2>1. /\ current \in Calls /\ current # NoCall /\ queue \in Seq(Calls)
        /\ current' = NoCall /\ UNCHANGED <<engineState, channel, queue, result>>
        /\ reply' = [reply EXCEPT ![current] = IF registry THEN "answer" ELSE "unavailable"]
    BY <1>6 DEF ReplyRequest, MapInv, EngineInv, TypeOK
  <2>2. /\ Available' = Available
        /\ Available <=> registry
    BY <1>6, <2>1 DEF ReplyRequest, Available, MapInv, EngineInv, Lifecycle
  <2>3. /\ Inbox = <<current>> \o queue /\ Inbox' = queue
    BY <2>1 DEF Inbox
  <2>4. Inbox # <<>> /\ Head(Inbox) = current /\ Tail(Inbox) = queue
    BY <2>1, <2>3
  <2>5. Outcome' = [Outcome EXCEPT ![current] = IF registry THEN "answer" ELSE "none"]
    <3>1. \A c \in Calls : Outcome'[c] =
            IF c = current THEN IF registry THEN "answer" ELSE "none" ELSE Outcome[c]
      BY <2>1 DEF Outcome, MapInv, EngineInv, TypeOK
    <3>2. /\ Outcome' = [c \in Calls |-> Outcome'[c]]
          /\ DOMAIN Outcome = Calls
      BY DEF Outcome
    <3> QED
      BY <2>1, <3>1, <3>2
  <2>6. CASE registry
    BY <2>2, <2>3, <2>4, <2>5, <2>6 DEF Service!Next, Service!Answer
  <2>7. CASE ~registry
    BY <2>2, <2>3, <2>4, <2>5, <2>7 DEF Service!Next, Service!Decline
  <2> QED
    BY <2>6, <2>7
<1>7. CASE MatchPanics
  <2>1. Available /\ current # NoCall
    BY <1>7 DEF MatchPanics, Available, MapInv, EngineInv, Lifecycle, TypeOK
  <2>2. Service!Collapse
    BY <1>7, <2>1, CollapseStep DEF MatchPanics
  <2> QED
    BY <2>2 DEF Service!Next
<1>8. CASE ReportPanic
  <2>1. UNCHANGED <<queue, current, reply, result>> /\ Available' = Available
    BY <1>8 DEF ReportPanic, Available, MapInv, EngineInv, Lifecycle
  <2> QED
    BY <2>1, StutterStep
<1>9. CASE PanicNotify
  <2>1. UNCHANGED <<queue, current, reply, result>> /\ Available' = Available
    BY <1>9 DEF PanicNotify, Available
  <2> QED
    BY <2>1, StutterStep
<1> QED
  BY <1>1, <1>2, <1>3, <1>4, <1>5, <1>6, <1>7, <1>8, <1>9 DEF ThreadStep, Build

-----------------------------------------------------------------------------
\* Callers cannot tell the engine from the service: accepted calls are
\* answered in the order in which they arrived, each once, and with None
\* for ever after the engine has failed.
THEOREM EngineImplementsService == Spec => ImplementsService
<1>1. Init => Service!Init
  BY DEF Init, Service!Init, Available, Inbox, Outcome, Tasks
<1>2. MapInv /\ [Next]_vars => [Service!Next]_(Service!vars)
  <2> SUFFICES ASSUME MapInv, [Next]_vars
               PROVE  Service!Next \/ UNCHANGED Service!vars
    OBVIOUS
  <2>1. CASE ReleaseState \/ UNCHANGED vars
    <3>1. UNCHANGED <<queue, current, reply, result>> /\ Available' = Available
      BY <2>1 DEF ReleaseState, vars, threadVars, Available
    <3> QED
      BY <3>1, StutterStep
  <2> QED
    BY <2>1, StartMaps, SpawnMaps, CallMaps, WaiterMaps, ThreadMaps DEF Next
<1> QED
  BY <1>1, <1>2, MappingInvariant, PTL DEF Spec, ImplementsService, Service!Spec
=============================================================================
