---------------------------- MODULE ServerProofs ----------------------------
(***************************************************************************)
(* What TLAPS proves of Server, for every finite set of documents, every   *)
(* length of a session and every number of handlers in flight.  The        *)
(* theorems about the order of edits assume that no didChange carries two. *)
(***************************************************************************)
EXTENDS Server, SequenceLemmas, FiniteSetTheorems

\* What a handler holds over its await is one version, and so is what it has
\* published; a background task holds its versions elsewhere.
VersionInv ==
  /\ DOMAIN held = Calls
  /\ \A n \in Numbers : held[MsgCall(n)].text = held[MsgCall(n)].ast
  /\ DOMAIN shown = Docs
  /\ HandlerPublishesOneVersion

\* What is kept for a handler is its own.
LEMMA CallsDiffer ==
  /\ \A n \in Numbers : MsgCall(n) \in Calls
  /\ \A m, n \in Numbers : MsgCall(m) = MsgCall(n) => m = n
  /\ \A n \in Numbers, b \in Background : \A u : MsgCall(n) # BgCall(b, u)
BY DEF Calls, MsgCall, BgCall, Background

\* A handler publishes what it holds, or answers a hover.
LEMMA FinishStep ==
  ASSUME VersionInv, NEW n \in Numbers, NEW store, NEW versions, NEW lines,
         versions.text = versions.ast, Finish(n, store, versions, lines)
  PROVE  DOMAIN shown' = Docs /\ HandlerPublishesOneVersion'
BY DEF VersionInv, HandlerPublishesOneVersion, Finish, Publish

\* A poll of a handler.
LEMMA PollStep == ASSUME VersionInv, Poll  PROVE VersionInv'
<1>1. PICK n \in Numbers :
        HandleWithoutEngine(n) \/ HandleUntilAwait(n) \/ HandleRefused(n) \/ HandleReply(n)
  BY DEF Poll
<1>2. CASE HandleWithoutEngine(n)
  BY <1>2 DEF HandleWithoutEngine, VersionInv, HandlerPublishesOneVersion
<1>3. CASE HandleUntilAwait(n)
  <2>1. \E t : held' = [held EXCEPT ![MsgCall(n)] = [text |-> t, ast |-> t]]
    BY <1>3 DEF HandleUntilAwait
  <2>2. shown' = shown
    BY <1>3 DEF HandleUntilAwait
  <2> QED
    BY <2>1, <2>2, CallsDiffer DEF VersionInv, HandlerPublishesOneVersion
<1>4. CASE HandleRefused(n)
  <2> DEFINE t == Stored(n)[log[n].uri]
             versions == [text |-> t, ast |-> t]
  <2>1. held' = held /\ Finish(n, Stored(n), versions, FALSE)
    BY <1>4 DEF HandleRefused
  <2>2. versions.text = versions.ast
    OBVIOUS
  <2> HIDE DEF versions
  <2>3. DOMAIN shown' = Docs /\ HandlerPublishesOneVersion'
    BY <2>1, <2>2, FinishStep
  <2> QED
    BY <2>1, <2>3 DEF VersionInv
<1>5. CASE HandleReply(n)
  <2>1. /\ Finish(n, docs, held[MsgCall(n)], outcome[MsgCall(n)] = "answer")
        /\ held' = [held EXCEPT ![MsgCall(n)] = NoVersions]
    BY <1>5 DEF HandleReply
  <2>2. DOMAIN shown' = Docs /\ HandlerPublishesOneVersion'
    BY <2>1, FinishStep DEF VersionInv
  <2> QED
    BY <2>1, <2>2, CallsDiffer DEF VersionInv, NoVersions
<1> QED
  BY <1>1, <1>2, <1>3, <1>4, <1>5

\* A round of a background task.
LEMMA BackgroundStep ==
  ASSUME VersionInv, NEW b \in Background, BgStep(b)
  PROVE  VersionInv'
<1> DEFINE u == Head(todo[b])
<1>1. CASE BgRead(b) \/ BgCallEngine(b)
  <2>1. /\ shown' = shown
        /\ held' = held \/ \E v : held' = [held EXCEPT ![BgCall(b, u)] = v]
    BY <1>1 DEF BgRead, BgCallEngine
  <2> HIDE DEF u
  <2> QED
    BY <2>1, CallsDiffer DEF VersionInv, HandlerPublishesOneVersion
<1>2. CASE BgEnd(b)
  BY <1>2 DEF BgEnd, VersionInv, HandlerPublishesOneVersion
<1>3. CASE BgPublish(b)
  <2>1. /\ Publish(u, held[BgCall(b, u)], outcome[BgCall(b, u)] = "answer", b)
        /\ held' = [held EXCEPT ![BgCall(b, u)] = NoVersions]
    BY <1>3 DEF BgPublish
  <2> HIDE DEF u
  <2>2. DOMAIN shown' = Docs /\ HandlerPublishesOneVersion'
    BY <2>1 DEF Publish, VersionInv, HandlerPublishesOneVersion, Background
  <2> QED
    BY <2>1, <2>2, CallsDiffer DEF VersionInv
<1> QED
  BY <1>1, <1>2, <1>3 DEF BgStep

\* The invariant holds of every session.
THEOREM VersionInvariant == Spec => []VersionInv
<1>1. Init => VersionInv
  BY CallsDiffer DEF Init, VersionInv, HandlerPublishesOneVersion, NoVersions, NotShown
<1>2. VersionInv /\ [Next]_vars => VersionInv'
  <2> SUFFICES ASSUME VersionInv, [Next]_vars  PROVE VersionInv'
    OBVIOUS
  <2>1. CASE held' = held /\ shown' = shown
    BY <2>1 DEF VersionInv, HandlerPublishesOneVersion
  <2>2. CASE Admit \/ EngineBuild \/ EngineServe \/ EngineDies \/ BgBegin \/ IndexInstalled
               \/ UNCHANGED vars
    BY <2>1, <2>2
       DEF Admit, EngineBuild, EngineBuilt, EngineCorpusFails, EngineServe, EngineAnswers,
           EngineDeclines, EngineDies, EngineRest, BgBegin, BuildTaskReady, BuildTaskStarts,
           BuildTaskStops, IndexTaskStarts, IndexTaskStops, IndexInstalled, vars
  <2> QED
    BY <2>2, PollStep, BackgroundStep DEF Next
<1> QED
  BY <1>1, <1>2, PTL DEF Spec

\* In every session, however many handlers overlap and whatever becomes of the
\* engine, a handler's diagnostics are of one version of the document.
THEOREM OneVersionIsPublished == Spec => []HandlerPublishesOneVersion
BY VersionInvariant, PTL DEF VersionInv

-----------------------------------------------------------------------------
(* Whom the engine wakes.                                                  *)

\* The handlers among calls, in the order in which they are woken.
Woken(c) == IF IsHandler(c) THEN <<c[2]>> ELSE <<>>
Handlers(calls) == FlattenSeq([i \in DOMAIN calls |-> Woken(calls[i])])

\* Handlers wait for the engine in the order of their messages.
Ascending(calls) ==
  \A i, j \in 1..Len(calls), m, n \in Numbers :
    i < j /\ calls[i] = MsgCall(m) /\ calls[j] = MsgCall(n) => m < n

Lists(h, calls) ==
  /\ h \in Seq(Numbers)
  /\ \A i \in 1..Len(h) : \E j \in 1..Len(calls) : calls[j] = MsgCall(h[i])
  /\ \A j \in 1..Len(calls), n \in Numbers :
       calls[j] = MsgCall(n) => \E i \in 1..Len(h) : h[i] = n
  /\ \A i, j \in 1..Len(h) : i < j => h[i] < h[j]

LEMMA WokenType ==
  ASSUME NEW c \in Calls
  PROVE  /\ Woken(c) \in Seq(Numbers)
         /\ \/ Woken(c) = <<>> /\ \A n \in Numbers : c # MsgCall(n)
            \/ \E n \in Numbers : c = MsgCall(n) /\ Woken(c) = <<n>>
<1>1. CASE \E n \in Numbers : c = MsgCall(n)
  <2>1. PICK n \in Numbers : c = MsgCall(n)
    BY <1>1
  <2>2. Woken(c) = <<n>>
    BY <2>1 DEF Woken, IsHandler, MsgCall
  <2> QED
    BY <2>1, <2>2
<1>2. CASE ~ \E n \in Numbers : c = MsgCall(n)
  <2>1. c \in Background \X Docs
    BY <1>2 DEF Calls
  <2>2. ~IsHandler(c)
    BY <2>1 DEF IsHandler, Background
  <2> QED
    BY <1>2, <2>2 DEF Woken
<1> QED
  BY <1>1, <1>2

LEMMA HandlersAppend ==
  ASSUME NEW calls \in Seq(Calls), NEW c \in Calls
  PROVE  Handlers(Append(calls, c)) = Handlers(calls) \o Woken(c)
<1> DEFINE w(s) == [i \in DOMAIN s |-> Woken(s[i])]
           next == Append(calls, c)
           T == Seq(Numbers)
<1>1. /\ Len(calls) \in Nat /\ DOMAIN calls = 1..Len(calls)
      /\ \A i \in 1..Len(calls) : calls[i] \in Calls
  BY LenProperties, ElementOfSeq
<1>2. /\ Len(next) = Len(calls) + 1 /\ DOMAIN next = 1..(Len(calls) + 1)
      /\ \A i \in 1..Len(calls) : next[i] = calls[i]
      /\ next[Len(calls) + 1] = c
  <2>1. next \in Seq(Calls)
    BY AppendProperties
  <2> QED
    BY <1>1, <2>1, AppendProperties, LenProperties
<1> HIDE DEF next
<1>3. w(calls) \in Seq(T) /\ Len(w(calls)) = Len(calls)
  BY <1>1, WokenType
<1>4. w(next) = Append(w(calls), Woken(c))
  <2> DEFINE a == w(calls)
             x == Woken(c)
  <2>1. x \in T
    BY WokenType
  <2>2. a \in Seq(T) /\ Len(a) = Len(calls) /\ \A i \in 1..Len(calls) : a[i] = Woken(calls[i])
    BY <1>1, <1>3
  <2> HIDE DEF a, x, T
  <2>3. /\ Append(a, x) \in Seq(T) /\ Len(Append(a, x)) = Len(calls) + 1
        /\ \A i \in 1..Len(calls) : Append(a, x)[i] = a[i]
        /\ Append(a, x)[Len(calls) + 1] = x
    BY <2>1, <2>2, AppendProperties
  <2>4. DOMAIN Append(a, x) = 1..(Len(calls) + 1) /\ Append(a, x) = [i \in DOMAIN Append(a, x) |-> Append(a, x)[i]]
    BY <2>3, LenProperties
  <2>5. \A i \in 1..(Len(calls) + 1) : Append(a, x)[i] = Woken(next[i])
    <3> SUFFICES ASSUME NEW i \in 1..(Len(calls) + 1)  PROVE Append(a, x)[i] = Woken(next[i])
      OBVIOUS
    <3>1. CASE i = Len(calls) + 1
      BY <1>2, <2>3, <3>1 DEF x
    <3>2. CASE i # Len(calls) + 1
      <4>1. i \in 1..Len(calls)
        BY <1>1, <3>2
      <4> QED
        BY <1>2, <2>2, <2>3, <4>1
    <3> QED
      BY <3>1, <3>2
  <2>6. w(next) = Append(a, x)
    BY <1>2, <2>4, <2>5
  <2> QED
    BY <2>6 DEF a, x
<1>5. Handlers(next) = FlattenSeq(w(next)) /\ Handlers(calls) = FlattenSeq(w(calls))
  BY DEF Handlers
<1>6. FlattenSeq(Append(w(calls), Woken(c))) = FlattenSeq(w(calls)) \o Woken(c)
  <2> DEFINE a == w(calls)
             x == Woken(c)
  <2>1. a \in Seq(T) /\ x \in T
    BY <1>3, WokenType
  <2> HIDE DEF a, x
  <2>2. FlattenSeq(Append(a, x)) = FlattenSeq(a) \o x
    BY <2>1, FlattenAppend
  <2> QED
    BY <2>2 DEF a, x
<1> HIDE DEF w
<1> QED
  BY <1>4, <1>5, <1>6 DEF next

\* One more call at the end.
LEMMA ListsAppend ==
  ASSUME NEW calls \in Seq(Calls), NEW h, Lists(h, calls), NEW c \in Calls,
         Ascending(Append(calls, c))
  PROVE  Lists(h \o Woken(c), Append(calls, c))
<1> DEFINE next == Append(calls, c)
<1>1. /\ Len(calls) \in Nat /\ Len(next) = Len(calls) + 1
      /\ \A i \in 1..Len(calls) : next[i] = calls[i]
      /\ next[Len(calls) + 1] = c
  BY AppendProperties, LenProperties
<1>2. h \in Seq(Numbers) /\ Len(h) \in Nat /\ \A i \in 1..Len(h) : h[i] \in Numbers
  BY LenProperties, ElementOfSeq DEF Lists
<1> HIDE DEF next
<1>3. CASE Woken(c) = <<>> /\ \A n \in Numbers : c # MsgCall(n)
  <2>1. h \o Woken(c) = h
    BY <1>2, <1>3, ConcatEmptySeq
  <2>2. \A i \in 1..Len(h) : \E j \in 1..Len(next) : next[j] = MsgCall(h[i])
    BY <1>1, <1>2 DEF Lists
  <2>3. \A j \in 1..Len(next), n \in Numbers :
          next[j] = MsgCall(n) => \E i \in 1..Len(h) : h[i] = n
    BY <1>1, <1>3 DEF Lists
  <2> QED
    BY <2>1, <2>2, <2>3 DEF Lists, next
<1>4. ASSUME NEW n \in Numbers, c = MsgCall(n), Woken(c) = <<n>>
      PROVE  Lists(h \o Woken(c), next)
  <2> DEFINE g == Append(h, n)
  <2>1. h \o Woken(c) = g
    BY <1>2, <1>4, AppendIsConcat
  <2>2. /\ g \in Seq(Numbers) /\ Len(g) = Len(h) + 1
        /\ \A i \in 1..Len(h) : g[i] = h[i]
        /\ g[Len(h) + 1] = n
    BY <1>2, AppendProperties
  <2> HIDE DEF g
  <2>3. \A i \in 1..Len(g) : \E j \in 1..Len(next) : next[j] = MsgCall(g[i])
    <3> SUFFICES ASSUME NEW i \in 1..Len(g)  PROVE \E j \in 1..Len(next) : next[j] = MsgCall(g[i])
      OBVIOUS
    <3>1. CASE i = Len(h) + 1
      BY <1>1, <1>4, <2>2, <3>1
    <3>2. CASE i # Len(h) + 1
      <4>1. i \in 1..Len(h)
        BY <1>2, <2>2, <3>2
      <4>2. PICK j \in 1..Len(calls) : calls[j] = MsgCall(h[i])
        BY <4>1 DEF Lists
      <4> QED
        BY <1>1, <2>2, <4>1, <4>2
    <3> QED
      BY <3>1, <3>2
  <2>4. ASSUME NEW j \in 1..Len(next), NEW m \in Numbers, next[j] = MsgCall(m)
        PROVE  \E i \in 1..Len(g) : g[i] = m
    <3>1. CASE j = Len(calls) + 1
      <4>1. m = n
        BY <1>1, <1>4, <2>4, <3>1 DEF MsgCall
      <4> QED
        BY <1>2, <2>2, <4>1
    <3>2. CASE j # Len(calls) + 1
      <4>1. j \in 1..Len(calls) /\ calls[j] = MsgCall(m)
        BY <1>1, <2>4, <3>2
      <4>2. PICK i \in 1..Len(h) : h[i] = m
        BY <4>1 DEF Lists
      <4> QED
        BY <1>2, <2>2, <4>2
    <3> QED
      BY <3>1, <3>2
  <2>5. ASSUME NEW i \in 1..Len(g), NEW j \in 1..Len(g), i < j  PROVE g[i] < g[j]
    <3>1. i \in 1..Len(h)
      BY <1>2, <2>2, <2>5
    <3>2. CASE j = Len(h) + 1
      <4>1. PICK k \in 1..Len(calls) : calls[k] = MsgCall(h[i])
        BY <3>1 DEF Lists
      <4>2. /\ k \in 1..Len(next) /\ Len(calls) + 1 \in 1..Len(next) /\ k < Len(calls) + 1
            /\ next[k] = MsgCall(h[i]) /\ next[Len(calls) + 1] = MsgCall(n)
            /\ h[i] \in Numbers
        BY <1>1, <1>2, <1>4, <3>1, <4>1
      <4>3. h[i] < n
        BY <4>2 DEF Ascending, next
      <4> QED
        BY <2>2, <3>1, <3>2, <4>3
    <3>3. CASE j # Len(h) + 1
      <4>1. j \in 1..Len(h)
        BY <1>2, <2>2, <3>3
      <4> QED
        BY <2>2, <2>5, <3>1, <4>1 DEF Lists
    <3> QED
      BY <3>2, <3>3
  <2> QED
    BY <2>1, <2>2, <2>3, <2>4, <2>5 DEF Lists
<1>5. \/ Woken(c) = <<>> /\ \A n \in Numbers : c # MsgCall(n)
      \/ \E n \in Numbers : c = MsgCall(n) /\ Woken(c) = <<n>>
  BY WokenType
<1> QED
  BY <1>3, <1>4, <1>5 DEF next

LEMMA HandlersAreListed ==
  ASSUME NEW calls \in Seq(Calls), Ascending(calls)
  PROVE  Lists(Handlers(calls), calls)
<1> DEFINE P == {s \in Seq(Calls) : Ascending(s) => Lists(Handlers(s), s)}
<1>1. <<>> \in P
  <2>1. Handlers(<<>>) = <<>>
    <3>1. [i \in DOMAIN <<>> |-> Woken(<<>>[i])] = <<>>
      OBVIOUS
    <3> QED
      BY <3>1, FlattenEmpty DEF Handlers
  <2>2. Lists(<<>>, <<>>)
    BY DEF Lists
  <2> QED
    BY <2>1, <2>2
<1>2. ASSUME NEW s \in Seq(Calls), NEW c \in Calls, s \in P  PROVE Append(s, c) \in P
  <2>1. Append(s, c) \in Seq(Calls)
    BY AppendProperties
  <2> SUFFICES ASSUME Ascending(Append(s, c))
               PROVE  Lists(Handlers(Append(s, c)), Append(s, c))
    BY <2>1
  <2>2. Ascending(s)
    <3>1. /\ Len(s) \in Nat /\ Len(Append(s, c)) = Len(s) + 1
          /\ \A i \in 1..Len(s) : Append(s, c)[i] = s[i]
      BY AppendProperties, LenProperties
    <3> QED
      BY <3>1 DEF Ascending
  <2> QED
    BY <1>2, <2>2, HandlersAppend, ListsAppend
<1>3. Seq(Calls) \subseteq P
  <2> HIDE DEF P
  <2> QED
    BY <1>1, <1>2, SequenceInduction
<1> QED
  BY <1>3

-----------------------------------------------------------------------------
(* The order in which handlers are polled, p of which have been polled.    *)

QueueType(p) ==
  /\ log \in Seq(Messages) /\ Len(log) <= MaxMsgs
  /\ admitted \in 0..Len(log) /\ p \in 0..admitted
  /\ parked \subseteq 1..p
  /\ runq \in Seq(Numbers) /\ inbox \in Seq(Calls)

\* Handlers are first polled in the order of their messages, and woken in it.
QueueOrder(p) ==
  /\ \A i \in 1..Len(runq) : runq[i] \in parked \/ runq[i] \in (p + 1)..admitted
  /\ \A k \in (p + 1)..admitted : \E i \in 1..Len(runq) : runq[i] = k
  /\ \A i, j \in 1..Len(runq) :
       i < j /\ (runq[i] \in parked <=> runq[j] \in parked) => runq[i] < runq[j]

\* A parked handler waits for its call or has been woken, the older ones first.
Waiting ==
  /\ Ascending(inbox)
  /\ \A j \in 1..Len(inbox), n \in Numbers : inbox[j] = MsgCall(n) =>
       /\ n \in parked
       /\ \A i \in 1..Len(runq) : runq[i] \in parked => runq[i] < n
  /\ \A n \in parked :
       (\E i \in 1..Len(runq) : runq[i] = n) \/ (\E j \in 1..Len(inbox) : inbox[j] = MsgCall(n))

QueueInv(p) == QueueType(p) /\ QueueOrder(p) /\ Waiting

LEMMA QueueNumbers ==
  ASSUME ServerAssumption, NEW p, QueueType(p)
  PROVE  /\ MaxMsgs \in Nat /\ Len(log) \in Nat /\ admitted \in Nat /\ p \in Nat
         /\ p <= admitted /\ admitted <= Len(log) /\ Len(log) <= MaxMsgs
         /\ Len(runq) \in Nat /\ Len(inbox) \in Nat
         /\ \A i \in 1..Len(runq) : runq[i] \in Numbers
         /\ parked \subseteq Numbers
<1>1. Len(log) \in Nat /\ Len(runq) \in Nat /\ Len(inbox) \in Nat
  BY LenProperties DEF QueueType
<1>2. \A i \in 1..Len(runq) : runq[i] \in Numbers
  BY ElementOfSeq DEF QueueType
<1> QED
  BY <1>1, <1>2 DEF QueueType, Numbers, ServerAssumption

\* The head of the queue and what is behind it.
LEMMA QueueHead ==
  ASSUME NEW T, NEW q \in Seq(T), q # <<>>
  PROVE  /\ Head(q) = q[1] /\ Len(q) >= 1
         /\ Tail(q) \in Seq(T) /\ Len(Tail(q)) = Len(q) - 1
         /\ \A i \in 1..(Len(q) - 1) : Tail(q)[i] = q[i + 1]
<1>1. Len(q) \in Nat /\ Len(q) # 0
  BY EmptySeq, LenProperties
<1>2. Tail(q) = SubSeq(q, 2, Len(q))
  BY TailIsSubSeq
<1>3. /\ SubSeq(q, 2, Len(q)) \in Seq(T) /\ Len(SubSeq(q, 2, Len(q))) = Len(q) - 2 + 1
      /\ \A i \in 1..(Len(q) - 2 + 1) : SubSeq(q, 2, Len(q))[i] = q[2 + i - 1]
  <2>1. 2 \in 1..(Len(q) + 1) /\ Len(q) \in (2 - 1)..Len(q)
    BY <1>1
  <2> QED
    BY <2>1, Part
<1> QED
  BY <1>1, <1>2, <1>3

LEMMA AdmitQueue ==
  ASSUME ServerAssumption, NEW p, QueueInv(p), Admit
  PROVE  QueueInv(p)'
<1> DEFINE n == admitted + 1
<1>0. /\ admitted < Len(log) /\ admitted' = n /\ runq' = Append(runq, n)
      /\ UNCHANGED <<log, parked, inbox>>
  BY DEF Admit, engineVars
<1>1. /\ MaxMsgs \in Nat /\ Len(log) \in Nat /\ admitted \in Nat /\ p \in Nat
      /\ p <= admitted /\ admitted <= Len(log) /\ Len(log) <= MaxMsgs
      /\ Len(runq) \in Nat /\ Len(inbox) \in Nat
      /\ \A i \in 1..Len(runq) : runq[i] \in Numbers
  BY QueueNumbers DEF QueueInv
<1>2. n \in Numbers /\ runq \in Seq(Numbers)
  BY <1>0, <1>1 DEF Numbers, QueueInv, QueueType
<1>3. /\ runq' \in Seq(Numbers) /\ Len(runq') = Len(runq) + 1
      /\ \A i \in 1..Len(runq) : runq'[i] = runq[i]
      /\ runq'[Len(runq) + 1] = n
  <2> HIDE DEF n
  <2> QED
    BY <1>0, <1>2, AppendProperties
<1>4. QueueType(p)'
  BY <1>0, <1>1, <1>3 DEF QueueInv, QueueType
<1>5. n \notin parked
  BY <1>1 DEF QueueInv, QueueType
<1>6. ASSUME NEW i \in 1..Len(runq')
      PROVE  \/ i = Len(runq) + 1 /\ runq'[i] = n
             \/ i \in 1..Len(runq) /\ runq'[i] = runq[i]
  BY <1>1, <1>3
<1>7. QueueOrder(p)'
  <2>1. \A i \in 1..Len(runq') : runq'[i] \in parked \/ runq'[i] \in (p + 1)..n
    BY <1>1, <1>3, <1>6 DEF QueueInv, QueueOrder
  <2>2. ASSUME NEW k \in (p + 1)..n  PROVE \E i \in 1..Len(runq') : runq'[i] = k
    <3>1. CASE k = n
      BY <1>1, <1>3, <3>1
    <3>2. CASE k # n
      <4>1. k \in (p + 1)..admitted
        BY <1>1, <3>2
      <4>2. PICK i \in 1..Len(runq) : runq[i] = k
        BY <4>1 DEF QueueInv, QueueOrder
      <4> QED
        BY <1>1, <1>3, <4>2
    <3> QED
      BY <3>1, <3>2
  <2>3. ASSUME NEW i \in 1..Len(runq'), NEW j \in 1..Len(runq'), i < j,
               runq'[i] \in parked <=> runq'[j] \in parked
        PROVE  runq'[i] < runq'[j]
    <3>1. i \in 1..Len(runq) /\ runq'[i] = runq[i]
      BY <1>1, <1>3, <2>3
    <3>2. CASE j = Len(runq) + 1
      <4>1. runq'[j] = n /\ runq[i] \notin parked
        BY <1>3, <1>5, <2>3, <3>1, <3>2
      <4>2. runq[i] \in (p + 1)..admitted
        BY <3>1, <4>1 DEF QueueInv, QueueOrder
      <4> QED
        BY <1>1, <3>1, <4>1, <4>2
    <3>3. CASE j # Len(runq) + 1
      <4>1. j \in 1..Len(runq) /\ runq'[j] = runq[j]
        BY <1>1, <1>3, <3>3
      <4> QED
        BY <2>3, <3>1, <4>1 DEF QueueInv, QueueOrder
    <3> QED
      BY <3>2, <3>3
  <2> QED
    BY <1>0, <2>1, <2>2, <2>3 DEF QueueOrder
<1>8. Waiting'
  <2>1. ASSUME NEW j \in 1..Len(inbox), NEW m \in Numbers, inbox[j] = MsgCall(m)
        PROVE  m \in parked /\ \A i \in 1..Len(runq') : runq'[i] \in parked => runq'[i] < m
    BY <1>5, <1>6, <2>1 DEF QueueInv, Waiting
  <2>2. ASSUME NEW m \in parked
        PROVE  \/ \E i \in 1..Len(runq') : runq'[i] = m
               \/ \E j \in 1..Len(inbox) : inbox[j] = MsgCall(m)
    <3>1. CASE \E i \in 1..Len(runq) : runq[i] = m
      BY <1>1, <1>3, <3>1
    <3> QED
      BY <3>1 DEF QueueInv, Waiting
  <2> QED
    BY <1>0, <2>1, <2>2 DEF QueueInv, Waiting, Ascending
<1> QED
  BY <1>4, <1>7, <1>8 DEF QueueInv

\* The next handler to be polled for the first time is that of the next message.
LEMMA FirstPollIsNext ==
  ASSUME ServerAssumption, NEW p, QueueInv(p), NEW n, FirstPoll(n)
  PROVE  n = p + 1 /\ n \in Numbers /\ p < admitted
<1>1. runq # <<>> /\ Head(runq) = n /\ n \notin parked
  BY DEF FirstPoll
<1>2. Head(runq) = runq[1] /\ Len(runq) >= 1
  BY <1>1, QueueHead DEF QueueInv, QueueType
<1>3. /\ p \in Nat /\ admitted \in Nat /\ Len(runq) \in Nat /\ runq[1] \in Numbers
  BY <1>2, QueueNumbers DEF QueueInv
<1>4. runq[1] = n /\ n \in (p + 1)..admitted
  BY <1>1, <1>2, <1>3 DEF QueueInv, QueueOrder
<1>5. PICK i \in 1..Len(runq) : runq[i] = p + 1
  BY <1>3, <1>4 DEF QueueInv, QueueOrder
<1>6. runq[i] \notin parked
  BY <1>3, <1>5 DEF QueueInv, QueueType
<1>7. i # 1 => runq[1] < runq[i]
  BY <1>1, <1>3, <1>4, <1>6, SMTT(30) DEF QueueInv, QueueOrder
<1> QED
  BY <1>3, <1>4, <1>5, <1>7

\* A handler that is polled for the first time leaves the queue.
LEMMA PolledQueue ==
  ASSUME ServerAssumption, NEW p, QueueInv(p), NEW n, FirstPoll(n), runq' = Tail(runq),
         UNCHANGED <<log, admitted>>, inbox' \in Seq(Calls),
         parked' = parked \/ parked' = parked \cup {n}
  PROVE  QueueType(n)' /\ QueueOrder(n)'
<1>0. n = p + 1 /\ n \in Numbers /\ p < admitted
  BY FirstPollIsNext
<1>1. /\ MaxMsgs \in Nat /\ Len(log) \in Nat /\ admitted \in Nat /\ p \in Nat
      /\ p <= admitted /\ admitted <= Len(log) /\ Len(log) <= MaxMsgs
      /\ Len(runq) \in Nat /\ parked \subseteq 1..p
      /\ \A i \in 1..Len(runq) : runq[i] \in Numbers
  BY QueueNumbers DEF QueueInv, QueueType
<1>2. /\ runq' \in Seq(Numbers) /\ Len(runq') = Len(runq) - 1 /\ runq[1] = n /\ Len(runq) >= 1
      /\ \A i \in 1..(Len(runq) - 1) : runq'[i] = runq[i + 1]
  BY QueueHead DEF FirstPoll, QueueInv, QueueType
<1>3. n \notin parked
  BY DEF FirstPoll
<1>4. \A i \in 1..Len(runq') : i + 1 \in 1..Len(runq) /\ runq'[i] = runq[i + 1] /\ 1 < i + 1
  BY <1>1, <1>2
<1>5. ASSUME NEW i \in 1..Len(runq'), runq'[i] \notin parked
      PROVE  runq'[i] \in (n + 1)..admitted
  <2>1. runq[i + 1] \in (p + 1)..admitted
    BY <1>4, <1>5 DEF QueueInv, QueueOrder
  <2>2. runq[1] < runq[i + 1]
    <3>1. 1 \in 1..Len(runq) /\ i + 1 \in 1..Len(runq) /\ 1 < i + 1
      BY <1>1, <1>2, <1>4
    <3>2. runq[1] \notin parked /\ runq[i + 1] \notin parked
      BY <1>2, <1>3, <1>4, <1>5
    <3> QED
      BY <3>1, <3>2 DEF QueueInv, QueueOrder
  <2> QED
    BY <1>0, <1>1, <1>2, <1>4, <2>1, <2>2
<1>6. ASSUME NEW i \in 1..Len(runq')  PROVE runq'[i] \in parked' <=> runq'[i] \in parked
  BY <1>0, <1>1, <1>5
<1>7. QueueType(n)'
  <2>1. parked' \subseteq 1..n
    <3>1. 1..p \subseteq 1..n /\ n \in 1..n
      BY <1>0, <1>1
    <3> QED
      BY <1>1, <3>1
  <2>2. n \in 0..admitted
    BY <1>0, <1>1
  <2>3. log \in Seq(Messages) /\ Len(log) <= MaxMsgs /\ admitted \in 0..Len(log)
    BY DEF QueueInv, QueueType
  <2>4. log' = log /\ admitted' = admitted
    OBVIOUS
  <2> QED
    BY <1>2, <2>1, <2>2, <2>3, <2>4 DEF QueueType
<1>8. QueueOrder(n)'
  <2>1. \A i \in 1..Len(runq') : runq'[i] \in parked' \/ runq'[i] \in (n + 1)..admitted
    BY <1>5, <1>6
  <2>2. ASSUME NEW k \in (n + 1)..admitted  PROVE \E i \in 1..Len(runq') : runq'[i] = k
    <3>1. k \in (p + 1)..admitted /\ k # n
      BY <1>0, <1>1
    <3>2. PICK i \in 1..Len(runq) : runq[i] = k
      BY <3>1 DEF QueueInv, QueueOrder
    <3>3. i - 1 \in 1..Len(runq') /\ (i - 1) + 1 = i
      BY <1>1, <1>2, <3>1, <3>2
    <3>4. runq'[i - 1] = k
      BY <1>4, <3>2, <3>3
    <3> QED
      BY <3>3, <3>4
  <2>3. ASSUME NEW i \in 1..Len(runq'), NEW j \in 1..Len(runq'), i < j,
               runq'[i] \in parked' <=> runq'[j] \in parked'
        PROVE  runq'[i] < runq'[j]
    <3>1. runq[i + 1] \in parked <=> runq[j + 1] \in parked
      BY <1>4, <1>6, <2>3
    <3>2. i + 1 \in 1..Len(runq) /\ j + 1 \in 1..Len(runq) /\ i + 1 < j + 1
      BY <1>1, <1>4, <2>3
    <3> QED
      BY <1>4, <3>1, <3>2 DEF QueueInv, QueueOrder
  <2> QED
    BY <2>1, <2>2, <2>3 DEF QueueOrder
<1> QED
  BY <1>7, <1>8

LEMMA MsgCallOnce ==
  /\ \A m, n : MsgCall(m) = MsgCall(n) => m = n
  /\ \A n \in Numbers : MsgCall(n) \in Calls
BY DEF MsgCall, Calls

\* ... and has been handled, or ...
LEMMA HandledQueue ==
  ASSUME ServerAssumption, NEW p, QueueInv(p), NEW n, FirstPoll(n), runq' = Tail(runq),
         UNCHANGED <<log, admitted, inbox, parked>>
  PROVE  QueueInv(n)'
<1>1. QueueType(n)' /\ QueueOrder(n)'
  <2>1. inbox' \in Seq(Calls)
    BY DEF QueueInv, QueueType
  <2> QED
    BY <2>1, PolledQueue
<1>2. /\ Len(runq) \in Nat /\ Len(runq') = Len(runq) - 1 /\ runq[1] = n /\ Len(runq) >= 1
      /\ \A i \in 1..(Len(runq) - 1) : runq'[i] = runq[i + 1]
  BY QueueHead, QueueNumbers DEF FirstPoll, QueueInv, QueueType
<1>3. \A i \in 1..Len(runq') : i + 1 \in 1..Len(runq) /\ runq'[i] = runq[i + 1]
  BY <1>2
<1>4. ASSUME NEW m \in parked
      PROVE  \/ \E i \in 1..Len(runq') : runq'[i] = m
             \/ \E j \in 1..Len(inbox) : inbox[j] = MsgCall(m)
  <2>1. ASSUME NEW i \in 1..Len(runq), runq[i] = m
        PROVE  \E k \in 1..Len(runq') : runq'[k] = m
    <3>1. i # 1
      BY <1>2, <2>1 DEF FirstPoll
    <3>2. i - 1 \in 1..Len(runq') /\ runq'[i - 1] = m
      BY <1>2, <2>1, <3>1
    <3> QED
      BY <3>2
  <2> QED
    BY <2>1 DEF QueueInv, Waiting
<1>5. Waiting'
  <2>1. Ascending(inbox')
    BY DEF QueueInv, Waiting
  <2>2. ASSUME NEW j \in 1..Len(inbox), NEW m \in Numbers, inbox[j] = MsgCall(m)
        PROVE  m \in parked /\ \A i \in 1..Len(runq') : runq'[i] \in parked => runq'[i] < m
    BY <1>3, <2>2 DEF QueueInv, Waiting
  <2> QED
    BY <1>4, <2>1, <2>2 DEF Waiting, Ascending
<1> QED
  BY <1>1, <1>5 DEF QueueInv

\* ... parks behind those that wait for the engine.
LEMMA ParkedQueue ==
  ASSUME ServerAssumption, NEW p, QueueInv(p), NEW n, FirstPoll(n), runq' = Tail(runq),
         parked' = parked \cup {n}, inbox' = Append(inbox, MsgCall(n)),
         UNCHANGED <<log, admitted>>
  PROVE  QueueInv(n)' /\ \A i \in 1..Len(runq') : runq'[i] # n
<1>0. /\ n = p + 1 /\ n \in Numbers /\ p < admitted
      /\ MaxMsgs \in Nat /\ p \in Nat /\ admitted \in Nat /\ Len(inbox) \in Nat
      /\ Len(runq) \in Nat /\ parked \subseteq 1..p /\ n \notin parked
  BY FirstPollIsNext, QueueNumbers DEF QueueInv, QueueType, FirstPoll
<1>1. /\ inbox' \in Seq(Calls) /\ Len(inbox') = Len(inbox) + 1
      /\ \A j \in 1..Len(inbox) : inbox'[j] = inbox[j]
      /\ inbox'[Len(inbox) + 1] = MsgCall(n)
  <2> DEFINE c == MsgCall(n)
  <2>1. c \in Calls /\ inbox \in Seq(Calls)
    BY <1>0, MsgCallOnce DEF QueueInv, QueueType
  <2> HIDE DEF c
  <2>2. /\ Append(inbox, c) \in Seq(Calls) /\ Len(Append(inbox, c)) = Len(inbox) + 1
        /\ \A j \in 1..Len(inbox) : Append(inbox, c)[j] = inbox[j]
        /\ Append(inbox, c)[Len(inbox) + 1] = c
    BY <2>1, AppendProperties
  <2> QED
    BY <2>2 DEF c
<1>2. QueueType(n)' /\ QueueOrder(n)'
  BY <1>1, PolledQueue
<1>3. /\ Len(runq') = Len(runq) - 1 /\ runq[1] = n /\ Len(runq) >= 1
      /\ \A i \in 1..(Len(runq) - 1) : runq'[i] = runq[i + 1]
  BY QueueHead DEF FirstPoll, QueueInv, QueueType
<1>4. ASSUME NEW i \in 1..Len(runq')
      PROVE  /\ i + 1 \in 1..Len(runq) /\ runq'[i] = runq[i + 1]
             /\ runq'[i] \in parked' => runq'[i] \in parked
  <2>1. i + 1 \in 1..Len(runq) /\ runq'[i] = runq[i + 1] /\ 1 < i + 1
    BY <1>0, <1>3
  <2>2. runq[i + 1] \notin parked => runq[1] < runq[i + 1]
    <3>1. 1 \in 1..Len(runq) /\ runq[1] \notin parked
      BY <1>0, <1>3
    <3> QED
      BY <2>1, <3>1 DEF QueueInv, QueueOrder
  <2>3. runq[i + 1] \in Numbers /\ n \in Nat
    BY <1>0, <2>1, QueueNumbers DEF QueueInv
  <2> QED
    BY <1>0, <1>3, <2>1, <2>2, <2>3 DEF Numbers
<1>5. ASSUME NEW j \in 1..Len(inbox')
      PROVE  \/ j = Len(inbox) + 1 /\ inbox'[j] = MsgCall(n)
             \/ j \in 1..Len(inbox) /\ inbox'[j] = inbox[j]
  BY <1>0, <1>1
<1>6. ASSUME NEW j \in 1..Len(inbox), NEW m \in Numbers, inbox[j] = MsgCall(m)
      PROVE  m \in parked /\ m < n
  <2>1. m \in parked
    BY <1>6 DEF QueueInv, Waiting
  <2> QED
    BY <1>0, <2>1
<1>7. Ascending(inbox')
  <2> SUFFICES ASSUME NEW i \in 1..Len(inbox'), NEW j \in 1..Len(inbox'), i < j,
                      NEW k \in Numbers, NEW m \in Numbers,
                      inbox'[i] = MsgCall(k), inbox'[j] = MsgCall(m)
               PROVE  k < m
    BY DEF Ascending
  <2>1. i \in 1..Len(inbox) /\ inbox[i] = MsgCall(k)
    BY <1>0, <1>1, <1>5
  <2>2. CASE j = Len(inbox) + 1
    <3>1. m = n
      BY <1>1, <2>2, MsgCallOnce
    <3> QED
      BY <1>6, <2>1, <3>1
  <2>3. CASE j # Len(inbox) + 1
    <3>1. j \in 1..Len(inbox) /\ inbox[j] = MsgCall(m)
      BY <1>5, <2>3
    <3> QED
      BY <2>1, <3>1 DEF QueueInv, Waiting, Ascending
  <2> QED
    BY <2>2, <2>3
<1>8. ASSUME NEW j \in 1..Len(inbox'), NEW m \in Numbers, inbox'[j] = MsgCall(m)
      PROVE  m \in parked' /\ \A i \in 1..Len(runq') : runq'[i] \in parked' => runq'[i] < m
  <2>1. CASE j = Len(inbox) + 1
    <3>1. m = n
      BY <1>1, <1>8, <2>1, MsgCallOnce
    <3>2. ASSUME NEW i \in 1..Len(runq'), runq'[i] \in parked'  PROVE runq'[i] < n
      <4>1. runq'[i] \in parked
        BY <1>4, <3>2
      <4>2. \A k \in 1..p : k < n
        BY <1>0
      <4> QED
        BY <1>0, <4>1, <4>2
    <3> QED
      BY <3>1, <3>2
  <2>2. CASE j # Len(inbox) + 1
    <3>1. j \in 1..Len(inbox) /\ inbox[j] = MsgCall(m)
      BY <1>5, <1>8, <2>2
    <3>2. m \in parked /\ \A i \in 1..Len(runq) : runq[i] \in parked => runq[i] < m
      BY <3>1 DEF QueueInv, Waiting
    <3> QED
      BY <1>4, <3>2
  <2> QED
    BY <2>1, <2>2
<1>9. ASSUME NEW m \in parked'
      PROVE  \/ \E i \in 1..Len(runq') : runq'[i] = m
             \/ \E j \in 1..Len(inbox') : inbox'[j] = MsgCall(m)
  <2>1. CASE m = n
    BY <1>0, <1>1, <2>1
  <2>2. CASE m # n
    <3>1. m \in parked
      BY <2>2
    <3>2. ASSUME NEW i \in 1..Len(runq), runq[i] = m
          PROVE  \E k \in 1..Len(runq') : runq'[k] = m
      <4>1. i - 1 \in 1..Len(runq') /\ runq'[i - 1] = m
        BY <1>0, <1>3, <2>2, <3>2
      <4> QED
        BY <4>1
    <3>3. ASSUME NEW j \in 1..Len(inbox), inbox[j] = MsgCall(m)
          PROVE  \E k \in 1..Len(inbox') : inbox'[k] = MsgCall(m)
      BY <1>0, <1>1, <3>3
    <3> QED
      BY <3>1, <3>2, <3>3 DEF QueueInv, Waiting
  <2> QED
    BY <2>1, <2>2
<1>10. Waiting'
  BY <1>7, <1>8, <1>9 DEF Waiting, Ascending
<1>11. \A i \in 1..Len(runq') : runq'[i] # n
  BY <1>0, <1>4
<1> QED
  BY <1>2, <1>10, <1>11 DEF QueueInv

\* The handler that is polled again is the oldest of the parked ones.
LEMMA ResumedQueue ==
  ASSUME ServerAssumption, NEW p, QueueInv(p), NEW n \in parked,
         runq # <<>>, Head(runq) = n, runq' = Tail(runq), parked' = parked \ {n},
         UNCHANGED <<log, admitted, inbox>>
  PROVE  QueueInv(p)' /\ \A m \in parked' : n < m
<1>0. /\ p \in Nat /\ admitted \in Nat /\ Len(inbox) \in Nat /\ Len(runq) \in Nat
      /\ parked \subseteq 1..p /\ parked \subseteq Numbers
  BY QueueNumbers DEF QueueInv, QueueType
<1>1. /\ runq' \in Seq(Numbers) /\ Len(runq') = Len(runq) - 1 /\ runq[1] = n /\ Len(runq) >= 1
      /\ \A i \in 1..(Len(runq) - 1) : runq'[i] = runq[i + 1]
  BY QueueHead DEF QueueInv, QueueType
<1>2. ASSUME NEW i \in 2..Len(runq)
      PROVE  runq[i] # n /\ (runq[i] \in parked => n < runq[i])
  <2>1. 1 \in 1..Len(runq) /\ i \in 1..Len(runq) /\ 1 < i
    BY <1>0, <1>1
  <2>2. runq[i] \in parked => n < runq[i]
    BY <1>1, <2>1 DEF QueueInv, QueueOrder
  <2> QED
    BY <1>0, <2>2
<1>3. ASSUME NEW i \in 1..Len(runq')
      PROVE  /\ i + 1 \in 1..Len(runq) /\ i + 1 \in 2..Len(runq) /\ runq'[i] = runq[i + 1]
             /\ runq'[i] \in parked' <=> runq[i + 1] \in parked
  <2>1. i + 1 \in 1..Len(runq) /\ i + 1 \in 2..Len(runq) /\ runq'[i] = runq[i + 1]
    BY <1>0, <1>1
  <2> QED
    BY <1>2, <2>1
<1>4. ASSUME NEW k, NEW i \in 1..Len(runq), runq[i] = k, k # n
      PROVE  \E j \in 1..Len(runq') : runq'[j] = k
  <2>1. i - 1 \in 1..Len(runq') /\ runq'[i - 1] = k
    BY <1>0, <1>1, <1>4
  <2> QED
    BY <2>1
<1>5. QueueType(p)'
  <2>1. parked' \subseteq 1..p
    BY <1>0
  <2> QED
    BY <1>1, <2>1 DEF QueueInv, QueueType
<1>6. QueueOrder(p)'
  <2>1. \A i \in 1..Len(runq') : runq'[i] \in parked' \/ runq'[i] \in (p + 1)..admitted
    BY <1>3 DEF QueueInv, QueueOrder
  <2>2. ASSUME NEW k \in (p + 1)..admitted  PROVE \E i \in 1..Len(runq') : runq'[i] = k
    <3>1. k # n
      BY <1>0
    <3> QED
      BY <1>4, <3>1 DEF QueueInv, QueueOrder
  <2>3. ASSUME NEW i \in 1..Len(runq'), NEW j \in 1..Len(runq'), i < j,
               runq'[i] \in parked' <=> runq'[j] \in parked'
        PROVE  runq'[i] < runq'[j]
    <3>1. i + 1 < j + 1
      BY <1>0, <1>1, <2>3
    <3>2. i + 1 \in 1..Len(runq) /\ j + 1 \in 1..Len(runq)
      BY <1>3
    <3>3. runq[i + 1] \in parked <=> runq[j + 1] \in parked
      BY <1>3, <2>3
    <3>4. runq[i + 1] < runq[j + 1]
      BY <3>1, <3>2, <3>3 DEF QueueInv, QueueOrder
    <3> QED
      BY <1>3, <3>4
  <2> QED
    BY <2>1, <2>2, <2>3 DEF QueueOrder
<1>7. ASSUME NEW j \in 1..Len(inbox), NEW m \in Numbers, inbox[j] = MsgCall(m)
      PROVE  m \in parked /\ n < m
  <2>1. 1 \in 1..Len(runq)
    BY <1>0, <1>1
  <2> QED
    BY <1>1, <1>7, <2>1 DEF QueueInv, Waiting
<1>8. Waiting'
  <2>1. ASSUME NEW j \in 1..Len(inbox), NEW m \in Numbers, inbox[j] = MsgCall(m)
        PROVE  m \in parked' /\ \A i \in 1..Len(runq') : runq'[i] \in parked' => runq'[i] < m
    <3>1. m \in parked'
      <4>1. m \in parked /\ n < m
        BY <1>7, <2>1
      <4>2. m # n
        BY <1>0, <4>1
      <4> QED
        BY <4>1, <4>2
    <3>2. \A i \in 1..Len(runq) : runq[i] \in parked => runq[i] < m
      BY <2>1 DEF QueueInv, Waiting
    <3> QED
      BY <1>3, <3>1, <3>2
  <2>2. ASSUME NEW m \in parked'
        PROVE  \/ \E i \in 1..Len(runq') : runq'[i] = m
               \/ \E j \in 1..Len(inbox) : inbox[j] = MsgCall(m)
    BY <1>4 DEF QueueInv, Waiting
  <2> QED
    BY <2>1, <2>2 DEF QueueInv, Waiting, Ascending
<1>9. ASSUME NEW m \in parked'  PROVE n < m
  <2>1. ASSUME NEW i \in 1..Len(runq), runq[i] = m  PROVE n < m
    <3>1. i # 1
      BY <1>1, <2>1
    <3>2. i \in 2..Len(runq)
      BY <1>0, <3>1
    <3> QED
      BY <1>2, <2>1, <3>2
  <2>2. m \in Numbers
    BY <1>0
  <2> QED
    BY <1>7, <2>1, <2>2 DEF QueueInv, Waiting
<1> QED
  BY <1>5, <1>6, <1>8, <1>9 DEF QueueInv

\* Background tasks do not disturb the order among the handlers.
LEMMA BackgroundQueue ==
  ASSUME ServerAssumption, NEW p, QueueInv(p), NEW b \in Background, NEW u \in Docs,
         inbox' = Append(inbox, BgCall(b, u)),
         UNCHANGED <<log, admitted, runq, parked>>
  PROVE  QueueInv(p)'
<1> DEFINE c == BgCall(b, u)
<1>1. c \in Calls /\ \A n \in Numbers : c # MsgCall(n)
  BY CallsDiffer DEF Calls, BgCall
<1> HIDE DEF c
<1>2. inbox \in Seq(Calls) /\ Len(inbox) \in Nat
  BY QueueNumbers DEF QueueInv, QueueType
<1>3. /\ inbox' \in Seq(Calls) /\ Len(inbox') = Len(inbox) + 1
      /\ \A j \in 1..Len(inbox) : inbox'[j] = inbox[j]
      /\ inbox'[Len(inbox) + 1] = c
  <2>1. inbox' = Append(inbox, c)
    BY DEF c
  <2> QED
    BY <1>1, <1>2, <2>1, AppendProperties
<1>4. ASSUME NEW j \in 1..Len(inbox'), NEW m \in Numbers, inbox'[j] = MsgCall(m)
      PROVE  j \in 1..Len(inbox) /\ inbox[j] = MsgCall(m)
  <2>1. j # Len(inbox) + 1
    BY <1>1, <1>3, <1>4
  <2> QED
    BY <1>2, <1>3, <1>4, <2>1
<1>5. Ascending(inbox')
  BY <1>4 DEF QueueInv, Waiting, Ascending
<1>6. \A j \in 1..Len(inbox), m \in Numbers :
        inbox[j] = MsgCall(m) => j \in 1..Len(inbox') /\ inbox'[j] = MsgCall(m)
  BY <1>2, <1>3
<1>7. Waiting'
  <2>1. ASSUME NEW j \in 1..Len(inbox'), NEW m \in Numbers, inbox'[j] = MsgCall(m)
        PROVE  m \in parked /\ \A i \in 1..Len(runq) : runq[i] \in parked => runq[i] < m
    BY <1>4, <2>1 DEF QueueInv, Waiting
  <2>2. ASSUME NEW m \in parked
        PROVE  \/ \E i \in 1..Len(runq) : runq[i] = m
               \/ \E j \in 1..Len(inbox') : inbox'[j] = MsgCall(m)
    <3>1. m \in Numbers
      BY QueueNumbers DEF QueueInv
    <3> QED
      BY <1>6, <3>1 DEF QueueInv, Waiting
  <2> QED
    BY <1>5, <2>1, <2>2 DEF Waiting, Ascending
<1> QED
  BY <1>3, <1>7 DEF QueueInv, QueueType, QueueOrder

\* The calls at the front of the inbox are resolved: their handlers are woken
\* in the order in which they wait.
LEMMA WokenQueue ==
  ASSUME ServerAssumption, NEW p, QueueInv(p), NEW calls \in Seq(Calls), NEW rest \in Seq(Calls),
         inbox = calls \o rest, runq' = runq \o Handlers(calls), inbox' = rest,
         UNCHANGED <<log, admitted, parked>>
  PROVE  QueueInv(p)'
<1> DEFINE h == Handlers(calls)
           a == Len(calls)
           q == Len(runq)
<1>0. /\ p \in Nat /\ admitted \in Nat /\ Len(inbox) \in Nat /\ q \in Nat
      /\ a \in Nat /\ Len(rest) \in Nat
      /\ parked \subseteq 1..p /\ parked \subseteq Numbers /\ runq \in Seq(Numbers)
      /\ \A i \in 1..q : runq[i] \in Numbers
  BY QueueNumbers, LenProperties DEF QueueInv, QueueType
<1>1. /\ Len(inbox) = a + Len(rest)
      /\ \A j \in 1..a : j \in 1..Len(inbox) /\ inbox[j] = calls[j]
      /\ \A j \in 1..Len(rest) : a + j \in 1..Len(inbox) /\ inbox[a + j] = rest[j]
  <2>1. Len(inbox) = a + Len(rest)
    BY ConcatProperties
  <2>2. \A j \in 1..(a + Len(rest)) : inbox[j] = IF j <= a THEN calls[j] ELSE rest[j - a]
    BY ConcatProperties
  <2> QED
    BY <1>0, <2>1, <2>2
<1>2. Ascending(calls) /\ Ascending(rest)
  <2>1. Ascending(inbox)
    BY DEF QueueInv, Waiting
  <2>2. Ascending(calls)
    BY <1>1, <2>1 DEF Ascending
  <2>3. ASSUME NEW i \in 1..Len(rest), NEW j \in 1..Len(rest),
               NEW m \in Numbers, NEW n \in Numbers,
               i < j, rest[i] = MsgCall(m), rest[j] = MsgCall(n)
        PROVE  m < n
    <3>1. /\ a + i \in 1..Len(inbox) /\ inbox[a + i] = MsgCall(m)
          /\ a + j \in 1..Len(inbox) /\ inbox[a + j] = MsgCall(n)
      BY <1>1, <2>3
    <3>2. a + i < a + j
      BY <1>0, <2>3
    <3> HIDE DEF a
    <3> QED
      BY <2>1, <3>1, <3>2 DEF Ascending
  <2>4. Ascending(rest)
    BY <2>3 DEF Ascending
  <2> QED
    BY <2>2, <2>4
<1>3. Lists(h, calls)
  BY <1>2, HandlersAreListed
<1> HIDE DEF h, a, q
<1>4. h \in Seq(Numbers) /\ Len(h) \in Nat /\ \A i \in 1..Len(h) : h[i] \in Numbers
  BY <1>3, LenProperties, ElementOfSeq DEF Lists
<1>5. /\ runq' \in Seq(Numbers) /\ Len(runq') = q + Len(h)
      /\ \A i \in 1..(q + Len(h)) : runq'[i] = IF i <= q THEN runq[i] ELSE h[i - q]
  <2>1. runq' = runq \o h
    BY DEF h
  <2> QED
    BY <1>0, <1>4, <2>1, ConcatProperties DEF q
<1>6. ASSUME NEW i \in 1..Len(runq')
      PROVE  \/ i \in 1..q /\ runq'[i] = runq[i]
             \/ i > q /\ i - q \in 1..Len(h) /\ runq'[i] = h[i - q]
  BY <1>0, <1>4, <1>5
<1>7. /\ \A i \in 1..q : i \in 1..Len(runq') /\ runq'[i] = runq[i]
      /\ \A i \in 1..Len(h) : q + i \in 1..Len(runq') /\ runq'[q + i] = h[i]
  BY <1>0, <1>4, <1>5, SMTT(30)
\* A woken handler is parked, and younger than those woken before it.
<1>8. ASSUME NEW i \in 1..Len(h)
      PROVE  h[i] \in parked /\ \A k \in 1..q : runq[k] \in parked => runq[k] < h[i]
  <2>1. PICK j \in 1..a : calls[j] = MsgCall(h[i])
    BY <1>3 DEF Lists, a
  <2>2. j \in 1..Len(inbox) /\ inbox[j] = MsgCall(h[i]) /\ h[i] \in Numbers
    BY <1>1, <1>4, <2>1
  <2> QED
    BY <2>2 DEF QueueInv, Waiting, q
\* ... and older than those that still wait.
<1>9. ASSUME NEW i \in 1..Len(h), NEW j \in 1..Len(rest), NEW m \in Numbers, rest[j] = MsgCall(m)
      PROVE  h[i] < m
  <2>1. PICK k \in 1..a : calls[k] = MsgCall(h[i])
    BY <1>3 DEF Lists, a
  <2>2. /\ k \in 1..Len(inbox) /\ inbox[k] = MsgCall(h[i]) /\ h[i] \in Numbers
        /\ a + j \in 1..Len(inbox) /\ inbox[a + j] = MsgCall(m)
    BY <1>1, <1>4, <1>9, <2>1
  <2>3. k < a + j
    BY <1>0 DEF a
  <2> QED
    BY <2>2, <2>3 DEF QueueInv, Waiting, Ascending
<1>10. QueueType(p)'
  BY <1>5 DEF QueueInv, QueueType
<1>11. QueueOrder(p)'
  <2>1. \A i \in 1..Len(runq') : runq'[i] \in parked \/ runq'[i] \in (p + 1)..admitted
    BY <1>6, <1>8 DEF QueueInv, QueueOrder, q
  <2>2. \A k \in (p + 1)..admitted : \E i \in 1..Len(runq') : runq'[i] = k
    BY <1>7 DEF QueueInv, QueueOrder, q
  <2>3. ASSUME NEW i \in 1..Len(runq'), NEW j \in 1..Len(runq'), i < j,
               runq'[i] \in parked <=> runq'[j] \in parked
        PROVE  runq'[i] < runq'[j]
    <3>1. CASE j \in 1..q /\ runq'[j] = runq[j]
      <4>1. i \in 1..q /\ runq'[i] = runq[i]
        BY <1>0, <1>5, <1>7, <2>3, <3>1
      <4> QED
        BY <2>3, <3>1, <4>1 DEF QueueInv, QueueOrder, q
    <3>2. CASE j > q /\ j - q \in 1..Len(h) /\ runq'[j] = h[j - q]
      <4>1. CASE i \in 1..q /\ runq'[i] = runq[i]
        BY <1>8, <2>3, <3>2, <4>1
      <4>2. CASE i > q /\ i - q \in 1..Len(h) /\ runq'[i] = h[i - q]
        <5>1. i - q < j - q
          BY <1>0, <1>5, <2>3
        <5> QED
          BY <1>3, <3>2, <4>2, <5>1 DEF Lists
      <4> QED
        BY <1>6, <4>1, <4>2
    <3> QED
      BY <1>6, <3>1, <3>2
  <2> QED
    BY <2>1, <2>2, <2>3 DEF QueueOrder
<1>12. Waiting'
  <2>1. ASSUME NEW j \in 1..Len(rest), NEW m \in Numbers, rest[j] = MsgCall(m)
        PROVE  m \in parked /\ \A i \in 1..Len(runq') : runq'[i] \in parked => runq'[i] < m
    <3>1. a + j \in 1..Len(inbox) /\ inbox[a + j] = MsgCall(m)
      BY <1>1, <2>1
    <3>2. m \in parked /\ \A i \in 1..q : runq[i] \in parked => runq[i] < m
      BY <3>1 DEF QueueInv, Waiting, q
    <3>3. \A i \in 1..Len(h) : h[i] < m
      BY <1>9, <2>1
    <3> QED
      BY <1>6, <3>2, <3>3
  <2>2. ASSUME NEW m \in parked
        PROVE  \/ \E i \in 1..Len(runq') : runq'[i] = m
               \/ \E j \in 1..Len(rest) : rest[j] = MsgCall(m)
    <3>1. CASE \E i \in 1..q : runq[i] = m
      BY <1>7, <3>1
    <3>2. ASSUME NEW j \in 1..Len(inbox), inbox[j] = MsgCall(m)
          PROVE  \/ \E i \in 1..Len(runq') : runq'[i] = m
                 \/ \E k \in 1..Len(rest) : rest[k] = MsgCall(m)
      <4>0. m \in Numbers
        BY <1>0
      <4>1. CASE j <= a
        <5>1. j \in 1..a /\ calls[j] = MsgCall(m)
          BY <1>0, <1>1, <3>2, <4>1 DEF a
        <5>2. PICK i \in 1..Len(h) : h[i] = m
          BY <1>3, <4>0, <5>1 DEF Lists, a
        <5> QED
          BY <1>7, <5>2
      <4>2. CASE ~(j <= a)
        <5>1. j - a \in 1..Len(rest) /\ a + (j - a) = j
          BY <1>0, <1>1, <4>2
        <5>2. rest[j - a] = MsgCall(m)
          BY <1>1, <3>2, <5>1
        <5> QED
          BY <5>1, <5>2
      <4> QED
        BY <4>1, <4>2
    <3> QED
      BY <3>1, <3>2 DEF QueueInv, Waiting, q
  <2>3. Ascending(rest)
    BY <1>2
  <2> QED
    BY <2>1, <2>2, <2>3 DEF Waiting, Ascending
<1> QED
  BY <1>10, <1>11, <1>12 DEF QueueInv

-----------------------------------------------------------------------------
(* The engine's outcomes.                                                  *)

OutcomeInv ==
  /\ available \in BOOLEAN
  /\ outcome \in [Calls -> {"open", "answer", "none"}]
  /\ \A c \in Calls : outcome[c] = "none" => ~available
  /\ \A i \in 1..Len(runq) : runq[i] \in parked => outcome[MsgCall(runq[i])] # "open"
  /\ DOMAIN shown = Docs
  /\ NoCoreOnlyFlash

\* What is woken has been resolved.
LEMMA WokenOutcome ==
  ASSUME ServerAssumption, NEW p, QueueInv(p), OutcomeInv,
         NEW calls \in Seq(Calls), Ascending(calls),
         runq' = runq \o Handlers(calls), UNCHANGED <<parked, shown>>,
         available' => available, available' \in BOOLEAN,
         outcome' \in [Calls -> {"open", "answer", "none"}],
         \A c \in Calls : outcome'[c] = "none" => ~available',
         \A c \in Calls : outcome[c] # "open" => outcome'[c] # "open",
         \A j \in 1..Len(calls) : outcome'[calls[j]] # "open"
  PROVE  OutcomeInv'
<1> DEFINE h == Handlers(calls)
<1>1. Lists(h, calls)
  BY HandlersAreListed
<1> HIDE DEF h
<1>2. h \in Seq(Numbers) /\ runq \in Seq(Numbers) /\ runq' = runq \o h
  BY <1>1 DEF Lists, QueueInv, QueueType, h
<1>3. /\ Len(h) \in Nat /\ Len(runq) \in Nat /\ \A i \in 1..Len(runq) : runq[i] \in Numbers
      /\ Len(runq') = Len(runq) + Len(h)
      /\ \A i \in 1..(Len(runq) + Len(h)) :
           runq'[i] = IF i <= Len(runq) THEN runq[i] ELSE h[i - Len(runq)]
  BY <1>2, LenProperties, ElementOfSeq, ConcatProperties
<1>4. ASSUME NEW i \in 1..Len(runq'), runq'[i] \in parked
      PROVE  outcome'[MsgCall(runq'[i])] # "open"
  <2>1. CASE i <= Len(runq)
    <3>1. i \in 1..Len(runq) /\ runq'[i] = runq[i]
      BY <1>3, <2>1
    <3>2. MsgCall(runq[i]) \in Calls /\ outcome[MsgCall(runq[i])] # "open"
      BY <1>3, <1>4, <3>1, MsgCallOnce DEF OutcomeInv
    <3> QED
      BY <3>1, <3>2
  <2>2. CASE ~(i <= Len(runq))
    <3>1. i - Len(runq) \in 1..Len(h) /\ runq'[i] = h[i - Len(runq)]
      BY <1>3, <2>2
    <3>2. PICK j \in 1..Len(calls) : calls[j] = MsgCall(runq'[i])
      BY <1>1, <3>1 DEF Lists
    <3> QED
      BY <3>2
  <2> QED
    BY <2>1, <2>2
<1>5. NoCoreOnlyFlash'
  BY DEF OutcomeInv, NoCoreOnlyFlash
<1> QED
  BY <1>4, <1>5 DEF OutcomeInv

LEMMA TailElements ==
  ASSUME ServerAssumption, NEW p, QueueInv(p), runq # <<>>, runq' = Tail(runq)
  PROVE  /\ 1 \in 1..Len(runq) /\ Head(runq) = runq[1]
         /\ \A i \in 1..Len(runq') : \E k \in 1..Len(runq) : runq'[i] = runq[k]
<1>1. runq \in Seq(Numbers) /\ Len(runq) \in Nat
  BY QueueNumbers DEF QueueInv, QueueType
<1>2. /\ Head(runq) = runq[1] /\ Len(runq) >= 1 /\ Len(runq') = Len(runq) - 1
      /\ \A i \in 1..(Len(runq) - 1) : runq'[i] = runq[i + 1]
  BY <1>1, QueueHead
<1>3. \A i \in 1..Len(runq') : i + 1 \in 1..Len(runq) /\ runq'[i] = runq[i + 1]
  BY <1>1, <1>2
<1> QED
  BY <1>1, <1>2, <1>3

\* A publication without the engine's lines needs an unavailable engine.
LEMMA PublishOutcome ==
  ASSUME NEW u, NEW versions, NEW lines \in BOOLEAN, NEW who,
         DOMAIN shown = Docs, NoCoreOnlyFlash, Publish(u, versions, lines, who),
         available' => available, lines \/ ~available'
  PROVE  DOMAIN shown' = Docs /\ NoCoreOnlyFlash'
BY DEF Publish, NoCoreOnlyFlash

LEMMA FinishOutcome ==
  ASSUME NEW n, NEW store, NEW versions, NEW lines \in BOOLEAN,
         DOMAIN shown = Docs, NoCoreOnlyFlash, Finish(n, store, versions, lines),
         available' => available, lines \/ ~available'
  PROVE  DOMAIN shown' = Docs /\ NoCoreOnlyFlash'
<1>1. CASE log[n].kind = "hover"
  BY <1>1 DEF Finish, NoCoreOnlyFlash
<1>2. CASE log[n].kind # "hover"
  <2>1. Publish(log[n].uri, versions, lines, "handler")
    BY <1>2 DEF Finish
  <2> QED
    BY <2>1, PublishOutcome
<1> QED
  BY <1>1, <1>2

LEMMA PollOutcome ==
  ASSUME ServerAssumption, NEW p, QueueInv(p), OutcomeInv, Poll
  PROVE  OutcomeInv'
<1>1. PICK n \in Numbers :
        HandleWithoutEngine(n) \/ HandleUntilAwait(n) \/ HandleRefused(n) \/ HandleReply(n)
  BY DEF Poll
<1>2. runq # <<>> /\ runq' = Tail(runq)
  BY <1>1 DEF HandleWithoutEngine, HandleUntilAwait, HandleRefused, HandleReply, FirstPoll
<1>3. /\ 1 \in 1..Len(runq) /\ Head(runq) = runq[1]
      /\ \A i \in 1..Len(runq') : \E k \in 1..Len(runq) : runq'[i] = runq[k]
  BY <1>2, TailElements
<1>4. \A i \in 1..Len(runq) : MsgCall(runq[i]) \in Calls
  BY QueueNumbers, MsgCallOnce DEF QueueInv
<1>5. CASE HandleWithoutEngine(n)
  <2>1. UNCHANGED <<parked, shown, available, outcome>>
    BY <1>5 DEF HandleWithoutEngine, engineVars
  <2> QED
    BY <1>3, <2>1 DEF OutcomeInv, NoCoreOnlyFlash
<1>6. CASE HandleUntilAwait(n)
  <2>1. /\ FirstPoll(n) /\ parked' = parked \cup {n} /\ inbox' = Append(inbox, MsgCall(n))
        /\ UNCHANGED <<log, admitted, shown, available, outcome>>
    BY <1>6 DEF HandleUntilAwait, Engine!Accept
  <2>2. \A i \in 1..Len(runq') : runq'[i] # n
    BY <1>2, <2>1, ParkedQueue
  <2>3. \A i \in 1..Len(runq') : runq'[i] \in parked' => runq'[i] \in parked
    BY <2>1, <2>2
  <2>4. \A i \in 1..Len(runq') : runq'[i] \in parked' => outcome'[MsgCall(runq'[i])] # "open"
    BY <1>3, <2>1, <2>3 DEF OutcomeInv
  <2> QED
    BY <2>1, <2>4 DEF OutcomeInv, NoCoreOnlyFlash
<1>7. CASE HandleRefused(n)
  <2> DEFINE t == Stored(n)[log[n].uri]
             versions == [text |-> t, ast |-> t]
  <2>1. /\ ~available /\ outcome' = [outcome EXCEPT ![MsgCall(n)] = "none"]
        /\ UNCHANGED <<available, parked>> /\ Finish(n, Stored(n), versions, FALSE)
    BY <1>7 DEF HandleRefused, Engine!Refuse
  <2> HIDE DEF versions
  <2>2. DOMAIN shown' = Docs /\ NoCoreOnlyFlash'
    BY <2>1, FinishOutcome DEF OutcomeInv
  <2>3. \A i \in 1..Len(runq') : runq'[i] \in parked' => outcome'[MsgCall(runq'[i])] # "open"
    BY <1>3, <1>4, <2>1 DEF OutcomeInv
  <2> QED
    BY <2>1, <2>2, <2>3 DEF OutcomeInv
<1>8. CASE HandleReply(n)
  <2> DEFINE lines == outcome[MsgCall(n)] = "answer"
  <2>1. /\ Head(runq) = n /\ n \in parked /\ parked' = parked \ {n}
        /\ UNCHANGED <<available, outcome>>
        /\ Finish(n, docs, held[MsgCall(n)], lines)
    BY <1>8 DEF HandleReply, engineVars
  <2>2. lines \/ ~available'
    BY <1>3, <1>4, <2>1 DEF OutcomeInv
  <2>3. lines \in BOOLEAN
    OBVIOUS
  <2> HIDE DEF lines
  <2>4. DOMAIN shown' = Docs /\ NoCoreOnlyFlash'
    BY <2>1, <2>2, <2>3, FinishOutcome DEF OutcomeInv
  <2> QED
    BY <1>3, <2>1, <2>4 DEF OutcomeInv
<1> QED
  BY <1>1, <1>5, <1>6, <1>7, <1>8

\* The engine resolves its oldest call, or all of them.
LEMMA EngineWakes ==
  ASSUME ServerAssumption, NEW p, QueueInv(p), EngineServe \/ EngineDies
  PROVE  /\ QueueInv(p)'
         /\ UNCHANGED <<log, parked, docs, held, shown>>
         /\ OutcomeInv => OutcomeInv' /\ (available' => available)
<1>0. inbox \in Seq(Calls) /\ Ascending(inbox)
  BY DEF QueueInv, QueueType, Waiting
<1>1. CASE EngineServe
  <2> DEFINE c == Head(inbox)
             calls == <<c>>
             rest == Tail(inbox)
  <2>1. /\ inbox # <<>> /\ inbox' = rest /\ available' = available
        /\ \/ outcome' = [outcome EXCEPT ![c] = "answer"]
           \/ ~available /\ outcome' = [outcome EXCEPT ![c] = "none"]
        /\ UNCHANGED <<log, admitted, parked, docs, held, shown>>
        /\ Wake(calls)
    BY <1>1 DEF EngineServe, EngineAnswers, EngineDeclines, EngineRest, Engine!Answer, Engine!Decline
  <2>2. c \in Calls /\ rest \in Seq(Calls) /\ inbox = calls \o rest /\ calls \in Seq(Calls)
    BY <1>0, <2>1, HeadTailProperties
  <2>3. runq' = runq \o Handlers(calls)
    BY <2>1 DEF Wake, Handlers, Woken
  <2>4. Len(calls) = 1 /\ calls[1] = c
    OBVIOUS
  <2> HIDE DEF calls, rest, c
  <2>5. QueueInv(p)'
    BY <2>1, <2>2, <2>3, WokenQueue
  <2>6. Ascending(calls)
    BY <2>4 DEF Ascending
  <2>7. ASSUME OutcomeInv  PROVE OutcomeInv'
    <3>1. /\ available' \in BOOLEAN /\ outcome' \in [Calls -> {"open", "answer", "none"}]
          /\ \A d \in Calls : outcome'[d] = "none" => ~available'
          /\ \A d \in Calls : outcome[d] # "open" => outcome'[d] # "open"
          /\ \A j \in 1..Len(calls) : outcome'[calls[j]] # "open"
      <4>1. PICK x \in {"answer", "none"} :
              (x = "none" => ~available) /\ outcome' = [outcome EXCEPT ![c] = x]
        BY <2>1
      <4>2. /\ outcome' \in [Calls -> {"open", "answer", "none"}]
            /\ \A d \in Calls : outcome'[d] = IF d = c THEN x ELSE outcome[d]
        BY <2>7, <4>1 DEF OutcomeInv
      <4>3. \A d \in Calls : outcome'[d] = "none" => ~available'
        BY <2>1, <2>7, <4>1, <4>2 DEF OutcomeInv
      <4>4. \A d \in Calls : outcome[d] # "open" => outcome'[d] # "open"
        BY <4>1, <4>2
      <4>5. \A j \in 1..Len(calls) : outcome'[calls[j]] # "open"
        BY <2>2, <2>4, <4>1, <4>2
      <4> QED
        BY <2>1, <2>7, <4>2, <4>3, <4>4, <4>5 DEF OutcomeInv
    <3> QED
      BY <2>1, <2>2, <2>3, <2>6, <2>7, <3>1, WokenOutcome
  <2> QED
    BY <2>1, <2>5, <2>7
<1>2. CASE EngineDies
  <2> DEFINE rest == <<>>
  <2>1. /\ available /\ available' = FALSE /\ inbox' = rest
        /\ outcome' = [c \in Calls |-> IF c \in Engine!Pending THEN "none" ELSE outcome[c]]
        /\ UNCHANGED <<log, admitted, parked, docs, held, shown>>
        /\ Wake(inbox)
    BY <1>2 DEF EngineDies, EngineRest, Engine!Collapse
  <2>2. rest \in Seq(Calls) /\ inbox = inbox \o rest
    BY <1>0, ConcatEmptySeq
  <2>3. runq' = runq \o Handlers(inbox)
    BY <2>1 DEF Wake, Handlers, Woken
  <2>4. \A j \in 1..Len(inbox) : inbox[j] \in Calls /\ inbox[j] \in Engine!Pending
    BY <1>0, LenProperties, ElementOfSeq DEF Engine!Pending
  <2> HIDE DEF rest
  <2>5. QueueInv(p)'
    BY <1>0, <2>1, <2>2, <2>3, WokenQueue
  <2>6. ASSUME OutcomeInv  PROVE OutcomeInv'
    <3>1. /\ available' \in BOOLEAN /\ outcome' \in [Calls -> {"open", "answer", "none"}]
          /\ \A d \in Calls : outcome'[d] = "none" => ~available'
          /\ \A d \in Calls : outcome[d] # "open" => outcome'[d] # "open"
          /\ \A j \in 1..Len(inbox) : outcome'[inbox[j]] # "open"
      BY <2>1, <2>4, <2>6 DEF OutcomeInv
    <3> QED
      BY <1>0, <2>1, <2>3, <2>6, <3>1, WokenOutcome
  <2> QED
    BY <2>1, <2>5, <2>6
<1> QED
  BY <1>1, <1>2

-----------------------------------------------------------------------------
(* The background tasks.                                                   *)

\* A task that reads a document or waits for its diagnostics has one to go.
TaskInv ==
  /\ DOMAIN bg = Background
  /\ todo \in [Background -> Seq(Docs)]
  /\ \A b \in Background : bg[b] \in {"read", "parked"} => todo[b] # <<>>

LEMMA TaskStarts ==
  ASSUME ServerAssumption, TaskInv, NEW b \in Background, BgStart(b)
  PROVE  TaskInv'
<1>1. PICK uris \in SetToSeqs(OpenUris) :
        todo' = [todo EXCEPT ![b] = uris] /\ bg' = [bg EXCEPT ![b] = "next"]
  BY DEF BgStart
<1>2. Cardinality(OpenUris) \in Nat /\ OpenUris \subseteq Docs
  BY FS_Subset, FS_CardinalityType DEF ServerAssumption, OpenUris
<1>3. uris \in [1..Cardinality(OpenUris) -> OpenUris]
  BY DEF SetToSeqs
<1>4. uris \in Seq(Docs)
  BY <1>2, <1>3
<1> QED
  BY <1>1, <1>4 DEF TaskInv

LEMMA TaskStep == ASSUME ServerAssumption, TaskInv, [Next]_vars  PROVE TaskInv'
<1>1. CASE UNCHANGED <<bg, todo>>
  BY <1>1 DEF TaskInv
<1>2. CASE Admit \/ Poll \/ EngineBuild \/ EngineServe \/ EngineDies \/ IndexInstalled
           \/ UNCHANGED vars
  BY <1>1, <1>2
     DEF Admit, Poll, HandleWithoutEngine, HandleUntilAwait, HandleRefused, HandleReply,
         EngineBuild, EngineBuilt, EngineCorpusFails, EngineServe, EngineAnswers,
         EngineDeclines, EngineDies, EngineRest, IndexInstalled, vars
<1>3. CASE BgBegin
  <2>1. CASE BuildTaskReady
    BY <2>1 DEF BuildTaskReady, TaskInv, Background
  <2>2. CASE BuildTaskStarts \/ IndexTaskStarts
    BY <2>2, TaskStarts DEF BuildTaskStarts, IndexTaskStarts, Background
  <2>3. CASE BuildTaskStops \/ IndexTaskStops
    BY <2>3 DEF BuildTaskStops, IndexTaskStops, BgStop, TaskInv, Background
  <2> QED
    BY <1>3, <2>1, <2>2, <2>3 DEF BgBegin
<1>4. ASSUME NEW b \in Background, BgStep(b)  PROVE TaskInv'
  <2>0. todo[b] \in Seq(Docs) /\ (todo[b] # <<>> => Tail(todo[b]) \in Seq(Docs))
    <3>1. todo[b] \in Seq(Docs)
      BY DEF TaskInv
    <3> QED
      BY <3>1, HeadTailProperties
  <2>1. CASE BgRead(b)
    <3>1. \/ /\ bg[b] = "next" /\ todo[b] # <<>>
             /\ todo' = [todo EXCEPT ![b] = Tail(todo[b])] /\ bg' = bg
          \/ todo[b] # <<>> /\ todo' = todo /\ bg' = [bg EXCEPT ![b] = "read"]
      BY <2>1 DEF BgRead
    <3> QED
      BY <2>0, <3>1 DEF TaskInv
  <2>2. CASE BgEnd(b)
    BY <2>2 DEF BgEnd, BgStop, TaskInv
  <2>3. CASE BgCallEngine(b)
    BY <2>3 DEF BgCallEngine, TaskInv
  <2>4. CASE BgPublish(b)
    <3>1. /\ todo[b] # <<>>
          /\ todo' = [todo EXCEPT ![b] = Tail(todo[b])] /\ bg' = [bg EXCEPT ![b] = "next"]
      BY <2>4 DEF BgPublish, TaskInv
    <3> QED
      BY <2>0, <3>1 DEF TaskInv
  <2> QED
    BY <1>4, <2>1, <2>2, <2>3, <2>4 DEF BgStep
<1> QED
  BY <1>2, <1>3, <1>4 DEF Next

-----------------------------------------------------------------------------
(* The kinds of steps.                                                     *)

\* A step that is neither a poll nor a publication of a background task.
Aside(p) ==
  /\ QueueInv(p)'
  /\ UNCHANGED <<log, parked, docs, shown>>
  /\ available' => available
  /\ DOMAIN held = Calls =>
       DOMAIN held' = Calls /\ \A n \in Numbers : held'[MsgCall(n)] = held[MsgCall(n)]

LEMMA AsideSteps ==
  ASSUME ServerAssumption, NEW p, QueueInv(p), OutcomeInv, TaskInv,
         \/ Admit \/ EngineBuild \/ EngineServe \/ EngineDies \/ BgBegin \/ IndexInstalled
         \/ UNCHANGED vars
         \/ \E b \in Background : BgRead(b) \/ BgEnd(b) \/ BgCallEngine(b)
  PROVE  Aside(p) /\ OutcomeInv'
<1>1. CASE Admit
  <2>1. QueueInv(p)'
    BY <1>1, AdmitQueue
  <2>2. /\ UNCHANGED <<log, parked, docs, held, shown, available, inbox, outcome>>
        /\ runq' = Append(runq, admitted + 1)
    BY <1>1 DEF Admit, engineVars
  <2>3. /\ runq \in Seq(Numbers) /\ Len(runq) \in Nat /\ admitted + 1 \in Numbers
        /\ admitted + 1 \notin parked
    BY <1>1, QueueNumbers DEF QueueInv, QueueType, Admit, Numbers
  <2>4. \A i \in 1..Len(runq') :
          runq'[i] = admitted + 1 \/ \E k \in 1..Len(runq) : runq'[i] = runq[k]
    <3> DEFINE n == admitted + 1
    <3>1. n \in Numbers /\ runq' = Append(runq, n)
      BY <2>2, <2>3
    <3> HIDE DEF n
    <3>2. /\ Len(runq') = Len(runq) + 1 /\ runq'[Len(runq) + 1] = n
          /\ \A i \in 1..Len(runq) : runq'[i] = runq[i]
      BY <2>3, <3>1, AppendProperties
    <3>3. \A i \in 1..Len(runq') : i = Len(runq) + 1 \/ i \in 1..Len(runq)
      BY <2>3, <3>2
    <3> QED
      BY <3>2, <3>3 DEF n
  <2>5. OutcomeInv'
    BY <2>2, <2>3, <2>4 DEF OutcomeInv, NoCoreOnlyFlash
  <2> QED
    BY <2>1, <2>2, <2>5 DEF Aside
<1>2. CASE EngineServe \/ EngineDies
  BY <1>2, EngineWakes DEF Aside
<1>3. CASE UNCHANGED <<log, admitted, runq, parked, docs, held, shown, inbox, outcome>>
           /\ (available' => available) /\ available' \in BOOLEAN
  <2>1. QueueInv(p)'
    BY <1>3 DEF QueueInv, QueueType, QueueOrder, Waiting, Ascending
  <2>2. OutcomeInv'
    BY <1>3 DEF OutcomeInv, NoCoreOnlyFlash
  <2> QED
    BY <1>3, <2>1, <2>2 DEF Aside
<1>4. CASE EngineBuild \/ BgBegin \/ IndexInstalled \/ UNCHANGED vars
  <2>1. UNCHANGED <<log, admitted, runq, parked, docs, held, shown, inbox, outcome>>
        /\ (available' => available)
    BY <1>4 DEF EngineBuild, EngineBuilt, EngineCorpusFails, EngineRest, Engine!Fail, BgBegin,
                BuildTaskReady, BuildTaskStarts, BuildTaskStops, IndexTaskStarts, IndexTaskStops,
                BgRest, IndexInstalled, handlerVars, engineVars, vars
  <2>2. available' \in BOOLEAN
    BY <1>4 DEF EngineBuild, EngineBuilt, EngineCorpusFails, EngineRest, Engine!Fail, BgBegin,
                BuildTaskReady, BuildTaskStarts, BuildTaskStops, IndexTaskStarts, IndexTaskStops,
                BgRest, IndexInstalled, handlerVars, engineVars, vars, OutcomeInv
  <2> QED
    BY <1>3, <2>1, <2>2
<1>5. ASSUME NEW b \in Background, BgEnd(b)  PROVE Aside(p) /\ OutcomeInv'
  <2>1. UNCHANGED <<log, admitted, runq, parked, docs, held, shown, inbox, outcome, available>>
    BY <1>5 DEF BgEnd, BgRest, handlerVars, engineVars
  <2> QED
    BY <1>3, <2>1 DEF OutcomeInv
<1>6. ASSUME NEW b \in Background, BgRead(b)  PROVE Aside(p) /\ OutcomeInv'
  <2> DEFINE u == Head(todo[b])
  <2>1. /\ UNCHANGED <<log, admitted, runq, parked, docs, shown, inbox, outcome, available>>
        /\ held' = held \/ \E v : held' = [held EXCEPT ![BgCall(b, u)] = v]
    BY <1>6 DEF BgRead, BgRest, handlerVars, engineVars
  <2> HIDE DEF u
  <2>2. QueueInv(p)'
    BY <2>1 DEF QueueInv, QueueType, QueueOrder, Waiting, Ascending
  <2>3. OutcomeInv'
    BY <2>1 DEF OutcomeInv, NoCoreOnlyFlash
  <2> QED
    BY <2>1, <2>2, <2>3, CallsDiffer DEF Aside
<1>7. ASSUME NEW b \in Background, BgCallEngine(b)  PROVE Aside(p) /\ OutcomeInv'
  <2> DEFINE u == Head(todo[b])
  <2>1. /\ UNCHANGED <<log, admitted, runq, parked, docs, shown, available>>
        /\ \E v : held' = [held EXCEPT ![BgCall(b, u)] = v]
        /\ Engine!Accept(BgCall(b, u)) \/ Engine!Refuse(BgCall(b, u))
    BY <1>7 DEF BgCallEngine, BgRest, handlerVars, Engine!Accept, Engine!Refuse
  <2> HIDE DEF u
  <2>2. u \in Docs /\ BgCall(b, u) \in Calls
    <3>1. todo[b] \in Seq(Docs) /\ todo[b] # <<>>
      BY <1>7 DEF TaskInv, BgCallEngine
    <3>2. Head(todo[b]) \in Docs
      BY <3>1
    <3> QED
      BY <3>2 DEF u, BgCall, Calls
  <2>3. CASE Engine!Accept(BgCall(b, u))
    <3>1. inbox' = Append(inbox, BgCall(b, u)) /\ UNCHANGED <<available, outcome>>
      BY <2>3 DEF Engine!Accept
    <3>2. QueueInv(p)'
      BY <2>1, <2>2, <3>1, BackgroundQueue
    <3>3. OutcomeInv'
      BY <2>1, <3>1 DEF OutcomeInv, NoCoreOnlyFlash
    <3> QED
      BY <2>1, <3>2, <3>3, CallsDiffer DEF Aside
  <2>4. CASE Engine!Refuse(BgCall(b, u))
    <3>1. /\ ~available /\ outcome' = [outcome EXCEPT ![BgCall(b, u)] = "none"]
          /\ UNCHANGED <<available, inbox>>
      BY <2>4 DEF Engine!Refuse
    <3>2. QueueInv(p)'
      BY <2>1, <3>1 DEF QueueInv, QueueType, QueueOrder, Waiting, Ascending
    <3>3. \A i \in 1..Len(runq) : MsgCall(runq[i]) \in Calls
      BY QueueNumbers, MsgCallOnce DEF QueueInv
    <3>4. OutcomeInv'
      <4>1. /\ outcome' \in [Calls -> {"open", "answer", "none"}]
            /\ \A c \in Calls : outcome[c] # "open" => outcome'[c] # "open"
        BY <3>1 DEF OutcomeInv
      <4>2. \A i \in 1..Len(runq) : runq[i] \in parked => outcome'[MsgCall(runq[i])] # "open"
        BY <3>3, <4>1 DEF OutcomeInv
      <4> QED
        BY <2>1, <3>1, <4>1, <4>2 DEF OutcomeInv, NoCoreOnlyFlash
    <3> QED
      BY <2>1, <3>2, <3>4, CallsDiffer DEF Aside
  <2> QED
    BY <2>1, <2>3, <2>4
<1> QED
  BY <1>1, <1>2, <1>4, <1>5, <1>6, <1>7

\* What a poll does to the queue, and a publication of a background task.
LEMMA PollKinds ==
  ASSUME ServerAssumption, NEW p, QueueInv(p), NEW n \in Numbers
  PROVE  /\ HandleWithoutEngine(n) \/ HandleRefused(n) =>
              n = p + 1 /\ n <= admitted /\ QueueInv(n)'
         /\ HandleUntilAwait(n) =>
              n = p + 1 /\ n <= admitted /\ QueueInv(n)'
         /\ HandleReply(n) => QueueInv(p)' /\ \A m \in parked' : n < m
<1>1. ASSUME HandleWithoutEngine(n) \/ HandleRefused(n)
      PROVE  n = p + 1 /\ n <= admitted /\ QueueInv(n)'
  <2>1. FirstPoll(n) /\ runq' = Tail(runq) /\ UNCHANGED <<log, admitted, inbox, parked>>
    BY <1>1 DEF HandleWithoutEngine, HandleRefused, engineVars, Engine!Refuse
  <2>2. n = p + 1 /\ p < admitted /\ p \in Nat /\ admitted \in Nat
    BY <2>1, FirstPollIsNext, QueueNumbers DEF QueueInv
  <2>3. QueueInv(n)'
    BY <2>1, HandledQueue
  <2> QED
    BY <2>2, <2>3
<1>2. ASSUME HandleUntilAwait(n)
      PROVE  n = p + 1 /\ n <= admitted /\ QueueInv(n)'
  <2>1. /\ FirstPoll(n) /\ runq' = Tail(runq) /\ UNCHANGED <<log, admitted>>
        /\ parked' = parked \cup {n} /\ inbox' = Append(inbox, MsgCall(n))
    BY <1>2 DEF HandleUntilAwait, Engine!Accept
  <2>2. n = p + 1 /\ p < admitted /\ p \in Nat /\ admitted \in Nat
    BY <2>1, FirstPollIsNext, QueueNumbers DEF QueueInv
  <2>3. QueueInv(n)'
    BY <2>1, ParkedQueue
  <2> QED
    BY <2>2, <2>3
<1>3. ASSUME HandleReply(n)  PROVE QueueInv(p)' /\ \A m \in parked' : n < m
  <2>1. /\ runq # <<>> /\ Head(runq) = n /\ n \in parked
        /\ runq' = Tail(runq) /\ parked' = parked \ {n}
        /\ UNCHANGED <<log, admitted, inbox>>
    BY <1>3 DEF HandleReply, engineVars
  <2> QED
    BY <2>1, ResumedQueue
<1> QED
  BY <1>1, <1>2, <1>3

LEMMA BgPublishQueue ==
  ASSUME NEW p, QueueInv(p), NEW b \in Background, BgPublish(b)
  PROVE  QueueInv(p)'
<1>1. UNCHANGED <<log, admitted, runq, parked, inbox>>
  BY DEF BgPublish, BgRest, handlerVars, engineVars
<1> QED
  BY <1>1 DEF QueueInv, QueueType, QueueOrder, Waiting, Ascending

LEMMA BgPublishOutcome ==
  ASSUME ServerAssumption, OutcomeInv, TaskInv, NEW b \in Background, BgPublish(b)
  PROVE  OutcomeInv'
<1> DEFINE u == Head(todo[b])
           c == BgCall(b, u)
           lines == outcome[c] = "answer"
<1>1. /\ UNCHANGED <<runq, parked, available, outcome>> /\ outcome[c] # "open"
      /\ Publish(u, held[c], lines, b)
  BY DEF BgPublish, BgRest, handlerVars, engineVars
<1>2. c \in Calls
  <2>1. todo[b] \in Seq(Docs) /\ todo[b] # <<>>
    BY DEF TaskInv, BgPublish
  <2> QED
    BY <2>1 DEF BgCall, Calls
<1>3. lines \in BOOLEAN /\ (lines \/ ~available')
  BY <1>1, <1>2 DEF OutcomeInv
<1> HIDE DEF u, c, lines
<1>4. DOMAIN shown' = Docs /\ NoCoreOnlyFlash'
  BY <1>1, <1>3, PublishOutcome DEF OutcomeInv
<1> QED
  BY <1>1, <1>4 DEF OutcomeInv

\* Every step keeps the order, for as many polled handlers as there are then.
LEMMA QueueStep ==
  ASSUME ServerAssumption, NEW p, QueueInv(p), OutcomeInv, TaskInv, [Next]_vars
  PROVE  OutcomeInv' /\ \E q \in Nat : QueueInv(q)'
<1>0. p \in Nat
  BY QueueNumbers DEF QueueInv
<1>1. CASE Poll
  <2>1. PICK n \in Numbers :
          HandleWithoutEngine(n) \/ HandleUntilAwait(n) \/ HandleRefused(n) \/ HandleReply(n)
    BY <1>1 DEF Poll
  <2>2. n \in Nat
    BY DEF Numbers
  <2>3. \E q \in Nat : QueueInv(q)'
    BY <1>0, <2>1, <2>2, PollKinds
  <2> QED
    BY <1>1, <2>3, PollOutcome
<1>2. ASSUME NEW b \in Background, BgPublish(b)
      PROVE  OutcomeInv' /\ \E q \in Nat : QueueInv(q)'
  BY <1>0, <1>2, BgPublishQueue, BgPublishOutcome
<1>3. CASE \/ Admit \/ EngineBuild \/ EngineServe \/ EngineDies \/ BgBegin \/ IndexInstalled
           \/ UNCHANGED vars
           \/ \E b \in Background : BgRead(b) \/ BgEnd(b) \/ BgCallEngine(b)
  <2>1. QueueInv(p)' /\ OutcomeInv'
    BY <1>3, AsideSteps DEF Aside
  <2> QED
    BY <1>0, <2>1
<1> QED
  BY <1>1, <1>2, <1>3 DEF Next, BgStep

LEMMA SessionType ==
  ASSUME ServerAssumption, log \in Sessions
  PROVE  /\ log \in Seq(Messages) /\ Len(log) \in 0..MaxMsgs
         /\ \A n \in 1..Len(log) : log[n].batch => Batches
<1>1. log \in BoundedSeq(Messages, MaxMsgs) /\ \A n \in DOMAIN log : log[n].batch => Batches
  BY DEF Sessions, Allowed
<1>2. PICK m \in 0..MaxMsgs : log \in [1..m -> Messages]
  BY <1>1 DEF BoundedSeq, SeqOf
<1>3. m \in Nat
  BY DEF ServerAssumption
<1>4. log \in Seq(Messages) /\ Len(log) = m /\ DOMAIN log = 1..Len(log)
  BY <1>2, <1>3
<1> QED
  BY <1>1, <1>4

LEMMA QueueBegins ==
  ASSUME ServerAssumption, Init
  PROVE  QueueInv(0) /\ OutcomeInv /\ TaskInv
<1>1. /\ log \in Sessions /\ admitted = 0 /\ runq = <<>> /\ parked = {}
      /\ shown = [u \in Docs |-> NotShown]
      /\ bg = [b \in Background |-> "waiting"] /\ todo = [b \in Background |-> <<>>]
      /\ available = TRUE /\ inbox = <<>> /\ outcome = [c \in Calls |-> "open"]
  BY DEF Init, Engine!Init
<1>2. log \in Seq(Messages) /\ Len(log) \in 0..MaxMsgs
  BY <1>1, SessionType
<1>3. QueueType(0)
  BY <1>1, <1>2 DEF QueueType, ServerAssumption
<1>4. QueueOrder(0) /\ Waiting
  BY <1>1 DEF QueueOrder, Waiting, Ascending
<1>5. OutcomeInv
  BY <1>1 DEF OutcomeInv, NoCoreOnlyFlash, NotShown
<1>6. TaskInv
  BY <1>1 DEF TaskInv
<1> QED
  BY <1>3, <1>4, <1>5, <1>6 DEF QueueInv

ServerInv == OutcomeInv /\ TaskInv /\ \E p \in Nat : QueueInv(p)

\* The handlers, the queue and the outcomes of calls are as ServerInv says.
THEOREM ServerInvariant == Spec => []ServerInv
<1> USE ServerAssumption
<1>1. Init => ServerInv
  BY QueueBegins DEF ServerInv
<1>2. ServerInv /\ [Next]_vars => ServerInv'
  BY QueueStep, TaskStep DEF ServerInv
<1> QED
  BY <1>1, <1>2, PTL DEF Spec

\* Whatever becomes of the engine, diagnostics without its lines are published
\* only when it will never answer again, in sessions of any length.
THEOREM NoFlashOfCoreOutput == Spec => []NoCoreOnlyFlash
BY ServerInvariant, PTL DEF ServerInv, OutcomeInv

-----------------------------------------------------------------------------
(* The document store, p of whose messages have been handled, when no      *)
(* didChange carries two changes.                                          *)

\* Among the first p messages, n is the last about u.
LastAmong(u, p, n) ==
  /\ n \in 1..p /\ About(u, log[n])
  /\ \A k \in (n + 1)..p : ~About(u, log[k])

Edits(n) == log[n].kind \in {"open", "change"}

DocsAt(p) ==
  /\ DOMAIN docs = Docs
  /\ \A n \in 1..Len(log) : ~log[n].batch
  /\ \A u \in Docs :
       \/ docs[u] = 0 /\ \A n \in 1..p : LastAmong(u, p, n) => log[n].kind = "close"
       \/ docs[u] # 0 /\ LastAmong(u, p, docs[u]) /\ Edits(docs[u])

LEMMA MessageType ==
  ASSUME NEW n \in 1..Len(log), log \in Seq(Messages)
  PROVE  /\ log[n] \in Messages /\ log[n].uri \in Docs
         /\ \A u : About(u, log[n]) => u = log[n].uri
<1>1. log[n] \in Messages
  BY ElementOfSeq
<1> QED
  BY <1>1 DEF Messages, About

\* The message handled next.
LEMMA LastAmongNext ==
  ASSUME NEW p \in Nat, NEW u
  PROVE  /\ About(u, log[p + 1]) =>
              \A n \in 1..(p + 1) : LastAmong(u, p + 1, n) <=> n = p + 1
         /\ ~About(u, log[p + 1]) =>
              /\ \A n \in 1..(p + 1) : LastAmong(u, p + 1, n) => LastAmong(u, p, n)
              /\ \A n : LastAmong(u, p, n) => LastAmong(u, p + 1, n)
<1>1. ASSUME About(u, log[p + 1]), NEW n \in 1..(p + 1)
      PROVE  LastAmong(u, p + 1, n) <=> n = p + 1
  <2>1. CASE n = p + 1
    <3>1. \A k \in (n + 1)..(p + 1) : FALSE
      BY <2>1
    <3> QED
      BY <1>1, <2>1, <3>1 DEF LastAmong
  <2>2. CASE n # p + 1
    <3>1. p + 1 \in (n + 1)..(p + 1)
      BY <2>2
    <3> QED
      BY <1>1, <2>2, <3>1 DEF LastAmong
  <2> QED
    BY <2>1, <2>2
<1>2. ASSUME ~About(u, log[p + 1]), NEW n \in 1..(p + 1), LastAmong(u, p + 1, n)
      PROVE  LastAmong(u, p, n)
  <2>1. n # p + 1
    BY <1>2 DEF LastAmong
  <2> QED
    BY <1>2, <2>1 DEF LastAmong
<1>3. ASSUME ~About(u, log[p + 1]), NEW n, LastAmong(u, p, n)
      PROVE  LastAmong(u, p + 1, n)
  <2>1. /\ n \in 1..p /\ n \in 1..(p + 1) /\ About(u, log[n])
        /\ \A k \in (n + 1)..p : ~About(u, log[k])
    BY <1>3 DEF LastAmong
  <2>2. \A k \in (n + 1)..(p + 1) : k = p + 1 \/ k \in (n + 1)..p
    BY <2>1
  <2> QED
    BY <1>3, <2>1, <2>2 DEF LastAmong
<1> QED
  BY <1>1, <1>2, <1>3

\* The store after the next message, one document at a time.
LEMMA StoredAt ==
  ASSUME NEW n \in 1..Len(log), log \in Seq(Messages), DOMAIN docs = Docs, ~log[n].batch
  PROVE  /\ DOMAIN Stored(n) = Docs
         /\ \A u \in Docs :
              /\ ~About(u, log[n]) => Stored(n)[u] = docs[u]
              /\ About(u, log[n]) => Stored(n)[u] = IF Edits(n) THEN n ELSE 0
<1>1. log[n].uri \in Docs /\ \A u : About(u, log[n]) => u = log[n].uri
  BY MessageType
<1> DEFINE m == log[n]
<1>2. CASE m.kind \in {"open", "change"}
  <2>1. Stored(n) = [docs EXCEPT ![m.uri] = n]
    BY <1>2 DEF Stored
  <2> QED
    BY <1>1, <1>2, <2>1 DEF About, Edits
<1>3. CASE m.kind = "close"
  <2>1. Stored(n) = [docs EXCEPT ![m.uri] = 0]
    BY <1>3 DEF Stored
  <2> QED
    BY <1>1, <1>3, <2>1 DEF About, Edits
<1>4. CASE m.kind \notin {"open", "change", "close"}
  BY <1>4 DEF Stored, About
<1> QED
  BY <1>2, <1>3, <1>4

\* Handling the next message keeps the store at the last word on each document.
LEMMA DocsStep ==
  ASSUME NEW p \in Nat, NEW n, n = p + 1, n \in 1..Len(log), log \in Seq(Messages),
         DocsAt(p), docs' = Stored(n), log' = log
  PROVE  DocsAt(n)'
<1>1. ~log[n].batch /\ DOMAIN docs = Docs
  BY DEF DocsAt
<1>2. /\ DOMAIN docs' = Docs
      /\ \A u \in Docs :
           /\ ~About(u, log[n]) => docs'[u] = docs[u]
           /\ About(u, log[n]) => docs'[u] = IF Edits(n) THEN n ELSE 0
  BY <1>1, StoredAt
<1>3. ASSUME NEW u \in Docs
      PROVE  \/ docs'[u] = 0 /\ \A k \in 1..n : LastAmong(u, n, k) => log[k].kind = "close"
             \/ docs'[u] # 0 /\ LastAmong(u, n, docs'[u]) /\ Edits(docs'[u])
  <2>1. CASE About(u, log[n])
    <3>1. n \in 1..n /\ \A k \in 1..n : LastAmong(u, n, k) <=> k = n
      <4>1. About(u, log[p + 1])
        BY <2>1
      <4>2. \A k \in 1..(p + 1) : LastAmong(u, p + 1, k) <=> k = p + 1
        BY <4>1, LastAmongNext
      <4>3. n \in 1..n
        OBVIOUS
      <4> QED
        BY <4>2, <4>3
    <3>2. Edits(n) \/ log[n].kind = "close"
      BY <2>1 DEF About, Edits
    <3> QED
      BY <1>2, <2>1, <3>1, <3>2
  <2>2. CASE ~About(u, log[n])
    <3>1. docs'[u] = docs[u]
      BY <1>2, <2>2
    <3>2. /\ \A k \in 1..n : LastAmong(u, n, k) => LastAmong(u, p, k)
          /\ \A k : LastAmong(u, p, k) => LastAmong(u, n, k)
      BY <2>2, LastAmongNext
    <3>3. \A k \in 1..n : LastAmong(u, p, k) => k \in 1..p
      BY DEF LastAmong
    <3>4. \/ docs[u] = 0 /\ \A k \in 1..p : LastAmong(u, p, k) => log[k].kind = "close"
          \/ docs[u] # 0 /\ LastAmong(u, p, docs[u]) /\ Edits(docs[u])
      BY DEF DocsAt
    <3> QED
      BY <3>1, <3>2, <3>3, <3>4
  <2> QED
    BY <2>1, <2>2
<1> QED
  BY <1>2, <1>3 DEF DocsAt, LastAmong, Edits

LEMMA DocsKept ==
  ASSUME NEW p, DocsAt(p), docs' = docs, log' = log
  PROVE  DocsAt(p)'
BY DEF DocsAt, LastAmong, Edits

-----------------------------------------------------------------------------
(* What a handler in flight holds and what has been published.             *)

\* A handler in flight is of a kind that asks the engine, and one that will
\* publish holds the text it was sent with.
HeldAt ==
  /\ DOMAIN held = Calls
  /\ \A n \in parked : Edits(n) \/ log[n].kind = "hover"
  /\ \A n \in parked : Edits(n) => held[MsgCall(n)].text = n

\* A newer edit than one in flight is in flight too ...
EditsTogether(p) == \A n \in parked, m \in 1..p : n < m /\ Edits(m) => m \in parked

\* ... what a handler has published is of an edit no longer in flight ...
PublishedEdit(p) ==
  \A u \in Docs : shown[u].by = "handler" =>
    /\ shown[u].text \in (1..p) \ parked
    /\ log[shown[u].text].uri = u /\ Edits(shown[u].text)

\* ... and it is the last one, unless that is still in flight.
PublishedLast ==
  \A u \in Docs : shown[u].by = "handler" /\ docs[u] # 0 /\ docs[u] \notin parked =>
    shown[u].text = docs[u]

ShownAt(p) ==
  /\ DOMAIN shown = Docs /\ HeldAt
  /\ available => EditsTogether(p) /\ PublishedEdit(p) /\ PublishedLast

LEMMA ShownWithoutEngine ==
  ASSUME ServerAssumption, NEW p \in Nat, NEW n \in Numbers, n = p + 1, n \in 1..Len(log),
         log \in Seq(Messages), parked \subseteq 1..p,
         DocsAt(p), ShownAt(p), HandleWithoutEngine(n)
  PROVE  ShownAt(n)'
<1>1. /\ docs' = Stored(n) /\ ~Edits(n)
      /\ UNCHANGED <<log, parked, held, shown, available>>
  BY DEF HandleWithoutEngine, Edits, engineVars
<1>2. \A u \in Docs : docs'[u] = docs[u] \/ docs'[u] = 0
  BY <1>1, StoredAt DEF DocsAt
<1>3. EditsTogether(p) => EditsTogether(n)'
  <2> SUFFICES ASSUME EditsTogether(p), NEW k \in parked, NEW m \in 1..n, k < m, Edits(m)
               PROVE  m \in parked
    BY <1>1 DEF EditsTogether, Edits
  <2>1. m \in 1..p
    BY <1>1
  <2> QED
    BY <2>1 DEF EditsTogether
<1>4. PublishedEdit(p) => PublishedEdit(n)'
  <2>1. 1..p \subseteq 1..n
    OBVIOUS
  <2> QED
    BY <1>1, <2>1 DEF PublishedEdit, Edits
<1>5. PublishedLast => PublishedLast'
  BY <1>1, <1>2 DEF PublishedLast
<1>6. HeldAt'
  BY <1>1 DEF ShownAt, HeldAt, Edits
<1> QED
  BY <1>1, <1>3, <1>4, <1>5, <1>6 DEF ShownAt

LEMMA ShownUntilAwait ==
  ASSUME ServerAssumption, NEW p \in Nat, NEW n \in Numbers, n = p + 1, n \in 1..Len(log),
         log \in Seq(Messages), parked \subseteq 1..p,
         DocsAt(p), ShownAt(p), HandleUntilAwait(n)
  PROVE  ShownAt(n)'
<1> DEFINE t == Stored(n)[log[n].uri]
<1>1. /\ docs' = Stored(n) /\ NeedsEngine(n) /\ parked' = parked \cup {n}
      /\ held' = [held EXCEPT ![MsgCall(n)] = [text |-> t, ast |-> t]]
      /\ UNCHANGED <<log, shown, available>>
  BY DEF HandleUntilAwait, Engine!Accept
<1>2. log[n].uri \in Docs
  BY MessageType
<1>3. Edits(n) => t = n
  BY <1>2, StoredAt DEF DocsAt, About, Edits
<1>4. \A u \in Docs : docs'[u] = docs[u] \/ docs'[u] = 0 \/ docs'[u] = n
  BY <1>1, StoredAt DEF DocsAt
<1>5. HeldAt'
  <2>1. Edits(n) \/ log[n].kind = "hover"
    BY <1>1 DEF NeedsEngine, Edits
  <2>2. DOMAIN held' = Calls /\ held'[MsgCall(n)].text = t
    BY <1>1, CallsDiffer DEF ShownAt, HeldAt
  <2>3. \A m \in parked : held'[MsgCall(m)] = held[MsgCall(m)]
    <3> SUFFICES ASSUME NEW m \in parked  PROVE held'[MsgCall(m)] = held[MsgCall(m)]
      OBVIOUS
    <3>1. m # n
      OBVIOUS
    <3>2. MsgCall(m) # MsgCall(n)
      BY <3>1 DEF MsgCall
    <3> QED
      BY <1>1, <3>2
  <2> HIDE DEF t
  <2>4. \A m \in parked' : m = n \/ m \in parked
    BY <1>1
  <2>5. \A m \in parked' : Edits(m) => held'[MsgCall(m)].text = m
    BY <1>3, <2>2, <2>3, <2>4 DEF ShownAt, HeldAt
  <2>6. \A m \in parked' : Edits(m) \/ log[m].kind = "hover"
    BY <2>1, <2>4 DEF ShownAt, HeldAt
  <2> QED
    BY <1>1, <2>2, <2>5, <2>6 DEF HeldAt, Edits
<1> HIDE DEF t
<1>6. EditsTogether(p) => EditsTogether(n)'
  <2> SUFFICES ASSUME EditsTogether(p), NEW k \in parked', NEW m \in 1..n, k < m, Edits(m)
               PROVE  m \in parked'
    BY <1>1 DEF EditsTogether, Edits
  <2>1. CASE m = n
    BY <1>1, <2>1
  <2>2. CASE m # n
    <3>1. m \in 1..p /\ k \in parked
      BY <1>1, <2>2
    <3> QED
      BY <1>1, <3>1 DEF EditsTogether
  <2> QED
    BY <2>1, <2>2
<1>7. PublishedEdit(p) => PublishedEdit(n)'
  <2>1. (1..p) \ parked \subseteq (1..n) \ parked'
    BY <1>1
  <2> QED
    BY <1>1, <2>1 DEF PublishedEdit, Edits
<1>8. PublishedLast => PublishedLast'
  BY <1>1, <1>4 DEF PublishedLast
<1> QED
  BY <1>1, <1>5, <1>6, <1>7, <1>8 DEF ShownAt

\* The engine refuses a call only when it is gone.
LEMMA ShownRefused ==
  ASSUME ServerAssumption, NEW p, NEW n \in Numbers, ShownAt(p), HandleRefused(n)
  PROVE  ShownAt(n)'
<1>1. /\ ~available' /\ UNCHANGED <<log, parked, held>>
      /\ \E v : Finish(n, Stored(n), v, FALSE)
  BY DEF HandleRefused, Engine!Refuse
<1>2. DOMAIN shown' = Docs
  BY <1>1 DEF Finish, Publish, ShownAt
<1> QED
  BY <1>1, <1>2 DEF ShownAt, HeldAt, Edits

LEMMA ShownReply ==
  ASSUME ServerAssumption, NEW p \in Nat, NEW n \in Numbers,
         log \in Seq(Messages), p <= Len(log), parked \subseteq 1..p,
         DocsAt(p), ShownAt(p), HandleReply(n), \A m \in parked' : n < m
  PROVE  ShownAt(p)'
<1>1. /\ n \in parked /\ parked' = parked \ {n}
      /\ Finish(n, docs, held[MsgCall(n)], outcome[MsgCall(n)] = "answer")
      /\ held' = [held EXCEPT ![MsgCall(n)] = NoVersions]
      /\ UNCHANGED <<log, docs, available>>
  BY DEF HandleReply, engineVars
<1> DEFINE v == log[n].uri
<1>2. n \in 1..p /\ n \in 1..Len(log) /\ v \in Docs
  <2>1. Len(log) \in Nat
    BY LenProperties
  <2>2. n \in 1..p /\ n \in 1..Len(log)
    BY <1>1, <2>1
  <2> QED
    BY <2>2, MessageType
<1>3. HeldAt'
  <2>1. \A m \in parked' : held'[MsgCall(m)] = held[MsgCall(m)]
    <3> SUFFICES ASSUME NEW m \in parked'  PROVE held'[MsgCall(m)] = held[MsgCall(m)]
      OBVIOUS
    <3>1. MsgCall(m) # MsgCall(n)
      BY <1>1 DEF MsgCall
    <3> QED
      BY <1>1, <3>1
  <2> QED
    BY <1>1, <2>1 DEF ShownAt, HeldAt, Edits
<1>4. EditsTogether(p) => EditsTogether(p)'
  <2> SUFFICES ASSUME EditsTogether(p), NEW k \in parked', NEW m \in 1..p, k < m, Edits(m)
               PROVE  m \in parked'
    BY <1>1 DEF EditsTogether, Edits
  <2>1. m \in parked /\ k \in 1..p /\ n < k
    BY <1>1 DEF EditsTogether
  <2> QED
    BY <1>1, <1>2, <2>1
<1>5. CASE log[n].kind = "hover"
  <2>1. shown' = shown
    BY <1>1, <1>5 DEF Finish
  <2>2. PublishedEdit(p) => PublishedEdit(p)'
    BY <1>1, <2>1 DEF PublishedEdit, Edits
  <2>3. \A u \in Docs : docs[u] # n \/ docs[u] = 0
    BY <1>5 DEF DocsAt, Edits
  <2>4. PublishedLast => PublishedLast'
    BY <1>1, <1>2, <2>1, <2>3 DEF PublishedLast
  <2> QED
    BY <1>1, <1>3, <1>4, <2>1, <2>2, <2>4 DEF ShownAt
<1>6. CASE log[n].kind # "hover"
  <2>1. Edits(n) /\ held[MsgCall(n)].text = n
    BY <1>1, <1>6 DEF ShownAt, HeldAt
  <2>2. /\ DOMAIN shown' = Docs
        /\ shown'[v].text = n /\ shown'[v].by = "handler"
        /\ \A u \in Docs : u # v => shown'[u] = shown[u]
    BY <1>1, <1>2, <1>6, <2>1 DEF Finish, Publish, ShownAt
  <2>3. PublishedEdit(p) => PublishedEdit(p)'
    <3> SUFFICES ASSUME PublishedEdit(p), NEW u \in Docs, shown'[u].by = "handler"
                 PROVE  /\ shown'[u].text \in (1..p) \ parked'
                        /\ log[shown'[u].text].uri = u /\ Edits(shown'[u].text)
      BY <1>1 DEF PublishedEdit, Edits
    <3>1. CASE u = v
      BY <1>1, <1>2, <2>1, <2>2, <3>1
    <3>2. CASE u # v
      BY <1>1, <2>2, <3>2 DEF PublishedEdit
    <3> QED
      BY <3>1, <3>2
  <2>4. EditsTogether(p) /\ PublishedLast => PublishedLast'
    <3> SUFFICES ASSUME EditsTogether(p), PublishedLast, NEW u \in Docs,
                        shown'[u].by = "handler", docs[u] # 0, docs[u] \notin parked'
                 PROVE  shown'[u].text = docs[u]
      BY <1>1 DEF PublishedLast
    <3>1. LastAmong(u, p, docs[u]) /\ Edits(docs[u])
      BY DEF DocsAt
    <3>2. CASE u = v
      <4>1. About(u, log[n])
        BY <2>1, <3>2 DEF About, Edits
      <4>2. docs[u] \in 1..p /\ ~(n \in (docs[u] + 1)..p)
        BY <3>1, <4>1 DEF LastAmong
      <4>3. ~(n < docs[u])
        <5>1. n < docs[u] => docs[u] \in parked
          BY <1>1, <3>1, <4>2 DEF EditsTogether
        <5>2. n < docs[u] => docs[u] # n
          BY <1>2, <4>2
        <5> QED
          BY <1>1, <5>1, <5>2
      <4>4. docs[u] = n
        BY <1>2, <4>2, <4>3
      <4> QED
        BY <2>2, <3>2, <4>4
    <3>3. CASE u # v
      <4>1. docs[u] # n
        BY <3>1, <3>3 DEF LastAmong, About
      <4> QED
        BY <1>1, <2>2, <3>3, <4>1 DEF PublishedLast
    <3> QED
      BY <3>2, <3>3
  <2> QED
    BY <1>1, <1>3, <1>4, <2>2, <2>3, <2>4 DEF ShownAt
<1> QED
  BY <1>5, <1>6

LEMMA ShownBgPublish ==
  ASSUME NEW p, ShownAt(p), NEW b \in Background, BgPublish(b)
  PROVE  ShownAt(p)'
<1> DEFINE u == Head(todo[b])
           c == BgCall(b, u)
<1>1. /\ UNCHANGED <<log, parked, docs, available>>
      /\ held' = [held EXCEPT ![c] = NoVersions]
      /\ Publish(u, held[c], outcome[c] = "answer", b)
  BY DEF BgPublish, BgRest, handlerVars, engineVars
<1>2. \A n : MsgCall(n) # c
  BY DEF MsgCall, BgCall, Background
<1> HIDE DEF u, c
<1>3. HeldAt'
  BY <1>1, <1>2 DEF ShownAt, HeldAt, Edits
<1>4. DOMAIN shown' = Docs /\ \A w \in Docs : shown'[w].by # "handler" \/ shown'[w] = shown[w]
  BY <1>1 DEF Publish, ShownAt, Background
<1> QED
  BY <1>1, <1>3, <1>4 DEF ShownAt, EditsTogether, PublishedEdit, PublishedLast, Edits

LEMMA ShownAside ==
  ASSUME ServerAssumption, NEW p, QueueInv(p), ShownAt(p), Aside(p)
  PROVE  ShownAt(p)'
<1>1. /\ UNCHANGED <<log, parked, docs, shown>> /\ (available' => available)
      /\ DOMAIN held = Calls
      /\ DOMAIN held' = Calls /\ \A n \in Numbers : held'[MsgCall(n)] = held[MsgCall(n)]
  BY DEF Aside, ShownAt, HeldAt
<1>2. parked \subseteq Numbers
  BY QueueNumbers DEF QueueInv
<1> QED
  BY <1>1, <1>2 DEF ShownAt, HeldAt, EditsTogether, PublishedEdit, PublishedLast, Edits

-----------------------------------------------------------------------------
(* The whole of it.                                                        *)

FollowInv ==
  OutcomeInv /\ TaskInv /\ \E p \in Nat : QueueInv(p) /\ DocsAt(p) /\ ShownAt(p)

LEMMA FollowBegins ==
  ASSUME ServerAssumption, Batches = FALSE, Init
  PROVE  FollowInv
<1>1. /\ log \in Sessions /\ parked = {}
      /\ docs = [u \in Docs |-> 0] /\ held = [c \in Calls |-> NoVersions]
      /\ shown = [u \in Docs |-> NotShown]
  BY DEF Init
<1>2. \A n \in 1..Len(log) : log[n].batch => Batches
  BY <1>1, SessionType
<1>3. log \in Seq(Messages) /\ \A n \in 1..Len(log) : log[n] \in Messages
  <2>1. log \in Seq(Messages)
    BY <1>1, SessionType
  <2> QED
    BY <2>1, ElementOfSeq
<1>4. DocsAt(0)
  <2>1. \A n \in 1..Len(log) : ~log[n].batch
    BY <1>2, <1>3 DEF Messages
  <2>2. 1..0 = {}
    OBVIOUS
  <2> QED
    BY <1>1, <2>1, <2>2 DEF DocsAt
<1>5. ShownAt(0)
  BY <1>1 DEF ShownAt, HeldAt, EditsTogether, PublishedEdit, PublishedLast, NotShown
<1> QED
  BY <1>4, <1>5, QueueBegins DEF FollowInv

LEMMA FollowPoll ==
  ASSUME ServerAssumption, NEW p \in Nat, QueueInv(p), DocsAt(p), ShownAt(p), Poll
  PROVE  \E q \in Nat : QueueInv(q)' /\ DocsAt(q)' /\ ShownAt(q)'
<1>1. PICK n \in Numbers :
        HandleWithoutEngine(n) \/ HandleUntilAwait(n) \/ HandleRefused(n) \/ HandleReply(n)
  BY DEF Poll
<1>2. /\ log \in Seq(Messages) /\ parked \subseteq 1..p
      /\ Len(log) \in Nat /\ admitted \in Nat /\ admitted <= Len(log) /\ p <= Len(log)
      /\ n \in Nat
  BY QueueNumbers DEF QueueInv, QueueType, Numbers
<1>3. CASE HandleReply(n)
  <2>1. QueueInv(p)' /\ \A m \in parked' : n < m
    BY <1>3, PollKinds
  <2>2. docs' = docs /\ log' = log
    BY <1>3 DEF HandleReply
  <2> QED
    BY <1>2, <1>3, <2>1, <2>2, DocsKept, ShownReply
<1>4. CASE HandleWithoutEngine(n) \/ HandleUntilAwait(n) \/ HandleRefused(n)
  <2>1. n = p + 1 /\ n <= admitted /\ QueueInv(n)'
    BY <1>4, PollKinds
  <2>2. n \in 1..Len(log)
    BY <1>2, <2>1
  <2>3. docs' = Stored(n) /\ log' = log
    BY <1>4 DEF HandleWithoutEngine, HandleUntilAwait, HandleRefused
  <2>4. DocsAt(n)'
    BY <1>2, <2>1, <2>2, <2>3, DocsStep
  <2>5. CASE HandleWithoutEngine(n)
    BY <1>2, <2>1, <2>2, <2>4, <2>5, ShownWithoutEngine
  <2>6. CASE HandleUntilAwait(n)
    BY <1>2, <2>1, <2>2, <2>4, <2>6, ShownUntilAwait
  <2>7. CASE HandleRefused(n)
    BY <1>2, <2>1, <2>4, <2>7, ShownRefused
  <2> QED
    BY <1>4, <2>5, <2>6, <2>7
<1> QED
  BY <1>1, <1>3, <1>4

LEMMA FollowStep == ASSUME ServerAssumption, FollowInv, [Next]_vars  PROVE FollowInv'
<1>1. PICK p \in Nat : QueueInv(p) /\ DocsAt(p) /\ ShownAt(p)
  BY DEF FollowInv
<1>2. OutcomeInv /\ TaskInv
  BY DEF FollowInv
<1>3. OutcomeInv' /\ TaskInv'
  BY <1>1, <1>2, QueueStep, TaskStep
<1>4. CASE Poll
  BY <1>1, <1>3, <1>4, FollowPoll DEF FollowInv
<1>5. ASSUME NEW b \in Background, BgPublish(b)  PROVE FollowInv'
  <2>1. docs' = docs /\ log' = log
    BY <1>5 DEF BgPublish, BgRest, handlerVars
  <2>2. QueueInv(p)' /\ DocsAt(p)' /\ ShownAt(p)'
    BY <1>1, <1>5, <2>1, BgPublishQueue, DocsKept, ShownBgPublish
  <2> QED
    BY <1>3, <2>2 DEF FollowInv
<1>6. CASE \/ Admit \/ EngineBuild \/ EngineServe \/ EngineDies \/ BgBegin \/ IndexInstalled
           \/ UNCHANGED vars
           \/ \E b \in Background : BgRead(b) \/ BgEnd(b) \/ BgCallEngine(b)
  <2>1. Aside(p)
    BY <1>1, <1>2, <1>6, AsideSteps
  <2>2. QueueInv(p)' /\ docs' = docs /\ log' = log
    BY <2>1 DEF Aside
  <2>3. DocsAt(p)' /\ ShownAt(p)'
    BY <1>1, <2>1, <2>2, DocsKept, ShownAside
  <2> QED
    BY <1>3, <2>2, <2>3 DEF FollowInv
<1> QED
  BY <1>4, <1>5, <1>6 DEF Next, BgStep

\* When no didChange carries two changes, the store holds the last word of the
\* handled messages on each document, and what handlers have published goes no
\* further than that and, once they are done, no less far.
THEOREM FollowInvariant == ASSUME Batches = FALSE  PROVE Spec => []FollowInv
<1> USE ServerAssumption
<1>1. Init => FollowInv
  BY FollowBegins
<1>2. FollowInv /\ [Next]_vars => FollowInv'
  BY FollowStep
<1> QED
  BY <1>1, <1>2, PTL DEF Spec

LEMMA PolledMeansAll ==
  ASSUME ServerAssumption, NEW p, QueueInv(p), AllPolled
  PROVE  p = Len(log)
<1>1. /\ p \in Nat /\ admitted \in Nat /\ p <= admitted /\ admitted = Len(log)
      /\ Len(runq) \in Nat /\ parked \subseteq 1..p /\ Range(runq) \subseteq parked
      /\ DOMAIN runq = 1..Len(runq)
  BY QueueNumbers, LenProperties DEF QueueInv, QueueType, AllPolled
<1>2. \A i \in 1..Len(runq) : runq[i] \in 1..p
  BY <1>1 DEF Range
<1>3. \A k \in (p + 1)..admitted : \E i \in 1..Len(runq) : runq[i] = k
  BY DEF QueueInv, QueueOrder
<1>4. admitted \in (p + 1)..admitted => FALSE
  BY <1>1, <1>2, <1>3
<1> QED
  BY <1>1, <1>4

LEMMA FollowGivesDocs == ASSUME ServerAssumption, FollowInv  PROVE DocsFollowClient
<1> SUFFICES ASSUME AllPolled, NEW u \in Docs  PROVE docs[u] = ClientText(u)
  BY DEF DocsFollowClient
<1>1. PICK p \in Nat : QueueInv(p) /\ DocsAt(p)
  BY DEF FollowInv
<1>2. p = Len(log)
  BY <1>1, PolledMeansAll
<1>3. \A n : LastWord(u, log, n) <=> LastAmong(u, p, n)
  BY <1>2 DEF LastWord, LastAmong
<1>4. \A n \in 1..p : log[n].kind \in {"open", "change"} => log[n].kind # "close"
  OBVIOUS
<1>5. CASE docs[u] = 0 /\ \A n \in 1..p : LastAmong(u, p, n) => log[n].kind = "close"
  <2>1. ~OpenAfter(u, log)
    BY <1>2, <1>3, <1>5 DEF OpenAfter
  <2> QED
    BY <1>5, <2>1 DEF ClientText
<1>6. CASE docs[u] # 0 /\ LastAmong(u, p, docs[u]) /\ Edits(docs[u])
  <2>1. docs[u] \in 1..p /\ LastWord(u, log, docs[u]) /\ log[docs[u]].kind # "close"
    BY <1>3, <1>6 DEF LastAmong, Edits
  <2>2. OpenAfter(u, log)
    BY <1>2, <2>1 DEF OpenAfter
  <2>3. \A n \in 1..p : LastAmong(u, p, n) => n = docs[u]
    <3> SUFFICES ASSUME NEW n \in 1..p, LastAmong(u, p, n)  PROVE n = docs[u]
      OBVIOUS
    <3> DEFINE d == docs[u]
    <3>1. /\ d \in 1..p /\ About(u, log[d]) /\ About(u, log[n])
          /\ ~(n \in (d + 1)..p) /\ ~(d \in (n + 1)..p)
      BY <1>6 DEF LastAmong
    <3> HIDE DEF d
    <3>2. n = d
      BY <3>1
    <3> QED
      BY <3>2 DEF d
  <2>4. (CHOOSE n \in 1..Len(log) : LastWord(u, log, n)) = docs[u]
    BY <1>2, <1>3, <2>1, <2>3
  <2> QED
    BY <2>2, <2>4 DEF ClientText
<1> QED
  BY <1>1, <1>5, <1>6 DEF DocsAt

\* However many handlers overlap, the document store follows the client.
THEOREM StoreFollowsClient ==
  ASSUME Batches = FALSE  PROVE Spec => []DocsFollowClient
<1>1. FollowInv => DocsFollowClient
  BY ServerAssumption, FollowGivesDocs
<1> QED
  BY <1>1, FollowInvariant, PTL

LEMMA FollowGivesFreshness ==
  ASSUME ServerAssumption, FollowInv  PROVE LastHandlerPublishIsFresh
<1> SUFFICES ASSUME Settled, available, NEW u \in Docs, docs[u] # 0, shown[u].by = "handler"
             PROVE  shown[u].text = docs[u]
  BY DEF LastHandlerPublishIsFresh
<1>1. PICK p \in Nat : QueueInv(p) /\ DocsAt(p) /\ ShownAt(p)
  BY DEF FollowInv
<1>2. parked = {}
  BY DEF Settled, InFlight
<1> QED
  BY <1>1, <1>2 DEF ShownAt, PublishedLast

\* ... and when the handlers are done and the engine is alive, the diagnostics
\* that a handler published last are those of the text in the store.
THEOREM SettledIsFresh ==
  ASSUME Batches = FALSE  PROVE Spec => []LastHandlerPublishIsFresh
<1>1. FollowInv => LastHandlerPublishIsFresh
  BY ServerAssumption, FollowGivesFreshness
<1> QED
  BY <1>1, FollowInvariant, PTL

\* One step, seen by one document.
LEMMA PublishedForward ==
  ASSUME ServerAssumption, FollowInv, [Next]_vars, NEW u \in Docs,
         shown'[u] # shown[u], available, shown[u].by = "handler", shown'[u].by = "handler"
  PROVE  shown'[u].text > shown[u].text
<1>1. PICK p \in Nat : QueueInv(p) /\ DocsAt(p) /\ ShownAt(p)
  BY DEF FollowInv
<1>2. OutcomeInv /\ TaskInv
  BY DEF FollowInv
<1>3. EditsTogether(p) /\ PublishedEdit(p) /\ HeldAt /\ DOMAIN shown = Docs
  BY <1>1 DEF ShownAt
<1>4. ASSUME NEW n \in Numbers, HandleReply(n)  PROVE shown'[u].text > shown[u].text
  <2>1. n \in parked /\ Finish(n, docs, held[MsgCall(n)], outcome[MsgCall(n)] = "answer")
    BY <1>4 DEF HandleReply
  <2>2. log[n].kind # "hover" /\ log[n].uri = u
    BY <1>3, <2>1 DEF Finish, Publish
  <2>3. shown'[u].text = n
    BY <1>3, <2>1, <2>2 DEF Finish, Publish, HeldAt
  <2>4. shown[u].text \in (1..p) \ parked /\ Edits(shown[u].text)
    BY <1>3 DEF PublishedEdit
  <2>5. ~(n < shown[u].text) /\ shown[u].text # n
    BY <1>3, <2>1, <2>4 DEF EditsTogether
  <2>6. n \in Nat /\ shown[u].text \in Nat
    BY <2>4 DEF Numbers
  <2> QED
    BY <2>3, <2>5, <2>6
<1>5. ASSUME NEW n \in Numbers, HandleWithoutEngine(n) \/ HandleUntilAwait(n) \/ HandleRefused(n)
      PROVE  FALSE
  BY <1>5 DEF HandleWithoutEngine, HandleUntilAwait, HandleRefused, Engine!Refuse
<1>6. ASSUME NEW b \in Background, BgPublish(b)  PROVE FALSE
  <2>1. \E v : Publish(Head(todo[b]), held[v], outcome[v] = "answer", b)
    BY <1>6 DEF BgPublish
  <2> QED
    BY <1>3, <2>1 DEF Publish, Background
<1>7. CASE \/ Admit \/ EngineBuild \/ EngineServe \/ EngineDies \/ BgBegin \/ IndexInstalled
           \/ UNCHANGED vars
           \/ \E b \in Background : BgRead(b) \/ BgEnd(b) \/ BgCallEngine(b)
  <2>1. shown' = shown
    BY <1>1, <1>2, <1>7, AsideSteps DEF Aside
  <2> QED
    BY <2>1
<1> QED
  BY <1>4, <1>5, <1>6, <1>7 DEF Next, BgStep, Poll

\* While the engine is alive, handlers publish in the order of the edits.
THEOREM PublicationsInOrder ==
  ASSUME Batches = FALSE  PROVE Spec => HandlersPublishInOrder
<1> DEFINE Forward ==
      \A u \in Docs :
        /\ shown'[u] # shown[u] /\ available
        /\ shown[u].by = "handler" /\ shown'[u].by = "handler"
        => shown'[u].text > shown[u].text
<1>1. FollowInv /\ [Next]_vars => [Forward]_vars
  BY ServerAssumption, PublishedForward
<1> HIDE DEF Forward
<1>2. Spec => [][Forward]_vars
  BY <1>1, FollowInvariant, PTL DEF Spec
<1> QED
  BY <1>2 DEF HandlersPublishInOrder, Forward
=============================================================================
