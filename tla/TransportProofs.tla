--------------------------- MODULE TransportProofs ---------------------------
(***************************************************************************)
(* What TLAPS proves of the WebSocket transport.  Of WsBridge, for every   *)
(* set of messages of any sizes, any chunk size, header length and room in *)
(* the sink: neither direction loses, repeats or moves a byte.  Of         *)
(* Sessions, the S of MCTransport, for every set of connections: after the *)
(* request to exit at most one more is accepted, and none is left half     *)
(* open.                                                                   *)
(***************************************************************************)
EXTENDS MCTransport, SequenceLemmas

-----------------------------------------------------------------------------
(* The bridge of one connection.                                           *)

Bytes == Messages \X Nat

-----------------------------------------------------------------------------
(* The byte stream of a sequence of items.                                 *)

Shares(items) == [i \in DOMAIN items |-> Share(items[i])]

LEMMA FrameType ==
  ASSUME BridgeAssumption, NEW m \in Messages
  PROVE  /\ Frame(m) \in Seq(Bytes) /\ Len(Frame(m)) = HeaderLen + Size[m]
         /\ HeaderLen + Size[m] \in Nat /\ HeaderLen + Size[m] > 0
<1>1. HeaderLen + Size[m] \in Nat /\ HeaderLen + Size[m] > 0
  BY DEF BridgeAssumption
<1>2. Frame(m) \in [1..(HeaderLen + Size[m]) -> Bytes]
  BY <1>1 DEF Frame, Bytes
<1> QED
  BY <1>1, <1>2

LEMMA BytesConcat ==
  \A a, b, c \in Seq(Bytes) : (a \o b) \o c = a \o (b \o c)
BY ConcatAssociative

\* Appending behind a concatenation appends to its second part.
LEMMA ConcatAppend ==
  ASSUME NEW T, NEW a \in Seq(T), NEW b \in Seq(T), NEW x \in T
  PROVE  a \o Append(b, x) = Append(a \o b, x)
<1>1. <<x>> \in Seq(T) /\ a \o b \in Seq(T)
  BY ConcatProperties
<1>2. Append(b, x) = b \o <<x>> /\ Append(a \o b, x) = (a \o b) \o <<x>>
  BY <1>1, AppendIsConcat
<1> QED
  BY <1>1, <1>2, ConcatAssociative

LEMMA ShareType ==
  ASSUME BridgeAssumption, NEW x
  PROVE  Share(x) \in Seq(Bytes)
BY FrameType, EmptySeq DEF Share

LEMMA SharesType ==
  ASSUME BridgeAssumption, NEW items \in Seq(Items)
  PROVE  /\ Shares(items) \in Seq(Seq(Bytes))
         /\ Len(Shares(items)) = Len(items)
         /\ \A i \in 1..Len(items) : Shares(items)[i] = Share(items[i])
<1>1. DOMAIN items = 1..Len(items) /\ Len(items) \in Nat
  BY LenProperties
<1>2. Shares(items) \in [1..Len(items) -> Seq(Bytes)]
  BY <1>1, ShareType DEF Shares
<1> QED
  BY <1>1, <1>2 DEF Shares

LEMMA StreamIsFlat == \A items : Stream(items) = FlattenSeq(Shares(items))
BY DEF Stream, Shares

LEMMA StreamType ==
  ASSUME BridgeAssumption, NEW items \in Seq(Items)
  PROVE  Stream(items) \in Seq(Bytes)
BY SharesType, StreamIsFlat, FlattenType

LEMMA StreamConcat ==
  ASSUME BridgeAssumption, NEW s \in Seq(Items), NEW t \in Seq(Items)
  PROVE  Stream(s \o t) = Stream(s) \o Stream(t)
<1>1. /\ s \o t \in Seq(Items) /\ Len(s \o t) = Len(s) + Len(t)
      /\ \A i \in 1..(Len(s) + Len(t)) :
           (s \o t)[i] = IF i <= Len(s) THEN s[i] ELSE t[i - Len(s)]
  BY ConcatProperties
<1>2. Len(s) \in Nat /\ Len(t) \in Nat
  BY LenProperties
<1>3. /\ Shares(s) \in Seq(Seq(Bytes)) /\ Len(Shares(s)) = Len(s)
      /\ \A i \in 1..Len(s) : Shares(s)[i] = Share(s[i])
  BY SharesType
<1>4. /\ Shares(t) \in Seq(Seq(Bytes)) /\ Len(Shares(t)) = Len(t)
      /\ \A i \in 1..Len(t) : Shares(t)[i] = Share(t[i])
  BY SharesType
<1>5. /\ Shares(s \o t) \in Seq(Seq(Bytes)) /\ Len(Shares(s \o t)) = Len(s) + Len(t)
      /\ \A i \in 1..(Len(s) + Len(t)) : Shares(s \o t)[i] = Share((s \o t)[i])
  BY <1>1, SharesType
<1>6. Shares(s \o t) = Shares(s) \o Shares(t)
  <2> DEFINE a == Shares(s)
             b == Shares(t)
             c == Shares(s \o t)
             Chunks == Seq(Bytes)
  <2>1. /\ a \o b \in Seq(Chunks) /\ Len(a \o b) = Len(a) + Len(b)
        /\ \A i \in 1..(Len(a) + Len(b)) :
             (a \o b)[i] = IF i <= Len(a) THEN a[i] ELSE b[i - Len(a)]
    <3>1. a \in Seq(Chunks) /\ b \in Seq(Chunks)
      BY <1>3, <1>4
    <3> HIDE DEF a, b, Chunks
    <3> QED
      BY <3>1, ConcatProperties
  <2>2. \A i \in 1..(Len(s) + Len(t)) : c[i] = (a \o b)[i]
    <3> SUFFICES ASSUME NEW i \in 1..(Len(s) + Len(t))  PROVE c[i] = (a \o b)[i]
      OBVIOUS
    <3> HIDE DEF a, b, c
    <3>1. CASE i <= Len(s)
      <4>1. i \in 1..Len(s) /\ i \in 1..(Len(a) + Len(b))
        BY <1>2, <1>3, <1>4, <3>1 DEF a, b
      <4>2. c[i] = Share(s[i]) /\ a[i] = Share(s[i])
        BY <1>1, <1>3, <1>5, <3>1, <4>1 DEF a, c
      <4> QED
        BY <1>3, <2>1, <3>1, <4>1, <4>2 DEF a
    <3>2. CASE ~(i <= Len(s))
      <4>1. /\ i - Len(s) \in 1..Len(t) /\ i \in 1..(Len(a) + Len(b))
            /\ ~(i <= Len(s)) /\ Len(a) = Len(s)
        BY <1>2, <1>3, <1>4, <3>2 DEF a, b
      <4>2. c[i] = Share(t[i - Len(s)]) /\ b[i - Len(s)] = Share(t[i - Len(s)])
        BY <1>1, <1>4, <1>5, <4>1 DEF b, c
      <4> QED
        BY <2>1, <4>1, <4>2
    <3> QED
      BY <3>1, <3>2
  <2>3. c \in Seq(Chunks) /\ Len(c) = Len(a \o b) /\ Len(c) = Len(s) + Len(t)
    BY <1>3, <1>4, <1>5, <2>1
  <2> HIDE DEF a, b, c, Chunks
  <2>4. c = a \o b
    BY <2>1, <2>2, <2>3, SeqEqual
  <2> QED
    BY <2>4 DEF a, b, c
<1>7. FlattenSeq(Shares(s) \o Shares(t)) = FlattenSeq(Shares(s)) \o FlattenSeq(Shares(t))
  BY <1>3, <1>4, FlattenConcat
<1> QED
  BY <1>6, <1>7, StreamIsFlat

LEMMA StreamOne ==
  ASSUME BridgeAssumption, NEW x \in Items
  PROVE  Stream(<<x>>) = Share(x)
<1>1. Shares(<<x>>) = <<Share(x)>>
  BY DEF Shares
<1> QED
  BY <1>1, ShareType, FlattenOne, StreamIsFlat

LEMMA StreamAppend ==
  ASSUME BridgeAssumption, NEW s \in Seq(Items), NEW x \in Items
  PROVE  Stream(Append(s, x)) = Stream(s) \o Share(x)
<1>1. Append(s, x) = s \o <<x>> /\ <<x>> \in Seq(Items)
  BY AppendIsConcat
<1> QED
  BY <1>1, StreamConcat, StreamOne

LEMMA StreamEmpty == Stream(<<>>) = <<>> /\ <<>> \in Seq(Items)
<1>1. Shares(<<>>) = <<>>
  BY DEF Shares
<1> QED
  BY <1>1, StreamIsFlat, FlattenEmpty

\* What is no message contributes nothing.
LEMMA StreamOfOthers ==
  ASSUME BridgeAssumption, NEW s \in Seq(Items),
         \A i \in 1..Len(s) : s[i] \notin Messages
  PROVE  Stream(s) = <<>>
<1> DEFINE n == Len(s)
           Holds(k) == Stream(SubSeq(s, 1, k)) = <<>>
           Proved == {k \in 0..n : Holds(k)}
<1>0. n \in Nat
  BY LenProperties
<1>1. Stream(<<>>) = <<>>
  BY StreamEmpty
<1>2. 0 \in Proved
  <2>1. SubSeq(s, 1, 0) = <<>>
    BY SubSeqEmpty
  <2>2. Holds(0)
    BY <1>1, <2>1
  <2> QED
    BY <1>0, <2>2
<1>3. ASSUME NEW k \in 1..n, k - 1 \in Proved  PROVE k \in Proved
  <2> DEFINE front == SubSeq(s, 1, k - 1)
  <2>1. front \in Seq(Items) /\ s[k] \in Items
    BY <1>0, SubSeqProperties, ElementOfSeq
  <2>2. SubSeq(s, 1, k) = Append(front, s[k])
    BY <1>0, SubSeqRecursiveSecond
  <2>3. Stream(front) = <<>>
    <3>1. Holds(k - 1)
      BY <1>3
    <3> QED
      BY <3>1
  <2> HIDE DEF front
  <2>4. Stream(Append(front, s[k])) = Stream(front) \o Share(s[k])
    BY <2>1, StreamAppend
  <2>5. Share(s[k]) = <<>>
    BY DEF Share
  <2>6. <<>> \o <<>> = <<>>
    OBVIOUS
  <2>7. Holds(k)
    BY <2>2, <2>3, <2>4, <2>5, <2>6, Zenon
  <2> QED
    BY <2>7
<1>4. n \in Proved
  <2> HIDE DEF Proved
  <2>1. 0..n \subseteq Proved
    BY <1>0, <1>2, <1>3, Induction
  <2> QED
    BY <1>0, <2>1
<1> QED
  BY <1>4, SubSeqFull

\* Behind others, a stream begins with the share of the item there.
LEMMA StreamFrom ==
  ASSUME BridgeAssumption, NEW s \in Seq(Items), NEW k \in 1..Len(s),
         \A i \in 1..(k - 1) : s[i] \notin Messages
  PROVE  /\ SubSeq(s, k + 1, Len(s)) \in Seq(Items)
         /\ Stream(s) = Share(s[k]) \o Stream(SubSeq(s, k + 1, Len(s)))
<1> DEFINE n == Len(s)
           before == SubSeq(s, 1, k - 1)
           behind == SubSeq(s, k + 1, n)
<1>0. n \in Nat
  BY LenProperties
<1>1. /\ before \in Seq(Items) /\ behind \in Seq(Items) /\ s[k] \in Items
      /\ Len(before) = k - 1 /\ \A i \in 1..(k - 1) : before[i] = s[i]
  <2>1. \A i \in 1..n : s[i] \in Items
    BY ElementOfSeq
  <2>2. behind \in Seq(Items)
    BY <1>0, <2>1, SubSeqProperties
  <2>3. /\ before \in Seq(Items) /\ Len(before) = k - 1
        /\ \A i \in 1..(k - 1) : before[i] = s[i]
    BY <1>0, <2>1, SubSeqProperties
  <2> QED
    BY <2>1, <2>2, <2>3
<1>2. s = Append(before, s[k]) \o behind
  <2>1. SubSeq(s, 1, k) = Append(before, s[k])
    BY <1>0, SubSeqRecursiveSecond
  <2>2. SubSeq(s, 1, k) \o behind = SubSeq(s, 1, n)
    BY <1>0, ConcatAdjacentSubSeq
  <2>3. SubSeq(s, 1, n) = s
    BY SubSeqFull
  <2> QED
    BY <2>1, <2>2, <2>3
<1>3. Stream(before) = <<>>
  BY <1>1, StreamOfOthers
<1> HIDE DEF before, behind
<1>4. /\ Append(before, s[k]) \in Seq(Items)
      /\ Stream(Append(before, s[k])) = Stream(before) \o Share(s[k])
  <2> DEFINE x == s[k]
  <2>1. x \in Items
    BY <1>1
  <2> HIDE DEF x
  <2>2. /\ Append(before, x) \in Seq(Items)
        /\ Stream(Append(before, x)) = Stream(before) \o Share(x)
    BY <1>1, <2>1, StreamAppend, AppendProperties
  <2> QED
    BY <2>2 DEF x
<1>5. Stream(before) \o Share(s[k]) = Share(s[k])
  BY <1>3, ShareType, ConcatEmptySeq
<1>6. Stream(Append(before, s[k]) \o behind) = Stream(Append(before, s[k])) \o Stream(behind)
  BY <1>1, <1>4, StreamConcat
<1> QED
  BY <1>1, <1>2, <1>4, <1>5, <1>6 DEF behind

\* Where the receive loop stops.
LEMMA NextItemIsFirst ==
  ASSUME inbox \in Seq(Items)
  PROVE  \/ NextItem = 0 /\ \A i \in 1..Len(inbox) : Skipped(inbox[i])
         \/ /\ NextItem \in 1..Len(inbox)
            /\ \A i \in 1..(NextItem - 1) : Skipped(inbox[i])
<1> DEFINE I == {i \in 1..Len(inbox) : ~Skipped(inbox[i])}
<1>0. Len(inbox) \in Nat
  BY LenProperties
<1>1. CASE I = {}
  BY <1>1 DEF NextItem, SelectInSeq
<1>2. CASE I # {}
  <2>1. I \in SUBSET Nat
    BY <1>0
  <2>2. PICK k \in I : \A y \in I : k <= y
    <3> HIDE DEF I
    <3> QED
      BY <1>2, <2>1, LeastNumber
  <2>3. NextItem = k
    BY <1>2, <2>2 DEF NextItem, SelectInSeq, Min
  <2>4. ASSUME NEW i \in 1..(k - 1)  PROVE Skipped(inbox[i])
    BY <1>0, <2>2
  <2> QED
    BY <2>2, <2>3, <2>4
<1> QED
  BY <1>1, <1>2

-----------------------------------------------------------------------------
(* From the client to the codec.                                           *)

\* What is staged of a buffer behind a position.
Staged(buf, pos) == SubSeq(buf, pos + 1, Len(buf))

ReadInv ==
  /\ sent \in Seq(Items) /\ inbox \in Seq(Items)
  /\ readBuf \in Seq(Bytes) /\ readPos \in 0..Len(readBuf)
  /\ taken \in Seq(Bytes)
  /\ ReadIsFraming

LEMMA StagedType ==
  ASSUME NEW buf \in Seq(Bytes), NEW pos \in 0..Len(buf)
  PROVE  /\ Staged(buf, pos) \in Seq(Bytes)
         /\ pos = Len(buf) => Staged(buf, pos) = <<>>
<1>1. Len(buf) \in Nat /\ \A i \in 1..Len(buf) : buf[i] \in Bytes
  BY LenProperties, ElementOfSeq
<1>2. Staged(buf, pos) \in Seq(Bytes)
  BY <1>1, SubSeqProperties DEF Staged
<1>3. ASSUME pos = Len(buf)  PROVE Staged(buf, pos) = <<>>
  BY <1>1, <1>3, SubSeqEmpty DEF Staged
<1> QED
  BY <1>2, <1>3

\* put_slice hands out the front of what is staged and keeps the rest.
LEMMA DeliverStep ==
  ASSUME taken \in Seq(Bytes), NEW buf \in Seq(Bytes), NEW pos \in 0..Len(buf),
         NEW cap \in Nat, Deliver(buf, pos, cap)
  PROVE  /\ readBuf' \in Seq(Bytes) /\ readPos' \in 0..Len(readBuf') /\ taken' \in Seq(Bytes)
         /\ taken' \o Staged(readBuf', readPos') = taken \o Staged(buf, pos)
<1> DEFINE n == IF Len(buf) - pos < cap THEN Len(buf) - pos ELSE cap
           front == SubSeq(buf, pos + 1, pos + n)
           rest == SubSeq(buf, pos + n + 1, Len(buf))
<1>1. /\ Len(buf) \in Nat /\ n \in Nat /\ pos \in Nat /\ pos + n \in 0..Len(buf)
      /\ \A i \in 1..Len(buf) : buf[i] \in Bytes
  BY LenProperties, ElementOfSeq
<1>2. /\ taken' = taken \o front
      /\ readBuf' = IF pos + n >= Len(buf) THEN <<>> ELSE buf
      /\ readPos' = IF pos + n >= Len(buf) THEN 0 ELSE pos + n
  BY DEF Deliver
<1> HIDE DEF n
<1>3. front \in Seq(Bytes) /\ rest \in Seq(Bytes)
  BY <1>1, SubSeqProperties
<1>4. front \o rest = Staged(buf, pos)
  <2>1. /\ pos + 1 \in 1..(Len(buf) + 1) /\ pos + n \in ((pos + 1) - 1)..Len(buf)
        /\ Len(buf) \in (pos + n)..Len(buf)
    BY <1>1
  <2>2. SubSeq(buf, pos + 1, pos + n) \o SubSeq(buf, (pos + n) + 1, Len(buf))
          = SubSeq(buf, pos + 1, Len(buf))
    BY <2>1, ConcatAdjacentSubSeq
  <2> QED
    BY <2>2 DEF Staged
<1>5. /\ readBuf' \in Seq(Bytes) /\ readPos' \in 0..Len(readBuf')
      /\ Staged(readBuf', readPos') = rest
  <2>1. CASE pos + n >= Len(buf)
    <3>1. readBuf' = <<>> /\ readPos' = 0
      BY <1>2, <2>1
    <3>2. rest = <<>>
      BY <1>1, <2>1, SubSeqEmpty
    <3>3. Staged(<<>>, 0) = <<>>
      BY SubSeqEmpty DEF Staged
    <3>4. <<>> \in Seq(Bytes) /\ 0 \in 0..Len(<<>>)
      OBVIOUS
    <3> HIDE DEF rest
    <3> QED
      BY <3>1, <3>2, <3>3, <3>4, Zenon
  <2>2. CASE ~(pos + n >= Len(buf))
    BY <1>1, <1>2, <2>2 DEF Staged
  <2> QED
    BY <2>1, <2>2
<1> HIDE DEF front, rest
<1>6. taken' \in Seq(Bytes) /\ (taken \o front) \o rest = taken \o (front \o rest)
  <2>1. taken \o front \in Seq(Bytes)
    BY <1>3, ConcatProperties
  <2>2. (taken \o front) \o rest = taken \o (front \o rest)
    BY <1>3, BytesConcat, Zenon
  <2> QED
    BY <1>2, <2>1, <2>2, Zenon
<1> QED
  BY <1>2, <1>4, <1>5, <1>6

\* What the client sends is behind all that it has sent.
LEMMA ClientSendsStep ==
  ASSUME BridgeAssumption, ReadInv, NEW x \in Items, ClientSends(x)
  PROVE  ReadInv'
<1> DEFINE a == taken
           b == Staged(readBuf, readPos)
           c == Stream(inbox)
           d == Share(x)
<1>1. /\ sent' = Append(sent, x) /\ inbox' = Append(inbox, x)
      /\ UNCHANGED <<readBuf, readPos, taken>>
  BY DEF ClientSends
<1>2. /\ sent' \in Seq(Items) /\ inbox' \in Seq(Items)
  BY <1>1 DEF ReadInv
<1>3. Stream(sent') = Stream(sent) \o d /\ Stream(inbox') = c \o d
  BY <1>1, StreamAppend DEF ReadInv
<1>4. a \in Seq(Bytes) /\ b \in Seq(Bytes) /\ c \in Seq(Bytes) /\ d \in Seq(Bytes)
  BY StagedType, StreamType, ShareType DEF ReadInv
<1>5. a \o b \o c = Stream(sent)
  BY DEF ReadInv, ReadIsFraming, Staged
<1>6. a' = a /\ b' = b
  BY <1>1
<1>7. (a \o b) \o (c \o d) = ((a \o b) \o c) \o d
  <2> HIDE DEF a, b, c, d
  <2>1. a \o b \in Seq(Bytes)
    BY <1>4, ConcatProperties
  <2> QED
    BY <1>4, <2>1, BytesConcat, ZenonT(30)
<1>8. ReadIsFraming'
  <2>1. a' \o b' \o Stream(inbox)' = Stream(sent)'
    <3> HIDE DEF a, b, c, d
    <3> QED
      BY <1>3, <1>5, <1>6, <1>7
  <2> QED
    BY <2>1 DEF ReadIsFraming, Staged
<1> QED
  BY <1>1, <1>2, <1>8 DEF ReadInv

\* Nothing of the stream is lost when the inbox changes with the same stream
\* and nothing else does.
LEMMA InboxStep ==
  ASSUME ReadInv, inbox' \in Seq(Items), Stream(inbox') = Stream(inbox),
         UNCHANGED <<sent, readBuf, readPos, taken>>
  PROVE  ReadInv'
BY DEF ReadInv, ReadIsFraming

\* A poll that takes items from the inbox up to a place: what was staged is
\* delivered, and the items passed over are no messages.
LEMMA PollReadStep ==
  ASSUME BridgeAssumption, ReadInv, PollRead
  PROVE  ReadInv'
<1> DEFINE n == NextItem
           behind == SubSeq(inbox, n + 1, Len(inbox))
<1>0. Skipped(Empty) /\ \A i : Skipped(inbox[i]) => inbox[i] \notin Messages
  BY DEF Skipped, BridgeAssumption
<1>1. ASSUME NEW cap \in 1..MaxChunk, ReadStaged(cap)  PROVE ReadInv'
  <2>1. Deliver(readBuf, readPos, cap) /\ inbox' = inbox /\ sent' = sent
    BY <1>1 DEF ReadStaged
  <2>2. cap \in Nat
    BY DEF BridgeAssumption
  <2>3. /\ readBuf' \in Seq(Bytes) /\ readPos' \in 0..Len(readBuf') /\ taken' \in Seq(Bytes)
        /\ taken' \o Staged(readBuf', readPos') = taken \o Staged(readBuf, readPos)
    BY <2>1, <2>2, DeliverStep DEF ReadInv
  <2> QED
    BY <2>1, <2>3 DEF ReadInv, ReadIsFraming, Staged
<1>2. ASSUME NEW cap \in 1..MaxChunk, ReadMessage(cap)  PROVE ReadInv'
  <2> DEFINE m == inbox[n]
  <2>1. /\ n # 0 /\ m \in Messages /\ inbox' = behind
        /\ Deliver(Frame(m), 0, cap) /\ sent' = sent
        /\ readPos = Len(readBuf)
    BY <1>2 DEF ReadMessage, ReadInv
  <2>2. n \in 1..Len(inbox) /\ \A i \in 1..(n - 1) : inbox[i] \notin Messages
    BY <1>0, <2>1, NextItemIsFirst DEF ReadInv
  <2>3. behind \in Seq(Items) /\ Stream(inbox) = Frame(m) \o Stream(behind)
    BY <2>1, <2>2, StreamFrom DEF ReadInv, Share
  <2>4. cap \in Nat /\ Frame(m) \in Seq(Bytes) /\ 0 \in 0..Len(Frame(m))
    BY <2>1, FrameType DEF BridgeAssumption
  <2>5. /\ readBuf' \in Seq(Bytes) /\ readPos' \in 0..Len(readBuf') /\ taken' \in Seq(Bytes)
        /\ taken' \o Staged(readBuf', readPos') = taken \o Staged(Frame(m), 0)
    BY <2>1, <2>4, DeliverStep DEF ReadInv
  <2>6. Staged(Frame(m), 0) = Frame(m)
    BY <2>4, SubSeqFull DEF Staged
  <2>7. Staged(readBuf, readPos) = <<>> /\ taken \in Seq(Bytes)
    BY <2>1, StagedType DEF ReadInv
  <2>8. taken \o Staged(readBuf, readPos) = taken
    BY <2>7, ConcatEmptySeq
  <2>9. Stream(behind) \in Seq(Bytes)
    BY <2>3, StreamType
  <2> DEFINE f == Frame(m)
             r == Stream(behind)
  <2>10. taken \o Stream(inbox) = Stream(sent)
    BY <2>8 DEF ReadInv, ReadIsFraming, Staged
  <2>11. taken \o (f \o r) = (taken \o f) \o r
    <3>1. f \in Seq(Bytes) /\ r \in Seq(Bytes) /\ taken \in Seq(Bytes)
      BY <2>4, <2>7, <2>9
    <3> HIDE DEF f, r
    <3> QED
      BY <3>1, SMTT(30)
  <2>12. taken' \o Staged(readBuf', readPos') \o Stream(inbox') = Stream(sent')
    BY <2>1, <2>3, <2>5, <2>6, <2>10, <2>11
  <2> QED
    BY <2>1, <2>3, <2>5, <2>12 DEF ReadInv, ReadIsFraming, Staged
<1>3. CASE ReadClose
  <2>1. n # 0 /\ inbox[n] = "close" /\ inbox' = behind /\ UNCHANGED <<sent, readBuf, readPos, taken>>
    BY <1>3 DEF ReadClose
  <2>2. n \in 1..Len(inbox) /\ \A i \in 1..(n - 1) : inbox[i] \notin Messages
    BY <1>0, <2>1, NextItemIsFirst DEF ReadInv
  <2>3. behind \in Seq(Items) /\ Stream(inbox) = <<>> \o Stream(behind)
    BY <2>1, <2>2, StreamFrom DEF ReadInv, Share, BridgeAssumption
  <2>4. Stream(inbox) = Stream(behind)
    BY <2>3, StreamType, ConcatEmptySeq
  <2> QED
    BY <2>1, <2>3, <2>4, InboxStep
<1>4. CASE ReadPending \/ ReadEnds
  <2>1. n = 0 /\ inbox' = <<>> /\ UNCHANGED <<sent, readBuf, readPos, taken>>
    BY <1>4 DEF ReadPending, ReadEnds
  <2>2. \A i \in 1..Len(inbox) : inbox[i] \notin Messages
    BY <1>0, <2>1, NextItemIsFirst DEF ReadInv
  <2>3. Stream(inbox) = <<>>
    BY <2>2, StreamOfOthers DEF ReadInv
  <2> QED
    BY <2>1, <2>3, StreamEmpty, InboxStep
<1> QED
  BY <1>1, <1>2, <1>3, <1>4 DEF PollRead

\* The codec reads the frames of the client's messages in every behaviour.
THEOREM ReadInvariant == Spec => []ReadInv
<1> USE BridgeAssumption
<1>1. ASSUME Init  PROVE ReadInv
  <2>1. <<>> \in Seq(Bytes) /\ 0 \in 0..Len(<<>>)
    OBVIOUS
  <2>2. Staged(<<>>, 0) = <<>> /\ <<>> \o <<>> \o <<>> = <<>>
    BY SubSeqEmpty DEF Staged
  <2> QED
    BY <1>1, <2>1, <2>2, StreamEmpty, Zenon DEF Init, ReadInv, ReadIsFraming, Staged
<1>2. ASSUME ReadInv, [Next]_vars  PROVE ReadInv'
  <2>1. ASSUME NEW x \in Items, ClientSends(x)  PROVE ReadInv'
    BY <1>2, <2>1, ClientSendsStep
  <2>2. CASE PollRead
    BY <1>2, <2>2, PollReadStep
  <2>3. CASE UNCHANGED <<sent, inbox, readBuf, readPos, taken>>
    BY <1>2, <2>3 DEF ReadInv, ReadIsFraming
  <2>4. CASE \/ SocketTakes \/ ConnectionLost \/ \E m \in Messages : Encode(m)
             \/ Write \/ PollFlush \/ PollShutdown \/ WriteFails \/ UNCHANGED vars
    BY <2>3, <2>4 DEF SocketTakes, ConnectionLost, Encode, Write, PollWrite, PollFlush,
                      PollShutdown, WriteFails, vars, readVars
  <2> QED
    BY <1>2, <2>1, <2>2, <2>4 DEF Next
<1> QED
  BY <1>1, <1>2, PTL DEF Spec

\* Nothing that the client sends is lost, repeated or moved on the way to the
\* codec, for messages and buffers of any size.
THEOREM NoByteIsLostReading == Spec => []ReadIsFraming
BY ReadInvariant, PTL DEF ReadInv

-----------------------------------------------------------------------------
(* From the codec to the client.                                           *)

Stages == [buf : Seq(Bytes), sink : Seq(Seq(Bytes))]

Now(buf) == [buf |-> buf, sink |-> sink]

\* What WriteIsFraming says of a stage of flush_write, with the bytes that the
\* codec has not written yet behind its buffer.
Framed(st, unwritten) ==
  /\ st \in Stages
  /\ Len(wire) + Len(st.sink) <= Len(out)
  /\ wire \o st.sink = [i \in 1..(Len(wire) + Len(st.sink)) |-> Body(out[i])]
  /\ st.buf \o unwritten
       = Stream(SubSeq(out, Len(wire) + Len(st.sink) + 1, Len(out)))

\* What the client has and will receive are the first messages, in order.
Delivered ==
  /\ sink \in Seq(Seq(Bytes))
  /\ Len(wire) + Len(sink) <= Len(out)
  /\ wire \o sink = [i \in 1..(Len(wire) + Len(sink)) |-> Body(out[i])]

\* Until the sink fails the buffers hold the frames of the others.
Buffered == codecBuf \in Seq(Bytes) /\ Framed(Now(writeBuf), codecBuf)

WriteInv ==
  /\ out \in Seq(Messages) /\ wire \in Seq(Seq(Bytes))
  /\ Delivered
  /\ writer # "error" => Buffered

\* A buffer that begins with a frame, whatever is behind it.
LEMMA SplitFront ==
  ASSUME NEW T, NEW a \in Seq(T), NEW b \in Seq(T), NEW f \in Seq(T), NEW r \in Seq(T),
         a \o b = f \o r, Len(f) <= Len(a)
  PROVE  /\ \A i \in 1..Len(f) : a[i] = f[i]
         /\ SubSeq(a, Len(f) + 1, Len(a)) \in Seq(T)
         /\ SubSeq(a, Len(f) + 1, Len(a)) \o b = r
<1> DEFINE rest == SubSeq(a, Len(f) + 1, Len(a))
<1>1. /\ Len(a) \in Nat /\ Len(b) \in Nat /\ Len(f) \in Nat /\ Len(r) \in Nat
      /\ \A i \in 1..Len(a) : a[i] \in T
  BY LenProperties, ElementOfSeq
<1>2. /\ Len(a) + Len(b) = Len(f) + Len(r)
      /\ \A i \in 1..(Len(a) + Len(b)) : (a \o b)[i] = IF i <= Len(a) THEN a[i] ELSE b[i - Len(a)]
      /\ \A i \in 1..(Len(f) + Len(r)) : (a \o b)[i] = IF i <= Len(f) THEN f[i] ELSE r[i - Len(f)]
  <2>1. Len(a \o b) = Len(a) + Len(b) /\ Len(f \o r) = Len(f) + Len(r)
    BY ConcatProperties
  <2>2. \A i \in 1..(Len(a) + Len(b)) : (a \o b)[i] = IF i <= Len(a) THEN a[i] ELSE b[i - Len(a)]
    BY ConcatProperties
  <2>3. \A i \in 1..(Len(f) + Len(r)) : (f \o r)[i] = IF i <= Len(f) THEN f[i] ELSE r[i - Len(f)]
    BY ConcatProperties
  <2> QED
    BY <2>1, <2>2, <2>3
<1>3. ASSUME NEW i \in 1..Len(f)  PROVE a[i] = f[i]
  BY <1>1, <1>2
<1>4. /\ rest \in Seq(T) /\ Len(rest) = Len(a) - Len(f)
      /\ \A i \in 1..(Len(a) - Len(f)) : rest[i] = a[Len(f) + i]
  BY <1>1, SubSeqProperties
<1> HIDE DEF rest
<1>5. /\ rest \o b \in Seq(T) /\ Len(rest \o b) = Len(r)
      /\ \A i \in 1..Len(r) :
           (rest \o b)[i] = IF i <= Len(rest) THEN rest[i] ELSE b[i - Len(rest)]
  BY <1>1, <1>2, <1>4, ConcatProperties
<1>6. ASSUME NEW i \in 1..Len(r)  PROVE (rest \o b)[i] = r[i]
  <2>1. Len(f) + i \in 1..(Len(a) + Len(b)) /\ (a \o b)[Len(f) + i] = r[i]
    BY <1>1, <1>2
  <2>2. CASE i <= Len(rest)
    BY <1>1, <1>2, <1>4, <1>5, <2>1, <2>2
  <2>3. CASE ~(i <= Len(rest))
    <3>1. (Len(f) + i) - Len(a) = i - Len(rest) /\ ~(Len(f) + i <= Len(a))
      BY <1>1, <1>4, <2>3
    <3> QED
      BY <1>2, <1>5, <2>1, <2>3, <3>1
  <2> QED
    BY <2>2, <2>3
<1>7. rest \o b = r
  BY <1>5, <1>6, SeqEqual
<1> QED
  BY <1>3, <1>4, <1>7 DEF rest

\* One round of flush_write: the frame at the front of the buffer is that of
\* the next message, and its body goes to the sink.
LEMMA EmitStep ==
  ASSUME BridgeAssumption, out \in Seq(Messages), wire \in Seq(Seq(Bytes)),
         NEW unwritten \in Seq(Bytes), NEW st, Framed(st, unwritten), HasFrame(st.buf)
  PROVE  Framed(EmitOne(st), unwritten)
<1> DEFINE k == Len(wire) + Len(st.sink)
           m == out[k + 1]
           a == st.buf
           f == Frame(m)
           behind == SubSeq(out, k + 2, Len(out))
           r == Stream(behind)
           x == SubSeq(a, HeaderLen + 1, HeaderLen + Size[m])
<1>0. /\ a \in Seq(Bytes) /\ st.sink \in Seq(Seq(Bytes)) /\ st = [buf |-> a, sink |-> st.sink]
      /\ k \in Nat /\ Len(out) \in Nat /\ k <= Len(out) /\ Len(a) \in Nat
      /\ HeaderLen \in Nat \ {0} /\ Len(a) >= HeaderLen
      /\ out \in Seq(Items) /\ \A i \in 1..Len(out) : out[i] \in Messages
  <2>1. st \in Stages
    BY DEF Framed
  <2>2. /\ a \in Seq(Bytes) /\ st.sink \in Seq(Seq(Bytes)) /\ st = [buf |-> a, sink |-> st.sink]
    BY <2>1 DEF Stages
  <2>3. k \in Nat /\ Len(out) \in Nat /\ Len(a) \in Nat
    BY <2>2, LenProperties
  <2>4. k <= Len(out) /\ HeaderLen \in Nat \ {0} /\ Len(a) >= HeaderLen
    BY DEF Framed, HasFrame, HasHeader, BridgeAssumption
  <2>5. out \in Seq(Items)
    BY DEF Items
  <2>6. \A i \in 1..Len(out) : out[i] \in Messages
    BY ElementOfSeq
  <2> QED
    BY <2>2, <2>3, <2>4, <2>5, <2>6
<1>1. k < Len(out)
  <2> SUFFICES ASSUME k = Len(out)  PROVE FALSE
    BY <1>0
  <2>1. SubSeq(out, k + 1, Len(out)) = <<>>
    BY <1>0, SubSeqEmpty
  <2>2. a \o unwritten = <<>>
    BY <2>1, StreamEmpty DEF Framed
  <2>3. Len(a \o unwritten) = Len(a) + Len(unwritten) /\ Len(unwritten) \in Nat
    BY <1>0, ConcatProperties, LenProperties
  <2>4. Len(<<>>) = 0
    OBVIOUS
  <2> QED
    BY <1>0, <2>2, <2>3, <2>4
<1>2. m \in Messages /\ m \in Items /\ behind \in Seq(Items)
  <2>1. m \in Messages
    BY <1>0, <1>1
  <2>2. \A i \in 1..Len(out) : out[i] \in Items
    BY <1>0 DEF Items
  <2>3. behind \in Seq(Items)
    BY <1>0, <2>2, SubSeqProperties
  <2> QED
    BY <2>1, <2>3 DEF Items
<1>3. a \o unwritten = f \o r
  <2>1. SubSeq(out, k + 1, Len(out)) = <<m>> \o behind
    <3> HIDE DEF k
    <3>1. k + 1 \in 1..Len(out) /\ (k + 1) + 1 = k + 2
      BY <1>0, <1>1
    <3>2. SubSeq(out, k + 1, Len(out)) = <<out[k + 1]>> \o SubSeq(out, (k + 1) + 1, Len(out))
      <4> DEFINE u == k + 1
      <4>1. u \in 1..Len(out) /\ Len(out) \in u..Len(out)
        BY <1>0, <3>1
      <4> HIDE DEF u
      <4>2. SubSeq(out, u, Len(out)) = <<out[u]>> \o SubSeq(out, u + 1, Len(out))
        BY <4>1, SubSeqRecursiveFirst
      <4> QED
        BY <4>2 DEF u
    <3> QED
      BY <3>1, <3>2
  <2>2. <<m>> \in Seq(Items)
    BY <1>2
  <2> HIDE DEF m, behind
  <2>3. Stream(<<m>> \o behind) = Share(m) \o r
    BY <1>2, <2>2, StreamConcat, StreamOne
  <2> QED
    BY <1>2, <2>1, <2>3 DEF Share, Framed
<1>4. /\ f \in Seq(Bytes) /\ r \in Seq(Bytes) /\ Len(f) = HeaderLen + Size[m]
      /\ Size[m] \in Nat /\ \A i \in 1..(HeaderLen + Size[m]) : f[i] = <<m, i>>
  <2>1. f \in Seq(Bytes) /\ Len(f) = HeaderLen + Size[m]
    BY <1>2, FrameType
  <2>2. r \in Seq(Bytes)
    BY <1>2, StreamType
  <2>3. \A i \in 1..(HeaderLen + Size[m]) : f[i] = <<m, i>>
    BY DEF Frame
  <2>4. Size[m] \in Nat
    BY <1>2 DEF BridgeAssumption
  <2> QED
    BY <2>1, <2>2, <2>3, <2>4
<1> HIDE DEF k, m, f, r, a, behind, x
<1>5. a[1][1] = m
  <2>1. (a \o unwritten)[1] = a[1]
    <3>1. Len(unwritten) \in Nat
      BY LenProperties
    <3>2. 1 \in 1..(Len(a) + Len(unwritten)) /\ 1 <= Len(a)
      BY <1>0, <3>1
    <3> QED
      BY <1>0, <3>2, ConcatProperties
  <2>2. (f \o r)[1] = f[1]
    <3>1. Len(r) \in Nat
      BY <1>4, LenProperties
    <3>2. Len(f) \in Nat /\ 1 <= Len(f)
      <4>1. HeaderLen \in Nat \ {0}
        BY DEF BridgeAssumption
      <4> QED
        BY <1>4, <4>1
    <3>3. 1 \in 1..(Len(f) + Len(r))
      BY <3>1, <3>2
    <3> QED
      BY <1>4, <3>2, <3>3, ConcatProperties
  <2>3. f[1] = <<m, 1>>
    <3>1. 1 \in 1..(HeaderLen + Size[m])
      BY <1>0, <1>4
    <3> QED
      BY <1>4, <3>1, Zenon
  <2>4. a[1] = <<m, 1>>
    BY <1>3, <2>1, <2>2, <2>3, Zenon
  <2> QED
    BY <2>4
<1>6. Len(f) <= Len(a)
  BY <1>4, <1>5 DEF HasFrame, a
<1>7. /\ \A i \in 1..Len(f) : a[i] = f[i]
      /\ SubSeq(a, Len(f) + 1, Len(a)) \in Seq(Bytes)
      /\ SubSeq(a, Len(f) + 1, Len(a)) \o unwritten = r
  <2>1. a \in Seq(Bytes) /\ f \in Seq(Bytes) /\ r \in Seq(Bytes)
    BY <1>0, <1>4
  <2> QED
    BY <1>3, <1>6, <2>1, SplitFront, ZenonT(30)
<1>8. x \in Seq(Bytes) /\ x = Body(m)
  <2> DEFINE h == HeaderLen
             b == Size[m]
  <2>1. h \in Nat /\ b \in Nat /\ h + b <= Len(a) /\ Len(a) \in Nat
    BY <1>0, <1>4, <1>6
  <2>2. x = SubSeq(a, h + 1, h + b)
    BY DEF x
  <2>3. \A i \in 1..(h + b) : a[i] = <<m, i>>
    BY <1>4, <1>7, Zenon
  <2>4. Body(m) = [i \in 1..b |-> <<m, h + i>>]
    BY DEF Body
  <2> HIDE DEF h, b
  <2>8. /\ x \in Seq(Bytes) /\ Len(x) = (h + b) - (h + 1) + 1
        /\ \A i \in 1..((h + b) - (h + 1) + 1) : x[i] = a[(h + 1) + i - 1]
    <3> DEFINE u == h + 1
               v == h + b
    <3>1. u \in 1..(Len(a) + 1) /\ v \in (u - 1)..Len(a)
      BY <2>1
    <3> HIDE DEF u, v
    <3>2. /\ SubSeq(a, u, v) \in Seq(Bytes)
          /\ Len(SubSeq(a, u, v)) = v - u + 1
          /\ \A i \in 1..(v - u + 1) : SubSeq(a, u, v)[i] = a[u + i - 1]
      <4>1. a \in Seq(Bytes)
        BY <1>0
      <4>2. SubSeq(a, u, v) \in Seq(Bytes)
        BY <3>1, <4>1, Part
      <4>3. Len(SubSeq(a, u, v)) = v - u + 1
        BY <3>1, <4>1, Part
      <4>4. \A i \in 1..(v - u + 1) : SubSeq(a, u, v)[i] = a[u + i - 1]
        BY <3>1, <4>1, Part
      <4> QED
        BY <4>2, <4>3, <4>4
    <3> QED
      BY <2>2, <3>2 DEF u, v
  <2>9. Len(x) = b
    BY <2>1, <2>8
  <2>10. ASSUME NEW i \in 1..b  PROVE x[i] = <<m, h + i>>
    <3>1. i \in 1..((h + b) - (h + 1) + 1) /\ (h + 1) + i - 1 = h + i
      BY <2>1
    <3>2. x[i] = a[h + i]
      BY <2>8, <3>1
    <3>3. h + i \in 1..(h + b)
      BY <2>1
    <3> QED
      BY <2>3, <3>2, <3>3, Zenon
  <2>11. DOMAIN x = 1..b /\ x = [i \in DOMAIN x |-> x[i]]
    BY <2>8, <2>9, LenProperties
  <2>12. x = [i \in 1..b |-> <<m, h + i>>]
    BY <2>10, <2>11, Zenon
  <2> QED
    BY <2>4, <2>8, <2>12
<1>9. EmitOne(st) = [buf  |-> SubSeq(a, Len(f) + 1, Len(a)), sink |-> Append(st.sink, Body(m))]
  BY <1>4, <1>5, <1>8 DEF EmitOne, a, x
<1>10. /\ Append(st.sink, Body(m)) \in Seq(Seq(Bytes))
       /\ Len(Append(st.sink, Body(m))) = Len(st.sink) + 1
  BY <1>0, <1>8, AppendProperties
<1>11. wire \o Append(st.sink, Body(m)) = [i \in 1..(k + 1) |-> Body(out[i])]
  <2> DEFINE w == wire \o st.sink
             y == Body(m)
  <2>1. w = [i \in 1..k |-> Body(out[i])]
    BY DEF Framed, k
  <2>2. w \in Seq(Seq(Bytes)) /\ Len(w) = k /\ y \in Seq(Bytes)
    BY <1>0, <1>8, ConcatProperties DEF k
  <2>3. y = Body(out[k + 1])
    BY DEF m
  <2>4. wire \o Append(st.sink, y) = Append(w, y)
    <3> DEFINE s == st.sink
    <3>1. wire \in Seq(Seq(Bytes)) /\ s \in Seq(Seq(Bytes)) /\ y \in Seq(Bytes)
      BY <1>0, <2>2
    <3> HIDE DEF y, s, w
    <3>2. wire \o Append(s, y) = Append(wire \o s, y)
      <4> DEFINE T == Seq(Bytes)
      <4>1. wire \in Seq(T) /\ s \in Seq(T) /\ y \in T
        BY <3>1
      <4> HIDE DEF T
      <4> QED
        BY <4>1, ConcatAppend
    <3> QED
      BY <3>2 DEF s, w
  <2> HIDE DEF w, y
  <2>5. /\ Append(w, y) \in Seq(Seq(Bytes)) /\ Len(Append(w, y)) = k + 1
        /\ \A i \in 1..k : Append(w, y)[i] = w[i]
        /\ Append(w, y)[k + 1] = y
    BY <1>0, <2>2, AppendProperties
  <2>6. \A i \in 1..(k + 1) : Append(w, y)[i] = Body(out[i])
    <3> SUFFICES ASSUME NEW i \in 1..(k + 1)  PROVE Append(w, y)[i] = Body(out[i])
      OBVIOUS
    <3>1. CASE i = k + 1
      BY <2>3, <2>5, <3>1
    <3>2. CASE i # k + 1
      <4>1. i \in 1..k
        BY <1>0, <3>2
      <4> QED
        BY <2>1, <2>5, <4>1
    <3> QED
      BY <3>1, <3>2
  <2>7. DOMAIN Append(w, y) = 1..(k + 1) /\ Append(w, y) = [i \in DOMAIN Append(w, y) |-> Append(w, y)[i]]
    BY <2>5, LenProperties
  <2>8. Append(w, y) = [i \in 1..(k + 1) |-> Body(out[i])]
    BY <2>6, <2>7
  <2> QED
    BY <2>4, <2>8 DEF y
<1>12. Len(wire) + (Len(st.sink) + 1) = k + 1 /\ k + 1 <= Len(out) /\ (k + 1) + 1 = k + 2
  <2>1. Len(wire) \in Nat /\ Len(st.sink) \in Nat
    BY <1>0, LenProperties
  <2> QED
    BY <1>0, <1>1, <2>1 DEF k
<1>13. EmitOne(st) \in Stages
  BY <1>7, <1>9, <1>10 DEF Stages
<1> DEFINE st2 == EmitOne(st)
<1>14. /\ st2.buf = SubSeq(a, Len(f) + 1, Len(a)) /\ st2.sink = Append(st.sink, Body(m))
       /\ Len(wire) + Len(st2.sink) = k + 1
  <2>1. st2.buf = SubSeq(a, Len(f) + 1, Len(a)) /\ st2.sink = Append(st.sink, Body(m))
    <3> DEFINE u == SubSeq(a, Len(f) + 1, Len(a))
               v == Append(st.sink, Body(m))
    <3>1. st2 = [buf |-> u, sink |-> v]
      BY <1>9
    <3> HIDE DEF st2, u, v
    <3>2. st2.buf = u /\ st2.sink = v
      BY <3>1
    <3> QED
      BY <3>2 DEF u, v
  <2>2. Len(st2.sink) = Len(st.sink) + 1
    BY <1>10, <2>1
  <2> QED
    BY <1>12, <2>1, <2>2
<1> HIDE DEF st2
<1>15. Framed(st2, unwritten)
  BY <1>7, <1>11, <1>12, <1>13, <1>14 DEF Framed, st2, r, behind
<1> QED
  BY <1>15 DEF st2

\* flush_write keeps the frames whole, however often it goes round.
LEMMA FlushStep ==
  ASSUME BridgeAssumption, out \in Seq(Messages), wire \in Seq(Seq(Bytes)),
         NEW unwritten \in Seq(Bytes), NEW buf, Framed(Now(buf), unwritten)
  PROVE  /\ \A k \in 0..SinkRoom : Framed(FlushRounds(buf)[k], unwritten)
         /\ Framed(FlushWrite(buf), unwritten)
<1> DEFINE n == SinkRoom
           Fine == {st \in Stages : Framed(st, unwritten)}
           Again(st) == IF HasFrame(st.buf) /\ Len(st.sink) < SinkRoom THEN EmitOne(st) ELSE st
           step == [i \in 1..n |-> [st \in Fine |-> Again(st)]]
           Equation(f) == f = [k \in 0..n |-> IF k = 0 THEN Now(buf) ELSE Again(f[k - 1])]
           round == CHOOSE f : Equation(f)
           first == Now(buf)
<1>0. n \in Nat
  BY DEF BridgeAssumption
<1>1. first \in Fine
  BY DEF Framed
<1>2. ASSUME NEW st \in Fine  PROVE Again(st) \in Fine
  <2>1. CASE HasFrame(st.buf)
    <3>1. Framed(EmitOne(st), unwritten)
      BY <2>1, EmitStep
    <3>2. EmitOne(st) \in Fine
      BY <3>1 DEF Framed
    <3> QED
      BY <3>2
  <2>2. CASE ~HasFrame(st.buf)
    BY <2>2
  <2> QED
    BY <2>1, <2>2
<1>3. step \in StepFunctions(n, Fine)
  <2> HIDE DEF Fine, Again, n
  <2> QED
    BY <1>2 DEF StepFunctions
<1>4. PICK g : g \in Values(n, Fine, first, step)
  <2> HIDE DEF step, n, Fine, first
  <2> QED
    BY <1>0, <1>1, <1>3, Recursion
<1>5. Equation(g)
  <2>1. /\ g \in [0..n -> Fine] /\ g[0] = first
        /\ \A i \in 1..n : g[i] = step[i][g[i - 1]]
    BY <1>4 DEF Values
  <2>2. ASSUME NEW k \in 0..n  PROVE g[k] = IF k = 0 THEN Now(buf) ELSE Again(g[k - 1])
    <3> HIDE DEF Fine, Again, n
    <3>1. CASE k = 0
      BY <2>1, <3>1
    <3>2. CASE k # 0
      <4>1. k \in 1..n /\ k - 1 \in 0..n
        BY <1>0, <3>2
      <4>2. g[k - 1] \in Fine
        BY <2>1, <4>1
      <4> QED
        BY <2>1, <3>2, <4>1, <4>2
    <3> QED
      BY <3>1, <3>2
  <2> HIDE DEF Fine, Again, n
  <2> QED
    BY <2>1, <2>2
<1>6. Equation(round)
  <2> HIDE DEF Equation
  <2> QED
    BY <1>5
<1>7. FlushRounds(buf) = round /\ FlushWrite(buf) = round[n]
  BY DEF FlushWrite, FlushRounds, Now
<1> HIDE DEF round
<1> DEFINE Proved == {k \in 0..n : round[k] \in Fine}
<1>8. 0 \in Proved
  <2> HIDE DEF Fine, Again
  <2>1. 0 \in 0..n
    BY <1>0
  <2>2. round[0] = first
    BY <1>6, <2>1
  <2> QED
    BY <1>1, <2>1, <2>2
<1>9. ASSUME NEW k \in 1..n, k - 1 \in Proved  PROVE k \in Proved
  <2> HIDE DEF Fine, Again
  <2>1. k \in 0..n /\ k # 0
    BY <1>0
  <2>2. round[k] = Again(round[k - 1])
    BY <1>6, <2>1
  <2>3. round[k - 1] \in Fine
    BY <1>9
  <2> QED
    BY <1>2, <2>1, <2>2, <2>3
<1>10. \A k \in 0..n : round[k] \in Fine
  <2> HIDE DEF Proved
  <2>1. 0..n \subseteq Proved
    BY <1>0, <1>8, <1>9, Induction
  <2> QED
    BY <2>1 DEF Proved
<1>11. n \in 0..n
  BY <1>0
<1> QED
  BY <1>7, <1>10, <1>11

\* What a failed flush has sent are frames.
LEMMA FailureStep ==
  ASSUME BridgeAssumption, out \in Seq(Messages), wire \in Seq(Seq(Bytes)),
         NEW unwritten \in Seq(Bytes), NEW buf, Framed(Now(buf), unwritten),
         NEW st \in FlushFailures(buf)
  PROVE  \E whole : Framed(whole, unwritten) /\ st.sink = whole.sink
<1> DEFINE rounds == {FlushRounds(buf)[k] : k \in 0..SinkRoom}
<1>1. \A r \in rounds : Framed(r, unwritten)
  BY FlushStep
<1>2. \A r \in rounds : [r EXCEPT !.buf = EmitOne(r).buf].sink = r.sink
  <2> SUFFICES ASSUME NEW r \in rounds  PROVE [r EXCEPT !.buf = EmitOne(r).buf].sink = r.sink
    OBVIOUS
  <2>1. r \in Stages
    BY <1>1 DEF Framed
  <2> QED
    BY <2>1 DEF Stages
<1>3. \/ st \in rounds
      \/ \E r \in rounds : st = [r EXCEPT !.buf = EmitOne(r).buf]
  BY DEF FlushFailures
<1> HIDE DEF rounds
<1> QED
  BY <1>1, <1>2, <1>3

\* A step that fails with the sink of a stage of flush_write.
LEMMA FailedStep ==
  ASSUME WriteInv, NEW unwritten, NEW whole, Framed(whole, unwritten),
         sink' = whole.sink, writer' = "error", UNCHANGED <<out, wire>>
  PROVE  WriteInv'
<1>1. whole.sink \in Seq(Seq(Bytes))
  BY DEF Framed, Stages
<1> QED
  BY <1>1 DEF WriteInv, Delivered, Framed

\* A step that flushes a buffer which holds what was in front of unwritten.
LEMMA FlushedStep ==
  ASSUME BridgeAssumption, WriteInv, NEW buf, NEW unwritten \in Seq(Bytes),
         Framed(Now(buf), unwritten),
         writeBuf' = FlushWrite(buf).buf, sink' = FlushWrite(buf).sink,
         codecBuf' = unwritten, UNCHANGED <<out, wire>>
  PROVE  WriteInv'
<1>1. Framed(FlushWrite(buf), unwritten)
  BY FlushStep DEF WriteInv
<1>2. FlushWrite(buf) = Now(writeBuf)'
  <2>1. FlushWrite(buf) \in Stages
    BY <1>1 DEF Framed
  <2> HIDE DEF FlushWrite
  <2> QED
    BY <2>1 DEF Stages, Now
<1>3. Framed(Now(writeBuf), codecBuf)'
  BY <1>1, <1>2 DEF Framed
<1>4. Delivered'
  BY <1>3 DEF Delivered, Framed, Stages, Now
<1> QED
  BY <1>3, <1>4 DEF WriteInv, Buffered

\* poll_write moves bytes from the codec's buffer behind its own.
LEMMA BytesMove ==
  ASSUME Buffered, NEW n \in 1..Len(codecBuf)
  PROVE  /\ SubSeq(codecBuf, n + 1, Len(codecBuf)) \in Seq(Bytes)
         /\ Framed(Now(writeBuf \o SubSeq(codecBuf, 1, n)), SubSeq(codecBuf, n + 1, Len(codecBuf)))
<1> DEFINE front == SubSeq(codecBuf, 1, n)
           rest == SubSeq(codecBuf, n + 1, Len(codecBuf))
           buf == writeBuf \o front
<1>1. n \in 1..Len(codecBuf)
  OBVIOUS
<1>2. codecBuf \in Seq(Bytes) /\ writeBuf \in Seq(Bytes) /\ Framed(Now(writeBuf), codecBuf)
  BY DEF Buffered, Framed, Stages, Now
<1>3. Len(codecBuf) \in Nat /\ n \in 0..Len(codecBuf) /\ Len(codecBuf) \in n..Len(codecBuf)
  BY <1>1, <1>2, LenProperties
<1>4. front \in Seq(Bytes)
  BY <1>1, <1>2, <1>3, Part
<1>5. rest \in Seq(Bytes)
  <2> DEFINE u == n + 1
  <2>1. u \in 1..(Len(codecBuf) + 1) /\ Len(codecBuf) \in (u - 1)..Len(codecBuf)
    BY <1>1, <1>3
  <2> HIDE DEF u
  <2>2. SubSeq(codecBuf, u, Len(codecBuf)) \in Seq(Bytes)
    BY <1>2, <2>1, Part
  <2> QED
    BY <2>2 DEF u
<1>6. front \o rest = codecBuf
  <2>1. 1 \in 1..(Len(codecBuf) + 1) /\ n \in (1 - 1)..Len(codecBuf)
    BY <1>1, <1>3
  <2>2. front \o rest = SubSeq(codecBuf, 1, Len(codecBuf))
    BY <1>2, <1>3, <2>1, ConcatAdjacentSubSeq
  <2> QED
    BY <1>2, <2>2, SubSeqFull
<1> HIDE DEF front, rest
<1>7. (writeBuf \o front) \o rest = writeBuf \o codecBuf
  <2>1. (writeBuf \o front) \o rest = writeBuf \o (front \o rest)
    <3>1. writeBuf \in Seq(Bytes) /\ front \in Seq(Bytes) /\ rest \in Seq(Bytes)
      BY <1>2, <1>4, <1>5
    <3> HIDE DEF buf
    <3> QED
      BY <3>1, BytesConcat, ZenonT(30)
  <2> QED
    BY <1>6, <2>1
<1>8. buf \in Seq(Bytes)
  BY <1>2, <1>4, ConcatProperties
<1> HIDE DEF buf
<1>9. Framed(Now(buf), rest)
  <2>1. buf \o rest = writeBuf \o codecBuf
    BY <1>7 DEF buf
  <2> QED
    BY <1>2, <1>8, <2>1 DEF Framed, Now, Stages
<1> QED
  BY <1>5, <1>9 DEF buf, front, rest

LEMMA PollWriteStep ==
  ASSUME BridgeAssumption, WriteInv, NEW n \in 1..MaxChunk, PollWrite(n)
  PROVE  WriteInv'
<1> DEFINE rest == SubSeq(codecBuf, n + 1, Len(codecBuf))
           buf == writeBuf \o SubSeq(codecBuf, 1, n)
<1>1. /\ n \in 1..Len(codecBuf) /\ Buffered
      /\ writeBuf' = FlushWrite(buf).buf /\ sink' = FlushWrite(buf).sink
      /\ codecBuf' = rest /\ UNCHANGED <<out, wire>>
  BY DEF PollWrite, WriteInv
<1>2. rest \in Seq(Bytes) /\ Framed(Now(buf), rest)
  BY <1>1, BytesMove
<1> HIDE DEF rest, buf
<1> QED
  BY <1>1, <1>2, FlushedStep

\* The sink fails at any point of a poll.
LEMMA WriteFailsStep ==
  ASSUME BridgeAssumption, WriteInv, WriteFails
  PROVE  WriteInv'
<1>1. /\ Buffered /\ writer' = "error" /\ UNCHANGED <<out, wire>>
      /\ out \in Seq(Messages) /\ wire \in Seq(Seq(Bytes))
  BY DEF WriteFails, WriteInv
<1>2. ASSUME NEW n \in 1..MaxChunk, PollWriteFails(n)  PROVE WriteInv'
  <2> DEFINE rest == SubSeq(codecBuf, n + 1, Len(codecBuf))
             buf == writeBuf \o SubSeq(codecBuf, 1, n)
  <2>1. n \in 1..Len(codecBuf)
    BY <1>2 DEF PollWriteFails
  <2>2. PICK st \in FlushFailures(buf) : sink' = st.sink
    BY <1>2 DEF PollWriteFails
  <2>3. rest \in Seq(Bytes) /\ Framed(Now(buf), rest)
    BY <1>1, <2>1, BytesMove
  <2> HIDE DEF rest, buf
  <2>4. PICK whole : Framed(whole, rest) /\ st.sink = whole.sink
    BY <1>1, <2>2, <2>3, FailureStep
  <2> QED
    BY <1>1, <2>2, <2>4, FailedStep
<1>3. CASE PollFlushFails
  <2>1. PICK st \in FlushFailures(writeBuf) \cup {FlushWrite(writeBuf)} : sink' = st.sink
    BY <1>3 DEF PollFlushFails
  <2>2. codecBuf \in Seq(Bytes) /\ Framed(Now(writeBuf), codecBuf)
    BY <1>1 DEF Buffered
  <2>3. PICK whole : Framed(whole, codecBuf) /\ st.sink = whole.sink
    <3>1. CASE st \in FlushFailures(writeBuf)
      BY <1>1, <2>2, <3>1, FailureStep
    <3>2. CASE st = FlushWrite(writeBuf)
      BY <1>1, <2>2, <3>2, FlushStep
    <3> QED
      BY <2>1, <3>1, <3>2
  <2> QED
    BY <1>1, <2>1, <2>3, FailedStep
<1> QED
  BY <1>2, <1>3 DEF WriteFails

\* The codec encodes the next message behind all that it has not written.
LEMMA EncodeStep ==
  ASSUME BridgeAssumption, WriteInv, NEW m \in Messages, Encode(m)
  PROVE  WriteInv'
<1> DEFINE k == Len(wire) + Len(sink)
           rest == SubSeq(out, k + 1, Len(out))
           f == Frame(m)
           r == Stream(rest)
<1>1. out' = Append(out, m) /\ codecBuf' = codecBuf \o f /\ UNCHANGED <<writeBuf, sink, wire>>
  BY DEF Encode
<1>2. /\ out \in Seq(Messages) /\ codecBuf \in Seq(Bytes) /\ writeBuf \in Seq(Bytes)
      /\ sink \in Seq(Seq(Bytes)) /\ wire \in Seq(Seq(Bytes)) /\ k <= Len(out)
      /\ wire \o sink = [i \in 1..k |-> Body(out[i])]
      /\ writeBuf \o codecBuf = r
  BY DEF Encode, WriteInv, Buffered, Framed, Stages, Now
<1>3. k \in Nat /\ Len(out) \in Nat /\ f \in Seq(Bytes)
  BY <1>2, LenProperties, FrameType
<1>4. /\ out' \in Seq(Messages) /\ Len(out') = Len(out) + 1 /\ out'[Len(out) + 1] = m
      /\ \A i \in 1..Len(out) : out'[i] = out[i]
  BY <1>1, <1>2, AppendProperties
<1>5. rest \in Seq(Items) /\ m \in Items
  <2>1. out \in Seq(Items) /\ m \in Items
    BY <1>2 DEF Items
  <2> DEFINE u == k + 1
  <2>2. u \in 1..(Len(out) + 1) /\ Len(out) \in (u - 1)..Len(out)
    BY <1>2, <1>3
  <2> HIDE DEF u
  <2>3. SubSeq(out, u, Len(out)) \in Seq(Items)
    BY <2>1, <2>2, Part
  <2> QED
    BY <2>1, <2>3 DEF u
<1>6. SubSeq(out', k + 1, Len(out')) = Append(rest, m)
  <2> DEFINE u == k + 1
             new == Append(out, m)
             v == Len(out) + 1
  <2>1. /\ u \in 1..v /\ v \in u..Len(new) /\ v - 1 = Len(out) /\ v = Len(new)
        /\ new \in Seq(Messages) /\ new[v] = m
    BY <1>1, <1>2, <1>3, <1>4
  <2> HIDE DEF u, v, new
  <2>2. SubSeq(new, u, v) = SubSeq(new, u, v - 1) \o <<new[v]>>
    <3>1. u \in 1..Len(new) /\ v \in u..Len(new)
      BY <2>1
    <3> QED
      BY <2>1, <3>1, SubSeqRecursiveSecond
  <2>3. SubSeq(new, u, Len(out)) = SubSeq(out, u, Len(out))
    <3>1. u \in 1..(Len(out) + 1) /\ Len(out) \in (u - 1)..Len(out)
      BY <1>2, <1>3 DEF u
    <3>2. /\ SubSeq(out, u, Len(out)) \in Seq(Messages)
          /\ Len(SubSeq(out, u, Len(out))) = Len(out) - u + 1
          /\ \A i \in 1..(Len(out) - u + 1) : SubSeq(out, u, Len(out))[i] = out[u + i - 1]
      BY <1>2, <3>1, Part, SMTT(30)
    <3>3. u \in 1..(Len(new) + 1) /\ Len(out) \in (u - 1)..Len(new)
      BY <1>3, <2>1, <3>1 DEF v
    <3>4. /\ SubSeq(new, u, Len(out)) \in Seq(Messages)
          /\ Len(SubSeq(new, u, Len(out))) = Len(out) - u + 1
          /\ \A i \in 1..(Len(out) - u + 1) : SubSeq(new, u, Len(out))[i] = new[u + i - 1]
      BY <2>1, <3>3, Part
    <3>5. \A i \in 1..(Len(out) - u + 1) : new[u + i - 1] = out[u + i - 1]
      BY <1>1, <1>3, <1>4, <3>1 DEF new
    <3> QED
      BY <3>2, <3>4, <3>5, SeqEqual
  <2>4. SubSeq(out, u, Len(out)) \o <<m>> = Append(SubSeq(out, u, Len(out)), m)
    BY <1>5, AppendIsConcat DEF u
  <2> QED
    BY <1>1, <2>1, <2>2, <2>3, <2>4 DEF u, new
<1>7. Stream(Append(rest, m)) = r \o f
  <2> HIDE DEF rest
  <2>1. Stream(Append(rest, m)) = Stream(rest) \o Share(m)
    BY <1>5, StreamAppend
  <2> QED
    BY <2>1 DEF Share
<1>8. writeBuf \o (codecBuf \o f) = (writeBuf \o codecBuf) \o f
  <2>1. writeBuf \in Seq(Bytes) /\ codecBuf \in Seq(Bytes) /\ f \in Seq(Bytes)
    BY <1>2, <1>3
  <2> HIDE DEF f, r, k, rest
  <2> QED
    BY <2>1, SMTT(30)
<1>9. \A i \in 1..k : out'[i] = out[i]
  BY <1>2, <1>3, <1>4
<1>10. codecBuf' \in Seq(Bytes)
  BY <1>1, <1>2, <1>3, ConcatProperties
<1>11. /\ k' = k /\ k <= Len(out') /\ wire' \o sink' = [i \in 1..k |-> Body(out'[i])]
       /\ writeBuf' \o codecBuf' = Stream(SubSeq(out', k + 1, Len(out')))
  <2>1. k' = k /\ k <= Len(out')
    BY <1>1, <1>2, <1>3, <1>4
  <2>2. wire' \o sink' = [i \in 1..k |-> Body(out'[i])]
    BY <1>1, <1>2, <1>9
  <2>3. writeBuf' \o codecBuf' = Stream(SubSeq(out', k + 1, Len(out')))
    BY <1>1, <1>2, <1>6, <1>7, <1>8
  <2> QED
    BY <2>1, <2>2, <2>3
<1> QED
  BY <1>1, <1>2, <1>4, <1>10, <1>11 DEF WriteInv, Buffered, Delivered, Framed, Stages, Now

\* What the client receives is the first of what the sink holds.
LEMMA SocketStep ==
  ASSUME WriteInv, SocketTakes
  PROVE  WriteInv'
<1>1. /\ sink # <<>> /\ wire' = Append(wire, Head(sink)) /\ sink' = Tail(sink)
      /\ UNCHANGED <<out, codecBuf, writeBuf, writer>>
  BY DEF SocketTakes
<1>2. sink \in Seq(Seq(Bytes)) /\ wire \in Seq(Seq(Bytes))
  BY DEF WriteInv, Delivered
<1> DEFINE x == Head(sink)
           s == Tail(sink)
<1>3. x \in Seq(Bytes) /\ s \in Seq(Seq(Bytes)) /\ Len(s) = Len(sink) - 1 /\ <<x>> \o s = sink
  BY <1>1, <1>2, HeadTailProperties
<1>4. /\ wire' \in Seq(Seq(Bytes)) /\ Len(wire') = Len(wire) + 1
      /\ Len(wire) \in Nat /\ Len(sink) \in Nat
  BY <1>1, <1>2, <1>3, AppendProperties, LenProperties
<1>5. Len(wire') + Len(sink') = Len(wire) + Len(sink)
  BY <1>1, <1>3, <1>4
<1>6. wire' \o sink' = wire \o sink
  <2> HIDE DEF x, s
  <2>1. Append(wire, x) \o s = wire \o (<<x>> \o s)
    BY <1>2, <1>3
  <2> QED
    BY <1>1, <1>3, <2>1 DEF x, s
<1>7. Delivered'
  BY <1>1, <1>3, <1>5, <1>6 DEF WriteInv, Delivered
<1>8. ASSUME Buffered  PROVE Buffered'
  <2>1. writeBuf \in Seq(Bytes)
    BY <1>8 DEF Buffered, Framed, Stages, Now
  <2>2. Framed(Now(writeBuf), codecBuf)'
    BY <1>1, <1>3, <1>5, <1>6, <1>8, <2>1 DEF Buffered, Framed, Stages, Now
  <2> QED
    BY <1>1, <1>8, <2>2 DEF Buffered
<1> QED
  BY <1>1, <1>4, <1>7, <1>8 DEF WriteInv

\* What the codec encoded reaches the client in order, and is buffered frame by
\* frame until the sink fails, in every behaviour.
THEOREM WriteInvariant == Spec => []WriteInv
<1> USE BridgeAssumption
<1>1. ASSUME Init  PROVE WriteInv
  <2>1. /\ out = <<>> /\ codecBuf = <<>> /\ writeBuf = <<>>
        /\ sink = <<>> /\ wire = <<>>
    BY <1>1 DEF Init
  <2>2. /\ <<>> \in Seq(Bytes) /\ <<>> \in Seq(Seq(Bytes)) /\ <<>> \in Seq(Messages)
        /\ Len(<<>>) = 0 /\ 0 + 0 = 0 /\ 0 + 0 + 1 = 1 /\ 0 <= 0
    OBVIOUS
  <2>3. <<>> \o <<>> = <<>>
    OBVIOUS
  <2>4. <<>> = [i \in 1..0 |-> Body(out[i])]
    OBVIOUS
  <2>5. Stream(SubSeq(<<>>, 1, 0)) = <<>>
    <3>1. SubSeq(<<>>, 1, 0) = <<>>
      BY SubSeqEmpty
    <3> QED
      BY <3>1, StreamEmpty, Zenon
  <2>6. Now(writeBuf) \in Stages /\ Now(writeBuf).buf = <<>> /\ Now(writeBuf).sink = <<>>
    BY <2>1, <2>2 DEF Now, Stages
  <2>7. Len(wire) + Len(Now(writeBuf).sink) = 0 /\ Len(out) = 0
    BY <2>1, <2>2, <2>6
  <2>8. wire \o Now(writeBuf).sink = <<>> /\ Now(writeBuf).buf \o codecBuf = <<>>
    BY <2>1, <2>3, <2>6
  <2>9. Framed(Now(writeBuf), codecBuf)
    BY <2>1, <2>2, <2>4, <2>5, <2>6, <2>7, <2>8 DEF Framed
  <2>10. Delivered
    BY <2>9 DEF Delivered, Framed, Stages, Now
  <2> QED
    BY <2>1, <2>2, <2>9, <2>10 DEF WriteInv, Buffered
<1>2. ASSUME WriteInv, [Next]_vars  PROVE WriteInv'
  <2>1. ASSUME NEW m \in Messages, Encode(m)  PROVE WriteInv'
    BY <1>2, <2>1, EncodeStep
  <2>2. ASSUME NEW n \in 1..MaxChunk, PollWrite(n)  PROVE WriteInv'
    BY <1>2, <2>2, PollWriteStep
  <2>3. CASE PollFlush \/ PollShutdown
    <3>1. /\ writeBuf' = FlushWrite(writeBuf).buf /\ sink' = FlushWrite(writeBuf).sink
          /\ UNCHANGED <<out, codecBuf, wire>> /\ writer # "error"
      BY <2>3 DEF PollFlush, PollShutdown
    <3>2. codecBuf \in Seq(Bytes) /\ Framed(Now(writeBuf), codecBuf)
      BY <1>2, <3>1 DEF WriteInv, Buffered
    <3> QED
      BY <1>2, <3>1, <3>2, FlushedStep
  <2>4. CASE SocketTakes
    BY <1>2, <2>4, SocketStep
  <2>5. CASE UNCHANGED writeVars
    BY <1>2, <2>5 DEF WriteInv, Buffered, Delivered, Framed, Stages, Now, writeVars
  <2>6. CASE \/ \E x \in Items : ClientSends(x)
             \/ ConnectionLost \/ PollRead \/ UNCHANGED vars
    BY <2>5, <2>6 DEF ClientSends, ConnectionLost, PollRead, ReadStaged, ReadMessage,
                      ReadClose, ReadPending, ReadEnds, vars
  <2>7. CASE WriteFails
    BY <1>2, <2>7, WriteFailsStep
  <2> QED
    BY <1>2, <2>1, <2>2, <2>3, <2>4, <2>6, <2>7 DEF Next, Write
<1> QED
  BY <1>1, <1>2, PTL DEF Spec

\* The client receives whole bodies, one for each message, in the order in
\* which the codec encoded them, for messages and chunks of any size and
\* wherever the sink fails; until it fails the rest is buffered.
THEOREM NoByteIsLostWriting == Spec => []WriteIsFraming
<1>1. WriteInv => WriteIsFraming
  BY DEF WriteInv, Buffered, Delivered, Framed, Now, WriteIsFraming
<1> QED
  BY <1>1, WriteInvariant, PTL

-----------------------------------------------------------------------------
(* The accept loop and its sessions.                                       *)

TypeInv ==
  /\ loop \in {"accept", "spawn", "check", "exited"}
  /\ backlog \in Seq(Conns)
  /\ conn \in [Conns -> {"none", "waiting", "refused", "accepted", "handshake",
                         "serving", "ended", "over", "killed"}]
  /\ shutdown \in BOOLEAN
  /\ late \in Nat

\* The backlog holds each waiting connection once.
BacklogWaits ==
  /\ \A i \in DOMAIN backlog : conn[backlog[i]] = "waiting"
  /\ \A i, j \in DOMAIN backlog : backlog[i] = backlog[j] => i = j

\* The flag was set by a session that is over, and a connection accepted after
\* it keeps the loop from accepting another.
FlagIsTrue ==
  /\ shutdown => \E c \in Conns : conn[c] = "over"
  /\ loop = "exited" => shutdown
  /\ late = 0 \/ (late = 1 /\ shutdown /\ loop # "accept")

LoopInv == TypeInv /\ BacklogWaits /\ FlagIsTrue

\* Nothing waits in an empty backlog.
LEMMA EmptyBacklog == <<>> \in Seq(Conns) /\ DOMAIN <<>> = {}
OBVIOUS

\* A connection that moves and is neither queued nor over disturbs nothing.
LEMMA ConnectionMoves ==
  ASSUME LoopInv, NEW c \in Conns, conn[c] \notin {"waiting", "over"},
         NEW s \in {"refused", "handshake", "serving", "ended", "over"},
         S!Become(c, s), UNCHANGED backlog
  PROVE  /\ BacklogWaits'
         /\ conn' \in [Conns -> {"none", "waiting", "refused", "accepted", "handshake",
                                 "serving", "ended", "over", "killed"}]
         /\ \A d \in Conns : conn[d] = "over" => conn'[d] = "over"
         /\ conn'[c] = s
<1>1. \A i \in DOMAIN backlog : backlog[i] \in Conns /\ backlog[i] # c
  BY DEF LoopInv, TypeInv, BacklogWaits
<1> QED
  BY <1>1 DEF LoopInv, TypeInv, BacklogWaits, S!Become

\* The oldest waiting connection leaves the backlog.
LEMMA AcceptStep == ASSUME LoopInv, S!Accept  PROVE LoopInv'
<1> DEFINE c == Head(backlog)
<1>1. /\ backlog \in Seq(Conns) /\ backlog # <<>>
      /\ c = backlog[1] /\ c \in Conns /\ 1 \in DOMAIN backlog
      /\ Tail(backlog) \in Seq(Conns)
      /\ \A i \in DOMAIN Tail(backlog) :
           i + 1 \in DOMAIN backlog /\ Tail(backlog)[i] = backlog[i + 1] /\ i \in Nat /\ i > 0
  BY DEF S!Accept, LoopInv, TypeInv
<1>2. conn[c] = "waiting"
  BY <1>1 DEF LoopInv, BacklogWaits
<1>3. conn' = [conn EXCEPT ![c] = "accepted"] /\ backlog' = Tail(backlog)
  BY DEF S!Accept, S!Become
<1>4. \A i \in DOMAIN backlog' : backlog'[i] # c /\ backlog'[i] \in Conns
  BY <1>1, <1>3 DEF LoopInv, BacklogWaits, TypeInv
<1>5. BacklogWaits'
  BY <1>1, <1>3, <1>4 DEF LoopInv, BacklogWaits, TypeInv
<1>6. TypeInv'
  BY <1>1, <1>3 DEF S!Accept, LoopInv, TypeInv
<1>7. FlagIsTrue'
  BY <1>1, <1>2, <1>3 DEF S!Accept, LoopInv, TypeInv, FlagIsTrue
<1> QED
  BY <1>5, <1>6, <1>7 DEF LoopInv

\* A client joins the backlog, or finds no listener.
LEMMA ConnectStep == ASSUME LoopInv, NEW c \in Conns, S!Connect(c)  PROVE LoopInv'
<1>1. CASE loop = "exited"
  BY <1>1, ConnectionMoves DEF S!Connect, LoopInv, TypeInv, FlagIsTrue
<1>2. CASE loop # "exited"
  <2>1. /\ backlog' = Append(backlog, c) /\ backlog \in Seq(Conns)
        /\ conn' = [conn EXCEPT ![c] = "waiting"] /\ conn[c] = "none"
        /\ UNCHANGED <<loop, shutdown, late>>
    BY <1>2 DEF S!Connect, S!Become, LoopInv, TypeInv
  <2>2. \A i \in DOMAIN backlog : backlog[i] \in Conns /\ backlog[i] # c
    BY <2>1 DEF LoopInv, TypeInv, BacklogWaits
  <2>3. /\ backlog' \in Seq(Conns) /\ Len(backlog) \in Nat
        /\ DOMAIN backlog = 1 .. Len(backlog)
        /\ DOMAIN backlog' = 1 .. Len(backlog) + 1
        /\ backlog'[Len(backlog) + 1] = c
        /\ \A i \in DOMAIN backlog : backlog'[i] = backlog[i]
    BY <2>1
  <2>4. BacklogWaits'
    BY <2>1, <2>2, <2>3 DEF LoopInv, TypeInv, BacklogWaits
  <2> QED
    BY <2>1, <2>3, <2>4 DEF LoopInv, TypeInv, FlagIsTrue
<1> QED
  BY <1>1, <1>2

\* Reading the flag: the loop goes on, or ends with everything it had.
LEMMA CheckStep == ASSUME LoopInv, S!Check  PROVE LoopInv'
<1>1. CASE shutdown
  <2>1. backlog' = <<>> /\ loop' = "exited" /\ UNCHANGED <<shutdown, late>>
    BY <1>1 DEF S!Check
  <2>2. \A c \in Conns : conn[c] = "over" => conn'[c] = "over"
    BY <1>1 DEF S!Check, LoopInv, TypeInv
  <2>3. conn' \in [Conns -> {"none", "waiting", "refused", "accepted", "handshake",
                             "serving", "ended", "over", "killed"}]
    BY <1>1 DEF S!Check, LoopInv, TypeInv
  <2>4. TypeInv' /\ BacklogWaits'
    BY <2>1, <2>3, EmptyBacklog DEF LoopInv, TypeInv, BacklogWaits
  <2>5. FlagIsTrue'
    BY <1>1, <2>1, <2>2 DEF LoopInv, FlagIsTrue
  <2> QED
    BY <2>4, <2>5 DEF LoopInv
<1>2. CASE ~shutdown
  BY <1>2 DEF S!Check, LoopInv, TypeInv, BacklogWaits, FlagIsTrue
<1> QED
  BY <1>1, <1>2

\* A session goes from its handshake to its end, and sets the flag.
LEMMA SessionSteps ==
  ASSUME LoopInv, NEW c \in Conns, S!Spawn(c) \/ S!SessionStep(c) \/ S!SessionEnds(c)
  PROVE  LoopInv'
<1> USE DEF LoopInv, TypeInv, FlagIsTrue
<1>1. CASE S!Spawn(c)
  BY <1>1, ConnectionMoves DEF S!Spawn
<1>2. CASE S!HandshakeOk(c)
  BY <1>2, ConnectionMoves DEF S!HandshakeOk
<1>3. CASE S!HandshakeFails(c)
  BY <1>3, ConnectionMoves DEF S!HandshakeFails
<1>4. CASE S!SessionEnds(c)
  BY <1>4, ConnectionMoves DEF S!SessionEnds
<1>5. CASE S!StoreShutdown(c)
  BY <1>5, ConnectionMoves DEF S!StoreShutdown
<1> QED
  BY <1>1, <1>2, <1>3, <1>4, <1>5 DEF S!SessionStep

\* The invariant holds of every run of the accept loop.
THEOREM LoopInvariant == S!Spec => []LoopInv
<1>1. S!Init => LoopInv
  <2> SUFFICES ASSUME S!Init  PROVE LoopInv
    OBVIOUS
  <2>1. BacklogWaits
    BY EmptyBacklog DEF S!Init, BacklogWaits
  <2>2. TypeInv
    BY EmptyBacklog DEF S!Init, TypeInv
  <2>3. FlagIsTrue
    BY DEF S!Init, FlagIsTrue
  <2> QED
    BY <2>1, <2>2, <2>3 DEF LoopInv
<1>2. LoopInv /\ [S!Next]_(S!vars) => LoopInv'
  <2> SUFFICES ASSUME LoopInv, [S!Next]_(S!vars)  PROVE LoopInv'
    OBVIOUS
  <2>1. CASE UNCHANGED S!vars
    BY <2>1 DEF S!vars, LoopInv, TypeInv, BacklogWaits, FlagIsTrue
  <2> QED
    BY <2>1, AcceptStep, ConnectStep, CheckStep, SessionSteps DEF S!Next, S!LoopStep
<1> QED
  BY <1>1, <1>2, PTL DEF S!Spec

\* However many clients connect and however their sessions end: once one has
\* raised the flag, the loop accepts at most one more, and it leaves only
\* after a session was over.
THEOREM AtMostOneMore == S!Spec => []ShutdownIsHeeded
<1>1. LoopInv => ShutdownIsHeeded
  BY DEF LoopInv, TypeInv, FlagIsTrue, ShutdownIsHeeded, S!ShutdownIsHeeded
<1> QED
  BY <1>1, LoopInvariant, PTL
=============================================================================
