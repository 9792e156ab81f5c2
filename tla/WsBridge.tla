------------------------------ MODULE WsBridge ------------------------------
(***************************************************************************)
(* skript-lsp/src/ws.rs: the adapter that lets tower-lsp, which reads and  *)
(* writes a byte stream of "Content-Length: N" frames, talk over a         *)
(* WebSocket, which carries one message per frame.  The two halves share   *)
(* the stream behind a lock (tokio::io::split), so every poll is one step. *)
(*                                                                         *)
(* A byte is the pair <<m, i>>: byte number i of the frame of message m;   *)
(* the first HeaderLen of them are the header, the last of which stands    *)
(* for its "\r\n\r\n".                                                     *)
(***************************************************************************)
EXTENDS Naturals, Sequences, SequencesExt

CONSTANTS Messages,    \* JSON-RPC messages, in either direction
          Size,        \* Size[m]: bytes of the body of m
          Empty,       \* a client message without a payload
          HeaderLen,   \* bytes of a frame header
          MaxIn,       \* bound: messages the client sends, pings included
          MaxOut,      \* bound: messages the server writes
          MaxChunk,    \* bound: bytes moved by one poll_read or poll_write
          SinkRoom     \* messages the WebSocket sink buffers before Pending

ASSUME BridgeAssumption ==
  /\ Size \in [Messages -> Nat \ {0}]
  /\ {Empty, "ping", "close"} \cap Messages = {}
  /\ {HeaderLen, MaxChunk, SinkRoom} \subseteq Nat \ {0}
  /\ {MaxIn, MaxOut} \subseteq Nat

VARIABLES
  sent,       \* everything the client has sent
  inbox,      \* what of it the stream has not taken yet
  readBuf, readPos,
  taken,      \* bytes handed to the codec
  reader,     \* "open", "eof" or "error": what the codec was told
  out,        \* the messages the codec has encoded
  codecBuf,   \* their bytes it has not written yet
  writeBuf,
  sink,       \* messages buffered in the WebSocket sink
  wire,       \* messages the client can receive
  writer,     \* "open", "ready", "closed" or "error": what the last poll said
  up          \* FALSE once the connection is lost

readVars  == <<inbox, readBuf, readPos, taken, reader>>
writeVars == <<out, codecBuf, writeBuf, sink, wire, writer>>
vars == <<sent, readVars, writeVars, up>>

-----------------------------------------------------------------------------
Frame(m) == [i \in 1..(HeaderLen + Size[m]) |-> <<m, i>>]
Body(m)  == [i \in 1..Size[m] |-> <<m, HeaderLen + i>>]

Items == Messages \cup {Empty, "ping", "close"}

Init ==
  /\ sent = <<>> /\ inbox = <<>>
  /\ readBuf = <<>> /\ readPos = 0 /\ taken = <<>> /\ reader = "open"
  /\ out = <<>> /\ codecBuf = <<>> /\ writeBuf = <<>>
  /\ sink = <<>> /\ wire = <<>> /\ writer = "open"
  /\ up = TRUE

-----------------------------------------------------------------------------
(* The client and the network.                                             *)
ClientSends(x) ==
  /\ up /\ Len(sent) < MaxIn
  /\ "close" \notin ToSet(sent)
  /\ sent' = Append(sent, x)
  /\ inbox' = Append(inbox, x)
  /\ UNCHANGED <<readBuf, readPos, taken, reader, writeVars, up>>

SocketTakes ==
  /\ up /\ sink # <<>>
  /\ wire' = Append(wire, Head(sink))
  /\ sink' = Tail(sink)
  /\ UNCHANGED <<sent, readVars, out, codecBuf, writeBuf, writer, up>>

ConnectionLost ==
  /\ up
  /\ up' = FALSE
  /\ UNCHANGED <<sent, readVars, writeVars>>

-----------------------------------------------------------------------------
(* poll_read.                                                              *)

\* Control frames and empty payloads are passed over.
Skipped(x) == x \in {Empty, "ping"}

\* The position of the item that the receive loop stops at, 0 if none.
NextItem == SelectInSeq(inbox, LAMBDA x : ~Skipped(x))

\* put_slice of what fits into the caller's buffer of cap bytes.
Deliver(buf, pos, cap) ==
  LET n == IF Len(buf) - pos < cap THEN Len(buf) - pos ELSE cap
      last == pos + n >= Len(buf)
  IN  /\ taken' = taken \o SubSeq(buf, pos + 1, pos + n)
      /\ readBuf' = IF last THEN <<>> ELSE buf
      /\ readPos' = IF last THEN 0 ELSE pos + n
      /\ UNCHANGED reader

\* Fault: a poll takes the next message although one is still staged.
FaultReadOverStaged(cap) ==
  /\ reader = "open"
  /\ NextItem # 0 /\ inbox[NextItem] \in Messages
  /\ inbox' = SubSeq(inbox, NextItem + 1, Len(inbox))
  /\ Deliver(Frame(inbox[NextItem]), 0, cap)
  /\ UNCHANGED <<sent, writeVars, up>>

ReadStaged(cap) ==
  /\ reader = "open"
  /\ readPos < Len(readBuf)
  /\ Deliver(readBuf, readPos, cap)
  /\ UNCHANGED <<sent, inbox, writeVars, up>>

ReadMessage(cap) ==
  /\ reader = "open"
  /\ readPos >= Len(readBuf)
  /\ NextItem # 0 /\ inbox[NextItem] \in Messages
  /\ inbox' = SubSeq(inbox, NextItem + 1, Len(inbox))
  /\ Deliver(Frame(inbox[NextItem]), 0, cap)
  /\ UNCHANGED <<sent, writeVars, up>>

ReadClose ==
  /\ reader = "open"
  /\ readPos >= Len(readBuf)
  /\ NextItem # 0 /\ inbox[NextItem] = "close"
  /\ inbox' = SubSeq(inbox, NextItem + 1, Len(inbox))
  /\ reader' = "eof"
  /\ UNCHANGED <<sent, readBuf, readPos, taken, writeVars, up>>

\* Nothing but control frames: they are consumed and the poll is Pending.
ReadPending ==
  /\ reader = "open"
  /\ readPos >= Len(readBuf)
  /\ NextItem = 0 /\ inbox # <<>>
  /\ inbox' = <<>>
  /\ UNCHANGED <<sent, readBuf, readPos, taken, reader, writeVars, up>>

\* poll_next returns None or an error once the connection is gone.
ReadEnds ==
  /\ reader = "open"
  /\ readPos >= Len(readBuf)
  /\ ~up /\ NextItem = 0
  /\ inbox' = <<>>
  /\ reader' \in {"eof", "error"}
  /\ UNCHANGED <<sent, readBuf, readPos, taken, writeVars, up>>

PollRead ==
  \/ \E cap \in 1..MaxChunk : ReadStaged(cap) \/ ReadMessage(cap)
  \/ ReadClose \/ ReadPending \/ ReadEnds

-----------------------------------------------------------------------------
(* flush_write and the three polls that call it.                           *)

\* parse_content_length: the header must stand at the start of the buffer,
\* because its first line is compared with the prefix "Content-Length:".
HasHeader(buf) ==
  /\ Len(buf) >= HeaderLen
  /\ \A i \in 1..HeaderLen : buf[i] = <<buf[1][1], i>>

\* Header and body of the first frame are there.
HasFrame(buf) ==
  /\ HasHeader(buf)
  /\ Len(buf) >= HeaderLen + Size[buf[1][1]]

\* One round of the loop: the body goes to the sink, the frame is drained.
EmitOne(st) ==
  LET end == HeaderLen + Size[st.buf[1][1]]
  IN  [buf  |-> SubSeq(st.buf, end + 1, Len(st.buf)),
       sink |-> Append(st.sink, SubSeq(st.buf, HeaderLen + 1, end))]

\* The state after each round of the loop; a round without a complete frame or
\* without room in the sink changes nothing.
FlushRounds(buf) ==
  LET round[k \in 0..SinkRoom] ==
        IF k = 0 THEN [buf |-> buf, sink |-> sink]
        ELSE LET st == round[k - 1]
             IN  IF HasFrame(st.buf) /\ Len(st.sink) < SinkRoom THEN EmitOne(st) ELSE st
  IN  round

\* Fault: the frame is drained before the sink is asked for room.
FaultDrainBeforeReady(buf) ==
  LET round[k \in 0..SinkRoom] ==
        IF k = 0 THEN [buf |-> buf, sink |-> sink]
        ELSE LET st == round[k - 1]
             IN  IF ~HasFrame(st.buf) THEN st
                 ELSE IF Len(st.sink) < SinkRoom THEN EmitOne(st)
                 ELSE [EmitOne(st) EXCEPT !.sink = st.sink]
  IN  round[SinkRoom]

\* The loop ends without a complete frame (Ready) or without room in the sink
\* (Pending, the frame stays in the buffer).
FlushWrite(buf) == FlushRounds(buf)[SinkRoom]

\* What an error leaves, after any round with another frame to send: the frame
\* is in the buffer when the sink is not ready, and nowhere when the sink was
\* ready and start_send refuses it.
FlushFailures(buf) ==
  LET tried == {st \in {FlushRounds(buf)[k] : k \in 0..SinkRoom} : HasFrame(st.buf)}
  IN  tried \cup {[st EXCEPT !.buf = EmitOne(st).buf] :
                    st \in {s \in tried : Len(s.sink) < SinkRoom}}

\* The codec encodes a message into its own buffer.
Encode(m) ==
  /\ writer \in {"open", "ready"} /\ Len(out) < MaxOut
  /\ out' = Append(out, m)
  /\ codecBuf' = codecBuf \o Frame(m)
  /\ UNCHANGED <<sent, readVars, writeBuf, sink, wire, writer, up>>

\* poll_write takes every byte it is given, whatever flush_write says.
PollWrite(n) ==
  /\ writer \in {"open", "ready"}
  /\ n \in 1..Len(codecBuf)
  /\ LET st == FlushWrite(writeBuf \o SubSeq(codecBuf, 1, n))
     IN  writeBuf' = st.buf /\ sink' = st.sink
  /\ codecBuf' = SubSeq(codecBuf, n + 1, Len(codecBuf))
  /\ writer' = "open"
  /\ UNCHANGED <<sent, readVars, out, wire, up>>

\* Fault: poll_flush only flushes the sink.
FaultFlushSinkOnly ==
  /\ writer \in {"open", "ready"}
  /\ writer' = IF sink = <<>> THEN "ready" ELSE "open"
  /\ UNCHANGED <<sent, readVars, out, codecBuf, writeBuf, sink, wire, up>>

\* poll_flush, Ready once no complete frame is left and the sink is empty.
PollFlush ==
  /\ writer \in {"open", "ready"}
  /\ LET st == FlushWrite(writeBuf)
     IN  /\ writeBuf' = st.buf /\ sink' = st.sink
         /\ writer' = IF ~HasFrame(st.buf) /\ st.sink = <<>> THEN "ready" ELSE "open"
  /\ UNCHANGED <<sent, readVars, out, codecBuf, wire, up>>

\* poll_shutdown: flush_write, then the closing handshake behind what the sink
\* still holds.  The codec shuts down with its own buffer written.
PollShutdown ==
  /\ writer \in {"open", "ready"}
  /\ codecBuf = <<>>
  /\ LET st == FlushWrite(writeBuf)
     IN  /\ writeBuf' = st.buf /\ sink' = st.sink
         /\ writer' = IF ~HasFrame(st.buf) /\ st.sink = <<>> THEN "closed" ELSE "open"
  /\ UNCHANGED <<sent, readVars, out, codecBuf, wire, up>>

\* poll_write fails behind its extend_from_slice: the bytes are in writeBuf, and
\* in the codec's buffer as well, which is told of the error only.
PollWriteFails(n) ==
  /\ n \in 1..Len(codecBuf)
  /\ \E st \in FlushFailures(writeBuf \o SubSeq(codecBuf, 1, n)) :
       writeBuf' = st.buf /\ sink' = st.sink

\* poll_flush and poll_shutdown fail in flush_write, or in the flush or the
\* close of the sink behind it.
PollFlushFails ==
  LET flushed == {st \in {FlushWrite(writeBuf)} : ~HasFrame(st.buf)}
  IN  \E st \in FlushFailures(writeBuf) \cup flushed :
        writeBuf' = st.buf /\ sink' = st.sink

\* The sink fails, because the connection is lost or the client has closed its
\* side.  tower-lsp writes no more.
WriteFails ==
  /\ writer \in {"open", "ready"}
  /\ ~up \/ reader # "open"
  /\ PollFlushFails \/ \E n \in 1..MaxChunk : PollWriteFails(n)
  /\ writer' = "error"
  /\ UNCHANGED <<sent, readVars, out, codecBuf, wire, up>>

Write == \E n \in 1..MaxChunk : PollWrite(n)

Next ==
  \/ \E x \in Items : ClientSends(x)
  \/ SocketTakes \/ ConnectionLost
  \/ PollRead
  \/ \E m \in Messages : Encode(m)
  \/ Write \/ PollFlush \/ PollShutdown \/ WriteFails

Spec == Init /\ [][Next]_vars

\* tower-lsp polls its input while the session is open, writes what it has
\* encoded and flushes it; the client's socket takes what it is sent.
Fairness ==
  /\ WF_vars(PollRead)
  /\ WF_vars(Write) /\ WF_vars(PollFlush)
  /\ WF_vars(SocketTakes)

FairSpec == Spec /\ Fairness

-----------------------------------------------------------------------------
(* Properties.                                                             *)

\* The byte stream of a sequence of items: the frames of its messages.
Share(x) == IF x \in Messages THEN Frame(x) ELSE <<>>
Stream(items) == FlattenSeq([i \in DOMAIN items |-> Share(items[i])])

\* The codec reads exactly the frames of the client's messages, in order:
\* however small its buffer is and wherever pings, pongs and empty messages
\* stand, no byte is lost, repeated or moved, and what is staged or unread
\* is the rest.  At the end of the stream nothing is left.
ReadIsFraming ==
  taken \o SubSeq(readBuf, readPos + 1, Len(readBuf)) \o Stream(inbox) = Stream(sent)

\* The client receives whole bodies, one per message, in the order they were
\* encoded, without a gap, a half or a second copy, also when the sink has
\* failed; and until it fails, what the client has not received is buffered,
\* frame by frame.  Behind a failure the buffers are worth nothing: a frame that
\* start_send refuses is gone, and bytes that poll_write has taken are in both.
WriteIsFraming ==
  LET k == Len(wire) + Len(sink)
  IN  /\ k <= Len(out)
      /\ wire \o sink = [i \in 1..k |-> Body(out[i])]
      /\ writer # "error" =>
           writeBuf \o codecBuf = Stream(SubSeq(out, k + 1, Len(out)))

\* Both directions move on: what the client sent reaches the codec, and what
\* the codec encoded reaches the client, unless the connection is lost or
\* closed.  A frame left behind by a Pending sink is not forgotten.
EverythingArrives ==
  /\ (reader = "open" /\ inbox # <<>>) ~> (inbox = <<>> /\ readBuf = <<>>)
  /\ \A k \in 1..MaxOut :
       Len(out) >= k ~> (Len(wire) >= k \/ writer \in {"error", "closed"} \/ ~up)
=============================================================================
