---------------------------- MODULE MCTransport ----------------------------
(***************************************************************************)
(* The two halves of the WebSocket transport, side by side: from an        *)
(* initial state either the bridge of one connection runs, or the accept   *)
(* loop and its sessions do, while the other half rests where it began.    *)
(***************************************************************************)
EXTENDS WsBridge, TLC

CONSTANTS m1, m2, Conns,
          MaxBoth   \* bound: messages of both directions together

VARIABLES loop, backlog, conn, shutdown, late, half

S == INSTANCE Sessions
sessions == <<loop, backlog, conn, shutdown, late>>
allVars == <<vars, sessions, half>>

\* One body of a single byte and one longer than a chunk.
MCSize == (m1 :> 1) @@ (m2 :> 2)

MCInit == Init /\ S!Init /\ half \in {"bridge", "sessions"}

OfBridge(A) ==
  /\ half = "bridge" /\ A /\ UNCHANGED <<sessions, half>>
  /\ Len(sent') + Len(out') <= MaxBoth
OfSessions(A) == half = "sessions" /\ A /\ UNCHANGED <<vars, half>>

MCNext == OfBridge(Next) \/ OfSessions(S!Next)

\* The fairness of both modules.
MCFairness ==
  /\ WF_allVars(OfBridge(PollRead))
  /\ WF_allVars(OfBridge(Write)) /\ WF_allVars(OfBridge(PollFlush))
  /\ WF_allVars(OfBridge(SocketTakes))
  /\ WF_allVars(OfSessions(S!LoopStep))
  /\ \A c \in Conns : WF_allVars(OfSessions(S!SessionStep(c)))

MCSpec == MCInit /\ [][MCNext]_allVars /\ MCFairness

\* Once a session has asked for the exit, at most one more connection is
\* accepted, and the loop does not exit before a session was over.
ShutdownIsHeeded == S!ShutdownIsHeeded

\* A client that waits when the flag is up is not left half open.
NobodyHangs == S!NobodyHangs
=============================================================================
