------------------------------ MODULE Sessions ------------------------------
(***************************************************************************)
(* skript-lsp/src/main.rs, serve_websocket: the accept loop, the session   *)
(* tasks it spawns, and the shutdown flag by which a session that is over  *)
(* asks the loop to exit.  Returning from the loop ends main, which drops  *)
(* the runtime and every task in it.                                       *)
(***************************************************************************)
EXTENDS Naturals, Sequences, SequencesExt

CONSTANT Conns   \* the TCP connections clients make

VARIABLES
  loop,       \* "accept", "spawn", "check" or "exited"
  backlog,    \* connections the listener has not accepted, oldest first
  conn,       \* where each connection stands
  shutdown,   \* the AtomicBool shared with the session tasks
  late        \* connections accepted after the flag was set

vars == <<loop, backlog, conn, shutdown, late>>

Init ==
  /\ loop = "accept"
  /\ backlog = <<>>
  /\ conn = [c \in Conns |-> "none"]
  /\ shutdown = FALSE
  /\ late = 0

-----------------------------------------------------------------------------
Become(c, s) == conn' = [conn EXCEPT ![c] = s]

\* A client connects; without a listener it is refused.
Connect(c) ==
  /\ conn[c] = "none"
  /\ IF loop = "exited"
       THEN Become(c, "refused") /\ UNCHANGED backlog
       ELSE Become(c, "waiting") /\ backlog' = Append(backlog, c)
  /\ UNCHANGED <<loop, shutdown, late>>

\* listener.accept; an error makes the loop `continue`, which changes nothing.
Accept ==
  /\ loop = "accept" /\ backlog # <<>>
  /\ Become(Head(backlog), "accepted")
  /\ backlog' = Tail(backlog)
  /\ loop' = "spawn"
  /\ late' = IF shutdown THEN late + 1 ELSE late
  /\ UNCHANGED shutdown

\* tokio::spawn of the session task.
Spawn(c) ==
  /\ loop = "spawn" /\ conn[c] = "accepted"
  /\ Become(c, "handshake")
  /\ loop' = "check"
  /\ UNCHANGED <<backlog, shutdown, late>>

\* Fault: the flag is looked at by nobody.
FaultNeverCheck ==
  /\ loop = "check"
  /\ loop' = "accept"
  /\ UNCHANGED <<backlog, conn, shutdown, late>>

\* The load of the flag, and the end of the process when it is set.
Check ==
  /\ loop = "check"
  /\ IF shutdown
       THEN /\ loop' = "exited"
            /\ conn' = [c \in Conns |->
                 CASE conn[c] \in {"handshake", "serving", "ended"} -> "killed"
                   [] conn[c] = "waiting" -> "refused"
                   [] OTHER -> conn[c]]
            /\ backlog' = <<>>
       ELSE loop' = "accept" /\ UNCHANGED <<backlog, conn>>
  /\ UNCHANGED <<shutdown, late>>

\* accept_async, the WebSocket upgrade.
HandshakeOk(c) ==
  /\ conn[c] = "handshake"
  /\ Become(c, "serving")
  /\ UNCHANGED <<loop, backlog, shutdown, late>>

HandshakeFails(c) ==
  /\ conn[c] = "handshake"
  /\ Become(c, "ended")
  /\ UNCHANGED <<loop, backlog, shutdown, late>>

\* Server::serve returns: exit notification, end of input or broken socket.
SessionEnds(c) ==
  /\ conn[c] = "serving"
  /\ Become(c, "ended")
  /\ UNCHANGED <<loop, backlog, shutdown, late>>

\* The last thing a session task does, whether it failed or not.
StoreShutdown(c) ==
  /\ conn[c] = "ended"
  /\ Become(c, "over")
  /\ shutdown' = TRUE
  /\ UNCHANGED <<loop, backlog, late>>

LoopStep == Accept \/ (\E c \in Conns : Spawn(c)) \/ Check
SessionStep(c) == HandshakeOk(c) \/ HandshakeFails(c) \/ StoreShutdown(c)

Next ==
  \/ LoopStep
  \/ \E c \in Conns : Connect(c) \/ SessionStep(c) \/ SessionEnds(c)

Spec == Init /\ [][Next]_vars

\* The loop and the tasks run; no client has to connect or to leave.
Fairness == WF_vars(LoopStep) /\ \A c \in Conns : WF_vars(SessionStep(c))

FairSpec == Spec /\ Fairness

-----------------------------------------------------------------------------
(* Properties.                                                             *)

\* Once a session has asked for the exit, at most one more connection is
\* accepted, and the loop does not exit before a session was over.
ShutdownIsHeeded ==
  /\ late <= 1
  /\ late = 1 => loop \in {"spawn", "check", "exited"}
  /\ loop = "exited" => \E c \in Conns : conn[c] = "over"

\* A second client that finds the listener after the first session ended is
\* never left half open: it ends killed or over, and later ones are refused.
NobodyHangs ==
  \A c \in Conns :
    (shutdown /\ conn[c] = "waiting") ~> (conn[c] \in {"killed", "over", "refused"})

\* "treat the first session's end as a request to exit": it makes the process
\* exit.
SessionEndExits == shutdown ~> (loop = "exited")

\* "have the process exit when no session is alive": no session is cut off by
\* the exit.
ExitSparesSessions ==
  [][loop' = "exited" /\ loop # "exited" =>
       \A c \in Conns : conn[c] \notin {"handshake", "serving"}]_vars
=============================================================================
