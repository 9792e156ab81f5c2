---------------------------- MODULE EngineService ----------------------------
(***************************************************************************)
(* What the pattern engine promises its callers, without threads, locks or *)
(* condition variables: accepted calls are resolved in the order they were *)
(* accepted, each exactly once, with an answer while the engine is         *)
(* available and with None ever after it has become unavailable.           *)
(***************************************************************************)
EXTENDS Sequences

CONSTANT Calls

VARIABLES
  available,   \* FALSE once no answer can ever be given again
  inbox,       \* accepted calls that are not resolved, oldest first
  outcome      \* how each call was resolved

vars == <<available, inbox, outcome>>

TypeOK ==
  /\ available \in BOOLEAN
  /\ inbox \in Seq(Calls)
  /\ outcome \in [Calls -> {"open", "answer", "none"}]

Init ==
  /\ available = TRUE
  /\ inbox = <<>>
  /\ outcome = [c \in Calls |-> "open"]

Pending == {inbox[i] : i \in DOMAIN inbox}

\* A call joins the inbox; an unavailable engine may still accept it.
Accept(c) ==
  /\ outcome[c] = "open" /\ c \notin Pending
  /\ inbox' = Append(inbox, c)
  /\ UNCHANGED <<available, outcome>>

\* The oldest call is answered.
Answer ==
  /\ available /\ inbox # <<>>
  /\ outcome' = [outcome EXCEPT ![Head(inbox)] = "answer"]
  /\ inbox' = Tail(inbox)
  /\ UNCHANGED available

\* The oldest call is told that there is no engine.
Decline ==
  /\ ~available /\ inbox # <<>>
  /\ outcome' = [outcome EXCEPT ![Head(inbox)] = "none"]
  /\ inbox' = Tail(inbox)
  /\ UNCHANGED available

\* A call is refused without having been accepted.
Refuse(c) ==
  /\ ~available
  /\ outcome[c] = "open" /\ c \notin Pending
  /\ outcome' = [outcome EXCEPT ![c] = "none"]
  /\ UNCHANGED <<available, inbox>>

\* The engine fails but still speaks: accepted calls will be declined.
Fail ==
  /\ available
  /\ available' = FALSE
  /\ UNCHANGED <<inbox, outcome>>

\* The engine dies: every accepted call resolves to None at once.
Collapse ==
  /\ available
  /\ available' = FALSE
  /\ outcome' = [c \in Calls |-> IF c \in Pending THEN "none" ELSE outcome[c]]
  /\ inbox' = <<>>

Next ==
  \/ \E c \in Calls : Accept(c) \/ Refuse(c)
  \/ Answer \/ Decline \/ Fail \/ Collapse

Spec == Init /\ [][Next]_vars
=============================================================================
