----------------------------- MODULE LossyCalls -----------------------------
(***************************************************************************)
(* What labrpc promises its users (labrpc.go, lines 26-38): a call is      *)
(* answered once; TRUE means that the server has executed the request,     *)
(* FALSE says nothing, the request may even be executed later; a request   *)
(* is executed at most once; and a call is answered unless its handler     *)
(* does not return or the process ends.                                    *)
(***************************************************************************)
CONSTANTS Calls, Hangs

VARIABLES status,     \* per call: "idle", "waiting", "true" or "false"
          executed,   \* requests that were executed
          stopped     \* the process has ended

Init ==
  /\ status = [c \in Calls |-> "idle"]
  /\ executed = {}
  /\ stopped = FALSE

Issue(c) ==
  /\ status[c] = "idle"
  /\ status' = [status EXCEPT ![c] = "waiting"]
  /\ UNCHANGED executed

Execute(c) ==
  /\ status[c] \in {"waiting", "false"} /\ c \notin executed
  /\ executed' = executed \cup {c}
  /\ UNCHANGED status

Answer(c) ==
  /\ status[c] = "waiting"
  /\ \/ status' = [status EXCEPT ![c] = "false"]
     \/ c \in executed /\ status' = [status EXCEPT ![c] = "true"]
  /\ UNCHANGED executed

Step(A) == ~ stopped /\ A /\ UNCHANGED stopped

Stop == ~ stopped /\ stopped' = TRUE /\ UNCHANGED <<status, executed>>

vars == <<status, executed, stopped>>

Next == Stop \/ \E c \in Calls : Step(Issue(c) \/ Execute(c) \/ Answer(c))

Safety == Init /\ [][Next]_vars

Spec ==
  /\ Safety
  /\ \A c \in Calls \ Hangs : WF_vars(Step(Answer(c)))
=============================================================================
