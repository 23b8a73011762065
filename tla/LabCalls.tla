------------------------------ MODULE LabCalls ------------------------------
(***************************************************************************)
(* labrpc under clients that call and an administrator that does anything  *)
(* its interface allows at any time, shown to implement LossyCalls.        *)
(***************************************************************************)
EXTENDS LabRPC

CONSTANT MaxSwitches   \* bound: how often the administrator changes a table

ASSUME SwitchesAssumption == MaxSwitches \in Nat

VARIABLES switches,    \* how often it has
          executed,    \* calls whose handler has run
          late         \* those whose server object was no longer installed

vars == <<lvars, switches, executed, late>>

Init ==
  /\ MakeNetwork
  /\ switches = 0 /\ executed = {} /\ late = {}

HandlerRuns(c) ==
  /\ RunHandler(c)
  /\ executed' = executed \cup {c}
  /\ late' = IF servers[call[c].name] = call[c].obj THEN late ELSE late \cup {c}
  /\ UNCHANGED <<switches, exited>>

Switch ==
  /\ switches < MaxSwitches /\ Administer
  /\ switches' = switches + 1
  /\ UNCHANGED <<done, dispatcher, call, handler, exited, executed, late>>

Silent ==
  \/ Cleanup \/ DispatcherReturns
  \/ \E c \in Calls : ClientStep(c) \/ RequestStep(c) \/ \E e \in Ends : Call(c, e)

Next ==
  /\ ~ exited
  /\ \/ Silent /\ UNCHANGED <<exited, switches, executed, late>>
     \/ Switch
     \/ \E c \in Calls : \/ HandlerRuns(c)
                         \/ (dispatchUnknown(c) \/ decodeReplyFails(c)) /\ UNCHANGED <<switches, executed, late>>

Spec == Init /\ [][Next]_vars

(***************************************************************************)
(* The scheduler runs every goroutine that can run; a handler returns      *)
(* unless it is one that hangs.                                            *)
(***************************************************************************)
Running(A) == ~ exited /\ A /\ UNCHANGED <<exited, switches, executed, late>>

FairSpec ==
  /\ Spec
  /\ WF_vars(Running(DispatcherReturns))
  /\ \A c \in Calls : /\ WF_vars(Running(ClientStep(c)))
                      /\ WF_vars(Running(RequestStep(c)))
                      /\ WF_vars(~ exited /\ HandlerRuns(c))

-----------------------------------------------------------------------------
(* Types of the tables of Network, and where a call and its handler may be. *)
TypeOK ==
  /\ reliable \in BOOLEAN /\ ends \subseteq Ends
  /\ enabled \in [Ends -> BOOLEAN]
  /\ connections \in [Ends -> Servers \cup {nil}]
  /\ servers \in [Servers -> Objects \cup {nil}] /\ used \subseteq Objects
  /\ done \in BOOLEAN /\ dispatcher \in BOOLEAN /\ exited \in BOOLEAN
  /\ call \in [Calls -> [at : {"idle", "send", "accepted", "request", "wait", "check", "reply", "returned"},
                         end : Ends \cup {nil}, name : Servers \cup {nil},
                         obj : Objects \cup {nil}, sure : BOOLEAN, ok : BOOLEAN]]
  /\ handler \in [Calls -> {"none", "started", "replies", "returned"}]
  /\ switches \in 0 .. MaxSwitches /\ executed \subseteq Calls /\ late \subseteq executed

(***************************************************************************)
(* A call whose handler ran when its server had already been deleted or    *)
(* replaced is never answered positively: processReq asks isServerDead     *)
(* again after the handler has returned, not only while it waits.          *)
(***************************************************************************)
NoStalePositive ==
  \A c \in Calls : At(c, "returned") /\ call[c].ok => c \notin late

(***************************************************************************)
(* The network implements LossyCalls: one answer per call, TRUE only for   *)
(* what was executed, no request executed twice, and an answer for every   *)
(* call whose handler returns, also after Cleanup, unless log.Fatalf ends  *)
(* the process.                                                            *)
(***************************************************************************)
Status(c) ==
  CASE At(c, "idle") -> "idle"
    [] At(c, "returned") -> IF call[c].ok THEN "true" ELSE "false"
    [] OTHER -> "waiting"

Lossy == INSTANCE LossyCalls WITH status <- [c \in Calls |-> Status(c)], stopped <- exited

(* Call and processReq implement it, fairness included. *)
ImplementsLossyCalls == Lossy!Spec

(***************************************************************************)
(* The goroutine of a handler that has returned ends: its reply is taken   *)
(* by the waiting processReq or drained, unless the process ends first.    *)
(***************************************************************************)
HandlersEnd ==
  \A c \in Calls : handler[c] = "replies" ~> handler[c] = "returned" \/ exited
=============================================================================
