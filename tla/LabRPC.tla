------------------------------- MODULE LabRPC -------------------------------
(***************************************************************************)
(* The simulated network of labrpc.go: Network with its tables, Call in a  *)
(* client goroutine, one goroutine processReq and one handler goroutine    *)
(* per request.  A section under rn.mu is one step.  Sleeps and timers are *)
(* durations only, so a delayed reply is one that is delivered later; the  *)
(* switches longDelays and longReordering choose durations and are left    *)
(* out.  What a handler does to its server is up to the module that        *)
(* composes this one with a service.                                       *)
(***************************************************************************)
EXTENDS Naturals, FiniteSets

CONSTANTS Calls,      \* the calls of ClientEnd.Call, each made once
          Ends,       \* names of client ends
          Servers,    \* names of servers
          Objects,    \* *Server values
          Hangs,      \* calls whose handler never returns
          Unknown,    \* calls that name a service or method nobody has
          nil

ASSUME NilAssumption == nil \notin Servers \cup Objects

VARIABLES
  reliable,     \* rn.reliable
  ends,         \* keys of rn.ends
  enabled,      \* rn.enabled
  connections,  \* rn.connections
  servers,      \* rn.servers
  used,         \* objects made so far: MakeServer gives a new one
  done,         \* rn.done is closed
  dispatcher,   \* the goroutine of MakeNetwork runs
  call,         \* per call: where Call and its processReq are
  handler,      \* per call: the goroutine that runs server.dispatch
  exited        \* log.Fatalf has ended the process

netVars == <<reliable, ends, enabled, connections, servers, used>>
lvars == <<netVars, done, dispatcher, call, handler, exited>>

(***************************************************************************)
(* A call: where it is, its end, what readEndnameInfo gave, and its reply. *)
(***************************************************************************)
NoCall == [at |-> "idle", end |-> nil, name |-> nil, obj |-> nil, sure |-> TRUE, ok |-> FALSE]

At(c, place) == call[c].at = place

(***************************************************************************)
(* MakeNetwork: an empty, reliable network.                                *)
(***************************************************************************)
MakeNetwork ==
  /\ reliable = TRUE
  /\ ends = {}
  /\ enabled = [e \in Ends |-> FALSE]
  /\ connections = [e \in Ends |-> nil]
  /\ servers = [s \in Servers |-> nil]
  /\ used = {}
  /\ done = FALSE
  /\ dispatcher = TRUE
  /\ call = [c \in Calls |-> NoCall]
  /\ handler = [c \in Calls |-> "none"]
  /\ exited = FALSE

-----------------------------------------------------------------------------
(* The tables of the network. *)

MakeEnd(e) ==
  /\ e \notin ends
  /\ ends' = ends \cup {e}
  /\ enabled' = [enabled EXCEPT ![e] = FALSE]
  /\ connections' = [connections EXCEPT ![e] = nil]
  /\ UNCHANGED <<reliable, servers, used>>

Connect(e, s) ==
  /\ e \in ends
  /\ connections' = [connections EXCEPT ![e] = s]
  /\ UNCHANGED <<reliable, ends, enabled, servers, used>>

Enable(e, yes) ==
  /\ e \in ends
  /\ enabled' = [enabled EXCEPT ![e] = yes]
  /\ UNCHANGED <<reliable, ends, connections, servers, used>>

AddServer(s, o) ==
  /\ o \notin used
  /\ used' = used \cup {o}
  /\ servers' = [servers EXCEPT ![s] = o]
  /\ UNCHANGED <<reliable, ends, enabled, connections>>

DeleteServer(s) ==
  /\ servers' = [servers EXCEPT ![s] = nil]
  /\ UNCHANGED <<reliable, ends, enabled, connections, used>>

Reliable(yes) ==
  /\ reliable' = yes
  /\ UNCHANGED <<ends, enabled, connections, servers, used>>

Cleanup ==
  /\ ~ done
  /\ done' = TRUE
  /\ UNCHANGED <<netVars, dispatcher, call, handler>>

DispatcherReturns ==
  /\ dispatcher /\ done
  /\ dispatcher' = FALSE
  /\ UNCHANGED <<netVars, done, call, handler>>

-----------------------------------------------------------------------------
(* Call, in a goroutine of the client. *)

Call(c, e) ==
  /\ At(c, "idle") /\ e \in ends
  /\ call' = [call EXCEPT ![c].at = "send", ![c].end = e]
  /\ UNCHANGED <<netVars, done, dispatcher, handler>>

(* e.ch <- req: the dispatcher takes it and starts processReq. *)
CallSent(c) ==
  /\ At(c, "send") /\ dispatcher
  /\ call' = [call EXCEPT ![c].at = "accepted"]
  /\ UNCHANGED <<netVars, done, dispatcher, handler>>

(* <-e.done: entire Network has been destroyed. *)
CallDestroyed(c) ==
  /\ At(c, "send") /\ done
  /\ call' = [call EXCEPT ![c].at = "returned"]
  /\ UNCHANGED <<netVars, done, dispatcher, handler>>

(* <-req.replyCh: the answer; a positive one with a reply ... *)
CallReturns(c) ==
  /\ At(c, "reply")
  /\ call' = [call EXCEPT ![c].at = "returned"]
  /\ UNCHANGED <<netVars, done, dispatcher, handler>>

(* ... that may not fit the caller's variable. *)
decodeReplyFails(c) ==
  /\ At(c, "reply") /\ call[c].ok
  /\ exited' = TRUE
  /\ UNCHANGED <<netVars, done, dispatcher, call, handler>>

-----------------------------------------------------------------------------
(* processReq *)

readEndnameInfo(c) ==
  LET e == call[c].end
      s == connections[e]
  IN  [call[c] EXCEPT !.name = s, !.sure = reliable,
                      !.obj = IF s # nil THEN servers[s] ELSE nil]

isServerDead(c) ==
  \/ ~ enabled[call[c].end]
  \/ servers[call[c].name] # call[c].obj

processReqSilent(c) ==
  /\ At(c, "accepted")
  /\ LET info == readEndnameInfo(c)
         live == enabled[info.end] /\ info.name # nil /\ info.obj # nil
     IN  call' = [call EXCEPT ![c] = [info EXCEPT !.at = IF live THEN "request" ELSE "lost"]]
  /\ UNCHANGED <<netVars, done, dispatcher, handler>>

processReq(c) ==
  /\ At(c, "accepted")
  /\ LET info == readEndnameInfo(c)
         live == enabled[info.end] /\ info.name # nil /\ info.obj # nil
     IN  call' = [call EXCEPT ![c] = [info EXCEPT !.at = IF live THEN "request" ELSE "reply"]]
  /\ UNCHANGED <<netVars, done, dispatcher, handler>>

DropRequest(c) ==
  /\ At(c, "request") /\ ~ call[c].sure
  /\ call' = [call EXCEPT ![c].at = "reply"]
  /\ UNCHANGED <<netVars, done, dispatcher, handler>>

StartHandler(c) ==
  /\ At(c, "request")
  /\ call' = [call EXCEPT ![c].at = "wait"]
  /\ handler' = [handler EXCEPT ![c] = "started"]
  /\ UNCHANGED <<netVars, done, dispatcher>>

TakeReply(c) ==
  /\ At(c, "wait") /\ handler[c] = "replies"
  /\ call' = [call EXCEPT ![c].at = "check", ![c].ok = TRUE]
  /\ handler' = [handler EXCEPT ![c] = "returned"]
  /\ UNCHANGED <<netVars, done, dispatcher>>

GiveUpUndrained(c) ==
  /\ At(c, "wait") /\ isServerDead(c)
  /\ call' = [call EXCEPT ![c].at = "check"]
  /\ handler' = [handler EXCEPT ![c] = "stuck"]
  /\ UNCHANGED <<netVars, done, dispatcher>>

(* Every 100 ms: the server may be dead; from then on ech is drained. *)
GiveUp(c) ==
  /\ At(c, "wait") /\ isServerDead(c)
  /\ call' = [call EXCEPT ![c].at = "check"]
  /\ UNCHANGED <<netVars, done, dispatcher, handler>>

(* The check before the reply, and the reply that may be dropped. *)
AnswersTrusting(c) ==
  /\ At(c, "check")
  /\ call' = [call EXCEPT ![c].at = "reply"]
  /\ UNCHANGED <<netVars, done, dispatcher, handler>>

Answers(c) ==
  /\ At(c, "check")
  /\ \E ok \in BOOLEAN :
       /\ ok => call[c].ok /\ ~ isServerDead(c)
       /\ ~ ok => ~ call[c].ok \/ isServerDead(c) \/ ~ call[c].sure
       /\ call' = [call EXCEPT ![c].at = "reply", ![c].ok = ok]
  /\ UNCHANGED <<netVars, done, dispatcher, handler>>

-----------------------------------------------------------------------------
(* The handler goroutine: Server.dispatch and Service.dispatch. *)

RunHandler(c) ==
  /\ handler[c] = "started" /\ c \notin Hangs \cup Unknown
  /\ handler' = [handler EXCEPT ![c] = "replies"]
  /\ UNCHANGED <<netVars, done, dispatcher, call>>

dispatchUnknown(c) ==
  /\ handler[c] = "started" /\ c \in Unknown
  /\ exited' = TRUE
  /\ UNCHANGED <<netVars, done, dispatcher, call, handler>>

(* <-ech in the goroutine that GiveUp started. *)
DrainHandler(c) ==
  /\ handler[c] = "replies" /\ call[c].at \in {"check", "reply", "returned"}
  /\ handler' = [handler EXCEPT ![c] = "returned"]
  /\ UNCHANGED <<netVars, done, dispatcher, call>>

-----------------------------------------------------------------------------
ClientStep(c) == CallSent(c) \/ CallDestroyed(c) \/ CallReturns(c)

RequestStep(c) ==
  \/ processReq(c) \/ DropRequest(c) \/ StartHandler(c)
  \/ TakeReply(c) \/ GiveUp(c) \/ Answers(c) \/ DrainHandler(c)

(* Who administers the network: it makes an end, connects it once and      *)
(* switches it; adds, replaces and deletes servers; sets reliability.      *)
Administer ==
  \/ \E e \in Ends : MakeEnd(e) \/ (connections[e] = nil /\ \E s \in Servers : Connect(e, s))
  \/ \E e \in Ends, yes \in BOOLEAN : yes # enabled[e] /\ Enable(e, yes)
  \/ \E s \in Servers, o \in Objects : AddServer(s, o)
  \/ \E s \in Servers : servers[s] # nil /\ DeleteServer(s)
  \/ \E yes \in BOOLEAN : yes # reliable /\ Reliable(yes)
=============================================================================
