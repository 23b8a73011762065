----------------------------- MODULE GeeContext -----------------------------
(***************************************************************************)
(* One request in Gee: the chain of handlers of its Context and Next, which*)
(* handlers call again (context.go), with Fail, Logger and Recovery.  A    *)
(* handler is the list of the calls it makes; its other work is left out.  *)
(* The call stack alternates between the loop of Next and a handler.       *)
(***************************************************************************)
EXTENDS Integers, Sequences

VARIABLES
  handlers,    \* c.handlers
  index,       \* c.index
  StatusCode,  \* c.StatusCode, 0 before it is set
  sent,        \* the status line the client gets, 0 before it is written
  stack,       \* frames: 0 for Next, a position in handlers for a handler
  pc,          \* per handler: calls it has made
  panicking,   \* a panic unwinds the stack
  raised,      \* handlers that panicked, in order
  started,     \* handlers in the order in which they were called
  failed,      \* Fail was called
  logged       \* handlers that wrote their line of the log

vars == <<handlers, index, StatusCode, sent, stack, pc, panicking, raised, started, failed, logged>>

(***************************************************************************)
(* The handlers of the package, the ones of main.go, and what users may    *)
(* write: "abort" fails and returns, "twice" calls Next again, "late"      *)
(* panics after Next, "torn" after a part of the response.                 *)
(***************************************************************************)
Logger == <<"next", "log">>
Recovery == <<"next">>
onlyForV2 == <<"log">>
NotFound == <<"string404">>
StaticHandler == {<<"status404">>, <<"serveFile">>}
UserMiddlewares == {<<"fail">>, <<"next", "next">>, <<"next", "panic">>}
UserHandlers == {<<"string200">>, <<"html">>, <<"panic">>, <<"string200", "panic">>, <<"json">>}

IsRecovery(h) == h # 0 /\ handlers[h].name = "Recovery"
Middleware ==
  {[name |-> "Logger", calls |-> Logger], [name |-> "Recovery", calls |-> Recovery],
   [name |-> "V2", calls |-> onlyForV2]} \cup [name : {"user"}, calls : UserMiddlewares]
Route == [name : {"route"}, calls : UserHandlers \cup StaticHandler \cup {NotFound}]

(* newContext; ServeHTTP and handle have made the chain. *)
newContext ==
  /\ index = -1
  /\ StatusCode = 0 /\ sent = 0
  /\ stack = <<>>
  /\ pc = [h \in DOMAIN handlers |-> 0]
  /\ panicking = FALSE /\ raised = <<>>
  /\ started = <<>> /\ failed = FALSE /\ logged = {}

Top == stack[Len(stack)]
Callers == SubSeq(stack, 1, Len(stack) - 1)
Running(call) ==
  /\ ~ panicking /\ stack # <<>> /\ Top # 0
  /\ pc[Top] < Len(handlers[Top].calls) /\ handlers[Top].calls[pc[Top] + 1] = call
Advance == pc' = [pc EXCEPT ![Top] = @ + 1]
Ended == index >= 0 /\ stack = <<>>

-----------------------------------------------------------------------------
(* Next, called by router.handle and by handlers. *)

Next0 == index' = index + 1 /\ stack' = Append(stack, 0)

handle ==
  /\ index = -1 /\ stack = <<>>
  /\ Next0
  /\ UNCHANGED <<handlers, StatusCode, sent, pc, panicking, raised, started, failed, logged>>

NextCalled ==
  /\ Running("next") /\ Next0 /\ Advance
  /\ UNCHANGED <<handlers, StatusCode, sent, panicking, raised, started, failed, logged>>

LoopCalls ==
  /\ ~ panicking /\ stack # <<>> /\ Top = 0 /\ index < Len(handlers)
  /\ stack' = Append(stack, index + 1)
  /\ pc' = [pc EXCEPT ![index + 1] = 0]
  /\ started' = Append(started, index + 1)
  /\ UNCHANGED <<handlers, index, StatusCode, sent, panicking, raised, failed, logged>>

LoopEndsAt ==
  /\ ~ panicking /\ stack # <<>> /\ Top = 0 /\ index = Len(handlers)
  /\ stack' = Callers
  /\ UNCHANGED <<handlers, index, StatusCode, sent, pc, panicking, raised, started, failed, logged>>

LoopEnds ==
  /\ ~ panicking /\ stack # <<>> /\ Top = 0 /\ index >= Len(handlers)
  /\ stack' = Callers
  /\ UNCHANGED <<handlers, index, StatusCode, sent, pc, panicking, raised, started, failed, logged>>

HandlerReturnsStill ==
  /\ ~ panicking /\ stack # <<>> /\ Top # 0 /\ pc[Top] = Len(handlers[Top].calls)
  /\ stack' = Callers
  /\ UNCHANGED <<handlers, index, StatusCode, sent, pc, panicking, raised, started, failed, logged>>

HandlerReturns ==
  /\ ~ panicking /\ stack # <<>> /\ Top # 0 /\ pc[Top] = Len(handlers[Top].calls)
  /\ stack' = Callers
  /\ index' = index + 1
  /\ UNCHANGED <<handlers, StatusCode, sent, pc, panicking, raised, started, failed, logged>>

-----------------------------------------------------------------------------
(* The response. *)

(* WriteHeader sends the first status and ignores the others. *)
WriteHeader(code) == sent' = IF sent = 0 THEN code ELSE sent

Status(code) == StatusCode' = code /\ WriteHeader(code)

Fail(code) == index' = Len(handlers) /\ failed' = TRUE /\ Status(code)

(* String, JSON and Data, and the 404 of a static handler. *)
Responds ==
  /\ \/ (Running("string200") \/ Running("json")) /\ Status(200)
     \/ (Running("string404") \/ Running("status404")) /\ Status(404)
     \/ Running("serveFile") /\ WriteHeader(200) /\ UNCHANGED StatusCode
  /\ Advance
  /\ UNCHANGED <<handlers, index, stack, panicking, raised, started, failed, logged>>

Fails ==
  /\ Running("fail") /\ Fail(500) /\ Advance
  /\ UNCHANGED <<handlers, stack, panicking, raised, started, logged>>

(* HTML: the status goes first, then the template may fail. *)
HTML ==
  /\ Running("html") /\ Advance
  /\ \/ Status(200) /\ UNCHANGED <<index, failed>>
     \/ /\ index' = Len(handlers) /\ failed' = TRUE
        /\ StatusCode' = 500 /\ WriteHeader(200)
  /\ UNCHANGED <<handlers, stack, panicking, raised, started, logged>>

Logs ==
  /\ Running("log") /\ Advance
  /\ logged' = logged \cup {Top}
  /\ UNCHANGED <<handlers, index, StatusCode, sent, stack, panicking, raised, started, failed>>

-----------------------------------------------------------------------------
(* Panics. *)

Panics ==
  /\ Running("panic") /\ Advance
  /\ panicking' = TRUE /\ raised' = Append(raised, Top)
  /\ UNCHANGED <<handlers, index, StatusCode, sent, stack, started, failed, logged>>

Unwind ==
  /\ panicking /\ stack # <<>> /\ ~ IsRecovery(Top)
  /\ stack' = Callers
  /\ UNCHANGED <<handlers, index, StatusCode, sent, pc, panicking, raised, started, failed, logged>>

RecoversSilently ==
  /\ panicking /\ stack # <<>> /\ IsRecovery(Top)
  /\ panicking' = FALSE
  /\ UNCHANGED <<handlers, index, StatusCode, sent, stack, pc, raised, started, failed, logged>>

(* The deferred function of Recovery; the handler then returns. *)
Recovers ==
  /\ panicking /\ stack # <<>> /\ IsRecovery(Top)
  /\ panicking' = FALSE
  /\ Fail(500)
  /\ UNCHANGED <<handlers, stack, pc, raised, started, logged>>

Next ==
  \/ handle \/ NextCalled \/ LoopCalls \/ LoopEnds \/ HandlerReturns
  \/ Responds \/ Fails \/ HTML \/ Logs \/ Panics \/ Unwind \/ Recovers

-----------------------------------------------------------------------------
(* The types of a Context: loops of Next and handlers alternate on the
   stack, and index stays near the end of the chain. *)
TypeOK ==
  /\ index \in -1..(4 * Len(handlers))
  /\ \A i \in DOMAIN stack : stack[i] \in 0..Len(handlers) /\ ((stack[i] = 0) <=> (i % 2 = 1))
  /\ \A h \in DOMAIN handlers : pc[h] \in 0..Len(handlers[h].calls)
  /\ panicking => raised # <<>>

(* "All middlewares will be executed in order before the user func"        *)
(* (router.go): index is shared by all the loops of Next on the stack, and *)
(* still every handler is called at most once, in the order of the chain,  *)
(* and each of them if none fails or panics.                               *)
InOrderOnce ==
  /\ \A i, j \in DOMAIN started : i < j => started[i] < started[j]
  /\ Ended /\ ~ failed /\ raised = <<>> => Len(started) = Len(handlers)

(* Fail sets index to the end of the chain: no handler is called after it, *)
(* neither by the loop that called the one that failed nor by the others.  *)
NoneAfterFail == [][failed => started' = started]_vars

(* Recovery: a panic reaches net/http only when no Recovery comes before   *)
(* the handler that raised it; when one does and nothing had been sent,    *)
(* the client gets the 500 that Recovery meant.                            *)
PanicContained ==
  Ended /\ raised # <<>> =>
    LET raiser == raised[Len(raised)]
        guarded == \E r \in 1..(raiser - 1) : IsRecovery(r)
    IN  /\ panicking <=> ~ guarded
        /\ guarded => StatusCode = 500
        /\ guarded /\ Len(handlers[raiser].calls) = 1 => sent = 500

(* Logger logs after Next: when the request is over each Logger that was   *)
(* called has logged, unless a panic from a later handler passed it with   *)
(* no Recovery in between.                                                 *)
EachLogged ==
  Ended => \A l \in {started[i] : i \in DOMAIN started} : handlers[l].name = "Logger" =>
    \/ l \in logged
    \/ \E p \in {raised[i] : i \in DOMAIN raised} : p > l /\ \A r \in (l + 1)..(p - 1) : ~ IsRecovery(r)

(* "Status set the status code in the response header" (context.go): the   *)
(* status that Logger reports is the one the client got.                   *)
StatusIsSent == Ended /\ StatusCode # 0 => StatusCode = sent
=============================================================================
