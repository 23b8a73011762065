----------------------------- MODULE GeeEngine -----------------------------
(***************************************************************************)
(* Gee as a whole: an engine is configured, then it serves a request with  *)
(* the middlewares that ServeHTTP selects and the handler that its router  *)
(* finds.  Requests share nothing that changes, so one is enough.          *)
(***************************************************************************)
EXTENDS GeeRouter

VARIABLES chain, index, StatusCode, sent, stack, pc, panicking, raised, started, failed, logged

contextVars == <<chain, index, StatusCode, sent, stack, pc, panicking, raised, started, failed, logged>>
vars == <<routerVars, contextVars>>

Context == INSTANCE GeeContext WITH handlers <- chain

Init == New /\ chain = <<>> /\ Context!newContext

(* handle: the handler of the route, or the one that answers 404. *)
routeHandler(method, path) ==
  LET pattern == getRoute(method, path).pattern
  IN  IF pattern = NoPattern THEN [name |-> "route", calls |-> Context!NotFound] ELSE handlers[<<method, pattern>>]

Serve(method, path) ==
  /\ chain = <<>>
  /\ chain' = Append(ServeHTTP(path), routeHandler(method, path))
  /\ pc' = [h \in DOMAIN chain' |-> 0]
  /\ UNCHANGED <<routerVars, index, StatusCode, sent, stack, panicking, raised, started, failed, logged>>

Request == chain # <<>> /\ Context!Next /\ UNCHANGED routerVars

Next ==
  \/ chain = <<>> /\ Configure /\ UNCHANGED contextVars
  \/ \E method \in case.methods, path \in case.served : Serve(method, path)
  \/ Request

Spec == Init /\ [][Next]_vars /\ WF_vars(Request)

-----------------------------------------------------------------------------
(* Types of the tables of Engine and of a Context. *)
TypeOK ==
  /\ DOMAIN roots \subseteq case.methods
  /\ \A g \in DOMAIN groups : groups[g].parent < g /\ ToSet(groups[g].middlewares) \subseteq case.middlewares
  /\ Context!TypeOK

(* "All middlewares will be executed in order before the user func": with  *)
(* re-entrant Next every handler of the chain is called at most once, in   *)
(* order, and each of them if none fails or panics.                        *)
InOrderOnce == Context!InOrderOnce

(* Recovery: a panic passes it only from the handlers before it, and the   *)
(* client gets its 500 if nothing was sent.                                *)
PanicContained == Context!PanicContained

(* Every Logger that was called has logged, unless a panic passed it.      *)
EachLogged == Context!EachLogged

(* Fail sets index to the end of the chain: no handler is called after it, *)
(* by any of the loops of Next.                                            *)
NoneAfterFail == [][failed => started' = started]_vars

(* Next calls Next, twice or never: the loops end and a request is over.   *)
RequestEnds == (chain # <<>>) ~> Context!Ended
=============================================================================
