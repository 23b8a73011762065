----------------------------- MODULE GeeServer -----------------------------
(***************************************************************************)
(* The server of GeeRPC (server.go) on one connection: ServeConn and       *)
(* serveCodec, which read requests one after the other, and for every      *)
(* request two goroutines: handleRequest, which waits for the method or    *)
(* for the time limit, and the one that runs the method (service.call).    *)
(* They share the lock sending, held while a response is written.          *)
(***************************************************************************)
EXTENDS GeeCodec

CONSTANT Requests   \* the Seq of the requests

Loop       == <<"loop", 0>>
Handler(r) == <<"handler", r>>
Runner(r)  == <<"runner", r>>
Threads    == {Loop} \cup {Handler(r) : r \in Requests} \cup {Runner(r) : r \in Requests}

VARIABLES
  at,        \* where each goroutine is
  req,       \* the header serveCodec has read last: its Seq, what it asks for
  answer,    \* h.Error and h.Seq of the response a goroutine is to send
  asked,     \* what request r asks for, and with whose arguments (argv)
  garbled,   \* the JSON decoder of the option has read bytes of requests too
  limited,   \* opt.HandleTimeout # 0
  sendLock,  \* the lock sending: who holds it
  responses  \* how many responses to r have been started

serverVars == <<at, req, answer, asked, garbled, limited, sendLock, responses>>

\* A response: h.Seq, h.Error, the body and the arguments it was computed from.
Answer(r, error, body, args) == [seq |-> r, error |-> error, body |-> body, args |-> args]

ServerInit ==
  /\ at = [t \in Threads |-> IF t = Loop THEN "option" ELSE "none"]
  /\ req = [seq |-> 0, ask |-> "none"]
  /\ answer = [t \in Threads |-> Answer(0, "none", "invalid", 0)]
  /\ asked = [r \in Requests |-> [ask |-> "none", args |-> 0]]
  /\ garbled = FALSE
  /\ limited = FALSE
  /\ sendLock = {}
  /\ responses = [r \in Requests |-> 0]

Moves(t, where) == at' = [at EXCEPT ![t] = where]

-----------------------------------------------------------------------------
(* ServeConn and serveCodec. *)

(***************************************************************************)
(* The option is decoded by a JSON decoder of its own, which reads what    *)
(* has arrived, so perhaps also the first k parts of requests; they are    *)
(* lost with it.  The first messages of a gob stream define the types, so  *)
(* that without them no later header can be decoded.                       *)
(***************************************************************************)
ReadOption(limit) ==
  /\ at[Loop] = "option"
  /\ CanRead("server") /\ NextPart("server").part = "option"
  /\ \E k \in 1 .. Len(stream["client"]) :
       /\ stream' = [stream EXCEPT !["client"] = SubSeq(@, k + 1, Len(@))]
       /\ garbled' = (k > 1)
  /\ limited' = limit
  /\ Moves(Loop, "header")
  /\ UNCHANGED <<open, lost, broken, req, answer, asked, sendLock, responses>>

\* findService knows the service and the method that the header names.
findService(h) == h.info # "unknown"

\* readRequestHeader and findService: without a service the loop ends, the body unread.
ReadRequestHeader ==
  /\ at[Loop] = "header"
  /\ CanRead("server")
  /\ Consume("server")
  /\ LET p == NextPart("server") IN
     IF garbled \/ p.part # "header" \/ ~ findService(p)
     THEN Moves(Loop, "leaving") /\ UNCHANGED req
     ELSE Moves(Loop, "body") /\ req' = [seq |-> p.seq, ask |-> p.info]
  /\ UNCHANGED <<answer, asked, garbled, limited, sendLock, responses>>

\* Thread t is to send the response a.
Responds(t, a) ==
  /\ answer' = [answer EXCEPT ![t] = a]
  /\ responses' = [responses EXCEPT ![a.seq] = @ + 1]

(***************************************************************************)
(* The body is read: handleRequest gets the request.  If it cannot be      *)
(* decoded, serveCodec itself responds and goes on.                        *)
(***************************************************************************)
ReadBody ==
  /\ at[Loop] = "body"
  /\ CanRead("server")
  /\ Consume("server")
  /\ IF NextPart("server").part # "body" \/ NextPart("server").info = "badargs"
     THEN /\ Moves(Loop, "lock")
          /\ Responds(Loop, Answer(req.seq, "request", "invalid", 0))
          /\ UNCHANGED asked
     ELSE /\ at' = [at EXCEPT ![Loop] = "header", ![Handler(req.seq)] = "select",
                              ![Runner(req.seq)] = "running"]
          /\ asked' = [asked EXCEPT ![req.seq] = [ask |-> req.ask, args |-> NextPart("server").seq]]
          /\ UNCHANGED <<answer, responses>>
  /\ UNCHANGED <<req, garbled, limited, sendLock>>

ReadFailsServer ==
  /\ ReadFails("server")
  /\ \/ at[Loop] = "option" /\ Moves(Loop, "closed") /\ CloseEnd("server")
        /\ UNCHANGED <<answer, responses>>
     \/ at[Loop] = "header" /\ Moves(Loop, "leaving") /\ UNCHANGED <<answer, responses, open>>
     \/ at[Loop] = "body" /\ Moves(Loop, "lock") /\ Responds(Loop, Answer(req.seq, "request", "invalid", 0))
        /\ UNCHANGED open
  /\ UNCHANGED <<req, asked, garbled, limited, sendLock, lost, stream, broken>>

\* Mutant: without wg.Wait.
CloseAtOnce ==
  /\ at[Loop] = "leaving"
  /\ Moves(Loop, "closed")
  /\ CloseEnd("server")
  /\ UNCHANGED <<req, answer, asked, garbled, limited, sendLock, responses, lost, stream, broken>>

\* wg.Wait, cc.Close and the deferred conn.Close.
CloseCodec ==
  /\ at[Loop] = "leaving"
  /\ \A r \in Requests : at[Handler(r)] \in {"none", "done"}
  /\ Moves(Loop, "closed")
  /\ CloseEnd("server")
  /\ UNCHANGED <<req, answer, asked, garbled, limited, sendLock, responses, lost, stream, broken>>

-----------------------------------------------------------------------------
(* handleRequest. *)

\* The method returns, and its goroutine waits to send on called.
MethodReturns(r) ==
  /\ at[Runner(r)] = "running"
  /\ Moves(Runner(r), "called")
  /\ UNCHANGED <<req, answer, asked, garbled, limited, sendLock, responses, wireVars>>

\* The response that the goroutine of the method sends.
Result(r) ==
  IF asked[r].ask = "fails" THEN Answer(r, "service", "invalid", 0)
  ELSE Answer(r, "none", asked[r].ask, asked[r].args)

\* Mutant: called has a buffer, its sender does not wait for the select.
CalledBuffered(r) ==
  /\ at[Runner(r)] = "called"
  /\ at' = [at EXCEPT ![Runner(r)] = "lock",
                      ![Handler(r)] = IF @ = "select" THEN "sent" ELSE @]
  /\ Responds(Runner(r), Result(r))
  /\ UNCHANGED <<req, asked, garbled, limited, sendLock, wireVars>>

\* called is unbuffered: the two goroutines meet.
Called(r) ==
  /\ at[Runner(r)] = "called"
  /\ at[Handler(r)] = "select"
  /\ at' = [at EXCEPT ![Runner(r)] = "lock", ![Handler(r)] = "sent"]
  /\ Responds(Runner(r), Result(r))
  /\ UNCHANGED <<req, asked, garbled, limited, sendLock, wireVars>>

HandleTimeout(r) ==
  /\ limited
  /\ at[Handler(r)] = "select"
  /\ Moves(Handler(r), "lock")
  /\ Responds(Handler(r), Answer(r, "timeout", "invalid", 0))
  /\ UNCHANGED <<req, asked, garbled, limited, sendLock, wireVars>>

-----------------------------------------------------------------------------
(* sendResponse. *)

\* Mutant: handleRequest returns after a time-out without wg.Done.
AfterSendingNotDone(t) ==
  LET r == answer[t].seq IN
  /\ at' = CASE t = Loop       -> [at EXCEPT ![t] = "header"]
             [] t = Handler(r) -> [at EXCEPT ![t] = "sent"]
             [] t = Runner(r)  -> [at EXCEPT ![t] = "done", ![Handler(r)] = "done"]
  /\ sendLock' = sendLock \ {t}

\* Mutant: the lock is not released.
AfterSendingLocked(t) ==
  LET r == answer[t].seq IN
  /\ at' = CASE t = Loop       -> [at EXCEPT ![t] = "header"]
             [] t = Handler(r) -> [at EXCEPT ![t] = "done"]
             [] t = Runner(r)  -> [at EXCEPT ![t] = "done", ![Handler(r)] = "done"]
  /\ UNCHANGED sendLock

(***************************************************************************)
(* Where t goes on after sendResponse; an error of Write is only logged.   *)
(* serveCodec reads the next request; handleRequest, after a time-out,     *)
(* returns; the goroutine of the method sends on sent, and handleRequest   *)
(* receives it and returns.                                                *)
(***************************************************************************)
AfterSending(t) ==
  LET r == answer[t].seq IN
  /\ at' = CASE t = Loop       -> [at EXCEPT ![t] = "header"]
             [] t = Handler(r) -> [at EXCEPT ![t] = "done"]
             [] t = Runner(r)  -> [at EXCEPT ![t] = "done", ![Handler(r)] = "done"]
  /\ sendLock' = sendLock \ {t}

RespondHeader(t) ==
  /\ at[t] = "lock"
  /\ sendLock = {}
  /\ \/ /\ Passes("server", [part |-> "header", seq |-> answer[t].seq, info |-> answer[t].error])
        /\ Moves(t, "writing")
        /\ sendLock' = {t}
     \/ FlushFails("server") /\ answer[t].body # "noreply" /\ AfterSending(t)
     \/ WriteFails("server") /\ AfterSending(t)
  /\ UNCHANGED <<req, answer, asked, garbled, limited, responses>>

RespondBody(t) ==
  /\ at[t] = "writing"
  /\ IF answer[t].body = "noreply"
     THEN CloseEnd("server") /\ UNCHANGED <<lost, stream, broken>>
     ELSE \/ Passes("server", [part |-> "body", seq |-> answer[t].args, info |-> answer[t].body])
          \/ FlushFails("server")
          \/ WriteFails("server")
  /\ AfterSending(t)
  /\ UNCHANGED <<req, answer, asked, garbled, limited, responses>>

-----------------------------------------------------------------------------
LoopStep == ReadRequestHeader \/ ReadBody \/ ReadFailsServer \/ CloseCodec

RequestStep(r) == MethodReturns(r) \/ Called(r) \/ HandleTimeout(r)

RespondStep(t) == RespondHeader(t) \/ RespondBody(t)

ServerNext(limit) ==
  \/ ReadOption(limit)
  \/ LoopStep
  \/ \E r \in Requests : RequestStep(r)
  \/ \E t \in Threads : RespondStep(t)
=============================================================================
