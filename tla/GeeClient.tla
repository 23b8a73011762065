----------------------------- MODULE GeeClient -----------------------------
(***************************************************************************)
(* The client of GeeRPC (client.go): dialTimeout with its goroutine, the   *)
(* receive goroutine, and goroutines that use the client concurrently,     *)
(* each to make one Call.  The client has two locks: sending, held while a *)
(* request is written, and mu, held by registerCall, removeCall and Close. *)
(* A section under mu is one step.                                         *)
(***************************************************************************)
EXTENDS GeeCodec

CONSTANTS
  Calls,   \* the goroutines that call Client.Call
  Timed,   \* those whose context has a deadline
  Kinds,   \* what may be special about a call, see KindSet
  Limits,  \* may opt.HandleTimeout # 0 be true, false?
  Seqs     \* the numbers that c.seq goes through, a bound in what TLC checks

(***************************************************************************)
(* "ok": nothing; "fails": the method returns an error; "unknown": no such *)
(* service or method; "badargs": the server cannot decode the arguments;   *)
(* "noencode": the client cannot encode them; "badreply": the client       *)
(* cannot decode the reply; "noreply": the server cannot encode it.        *)
(***************************************************************************)
KindSet == {"ok", "fails", "unknown", "badargs", "noencode", "badreply", "noreply"}

ASSUME CallsAssumption == Timed \subseteq Calls
ASSUME KindsAssumption == Kinds \subseteq KindSet /\ Limits \subseteq BOOLEAN

ASSUME SeqsAssumption == Seqs \subseteq Nat \ {0}   \* 0 means an invalid call

\* One part of a message; a request carries what it asks for, a response an error.
Part(part, seq, info) == [part |-> part, seq |-> seq, info |-> info]

VARIABLES
  kind,      \* kind[c], of Kinds
  opt,       \* the Option: is the codec implemented, is there a HandleTimeout
  dialer,    \* dialTimeout: "selecting", "ok", "failed"
  maker,     \* its goroutine: "making", "offering", "done"
  made,      \* did NewClient return a client?
  cpc,       \* where each Call is
  callSeq,   \* call.Seq
  sending,   \* the lock: the calls that hold it
  header,    \* c.header, shared by all messages
  seq,       \* c.seq
  pending,   \* c.pending, a partial function from Seqs to Calls
  closing,   \* c.closing
  dones,     \* how often call.done() sent on call.Done
  outcome,   \* call.Error and whose reply is in call.Reply
  returned,  \* what Call returned
  rcv        \* the receive goroutine: where it is, header read, call removed

clientVars == <<kind, opt, dialer, maker, made, cpc, callSeq, sending, header, seq,
                pending, closing, dones, outcome, returned, rcv>>

callVars == <<cpc, callSeq, sending, header, seq, pending, closing, dones, outcome, returned>>

\* "none" is the empty error of the code.
NoReply == [error |-> "none", reply |-> 0]
Idle    == [at |-> "off", seq |-> 0, error |-> "none", calls |-> {}]

\* "seq starts with 1, 0 means invalid call"
FirstSeq == 1

ClientInit ==
  /\ kind \in [Calls -> Kinds]
  /\ opt \in [codec : BOOLEAN, handleLimit : Limits]
  /\ dialer = "selecting"
  /\ maker = "making"
  /\ made = FALSE
  /\ cpc = [c \in Calls |-> "start"]
  /\ callSeq = [c \in Calls |-> 0]
  /\ sending = {}
  /\ header = 0
  /\ seq = FirstSeq
  /\ pending = [s \in {} |-> 0]
  /\ closing = FALSE
  /\ dones = [c \in Calls |-> 0]
  /\ outcome = [c \in Calls |-> NoReply]
  /\ returned = [c \in Calls |-> NoReply]
  /\ rcv = Idle

-----------------------------------------------------------------------------
(* dialTimeout, from the moment the connection is made. *)

(***************************************************************************)
(* The goroutine runs NewClient: the option is written to the connection   *)
(* as JSON, and the receive goroutine is started.                          *)
(***************************************************************************)
NewClient ==
  /\ maker = "making"
  /\ maker' = "offering"
  /\ \/ /\ ~ opt.codec
        /\ UNCHANGED <<made, rcv, wireVars>>
     \/ /\ opt.codec
        /\ Passes("client", Part("option", 0, "option"))
        /\ made' = TRUE
        /\ rcv' = [rcv EXCEPT !.at = "header"]
     \/ /\ opt.codec
        /\ Faulty("client")
        /\ CloseEnd("client")
        /\ UNCHANGED <<made, rcv, lost, stream, broken>>
  /\ UNCHANGED <<kind, opt, dialer, callVars>>

\* The select of dialTimeout takes the result, or the time is up.
DialTakes ==
  /\ dialer = "selecting" /\ maker = "offering"
  /\ maker' = "done"
  /\ IF made
     THEN dialer' = "ok" /\ UNCHANGED open
     ELSE dialer' = "failed" /\ CloseEnd("client")
  /\ UNCHANGED <<kind, opt, made, rcv, callVars, lost, stream, broken>>

\* Mutant: the time-out leaves the connection open.
DialTimesOutKeepsOpen ==
  /\ dialer = "selecting"
  /\ dialer' = "failed"
  /\ UNCHANGED <<kind, opt, maker, made, rcv, callVars, wireVars>>

\* Without a limit (ConnectTimeout = 0) this does not happen.
DialTimesOut ==
  /\ dialer = "selecting"
  /\ dialer' = "failed"
  /\ CloseEnd("client")
  /\ UNCHANGED <<kind, opt, maker, made, rcv, callVars, lost, stream, broken>>

-----------------------------------------------------------------------------
(* Call, Go and send. *)

\* call.done(), with the outcome o.
Finish(cs, o) ==
  /\ dones' = [c \in Calls |-> IF c \in cs THEN dones[c] + 1 ELSE dones[c]]
  /\ outcome' = [c \in Calls |-> IF c \in cs THEN o ELSE outcome[c]]

\* removeCall: the call that was pending under s (at most one), and pending without it.
Pending(s)  == {pending[t] : t \in DOMAIN pending \cap {s}}
Without(s)  == [t \in DOMAIN pending \ {s} |-> pending[t]]

\* The call gets the next number and is pending under it.
registerCall(c) ==
  /\ seq \in Seqs
  /\ callSeq' = [callSeq EXCEPT ![c] = seq]
  /\ pending' = [s \in DOMAIN pending \cup {seq} |-> IF s = seq THEN c ELSE pending[s]]
  /\ seq' = seq + 1

\* Mutant: requests are written without the lock.
SendUnlocked(c) ==
  /\ dialer = "ok"
  /\ cpc[c] = "start"
  /\ ~ closing
  /\ sending' = sending \cup {c}
  /\ registerCall(c)
  /\ header' = seq
  /\ cpc' = [cpc EXCEPT ![c] = "header"]
  /\ UNCHANGED <<kind, opt, dialer, maker, made, rcv, closing, dones, outcome, returned, wireVars>>

(***************************************************************************)
(* send up to Write: lock sending, registerCall, fill in the shared        *)
(* header.  c.shutdown is not modelled: only terminateCalls sets it, and   *)
(* nothing calls terminateCalls.                                           *)
(***************************************************************************)
Send(c) ==
  /\ dialer = "ok"
  /\ cpc[c] = "start"
  /\ sending = {}
  /\ IF closing
     THEN /\ Finish({c}, [error |-> "shutdown", reply |-> 0])
          /\ cpc' = [cpc EXCEPT ![c] = "wait"]
          /\ UNCHANGED <<sending, callSeq, header, seq, pending>>
     ELSE /\ sending' = {c}
          /\ registerCall(c)
          /\ header' = seq
          /\ cpc' = [cpc EXCEPT ![c] = "header"]
          /\ UNCHANGED <<dones, outcome>>
  /\ UNCHANGED <<kind, opt, dialer, maker, made, rcv, closing, returned, wireVars>>

\* The request is written, or its error is ignored: send returns.
Sent(c) ==
  /\ cpc' = [cpc EXCEPT ![c] = "wait"]
  /\ sending' = sending \ {c}
  /\ UNCHANGED <<kind, opt, dialer, maker, made, rcv, callSeq, header, seq, pending, closing,
                 dones, outcome, returned>>

\* Mutant: send returns without unlocking.
SendErrorKeepsLock(c) ==
  /\ Finish(Pending(callSeq[c]), [error |-> "write", reply |-> 0])
  /\ pending' = Without(callSeq[c])
  /\ cpc' = [cpc EXCEPT ![c] = "wait"]
  /\ UNCHANGED <<kind, opt, dialer, maker, made, rcv, callSeq, sending, header, seq, closing,
                 returned>>

\* Write failed: the call is done, unless the receive goroutine has removed it.
SendError(c) ==
  /\ Finish(Pending(callSeq[c]), [error |-> "write", reply |-> 0])
  /\ pending' = Without(callSeq[c])
  /\ cpc' = [cpc EXCEPT ![c] = "wait"]
  /\ sending' = sending \ {c}
  /\ UNCHANGED <<kind, opt, dialer, maker, made, rcv, callSeq, header, seq, closing, returned>>

WriteHeader(c) ==
  /\ cpc[c] = "header"
  /\ \/ /\ Passes("client", Part("header", header, kind[c]))
        /\ cpc' = [cpc EXCEPT ![c] = "body"]
        /\ UNCHANGED <<kind, opt, dialer, maker, made, rcv, callSeq, sending, header, seq,
                       pending, closing, dones, outcome, returned>>
     \/ FlushFails("client") /\ kind[c] # "noencode" /\ Sent(c)
     \/ WriteFails("client") /\ SendError(c)

WriteBody(c) ==
  /\ cpc[c] = "body"
  /\ \/ kind[c] # "noencode" /\ Passes("client", Part("body", callSeq[c], kind[c])) /\ Sent(c)
     \/ kind[c] # "noencode" /\ FlushFails("client") /\ Sent(c)
     \/ kind[c] # "noencode" /\ WriteFails("client") /\ SendError(c)
     \/ /\ kind[c] = "noencode"
        /\ CloseEnd("client")
        /\ SendError(c)
        /\ UNCHANGED <<lost, stream, broken>>

-----------------------------------------------------------------------------
(* The select of Call. *)

TakeDone(c) ==
  /\ cpc[c] = "wait"
  /\ dones[c] > 0
  /\ cpc' = [cpc EXCEPT ![c] = "returned"]
  /\ returned' = [returned EXCEPT ![c] = outcome[c]]
  /\ UNCHANGED <<kind, opt, dialer, maker, made, rcv, callSeq, sending, header, seq, pending,
                 closing, dones, outcome, wireVars>>

\* Mutant: the call stays pending.
ContextDoneKeeps(c) ==
  /\ c \in Timed
  /\ cpc[c] = "wait"
  /\ cpc' = [cpc EXCEPT ![c] = "returned"]
  /\ returned' = [returned EXCEPT ![c] = [error |-> "context", reply |-> 0]]
  /\ UNCHANGED <<kind, opt, dialer, maker, made, rcv, callSeq, sending, header, seq, pending,
                 closing, dones, outcome, wireVars>>

ContextDone(c) ==
  /\ c \in Timed
  /\ cpc[c] = "wait"
  /\ pending' = Without(callSeq[c])
  /\ cpc' = [cpc EXCEPT ![c] = "returned"]
  /\ returned' = [returned EXCEPT ![c] = [error |-> "context", reply |-> 0]]
  /\ UNCHANGED <<kind, opt, dialer, maker, made, rcv, callSeq, sending, header, seq, closing,
                 dones, outcome, wireVars>>

\* Close; a second Close only returns ErrShutdown.
Close ==
  /\ dialer = "ok"
  /\ ~ closing
  /\ closing' = TRUE
  /\ CloseEnd("client")
  /\ UNCHANGED <<kind, opt, dialer, maker, made, rcv, cpc, callSeq, sending, header, seq,
                 pending, dones, outcome, returned, lost, stream, broken>>

-----------------------------------------------------------------------------
(* receive. *)

\* A part that is not a header cannot be decoded as one.
ReceiveHeader ==
  /\ rcv.at = "header"
  /\ CanRead("client")
  /\ Consume("client")
  /\ LET p == NextPart("client") IN
     IF p.part = "header"
     THEN /\ rcv' = [at |-> "body", seq |-> p.seq, error |-> p.info, calls |-> Pending(p.seq)]
          /\ pending' = Without(p.seq)
     ELSE /\ rcv' = [rcv EXCEPT !.at = "ended"]
          /\ UNCHANGED pending
  /\ UNCHANGED <<kind, opt, dialer, maker, made, cpc, callSeq, sending, header, seq, closing,
                 dones, outcome, returned>>

\* The body is decoded into Reply, or discarded; the call is done.
BodyOutcome(p) ==
  IF rcv.error # "none" \/ rcv.calls = {} THEN [error |-> rcv.error, reply |-> 0]
  ELSE IF p.part # "body" \/ \E c \in rcv.calls : kind[c] = "badreply"
       THEN [error |-> "reading", reply |-> 0]
       ELSE [error |-> "none", reply |-> p.seq]

ReceiveBody ==
  /\ rcv.at = "body"
  /\ CanRead("client")
  /\ Consume("client")
  /\ LET o == BodyOutcome(NextPart("client")) IN
     /\ Finish(rcv.calls, o)
     /\ rcv' = [Idle EXCEPT !.at = IF o.error = "reading" THEN "ended" ELSE "header"]
  /\ UNCHANGED <<kind, opt, dialer, maker, made, cpc, callSeq, sending, header, seq, pending,
                 closing, returned>>

\* Reading fails: the loop ends, and the calls that are pending stay so.
ReceiveFails ==
  /\ rcv.at \in {"header", "body"}
  /\ ReadFails("client")
  /\ Finish(rcv.calls, [error |-> IF rcv.error # "none" THEN rcv.error ELSE "reading",
                        reply |-> 0])
  /\ rcv' = [Idle EXCEPT !.at = "ended"]
  /\ UNCHANGED <<kind, opt, dialer, maker, made, cpc, callSeq, sending, header, seq, pending,
                 closing, returned, wireVars>>

-----------------------------------------------------------------------------
CallStep(c) ==
  \/ Send(c)
  \/ WriteHeader(c)
  \/ WriteBody(c)
  \/ TakeDone(c)
  \/ ContextDone(c)

Receive == ReceiveHeader \/ ReceiveBody \/ ReceiveFails

ClientNext ==
  \/ NewClient
  \/ DialTakes
  \/ DialTimesOut
  \/ \E c \in Calls : CallStep(c)
  \/ Close
  \/ Receive
=============================================================================
