---------------------------- MODULE GeeRPCProofs ----------------------------
(***************************************************************************)
(* The inductive invariant of GeeRPC, for every number of calls and every  *)
(* fault, and its first layers: types, the client, the goroutines of the   *)
(* server and the requests on the wire. GeeRPCReplies adds the responses   *)
(* and what Call returns, with the theorems.                               *)
(***************************************************************************)
EXTENDS GeeRPC, TLAPS

USE ZenonT(30)

-----------------------------------------------------------------------------
(* Types. *)

ClientPart ==
  [part : {"option"}, seq : {0}, info : {"option"}] \cup [part : {"header", "body"}, seq : Seqs, info : KindSet]

ServerErrors == {"none", "service", "timeout", "request"}

ServerPart ==
  [part : {"header"}, seq : Seqs, info : ServerErrors]
    \cup [part : {"body"}, seq : Seqs \cup {0}, info : KindSet \cup {"invalid"}]

Outcomes == [error : Errors, reply : Seqs \cup {0}]

DialTypes ==
  /\ kind \in [Calls -> Kinds]
  /\ dialer \in {"selecting", "ok", "failed"}
  /\ maker \in {"making", "offering", "done"}

CallTypes ==
  /\ cpc \in [Calls -> {"start", "header", "body", "wait", "returned"}]
  /\ callSeq \in [Calls -> Seqs \cup {0}]
  /\ sending \subseteq Calls
  /\ header \in Seqs \cup {0} /\ seq \in Nat \ {0}
  /\ DOMAIN pending \subseteq Seqs /\ pending \in [DOMAIN pending -> Calls]

DoneTypes ==
  /\ dones \in [Calls -> Nat]
  /\ outcome \in [Calls -> Outcomes]
  /\ returned \in [Calls -> Outcomes]
  /\ rcv \in [at : {"off", "header", "body", "ended"}, seq : Seqs \cup {0}, error : ServerErrors, calls : SUBSET Calls]

ServerTypes ==
  /\ at \in [Threads -> {"option", "none", "header", "body", "leaving", "closed", "select",
                         "running", "called", "lock", "writing", "sent", "done"}]
  /\ req \in [seq : Seqs \cup {0}, ask : KindSet \cup {"none"}]
  /\ answer \in [Threads -> [seq : Seqs \cup {0}, error : ServerErrors,
                             body : KindSet \cup {"invalid"}, args : Seqs \cup {0}]]
  /\ asked \in [Requests -> [ask : KindSet \cup {"none"}, args : Seqs \cup {0}]]
  /\ sendLock \subseteq Threads
  /\ responses \in [Requests -> Nat]

WireTypes ==
  /\ DOMAIN open = Ends /\ DOMAIN broken = Ends
  /\ DOMAIN stream = Ends /\ stream = [e \in Ends |-> stream[e]]
  /\ stream["client"] \in Seq(ClientPart) /\ stream["server"] \in Seq(ServerPart)

Types == DialTypes /\ CallTypes /\ DoneTypes /\ ServerTypes /\ WireTypes

Flags ==
  /\ opt \in [codec : BOOLEAN, handleLimit : BOOLEAN] /\ made \in BOOLEAN /\ closing \in BOOLEAN
  /\ garbled \in BOOLEAN /\ limited \in BOOLEAN
  /\ open \in [Ends -> BOOLEAN] /\ lost \in BOOLEAN /\ broken \in [Ends -> BOOLEAN]

-----------------------------------------------------------------------------
(***************************************************************************)
(* The client: calls have numbers of their own, the last of which belongs  *)
(* to the call that holds the lock sending; a call that is pending or held *)
(* by the receive goroutine has not been done.                             *)
(***************************************************************************)
CallInv(c) ==
  /\ cpc[c] = "start" => callSeq[c] = 0 /\ dones[c] = 0
  /\ cpc[c] # "start" => dialer = "ok"
  /\ callSeq[c] < seq
  /\ cpc[c] \in {"header", "body"} => callSeq[c] = seq - 1 /\ header = callSeq[c] /\ sending = {c} /\ callSeq[c] # 0
  /\ dones[c] <= 1

Numbered == \A c, d \in Calls : callSeq[c] = callSeq[d] /\ callSeq[c] # 0 => c = d

HeldInv ==
  /\ rcv.at # "body" => rcv.calls = {}
  /\ rcv.calls # {} => rcv.seq # 0 /\ rcv.seq \notin DOMAIN pending
  /\ \A c \in rcv.calls : callSeq[c] = rcv.seq /\ dones[c] = 0 /\ cpc[c] # "start"

ClientInv == (\A c \in Calls : CallInv(c)) /\ Numbered /\ PendingOwn /\ WaitingPending /\ HeldInv

-----------------------------------------------------------------------------
(***************************************************************************)
(* The requests on the wire.                                               *)
(***************************************************************************)
Loops(where) == at[Loop] = where
Requested == stream["client"]
Responded == stream["server"]
KindOf(s, k) == \E c \in Calls : callSeq[c] = s /\ s # 0 /\ kind[c] = k

(* The writer of end e is heard. *)
Heard(e) == ~ broken[e] /\ open["client"] /\ open["server"] /\ ~ lost

(* The server reads no more requests, or cannot. *)
Deaf == garbled \/ Loops("leaving") \/ Loops("closed")

RequestParts ==
  \A k \in 1 .. Len(Requested) :
    LET p == Requested[k]
    IN  /\ p.part = "option" => (k = 1 /\ Loops("option")) \/ Deaf
        /\ p.part # "option" => KindOf(p.seq, p.info)
        /\ p.part = "body" => p.info # "noencode"

RequestFrames ==
  /\ \A k \in 1 .. Len(Requested) - 1 :
       LET p == Requested[k]
           q == Requested[k + 1]
       IN  /\ p.part = "header" <=> q.part = "body"
           /\ p.part = "header" => q.seq = p.seq
  /\ Len(Requested) > 0 /\ Loops("body") => Requested[1].part = "body" /\ Requested[1].seq = req.seq

(* A header is the last part exactly as long as its call is to write the body. *)
RequestEnd ==
  Heard("client") =>
    /\ \A c \in Calls : cpc[c] = "body" =>
         IF Len(Requested) > 0
         THEN LET p == Requested[Len(Requested)] IN p.part = "header" /\ p.seq = callSeq[c]
         ELSE Deaf \/ (Loops("body") /\ req.seq = callSeq[c])
    /\ Len(Requested) > 0 /\ Requested[Len(Requested)].part = "header" => \E c \in Calls : cpc[c] = "body"
    /\ Len(Requested) = 0 /\ Loops("body") => \E c \in Calls : cpc[c] = "body"

RequestOrder ==
  /\ \A j, k \in 1 .. Len(Requested) :
       j < k /\ Requested[j].part = "header" /\ Requested[k].part = "header" => Requested[j].seq < Requested[k].seq
  /\ \A k \in 1 .. Len(Requested) :
       Requested[k].part = "header" =>
         /\ req.seq < Requested[k].seq /\ Requested[k].seq < seq
         /\ \A c \in Calls : cpc[c] = "header" => Requested[k].seq < callSeq[c]
  /\ req.seq < seq /\ \A c \in Calls : cpc[c] = "header" => req.seq < callSeq[c]

LoopInv ==
  /\ Loops("option") => req.seq = 0 /\ ~ garbled
  /\ Loops("body") => ~ garbled /\ KindOf(req.seq, req.ask) /\ req.ask # "unknown" /\ req.seq # 0
  /\ Loops("lock") \/ Loops("writing") => ~ garbled /\ req.seq # 0
  /\ maker = "making" => /\ Requested = <<>> /\ Responded = <<>> /\ (Loops("option") \/ Loops("closed"))
                         /\ rcv.at = "off" /\ dialer # "ok"

WireInv == RequestParts /\ RequestFrames /\ RequestEnd /\ RequestOrder /\ LoopInv

-----------------------------------------------------------------------------
(***************************************************************************)
(* The goroutines of request r, and the responses to it.                   *)
(***************************************************************************)
Fresh(r) == at[Handler(r)] = "none" /\ at[Runner(r)] = "none" /\ responses[r] = 0 /\ asked[r].args = 0

HandlerInv(r) ==
  LET h == at[Handler(r)]
      m == at[Runner(r)]
  IN  /\ r > req.seq \/ (r = req.seq /\ Loops("body")) => Fresh(r)
      /\ responses[r] <= 1
      /\ h \in {"none", "select", "sent", "lock", "writing", "done"}
      /\ h = "none" => m = "none" /\ asked[r].args = 0
      /\ h # "none" => asked[r].args # 0
      /\ h = "select" => m \in {"running", "called"} /\ responses[r] = 0
      /\ h = "sent" => m \in {"lock", "writing"} /\ responses[r] = 1
      /\ h \in {"lock", "writing"} => m \in {"running", "called"} /\ responses[r] = 1
      /\ h = "done" => m \in {"running", "called", "done"} /\ responses[r] = 1
      /\ Loops("closed") => h \in {"none", "done"}
      /\ h \in {"lock", "writing"} => answer[Handler(r)].seq = r
      /\ m \in {"lock", "writing"} => answer[Runner(r)].seq = r

LockInv ==
  /\ \A t \in Threads : at[t] = "writing" => sendLock = {t}
  /\ \A t \in sendLock : at[t] = "writing"
  /\ Loops("lock") \/ Loops("writing") => answer[Loop].seq = req.seq
  /\ at[Loop] \in {"option", "header", "body", "leaving", "closed", "lock", "writing"}

ServerInv == (\A r \in Requests : HandlerInv(r)) /\ LockInv

-----------------------------------------------------------------------------
(***************************************************************************)
(* What a response says of the request it answers.                         *)
(***************************************************************************)
GoodHeader(s, error) ==
  /\ error = "service" => KindOf(s, "fails")
  /\ error = "request" => KindOf(s, "badargs")
  /\ error = "timeout" => opt.handleLimit

GoodBody(s, body) == KindOf(s, body) /\ body \notin {"fails", "unknown", "badargs", "noencode"}

AskedInv ==
  \A r \in Requests :
    asked[r].args # 0 =>
      /\ asked[r].args = r /\ KindOf(r, asked[r].ask)
      /\ asked[r].ask \notin {"unknown", "badargs", "noencode"}

AnswerInv ==
  /\ limited => opt.handleLimit
  /\ \A t \in Threads :
       at[t] \in {"lock", "writing"} =>
         LET a == answer[t]
         IN  /\ a.seq # 0
             /\ GoodHeader(a.seq, a.error) \/ ~ open["client"] \/ ~ open["server"] \/ lost
             /\ a.error = "none" => a.args = a.seq /\ GoodBody(a.seq, a.body)

ResponseParts ==
  \A k \in 1 .. Len(Responded) :
    LET p == Responded[k] IN p.part = "header" => GoodHeader(p.seq, p.info)

(* A header without an error is followed by the reply to its own request. *)
ReplyTo(s, error, p) == p.part = "body" /\ (error = "none" => p.seq = s /\ GoodBody(s, p.info) /\ p.info # "noreply")

ResponseFrames ==
  /\ \A k \in 1 .. Len(Responded) - 1 :
       LET p == Responded[k]
           q == Responded[k + 1]
       IN  /\ p.part = "header" <=> q.part = "body"
           /\ p.part = "header" => ReplyTo(p.seq, p.info, q)
  /\ rcv.at = "body" => GoodHeader(rcv.seq, rcv.error)
  /\ Len(Responded) > 0 =>
       /\ rcv.at = "body" => ReplyTo(rcv.seq, rcv.error, Responded[1])
       /\ rcv.at = "header" => Responded[1].part = "header"

ResponseEnd ==
  Heard("server") =>
    /\ \A t \in Threads : at[t] = "writing" =>
         IF Len(Responded) > 0
         THEN LET p == Responded[Len(Responded)]
              IN  p.part = "header" /\ p.seq = answer[t].seq /\ p.info = answer[t].error
         ELSE rcv.at = "body" => rcv.seq = answer[t].seq /\ rcv.error = answer[t].error
    /\ Len(Responded) > 0 /\ Responded[Len(Responded)].part = "header" => sendLock # {}
    /\ Len(Responded) = 0 /\ rcv.at = "body" => sendLock # {}
    /\ Len(Responded) = 0 /\ rcv.at = "header" => sendLock = {}

(* What may be returned as the outcome of c. *)
MayReturn(c, o) ==
  /\ o.error = "none" => kind[c] = "ok" /\ o.reply = callSeq[c]
  /\ o.error = "service" => kind[c] = "fails"
  /\ o.error = "request" => kind[c] = "badargs"
  /\ o.error = "timeout" => opt.handleLimit
  /\ o.error = "shutdown" => closing /\ callSeq[c] = 0
  /\ o.error = "context" => c \in Timed
  /\ o.error = "write" => ~ open["client"]
  /\ o.error = "reading" => kind[c] = "badreply" \/ lost \/ ~ open["client"] \/ ~ open["server"]

OutcomeInv ==
  \A c \in Calls :
    /\ dones[c] > 0 => MayReturn(c, outcome[c])
    /\ cpc[c] = "returned" => MayReturn(c, returned[c])

ReplyInv == AskedInv /\ AnswerInv /\ ResponseParts /\ ResponseFrames /\ ResponseEnd /\ OutcomeInv

Inv == Types /\ Flags /\ ClientInv /\ WireInv /\ ServerInv /\ ReplyInv

-----------------------------------------------------------------------------
USE CallsAssumption, KindsAssumption, RequestsAssumption

(***************************************************************************)
(* What Append, Tail and SubSeq do to a stream.                            *)
(***************************************************************************)
LEMMA PushSeq ==
  ASSUME NEW S, NEW s \in Seq(S), NEW p \in S
  PROVE  /\ Append(s, p) \in Seq(S) /\ Len(Append(s, p)) = Len(s) + 1 /\ Len(s) \in Nat
         /\ Append(s, p)[Len(s) + 1] = p
         /\ \A k \in 1 .. Len(s) : Append(s, p)[k] = s[k]
BY SMTT(30)

LEMMA PopSeq ==
  ASSUME NEW S, NEW s \in Seq(S), s # <<>>
  PROVE  /\ Tail(s) \in Seq(S) /\ Len(Tail(s)) = Len(s) - 1 /\ Len(s) \in Nat \ {0}
         /\ Head(s) = s[1] /\ Head(s) \in S
         /\ \A k \in 1 .. Len(s) - 1 : Tail(s)[k] = s[k + 1]
BY SMTT(30)

LEMMA DropSeq ==
  ASSUME NEW S, NEW s \in Seq(S), NEW n \in 1 .. Len(s)
  PROVE  LET d == SubSeq(s, n + 1, Len(s))
         IN  /\ d \in Seq(S) /\ Len(d) = Len(s) - n /\ Len(s) \in Nat
             /\ \A k \in 1 .. Len(s) - n : d[k] = s[k + n]
<1>1. Len(s) \in Nat
  BY SMTT(30)
<1>2. \A k \in n + 1 .. Len(s) : s[k] \in S
  BY <1>1, SMTT(30)
<1> QED
  BY <1>1, <1>2, SMTT(30)

LEMMA SeqSame ==
  ASSUME Types, UNCHANGED seq
  PROVE  seq \in Nat /\ seq' \in Nat /\ seq <= seq'
BY SMTT(30) DEF Types, CallTypes

LEMMA SeqsNat == \A s \in Seqs : s \in Nat /\ s > 0
BY SeqsAssumption, SMTT(30)


LEMMA InitInv == Init => Inv
<1> SUFFICES ASSUME Init PROVE Inv
  OBVIOUS
<1>1. /\ \A c \in Calls : cpc[c] = "start" /\ callSeq[c] = 0 /\ dones[c] = 0
      /\ seq = 1 /\ header = 0 /\ sending = {} /\ DOMAIN pending = {} /\ closing = FALSE
      /\ dialer = "selecting" /\ rcv.at = "off" /\ rcv.calls = {}
  BY DEF Init, ClientInit, FirstSeq, Idle
<1>2. /\ req.seq = 0 /\ sendLock = {} /\ garbled = FALSE /\ limited = FALSE
      /\ \A r \in Requests : responses[r] = 0 /\ asked[r].args = 0
  BY DEF Init, ServerInit
<1>3. Requested = <<>> /\ Responded = <<>> /\ Len(Requested) = 0 /\ Len(Responded) = 0
  BY DEF Init, WireInit, Requested, Responded, Ends
<1>4. /\ at[Loop] = "option" /\ \A t \in Threads : at[t] \in {"option", "none"}
      /\ \A r \in Requests : at[Handler(r)] = "none" /\ at[Runner(r)] = "none"
  BY DEF Init, ServerInit, Threads, Handler, Runner, Loop
<1>5. Types
  <2>1. DialTypes
    BY DEF Init, ClientInit, DialTypes
  <2>2. CallTypes
    <3>1. cpc \in [Calls -> {"start", "header", "body", "wait", "returned"}] /\ callSeq \in [Calls -> Seqs \cup {0}]
      BY DEF Init, ClientInit
    <3>2. DOMAIN pending = {} /\ pending \in [{} -> Calls]
      BY DEF Init, ClientInit
    <3>3. pending \in [DOMAIN pending -> Calls] /\ DOMAIN pending \subseteq Seqs
      BY <3>2
    <3>4. seq \in Nat \ {0} /\ header \in Seqs \cup {0} /\ sending \subseteq Calls
      BY SMTT(30) DEF Init, ClientInit, FirstSeq
    <3> QED
      BY <3>1, <3>3, <3>4 DEF CallTypes
  <2>3. DoneTypes
    BY DEF Init, ClientInit, DoneTypes, Outcomes, NoReply, Idle, Errors, ServerErrors
  <2>4. ServerTypes
    BY DEF Init, ServerInit, ServerTypes, Answer, ServerErrors, Threads
  <2>5. WireTypes
    <3>1. stream = [e \in Ends |-> <<>>] /\ <<>> \in Seq(ClientPart) /\ <<>> \in Seq(ServerPart)
      BY SMTT(30) DEF Init, WireInit
    <3>2. stream["client"] \in Seq(ClientPart) /\ stream["server"] \in Seq(ServerPart)
      BY <3>1 DEF Ends
    <3> QED
      BY <3>1, <3>2 DEF Init, WireInit, WireTypes
  <2> QED
    BY <2>1, <2>2, <2>3, <2>4, <2>5 DEF Types
<1>10. Flags
  BY DEF Init, ClientInit, ServerInit, WireInit, Flags
<1>6. ClientInv
  <2>1. ASSUME NEW c \in Calls PROVE CallInv(c)
    BY <1>1, SMTT(30) DEF CallInv
  <2>2. Numbered /\ PendingOwn /\ WaitingPending /\ HeldInv
    BY <1>1 DEF Numbered, PendingOwn, WaitingPending, HeldInv
  <2> QED
    BY <2>1, <2>2 DEF ClientInv
<1>7. WireInv
  <2>1. RequestParts /\ RequestFrames
    BY <1>3, <1>4, SMTT(30) DEF RequestParts, RequestFrames, Loops
  <2>2. RequestEnd
    BY <1>1, <1>3, <1>4, SMTT(30) DEF RequestEnd, Loops
  <2>3. RequestOrder
    BY <1>1, <1>2, <1>3, SMTT(30) DEF RequestOrder
  <2>4. LoopInv
    BY <1>1, <1>2, <1>3, <1>4 DEF LoopInv, Loops
  <2> QED
    BY <2>1, <2>2, <2>3, <2>4 DEF WireInv
<1>8. ServerInv
  <2>1. ASSUME NEW r \in Requests PROVE HandlerInv(r)
    <3>1. Fresh(r) /\ ~ Loops("closed")
      BY <1>2, <1>4 DEF Fresh, Loops
    <3>2. responses[r] <= 1
      BY <1>2, SMTT(30)
    <3> QED
      BY <1>2, <1>4, <3>1, <3>2 DEF HandlerInv
  <2>2. LockInv
    BY <1>2, <1>4 DEF LockInv, Loops
  <2> QED
    BY <2>1, <2>2 DEF ServerInv
<1>9. ReplyInv
  <2>1. AskedInv
    BY <1>2 DEF AskedInv
  <2>2. AnswerInv
    BY <1>2, <1>4 DEF AnswerInv
  <2>3. ResponseParts /\ ResponseFrames /\ ResponseEnd
    BY <1>1, <1>2, <1>3, <1>4, SMTT(30) DEF ResponseParts, ResponseFrames, ResponseEnd
  <2>4. OutcomeInv
    BY <1>1, SMTT(30) DEF OutcomeInv
  <2> QED
    BY <2>1, <2>2, <2>3, <2>4 DEF ReplyInv
<1> QED
  BY <1>5, <1>6, <1>7, <1>8, <1>9, <1>10 DEF Inv

-----------------------------------------------------------------------------
(***************************************************************************)
(* The goroutines of the server are told apart by their names.             *)
(***************************************************************************)
LEMMA ThreadNames ==
  /\ Loop \in Threads
  /\ \A r \in Requests : /\ Handler(r) \in Threads /\ Runner(r) \in Threads
                         /\ Handler(r) # Loop /\ Runner(r) # Loop
                         /\ \A s \in Requests : /\ Handler(r) # Runner(s)
                                                /\ Handler(r) = Handler(s) => r = s
                                                /\ Runner(r) = Runner(s) => r = s
  /\ \A t \in Threads : t = Loop \/ \E r \in Requests : t = Handler(r) \/ t = Runner(r)
BY DEF Threads, Loop, Handler, Runner

(* Who sends a response sends the one of its own request. *)
LEMMA Sender ==
  ASSUME Types, ServerInv, AnswerInv, NEW t \in Threads, at[t] \in {"lock", "writing"}
  PROVE  /\ answer[t].seq \in Seqs
         /\ t = Loop \/ t = Handler(answer[t].seq) \/ t = Runner(answer[t].seq)
<1>1. answer[t].seq \in Seqs
  BY DEF Types, ServerTypes, AnswerInv
<1>2. ASSUME NEW r \in Requests, t = Handler(r) PROVE answer[t].seq = r
  BY <1>2 DEF ServerInv, HandlerInv
<1>3. ASSUME NEW r \in Requests, t = Runner(r) PROVE answer[t].seq = r
  BY <1>3 DEF ServerInv, HandlerInv
<1> QED
  BY <1>1, <1>2, <1>3, ThreadNames

(* Where sendResponse leaves the goroutines. *)
LEMMA AfterMoves ==
  ASSUME Types, ServerInv, AnswerInv, NEW t \in Threads, at[t] \in {"lock", "writing"}, AfterSending(t)
  PROVE  LET r == answer[t].seq
         IN  /\ r \in Seqs
             /\ at' = [u \in Threads |-> at'[u]]
             /\ \/ /\ t = Loop /\ at'[Loop] = "header"
                   /\ \A u \in Threads : u # Loop => at'[u] = at[u]
                \/ /\ t = Handler(r) /\ at'[t] = "done"
                   /\ \A u \in Threads : u # t => at'[u] = at[u]
                \/ /\ t = Runner(r) /\ at'[t] = "done" /\ at'[Handler(r)] = "done"
                   /\ \A u \in Threads : u # t /\ u # Handler(r) => at'[u] = at[u]
<1> DEFINE r == answer[t].seq
<1>1. r \in Seqs /\ r \in Requests
  BY Sender
<1>2. DOMAIN at = Threads /\ at = [u \in Threads |-> at[u]]
  BY DEF Types, ServerTypes
<1>3. CASE t = Loop
  <2>1. at' = [at EXCEPT ![t] = "header"]
    BY <1>1, <1>3, ThreadNames DEF AfterSending
  <2> QED
    BY <1>1, <1>2, <1>3, <2>1
<1>4. CASE t = Handler(r)
  <2>1. t # Loop
    BY <1>1, <1>4, ThreadNames
  <2>2. at' = [at EXCEPT ![t] = "done"]
    BY <1>4, <2>1, ThreadNames, <1>1 DEF AfterSending
  <2> QED
    BY <1>1, <1>2, <1>4, <2>2
<1>5. CASE t = Runner(r)
  <2>1. t # Loop /\ t # Handler(r) /\ Handler(r) \in Threads
    BY <1>1, <1>5, ThreadNames
  <2>2. at' = [at EXCEPT ![t] = "done", ![Handler(r)] = "done"]
    BY <1>5, <2>1 DEF AfterSending
  <2> QED
    BY <1>1, <1>2, <1>5, <2>1, <2>2
<1> QED
  BY <1>3, <1>4, <1>5, Sender

-----------------------------------------------------------------------------
(* Types are preserved. *)

(* Writing one part. *)
LEMMA PassesTypes ==
  ASSUME WireTypes, NEW e \in Ends, NEW p, Passes(e, p), e = "client" => p \in ClientPart, e = "server" => p \in ServerPart
  PROVE  WireTypes'
<1>1. CASE ~ open[Peer(e)]
  BY <1>1 DEF Passes, WireTypes
<1>2. CASE open[Peer(e)] /\ e = "client"
  BY <1>2, PushSeq DEF Passes, WireTypes, Ends
<1>3. CASE open[Peer(e)] /\ e = "server"
  BY <1>3, PushSeq DEF Passes, WireTypes, Ends
<1> QED
  BY <1>1, <1>2, <1>3 DEF Ends

(* Reading one part. *)
LEMMA ConsumeTypes ==
  ASSUME WireTypes, NEW e \in Ends, CanRead(e), Consume(e)
  PROVE  /\ WireTypes'
         /\ e = "client" => NextPart(e) \in ServerPart
         /\ e = "server" => NextPart(e) \in ClientPart
<1>1. CASE e = "client"
  BY <1>1, PopSeq DEF CanRead, Consume, NextPart, Peer, WireTypes, Ends
<1>2. CASE e = "server"
  BY <1>2, PopSeq DEF CanRead, Consume, NextPart, Peer, WireTypes, Ends
<1> QED
  BY <1>1, <1>2 DEF Ends

(* An end or the network fails. *)
LEMMA FailsTypes ==
  ASSUME WireTypes, NEW e \in Ends
  PROVE  /\ CloseEnd(e) /\ UNCHANGED <<lost, stream, broken>> => WireTypes'
         /\ FlushFails(e) => WireTypes'
         /\ WriteFails(e) => WireTypes'
         /\ Lose => WireTypes'
         /\ UNCHANGED wireVars => WireTypes'
BY DEF WireTypes, CloseEnd, FlushFails, WriteFails, Lose, wireVars, Ends

LEMMA DialsTypes ==
  ASSUME Inv, Dials
  PROVE  Types'
<1> USE DEF Inv, Types
<1>0. ServerTypes'
  BY DEF Dials, serverVars, ServerTypes
<1>1. CASE NewClient
  <2>1. DialTypes' /\ CallTypes'
    BY <1>1 DEF NewClient, DialTypes, callVars, CallTypes
  <2>2. DoneTypes'
    BY <1>1 DEF NewClient, DoneTypes, callVars
  <2>3. WireTypes'
    <3>1. Part("option", 0, "option") \in ClientPart
      BY DEF Part, ClientPart
    <3> QED
      BY <1>1, <3>1, PassesTypes, FailsTypes DEF NewClient, Ends
  <2> QED
    BY <1>0, <2>1, <2>2, <2>3
<1>2. CASE DialTakes \/ DialTimesOut
  <2>1. DialTypes' /\ CallTypes'
    BY <1>2 DEF DialTakes, DialTimesOut, DialTypes, callVars, CallTypes
  <2>2. DoneTypes'
    BY <1>2 DEF DialTakes, DialTimesOut, DoneTypes, callVars
  <2>3. WireTypes'
    BY <1>2, FailsTypes DEF DialTakes, DialTimesOut, Ends, wireVars
  <2> QED
    BY <1>0, <2>1, <2>2, <2>3
<1> QED
  BY <1>1, <1>2 DEF Dials

(* removeCall. *)
LEMMA RemoveTypes ==
  ASSUME CallTypes, NEW s
  PROVE  /\ Pending(s) \subseteq Calls
         /\ DOMAIN Without(s) \subseteq Seqs /\ Without(s) \in [DOMAIN Without(s) -> Calls]
BY DEF CallTypes, Pending, Without

(* call.done(). *)
LEMMA FinishTypes ==
  ASSUME DoneTypes, NEW cs, NEW o \in Outcomes, Finish(cs, o)
  PROVE  dones' \in [Calls -> Nat] /\ outcome' \in [Calls -> Outcomes]
BY SMTT(30) DEF DoneTypes, Finish

LEMMA CallGoesTypes ==
  ASSUME Inv, NEW c \in Calls, CallGoes(c)
  PROVE  Types'
<1> USE DEF Inv, Types
<1>0. ServerTypes'
  BY DEF CallGoes, serverVars, ServerTypes
<1>1. CASE Send(c)
  <2>0. WireTypes' /\ DialTypes'
    BY <1>1, FailsTypes DEF Send, wireVars, DialTypes, Ends
  <2>1. CASE closing
    <3>0. /\ cpc' = [cpc EXCEPT ![c] = "wait"]
          /\ UNCHANGED <<sending, callSeq, header, seq, pending, closing>>
      BY <1>1, <2>1 DEF Send
    <3>1. CallTypes'
      BY <3>0 DEF CallTypes
    <3>2. [error |-> "shutdown", reply |-> 0] \in Outcomes
      BY DEF Outcomes, Errors
    <3>3. DoneTypes'
      BY <1>1, <2>1, <3>2, FinishTypes DEF Send, DoneTypes
    <3> QED
      BY <1>0, <2>0, <3>1, <3>3
  <2>2. CASE ~ closing
    <3>0. callSeq[c] = 0 /\ seq \in Seqs
      BY <1>1, <2>2 DEF Send, registerCall, ClientInv, CallInv
    <3>1. /\ sending' = {c} /\ header' = seq /\ seq' = seq + 1
          /\ callSeq' = [callSeq EXCEPT ![c] = seq] /\ cpc' = [cpc EXCEPT ![c] = "header"]
          /\ pending' = [s \in DOMAIN pending \cup {seq} |-> IF s = seq THEN c ELSE pending[s]]
          /\ UNCHANGED closing
      BY <1>1, <2>2 DEF Send, registerCall
    <3>2. seq' \in Nat \ {0}
      BY <3>1, SMTT(30) DEF CallTypes
    <3>3. DOMAIN pending' \subseteq Seqs /\ pending' \in [DOMAIN pending' -> Calls]
      BY <3>0, <3>1 DEF CallTypes
    <3>4. CallTypes'
      <4>1. cpc' \in [Calls -> {"start", "header", "body", "wait", "returned"}]
        BY <3>1 DEF CallTypes
      <4>2. callSeq' \in [Calls -> Seqs \cup {0}] /\ header' \in Seqs \cup {0}
        BY <3>0, <3>1 DEF CallTypes
      <4>3. sending' \subseteq Calls
        BY <3>1 DEF CallTypes
      <4> QED
        BY <3>2, <3>3, <4>1, <4>2, <4>3 DEF CallTypes
    <3>5. DoneTypes'
      BY <1>1, <2>2 DEF Send, DoneTypes
    <3> QED
      BY <1>0, <2>0, <3>4, <3>5
  <2> QED
    BY <2>1, <2>2
<1>2. ASSUME Sent(c) PROVE DialTypes' /\ CallTypes' /\ DoneTypes'
  BY <1>2 DEF Sent, DialTypes, CallTypes, DoneTypes
<1>3. ASSUME SendError(c) PROVE DialTypes' /\ CallTypes' /\ DoneTypes'
  <2>1. [error |-> "write", reply |-> 0] \in Outcomes
    BY DEF Outcomes, Errors
  <2>2. DialTypes' /\ DoneTypes'
    BY <1>3, <2>1, FinishTypes DEF SendError, DialTypes, DoneTypes
  <2>3. CallTypes'
    BY <1>3, RemoveTypes DEF SendError, CallTypes
  <2> QED
    BY <2>2, <2>3
<1>4. CASE WriteHeader(c)
  <2>1. Part("header", header, kind[c]) \in ClientPart
    BY <1>4 DEF WriteHeader, ClientInv, CallInv, CallTypes, DialTypes, Part, ClientPart
  <2>2. CASE Passes("client", Part("header", header, kind[c])) /\ UNCHANGED <<kind, opt, dialer, maker, made, rcv, callSeq, sending, header, seq, pending, closing, dones, outcome, returned>> /\ cpc' = [cpc EXCEPT ![c] = "body"]
    <3>1. WireTypes'
      BY <2>1, <2>2, PassesTypes DEF Ends
    <3>2. DialTypes' /\ CallTypes' /\ DoneTypes'
      BY <2>2 DEF DialTypes, CallTypes, DoneTypes
    <3> QED
      BY <1>0, <3>1, <3>2
  <2>3. CASE FlushFails("client") /\ Sent(c)
    BY <1>0, <1>2, <2>3, FailsTypes DEF Ends
  <2>4. CASE WriteFails("client") /\ SendError(c)
    BY <1>0, <1>3, <2>4, FailsTypes DEF Ends
  <2> QED
    BY <1>4, <2>2, <2>3, <2>4 DEF WriteHeader
<1>5. CASE WriteBody(c)
  <2>1. Part("body", callSeq[c], kind[c]) \in ClientPart
    BY <1>5 DEF WriteBody, ClientInv, CallInv, CallTypes, DialTypes, Part, ClientPart
  <2>2. DialTypes' /\ CallTypes' /\ DoneTypes'
    BY <1>2, <1>3, <1>5 DEF WriteBody
  <2>3. WireTypes'
    BY <1>5, <2>1, PassesTypes, FailsTypes DEF WriteBody, Ends
  <2> QED
    BY <1>0, <2>2, <2>3
<1>6. CASE TakeDone(c)
  BY <1>0, <1>6, FailsTypes DEF TakeDone, wireVars, DialTypes, CallTypes, DoneTypes, Ends
<1>7. CASE ContextDone(c)
  <2>1. WireTypes' /\ DialTypes'
    BY <1>7, FailsTypes DEF ContextDone, wireVars, DialTypes, Ends
  <2>2. CallTypes'
    BY <1>7, RemoveTypes DEF ContextDone, CallTypes
  <2>3. DoneTypes'
    BY <1>7 DEF ContextDone, DoneTypes, Outcomes, Errors
  <2> QED
    BY <1>0, <2>1, <2>2, <2>3
<1> QED
  BY <1>1, <1>4, <1>5, <1>6, <1>7 DEF CallGoes, CallStep

LEMMA ReceivesTypes ==
  ASSUME Inv, Receives \/ UserCloses
  PROVE  Types'
<1> USE DEF Inv, Types
<1>0. ServerTypes'
  BY DEF Receives, UserCloses, serverVars, ServerTypes
<1>1. CASE Receive /\ ReceiveHeader
  <2>1. WireTypes' /\ NextPart("client") \in ServerPart
    BY <1>1, ConsumeTypes DEF ReceiveHeader, Ends
  <2>2. DialTypes'
    BY <1>1 DEF ReceiveHeader, DialTypes
  <2>3. CallTypes'
    BY <1>1, RemoveTypes, SMTT(30) DEF ReceiveHeader, CallTypes
  <2>4. NextPart("client").part = "header" => NextPart("client").seq \in Seqs /\ NextPart("client").info \in ServerErrors
    BY <2>1 DEF ServerPart
  <2>5. rcv' \in [at : {"off", "header", "body", "ended"}, seq : Seqs \cup {0}, error : ServerErrors, calls : SUBSET Calls]
    BY <1>1, <2>4, RemoveTypes, SMTT(30) DEF ReceiveHeader, DoneTypes
  <2>6. DoneTypes'
    BY <1>1, <2>5 DEF ReceiveHeader, DoneTypes
  <2> QED
    BY <1>0, <2>1, <2>2, <2>3, <2>6
<1>2. CASE Receive /\ ReceiveBody
  <2>1. WireTypes' /\ NextPart("client") \in ServerPart
    BY <1>2, ConsumeTypes DEF ReceiveBody, Ends
  <2>2. DialTypes' /\ CallTypes'
    BY <1>2 DEF ReceiveBody, DialTypes, CallTypes
  <2>3. BodyOutcome(NextPart("client")) \in Outcomes
    BY <2>1 DEF BodyOutcome, Outcomes, ServerPart, Errors, ServerErrors, DoneTypes
  <2>4. DoneTypes'
    BY <1>2, <2>3, FinishTypes DEF ReceiveBody, DoneTypes, Idle, ServerErrors
  <2> QED
    BY <1>0, <2>1, <2>2, <2>4
<1>3. CASE Receive /\ ReceiveFails
  <2>1. WireTypes' /\ DialTypes' /\ CallTypes'
    BY <1>3, FailsTypes DEF ReceiveFails, DialTypes, CallTypes, Ends
  <2>2. [error |-> IF rcv.error # "none" THEN rcv.error ELSE "reading", reply |-> 0] \in Outcomes
    BY DEF Outcomes, Errors, ServerErrors, DoneTypes
  <2>3. DoneTypes'
    BY <1>3, <2>2, FinishTypes DEF ReceiveFails, DoneTypes, Idle, ServerErrors
  <2> QED
    BY <1>0, <2>1, <2>3
<1>4. CASE Close
  BY <1>0, <1>4, FailsTypes DEF Close, DialTypes, CallTypes, DoneTypes, Ends
<1> QED
  BY <1>1, <1>2, <1>3, <1>4 DEF Receives, UserCloses, Receive

(* Only the client writes the client's variables. *)
LEMMA ClientKeepsTypes ==
  ASSUME Types, UNCHANGED clientVars
  PROVE  DialTypes' /\ CallTypes' /\ DoneTypes'
BY DEF Types, clientVars, DialTypes, CallTypes, DoneTypes

(* A response begins. *)
LEMMA RespondsTypes ==
  ASSUME ServerTypes, NEW t \in Threads, NEW r \in Seqs \cup {0}, NEW error \in ServerErrors,
         NEW body \in KindSet \cup {"invalid"}, NEW args \in Seqs \cup {0},
         Responds(t, Answer(r, error, body, args))
  PROVE  /\ answer' \in [Threads -> [seq : Seqs \cup {0}, error : ServerErrors,
                                     body : KindSet \cup {"invalid"}, args : Seqs \cup {0}]]
         /\ responses' \in [Requests -> Nat]
<1>1. Answer(r, error, body, args) \in
        [seq : Seqs \cup {0}, error : ServerErrors, body : KindSet \cup {"invalid"}, args : Seqs \cup {0}]
  BY DEF Answer
<1>2. responses' = [responses EXCEPT ![r] = @ + 1]
  BY DEF Responds, Answer
<1>3. responses' \in [Requests -> Nat]
  <2>1. responses \in [Requests -> Nat]
    BY DEF ServerTypes
  <2>2. CASE r \in Requests
    BY <1>2, <2>1, <2>2, SMTT(30)
  <2>3. CASE r \notin Requests
    BY <1>2, <2>1, <2>3
  <2> QED
    BY <2>2, <2>3
<1> QED
  BY <1>1, <1>3 DEF ServerTypes, Responds

LEMMA LoopTypes ==
  ASSUME Inv, OptionRead \/ LoopGoes
  PROVE  Types'
<1> USE DEF Inv, Types
<1>0. DialTypes' /\ CallTypes' /\ DoneTypes'
  BY ClientKeepsTypes DEF OptionRead, LoopGoes
<1>1. CASE ReadOption(opt.handleLimit)
  <2>1. ServerTypes'
    <3>1. /\ at' = [at EXCEPT ![Loop] = "header"]
          /\ UNCHANGED <<req, answer, asked, sendLock, responses>>
      BY <1>1 DEF ReadOption, Moves
    <3> QED
      BY <3>1 DEF ServerTypes
  <2>2. WireTypes'
    <3>1. PICK k \in 1 .. Len(stream["client"]) :
             stream' = [stream EXCEPT !["client"] = SubSeq(@, k + 1, Len(@))]
      BY <1>1 DEF ReadOption
    <3>2. SubSeq(stream["client"], k + 1, Len(stream["client"])) \in Seq(ClientPart)
      BY DropSeq DEF WireTypes
    <3> QED
      BY <1>1, <3>1, <3>2 DEF ReadOption, WireTypes, Ends
  <2> QED
    BY <1>0, <2>1, <2>2
<1>2. CASE ReadRequestHeader
  <2>1. WireTypes' /\ NextPart("server") \in ClientPart
    BY <1>2, ConsumeTypes DEF ReadRequestHeader, Ends
  <2>2. NextPart("server").part = "header" => NextPart("server").seq \in Seqs /\ NextPart("server").info \in KindSet
    BY <2>1 DEF ClientPart
  <2>3. ServerTypes'
    <3>1. UNCHANGED <<answer, asked, garbled, limited, sendLock, responses>>
      BY <1>2 DEF ReadRequestHeader
    <3>2. \E where \in {"leaving", "body"} : at' = [at EXCEPT ![Loop] = where]
      BY <1>2 DEF ReadRequestHeader, Moves
    <3>3. req' \in [seq : Seqs \cup {0}, ask : KindSet \cup {"none"}]
      <4>1. CASE UNCHANGED req
        BY <4>1 DEF ServerTypes
      <4>2. CASE /\ NextPart("server").part = "header"
                 /\ req' = [seq |-> NextPart("server").seq, ask |-> NextPart("server").info]
        BY <2>2, <4>2
      <4> QED
        BY <1>2, <4>1, <4>2 DEF ReadRequestHeader
    <3>4. at' \in [Threads -> {"option", "none", "header", "body", "leaving", "closed", "select",
                               "running", "called", "lock", "writing", "sent", "done"}]
      <4>1. CASE at' = [at EXCEPT ![Loop] = "leaving"]
        BY <4>1 DEF ServerTypes
      <4>2. CASE at' = [at EXCEPT ![Loop] = "body"]
        BY <4>2 DEF ServerTypes
      <4> QED
        BY <3>2, <4>1, <4>2
    <3> QED
      BY <3>1, <3>3, <3>4 DEF ServerTypes
  <2> QED
    BY <1>0, <2>1, <2>3
<1>3. Loop \in Threads /\ req.seq \in Seqs \cup {0} /\ req.ask \in KindSet \cup {"none"}
  BY ThreadNames DEF ServerTypes
<1>4. CASE ReadBody
  <2>1. WireTypes' /\ NextPart("server") \in ClientPart
    BY <1>4, ConsumeTypes DEF ReadBody, Ends
  <2>2. NextPart("server").seq \in Seqs \cup {0}
    BY <2>1 DEF ClientPart
  <2>3. ASSUME Responds(Loop, Answer(req.seq, "request", "invalid", 0)), Moves(Loop, "lock"), UNCHANGED asked
        PROVE  ServerTypes'
    <3>1. "request" \in ServerErrors
      BY DEF ServerErrors
    <3> QED
      BY <1>3, <1>4, <2>3, <3>1, RespondsTypes DEF ReadBody, Moves, ServerTypes
  <2>4. ASSUME at' = [at EXCEPT ![Loop] = "header", ![Handler(req.seq)] = "select", ![Runner(req.seq)] = "running"],
               asked' = [asked EXCEPT ![req.seq] = [ask |-> req.ask, args |-> NextPart("server").seq]],
               UNCHANGED <<answer, responses>>
        PROVE  ServerTypes'
    BY <1>3, <1>4, <2>2, <2>4 DEF ReadBody, ServerTypes
  <2> QED
    BY <1>0, <1>4, <2>1, <2>3, <2>4 DEF ReadBody
<1>5. CASE ReadFailsServer
  <2>1. WireTypes'
    BY <1>5, FailsTypes DEF ReadFailsServer, Ends, wireVars
  <2>2. "request" \in ServerErrors
    BY DEF ServerErrors
  <2>3. /\ answer' \in [Threads -> [seq : Seqs \cup {0}, error : ServerErrors,
                                    body : KindSet \cup {"invalid"}, args : Seqs \cup {0}]]
        /\ responses' \in [Requests -> Nat]
    BY <1>3, <1>5, <2>2, RespondsTypes DEF ReadFailsServer, ServerTypes
  <2>4. ServerTypes'
    BY <1>5, <2>3 DEF ReadFailsServer, Moves, ServerTypes
  <2> QED
    BY <1>0, <2>1, <2>4
<1>6. CASE CloseCodec
  BY <1>0, <1>6, FailsTypes DEF CloseCodec, Moves, ServerTypes, Ends
<1> QED
  BY <1>1, <1>2, <1>4, <1>5, <1>6 DEF OptionRead, LoopGoes, LoopStep

LEMMA HandlesTypes ==
  ASSUME Inv, NEW r \in Requests, Handles(r)
  PROVE  Types'
<1> USE DEF Inv, Types
<1>0. DialTypes' /\ CallTypes' /\ DoneTypes'
  BY ClientKeepsTypes DEF Handles
<1>1. WireTypes'
  BY FailsTypes DEF Handles, RequestStep, MethodReturns, Called, HandleTimeout, Ends
<1>2. CASE MethodReturns(r)
  BY <1>0, <1>1, <1>2 DEF MethodReturns, Moves, ServerTypes
<1>3. r \in Seqs /\ Handler(r) \in Threads /\ Runner(r) \in Threads
  BY ThreadNames
<1>4. CASE Called(r)
  <2>1. PICK error \in ServerErrors, body \in KindSet \cup {"invalid"}, args \in Seqs \cup {0} :
           Result(r) = Answer(r, error, body, args)
    <3>1. asked[r].ask \in KindSet /\ asked[r].args \in Seqs \cup {0}
      <4>1. asked[r].args # 0
        BY <1>4 DEF Called, ServerInv, HandlerInv
      <4>2. KindOf(r, asked[r].ask) /\ asked[r].args \in Seqs \cup {0}
        BY <4>1 DEF ReplyInv, AskedInv, ServerTypes
      <4> QED
        BY <4>2 DEF KindOf, DialTypes
    <3>2. "none" \in ServerErrors /\ "service" \in ServerErrors
      BY DEF ServerErrors
    <3> QED
      BY <3>1, <3>2 DEF Result
  <2> QED
    <3>1. /\ answer' \in [Threads -> [seq : Seqs \cup {0}, error : ServerErrors,
                                      body : KindSet \cup {"invalid"}, args : Seqs \cup {0}]]
          /\ responses' \in [Requests -> Nat]
      BY <1>3, <1>4, <2>1, RespondsTypes, SMTT(30) DEF Called
    <3>2. ServerTypes'
      BY <1>4, <3>1 DEF Called, ServerTypes
    <3> QED
      BY <1>0, <1>1, <3>2
<1>5. CASE HandleTimeout(r)
  <2>1. "timeout" \in ServerErrors
    BY DEF ServerErrors
  <2> QED
    BY <1>0, <1>1, <1>3, <1>5, <2>1, RespondsTypes DEF HandleTimeout, Moves, ServerTypes
<1> QED
  BY <1>2, <1>4, <1>5 DEF Handles, RequestStep

LEMMA SendsTypes ==
  ASSUME Inv, NEW t \in Threads, Sends(t)
  PROVE  Types'
<1> USE DEF Inv, Types, ReplyInv
<1>0. DialTypes' /\ CallTypes' /\ DoneTypes'
  BY ClientKeepsTypes DEF Sends
<1>1. at[t] \in {"lock", "writing"} /\ UNCHANGED <<req, answer, asked, garbled, limited, responses>>
  BY DEF Sends, RespondStep, RespondHeader, RespondBody
<1>2. /\ answer[t].seq \in Seqs /\ answer[t].error \in ServerErrors
      /\ answer[t].body \in KindSet \cup {"invalid"} /\ answer[t].args \in Seqs \cup {0}
  BY <1>1, Sender DEF ServerTypes
<1>3. /\ [part |-> "header", seq |-> answer[t].seq, info |-> answer[t].error] \in ServerPart
      /\ [part |-> "body", seq |-> answer[t].args, info |-> answer[t].body] \in ServerPart
  BY <1>2 DEF ServerPart
<1>4. WireTypes'
  BY <1>3, PassesTypes, FailsTypes DEF Sends, RespondStep, RespondHeader, RespondBody, Ends
<1>5. ASSUME AfterSending(t) PROVE ServerTypes'
  <2>1. at' \in [Threads -> {"option", "none", "header", "body", "leaving", "closed", "select",
                             "running", "called", "lock", "writing", "sent", "done"}]
    <3>1. /\ at' = [u \in Threads |-> at'[u]]
          /\ \A u \in Threads : at'[u] \in {at[u], "header", "done"}
      BY <1>1, <1>5, AfterMoves
    <3> QED
      BY <3>1 DEF ServerTypes
  <2>2. sendLock' \subseteq Threads
    BY <1>5 DEF AfterSending, ServerTypes
  <2> QED
    BY <1>1, <2>1, <2>2 DEF ServerTypes
<1>6. ASSUME Moves(t, "writing"), sendLock' = {t} PROVE ServerTypes'
  BY <1>1, <1>6 DEF Moves, ServerTypes
<1>7. ServerTypes'
  BY <1>5, <1>6 DEF Sends, RespondStep, RespondHeader, RespondBody
<1> QED
  BY <1>0, <1>4, <1>7

LEMMA TypesStep ==
  ASSUME Inv, [Next]_vars
  PROVE  Types'
<1>1. CASE NetworkFails
  BY <1>1, FailsTypes, ClientKeepsTypes DEF NetworkFails, Inv, Types, serverVars, ServerTypes, Ends
<1>2. CASE UNCHANGED vars
  BY <1>2, FailsTypes, ClientKeepsTypes DEF vars, Inv, Types, serverVars, ServerTypes, Ends
<1> QED
  BY <1>1, <1>2, DialsTypes, CallGoesTypes, ReceivesTypes, LoopTypes, HandlesTypes, SendsTypes DEF Next

-----------------------------------------------------------------------------
(* The client's invariant is preserved. *)

LEMMA ClientKeeps ==
  ASSUME Types, ClientInv, UNCHANGED <<cpc, callSeq, dones, dialer, seq, header, sending, pending, rcv>>
  PROVE  ClientInv'
BY SMTT(30) DEF ClientInv, CallInv, Numbered, PendingOwn, WaitingPending, HeldInv

(* What removeCall takes from pending is the call with that number, not yet done. *)
LEMMA Removed ==
  ASSUME Types, ClientInv, NEW s
  PROVE  /\ \A c \in Pending(s) : /\ c \in Calls /\ callSeq[c] = s /\ dones[c] = 0
                                  /\ cpc[c] \in {"header", "body", "wait"} /\ s # 0 /\ s \in DOMAIN pending
         /\ DOMAIN Without(s) = DOMAIN pending \ {s}
         /\ \A u \in DOMAIN Without(s) : Without(s)[u] = pending[u]
BY SeqsNat, SMTT(30) DEF Types, CallTypes, ClientInv, PendingOwn, Pending, Without

LEMMA SendClient ==
  ASSUME Types, ClientInv, NEW c \in Calls, Send(c)
  PROVE  ClientInv'
<1> USE DEF Types
<1>0. /\ cpc[c] = "start" /\ sending = {} /\ dialer = "ok" /\ UNCHANGED <<dialer, rcv>>
      /\ callSeq[c] = 0 /\ dones[c] = 0
  BY DEF Send, ClientInv, CallInv
<1>1. CASE closing
  <2>1. /\ dones' = [dones EXCEPT ![c] = 1] /\ cpc' = [cpc EXCEPT ![c] = "wait"]
        /\ UNCHANGED <<sending, callSeq, header, seq, pending>>
    BY <1>0, <1>1, SMTT(30) DEF Send, Finish, DoneTypes
  <2>2. ASSUME NEW d \in Calls PROVE CallInv(d)'
    BY <1>0, <2>1, SMTT(30) DEF ClientInv, CallInv, CallTypes, DoneTypes
  <2>3. Numbered' /\ PendingOwn'
    BY <1>0, <2>1, SMTT(30) DEF ClientInv, Numbered, PendingOwn, CallTypes, DoneTypes
  <2>4. HeldInv'
    BY <1>0, <2>1 DEF ClientInv, HeldInv, CallTypes, DoneTypes
  <2>5. WaitingPending'
    BY <1>0, <2>1, SMTT(30) DEF ClientInv, WaitingPending, CallTypes, DoneTypes
  <2> QED
    BY <2>2, <2>3, <2>4, <2>5 DEF ClientInv
<1>2. CASE ~ closing
  <2>1. /\ sending' = {c} /\ header' = seq /\ seq' = seq + 1
        /\ callSeq' = [callSeq EXCEPT ![c] = seq] /\ cpc' = [cpc EXCEPT ![c] = "header"]
        /\ pending' = [s \in DOMAIN pending \cup {seq} |-> IF s = seq THEN c ELSE pending[s]]
        /\ UNCHANGED dones
    BY <1>2 DEF Send, registerCall
  <2>2. /\ seq \in Nat \ {0} /\ \A d \in Calls : callSeq[d] \in Nat /\ callSeq[d] < seq /\ (d # c => callSeq'[d] = callSeq[d])
        /\ callSeq'[c] = seq
    BY <2>1, SeqsNat, SMTT(30) DEF CallTypes, ClientInv, CallInv
  <2>3. ASSUME NEW d \in Calls PROVE CallInv(d)'
    <3>1. CASE d = c
      BY <1>0, <2>1, <2>2, <3>1, SMTT(30) DEF ClientInv, CallInv, CallTypes, DoneTypes
    <3>2. CASE d # c
      BY <1>0, <2>1, <2>2, <3>2, SMTT(30) DEF ClientInv, CallInv, CallTypes, DoneTypes
    <3> QED
      BY <3>1, <3>2
  <2>4. Numbered'
    BY <2>2, SMTT(30) DEF ClientInv, Numbered
  <2>5. PendingOwn'
    <3> SUFFICES ASSUME NEW s \in DOMAIN pending'
                 PROVE  callSeq'[pending'[s]] = s /\ dones'[pending'[s]] = 0 /\ cpc'[pending'[s]] \in {"header", "body", "wait"}
      BY DEF PendingOwn
    <3>1. CASE s = seq
      BY <1>0, <2>1, <2>2, <3>1 DEF CallTypes
    <3>2. CASE s # seq
      <4>1. s \in DOMAIN pending /\ pending'[s] = pending[s] /\ pending[s] \in Calls
        BY <2>1, <3>2 DEF CallTypes
      <4>2. callSeq[pending[s]] = s /\ dones[pending[s]] = 0 /\ cpc[pending[s]] \in {"header", "body", "wait"}
        BY <4>1 DEF ClientInv, PendingOwn
      <4> QED
        BY <1>0, <2>1, <2>2, <4>1, <4>2 DEF CallTypes
    <3> QED
      BY <3>1, <3>2
  <2>6. HeldInv'
    <3>1. rcv.calls # {} => rcv.seq # seq
      BY <2>2, SMTT(30) DEF ClientInv, HeldInv, DoneTypes
    <3>2. ASSUME NEW d \in rcv.calls PROVE d # c /\ d \in Calls /\ cpc'[d] = cpc[d]
      BY <1>0, <2>1, <3>2 DEF ClientInv, HeldInv, DoneTypes, CallTypes
    <3> QED
      BY <1>0, <2>1, <2>2, <3>1, <3>2 DEF ClientInv, HeldInv
  <2>7. ASSUME NEW d \in Calls, d # c, callSeq[d] \in DOMAIN pending
        PROVE  callSeq'[d] \in DOMAIN pending' /\ pending'[callSeq'[d]] = pending[callSeq[d]]
    BY <2>1, <2>2, <2>7, SMTT(30)
  <2>8. WaitingPending'
    BY <1>0, <2>1, <2>2, <2>7 DEF ClientInv, WaitingPending, CallTypes
  <2> QED
    BY <2>3, <2>4, <2>5, <2>6, <2>8 DEF ClientInv
<1> QED
  BY <1>1, <1>2

(* send returns. *)
LEMMA SentClient ==
  ASSUME Types, ClientInv, NEW c \in Calls, cpc[c] \in {"header", "body"}, Sent(c)
  PROVE  ClientInv'
<1> USE DEF Types
<1>1. /\ cpc' = [cpc EXCEPT ![c] = "wait"] /\ sending = {c} /\ sending' = {} /\ UNCHANGED <<dialer, rcv>>
      /\ UNCHANGED <<callSeq, header, seq, pending, dones>>
  BY DEF Sent, ClientInv, CallInv
<1>2. ASSUME NEW d \in Calls PROVE CallInv(d)'
  BY <1>1 DEF ClientInv, CallInv, CallTypes
<1>3. Numbered' /\ PendingOwn' /\ HeldInv'
  BY <1>1, SMTT(30) DEF ClientInv, Numbered, PendingOwn, HeldInv, CallTypes, DoneTypes
<1>4. WaitingPending'
  BY <1>1 DEF ClientInv, WaitingPending, CallTypes
<1> QED
  BY <1>2, <1>3, <1>4 DEF ClientInv

(* send gives up. *)
LEMMA SendErrorClient ==
  ASSUME Types, ClientInv, NEW c \in Calls, cpc[c] \in {"header", "body"}, SendError(c)
  PROVE  /\ ClientInv'
         /\ \A d \in Calls : dones'[d] > 0 => dones[d] > 0 \/ d = c
<1> USE DEF Types
<1>1. /\ cpc' = [cpc EXCEPT ![c] = "wait"] /\ sending = {c} /\ sending' = {} /\ UNCHANGED <<dialer, rcv>>
      /\ UNCHANGED <<callSeq, header, seq>> /\ pending' = Without(callSeq[c]) /\ callSeq[c] # 0
  BY DEF SendError, ClientInv, CallInv
<1>2. ASSUME NEW d \in Calls
      PROVE  dones'[d] = dones[d] \/ (d = c /\ dones[d] = 0 /\ dones'[d] = 1 /\ callSeq[c] \in DOMAIN pending)
  <2>1. dones'[d] = IF d \in Pending(callSeq[c]) THEN dones[d] + 1 ELSE dones[d]
    BY DEF SendError, Finish
  <2>2. d \in Pending(callSeq[c]) => d = c /\ dones[d] = 0 /\ callSeq[c] \in DOMAIN pending
    <3> SUFFICES ASSUME d \in Pending(callSeq[c])
                 PROVE  d = c /\ dones[d] = 0 /\ callSeq[c] \in DOMAIN pending
      OBVIOUS
    <3>1. callSeq[d] = callSeq[c] /\ dones[d] = 0 /\ callSeq[c] \in DOMAIN pending
      BY Removed
    <3>2. d = c
      BY <1>1, <3>1 DEF ClientInv, Numbered
    <3> QED
      BY <3>1, <3>2
  <2> QED
    BY <2>1, <2>2, SMTT(30)
<1>3. ASSUME NEW d \in Calls PROVE CallInv(d)'
  BY <1>1, <1>2, SMTT(30) DEF ClientInv, CallInv, CallTypes, DoneTypes
<1>4. Numbered'
  BY <1>1 DEF ClientInv, Numbered
<1>5. ASSUME NEW s \in DOMAIN pending'
      PROVE  /\ s \in DOMAIN pending /\ s # callSeq[c] /\ pending'[s] = pending[s]
             /\ pending[s] \in Calls /\ pending[s] # c /\ callSeq[pending[s]] = s
             /\ dones[pending[s]] = 0 /\ cpc[pending[s]] \in {"header", "body", "wait"}
  <2>1. s \in DOMAIN pending /\ s # callSeq[c] /\ pending'[s] = pending[s]
    BY <1>1, <1>5, SMTT(30) DEF Without
  <2> QED
    BY <2>1 DEF ClientInv, PendingOwn, CallTypes
<1>6. PendingOwn'
  BY <1>1, <1>2, <1>5, SMTT(30) DEF PendingOwn, CallTypes
<1>7. HeldInv'
  <2>1. ASSUME NEW d \in rcv.calls PROVE dones'[d] = 0 /\ cpc'[d] # "start"
    BY <1>1, <1>2, <2>1, SMTT(30) DEF ClientInv, HeldInv, DoneTypes, CallTypes
  <2>2. rcv.seq \notin DOMAIN pending => rcv.seq \notin DOMAIN pending'
    BY <1>5
  <2> QED
    BY <1>1, <2>1, <2>2 DEF ClientInv, HeldInv
<1>8. WaitingPending'
  <2> SUFFICES ASSUME NEW d \in Calls, cpc'[d] \in {"header", "body", "wait"}, dones'[d] = 0, d \notin rcv.calls
               PROVE  callSeq[d] \in DOMAIN pending' /\ pending'[callSeq[d]] = d
    BY <1>1 DEF WaitingPending
  <2>1. callSeq[d] \in DOMAIN pending /\ pending[callSeq[d]] = d
    BY <1>1, <1>2 DEF ClientInv, WaitingPending, CallTypes, DoneTypes
  <2>2. d # c
    <3>1. d \in Pending(callSeq[d])
      BY <2>1 DEF Pending
    <3>2. d = c => dones'[d] = dones[d] + 1
      BY <3>1 DEF SendError, Finish
    <3> QED
      BY <3>2, SMTT(30) DEF DoneTypes
  <2>3. callSeq[d] # callSeq[c]
    BY <1>1, <2>2 DEF ClientInv, Numbered
  <2>4. /\ DOMAIN pending' = DOMAIN pending \ {callSeq[c]}
        /\ \A u \in DOMAIN pending' : pending'[u] = pending[u]
    BY <1>1 DEF Without
  <2> QED
    BY <2>1, <2>3, <2>4
<1> QED
  BY <1>2, <1>3, <1>4, <1>6, <1>7, <1>8 DEF ClientInv, DoneTypes

LEMMA CallGoesClient ==
  ASSUME Types, ClientInv, NEW c \in Calls, CallGoes(c)
  PROVE  ClientInv'
<1>1. CASE WriteHeader(c)
  <2>1. CASE /\ cpc' = [cpc EXCEPT ![c] = "body"]
             /\ UNCHANGED <<callSeq, dones, dialer, seq, header, sending, pending, rcv>>
    <3>1. ASSUME NEW d \in Calls PROVE CallInv(d)'
      BY <1>1, <2>1 DEF WriteHeader, Types, CallTypes, ClientInv, CallInv
    <3>2. Numbered' /\ PendingOwn' /\ HeldInv'
      BY <1>1, <2>1, SMTT(30) DEF WriteHeader, Types, CallTypes, DoneTypes, ClientInv, Numbered, PendingOwn, HeldInv
    <3>3. WaitingPending'
      BY <1>1, <2>1 DEF WriteHeader, Types, CallTypes, ClientInv, WaitingPending
    <3> QED
      BY <3>1, <3>2, <3>3 DEF ClientInv
  <2> QED
    BY <1>1, <2>1, SentClient, SendErrorClient DEF WriteHeader
<1>2. CASE WriteBody(c)
  BY <1>2, SentClient, SendErrorClient DEF WriteBody
<1>3. CASE TakeDone(c)
  <2>1. /\ cpc[c] = "wait" /\ cpc' = [cpc EXCEPT ![c] = "returned"] /\ dones[c] > 0
        /\ UNCHANGED <<callSeq, dones, dialer, seq, header, sending, pending, rcv>>
    BY <1>3 DEF TakeDone
  <2>2. ASSUME NEW d \in Calls PROVE CallInv(d)'
    BY <2>1 DEF Types, CallTypes, ClientInv, CallInv
  <2>3. Numbered' /\ HeldInv'
    BY <2>1 DEF Types, CallTypes, DoneTypes, ClientInv, Numbered, HeldInv
  <2>4. PendingOwn'
    BY <2>1, SMTT(30) DEF Types, CallTypes, DoneTypes, ClientInv, PendingOwn
  <2>5. WaitingPending'
    BY <2>1 DEF Types, CallTypes, ClientInv, WaitingPending
  <2> QED
    BY <2>2, <2>3, <2>4, <2>5 DEF ClientInv
<1>4. CASE ContextDone(c)
  <2>1. /\ cpc[c] = "wait" /\ cpc' = [cpc EXCEPT ![c] = "returned"] /\ pending' = Without(callSeq[c])
        /\ UNCHANGED <<callSeq, dones, dialer, seq, header, sending, rcv>>
    BY <1>4 DEF ContextDone
  <2>2. ASSUME NEW d \in Calls PROVE CallInv(d)'
    BY <2>1 DEF Types, CallTypes, ClientInv, CallInv
  <2>3. DOMAIN pending' \subseteq DOMAIN pending \ {callSeq[c]} /\ \A s \in DOMAIN pending' : pending'[s] = pending[s]
    BY <2>1, Removed
  <2>4. Numbered' /\ HeldInv'
    BY <2>1, <2>3 DEF Types, CallTypes, DoneTypes, ClientInv, Numbered, HeldInv
  <2>5. PendingOwn'
    BY <2>1, <2>3, SMTT(30) DEF Types, CallTypes, DoneTypes, ClientInv, PendingOwn
  <2>6. ASSUME NEW d \in Calls, cpc'[d] \in {"header", "body", "wait"}, dones[d] = 0, d \notin rcv.calls
        PROVE  callSeq[d] \in DOMAIN pending' /\ pending'[callSeq[d]] = d
    <3>1. d # c /\ callSeq[d] \in DOMAIN pending /\ pending[callSeq[d]] = d
      BY <2>1, <2>6 DEF Types, CallTypes, ClientInv, WaitingPending
    <3>2. callSeq[d] # callSeq[c]
      BY <3>1, SeqsNat, SMTT(30) DEF Types, CallTypes, ClientInv, Numbered
    <3> QED
      BY <2>1, <3>1, <3>2, Removed
  <2>7. WaitingPending'
    BY <2>1, <2>6 DEF WaitingPending
  <2> QED
    BY <2>2, <2>4, <2>5, <2>7 DEF ClientInv
<1> QED
  BY <1>1, <1>2, <1>3, <1>4, SendClient DEF CallGoes, CallStep

(* The receive goroutine is done with the call it holds. *)
LEMMA HeldDone ==
  ASSUME Types, ClientInv, NEW o, Finish(rcv.calls, o), rcv'.at # "body", rcv'.calls = {},
         UNCHANGED <<cpc, callSeq, dialer, seq, header, sending, pending>>
  PROVE  ClientInv'
<1>1. ASSUME NEW d \in Calls
      PROVE  IF d \in rcv.calls THEN dones[d] = 0 /\ dones'[d] = 1 /\ callSeq[d] \notin DOMAIN pending /\ cpc[d] # "start"
                                ELSE dones'[d] = dones[d]
  BY SMTT(30) DEF Finish, ClientInv, HeldInv
<1>2. ASSUME NEW d \in Calls PROVE CallInv(d)'
  BY <1>1, SMTT(30) DEF ClientInv, CallInv
<1>3. Numbered' /\ HeldInv'
  BY DEF ClientInv, Numbered, HeldInv
<1>4. PendingOwn'
  BY <1>1, SMTT(30) DEF Types, CallTypes, ClientInv, PendingOwn
<1>5. WaitingPending'
  BY <1>1, SMTT(30) DEF Types, DoneTypes, ClientInv, WaitingPending
<1> QED
  BY <1>2, <1>3, <1>4, <1>5 DEF ClientInv

LEMMA ClientStep ==
  ASSUME Inv, [Next]_vars
  PROVE  ClientInv'
<1> USE DEF Inv
<1>1. CASE UNCHANGED clientVars
  BY <1>1, ClientKeeps DEF clientVars
<1>2. CASE Dials
  <2>1. /\ UNCHANGED callVars
        /\ dialer' = dialer \/ dialer # "ok"
        /\ rcv' = rcv \/ rcv' = [rcv EXCEPT !.at = "header"]
        /\ rcv' = rcv \/ rcv.at = "off"
    BY <1>2 DEF Dials, NewClient, DialTakes, DialTimesOut, WireInv, LoopInv
  <2>2. ASSUME NEW d \in Calls PROVE CallInv(d)'
    BY <2>1 DEF ClientInv, CallInv, callVars
  <2>3. Numbered' /\ PendingOwn'
    BY <2>1 DEF ClientInv, Numbered, PendingOwn, callVars
  <2>4. HeldInv'
    BY <2>1 DEF ClientInv, HeldInv, callVars, Types, DoneTypes
  <2>5. WaitingPending'
    BY <2>1 DEF ClientInv, WaitingPending, callVars, Types, DoneTypes
  <2> QED
    BY <2>2, <2>3, <2>4, <2>5 DEF ClientInv
<1>3. CASE ReceiveHeader
  <2>1. UNCHANGED <<cpc, callSeq, dones, dialer, seq, header, sending>> /\ rcv.calls = {}
    BY <1>3 DEF ReceiveHeader, ClientInv, HeldInv
  <2>2. ASSUME NEW d \in Calls PROVE CallInv(d)'
    BY <2>1 DEF ClientInv, CallInv
  <2>3. Numbered'
    BY <2>1 DEF ClientInv, Numbered
  <2>4. CASE UNCHANGED pending /\ rcv' = [rcv EXCEPT !.at = "ended"]
    <3>1. PendingOwn' /\ HeldInv'
      BY <2>1, <2>4 DEF ClientInv, PendingOwn, HeldInv, Types, DoneTypes
    <3>2. WaitingPending'
      BY <2>1, <2>4 DEF ClientInv, WaitingPending, Types, DoneTypes
    <3> QED
      BY <2>2, <2>3, <3>1, <3>2 DEF ClientInv
  <2>5. ASSUME NEW s, pending' = Without(s), rcv'.seq = s, rcv'.calls = Pending(s), rcv'.at = "body"
        PROVE  PendingOwn' /\ WaitingPending' /\ HeldInv'
    <3>0. /\ \A c \in Pending(s) : callSeq[c] = s /\ dones[c] = 0 /\ cpc[c] # "start" /\ s # 0
          /\ DOMAIN pending' = DOMAIN pending \ {s}
          /\ \A u \in DOMAIN pending' : pending'[u] = pending[u]
      BY <2>5, Removed
    <3>1. PendingOwn'
      BY <2>1, <3>0 DEF ClientInv, PendingOwn
    <3>2. HeldInv'
      BY <2>1, <2>5, <3>0 DEF HeldInv
    <3>3. ASSUME NEW d \in Calls, d \notin Pending(s), callSeq[d] \in DOMAIN pending, pending[callSeq[d]] = d
          PROVE  callSeq[d] \in DOMAIN pending' /\ pending'[callSeq[d]] = d
      BY <3>0, <3>3 DEF Pending
    <3>4. WaitingPending'
      BY <2>1, <2>5, <3>3 DEF ClientInv, WaitingPending
    <3> QED
      BY <3>1, <3>2, <3>4
  <2> QED
    BY <1>3, <2>2, <2>3, <2>4, <2>5, SMTT(30) DEF ReceiveHeader, ClientInv
<1>4. CASE ReceiveBody \/ ReceiveFails
  <2>1. /\ \E o : Finish(rcv.calls, o)
        /\ rcv'.at # "body" /\ rcv'.calls = {}
        /\ UNCHANGED <<cpc, callSeq, dialer, seq, header, sending, pending>>
    BY <1>4 DEF ReceiveBody, ReceiveFails, Idle
  <2> QED
    BY <2>1, HeldDone
<1>5. CASE UserCloses
  BY <1>5, ClientKeeps DEF UserCloses, Close
<1> QED
  BY <1>1, <1>2, <1>3, <1>4, <1>5, CallGoesClient
  DEF Next, vars, Receives, Receive, OptionRead, LoopGoes, Handles, Sends, NetworkFails

-----------------------------------------------------------------------------
(* The server's invariant is preserved by its read loop. *)

(* What happens to others leaves request r alone. *)
LEMMA HandlerKeeps ==
  ASSUME NEW r \in Requests, HandlerInv(r),
         at'[Handler(r)] = at[Handler(r)], at'[Runner(r)] = at[Runner(r)],
         responses'[r] = responses[r], asked'[r] = asked[r],
         answer'[Handler(r)] = answer[Handler(r)], answer'[Runner(r)] = answer[Runner(r)],
         (r > req.seq \/ (r = req.seq /\ Loops("body")))' => r > req.seq \/ (r = req.seq /\ Loops("body")),
         Loops("closed")' => at[Handler(r)] \in {"none", "done"}
  PROVE  HandlerInv(r)'
<1>1. Fresh(r)' <=> Fresh(r)
  BY DEF Fresh
<1> QED
  BY <1>1 DEF HandlerInv

LEMMA ServerKeeps ==
  ASSUME ServerInv, UNCHANGED <<at, req, answer, asked, sendLock, responses>>
  PROVE  ServerInv'
<1>1. \A r \in Requests : HandlerInv(r)'
  BY HandlerKeeps DEF ServerInv, HandlerInv, Loops
<1>2. LockInv'
  BY DEF ServerInv, LockInv, Loops
<1> QED
  BY <1>1, <1>2 DEF ServerInv

(* Nothing has been done for a request that has not been read. *)
LEMMA UnreadIsFresh ==
  ASSUME Types, ServerInv, Loops("body"), req.seq # 0
  PROVE  req.seq \in Requests /\ Fresh(req.seq)
<1>1. req.seq \in Requests
  BY DEF Types, ServerTypes
<1> QED
  BY <1>1 DEF ServerInv, HandlerInv

(* serveCodec goes from one place to another. *)
LEMMA LoopMoves ==
  ASSUME Types, Types', ServerInv, NEW where \in {"header", "body", "leaving", "closed"},
         at[Loop] \in {"option", "header", "body", "leaving"}, Moves(Loop, where),
         where = "body" => \A r \in Requests : r >= req'.seq => r > req.seq,
         where # "body" => UNCHANGED req,
         where = "closed" => \A r \in Requests : at[Handler(r)] \in {"none", "done"},
         UNCHANGED <<answer, asked, sendLock, responses>>
  PROVE  ServerInv'
<1>1. at'[Loop] = where /\ \A t \in Threads : t # Loop => at'[t] = at[t]
  BY ThreadNames, SMTT(30) DEF Moves, Types, ServerTypes
<1>2. req.seq \in Int /\ req'.seq \in Int /\ \A r \in Requests : r \in Int
  <2>1. req.seq \in Seqs \cup {0} /\ req'.seq \in Seqs \cup {0}
    BY DEF Types, ServerTypes
  <2> QED
    BY <2>1, SeqsNat, SMTT(30)
<1>3. ASSUME NEW r \in Requests PROVE HandlerInv(r)'
  <2>1. HandlerInv(r)
    BY DEF ServerInv
  <2>2. (r > req.seq \/ (r = req.seq /\ Loops("body")))' => r > req.seq \/ (r = req.seq /\ Loops("body"))
    BY <1>1, <1>2, SMTT(30) DEF Loops
  <2>3. Loops("closed")' => at[Handler(r)] \in {"none", "done"}
    BY <1>1 DEF Loops
  <2> QED
    BY <1>1, <2>1, <2>2, <2>3, HandlerKeeps, ThreadNames
<1>4. LockInv'
  <2>1. sendLock \subseteq Threads
    BY DEF Types, ServerTypes
  <2> QED
    BY <1>1, <2>1, ThreadNames DEF ServerInv, LockInv, Loops
<1> QED
  BY <1>3, <1>4 DEF ServerInv

(* The part that the server reads next. *)
LEMMA FirstRequest ==
  ASSUME Types, CanRead("server")
  PROVE  /\ NextPart("server") = Requested[1] /\ 1 \in 1 .. Len(Requested) /\ Len(Requested) \in Nat \ {0}
         /\ Requested[1] \in ClientPart /\ Requested \in Seq(ClientPart) /\ Requested # <<>>
<1>1. Requested \in Seq(ClientPart) /\ Requested # <<>> /\ NextPart("server") = Head(Requested)
  BY DEF CanRead, NextPart, Peer, Requested, Types, WireTypes
<1> QED
  BY <1>1, PopSeq, SMTT(30)

(* The first response to a request begins. *)
LEMMA FirstResponse ==
  ASSUME Types, NEW t \in Threads, NEW r \in Requests, NEW error, NEW body, NEW args,
         responses[r] = 0, Responds(t, Answer(r, error, body, args))
  PROVE  /\ answer'[t] = Answer(r, error, body, args) /\ answer'[t].seq = r
         /\ \A u \in Threads : u # t => answer'[u] = answer[u]
         /\ responses'[r] = 1 /\ \A s \in Requests : s # r => responses'[s] = responses[s]
<1>1. responses \in [Requests -> Nat] /\ DOMAIN answer = Threads
  BY DEF Types, ServerTypes
<1>2. responses' = [responses EXCEPT ![r] = @ + 1] /\ answer' = [answer EXCEPT ![t] = Answer(r, error, body, args)]
  BY DEF Responds, Answer
<1>3. responses'[r] = 1 /\ \A s \in Requests : s # r => responses'[s] = responses[s]
  BY <1>1, <1>2, SMTT(30)
<1>4. answer'[t] = Answer(r, error, body, args) /\ \A u \in Threads : u # t => answer'[u] = answer[u]
  BY <1>1, <1>2
<1> QED
  BY <1>3, <1>4, SMTT(30) DEF Answer

(* serveCodec responds that the request is not valid. *)
LEMMA LoopResponds ==
  ASSUME Types, ServerInv, Loops("body"), req.seq # 0, Moves(Loop, "lock"),
         Responds(Loop, Answer(req.seq, "request", "invalid", 0)), UNCHANGED <<req, asked, sendLock>>
  PROVE  ServerInv'
<1>0. req.seq \in Requests /\ Fresh(req.seq)
  BY UnreadIsFresh
<1>1. at'[Loop] = "lock" /\ \A t \in Threads : t # Loop => at'[t] = at[t]
  BY ThreadNames DEF Moves, Types, ServerTypes
<1>2. answer'[Loop].seq = req.seq /\ \A t \in Threads : t # Loop => answer'[t] = answer[t]
  BY <1>0, FirstResponse, ThreadNames, SMTT(30) DEF Fresh
<1>3. responses'[req.seq] = 1 /\ \A r \in Requests : r # req.seq => responses'[r] = responses[r]
  BY <1>0, FirstResponse, ThreadNames, SMTT(30) DEF Fresh
<1>4. ASSUME NEW r \in Requests PROVE HandlerInv(r)'
  <2>1. HandlerInv(r) /\ r \in Nat /\ req.seq \in Nat
    BY <1>0, SeqsNat DEF ServerInv
  <2>2. CASE r # req.seq
    <3>1. /\ (r > req.seq \/ (r = req.seq /\ Loops("body")))' => r > req.seq \/ (r = req.seq /\ Loops("body"))
          /\ ~ Loops("closed")'
      BY <1>1, <2>2 DEF Loops
    <3> QED
      BY <1>1, <1>2, <1>3, <2>1, <2>2, <3>1, HandlerKeeps, ThreadNames
  <2>3. CASE r = req.seq
    <3>1. ~ (r > req.seq \/ (r = req.seq /\ Loops("body")))' /\ ~ Loops("closed")' /\ responses'[r] <= 1
      BY <1>1, <1>3, <2>1, <2>3, SMTT(30) DEF Loops
    <3>2. at'[Handler(r)] = "none" /\ at'[Runner(r)] = "none" /\ asked'[r].args = 0
      BY <1>0, <1>1, <2>3, ThreadNames DEF Fresh
    <3> QED
      BY <3>1, <3>2 DEF HandlerInv
  <2> QED
    BY <2>2, <2>3
<1>5. LockInv'
  <2>1. sendLock \subseteq Threads
    BY DEF Types, ServerTypes
  <2> QED
    BY <1>1, <1>2, <2>1, ThreadNames DEF ServerInv, LockInv, Loops
<1> QED
  BY <1>4, <1>5 DEF ServerInv

(* handleRequest begins. *)
LEMMA HandlerStarts ==
  ASSUME Types, ServerInv, Loops("body"), req.seq # 0, NEW a, a.args # 0,
         at' = [at EXCEPT ![Loop] = "header", ![Handler(req.seq)] = "select", ![Runner(req.seq)] = "running"],
         asked' = [asked EXCEPT ![req.seq] = a], UNCHANGED <<req, answer, sendLock, responses>>
  PROVE  ServerInv'
<1>0. req.seq \in Requests /\ Fresh(req.seq)
  BY UnreadIsFresh
<1>1. /\ at'[Loop] = "header" /\ at'[Handler(req.seq)] = "select" /\ at'[Runner(req.seq)] = "running"
      /\ \A t \in Threads : t \notin {Loop, Handler(req.seq), Runner(req.seq)} => at'[t] = at[t]
  BY <1>0, ThreadNames DEF Types, ServerTypes
<1>2. asked'[req.seq] = a /\ \A r \in Requests : r # req.seq => asked'[r] = asked[r]
  BY <1>0 DEF Types, ServerTypes
<1>3. ASSUME NEW r \in Requests PROVE HandlerInv(r)'
  <2>1. HandlerInv(r) /\ r \in Nat /\ req.seq \in Nat
    BY <1>0, SeqsNat DEF ServerInv
  <2>2. CASE r # req.seq
    <3>1. /\ (r > req.seq \/ (r = req.seq /\ Loops("body")))' => r > req.seq \/ (r = req.seq /\ Loops("body"))
          /\ ~ Loops("closed")'
      BY <1>1, <2>2 DEF Loops
    <3>2. at'[Handler(r)] = at[Handler(r)] /\ at'[Runner(r)] = at[Runner(r)]
      BY <1>0, <1>1, <2>2, ThreadNames
    <3> QED
      BY <1>2, <2>1, <2>2, <3>1, <3>2, HandlerKeeps
  <2>3. CASE r = req.seq
    <3>1. ~ (r > req.seq \/ (r = req.seq /\ Loops("body")))' /\ ~ Loops("closed")' /\ responses'[r] <= 1
      BY <1>0, <1>1, <2>1, <2>3, SMTT(30) DEF Loops, Fresh
    <3>2. at'[Handler(r)] = "select" /\ at'[Runner(r)] = "running" /\ asked'[r].args # 0 /\ responses'[r] = 0
      BY <1>0, <1>1, <1>2, <2>3 DEF Fresh
    <3> QED
      BY <3>1, <3>2 DEF HandlerInv
  <2> QED
    BY <2>2, <2>3
<1>4. LockInv'
  <2>1. sendLock \subseteq Threads
    BY DEF Types, ServerTypes
  <2>2. \A t \in Threads : at'[t] = "writing" <=> at[t] = "writing"
    BY <1>0, <1>1, ThreadNames DEF Fresh, Loops
  <2> QED
    BY <1>1, <2>1, <2>2 DEF ServerInv, LockInv, Loops
<1> QED
  BY <1>3, <1>4 DEF ServerInv

LEMMA LoopServer ==
  ASSUME Inv, Types', OptionRead \/ LoopGoes
  PROVE  ServerInv'
<1> USE DEF Inv
<1>1. CASE ReadOption(opt.handleLimit)
  BY <1>1, LoopMoves DEF ReadOption
<1>2. CASE ReadRequestHeader
  <2>1. CASE Moves(Loop, "leaving") /\ UNCHANGED req
    BY <1>2, <2>1, LoopMoves DEF ReadRequestHeader
  <2>2. CASE /\ Moves(Loop, "body") /\ NextPart("server").part = "header"
             /\ req' = [seq |-> NextPart("server").seq, ask |-> NextPart("server").info]
    <3>1. req'.seq = Requested[1].seq /\ Requested[1].part = "header" /\ 1 \in 1 .. Len(Requested)
      BY <1>2, <2>2, FirstRequest DEF ReadRequestHeader
    <3>2. req.seq < req'.seq
      BY <3>1 DEF WireInv, RequestOrder
    <3>3. req.seq \in Seqs \cup {0} /\ req'.seq \in Seqs \cup {0}
      BY DEF Types, ServerTypes
    <3>4. \A r \in Requests : r >= req'.seq => r > req.seq
      BY <3>2, <3>3, SeqsNat, SMTT(30)
    <3> QED
      BY <1>2, <2>2, <3>4, LoopMoves DEF ReadRequestHeader
  <2> QED
    BY <1>2, <2>1, <2>2 DEF ReadRequestHeader
<1>3. Loops("body") => req.seq # 0
  BY DEF WireInv, LoopInv
<1>4. CASE ReadBody
  <2>1. CASE NextPart("server").part # "body" \/ NextPart("server").info = "badargs"
    BY <1>3, <1>4, <2>1, LoopResponds DEF ReadBody, Loops
  <2>2. CASE ~ (NextPart("server").part # "body" \/ NextPart("server").info = "badargs")
    <3>1. NextPart("server").seq # 0
      BY <1>4, <2>2, FirstRequest, SeqsNat, SMTT(30) DEF ReadBody, ClientPart
    <3> QED
      BY <1>3, <1>4, <2>2, <3>1, HandlerStarts, SMTT(30) DEF ReadBody, Loops
  <2> QED
    BY <2>1, <2>2
<1>5. CASE ReadFailsServer
  <2>1. CASE at[Loop] = "option"
    <3>1. \A r \in Requests : at[Handler(r)] = "none"
      <4>1. req.seq = 0
        BY <2>1 DEF WireInv, LoopInv, Loops
      <4>2. \A r \in Requests : r > req.seq
        BY <4>1, SeqsNat
      <4> QED
        BY <4>2 DEF ServerInv, HandlerInv, Fresh
    <3> QED
      BY <1>5, <2>1, <3>1, LoopMoves DEF ReadFailsServer
  <2>2. CASE at[Loop] = "header"
    BY <1>5, <2>2, LoopMoves DEF ReadFailsServer
  <2>3. CASE at[Loop] = "body"
    BY <1>3, <1>5, <2>3, LoopResponds DEF ReadFailsServer, Loops
  <2> QED
    BY <1>5, <2>1, <2>2, <2>3 DEF ReadFailsServer
<1>6. CASE CloseCodec
  BY <1>6, LoopMoves DEF CloseCodec
<1> QED
  BY <1>1, <1>2, <1>4, <1>5, <1>6 DEF OptionRead, LoopGoes, LoopStep

-----------------------------------------------------------------------------
(* The server's invariant is preserved. *)

LEMMA HandlesServer ==
  ASSUME Inv, NEW r \in Requests, Handles(r)
  PROVE  ServerInv'
<1> USE DEF Inv
<1>0. /\ HandlerInv(r) /\ r \in Requests /\ Handler(r) \in Threads /\ Runner(r) \in Threads /\ Handler(r) # Runner(r)
      /\ Handler(r) # Loop /\ Runner(r) # Loop /\ sendLock \subseteq Threads
      /\ at = [t \in Threads |-> at[t]] /\ UNCHANGED <<req, asked, sendLock>>
  BY ThreadNames DEF ServerInv, Types, ServerTypes, Handles, RequestStep, MethodReturns, Called, HandleTimeout
<1>1. ASSUME \A t \in Threads : t # Handler(r) /\ t # Runner(r) => at'[t] = at[t] /\ answer'[t] = answer[t],
             at'[Handler(r)] # "writing" \/ at[Handler(r)] = "writing", at'[Runner(r)] # "writing",
             at[Handler(r)] # "writing" \/ at'[Handler(r)] = "writing", at[Runner(r)] # "writing",
             \A s \in Requests : s # r => responses'[s] = responses[s],
             HandlerInv(r)'
      PROVE  ServerInv'
  <2>1. at'[Loop] = at[Loop] /\ answer'[Loop] = answer[Loop]
    BY <1>0, <1>1, ThreadNames
  <2>2. ASSUME NEW s \in Requests, s # r PROVE HandlerInv(s)'
    <3>1. HandlerInv(s)
      BY DEF ServerInv
    <3>2. /\ at'[Handler(s)] = at[Handler(s)] /\ at'[Runner(s)] = at[Runner(s)]
          /\ answer'[Handler(s)] = answer[Handler(s)] /\ answer'[Runner(s)] = answer[Runner(s)]
      BY <1>1, <2>2, ThreadNames
    <3>3. /\ (s > req.seq \/ (s = req.seq /\ Loops("body")))' => s > req.seq \/ (s = req.seq /\ Loops("body"))
          /\ Loops("closed")' => at[Handler(s)] \in {"none", "done"}
      BY <1>0, <2>1, <3>1 DEF Loops, HandlerInv
    <3> QED
      BY <1>0, <1>1, <2>2, <3>1, <3>2, <3>3, HandlerKeeps
  <2>3. ASSUME NEW t \in Threads PROVE at'[t] = "writing" <=> at[t] = "writing"
    <3>1. CASE t = Handler(r)
      BY <1>1, <3>1
    <3>2. CASE t = Runner(r)
      BY <1>1, <3>2
    <3>3. CASE t # Handler(r) /\ t # Runner(r)
      BY <1>1, <3>3
    <3> QED
      BY <3>1, <3>2, <3>3
  <2>4. LockInv'
    BY <1>0, <2>1, <2>3 DEF ServerInv, LockInv, Loops
  <2> QED
    BY <1>1, <2>2, <2>4 DEF ServerInv
<1>2. CASE MethodReturns(r)
  <2> DEFINE h == at[Handler(r)]
  <2>1. /\ at[Runner(r)] = "running" /\ UNCHANGED <<answer, responses>>
        /\ at' = [at EXCEPT ![Runner(r)] = "called"]
    BY <1>2 DEF MethodReturns, Moves
  <2>2. at'[Handler(r)] = h /\ at'[Runner(r)] = "called" /\ at'[Loop] = at[Loop]
    BY <1>0, <2>1, ThreadNames
  <2>3. h # "none" /\ h # "sent" /\ ~ Fresh(r)
    BY <1>0, <2>1 DEF HandlerInv, Fresh
  <2>4. HandlerInv(r)'
    <3>1. /\ ~ (r > req.seq \/ (r = req.seq /\ Loops("body")))'
          /\ Loops("closed")' => Loops("closed")
      BY <1>0, <2>2, <2>3 DEF HandlerInv, Loops
    <3> QED
      BY <1>0, <2>1, <2>2, <2>3, <3>1 DEF HandlerInv
  <2>5. \A t \in Threads : t # Runner(r) => at'[t] = at[t]
    BY <1>0, <2>1
  <2> QED
    BY <1>1, <2>1, <2>2, <2>4, <2>5
<1>3. CASE Called(r)
  <2>1. /\ at[Runner(r)] = "called" /\ at[Handler(r)] = "select" /\ Responds(Runner(r), Result(r))
        /\ at' = [at EXCEPT ![Handler(r)] = "sent", ![Runner(r)] = "lock"]
    BY <1>0, <1>3 DEF Called
  <2>2. at'[Handler(r)] = "sent" /\ at'[Runner(r)] = "lock" /\ at'[Loop] = at[Loop]
    BY <1>0, <2>1, ThreadNames
  <2>3. responses[r] = 0 /\ ~ Fresh(r) /\ ~ Loops("closed") /\ asked[r].args # 0
    BY <1>0, <2>1 DEF HandlerInv, Fresh
  <2>4. /\ answer'[Runner(r)].seq = r /\ \A t \in Threads : t # Runner(r) => answer'[t] = answer[t]
        /\ responses'[r] = 1 /\ \A s \in Requests : s # r => responses'[s] = responses[s]
    <3>1. PICK error, body, args : Result(r) = Answer(r, error, body, args)
      BY DEF Result
    <3> QED
      BY <1>0, <2>1, <2>3, <3>1, FirstResponse, SMTT(30)
  <2>5. HandlerInv(r)'
    <3>1. /\ ~ (r > req.seq \/ (r = req.seq /\ Loops("body")))' /\ ~ Loops("closed")'
      BY <1>0, <2>2, <2>3 DEF HandlerInv, Loops
    <3>2. responses'[r] <= 1
      BY <2>4, SMTT(30)
    <3> QED
      BY <1>0, <2>2, <2>3, <2>4, <3>1, <3>2 DEF HandlerInv
  <2>6. \A t \in Threads : t # Handler(r) /\ t # Runner(r) => at'[t] = at[t]
    BY <1>0, <2>1
  <2> QED
    BY <1>1, <2>1, <2>2, <2>4, <2>5, <2>6
<1>4. CASE HandleTimeout(r)
  <2> DEFINE m == at[Runner(r)]
  <2>1. /\ at[Handler(r)] = "select" /\ Responds(Handler(r), Answer(r, "timeout", "invalid", 0))
        /\ at' = [at EXCEPT ![Handler(r)] = "lock"]
    BY <1>4 DEF HandleTimeout, Moves
  <2>2. at'[Handler(r)] = "lock" /\ at'[Runner(r)] = m /\ at'[Loop] = at[Loop]
    BY <1>0, <2>1, ThreadNames
  <2>3. responses[r] = 0 /\ ~ Fresh(r) /\ ~ Loops("closed") /\ asked[r].args # 0 /\ m \in {"running", "called"}
    BY <1>0, <2>1 DEF HandlerInv, Fresh
  <2>4. /\ answer'[Handler(r)].seq = r /\ \A t \in Threads : t # Handler(r) => answer'[t] = answer[t]
        /\ responses'[r] = 1 /\ \A s \in Requests : s # r => responses'[s] = responses[s]
    BY <1>0, <2>1, <2>3, FirstResponse
  <2>5. HandlerInv(r)'
    <3>1. /\ ~ (r > req.seq \/ (r = req.seq /\ Loops("body")))' /\ ~ Loops("closed")'
      BY <1>0, <2>2, <2>3 DEF HandlerInv, Loops
    <3>2. m # "lock" /\ m # "writing"
      BY <2>3
    <3>3. responses'[r] <= 1
      BY <2>4, SMTT(30)
    <3> QED
      BY <1>0, <2>2, <2>3, <2>4, <3>1, <3>2, <3>3 DEF HandlerInv
  <2>6. \A t \in Threads : t # Handler(r) => at'[t] = at[t]
    BY <1>0, <2>1
  <2>7. at'[Runner(r)] # "writing" /\ at[Runner(r)] # "writing"
    BY <2>2, <2>3
  <2> QED
    BY <1>1, <2>1, <2>2, <2>4, <2>5, <2>6, <2>7
<1> QED
  BY <1>2, <1>3, <1>4 DEF Handles, RequestStep

(* sendResponse of t is over. *)
LEMMA AfterServer ==
  ASSUME Inv, NEW t \in Threads, at[t] \in {"lock", "writing"}, at[t] = "lock" => sendLock = {},
         AfterSending(t), UNCHANGED <<req, answer, asked, responses>>
  PROVE  ServerInv' /\ sendLock' = {}
<1> USE DEF Inv
<1>0. ServerInv /\ AnswerInv /\ Types /\ sendLock \subseteq Threads
  BY DEF ReplyInv, Types, ServerTypes
<1>r. PICK r \in Requests : r = answer[t].seq
  BY <1>0, AfterMoves
<1>1. \/ /\ t = Loop /\ at'[Loop] = "header"
         /\ \A u \in Threads : u # Loop => at'[u] = at[u]
      \/ /\ t = Handler(r) /\ at'[t] = "done"
         /\ \A u \in Threads : u # t => at'[u] = at[u]
      \/ /\ t = Runner(r) /\ at'[t] = "done" /\ at'[Handler(r)] = "done"
         /\ \A u \in Threads : u # t /\ u # Handler(r) => at'[u] = at[u]
  BY <1>0, <1>r, AfterMoves
<1>2. r \in Requests /\ HandlerInv(r)
  BY DEF ServerInv
<1>3. sendLock' = {} /\ \A u \in Threads : at[u] = "writing" => u = t
  BY <1>0 DEF AfterSending, ServerInv, LockInv
<1>4. at[t] # "none" /\ at[t] # "select" /\ at[t] # "sent" /\ at[t] # "done" /\ at[t] # "running" /\ at[t] # "called" /\ at[t] # "closed" /\ at[t] # "body"
  OBVIOUS
<1>5. /\ t = Loop => /\ at'[Handler(r)] = at[Handler(r)] /\ at'[Runner(r)] = at[Runner(r)]
                     /\ ~ Loops("closed")' /\ ~ Loops("body")'
      /\ t # Loop => at'[Loop] = at[Loop]
  BY <1>1, <1>2, ThreadNames DEF Loops
<1>6. HandlerInv(r)'
  <2>1. CASE t = Loop
    BY <1>2, <1>5, <2>1, HandlerKeeps
  <2>2. CASE t = Handler(r)
    <3>1. /\ at'[Handler(r)] = "done" /\ at'[Runner(r)] = at[Runner(r)] /\ at'[Loop] = at[Loop]
      BY <1>1, <1>2, <1>5, <2>2, ThreadNames
    <3>2. ~ (r > req.seq \/ (r = req.seq /\ Loops("body"))) /\ responses[r] = 1 /\ asked[r].args # 0 /\ at[Runner(r)] \in {"running", "called"}
      BY <1>2, <1>4, <2>2 DEF HandlerInv, Fresh
    <3>3. at[Runner(r)] # "lock" /\ at[Runner(r)] # "writing"
      BY <3>2
    <3>4. responses[r] <= 1
      BY <1>2 DEF HandlerInv
    <3> QED
      BY <3>1, <3>2, <3>3, <3>4 DEF HandlerInv, Loops
  <2>3. CASE t = Runner(r)
    <3>1. /\ at'[Handler(r)] = "done" /\ at'[Runner(r)] = "done" /\ at'[Loop] = at[Loop]
      BY <1>1, <1>2, <1>5, <2>3, ThreadNames
    <3>2. at[Handler(r)] = "sent"
      BY <1>2, <1>4, <2>3 DEF HandlerInv
    <3>3. ~ (r > req.seq \/ (r = req.seq /\ Loops("body"))) /\ responses[r] = 1 /\ asked[r].args # 0
      BY <1>2, <1>4, <2>3, <3>2 DEF HandlerInv, Fresh
    <3>4. responses[r] <= 1
      BY <1>2 DEF HandlerInv
    <3> QED
      BY <3>1, <3>3, <3>4 DEF HandlerInv, Loops
  <2> QED
    BY <1>1, <2>1, <2>2, <2>3
<1>7. ASSUME NEW s \in Requests, s # r PROVE HandlerInv(s)'
  <2>1. HandlerInv(s) /\ at'[Handler(s)] = at[Handler(s)] /\ at'[Runner(s)] = at[Runner(s)]
    BY <1>1, <1>2, <1>7, ThreadNames DEF ServerInv
  <2>2. /\ (s > req.seq \/ (s = req.seq /\ Loops("body")))' => s > req.seq \/ (s = req.seq /\ Loops("body"))
        /\ Loops("closed")' => at[Handler(s)] \in {"none", "done"}
    BY <1>5, <2>1 DEF Loops, HandlerInv
  <2> QED
    BY <2>1, <2>2, HandlerKeeps
<1>8. LockInv'
  <2>1. \A u \in Threads : at'[u] # "writing"
    BY <1>1, <1>3
  <2>2. /\ at'[Loop] \in {"option", "header", "body", "leaving", "closed", "lock", "writing"}
        /\ (Loops("lock") \/ Loops("writing"))' => answer[Loop].seq = req.seq
    BY <1>1, <1>5 DEF ServerInv, LockInv, Loops
  <2> QED
    BY <1>3, <2>1, <2>2 DEF LockInv
<1> QED
  BY <1>3, <1>6, <1>7, <1>8 DEF ServerInv

LEMMA SendsServer ==
  ASSUME Inv, NEW t \in Threads, Sends(t)
  PROVE  ServerInv'
<1>1. CASE AfterSending(t)
  <2>1. at[t] \in {"lock", "writing"} /\ (at[t] = "lock" => sendLock = {}) /\ UNCHANGED <<req, answer, asked, responses>>
    BY DEF Sends, RespondStep, RespondHeader, RespondBody
  <2> QED
    BY <1>1, <2>1, AfterServer
<1>2. CASE at[t] = "lock" /\ sendLock = {} /\ Moves(t, "writing") /\ sendLock' = {t} /\ UNCHANGED <<req, answer, asked, responses>>
  <2>0. Types /\ ServerInv
    BY DEF Inv
  <2>1. at'[t] = "writing" /\ \A u \in Threads : u # t => at'[u] = at[u]
    BY <1>2, <2>0 DEF Moves, Types, ServerTypes
  <2>2. \A where \in {"body", "closed", "option", "header", "leaving"} : Loops(where)' <=> Loops(where)
    BY <1>2, <2>1, ThreadNames DEF Loops
  <2>3. ASSUME NEW r \in Requests PROVE HandlerInv(r)'
    <3>1. HandlerInv(r)
      BY <2>0 DEF ServerInv
    <3>2. CASE t # Handler(r) /\ t # Runner(r)
      BY <1>2, <2>1, <2>2, <3>1, <3>2, ThreadNames, HandlerKeeps DEF HandlerInv
    <3>3. CASE t = Handler(r)
      <4>1. at'[Handler(r)] = "writing" /\ at'[Runner(r)] = at[Runner(r)] /\ at[Handler(r)] = "lock"
        BY <1>2, <2>1, <3>3, ThreadNames
      <4>2. ~ Fresh(r)
        BY <4>1 DEF Fresh
      <4> QED
        BY <1>2, <2>2, <3>1, <4>1, <4>2 DEF HandlerInv
    <3>4. CASE t = Runner(r)
      <4>1. at'[Runner(r)] = "writing" /\ at'[Handler(r)] = at[Handler(r)] /\ at[Runner(r)] = "lock"
        BY <1>2, <2>1, <3>4, ThreadNames
      <4>2. ~ Fresh(r) /\ at[Handler(r)] = "sent"
        BY <3>1, <4>1 DEF Fresh, HandlerInv
      <4> QED
        BY <1>2, <2>2, <3>1, <4>1, <4>2 DEF HandlerInv
    <3> QED
      BY <3>2, <3>3, <3>4
  <2>4. LockInv'
    <3>1. \A u \in Threads : at[u] # "writing"
      BY <1>2, <2>0 DEF ServerInv, LockInv
    <3>2. (Loops("lock") \/ Loops("writing"))' => Loops("lock") \/ Loops("writing")
      BY <1>2, <2>1, ThreadNames DEF Loops
    <3>3. at'[Loop] \in {at[Loop], "writing"}
      BY <2>1, ThreadNames
    <3> QED
      BY <1>2, <2>0, <2>1, <3>1, <3>2, <3>3 DEF ServerInv, LockInv
  <2> QED
    BY <2>3, <2>4 DEF ServerInv
<1> QED
  BY <1>1, <1>2 DEF Sends, RespondStep, RespondHeader, RespondBody

LEMMA ServerStep ==
  ASSUME Inv, [Next]_vars
  PROVE  ServerInv'
<1>1. CASE UNCHANGED serverVars
  BY <1>1, ServerKeeps DEF Inv, serverVars
<1> QED
  BY <1>1, TypesStep, LoopServer, HandlesServer, SendsServer
  DEF Next, vars, CallGoes, Dials, Receives, UserCloses, NetworkFails

-----------------------------------------------------------------------------
(* The requests on the wire: the invariant is preserved. *)

(* What a step may do to the connection. *)
LEMMA FailsOnce ==
  ASSUME [Next]_vars
  PROVE  \/ UNCHANGED <<open, lost, broken>>
         \/ \E f \in Ends : \/ open' = [open EXCEPT ![f] = FALSE] /\ UNCHANGED <<lost, broken>>
                            \/ broken' = [broken EXCEPT ![f] = TRUE] /\ UNCHANGED <<open, lost>>
         \/ lost' = TRUE /\ UNCHANGED <<open, broken>>
<1> DEFINE Once == \/ UNCHANGED <<open, lost, broken>>
                   \/ \E f \in Ends : \/ open' = [open EXCEPT ![f] = FALSE] /\ UNCHANGED <<lost, broken>>
                                      \/ broken' = [broken EXCEPT ![f] = TRUE] /\ UNCHANGED <<open, lost>>
                   \/ lost' = TRUE /\ UNCHANGED <<open, broken>>
<1>0. "client" \in Ends /\ "server" \in Ends
  BY DEF Ends
<1>1. ASSUME NEW c \in Calls, CallGoes(c) PROVE Once
  BY <1>0, <1>1 DEF CallGoes, CallStep, Send, WriteHeader, WriteBody, TakeDone, ContextDone,
                    Passes, FlushFails, WriteFails, CloseEnd, wireVars
<1>2. CASE Dials \/ Receives \/ UserCloses
  BY <1>0, <1>2 DEF Dials, NewClient, DialTakes, DialTimesOut, Receives, Receive, ReceiveHeader, ReceiveBody,
                    ReceiveFails, UserCloses, Close, Passes, CloseEnd, Consume, wireVars
<1>3. CASE OptionRead \/ LoopGoes
  BY <1>0, <1>3 DEF OptionRead, ReadOption, LoopGoes, LoopStep, ReadRequestHeader, ReadBody, ReadFailsServer,
                    CloseCodec, CloseEnd, Consume
<1>4. ASSUME NEW r \in Requests, Handles(r) PROVE Once
  BY <1>4 DEF Handles, RequestStep, MethodReturns, Called, HandleTimeout, wireVars
<1>5. ASSUME NEW t \in Threads, Sends(t) PROVE Once
  BY <1>0, <1>5 DEF Sends, RespondStep, RespondHeader, RespondBody, Passes, FlushFails, WriteFails, CloseEnd
<1>6. CASE NetworkFails \/ UNCHANGED vars
  BY <1>6 DEF NetworkFails, Lose, vars, wireVars
<1> QED
  BY <1>1, <1>2, <1>3, <1>4, <1>5, <1>6 DEF Next

(* What a step may do to the options and to closing. *)
LEMMA ClosesOnce ==
  ASSUME [Next]_vars
  PROVE  kind' = kind /\ opt' = opt /\ (made' = made \/ made' = TRUE) /\ (closing' = closing \/ closing' = TRUE)
<1> DEFINE Once == kind' = kind /\ opt' = opt /\ (made' = made \/ made' = TRUE) /\ (closing' = closing \/ closing' = TRUE)
<1>1. CASE UNCHANGED clientVars
  BY <1>1 DEF clientVars
<1>2. ASSUME NEW c \in Calls, CallGoes(c) PROVE Once
  BY <1>2 DEF CallGoes, CallStep, Send, WriteHeader, WriteBody, TakeDone, ContextDone, Sent, SendError
<1>3. CASE Dials
  BY <1>3 DEF Dials, NewClient, DialTakes, DialTimesOut, callVars
<1>4. CASE Receives \/ UserCloses
  BY <1>4 DEF Receives, Receive, ReceiveHeader, ReceiveBody, ReceiveFails, UserCloses, Close
<1> QED
  BY <1>1, <1>2, <1>3, <1>4 DEF Next, vars, OptionRead, LoopGoes, Handles, Sends, NetworkFails

LEMMA FlagsStep ==
  ASSUME Inv, [Next]_vars
  PROVE  Flags'
<1>1. opt' = opt /\ made' \in BOOLEAN /\ closing' \in BOOLEAN
  BY ClosesOnce DEF Inv, Flags
<1>2. UNCHANGED <<garbled, limited>> \/ (garbled' \in BOOLEAN /\ limited' = opt.handleLimit)
  <2>1. CASE UNCHANGED serverVars
    BY <2>1 DEF serverVars
  <2>2. CASE LoopGoes
    BY <2>2 DEF LoopGoes, LoopStep, ReadRequestHeader, ReadBody, ReadFailsServer, CloseCodec
  <2>5. CASE OptionRead
    <3>1. PICK k \in 1 .. Len(stream["client"]) : garbled' = (k > 1)
      BY <2>5 DEF OptionRead, ReadOption
    <3>2. garbled' \in BOOLEAN
      <4>1. CASE k > 1
        BY <3>1, <4>1
      <4>2. CASE ~ (k > 1)
        <5>1. (k > 1) = FALSE
          BY <4>2, SMTT(30)
        <5> QED
          BY <3>1, <5>1
      <4> QED
        BY <4>1, <4>2
    <3>3. limited' = opt.handleLimit
      BY <2>5 DEF OptionRead, ReadOption
    <3> QED
      BY <3>2, <3>3
  <2>3. ASSUME NEW r \in Requests, Handles(r) PROVE UNCHANGED <<garbled, limited>>
    BY <2>3 DEF Handles, RequestStep, MethodReturns, Called, HandleTimeout
  <2>4. ASSUME NEW t \in Threads, Sends(t) PROVE UNCHANGED <<garbled, limited>>
    BY <2>4 DEF Sends, RespondStep, RespondHeader, RespondBody
  <2> QED
    BY <2>1, <2>2, <2>3, <2>4, <2>5 DEF Next, vars, CallGoes, Dials, Receives, UserCloses, NetworkFails
<1>3. garbled' \in BOOLEAN /\ limited' \in BOOLEAN
  BY <1>2 DEF Inv, Flags
<1>4. open' \in [Ends -> BOOLEAN] /\ lost' \in BOOLEAN /\ broken' \in [Ends -> BOOLEAN]
  BY FailsOnce DEF Inv, Flags
<1> QED
  BY <1>1, <1>3, <1>4 DEF Inv, Flags

(* A connection that has failed stays so. *)
LEMMA HeardBefore ==
  ASSUME Types, [Next]_vars, NEW e \in Ends
  PROVE  Heard(e)' => Heard(e)
<1>1. DOMAIN open = Ends /\ DOMAIN broken = Ends /\ "client" \in Ends /\ "server" \in Ends
  BY DEF Types, WireTypes, Ends
<1> QED
  BY <1>1, FailsOnce DEF Heard

(* A number, once given to a call, stays with it. *)
LEMMA NumbersStay ==
  ASSUME Inv, [Next]_vars
  PROVE  /\ kind' = kind /\ opt' = opt
         /\ \A c \in Calls : callSeq[c] # 0 => callSeq'[c] = callSeq[c]
         /\ \A s \in Seqs : \A k : KindOf(s, k) => KindOf(s, k)'
<1>1. kind' = kind /\ opt' = opt
  BY ClosesOnce
<1>2. ASSUME NEW c \in Calls, callSeq[c] # 0 PROVE callSeq'[c] = callSeq[c]
  <2>1. CASE UNCHANGED callSeq
    BY <2>1
  <2>2. ASSUME NEW d \in Calls, Send(d) PROVE callSeq'[c] = callSeq[c]
    <3>1. c # d
      BY <1>2, <2>2 DEF Send, Inv, ClientInv, CallInv
    <3> QED
      BY <2>2, <3>1 DEF Send, registerCall, Inv, Types, CallTypes
  <2> QED
    BY <2>1, <2>2 DEF Next, vars, clientVars, callVars, CallGoes, CallStep, WriteHeader, WriteBody, TakeDone, ContextDone, Sent,
         SendError, Dials, NewClient, DialTakes, DialTimesOut, Receives, Receive, ReceiveHeader, ReceiveBody, ReceiveFails,
         UserCloses, Close, OptionRead, LoopGoes, Handles, Sends, NetworkFails
<1> QED
  BY <1>1, <1>2 DEF KindOf

LEMMA RequestTypes ==
  ASSUME Types
  PROVE  /\ Requested \in Seq(ClientPart) /\ Len(Requested) \in Nat /\ req.seq \in Nat
         /\ \A k \in 1 .. Len(Requested) : /\ Requested[k] \in ClientPart /\ Requested[k].seq \in Nat
                                           /\ Requested[k].part # "option" => Requested[k].seq \in Seqs
<1>1. Requested \in Seq(ClientPart) /\ req.seq \in Seqs \cup {0}
  BY DEF Types, WireTypes, ServerTypes, Requested
<1>2. Len(Requested) \in Nat /\ req.seq \in Nat
  BY <1>1, SeqsNat, SMTT(30)
<1>3. \A k \in 1 .. Len(Requested) : Requested[k] \in ClientPart
  BY <1>1, SMTT(30)
<1>4. \A p \in ClientPart : p.seq \in Nat /\ (p.part # "option" => p.seq \in Seqs)
  BY SeqsNat, SMTT(30) DEF ClientPart
<1> QED
  BY <1>1, <1>2, <1>3, <1>4

(* A step that neither writes nor reads a request. *)
LEMMA RequestsKept ==
  ASSUME Types, WireInv, Requested' = Requested, UNCHANGED <<kind, req>>,
         \A s \in Seqs : \A k : KindOf(s, k) => KindOf(s, k)',
         Loops("option") => Loops("option")' \/ Deaf', Deaf => Deaf',
         Loops("body")' => Loops("body"),
         Heard("client")' => Heard("client") /\ (Loops("body") => Loops("body")'),
         seq \in Nat, seq' \in Nat, seq <= seq',
         \A c \in Calls : cpc'[c] = "header" => (cpc[c] = "header" /\ callSeq'[c] = callSeq[c]) \/ callSeq'[c] = seq,
         Heard("client")' =>
           \A c \in Calls : /\ cpc'[c] = "body" <=> cpc[c] = "body"
                            /\ cpc[c] = "body" => callSeq'[c] = callSeq[c]
  PROVE  RequestParts' /\ RequestFrames' /\ RequestEnd' /\ RequestOrder'
<1>1. /\ Len(Requested) \in Nat /\ req.seq \in Nat
      /\ \A k \in 1 .. Len(Requested) : /\ Requested[k].seq \in Nat
                                        /\ Requested[k].part # "option" => Requested[k].seq \in Seqs
  BY RequestTypes
<1>2. RequestParts'
  BY <1>1 DEF WireInv, RequestParts
<1>3. RequestFrames'
  BY DEF WireInv, RequestFrames
<1>4. RequestEnd'
  BY DEF WireInv, RequestEnd
<1>5. RequestOrder'
  BY <1>1, SMTT(30) DEF WireInv, RequestOrder
<1> QED
  BY <1>2, <1>3, <1>4, <1>5

(* A part is written by the client. *)
LEMMA RequestPassed ==
  ASSUME Types, NEW p \in ClientPart, Passes("client", p)
  PROVE  /\ Responded' = Responded /\ (Heard("client")' <=> Heard("client"))
         /\ \/ ~ Heard("client") /\ Requested' = Requested
            \/ /\ Heard("client") /\ Len(Requested') = Len(Requested) + 1 /\ Requested'[Len(Requested) + 1] = p
               /\ \A k \in 1 .. Len(Requested) : Requested'[k] = Requested[k]
<1>1. Requested \in Seq(ClientPart) /\ DOMAIN stream = Ends
  BY DEF Types, WireTypes, Requested
<1>2. UNCHANGED <<open, lost, broken>> /\ ~ broken["client"] /\ open["client"] /\ ~ lost
  BY DEF Passes
<1>3. CASE ~ open["server"]
  BY <1>2, <1>3 DEF Passes, Peer, Requested, Responded, Heard
<1>4. CASE open["server"]
  <2>1. Requested' = Append(Requested, p) /\ Responded' = Responded
    BY <1>1, <1>4 DEF Passes, Peer, Requested, Responded, Ends
  <2>2. Heard("client") /\ Heard("client")'
    BY <1>2, <1>4 DEF Heard
  <2> QED
    BY <1>1, <2>1, <2>2, PushSeq, SMTT(30)
<1> QED
  BY <1>3, <1>4

(* The header of a request is written. *)
LEMMA HeaderWritten ==
  ASSUME Inv, Types', [Next]_vars, NEW c \in Calls, cpc[c] = "header", Passes("client", Part("header", header, kind[c])),
         cpc' = [cpc EXCEPT ![c] = "body"], UNCHANGED <<kind, callSeq, seq, header, sending, serverVars>>
  PROVE  RequestParts' /\ RequestFrames' /\ RequestEnd' /\ RequestOrder'
<1> USE DEF Inv
<1> DEFINE p == Part("header", header, kind[c])
<1> DEFINE n == Len(Requested)
<1>0. /\ callSeq[c] = seq - 1 /\ header = callSeq[c] /\ sending = {c} /\ callSeq[c] # 0 /\ callSeq[c] \in Seqs /\ seq \in Nat
      /\ \A d \in Calls : cpc[d] \in {"header", "body"} => d = c
      /\ cpc'[c] = "body" /\ \A d \in Calls : d # c => cpc'[d] = cpc[d]
  BY SeqsNat, SMTT(30) DEF ClientInv, CallInv, Types, CallTypes
<1>1. /\ Part("header", header, kind[c]) \in ClientPart
      /\ p.part = "header" /\ p.seq = callSeq[c] /\ p.info = kind[c] /\ p.seq \in Nat /\ p.seq < seq /\ p.seq \in Seqs
  BY <1>0, SeqsNat, SMTT(30) DEF Types, CallTypes, DialTypes, Part, ClientPart
<1> HIDE DEF p
<1>2. /\ \A where : Loops(where)' <=> Loops(where)
      /\ Deaf' <=> Deaf
      /\ req' = req
  BY DEF Loops, Deaf, serverVars
<1>3. \A s \in Seqs : \A k : KindOf(s, k) => KindOf(s, k)'
  BY NumbersStay
<1>4. CASE ~ Heard("client") /\ Requested' = Requested
  <2>1. ~ Heard("client")'
    BY <1>1, <1>4, RequestPassed DEF p
  <2>2. \A d \in Calls : cpc'[d] = "header" => cpc[d] = "header" /\ callSeq'[d] = callSeq[d]
    BY <1>0
  <2>3. seq \in Nat /\ seq' \in Nat /\ seq <= seq' /\ UNCHANGED <<kind, req>>
    BY <1>0, <1>2, SMTT(30)
  <2> QED
    BY <1>2, <1>3, <1>4, <2>1, <2>2, <2>3, RequestsKept
<1>5. CASE /\ Heard("client") /\ Len(Requested') = n + 1 /\ Requested'[n + 1] = p
           /\ \A k \in 1 .. n : Requested'[k] = Requested[k]
  <2>1. /\ n \in Nat /\ req.seq \in Nat
        /\ \A k \in 1 .. n : Requested[k].seq \in Nat /\ (Requested[k].part # "option" => Requested[k].seq \in Seqs)
    BY RequestTypes
  <2>2. (n > 0 => Requested[n].part # "header") /\ (n = 0 => ~ Loops("body"))
    BY <1>0, <1>5, <2>1 DEF WireInv, RequestEnd
  <2>3. RequestParts'
    <3>1. ASSUME NEW k \in 1 .. n
          PROVE  /\ Requested[k].part = "option" => (k = 1 /\ Loops("option")) \/ Deaf
                 /\ Requested[k].part # "option" => \E d \in Calls :
                      callSeq[d] = Requested[k].seq /\ Requested[k].seq # 0 /\ kind[d] = Requested[k].info
                 /\ Requested[k].part = "body" => Requested[k].info # "noencode"
      BY DEF WireInv, RequestParts, KindOf
    <3>2. ASSUME NEW k \in 1 .. n + 1
          PROVE  /\ Requested'[k].part = "option" => (k = 1 /\ Loops("option")) \/ Deaf
                 /\ Requested'[k].part # "option" => \E d \in Calls :
                      callSeq[d] = Requested'[k].seq /\ Requested'[k].seq # 0 /\ kind[d] = Requested'[k].info
                 /\ Requested'[k].part = "body" => Requested'[k].info # "noencode"
      <4>1. CASE k \in 1 .. n
        BY <1>5, <3>1, <4>1
      <4>2. CASE k = n + 1
        <5>1. Requested'[k] = p /\ callSeq[c] = p.seq /\ callSeq[c] # 0
          BY <1>0, <1>1, <1>5, <4>2
        <5> QED
          BY <1>1, <5>1
      <4> QED
        BY <2>1, <4>1, <4>2, SMTT(30)
    <3> QED
      BY <1>2, <1>5, <3>2 DEF RequestParts, KindOf
  <2>4. RequestFrames'
    <3>1. ASSUME NEW k \in 1 .. n
          PROVE  /\ Requested'[k].part = "header" <=> Requested'[k + 1].part = "body"
                 /\ Requested'[k].part = "header" => Requested'[k + 1].seq = Requested'[k].seq
      <4>1. CASE k < n
        BY <1>5, <2>1, <4>1, SMTT(30) DEF WireInv, RequestFrames
      <4>2. CASE k = n
        BY <1>1, <1>5, <2>1, <2>2, <4>2, SMTT(30)
      <4> QED
        BY <2>1, <4>1, <4>2, SMTT(30)
    <3>2. Loops("body") => Requested'[1] = Requested[1] /\ n > 0
      BY <1>5, <2>1, <2>2, SMTT(30)
    <3> QED
      BY <1>2, <1>5, <2>1, <3>1, <3>2, SMTT(30) DEF WireInv, RequestFrames
  <2>5. RequestEnd'
    <3>1. Len(Requested') > 0 /\ Requested'[Len(Requested')] = p
      BY <1>5, <2>1, SMTT(30)
    <3> QED
      BY <1>0, <1>1, <3>1 DEF RequestEnd
  <2>6. RequestOrder'
    <3>1. \A k \in 1 .. n : Requested[k].part = "header" => Requested[k].seq < p.seq
      BY <1>0, <1>1 DEF WireInv, RequestOrder
    <3>2. req.seq < p.seq
      BY <1>0, <1>1 DEF WireInv, RequestOrder
    <3>3. \A d \in Calls : cpc'[d] # "header"
      BY <1>0
    <3>4. ASSUME NEW k \in 1 .. n + 1, Requested'[k].part = "header"
          PROVE  /\ req.seq < Requested'[k].seq /\ Requested'[k].seq < seq
                 /\ \A j \in 1 .. k - 1 : Requested'[j].part = "header" => Requested'[j].seq < Requested'[k].seq
      <4>1. CASE k = n + 1
        BY <1>1, <1>5, <2>1, <3>1, <3>2, <4>1, SMTT(30)
      <4>2. CASE k \in 1 .. n
        BY <1>5, <2>1, <3>4, <4>2, SMTT(30) DEF WireInv, RequestOrder
      <4> QED
        BY <2>1, <4>1, <4>2, SMTT(30)
    <3>5. \A j, k \in 1 .. n + 1 :
            j < k /\ Requested'[j].part = "header" /\ Requested'[k].part = "header" => Requested'[j].seq < Requested'[k].seq
      BY <2>1, <3>4, SMTT(30)
    <3>6. req.seq < seq
      BY DEF WireInv, RequestOrder
    <3> QED
      BY <1>2, <1>5, <3>3, <3>4, <3>5, <3>6 DEF RequestOrder
  <2> QED
    BY <2>3, <2>4, <2>5, <2>6
<1> QED
  BY <1>1, <1>4, <1>5, RequestPassed DEF p

(* The body of a request is written. *)
LEMMA BodyWritten ==
  ASSUME Inv, [Next]_vars, NEW c \in Calls, cpc[c] = "body", kind[c] # "noencode",
         Passes("client", Part("body", callSeq[c], kind[c])), Sent(c), UNCHANGED serverVars
  PROVE  RequestParts' /\ RequestFrames' /\ RequestEnd' /\ RequestOrder'
<1> USE DEF Inv
<1> DEFINE p == Part("body", callSeq[c], kind[c])
<1> DEFINE n == Len(Requested)
<1>0. /\ callSeq[c] # 0 /\ callSeq[c] \in Seqs /\ seq \in Nat /\ UNCHANGED <<kind, callSeq, seq>>
      /\ \A d \in Calls : cpc[d] \in {"header", "body"} => d = c
      /\ cpc'[c] = "wait" /\ \A d \in Calls : d # c => cpc'[d] = cpc[d]
  BY SeqsNat DEF ClientInv, CallInv, Types, CallTypes, Sent
<1>1. /\ Part("body", callSeq[c], kind[c]) \in ClientPart
      /\ p.part = "body" /\ p.seq = callSeq[c] /\ p.info = kind[c] /\ p.seq \in Nat
  BY <1>0, SeqsNat DEF Types, CallTypes, DialTypes, Part, ClientPart
<1> HIDE DEF p
<1>2. /\ \A where : Loops(where)' <=> Loops(where)
      /\ Deaf' <=> Deaf
      /\ req' = req
  BY DEF Loops, Deaf, serverVars
<1>3. \A s \in Seqs : \A k : KindOf(s, k) => KindOf(s, k)'
  BY NumbersStay
<1>4. CASE ~ Heard("client") /\ Requested' = Requested
  <2>1. ~ Heard("client")'
    BY <1>1, <1>4, RequestPassed DEF p
  <2>2. \A d \in Calls : cpc'[d] = "header" => cpc[d] = "header" /\ callSeq'[d] = callSeq[d]
    BY <1>0
  <2>3. seq \in Nat /\ seq' \in Nat /\ seq <= seq' /\ UNCHANGED <<kind, req>>
    BY <1>0, <1>2, SMTT(30)
  <2> QED
    BY <1>2, <1>3, <1>4, <2>1, <2>2, <2>3, RequestsKept
<1>5. CASE /\ Heard("client") /\ Len(Requested') = n + 1 /\ Requested'[n + 1] = p
           /\ \A k \in 1 .. n : Requested'[k] = Requested[k]
  <2>1. /\ n \in Nat /\ req.seq \in Nat
        /\ \A k \in 1 .. n : Requested[k].seq \in Nat /\ (Requested[k].part # "option" => Requested[k].seq \in Seqs)
    BY RequestTypes
  <2>2. /\ n > 0 => Requested[n].part = "header" /\ Requested[n].seq = callSeq[c]
        /\ n = 0 => Deaf \/ (Loops("body") /\ req.seq = callSeq[c])
    BY <1>0, <1>5, <2>1, SMTT(30) DEF WireInv, RequestEnd
  <2>3. RequestParts'
    <3>1. ASSUME NEW k \in 1 .. n
          PROVE  /\ Requested[k].part = "option" => (k = 1 /\ Loops("option")) \/ Deaf
                 /\ Requested[k].part # "option" => \E d \in Calls :
                      callSeq[d] = Requested[k].seq /\ Requested[k].seq # 0 /\ kind[d] = Requested[k].info
                 /\ Requested[k].part = "body" => Requested[k].info # "noencode"
      BY DEF WireInv, RequestParts, KindOf
    <3>2. ASSUME NEW k \in 1 .. n + 1
          PROVE  /\ Requested'[k].part = "option" => (k = 1 /\ Loops("option")) \/ Deaf
                 /\ Requested'[k].part # "option" => \E d \in Calls :
                      callSeq[d] = Requested'[k].seq /\ Requested'[k].seq # 0 /\ kind[d] = Requested'[k].info
                 /\ Requested'[k].part = "body" => Requested'[k].info # "noencode"
      <4>1. CASE k \in 1 .. n
        BY <1>5, <3>1, <4>1
      <4>2. CASE k = n + 1
        <5>1. Requested'[k] = p /\ kind[c] # "noencode" /\ callSeq[c] = p.seq /\ callSeq[c] # 0
          BY <1>0, <1>1, <1>5, <4>2
        <5> QED
          BY <1>1, <5>1
      <4> QED
        BY <2>1, <4>1, <4>2, SMTT(30)
    <3> QED
      BY <1>0, <1>2, <1>5, <3>2 DEF RequestParts, KindOf
  <2>4. RequestFrames'
    <3>1. ASSUME NEW k \in 1 .. n
          PROVE  /\ Requested'[k].part = "header" <=> Requested'[k + 1].part = "body"
                 /\ Requested'[k].part = "header" => Requested'[k + 1].seq = Requested'[k].seq
      <4>1. CASE k < n
        BY <1>5, <2>1, <4>1, SMTT(30) DEF WireInv, RequestFrames
      <4>2. CASE k = n
        BY <1>1, <1>5, <2>1, <2>2, <4>2, SMTT(30)
      <4> QED
        BY <2>1, <4>1, <4>2, SMTT(30)
    <3>2. Loops("body") => Requested'[1].part = "body" /\ Requested'[1].seq = req.seq
      <4>1. Loops("body") => ~ Deaf
        BY DEF WireInv, LoopInv, Loops, Deaf
      <4>2. CASE n = 0
        BY <1>1, <1>5, <2>2, <4>1, <4>2, SMTT(30)
      <4>3. CASE n > 0
        BY <1>5, <2>1, <4>3, SMTT(30) DEF WireInv, RequestFrames
      <4> QED
        BY <2>1, <4>2, <4>3, SMTT(30)
    <3> QED
      BY <1>2, <1>5, <2>1, <3>1, <3>2, SMTT(30) DEF RequestFrames
  <2>5. RequestEnd'
    <3>1. \A d \in Calls : cpc'[d] # "body"
      BY <1>0
    <3>2. Len(Requested') > 0 /\ Requested'[Len(Requested')].part # "header"
      BY <1>1, <1>5, <2>1, SMTT(30)
    <3> QED
      BY <3>1, <3>2, SMTT(30) DEF RequestEnd
  <2>6. RequestOrder'
    <3>1. \A d \in Calls : cpc'[d] # "header"
      BY <1>0
    <3>2. ASSUME NEW k \in 1 .. n + 1, Requested'[k].part = "header"
          PROVE  k \in 1 .. n /\ Requested'[k] = Requested[k]
      BY <1>1, <1>5, <2>1, <3>2, SMTT(30)
    <3> QED
      BY <1>0, <1>2, <1>5, <2>1, <3>1, <3>2 DEF WireInv, RequestOrder
  <2> QED
    BY <2>3, <2>4, <2>5, <2>6
<1> QED
  BY <1>1, <1>4, <1>5, RequestPassed DEF p

(* The first n parts are taken from the stream. *)
LEMMA RequestsTaken ==
  ASSUME Types, WireInv, NEW n \in 1 .. Len(Requested), Len(Requested') = Len(Requested) - n,
         \A k \in 1 .. Len(Requested) - n : Requested'[k] = Requested[k + n],
         UNCHANGED <<kind, callSeq, cpc, seq>>, Deaf => Deaf'
  PROVE  /\ RequestParts'
         /\ \A k \in 1 .. Len(Requested') - 1 :
              /\ Requested'[k].part = "header" <=> Requested'[k + 1].part = "body"
              /\ Requested'[k].part = "header" => Requested'[k + 1].seq = Requested'[k].seq
         /\ Len(Requested') > 0 => Requested'[Len(Requested')] = Requested[Len(Requested)]
         /\ \A j, k \in 1 .. Len(Requested') :
              j < k /\ Requested'[j].part = "header" /\ Requested'[k].part = "header" => Requested'[j].seq < Requested'[k].seq
         /\ \A k \in 1 .. Len(Requested') :
              Requested'[k].part = "header" =>
                /\ req.seq < Requested'[k].seq /\ Requested'[k].seq < seq
                /\ \A c \in Calls : cpc[c] = "header" => Requested'[k].seq < callSeq[c]
                /\ Requested[1].part = "header" => Requested[1].seq < Requested'[k].seq
<1>1. /\ Len(Requested) \in Nat /\ req.seq \in Nat
      /\ \A k \in 1 .. Len(Requested) : /\ Requested[k].seq \in Nat
                                        /\ Requested[k].part # "option" => Requested[k].seq \in Seqs
  BY RequestTypes
<1>2. ASSUME NEW k \in 1 .. Len(Requested')
      PROVE  Requested'[k] = Requested[k + n] /\ k + n \in 2 .. Len(Requested)
  BY <1>1, SMTT(30)
<1>3. RequestParts'
  <2>1. ASSUME NEW k \in 2 .. Len(Requested)
        PROVE  /\ Requested[k].part = "option" => Deaf
               /\ Requested[k].part # "option" => \E d \in Calls :
                    callSeq[d] = Requested[k].seq /\ Requested[k].seq # 0 /\ kind[d] = Requested[k].info
               /\ Requested[k].part = "body" => Requested[k].info # "noencode"
    BY <1>1, SMTT(30) DEF WireInv, RequestParts, KindOf
  <2>2. ASSUME NEW k \in 1 .. Len(Requested')
        PROVE  /\ Requested'[k].part = "option" => Deaf
               /\ Requested'[k].part # "option" => \E d \in Calls :
                    callSeq[d] = Requested'[k].seq /\ Requested'[k].seq # 0 /\ kind[d] = Requested'[k].info
               /\ Requested'[k].part = "body" => Requested'[k].info # "noencode"
    BY <1>2, <2>1
  <2> QED
    BY <2>2 DEF RequestParts, KindOf
<1>4. ASSUME NEW k \in 1 .. Len(Requested') - 1
      PROVE  /\ Requested'[k].part = "header" <=> Requested'[k + 1].part = "body"
             /\ Requested'[k].part = "header" => Requested'[k + 1].seq = Requested'[k].seq
  <2>1. /\ Requested'[k] = Requested[k + n] /\ Requested'[k + 1] = Requested[(k + n) + 1]
        /\ k + n \in 1 .. Len(Requested) - 1
    <3>1. /\ k \in 1 .. Len(Requested) - n /\ k + 1 \in 1 .. Len(Requested) - n
          /\ (k + 1) + n = (k + n) + 1 /\ k + n \in 1 .. Len(Requested) - 1
      BY <1>1, SMTT(30)
    <3> QED
      BY <3>1, SMTT(30)
  <2> QED
    BY <2>1, SMTT(30) DEF WireInv, RequestFrames
<1>5. ASSUME Len(Requested') > 0 PROVE Requested'[Len(Requested')] = Requested[Len(Requested)]
  BY <1>1, <1>5, SMTT(30)
<1>6. ASSUME NEW j \in 1 .. Len(Requested'), NEW k \in 1 .. Len(Requested'), j < k,
             Requested'[j].part = "header", Requested'[k].part = "header"
      PROVE  Requested'[j].seq < Requested'[k].seq
  <2>1. j + n < k + n /\ j + n \in 1 .. Len(Requested) /\ k + n \in 1 .. Len(Requested)
    BY <1>1, <1>6, SMTT(30)
  <2> QED
    BY <1>2, <1>6, <2>1 DEF WireInv, RequestOrder
<1>7. ASSUME NEW k \in 1 .. Len(Requested'), Requested'[k].part = "header"
      PROVE  /\ req.seq < Requested'[k].seq /\ Requested'[k].seq < seq
             /\ \A c \in Calls : cpc[c] = "header" => Requested'[k].seq < callSeq[c]
             /\ Requested[1].part = "header" => Requested[1].seq < Requested'[k].seq
  <2>1. 1 < k + n /\ k + n \in 1 .. Len(Requested) /\ 1 \in 1 .. Len(Requested)
    BY <1>1, SMTT(30)
  <2> QED
    BY <1>2, <1>7, <2>1 DEF WireInv, RequestOrder
<1> QED
  BY <1>3, <1>4, <1>5, <1>6, <1>7

(* The server reads one part. *)
LEMMA RequestRead ==
  ASSUME Types, CanRead("server"), Consume("server")
  PROVE  /\ 1 \in 1 .. Len(Requested) /\ Len(Requested') = Len(Requested) - 1 /\ Len(Requested) \in Nat
         /\ \A k \in 1 .. Len(Requested) - 1 : Requested'[k] = Requested[k + 1]
         /\ Responded' = Responded /\ UNCHANGED <<open, lost, broken>>
         /\ NextPart("server") = Requested[1]
<1>1. Requested \in Seq(ClientPart) /\ Requested # <<>> /\ NextPart("server") = Requested[1] /\ 1 \in 1 .. Len(Requested)
  BY FirstRequest
<1>2. Requested' = Tail(Requested) /\ Responded' = Responded /\ UNCHANGED <<open, lost, broken>>
  BY DEF Consume, Peer, Requested, Responded, Types, WireTypes, Ends
<1> QED
  BY <1>1, <1>2, PopSeq

LEMMA OptionTaken ==
  ASSUME Inv, OptionRead
  PROVE  WireInv'
<1> USE DEF Inv
<1>1. /\ UNCHANGED <<kind, callSeq, cpc, seq, maker, rcv, dialer>> /\ Loops("option") /\ Loops("header")'
      /\ UNCHANGED <<open, lost, broken, req>> /\ CanRead("server") /\ NextPart("server").part = "option"
  BY ThreadNames DEF OptionRead, clientVars, ReadOption, Loops, Moves, Types, ServerTypes
<1>2. PICK n \in 1 .. Len(Requested) : /\ Requested' = SubSeq(Requested, n + 1, Len(Requested))
                                       /\ garbled' = (n > 1)
  BY DEF OptionRead, ReadOption, Requested, Types, WireTypes, Ends
<1>3. Requested \in Seq(ClientPart) /\ Len(Requested) \in Nat /\ Requested[1].part = "option" /\ Requested # <<>>
  BY <1>1, FirstRequest
<1>4. Len(Requested') = Len(Requested) - n /\ \A k \in 1 .. Len(Requested) - n : Requested'[k] = Requested[k + n]
  BY <1>2, <1>3, DropSeq
<1>5. ~ Deaf /\ req.seq = 0 /\ ~ Loops("body")' /\ ~ Loops("option")' /\ ~ Loops("lock")' /\ ~ Loops("writing")'
  BY <1>1 DEF WireInv, LoopInv, Deaf, Loops
<1>m. maker # "making"
  BY <1>3 DEF WireInv, LoopInv
<1>6. RequestParts' /\ RequestFrames' /\ RequestOrder'
  <2>1. RequestParts' /\ RequestFrames'
    BY <1>1, <1>4, <1>5, RequestsTaken DEF RequestFrames
  <2>2. req.seq < seq /\ \A c \in Calls : cpc[c] = "header" => req.seq < callSeq[c]
    BY DEF WireInv, RequestOrder
  <2>3. RequestOrder'
    BY <1>1, <1>4, <1>5, <2>2, RequestsTaken DEF RequestOrder
  <2> QED
    BY <2>1, <2>3
<1>7. RequestEnd'
  <2> SUFFICES ASSUME Heard("client") PROVE RequestEnd'
    BY <1>1 DEF RequestEnd, Heard
  <2>1. Len(Requested') > 0 => Requested'[Len(Requested')] = Requested[Len(Requested)]
    BY <1>1, <1>4, <1>5, RequestsTaken
  <2>2. ASSUME NEW c \in Calls, cpc[c] = "body"
        PROVE  /\ Requested[Len(Requested)].part = "header" /\ Requested[Len(Requested)].seq = callSeq[c]
               /\ Len(Requested') = 0 => garbled'
    <3>1. Requested[Len(Requested)].part = "header" /\ Requested[Len(Requested)].seq = callSeq[c]
      BY <1>3, <2>2, SMTT(30) DEF WireInv, RequestEnd
    <3>2. Len(Requested') = 0 => n > 1
      BY <1>3, <1>4, <3>1, SMTT(30)
    <3> QED
      BY <1>2, <3>1, <3>2
  <2>3. Requested[Len(Requested)].part = "header" => \E c \in Calls : cpc[c] = "body"
    BY <1>3, SMTT(30) DEF WireInv, RequestEnd
  <2>4. ~ Len(Requested') > 0 => Len(Requested') = 0
    BY <1>3, <1>4, SMTT(30)
  <2> QED
    BY <1>1, <1>5, <2>1, <2>2, <2>3, <2>4 DEF RequestEnd, Deaf
<1>8. LoopInv'
  BY <1>1, <1>5, <1>m DEF LoopInv
<1> QED
  BY <1>6, <1>7, <1>8 DEF WireInv

LEMMA HeaderTaken ==
  ASSUME Inv, ReadRequestHeader, UNCHANGED clientVars
  PROVE  WireInv'
<1> USE DEF Inv
<1>1. /\ UNCHANGED <<kind, callSeq, cpc, seq, maker, rcv, dialer, garbled>> /\ Loops("header")
      /\ CanRead("server") /\ Consume("server")
  BY DEF clientVars, ReadRequestHeader, Loops
<1> DEFINE n == Len(Requested)
<1> DEFINE p == Requested[1]
<1>2. /\ n \in Nat /\ 1 \in 1 .. n /\ Len(Requested') = n - 1 /\ \A k \in 1 .. n - 1 : Requested'[k] = Requested[k + 1]
      /\ UNCHANGED <<open, lost, broken>> /\ NextPart("server") = p
  BY <1>1, RequestRead
<1>n. n - 1 = 0 => n = 1
  BY RequestTypes, SMTT(30)
<1>3. /\ Heard("client")' <=> Heard("client")
      /\ ~ Loops("option") /\ ~ Loops("body") /\ maker # "making"
  BY <1>1, <1>2, FirstRequest DEF Heard, Loops, WireInv, LoopInv
<1>4. \/ Loops("leaving")' /\ req' = req
      \/ Loops("body")' /\ req' = [seq |-> p.seq, ask |-> p.info] /\ ~ garbled /\ p.part = "header" /\ p.info # "unknown"
  BY <1>2, ThreadNames DEF ReadRequestHeader, Moves, Loops, findService, Types, ServerTypes
<1>5. Deaf => Deaf'
  BY <1>1, <1>4 DEF Deaf, Loops
<1>6. /\ RequestParts'
      /\ \A k \in 1 .. Len(Requested') - 1 :
           /\ Requested'[k].part = "header" <=> Requested'[k + 1].part = "body"
           /\ Requested'[k].part = "header" => Requested'[k + 1].seq = Requested'[k].seq
      /\ Len(Requested') > 0 => Requested'[Len(Requested')] = Requested[Len(Requested)]
      /\ \A j, k \in 1 .. Len(Requested') :
           j < k /\ Requested'[j].part = "header" /\ Requested'[k].part = "header" => Requested'[j].seq < Requested'[k].seq
      /\ \A k \in 1 .. Len(Requested') :
           Requested'[k].part = "header" =>
             /\ req.seq < Requested'[k].seq /\ Requested'[k].seq < seq
             /\ \A c \in Calls : cpc[c] = "header" => Requested'[k].seq < callSeq[c]
             /\ p.part = "header" => p.seq < Requested'[k].seq
  BY <1>1, <1>2, <1>5, RequestsTaken
<1>7. RequestFrames'
  <2>1. ASSUME Loops("body")', n - 1 > 0 PROVE Requested'[1].part = "body" /\ Requested'[1].seq = p.seq
    <3>1. Requested'[1] = Requested[1 + 1] /\ 1 \in 1 .. n - 1 /\ p.part = "header"
      BY <1>2, <1>4, <2>1, SMTT(30) DEF Loops
    <3> QED
      BY <3>1 DEF WireInv, RequestFrames
  <2>2. Loops("body")' => req'.seq = p.seq
    BY <1>4, SMTT(30) DEF Loops
  <2> QED
    BY <1>2, <1>6, <2>1, <2>2 DEF RequestFrames
<1>8. RequestOrder'
  <2>1. /\ req.seq < seq /\ \A c \in Calls : cpc[c] = "header" => req.seq < callSeq[c]
        /\ p.part = "header" => p.seq < seq /\ \A c \in Calls : cpc[c] = "header" => p.seq < callSeq[c]
    BY <1>2 DEF WireInv, RequestOrder
  <2>2. req'.seq = req.seq \/ (p.part = "header" /\ req'.seq = p.seq)
    BY <1>4, SMTT(30)
  <2> QED
    BY <1>1, <1>6, <2>1, <2>2 DEF RequestOrder
<1>9. RequestEnd'
  <2> SUFFICES ASSUME Heard("client") PROVE RequestEnd'
    BY <1>3 DEF RequestEnd
  <2>1. ASSUME NEW c \in Calls, cpc[c] = "body"
        PROVE  /\ Requested[n].part = "header" /\ Requested[n].seq = callSeq[c]
               /\ n - 1 = 0 => Deaf' \/ (Loops("body")' /\ req'.seq = callSeq[c])
    <3>1. Requested[n].part = "header" /\ Requested[n].seq = callSeq[c]
      BY <1>2, <2>1, SMTT(30) DEF WireInv, RequestEnd
    <3>2. ASSUME n - 1 = 0, Loops("body")' PROVE req'.seq = callSeq[c]
      <4>1. n = 1
        BY <1>n, <3>2
      <4>2. req' = [seq |-> p.seq, ask |-> p.info]
        BY <1>4, <3>2 DEF Loops
      <4> QED
        BY <3>1, <4>1, <4>2
    <3> QED
      BY <1>4, <3>1, <3>2 DEF Deaf
  <2>2. Requested[n].part = "header" => \E c \in Calls : cpc[c] = "body"
    BY <1>2, SMTT(30) DEF WireInv, RequestEnd
  <2>3. ASSUME n - 1 = 0, Loops("body")' PROVE Requested[n].part = "header"
    <3>1. n = 1
      BY <1>n, <2>3
    <3>2. p.part = "header"
      BY <1>4, <2>3 DEF Loops
    <3> QED
      BY <3>1, <3>2
  <2> QED
    BY <1>1, <1>2, <1>6, <2>1, <2>2, <2>3, SMTT(30) DEF RequestEnd
<1>10. LoopInv'
  <2>1. p.part = "header" => KindOf(p.seq, p.info) /\ p.seq # 0
    BY <1>2 DEF WireInv, RequestParts, KindOf
  <2>2. ASSUME Loops("body")' PROVE ~ garbled /\ KindOf(req'.seq, req'.ask) /\ req'.ask # "unknown" /\ req'.seq # 0
    BY <1>4, <2>1, <2>2, SMTT(30) DEF Loops
  <2>3. KindOf(req'.seq, req'.ask) => KindOf(req.seq, req.ask)'
    BY <1>1 DEF KindOf
  <2>4. ~ Loops("option")' /\ ~ Loops("lock")' /\ ~ Loops("writing")'
    BY <1>4 DEF Loops
  <2> QED
    BY <1>1, <1>3, <2>2, <2>3, <2>4 DEF LoopInv
<1> QED
  BY <1>6, <1>7, <1>8, <1>9, <1>10 DEF WireInv

LEMMA BodyTaken ==
  ASSUME Inv, ReadBody, UNCHANGED clientVars
  PROVE  WireInv'
<1> USE DEF Inv
<1>1. /\ UNCHANGED <<kind, callSeq, cpc, seq, maker, rcv, dialer, garbled, req>> /\ Loops("body")
      /\ CanRead("server") /\ Consume("server")
  BY DEF clientVars, ReadBody, Loops
<1> DEFINE n == Len(Requested)
<1>2. /\ n \in Nat /\ 1 \in 1 .. n /\ Len(Requested') = n - 1 /\ \A k \in 1 .. n - 1 : Requested'[k] = Requested[k + 1]
      /\ UNCHANGED <<open, lost, broken>>
  BY <1>1, RequestRead
<1>3. /\ Heard("client")' <=> Heard("client")
      /\ ~ garbled /\ req.seq # 0 /\ ~ Deaf /\ maker # "making"
  BY <1>1, <1>2, FirstRequest DEF Heard, Loops, Deaf, WireInv, LoopInv
<1>4. Loops("lock")' \/ Loops("header")'
  <2>1. CASE Moves(Loop, "lock")
    BY <2>1, ThreadNames DEF Moves, Loops, Types, ServerTypes
  <2>2. CASE at' = [at EXCEPT ![Loop] = "header", ![Handler(req.seq)] = "select", ![Runner(req.seq)] = "running"]
    <3>1. req.seq \in Requests
      BY <1>3 DEF Types, ServerTypes
    <3> QED
      BY <2>2, <3>1, ThreadNames DEF Loops, Types, ServerTypes
  <2> QED
    BY <2>1, <2>2 DEF ReadBody
<1>5. ~ Loops("body")' /\ ~ Loops("option")' /\ ~ Loops("writing")'
  BY <1>4 DEF Loops
<1>6. RequestParts' /\ RequestFrames'
  BY <1>1, <1>2, <1>3, <1>5, RequestsTaken DEF RequestFrames
<1>7. RequestOrder'
  <2>1. req.seq < seq /\ \A c \in Calls : cpc[c] = "header" => req.seq < callSeq[c]
    BY DEF WireInv, RequestOrder
  <2> QED
    BY <1>1, <1>2, <1>3, <2>1, RequestsTaken DEF RequestOrder
<1>8. RequestEnd'
  <2> SUFFICES ASSUME Heard("client") PROVE RequestEnd'
    BY <1>3 DEF RequestEnd
  <2>1. Requested[1].part = "body"
    BY <1>1, <1>2, SMTT(30) DEF WireInv, RequestFrames
  <2>2. ASSUME NEW c \in Calls, cpc[c] = "body"
        PROVE  Requested[n].part = "header" /\ Requested[n].seq = callSeq[c] /\ Len(Requested') > 0
    <3>1. Requested[n].part = "header" /\ Requested[n].seq = callSeq[c]
      BY <1>2, <2>2, SMTT(30) DEF WireInv, RequestEnd
    <3>2. n # 1
      BY <2>1, <3>1
    <3> QED
      BY <1>2, <3>1, <3>2, SMTT(30)
  <2>3. Requested[n].part = "header" => \E c \in Calls : cpc[c] = "body"
    BY <1>2, SMTT(30) DEF WireInv, RequestEnd
  <2>4. Len(Requested') > 0 => Requested'[Len(Requested')] = Requested[n]
    BY <1>1, <1>2, <1>3, RequestsTaken
  <2> QED
    BY <1>1, <1>5, <2>2, <2>3, <2>4 DEF RequestEnd
<1>9. LoopInv'
  BY <1>1, <1>3, <1>5 DEF LoopInv
<1> QED
  BY <1>6, <1>7, <1>8, <1>9 DEF WireInv

(* serveCodec goes on without reading. *)
LEMMA LoopWire ==
  ASSUME Inv, [Next]_vars, ReadFailsServer \/ CloseCodec, UNCHANGED clientVars
  PROVE  WireInv'
<1> USE DEF Inv
<1>1. /\ UNCHANGED <<kind, callSeq, cpc, seq, maker, rcv, dialer, garbled, req>>
      /\ Requested' = Requested /\ Responded' = Responded
  BY DEF clientVars, ReadFailsServer, CloseCodec, Requested, Responded
<1>2. \/ Loops("option") /\ Loops("closed")' /\ ~ Heard("client")'
      \/ Loops("header") /\ Loops("leaving")'
      \/ Loops("body") /\ Loops("lock")' /\ ~ Heard("client")'
      \/ Loops("leaving") /\ Loops("closed")'
  BY ThreadNames, SMTT(30) DEF ReadFailsServer, ReadFails, CloseCodec, CloseEnd, Peer, Heard, Loops, Moves, Types, ServerTypes, WireTypes, Ends
<1>3. Heard("client")' => Heard("client")
  BY HeardBefore DEF Ends
<1>4. RequestParts' /\ RequestFrames' /\ RequestEnd' /\ RequestOrder'
  <2>1. \A s \in Seqs : \A k : KindOf(s, k) => KindOf(s, k)'
    BY NumbersStay
  <2>2. seq \in Nat /\ seq' \in Nat /\ seq <= seq'
    BY <1>1, SeqSame
  <2>3. /\ Loops("option") => Loops("option")' \/ Deaf'
        /\ Deaf => Deaf'
        /\ ~ Loops("body")'
        /\ Heard("client")' => ~ Loops("body")
    BY <1>1, <1>2 DEF Deaf, Loops
  <2> QED
    BY <1>1, <1>3, <2>1, <2>2, <2>3, RequestsKept
<1>5. LoopInv'
  BY <1>1, <1>2 DEF WireInv, LoopInv, Loops
<1> QED
  BY <1>4, <1>5 DEF WireInv

(* A step of the goroutines that handle requests, or of the receive goroutine. *)
LEMMA OthersWire ==
  ASSUME Inv, [Next]_vars, UNCHANGED <<kind, callSeq, cpc, seq, garbled, req>>, Requested' = Requested,
         at'[Loop] = at[Loop] \/ (at[Loop] = "lock" /\ at'[Loop] = "writing")
           \/ (at[Loop] \in {"lock", "writing"} /\ at'[Loop] = "header"),
         maker' = "making" => maker = "making" /\ rcv' = rcv /\ Responded' = Responded /\ dialer' # "ok"
  PROVE  WireInv'
<1> USE DEF Inv
<1>1. RequestParts' /\ RequestFrames' /\ RequestEnd' /\ RequestOrder'
  <2>1. \A s \in Seqs : \A k : KindOf(s, k) => KindOf(s, k)'
    BY NumbersStay
  <2>2. seq \in Nat /\ seq' \in Nat /\ seq <= seq'
    BY SeqSame
  <2>3. /\ Loops("option") => Loops("option")'
        /\ Deaf => Deaf'
        /\ Loops("body")' <=> Loops("body")
    BY DEF Deaf, Loops
  <2>4. Heard("client")' => Heard("client")
    BY HeardBefore DEF Ends
  <2>5. \A c \in Calls : cpc'[c] = cpc[c] /\ callSeq'[c] = callSeq[c]
    OBVIOUS
  <2> QED
    BY <2>1, <2>2, <2>3, <2>4, <2>5, RequestsKept
<1>2. LoopInv'
  <2>1. /\ Loops("option")' => Loops("option")
        /\ Loops("body")' => Loops("body")
        /\ (Loops("lock") \/ Loops("writing"))' => Loops("lock") \/ Loops("writing")
        /\ Loops("option") => Loops("option")'
        /\ Loops("closed") => Loops("closed")'
    BY DEF Loops
  <2>2. KindOf(req.seq, req.ask) => KindOf(req.seq, req.ask)'
    BY DEF KindOf
  <2> QED
    BY <2>1, <2>2 DEF WireInv, LoopInv
<1> QED
  BY <1>1, <1>2 DEF WireInv

LEMMA CallGoesWire ==
  ASSUME Inv, Types', [Next]_vars, NEW c \in Calls, CallGoes(c)
  PROVE  WireInv'
<1> USE DEF Inv
<1>1. /\ \A where : Loops(where)' <=> Loops(where)
      /\ Deaf' <=> Deaf
      /\ req' = req /\ garbled' = garbled
  BY DEF CallGoes, Loops, Deaf, serverVars
<1>2. maker' = maker /\ maker # "making"
  <2>1. dialer = "ok"
    BY DEF CallGoes, CallStep, Send, WriteHeader, WriteBody, TakeDone, ContextDone, ClientInv, CallInv
  <2>2. maker' = maker
    BY DEF CallGoes, CallStep, Send, WriteHeader, WriteBody, TakeDone, ContextDone, Sent, SendError
  <2> QED
    BY <2>1, <2>2 DEF WireInv, LoopInv
<1>3. \A s \in Seqs : \A k : KindOf(s, k) => KindOf(s, k)'
  BY NumbersStay
<1>4. LoopInv'
  <2>1. Loops("body") => req.seq \in Seqs
    BY DEF WireInv, LoopInv, Types, ServerTypes
  <2> QED
    BY <1>1, <1>2, <1>3, <2>1 DEF WireInv, LoopInv
<1>5. kind' = kind /\ (Heard("client")' => Heard("client"))
  BY NumbersStay, HeardBefore DEF Ends
<1>6. RequestParts' /\ RequestFrames' /\ RequestEnd' /\ RequestOrder'
  <2>1. CASE Send(c)
    <3>1. Requested' = Requested
      BY <2>1 DEF Send, wireVars, Requested
    <3>2. CASE closing
      <4>1. UNCHANGED <<seq, callSeq>> /\ cpc' = [cpc EXCEPT ![c] = "wait"] /\ cpc[c] = "start"
        BY <2>1, <3>2 DEF Send
      <4>2. \A d \in Calls : (cpc'[d] = "header" <=> cpc[d] = "header") /\ (cpc'[d] = "body" <=> cpc[d] = "body")
        BY <4>1 DEF Types, CallTypes
      <4>3. seq \in Nat /\ seq' \in Nat /\ seq <= seq'
        BY <4>1, SeqSame
      <4> QED
        BY <1>1, <1>3, <1>5, <3>1, <4>1, <4>2, <4>3, RequestsKept
    <3>3. CASE ~ closing
      <4>1. /\ seq' = seq + 1 /\ callSeq' = [callSeq EXCEPT ![c] = seq] /\ cpc' = [cpc EXCEPT ![c] = "header"]
            /\ cpc[c] = "start"
        BY <2>1, <3>3 DEF Send, registerCall
      <4>2. /\ callSeq'[c] = seq /\ cpc'[c] = "header"
            /\ \A d \in Calls : d # c => cpc'[d] = cpc[d] /\ callSeq'[d] = callSeq[d]
        BY <4>1 DEF Types, CallTypes
      <4>3. seq \in Nat /\ seq' \in Nat /\ seq <= seq'
        BY <4>1, SMTT(30) DEF Types, CallTypes
      <4>4. \A d \in Calls : /\ cpc'[d] = "header" => (cpc[d] = "header" /\ callSeq'[d] = callSeq[d]) \/ callSeq'[d] = seq
                             /\ cpc'[d] = "body" <=> cpc[d] = "body"
                             /\ cpc[d] = "body" => callSeq'[d] = callSeq[d]
        BY <4>1, <4>2
      <4> QED
        BY <1>1, <1>3, <1>5, <3>1, <4>3, <4>4, RequestsKept
    <3> QED
      BY <3>2, <3>3
  <2>2. ASSUME cpc' = [cpc EXCEPT ![c] = "wait"], UNCHANGED <<callSeq, seq, stream>>, ~ Heard("client")'
        PROVE  RequestParts' /\ RequestFrames' /\ RequestEnd' /\ RequestOrder'
    <3>1. Requested' = Requested
      BY <2>2 DEF Requested
    <3>2. \A d \in Calls : cpc'[d] = "header" => cpc[d] = "header"
      BY <2>2 DEF Types, CallTypes
    <3>3. seq \in Nat /\ seq' \in Nat /\ seq <= seq'
      BY <2>2, SeqSame
    <3> QED
      BY <1>1, <1>3, <1>5, <2>2, <3>1, <3>2, <3>3, RequestsKept
  <2>3. ASSUME FlushFails("client") \/ WriteFails("client") \/ (CloseEnd("client") /\ UNCHANGED <<lost, stream, broken>>)
        PROVE  ~ Heard("client")' /\ UNCHANGED stream
    BY <2>3 DEF FlushFails, WriteFails, CloseEnd, Heard, Types, WireTypes, Ends
  <2>4. ASSUME Sent(c) \/ SendError(c) PROVE cpc' = [cpc EXCEPT ![c] = "wait"] /\ UNCHANGED <<callSeq, seq>>
    BY <2>4 DEF Sent, SendError
  <2>5. CASE WriteHeader(c)
    <3>1. CASE /\ Passes("client", Part("header", header, kind[c])) /\ cpc' = [cpc EXCEPT ![c] = "body"]
               /\ UNCHANGED <<callSeq, seq, header, sending>>
      BY <1>5, <2>5, <3>1, HeaderWritten DEF WriteHeader, CallGoes
    <3> QED
      BY <2>2, <2>3, <2>4, <2>5, <3>1 DEF WriteHeader
  <2>6. CASE WriteBody(c)
    <3>1. CASE kind[c] # "noencode" /\ Passes("client", Part("body", callSeq[c], kind[c])) /\ Sent(c)
      BY <2>6, <3>1, BodyWritten DEF WriteBody, CallGoes
    <3> QED
      BY <2>2, <2>3, <2>4, <2>6, <3>1 DEF WriteBody
  <2>7. CASE TakeDone(c) \/ ContextDone(c)
    <3>1. cpc[c] = "wait" /\ cpc' = [cpc EXCEPT ![c] = "returned"] /\ UNCHANGED <<callSeq, seq, stream>>
      BY <2>7 DEF TakeDone, ContextDone, wireVars
    <3>2. Requested' = Requested
      BY <3>1 DEF Requested
    <3>3. \A d \in Calls : (cpc'[d] = "header" <=> cpc[d] = "header") /\ (cpc'[d] = "body" <=> cpc[d] = "body")
      BY <3>1 DEF Types, CallTypes
    <3>4. seq \in Nat /\ seq' \in Nat /\ seq <= seq'
      BY <3>1, SeqSame
    <3> QED
      BY <1>1, <1>3, <1>5, <3>1, <3>2, <3>3, <3>4, RequestsKept
  <2> QED
    BY <2>1, <2>5, <2>6, <2>7 DEF CallGoes, CallStep
<1> QED
  BY <1>4, <1>6 DEF WireInv

LEMMA DialsWire ==
  ASSUME Inv, [Next]_vars, Dials
  PROVE  WireInv'
<1> USE DEF Inv
<1>0. /\ UNCHANGED <<kind, callSeq, cpc, seq, garbled, req, at>> /\ at'[Loop] = at[Loop]
      /\ \A where : Loops(where)' <=> Loops(where)
      /\ Deaf' <=> Deaf
  BY DEF Dials, NewClient, DialTakes, DialTimesOut, callVars, serverVars, Loops, Deaf
<1>1. CASE NewClient /\ Passes("client", Part("option", 0, "option"))
  <2>1. maker = "making" /\ maker' = "offering"
    BY <1>1 DEF NewClient
  <2>2. /\ Requested = <<>> /\ (Loops("option") \/ Loops("closed")) /\ \A c \in Calls : cpc[c] = "start"
    BY <2>1 DEF WireInv, LoopInv, ClientInv, CallInv
  <2>3. /\ Part("option", 0, "option") \in ClientPart /\ Part("option", 0, "option").part = "option" /\ Len(Requested) = 0
    BY <2>2 DEF Part, ClientPart
  <2>4. LoopInv'
    <3>1. KindOf(req.seq, req.ask) => KindOf(req.seq, req.ask)'
      BY <1>0 DEF KindOf
    <3> QED
      BY <1>0, <2>1, <3>1 DEF WireInv, LoopInv
  <2>5. CASE Requested' = Requested
    <3>1. RequestParts' /\ RequestFrames' /\ RequestEnd' /\ RequestOrder'
      <4>1. \A s \in Seqs : \A k : KindOf(s, k) => KindOf(s, k)'
        BY NumbersStay
      <4>2. seq \in Nat /\ seq' \in Nat /\ seq <= seq'
        BY <1>0, SeqSame
      <4>3. Heard("client")' => Heard("client")
        BY HeardBefore DEF Ends
      <4> QED
        BY <1>0, <2>5, <4>1, <4>2, <4>3, RequestsKept
    <3> QED
      BY <2>4, <3>1 DEF WireInv
  <2>6. CASE Len(Requested') = 1 /\ Requested'[1] = Part("option", 0, "option")
    <3>0. Len(Requested') = 1 /\ Requested'[1].part = "option"
      BY <2>3, <2>6
    <3>1. RequestParts'
      BY <1>0, <2>2, <3>0, SMTT(30) DEF RequestParts, Deaf
    <3>2. RequestFrames'
      BY <1>0, <2>2, <3>0, SMTT(30) DEF RequestFrames, Loops
    <3>3. RequestEnd'
      BY <1>0, <2>2, <3>0, SMTT(30) DEF RequestEnd
    <3>4. RequestOrder'
      <4>1. req.seq < seq
        BY DEF WireInv, RequestOrder
      <4> QED
        BY <1>0, <2>2, <3>0, <4>1, SMTT(30) DEF RequestOrder
    <3> QED
      BY <2>4, <3>1, <3>2, <3>3, <3>4 DEF WireInv
  <2>7. Requested' = Requested \/ (Len(Requested') = 1 /\ Requested'[1] = Part("option", 0, "option"))
    BY <1>1, <2>3, RequestPassed, SMTT(30)
  <2> QED
    BY <2>5, <2>6, <2>7
<1>2. CASE ~ (NewClient /\ Passes("client", Part("option", 0, "option")))
  <2>1. UNCHANGED stream /\ (maker' = "making" => maker = "making" /\ rcv' = rcv /\ dialer' # "ok")
    BY <1>2 DEF Dials, NewClient, DialTakes, DialTimesOut, wireVars
  <2>2. Requested' = Requested /\ Responded' = Responded
    BY <2>1 DEF Requested, Responded
  <2> QED
    BY <1>0, <2>1, <2>2, OthersWire
<1> QED
  BY <1>1, <1>2

(* Before NewClient has written the option nothing is answered. *)
LEMMA NothingAnswered ==
  ASSUME Inv, maker = "making"
  PROVE  dialer # "ok" /\ rcv.at = "off" /\ \A t \in Threads : at[t] \notin {"lock", "writing"}
<1> USE DEF Inv
<1>1. \A r \in Requests : at[Handler(r)] \in {"none", "done"}
  <2>1. CASE Loops("closed")
    BY <2>1 DEF ServerInv, HandlerInv
  <2>2. CASE Loops("option")
    <3>1. \A r \in Requests : r > req.seq
      BY <2>2, SeqsNat DEF WireInv, LoopInv
    <3> QED
      BY <3>1 DEF ServerInv, HandlerInv, Fresh
  <2> QED
    BY <2>1, <2>2 DEF WireInv, LoopInv
<1>2. ASSUME NEW r \in Requests
      PROVE  at[Handler(r)] \notin {"lock", "writing"} /\ at[Runner(r)] \notin {"lock", "writing"}
  <2>1. at[Handler(r)] \in {"none", "done"} /\ at[Handler(r)] \notin {"lock", "writing"}
    BY <1>1
  <2>2. at[Runner(r)] \in {"none", "running", "called", "done"}
    BY <2>1 DEF ServerInv, HandlerInv
  <2> QED
    BY <2>1, <2>2
<1>3. dialer # "ok" /\ rcv.at = "off" /\ at[Loop] \notin {"lock", "writing"}
  BY DEF WireInv, LoopInv, Loops
<1> QED
  BY <1>2, <1>3, ThreadNames

LEMMA WireStep ==
  ASSUME Inv, [Next]_vars
  PROVE  WireInv'
<1> USE DEF Inv
<1>0. /\ Types'
      /\ maker = "making" => /\ dialer # "ok" /\ rcv.at = "off"
                             /\ \A t \in Threads : at[t] \notin {"lock", "writing"}
  BY TypesStep, NothingAnswered
<1>1. CASE Receives \/ UserCloses \/ NetworkFails \/ UNCHANGED vars
  <2>1. /\ UNCHANGED <<kind, callSeq, cpc, seq, garbled, req, maker, dialer, at>>
        /\ maker = "making" => UNCHANGED <<rcv, stream>>
    BY <1>0, <1>1 DEF Receives, Receive, ReceiveHeader, ReceiveBody, ReceiveFails, UserCloses, Close, NetworkFails, Lose,
                      vars, clientVars, serverVars, wireVars
  <2>2. Requested' = Requested
    <3>1. Consume("client") \/ UNCHANGED stream
      BY <1>1 DEF Receives, Receive, ReceiveHeader, ReceiveBody, ReceiveFails, UserCloses, Close, NetworkFails, Lose, vars,
                  wireVars
    <3> QED
      BY <3>1 DEF Consume, Peer, Requested, Types, WireTypes, Ends
  <2> QED
    BY <1>0, <2>1, <2>2, OthersWire DEF Responded
<1>2. ASSUME NEW r \in Requests, Handles(r) PROVE WireInv'
  <2>1. UNCHANGED <<kind, callSeq, cpc, seq, garbled, req, maker, dialer, rcv, stream>>
    BY <1>2 DEF Handles, RequestStep, MethodReturns, Called, HandleTimeout, clientVars, wireVars
  <2>2. at'[Loop] = at[Loop]
    BY <1>2, ThreadNames, SMTT(30) DEF Handles, RequestStep, MethodReturns, Called, HandleTimeout, Moves, Types, ServerTypes
  <2> QED
    BY <1>0, <2>1, <2>2, OthersWire DEF Requested, Responded
<1>3. ASSUME NEW t \in Threads, Sends(t) PROVE WireInv'
  <2>1. /\ UNCHANGED <<kind, callSeq, cpc, seq, garbled, req, maker, dialer, rcv>> /\ at[t] \in {"lock", "writing"}
        /\ maker # "making"
    BY <1>0, <1>3 DEF Sends, RespondStep, RespondHeader, RespondBody, clientVars
  <2>2. Requested' = Requested
    <3>1. (\E p : Passes("server", p)) \/ UNCHANGED stream
      BY <1>3 DEF Sends, RespondStep, RespondHeader, RespondBody, FlushFails, WriteFails
    <3> QED
      BY <3>1 DEF Passes, Peer, Requested, Types, WireTypes, Ends
  <2>3. CASE AfterSending(t)
    <3>1. at'[Loop] = at[Loop] \/ (at[Loop] \in {"lock", "writing"} /\ at'[Loop] = "header")
      BY <2>1, <2>3, AfterMoves, ThreadNames, SMTT(30) DEF ReplyInv
    <3> QED
      BY <2>1, <2>2, <3>1, OthersWire
  <2>4. CASE Moves(t, "writing") /\ at[t] = "lock"
    <3>1. at'[Loop] = at[Loop] \/ (at[Loop] = "lock" /\ at'[Loop] = "writing")
      BY <2>4, ThreadNames DEF Moves, Types, ServerTypes
    <3> QED
      BY <2>1, <2>2, <3>1, OthersWire
  <2> QED
    BY <1>3, <2>3, <2>4 DEF Sends, RespondStep, RespondHeader, RespondBody
<1> QED
  BY <1>0, <1>1, <1>2, <1>3, DialsWire, CallGoesWire, OptionTaken, HeaderTaken, BodyTaken, LoopWire DEF Next, LoopGoes, LoopStep
=============================================================================
