---------------------------- MODULE GeeRPCReplies ----------------------------
(***************************************************************************)
(* The last layer of the invariant of GeeRPC, what responses say and what  *)
(* Call returns, and the theorems.                                         *)
(***************************************************************************)
EXTENDS GeeRPCProofs

USE ZenonT(30)

USE CallsAssumption, KindsAssumption, RequestsAssumption

(* What responses say: the invariant is preserved. *)

LEMMA NotZero == \A s \in Seqs : s # 0
BY SeqsNat, SMTT(30)

(* A connection that has failed, and a client that closes, stay so. *)
LEMMA FailedStays ==
  ASSUME Inv, [Next]_vars
  PROVE  /\ ~ open["client"] => ~ open'["client"]
         /\ ~ open["server"] => ~ open'["server"]
         /\ lost => lost'
         /\ closing => closing'
<1>1. DOMAIN open = Ends /\ "client" \in Ends /\ "server" \in Ends
  BY DEF Inv, Types, WireTypes, Ends
<1>2. ASSUME NEW f \in Ends, ~ open[f] PROVE ~ open'[f]
  <2>1. CASE open' = open
    BY <1>2, <2>1
  <2>2. ASSUME NEW g \in Ends, open' = [open EXCEPT ![g] = FALSE] PROVE ~ open'[f]
    BY <1>1, <1>2, <2>2
  <2> QED
    BY <2>1, <2>2, FailsOnce
<1>3. lost => lost'
  BY FailsOnce
<1>4. closing => closing'
  BY ClosesOnce
<1> QED
  BY <1>1, <1>2, <1>3, <1>4

(* What is true of a response stays true. *)
LEMMA GoodStays ==
  ASSUME Inv, [Next]_vars
  PROVE  /\ \A s \in Seqs \cup {0} : \A e : GoodHeader(s, e) => GoodHeader(s, e)'
         /\ \A s \in Seqs \cup {0} : \A b : GoodBody(s, b) => GoodBody(s, b)'
         /\ \A s \in Seqs \cup {0} : \A e, p : ReplyTo(s, e, p) => ReplyTo(s, e, p)'
<1>1. \A s \in Seqs \cup {0} : \A k : KindOf(s, k) => KindOf(s, k)'
  <2>1. \A k : ~ KindOf(0, k)
    BY DEF KindOf
  <2> QED
    BY <2>1, NumbersStay
<1>2. \A s \in Seqs \cup {0} : \A b : GoodBody(s, b) => GoodBody(s, b)'
  BY <1>1 DEF GoodBody
<1> QED
  BY <1>1, <1>2, NumbersStay DEF GoodHeader, ReplyTo

(* A number belongs to one call. *)
LEMMA KindOfCall ==
  ASSUME ClientInv, NEW c \in Calls, NEW k, KindOf(callSeq[c], k)
  PROVE  kind[c] = k
BY DEF ClientInv, Numbered, KindOf

LEMMA KindUnique ==
  ASSUME ClientInv, NEW s, NEW k, NEW l, KindOf(s, k), KindOf(s, l)
  PROVE  k = l
BY DEF ClientInv, Numbered, KindOf

(* The body that the server reads is the one of the header that it has read. *)
LEMMA BodyOfHeader ==
  ASSUME Inv, ReadBody
  PROVE  /\ NextPart("server").part = "body" /\ NextPart("server").seq = req.seq /\ req.seq \in Seqs
         /\ NextPart("server").info = req.ask /\ KindOf(req.seq, req.ask)
         /\ req.ask # "unknown" /\ req.ask # "noencode"
<1>1. /\ NextPart("server") = Requested[1] /\ 1 \in 1 .. Len(Requested) /\ Len(Requested) > 0
      /\ Loops("body")
  BY FirstRequest, SMTT(30) DEF Inv, ReadBody, Loops
<1>2. Requested[1].part = "body" /\ Requested[1].seq = req.seq
  BY <1>1 DEF Inv, WireInv, RequestFrames
<1>3. KindOf(Requested[1].seq, Requested[1].info) /\ Requested[1].info # "noencode"
  BY <1>1, <1>2 DEF Inv, WireInv, RequestParts
<1>4. KindOf(req.seq, req.ask) /\ req.ask # "unknown" /\ req.seq # 0
  BY <1>1 DEF Inv, WireInv, LoopInv
<1>5. Requested[1].info = req.ask
  BY <1>2, <1>3, <1>4, KindUnique DEF Inv
<1>6. req.seq \in Seqs
  BY <1>4 DEF Inv, Types, ServerTypes
<1> QED
  BY <1>1, <1>2, <1>3, <1>4, <1>5, <1>6

LEMMA AskedStep ==
  ASSUME Inv, [Next]_vars
  PROVE  AskedInv'
<1>0. AskedInv /\ asked \in [Requests -> [ask : KindSet \cup {"none"}, args : Seqs \cup {0}]]
  BY DEF Inv, ReplyInv, Types, ServerTypes
<1>1. \A r \in Requests : r \in Seqs /\ \A k : KindOf(r, k) => KindOf(r, k)'
  BY NumbersStay
<1>2. CASE UNCHANGED asked
  BY <1>0, <1>1, <1>2 DEF AskedInv
<1>3. CASE ReadBody /\ asked' = [asked EXCEPT ![req.seq] = [ask |-> req.ask, args |-> NextPart("server").seq]]
           /\ NextPart("server").info # "badargs"
  <2>1. /\ req.seq \in Seqs /\ NextPart("server").seq = req.seq /\ KindOf(req.seq, req.ask)
        /\ req.ask \notin {"unknown", "badargs", "noencode"}
    BY <1>3, BodyOfHeader
  <2>2. ASSUME NEW r \in Requests, asked'[r].args # 0
        PROVE  asked'[r].args = r /\ KindOf(r, asked'[r].ask) /\ asked'[r].ask \notin {"unknown", "badargs", "noencode"}
    BY <1>0, <1>3, <2>1, <2>2 DEF AskedInv
  <2> QED
    BY <1>1, <2>2 DEF AskedInv
<1> QED
  BY <1>2, <1>3 DEF Next, vars, serverVars, CallGoes, Dials, Receives, UserCloses, OptionRead, ReadOption, LoopGoes, LoopStep,
    ReadRequestHeader, ReadBody, ReadFailsServer, CloseCodec, Handles, RequestStep, MethodReturns, Called, HandleTimeout,
    Sends, RespondStep, RespondHeader, RespondBody, NetworkFails

(* Goroutines that are to send a response keep it, and those that come to it have a true one. *)
LEMMA AnswersGood ==
  ASSUME Inv, [Next]_vars, limited' => opt.handleLimit,
         \A t \in Threads :
           at'[t] \in {"lock", "writing"} =>
             \/ at[t] \in {"lock", "writing"} /\ answer'[t] = answer[t]
             \/ /\ answer'[t].seq \in Seqs
                /\ GoodHeader(answer'[t].seq, answer'[t].error) \/ ~ open["client"] \/ ~ open["server"] \/ lost
                /\ answer'[t].error = "none" => answer'[t].args = answer'[t].seq /\ GoodBody(answer'[t].seq, answer'[t].body)
  PROVE  AnswerInv'
<1>1. opt' = opt
  BY NumbersStay
<1>2. ASSUME NEW t \in Threads, at'[t] \in {"lock", "writing"}
      PROVE  /\ answer'[t].seq \in Seqs /\ answer'[t].seq # 0
             /\ GoodHeader(answer'[t].seq, answer'[t].error) \/ ~ open["client"] \/ ~ open["server"] \/ lost
             /\ answer'[t].error = "none" => answer'[t].args = answer'[t].seq /\ GoodBody(answer'[t].seq, answer'[t].body)
  <2>1. CASE at[t] \in {"lock", "writing"} /\ answer'[t] = answer[t]
    BY <2>1, Sender, SeqsNat DEF Inv, ReplyInv, AnswerInv
  <2>2. CASE ~ (at[t] \in {"lock", "writing"} /\ answer'[t] = answer[t])
    BY <1>2, <2>2, NotZero
  <2> QED
    BY <2>1, <2>2
<1>3. ASSUME NEW t \in Threads, at'[t] \in {"lock", "writing"}
      PROVE  (LET a == answer[t]
              IN  /\ a.seq # 0
                  /\ GoodHeader(a.seq, a.error) \/ ~ open["client"] \/ ~ open["server"] \/ lost
                  /\ a.error = "none" => a.args = a.seq /\ GoodBody(a.seq, a.body))'
  <2>1. PICK a : a = answer'[t]
    OBVIOUS
  <2>2. /\ a.seq \in Seqs /\ a.seq # 0
        /\ GoodHeader(a.seq, a.error) \/ ~ open["client"] \/ ~ open["server"] \/ lost
        /\ a.error = "none" => a.args = a.seq /\ GoodBody(a.seq, a.body)
    BY <1>2, <1>3, <2>1
  <2>3. GoodHeader(a.seq, a.error)' \/ ~ open'["client"] \/ ~ open'["server"] \/ lost'
    BY <2>2, GoodStays, FailedStays
  <2>4. a.error = "none" => a.args = a.seq /\ GoodBody(a.seq, a.body)'
    BY <2>2, GoodStays
  <2> QED
    BY <2>1, <2>2, <2>3, <2>4 DEF GoodHeader, GoodBody, KindOf
<1> QED
  BY <1>1, <1>3 DEF AnswerInv

LEMMA LoopAnswers ==
  ASSUME Inv, [Next]_vars, LoopGoes \/ OptionRead
  PROVE  AnswerInv'
<1>0. /\ limited => opt.handleLimit
      /\ DOMAIN at = Threads /\ Loop \in Threads
  BY ThreadNames DEF Inv, ReplyInv, AnswerInv, Types, ServerTypes
<1>1. ASSUME limited' => opt.handleLimit, answer' = answer,
             \A t \in Threads : at'[t] \in {"lock", "writing"} => at'[t] = at[t]
      PROVE  AnswerInv'
  BY <1>1, AnswersGood
<1>2. ASSUME Loops("body"), Moves(Loop, "lock"), Responds(Loop, Answer(req.seq, "request", "invalid", 0)),
             limited' = limited, KindOf(req.seq, "badargs") \/ ~ open["client"] \/ ~ open["server"] \/ lost
      PROVE  AnswerInv'
  <2>1. req.seq \in Requests /\ responses[req.seq] = 0 /\ req.seq \in Seqs
    BY <1>2, UnreadIsFresh DEF Inv, WireInv, LoopInv, Fresh
  <2>2. answer'[Loop] = Answer(req.seq, "request", "invalid", 0) /\ \A t \in Threads : t # Loop => answer'[t] = answer[t]
    BY <1>0, <1>2, <2>1, FirstResponse, SMTT(30) DEF Inv
  <2>3. answer'[Loop].seq = req.seq /\ answer'[Loop].error = "request"
    BY <2>2, SMTT(30) DEF Answer
  <2>4. GoodHeader(answer'[Loop].seq, answer'[Loop].error) \/ ~ open["client"] \/ ~ open["server"] \/ lost
    BY <1>2, <2>3 DEF GoodHeader
  <2>5. \A t \in Threads : t # Loop => at'[t] = at[t]
    BY <1>0, <1>2 DEF Moves
  <2>6. ASSUME NEW t \in Threads, at'[t] \in {"lock", "writing"}
        PROVE  \/ at[t] \in {"lock", "writing"} /\ answer'[t] = answer[t]
               \/ /\ answer'[t].seq \in Seqs
                  /\ GoodHeader(answer'[t].seq, answer'[t].error) \/ ~ open["client"] \/ ~ open["server"] \/ lost
                  /\ answer'[t].error # "none"
    <3>1. CASE t = Loop
      BY <2>1, <2>3, <2>4, <3>1
    <3>2. CASE t # Loop
      BY <2>2, <2>5, <2>6, <3>2
    <3> QED
      BY <3>1, <3>2
  <2> QED
    BY <1>0, <1>2, <2>6, AnswersGood
<1>3. CASE OptionRead
  BY <1>0, <1>1, <1>3 DEF OptionRead, ReadOption, Moves
<1>4. CASE ReadRequestHeader \/ CloseCodec
  BY <1>0, <1>1, <1>4 DEF ReadRequestHeader, CloseCodec, Moves
<1>5. CASE ReadBody
  <2>1. /\ limited' = limited /\ NextPart("server").info = req.ask /\ NextPart("server").part = "body"
        /\ KindOf(req.seq, req.ask) /\ Loops("body")
    BY <1>5, BodyOfHeader DEF ReadBody, Loops
  <2>2. CASE NextPart("server").info = "badargs"
    BY <1>2, <1>5, <2>1, <2>2 DEF ReadBody
  <2>3. CASE NextPart("server").info # "badargs"
    <3>1. /\ at' = [at EXCEPT ![Loop] = "header", ![Handler(req.seq)] = "select", ![Runner(req.seq)] = "running"]
          /\ answer' = answer
      BY <1>5, <2>1, <2>3 DEF ReadBody
    <3> QED
      BY <1>0, <1>1, <2>1, <3>1
  <2> QED
    BY <2>2, <2>3
<1>6. CASE ReadFailsServer
  <2>1. limited' = limited /\ (~ open["client"] \/ ~ open["server"] \/ lost)
    BY <1>6 DEF ReadFailsServer, ReadFails, Peer
  <2>2. CASE UNCHANGED answer /\ (Moves(Loop, "closed") \/ Moves(Loop, "leaving"))
    BY <1>0, <1>1, <2>1, <2>2 DEF Moves
  <2> QED
    BY <1>2, <1>6, <2>1, <2>2 DEF ReadFailsServer, Loops
<1> QED
  BY <1>3, <1>4, <1>5, <1>6 DEF LoopGoes, LoopStep

LEMMA HandlesAnswers ==
  ASSUME Inv, [Next]_vars, NEW r \in Requests, Handles(r)
  PROVE  AnswerInv'
<1>0. /\ (limited => opt.handleLimit) /\ DOMAIN at = Threads /\ Handler(r) \in Threads /\ Runner(r) \in Threads
      /\ Handler(r) # Runner(r) /\ r \in Seqs /\ r # 0
  BY ThreadNames, NotZero DEF Inv, ReplyInv, AnswerInv, Types, ServerTypes
<1>1. limited' = limited /\ (MethodReturns(r) \/ Called(r) \/ HandleTimeout(r))
  BY DEF Handles, RequestStep, MethodReturns, Called, HandleTimeout
<1>2. CASE MethodReturns(r)
  <2>1. answer' = answer /\ \A t \in Threads : at'[t] \in {"lock", "writing"} => at'[t] = at[t]
    BY <1>0, <1>2 DEF MethodReturns, Moves
  <2> QED
    BY <1>0, <1>1, <2>1, AnswersGood
<1>3. CASE HandleTimeout(r)
  <2>1. responses[r] = 0 /\ at' = [at EXCEPT ![Handler(r)] = "lock"] /\ limited
    BY <1>3 DEF Inv, ServerInv, HandlerInv, HandleTimeout, Moves
  <2>2. /\ answer'[Handler(r)] = Answer(r, "timeout", "invalid", 0)
        /\ \A t \in Threads : t # Handler(r) => answer'[t] = answer[t]
    BY <1>0, <1>3, <2>1, FirstResponse, SMTT(30) DEF Inv, HandleTimeout
  <2>3. answer'[Handler(r)].seq = r /\ answer'[Handler(r)].error = "timeout" /\ GoodHeader(r, "timeout")
    BY <1>0, <2>1, <2>2, SMTT(30) DEF Answer, GoodHeader
  <2> QED
    BY <1>0, <1>1, <2>1, <2>2, <2>3, AnswersGood
<1>4. CASE Called(r)
  <2>1. /\ responses[r] = 0 /\ at' = [at EXCEPT ![Runner(r)] = "lock", ![Handler(r)] = "sent"]
        /\ Responds(Runner(r), Result(r)) /\ asked[r].args # 0
    BY <1>4 DEF Inv, ServerInv, HandlerInv, Called
  <2>2. asked[r].args = r /\ KindOf(r, asked[r].ask) /\ asked[r].ask \notin {"unknown", "badargs", "noencode"}
    BY <2>1 DEF Inv, ReplyInv, AskedInv
  <2>3. /\ answer'[Runner(r)] = Result(r)
        /\ \A t \in Threads : t # Runner(r) => answer'[t] = answer[t]
    BY <1>0, <2>1, FirstResponse, SMTT(30) DEF Inv, Result
  <2>4. /\ Result(r).seq = r /\ GoodHeader(r, Result(r).error)
        /\ Result(r).error = "none" => Result(r).args = r /\ GoodBody(r, Result(r).body)
    BY <2>2 DEF Result, Answer, GoodHeader, GoodBody
  <2>5. \A t \in Threads : t # Runner(r) /\ at'[t] \in {"lock", "writing"} => at'[t] = at[t] /\ answer'[t] = answer[t]
    BY <1>0, <2>1, <2>3
  <2> QED
    BY <1>0, <1>1, <2>3, <2>4, <2>5, AnswersGood, SMTT(30)
<1> QED
  BY <1>1, <1>2, <1>3, <1>4

LEMMA SendsAnswers ==
  ASSUME Inv, [Next]_vars, NEW t \in Threads, Sends(t)
  PROVE  AnswerInv'
<1>0. (limited => opt.handleLimit) /\ DOMAIN at = Threads
  BY DEF Inv, ReplyInv, AnswerInv, Types, ServerTypes
<1>1. limited' = limited /\ answer' = answer /\ at[t] \in {"lock", "writing"} /\ (AfterSending(t) \/ Moves(t, "writing"))
  BY DEF Sends, RespondStep, RespondHeader, RespondBody
<1>2. \A u \in Threads : at'[u] \in {"lock", "writing"} => at[u] \in {"lock", "writing"}
  <2>1. CASE AfterSending(t)
    BY <1>1, <2>1, AfterMoves, ThreadNames DEF Inv, ReplyInv
  <2>2. CASE Moves(t, "writing")
    BY <1>0, <1>1, <2>2 DEF Moves
  <2> QED
    BY <1>1, <2>1, <2>2
<1> QED
  BY <1>0, <1>1, <1>2, AnswersGood

LEMMA AnswerStep ==
  ASSUME Inv, [Next]_vars
  PROVE  AnswerInv'
<1>1. CASE UNCHANGED serverVars
  BY <1>1, AnswersGood DEF serverVars, Inv, ReplyInv, AnswerInv
<1> QED
  BY <1>1, LoopAnswers, HandlesAnswers, SendsAnswers
  DEF Next, vars, CallGoes, Dials, Receives, UserCloses, NetworkFails

-----------------------------------------------------------------------------
(* The responses on the wire. *)

LEMMA ResponseTypes ==
  ASSUME Types
  PROVE  /\ Responded \in Seq(ServerPart) /\ Len(Responded) \in Nat /\ rcv.seq \in Seqs \cup {0}
         /\ \A k \in 1 .. Len(Responded) : /\ Responded[k].part \in {"header", "body"}
                                           /\ Responded[k].part = "header" => Responded[k].seq \in Seqs
<1>1. Responded \in Seq(ServerPart) /\ rcv.seq \in Seqs \cup {0}
  BY DEF Types, WireTypes, DoneTypes, Responded
<1>2. Len(Responded) \in Nat /\ \A k \in 1 .. Len(Responded) : Responded[k] \in ServerPart
  BY <1>1, SMTT(30)
<1>3. \A p \in ServerPart : p.part \in {"header", "body"} /\ (p.part = "header" => p.seq \in Seqs)
  BY DEF ServerPart
<1> QED
  BY <1>1, <1>2, <1>3

(* What ResponseParts says of one part, and ResponseFrames of two. *)
PartGood(k) == Responded[k].part = "header" => GoodHeader(Responded[k].seq, Responded[k].info)

FrameGood(k) ==
  /\ Responded[k].part = "header" <=> Responded[k + 1].part = "body"
  /\ Responded[k].part = "header" => ReplyTo(Responded[k].seq, Responded[k].info, Responded[k + 1])

(* Parts stay good, wherever in the stream they are after a step. *)
LEMMA PartStays ==
  ASSUME Inv, [Next]_vars, NEW j \in 1 .. Len(Responded), NEW k, Responded'[k] = Responded[j]
  PROVE  PartGood(k)'
<1>1. PICK p : p = Responded[j]
  OBVIOUS
<1>2. p.part = "header" => p.seq \in Seqs /\ GoodHeader(p.seq, p.info)
  BY <1>1, ResponseTypes DEF Inv, ReplyInv, ResponseParts
<1>3. p.part = "header" => GoodHeader(p.seq, p.info)'
  BY <1>2, GoodStays
<1> QED
  BY <1>1, <1>3 DEF PartGood, GoodHeader, KindOf

LEMMA FrameStays ==
  ASSUME Inv, [Next]_vars, NEW j \in 1 .. Len(Responded) - 1, NEW k,
         Responded'[k] = Responded[j], Responded'[k + 1] = Responded[j + 1]
  PROVE  FrameGood(k)'
<1>1. PICK p : p = Responded[j]
  OBVIOUS
<1>2. PICK q : q = Responded[j + 1]
  OBVIOUS
<1>3. j \in 1 .. Len(Responded)
  BY ResponseTypes, SMTT(30) DEF Inv
<1>4. p.part = "header" => p.seq \in Seqs /\ ReplyTo(p.seq, p.info, q)
  BY <1>1, <1>2, <1>3, ResponseTypes DEF Inv, ReplyInv, ResponseFrames
<1>5. p.part = "header" <=> q.part = "body"
  BY <1>1, <1>2, <1>3 DEF Inv, ReplyInv, ResponseFrames
<1>6. p.part = "header" => ReplyTo(p.seq, p.info, q)'
  BY <1>4, GoodStays
<1> QED
  BY <1>1, <1>2, <1>5, <1>6 DEF FrameGood, ReplyTo, GoodBody, KindOf

(* The header that the client has read stays good, and the body in front of it its reply. *)
LEMMA HeadStays ==
  ASSUME Inv, [Next]_vars, rcv' = rcv, rcv.at = "body"
  PROVE  /\ GoodHeader(rcv.seq, rcv.error)'
         /\ Len(Responded) > 0 /\ Responded'[1] = Responded[1] => ReplyTo(rcv.seq, rcv.error, Responded[1])'
<1>1. PICK s \in Seqs \cup {0} : s = rcv.seq
  BY ResponseTypes DEF Inv
<1>2. PICK e : e = rcv.error
  OBVIOUS
<1>3. GoodHeader(s, e)'
  BY <1>1, <1>2, GoodStays DEF Inv, ReplyInv, ResponseFrames
<1>4. ASSUME Len(Responded) > 0, Responded'[1] = Responded[1] PROVE ReplyTo(rcv.seq, rcv.error, Responded[1])'
  <2>1. PICK p : p = Responded[1]
    OBVIOUS
  <2>2. ReplyTo(s, e, p)'
    BY <1>1, <1>2, <1>4, <2>1, GoodStays DEF Inv, ReplyInv, ResponseFrames
  <2> QED
    BY <1>1, <1>2, <1>4, <2>1, <2>2 DEF ReplyTo, GoodBody, KindOf
<1> QED
  BY <1>1, <1>2, <1>3, <1>4 DEF GoodHeader, KindOf

(* A step that neither writes nor reads a response. *)
LEMMA ResponsesKept ==
  ASSUME Inv, [Next]_vars, Responded' = Responded, rcv' = rcv \/ rcv'.at = "ended",
         Heard("server")' =>
           /\ rcv' = rcv /\ sendLock' = sendLock
           /\ \A t \in Threads : at'[t] = "writing" => at[t] = "writing" /\ answer'[t] = answer[t]
  PROVE  ResponseParts' /\ ResponseFrames' /\ ResponseEnd'
<1>1. /\ Len(Responded) \in Nat /\ rcv.seq \in Seqs \cup {0}
      /\ \A k \in 1 .. Len(Responded) : Responded[k].part = "header" => Responded[k].seq \in Seqs
  BY ResponseTypes DEF Inv
<1>2. ResponseParts /\ ResponseFrames /\ ResponseEnd
  BY DEF Inv, ReplyInv
<1>3. Heard("server")' => Heard("server")
  BY HeardBefore DEF Inv, Ends
<1>4. ResponseParts'
  BY <1>1, PartStays DEF ResponseParts, PartGood
<1>5. ResponseFrames'
  <2>1. \A k \in 1 .. Len(Responded) - 1 : FrameGood(k)'
    BY FrameStays
  <2>2. CASE rcv' = rcv
    BY <1>2, <2>1, <2>2, HeadStays DEF ResponseFrames, FrameGood
  <2>3. CASE rcv'.at = "ended"
    BY <2>1, <2>3 DEF ResponseFrames, FrameGood
  <2> QED
    BY <2>2, <2>3
<1>6. ResponseEnd'
  BY <1>2, <1>3 DEF ResponseEnd
<1> QED
  BY <1>4, <1>5, <1>6

(* A part is written by the server. *)
LEMMA ResponsePassed ==
  ASSUME Types, NEW p \in ServerPart, Passes("server", p)
  PROVE  /\ Heard("server")' <=> Heard("server")
         /\ \/ ~ Heard("server") /\ Responded' = Responded
            \/ /\ Heard("server") /\ Len(Responded') = Len(Responded) + 1 /\ Responded'[Len(Responded) + 1] = p
               /\ \A k \in 1 .. Len(Responded) : Responded'[k] = Responded[k]
<1>1. Responded \in Seq(ServerPart) /\ DOMAIN stream = Ends
  BY DEF Types, WireTypes, Responded
<1>2. UNCHANGED <<open, lost, broken>> /\ ~ broken["server"] /\ open["server"] /\ ~ lost
  BY DEF Passes
<1>3. CASE ~ open["client"]
  BY <1>2, <1>3 DEF Passes, Peer, Responded, Heard
<1>4. CASE open["client"]
  <2>1. Responded' = Append(Responded, p)
    BY <1>1, <1>4 DEF Passes, Peer, Responded, Ends
  <2>2. Heard("server") /\ Heard("server")'
    BY <1>2, <1>4 DEF Heard
  <2> QED
    BY <1>1, <2>1, <2>2, PushSeq, SMTT(30)
<1> QED
  BY <1>3, <1>4

(* A part is read by the client. *)
LEMMA ResponseRead ==
  ASSUME Types, CanRead("client"), Consume("client")
  PROVE  /\ NextPart("client") = Responded[1] /\ Len(Responded) \in Nat \ {0} /\ 1 \in 1 .. Len(Responded)
         /\ Len(Responded') = Len(Responded) - 1 /\ (Heard("server")' <=> Heard("server"))
         /\ \A k \in 1 .. Len(Responded) - 1 : Responded'[k] = Responded[k + 1]
<1>1. /\ Responded \in Seq(ServerPart) /\ Responded # <<>> /\ NextPart("client") = Head(Responded)
      /\ Responded' = Tail(Responded)
  BY DEF CanRead, Consume, NextPart, Peer, Types, WireTypes, Responded, Ends
<1>2. Heard("server")' <=> Heard("server")
  BY DEF Consume, Heard
<1> QED
  BY <1>1, <1>2, PopSeq, SMTT(30)

(* The client reads a part: the parts behind it stay as they are. *)
LEMMA ResponsesRead ==
  ASSUME Inv, [Next]_vars, CanRead("client"), Consume("client")
  PROVE  /\ ResponseParts'
         /\ \A k \in 1 .. Len(Responded') - 1 : FrameGood(k)'
         /\ Len(Responded') \in Nat
         /\ Len(Responded') > 0 => Responded'[Len(Responded')] = Responded[Len(Responded)] /\ Responded'[1] = Responded[2]
<1>1. /\ Len(Responded) \in Nat \ {0} /\ Len(Responded') = Len(Responded) - 1
      /\ \A k \in 1 .. Len(Responded) - 1 : Responded'[k] = Responded[k + 1]
  BY ResponseRead DEF Inv
<1>2. ASSUME NEW k \in 1 .. Len(Responded') PROVE PartGood(k)'
  <2>1. k + 1 \in 1 .. Len(Responded) /\ Responded'[k] = Responded[k + 1]
    BY <1>1, SMTT(30)
  <2> QED
    BY <2>1, PartStays
<1>3. ASSUME NEW k \in 1 .. Len(Responded') - 1 PROVE FrameGood(k)'
  <2>1. k + 1 \in 1 .. Len(Responded) - 1 /\ Responded'[k] = Responded[k + 1] /\ Responded'[k + 1] = Responded[(k + 1) + 1]
    BY <1>1, SMTT(30)
  <2> QED
    BY <2>1, FrameStays
<1>4. Len(Responded') > 0 => Responded'[Len(Responded')] = Responded[Len(Responded)] /\ Responded'[1] = Responded[2]
  BY <1>1, SMTT(30)
<1> QED
  BY <1>1, <1>2, <1>3, <1>4, SMTT(30) DEF ResponseParts, PartGood

LEMMA ReceivesReplies ==
  ASSUME Inv, [Next]_vars, Receives
  PROVE  ResponseParts' /\ ResponseFrames' /\ ResponseEnd'
<1>0. ResponseParts /\ ResponseFrames /\ ResponseEnd /\ LockInv /\ UNCHANGED serverVars
  BY DEF Inv, ReplyInv, ServerInv, Receives
<1>1. CASE ReceiveFails
  <2>1. Responded' = Responded /\ rcv'.at = "ended" /\ ~ Heard("server")'
    BY <1>1 DEF ReceiveFails, ReadFails, Peer, Responded, Heard, Idle, wireVars
  <2> QED
    BY <2>1, ResponsesKept
<1>2. ASSUME CanRead("client"), Consume("client")
      PROVE  /\ NextPart("client") = Responded[1] /\ Len(Responded) \in Nat \ {0} /\ 1 \in 1 .. Len(Responded)
             /\ Len(Responded') = Len(Responded) - 1 /\ (Heard("server")' <=> Heard("server"))
             /\ ResponseParts'
             /\ \A k \in 1 .. Len(Responded') - 1 : FrameGood(k)'
             /\ Len(Responded') > 0 => Responded'[Len(Responded')] = Responded[Len(Responded)] /\ Responded'[1] = Responded[2]
  BY <1>2, ResponseRead, ResponsesRead DEF Inv
<1>3. CASE ReceiveHeader
  <2>1. CanRead("client") /\ Consume("client") /\ rcv.at = "header"
    BY <1>3 DEF ReceiveHeader
  <2>2. Responded[1].part = "header" /\ Responded[1].seq \in Seqs
    BY <1>0, <1>2, <2>1, ResponseTypes, SMTT(30) DEF Inv, ResponseFrames
  <2>3. rcv'.at = "body" /\ rcv'.seq = Responded[1].seq /\ rcv'.error = Responded[1].info
    BY <1>2, <1>3, <2>1, <2>2, SMTT(30) DEF ReceiveHeader
  <2>4. PICK p : p = Responded[1]
    OBVIOUS
  <2>5. GoodHeader(p.seq, p.info)'
    BY <1>0, <1>2, <2>1, <2>2, <2>4, GoodStays DEF ResponseParts
  <2>6. GoodHeader(rcv.seq, rcv.error)'
    BY <2>3, <2>4, <2>5 DEF GoodHeader, KindOf
  <2>7. ASSUME Len(Responded') > 0 PROVE ReplyTo(rcv.seq, rcv.error, Responded[1])'
    <3>1. PICK q : q = Responded[2]
      OBVIOUS
    <3>2. ReplyTo(p.seq, p.info, q)
      <4>1. 1 \in 1 .. Len(Responded) - 1
        BY <1>2, <2>1, <2>7, SMTT(30)
      <4> QED
        BY <1>0, <2>2, <2>4, <3>1, <4>1, SMTT(30) DEF ResponseFrames
    <3>3. ReplyTo(p.seq, p.info, q)'
      BY <2>2, <2>4, <3>2, GoodStays
    <3>4. Responded'[1] = q
      BY <1>2, <2>1, <2>7, <3>1
    <3> QED
      BY <2>3, <2>4, <3>3, <3>4 DEF ReplyTo, GoodBody, KindOf
  <2>8. ResponseFrames'
    BY <1>2, <2>1, <2>3, <2>6, <2>7 DEF ResponseFrames, FrameGood
  <2>9. ResponseEnd'
    <3>1. /\ Len(Responded) > 0 /\ (Len(Responded') = 0 => Len(Responded) = 1) /\ (Len(Responded') > 0 \/ Len(Responded') = 0)
          /\ Len(Responded') > 0 => Responded'[Len(Responded')] = Responded[Len(Responded)]
      BY <1>2, <2>1, SMTT(30)
    <3>2. Heard("server")' => Heard("server")
      BY <1>2, <2>1
    <3> QED
      BY <1>0, <2>2, <2>3, <3>1, <3>2 DEF ResponseEnd, serverVars
  <2> QED
    BY <1>2, <2>1, <2>8, <2>9
<1>4. CASE ReceiveBody
  <2>1. CanRead("client") /\ Consume("client") /\ rcv.at = "body" /\ rcv'.at \in {"header", "ended"}
    BY <1>4 DEF ReceiveBody, Idle
  <2>2. Responded[1].part = "body"
    <3>1. Len(Responded) > 0
      BY <1>2, <2>1, SMTT(30)
    <3> QED
      BY <1>0, <2>1, <3>1 DEF ResponseFrames, ReplyTo
  <2>3. Len(Responded') > 0 => Responded'[1].part = "header"
    <3>1. Len(Responded') > 0 => 1 \in 1 .. Len(Responded) - 1 /\ 2 \in 1 .. Len(Responded)
      BY <1>2, <2>1, SMTT(30)
    <3>2. Len(Responded') > 0 => Responded[2].part # "body"
      BY <1>0, <2>2, <3>1, SMTT(30) DEF ResponseFrames
    <3> QED
      BY <1>2, <2>1, <3>1, <3>2, ResponseTypes DEF Inv
  <2>4. ResponseFrames'
    BY <1>2, <2>1, <2>3 DEF ResponseFrames, FrameGood
  <2>5. ASSUME Heard("server"), Len(Responded') = 0 PROVE sendLock = {}
    <3>1. Len(Responded) = 1
      BY <1>2, <2>1, <2>5, SMTT(30)
    <3>2. ASSUME NEW t \in Threads, at[t] = "writing" PROVE FALSE
      <4>1. Responded[Len(Responded)].part = "header"
        <5>1. Len(Responded) > 0
          BY <3>1, SMTT(30)
        <5> QED
          BY <1>0, <2>5, <3>2, <5>1 DEF ResponseEnd
      <4> QED
        BY <2>2, <3>1, <4>1
    <3>3. sendLock \subseteq Threads
      BY DEF Inv, Types, ServerTypes
    <3> QED
      BY <1>0, <3>2, <3>3 DEF LockInv
  <2>6. ResponseEnd'
    <3>1. Len(Responded') \in Nat /\ (Len(Responded') > 0 => Len(Responded) > 0)
      BY <1>2, <2>1, SMTT(30)
    <3> QED
      BY <1>0, <1>2, <2>1, <2>5, <3>1 DEF ResponseEnd, serverVars
  <2> QED
    BY <1>2, <2>1, <2>4, <2>6
<1> QED
  BY <1>1, <1>3, <1>4 DEF Receives, Receive

(* The header of a response is written. *)
LEMMA ResponseHeader ==
  ASSUME Inv, [Next]_vars, NEW t \in Threads, at[t] = "lock", sendLock = {}, Heard("server"),
         NEW p \in ServerPart, p.part = "header", p.seq = answer[t].seq, p.info = answer[t].error, Passes("server", p),
         Moves(t, "writing"), sendLock' = {t}, UNCHANGED <<answer, rcv>>
  PROVE  ResponseParts' /\ ResponseFrames' /\ ResponseEnd'
<1>0. /\ ResponseParts /\ ResponseFrames /\ ResponseEnd /\ LockInv
      /\ Len(Responded) \in Nat
  BY ResponseTypes DEF Inv, ReplyInv, ServerInv
<1>1. PICK n \in Nat : n = Len(Responded)
  BY <1>0
<1>2. PICK a : a = answer[t]
  OBVIOUS
<1>3. a.seq \in Seqs /\ a.error \in ServerErrors /\ GoodHeader(a.seq, a.error)
  <2>1. a.seq \in Seqs /\ a.error \in ServerErrors
    BY <1>2, Sender DEF Inv, ReplyInv, Types, ServerTypes
  <2>2. GoodHeader(a.seq, a.error)
    BY <1>2 DEF Inv, ReplyInv, AnswerInv, Heard
  <2> QED
    BY <2>1, <2>2
<1>4. p.seq = a.seq /\ p.info = a.error
  BY <1>2
<1>5. Len(Responded') = n + 1 /\ Responded'[n + 1] = p /\ \A k \in 1 .. n : Responded'[k] = Responded[k]
  BY <1>1, <1>4, ResponsePassed DEF Inv
<1>6. ASSUME NEW k \in 1 .. n + 1 PROVE PartGood(k)'
  <2>1. CASE k = n + 1
    <3>1. GoodHeader(a.seq, a.error)'
      BY <1>3, GoodStays
    <3> QED
      BY <1>4, <1>5, <2>1, <3>1 DEF PartGood, GoodHeader, KindOf
  <2>2. CASE k \in 1 .. n
    BY <1>1, <1>5, <2>2, PartStays
  <2> QED
    BY <2>1, <2>2, SMTT(30)
<1>7. n > 0 => Responded[n].part # "header"
  BY <1>0, <1>1 DEF ResponseEnd
<1>8. n = 0 => rcv.at # "body"
  BY <1>0, <1>1 DEF ResponseEnd
<1>9. ASSUME NEW k \in 1 .. n PROVE FrameGood(k)'
  <2>1. CASE k = n
    <3>1. Responded'[k].part # "header" /\ Responded'[k + 1].part # "body"
      BY <1>4, <1>5, <1>7, <2>1, SMTT(30)
    <3> QED
      BY <3>1 DEF FrameGood
  <2>2. CASE k \in 1 .. n - 1
    <3>1. k \in 1 .. Len(Responded) - 1 /\ Responded'[k] = Responded[k] /\ Responded'[k + 1] = Responded[k + 1]
      BY <1>1, <1>5, <2>2, SMTT(30)
    <3> QED
      BY <3>1, FrameStays
  <2> QED
    BY <2>1, <2>2, SMTT(30)
<1>10. ResponseFrames'
  <2>1. n > 0 => Responded'[1] = Responded[1]
    BY <1>5, SMTT(30)
  <2>2. n = 0 => Responded'[1].part = "header"
    BY <1>4, <1>5, SMTT(30)
  <2>3. n > 0 /\ rcv.at = "header" => Responded[1].part = "header"
    BY <1>0, <1>1 DEF ResponseFrames
  <2>4. /\ rcv.at = "body" => GoodHeader(rcv.seq, rcv.error)'
        /\ rcv.at = "body" => ReplyTo(rcv.seq, rcv.error, Responded[1])'
    BY <1>1, <1>8, <2>1, HeadStays, SMTT(30)
  <2>5. \A k \in 1 .. Len(Responded') - 1 : FrameGood(k)'
    BY <1>5, <1>9, SMTT(30)
  <2> QED
    BY <2>1, <2>2, <2>3, <2>4, <2>5, SMTT(30) DEF ResponseFrames, FrameGood
<1>11. ResponseEnd'
  <2>1. \A u \in Threads : at'[u] = "writing" => u = t
    BY <1>0 DEF LockInv, Moves, Inv, Types, ServerTypes
  <2>2. Responded'[Len(Responded')].part = "header" /\ Responded'[Len(Responded')].seq = answer'[t].seq
        /\ Responded'[Len(Responded')].info = answer'[t].error /\ Len(Responded') > 0
    BY <1>2, <1>4, <1>5, SMTT(30)
  <2> QED
    BY <2>1, <2>2, SMTT(30) DEF ResponseEnd
<1>12. ResponseParts'
  BY <1>5, <1>6 DEF ResponseParts, PartGood
<1> QED
  BY <1>10, <1>11, <1>12

(* The body of a response is written. *)
LEMMA ResponseBody ==
  ASSUME Inv, [Next]_vars, NEW t \in Threads, at[t] = "writing", Heard("server"), answer[t].body # "noreply",
         NEW p \in ServerPart, p.part = "body", p.seq = answer[t].args, p.info = answer[t].body, Passes("server", p),
         AfterSending(t), UNCHANGED <<answer, rcv>>
  PROVE  ResponseParts' /\ ResponseFrames' /\ ResponseEnd'
<1>0. /\ ResponseParts /\ ResponseFrames /\ ResponseEnd /\ LockInv
      /\ Len(Responded) \in Nat
  BY ResponseTypes DEF Inv, ReplyInv, ServerInv
<1>1. PICK n \in Nat : n = Len(Responded)
  BY <1>0
<1>2. PICK a : a = answer[t]
  OBVIOUS
<1>3. sendLock = {t}
  BY <1>0 DEF LockInv
<1>4. p.seq = a.args /\ p.info = a.body
  BY <1>2
<1>5. Len(Responded') = n + 1 /\ Responded'[n + 1] = p /\ \A k \in 1 .. n : Responded'[k] = Responded[k]
  BY <1>1, <1>4, ResponsePassed DEF Inv
<1>6. a.seq \in Seqs /\ ReplyTo(a.seq, a.error, p)'
  <2>1. a.seq \in Seqs
    BY <1>2, Sender DEF Inv, ReplyInv
  <2>2. a.error = "none" => a.args = a.seq /\ GoodBody(a.seq, a.body)
    BY <1>2 DEF Inv, ReplyInv, AnswerInv
  <2>3. ReplyTo(a.seq, a.error, p)
    BY <1>2, <1>4, <2>2 DEF ReplyTo
  <2> QED
    BY <2>1, <2>3, GoodStays
<1>7. ASSUME NEW k \in 1 .. n + 1 PROVE PartGood(k)'
  <2>1. CASE k = n + 1
    <3>1. Responded'[k].part # "header"
      BY <1>4, <1>5, <2>1
    <3> QED
      BY <3>1 DEF PartGood
  <2>2. CASE k \in 1 .. n
    BY <1>1, <1>5, <2>2, PartStays
  <2> QED
    BY <2>1, <2>2, SMTT(30)
<1>8. n > 0 => Responded[n].part = "header" /\ Responded[n].seq = a.seq /\ Responded[n].info = a.error
  BY <1>0, <1>1, <1>2 DEF ResponseEnd
<1>9. n = 0 => rcv.at # "header" /\ (rcv.at = "body" => rcv.seq = a.seq /\ rcv.error = a.error)
  BY <1>0, <1>1, <1>2, <1>3, SMTT(30) DEF ResponseEnd
<1>10. ASSUME NEW k \in 1 .. n PROVE FrameGood(k)'
  <2>1. CASE k = n
    <3>1. /\ Responded'[k].part = "header" /\ Responded'[k].seq = a.seq /\ Responded'[k].info = a.error
          /\ Responded'[k + 1] = p /\ p.part = "body"
      BY <1>4, <1>5, <1>8, <2>1, SMTT(30)
    <3> QED
      BY <1>6, <3>1 DEF FrameGood, ReplyTo, GoodBody, KindOf
  <2>2. CASE k \in 1 .. n - 1
    <3>1. k \in 1 .. Len(Responded) - 1 /\ Responded'[k] = Responded[k] /\ Responded'[k + 1] = Responded[k + 1]
      BY <1>1, <1>5, <2>2, SMTT(30)
    <3> QED
      BY <3>1, FrameStays
  <2> QED
    BY <2>1, <2>2, SMTT(30)
<1>11. ResponseFrames'
  <2>1. n > 0 => Responded'[1] = Responded[1]
    BY <1>5, SMTT(30)
  <2>2. n > 0 /\ rcv.at = "header" => Responded[1].part = "header"
    BY <1>0, <1>1 DEF ResponseFrames
  <2>3. rcv.at = "body" => GoodHeader(rcv.seq, rcv.error)'
    BY HeadStays
  <2>4. ASSUME rcv.at = "body" PROVE ReplyTo(rcv.seq, rcv.error, Responded[1])'
    <3>1. CASE n > 0
      BY <1>1, <2>1, <2>4, <3>1, HeadStays
    <3>2. CASE n = 0
      <4>1. rcv'.seq = a.seq /\ rcv'.error = a.error /\ Responded'[1] = p
        BY <1>5, <1>9, <2>4, <3>2, SMTT(30)
      <4> QED
        BY <1>6, <4>1 DEF ReplyTo, GoodBody, KindOf
    <3> QED
      BY <3>1, <3>2, SMTT(30)
  <2>5. \A k \in 1 .. Len(Responded') - 1 : FrameGood(k)'
    BY <1>5, <1>10, SMTT(30)
  <2>6. n = 0 \/ n > 0
    BY SMTT(30)
  <2> QED
    BY <1>9, <2>1, <2>2, <2>3, <2>4, <2>5, <2>6 DEF ResponseFrames, FrameGood
<1>12. ResponseEnd'
  <2>1. sendLock' = {}
    BY <1>3 DEF AfterSending
  <2>2. LockInv'
    BY ServerStep DEF ServerInv
  <2>3. Responded'[Len(Responded')].part = "body" /\ Len(Responded') > 0
    BY <1>4, <1>5, SMTT(30)
  <2> QED
    BY <2>1, <2>2, <2>3, SMTT(30) DEF ResponseEnd, LockInv
<1>13. ResponseParts'
  BY <1>5, <1>7 DEF ResponseParts, PartGood
<1> QED
  BY <1>11, <1>12, <1>13

LEMMA SendsReplies ==
  ASSUME Inv, [Next]_vars, NEW t \in Threads, Sends(t)
  PROVE  ResponseParts' /\ ResponseFrames' /\ ResponseEnd'
<1>0. UNCHANGED <<answer, rcv>> /\ at[t] \in {"lock", "writing"}
  BY DEF Sends, RespondStep, RespondHeader, RespondBody, clientVars
<1>1. /\ answer[t] \in [seq : Seqs \cup {0}, error : ServerErrors, body : KindSet \cup {"invalid"}, args : Seqs \cup {0}]
      /\ answer[t].seq \in Seqs
  BY <1>0, Sender DEF Inv, ReplyInv, Types, ServerTypes
<1>2. ASSUME Responded' = Responded, ~ Heard("server")' PROVE ResponseParts' /\ ResponseFrames' /\ ResponseEnd'
  BY <1>0, <1>2, ResponsesKept
<1>3. CASE FlushFails("server") \/ WriteFails("server") \/ (CloseEnd("server") /\ UNCHANGED <<lost, stream, broken>>)
  <2>1. DOMAIN open = Ends /\ DOMAIN broken = Ends
    BY DEF Inv, Types, WireTypes
  <2>2. Responded' = Responded /\ ~ Heard("server")'
    BY <1>3, <2>1 DEF FlushFails, WriteFails, CloseEnd, Responded, Heard, Ends
  <2> QED
    BY <1>2, <2>2
<1>4. CASE /\ at[t] = "lock" /\ sendLock = {} /\ Moves(t, "writing") /\ sendLock' = {t}
           /\ Passes("server", [part |-> "header", seq |-> answer[t].seq, info |-> answer[t].error])
  <2>1. PICK p \in ServerPart : /\ p.part = "header" /\ p.seq = answer[t].seq /\ p.info = answer[t].error
                                /\ Passes("server", p)
    <3>1. [part |-> "header", seq |-> answer[t].seq, info |-> answer[t].error] \in ServerPart
      BY <1>1 DEF ServerPart
    <3> QED
      BY <1>4, <3>1
  <2>2. CASE Heard("server")
    BY <1>0, <1>4, <2>1, <2>2, ResponseHeader
  <2>3. CASE ~ Heard("server")
    BY <1>2, <2>1, <2>3, ResponsePassed DEF Inv
  <2> QED
    BY <2>2, <2>3
<1>5. CASE /\ at[t] = "writing" /\ AfterSending(t) /\ answer[t].body # "noreply"
           /\ Passes("server", [part |-> "body", seq |-> answer[t].args, info |-> answer[t].body])
  <2>1. PICK p \in ServerPart : /\ p.part = "body" /\ p.seq = answer[t].args /\ p.info = answer[t].body
                                /\ Passes("server", p)
    <3>1. [part |-> "body", seq |-> answer[t].args, info |-> answer[t].body] \in ServerPart
      BY <1>1 DEF ServerPart
    <3> QED
      BY <1>5, <3>1
  <2>2. CASE Heard("server")
    BY <1>0, <1>5, <2>1, <2>2, ResponseBody
  <2>3. CASE ~ Heard("server")
    BY <1>2, <2>1, <2>3, ResponsePassed DEF Inv
  <2> QED
    BY <2>2, <2>3
<1> QED
  BY <1>3, <1>4, <1>5 DEF Sends, RespondStep, RespondHeader, RespondBody

(* The other steps of the server leave the goroutines that write alone. *)
LEMMA ServerReplies ==
  ASSUME Inv, [Next]_vars, OptionRead \/ LoopGoes \/ \E r \in Requests : Handles(r)
  PROVE  ResponseParts' /\ ResponseFrames' /\ ResponseEnd'
<1>0. /\ DOMAIN at = Threads /\ DOMAIN answer = Threads /\ DOMAIN stream = Ends /\ Loop \in Threads
      /\ \A r \in Requests : Handler(r) \in Threads /\ Runner(r) \in Threads
  BY ThreadNames DEF Inv, Types, ServerTypes, WireTypes
<1>1. UNCHANGED <<rcv, sendLock>>
  BY DEF OptionRead, ReadOption, LoopGoes, LoopStep, ReadRequestHeader, ReadBody, ReadFailsServer, CloseCodec, Handles,
         RequestStep, MethodReturns, Called, HandleTimeout, clientVars
<1>2. Responded' = Responded
  BY <1>0 DEF OptionRead, ReadOption, LoopGoes, LoopStep, ReadRequestHeader, ReadBody, ReadFailsServer, CloseCodec, Handles,
              RequestStep, MethodReturns, Called, HandleTimeout, Consume, Peer, Responded, Ends, wireVars
<1>3. ASSUME NEW t \in Threads, at'[t] = "writing" PROVE at[t] = "writing" /\ answer'[t] = answer[t]
  <2>1. CASE OptionRead \/ ReadRequestHeader \/ CloseCodec
    BY <1>0, <1>3, <2>1 DEF OptionRead, ReadOption, ReadRequestHeader, CloseCodec, Moves
  <2>2. CASE ReadBody
    BY <1>0, <1>3, <2>2 DEF ReadBody, Moves, Responds
  <2>3. CASE ReadFailsServer
    BY <1>0, <1>3, <2>3 DEF ReadFailsServer, Moves, Responds
  <2>4. ASSUME NEW r \in Requests, Handles(r) PROVE at[t] = "writing" /\ answer'[t] = answer[t]
    BY <1>0, <1>3, <2>4 DEF Handles, RequestStep, MethodReturns, Called, HandleTimeout, Moves, Responds
  <2> QED
    BY <2>1, <2>2, <2>3, <2>4 DEF LoopGoes, LoopStep
<1> QED
  BY <1>1, <1>2, <1>3, ResponsesKept

LEMMA DialsReplies ==
  ASSUME Inv, [Next]_vars, Dials
  PROVE  ResponseParts' /\ ResponseFrames' /\ ResponseEnd'
<1>0. UNCHANGED <<at, answer, sendLock>> /\ DOMAIN stream = Ends
  BY DEF Dials, serverVars, Inv, Types, WireTypes
<1>1. CASE UNCHANGED <<stream, rcv>>
  BY <1>0, <1>1, ResponsesKept DEF Responded
<1>2. CASE maker = "making" /\ Passes("client", Part("option", 0, "option")) /\ rcv' = [rcv EXCEPT !.at = "header"]
  <2>1. Responded' = Responded /\ Responded = <<>>
    BY <1>0, <1>2 DEF Passes, Peer, Responded, Ends, Inv, WireInv, LoopInv
  <2>2. Len(Responded) = 0 /\ rcv'.at = "header"
    BY <1>2, <2>1 DEF Inv, Types, DoneTypes
  <2>3. sendLock = {} /\ \A t \in Threads : at[t] # "writing"
    BY <1>2, NothingAnswered DEF Inv, ServerInv, LockInv, Types, ServerTypes
  <2>4. ResponseParts' /\ ResponseFrames'
    BY <2>1, <2>2, SMTT(30) DEF ResponseParts, ResponseFrames
  <2>5. ResponseEnd'
    BY <1>0, <2>1, <2>2, <2>3, SMTT(30) DEF ResponseEnd
  <2> QED
    BY <2>4, <2>5
<1> QED
  BY <1>1, <1>2 DEF Dials, NewClient, DialTakes, DialTimesOut, wireVars

LEMMA ResponseStep ==
  ASSUME Inv, [Next]_vars
  PROVE  ResponseParts' /\ ResponseFrames' /\ ResponseEnd'
<1>1. CASE UserCloses \/ NetworkFails \/ UNCHANGED vars
  <2>1. UNCHANGED <<rcv, stream, at, answer, sendLock>>
    BY <1>1 DEF UserCloses, Close, NetworkFails, Lose, vars, clientVars, serverVars, wireVars
  <2> QED
    BY <2>1, ResponsesKept DEF Responded
<1>2. ASSUME NEW c \in Calls, CallGoes(c) PROVE ResponseParts' /\ ResponseFrames' /\ ResponseEnd'
  <2>1. UNCHANGED <<rcv, at, answer, sendLock>>
    BY <1>2 DEF CallGoes, CallStep, Send, WriteHeader, WriteBody, TakeDone, ContextDone, Sent, SendError, serverVars
  <2>2. Responded' = Responded
    <3>1. (\E p : Passes("client", p)) \/ UNCHANGED stream
      BY <1>2 DEF CallGoes, CallStep, Send, WriteHeader, WriteBody, TakeDone, ContextDone, FlushFails, WriteFails, wireVars
    <3> QED
      BY <3>1 DEF Passes, Peer, Responded, Inv, Types, WireTypes, Ends
  <2> QED
    BY <2>1, <2>2, ResponsesKept
<1> QED
  BY <1>1, <1>2, SendsReplies, ServerReplies, DialsReplies, ReceivesReplies DEF Next

-----------------------------------------------------------------------------
(* What Call returns. *)

LEMMA OutcomesGood ==
  ASSUME Inv, [Next]_vars,
         \A c \in Calls :
           /\ dones'[c] > 0 => (dones[c] > 0 /\ outcome'[c] = outcome[c]) \/ (cpc[c] # "start" /\ MayReturn(c, outcome'[c]))
                               \/ MayReturn(c, outcome[c])'
           /\ cpc'[c] = "returned" =>
                (cpc[c] = "returned" /\ returned'[c] = returned[c]) \/ (cpc[c] # "start" /\ MayReturn(c, returned'[c]))
  PROVE  OutcomeInv'
<1>1. ASSUME NEW c \in Calls, cpc[c] # "start" PROVE callSeq'[c] = callSeq[c]
  <2>1. CASE UNCHANGED callSeq
    BY <2>1
  <2>2. ASSUME NEW d \in Calls, Send(d) PROVE callSeq'[c] = callSeq[c]
    BY <1>1, <2>2 DEF Send, registerCall, Inv, Types, CallTypes
  <2> QED
    BY <2>1, <2>2 DEF Next, vars, clientVars, callVars, CallGoes, CallStep, WriteHeader, WriteBody, TakeDone, ContextDone, Sent,
         SendError, Dials, NewClient, DialTakes, DialTimesOut, Receives, Receive, ReceiveHeader, ReceiveBody, ReceiveFails,
         UserCloses, Close, OptionRead, LoopGoes, Handles, Sends, NetworkFails
<1>2. ASSUME NEW c \in Calls, NEW o, cpc[c] # "start", MayReturn(c, o) PROVE MayReturn(c, o)'
  <2>1. callSeq'[c] = callSeq[c] /\ kind' = kind /\ opt' = opt
    BY <1>1, <1>2, NumbersStay
  <2> QED
    BY <1>2, <2>1, FailedStays DEF MayReturn
<1>3. ASSUME NEW c \in Calls PROVE /\ dones[c] > 0 => cpc[c] # "start" /\ MayReturn(c, outcome[c])
                                   /\ cpc[c] = "returned" => MayReturn(c, returned[c])
  BY SMTT(30) DEF Inv, ClientInv, CallInv, ReplyInv, OutcomeInv
<1>4. ASSUME NEW c \in Calls, dones'[c] > 0 PROVE MayReturn(c, outcome[c])'
  <2>1. CASE MayReturn(c, outcome[c])'
    BY <2>1
  <2>2. CASE ~ MayReturn(c, outcome[c])'
    <3>1. PICK o : o = outcome'[c]
      OBVIOUS
    <3>2. cpc[c] # "start" /\ MayReturn(c, o)
      BY <1>3, <1>4, <2>2, <3>1
    <3>3. MayReturn(c, o)'
      BY <1>2, <3>2
    <3> QED
      BY <3>1, <3>3 DEF MayReturn
  <2> QED
    BY <2>1, <2>2
<1>5. ASSUME NEW c \in Calls, cpc'[c] = "returned" PROVE MayReturn(c, returned[c])'
  <2>1. PICK o : o = returned'[c]
    OBVIOUS
  <2>2. cpc[c] # "start" /\ MayReturn(c, o)
    BY <1>3, <1>5, <2>1
  <2>3. MayReturn(c, o)'
    BY <1>2, <2>2
  <2> QED
    BY <2>1, <2>3 DEF MayReturn
<1> QED
  BY <1>4, <1>5 DEF OutcomeInv

(* Write failed. *)
LEMMA SendErrorOutcome ==
  ASSUME Inv, [Next]_vars, NEW c \in Calls, cpc[c] # "start", SendError(c), ~ open'["client"]
  PROVE  OutcomeInv'
<1>1. ASSUME NEW d \in Calls, d \in Pending(callSeq[c])
      PROVE  MayReturn(d, outcome[d])'
  <2>1. outcome'[d] = [error |-> "write", reply |-> 0]
    BY <1>1 DEF SendError, Finish
  <2>2. outcome'[d].error = "write"
    BY <2>1, SMTT(30)
  <2> QED
    BY <2>2 DEF MayReturn
<1>2. \A d \in Calls : d \notin Pending(callSeq[c]) => dones'[d] = dones[d] /\ outcome'[d] = outcome[d]
  BY DEF SendError, Finish
<1>3. returned' = returned /\ \A d \in Calls : cpc'[d] = "returned" => cpc[d] = "returned"
  BY DEF SendError, Inv, Types, CallTypes
<1> QED
  BY <1>1, <1>2, <1>3, OutcomesGood

LEMMA CallGoesOutcome ==
  ASSUME Inv, [Next]_vars, NEW c \in Calls, CallGoes(c)
  PROVE  OutcomeInv'
<1>0. /\ DOMAIN cpc = Calls /\ DOMAIN outcome = Calls /\ DOMAIN returned = Calls
      /\ DOMAIN open = Ends
  BY DEF Inv, Types, CallTypes, DoneTypes, WireTypes
<1>1. CASE UNCHANGED <<dones, outcome, returned>> /\ \A d \in Calls : cpc'[d] = "returned" => cpc[d] = "returned"
  BY <1>1, OutcomesGood
<1>2. CASE Send(c)
  <2>1. CASE closing
    <3>1. /\ outcome'[c] = [error |-> "shutdown", reply |-> 0] /\ callSeq' = callSeq /\ closing' = closing /\ callSeq[c] = 0
          /\ cpc'[c] = "wait"
      BY <1>0, <1>2, <2>1 DEF Send, Finish, Inv, ClientInv, CallInv
    <3>2. outcome'[c].error = "shutdown"
      BY <3>1, SMTT(30)
    <3>3. MayReturn(c, outcome[c])'
      BY <2>1, <3>1, <3>2 DEF MayReturn
    <3>4. \A d \in Calls : d # c => dones'[d] = dones[d] /\ outcome'[d] = outcome[d]
      BY <1>2, <2>1 DEF Send, Finish
    <3>5. returned' = returned /\ \A d \in Calls : cpc'[d] = "returned" => cpc[d] = "returned"
      BY <1>0, <1>2, <2>1 DEF Send
    <3> QED
      BY <3>3, <3>4, <3>5, OutcomesGood
  <2>2. CASE ~ closing
    BY <1>0, <1>1, <1>2, <2>2 DEF Send
  <2> QED
    BY <2>1, <2>2
<1>3. CASE WriteHeader(c) \/ WriteBody(c)
  <2>1. cpc[c] # "start"
    BY <1>3 DEF WriteHeader, WriteBody
  <2>2. CASE SendError(c) /\ (WriteFails("client") \/ CloseEnd("client"))
    <3>1. ~ open'["client"]
      BY <1>0, <2>2 DEF WriteFails, CloseEnd, Ends
    <3> QED
      BY <2>1, <2>2, <3>1, SendErrorOutcome
  <2>3. CASE UNCHANGED <<dones, outcome, returned>> /\ cpc' = [cpc EXCEPT ![c] = "body"]
    BY <1>0, <1>1, <2>3
  <2>4. CASE Sent(c)
    BY <1>0, <1>1, <2>4 DEF Sent
  <2> QED
    BY <1>3, <2>2, <2>3, <2>4 DEF WriteHeader, WriteBody
<1>4. CASE TakeDone(c)
  <2>1. /\ cpc[c] # "start" /\ MayReturn(c, outcome[c]) /\ returned'[c] = outcome[c]
        /\ UNCHANGED <<dones, outcome>>
    BY <1>0, <1>4 DEF TakeDone, Inv, ReplyInv, OutcomeInv
  <2>2. \A d \in Calls : d # c => cpc'[d] = cpc[d] /\ returned'[d] = returned[d]
    BY <1>0, <1>4 DEF TakeDone
  <2> QED
    BY <2>1, <2>2, OutcomesGood
<1>5. CASE ContextDone(c)
  <2>1. /\ cpc[c] # "start" /\ returned'[c] = [error |-> "context", reply |-> 0] /\ c \in Timed /\ UNCHANGED <<dones, outcome>>
    BY <1>0, <1>5 DEF ContextDone
  <2>2. returned'[c].error = "context"
    BY <2>1, SMTT(30)
  <2>3. MayReturn(c, returned'[c])
    BY <2>1, <2>2 DEF MayReturn
  <2>4. \A d \in Calls : d # c => cpc'[d] = cpc[d] /\ returned'[d] = returned[d]
    BY <1>0, <1>5 DEF ContextDone
  <2> QED
    BY <2>1, <2>3, <2>4, OutcomesGood
<1> QED
  BY <1>2, <1>3, <1>4, <1>5 DEF CallGoes, CallStep

(* The call that the receive goroutine holds, with what it reads. *)
LEMMA ReceivedOutcome ==
  ASSUME Inv, rcv.at = "body", NEW c \in rcv.calls
  PROVE  /\ c \in Calls /\ cpc[c] # "start" /\ callSeq[c] = rcv.seq
         /\ rcv.error # "none" => \A r : MayReturn(c, [error |-> rcv.error, reply |-> r])
         /\ rcv.error = "none" /\ CanRead("client") => MayReturn(c, BodyOutcome(NextPart("client")))
<1>1. c \in Calls /\ cpc[c] # "start" /\ callSeq[c] = rcv.seq /\ rcv.error \in ServerErrors /\ kind[c] \in KindSet
  BY DEF Inv, Types, DialTypes, DoneTypes, ClientInv, HeldInv
<1>2. GoodHeader(callSeq[c], rcv.error)
  BY <1>1 DEF Inv, ReplyInv, ResponseFrames
<1>3. ASSUME rcv.error # "none", NEW r PROVE MayReturn(c, [error |-> rcv.error, reply |-> r])
  <2>1. /\ rcv.error = "service" => kind[c] = "fails"
        /\ rcv.error = "request" => kind[c] = "badargs"
        /\ rcv.error = "timeout" => opt.handleLimit
    BY <1>1, <1>2, KindOfCall DEF GoodHeader, Inv
  <2> QED
    BY <1>1, <1>3, <2>1 DEF MayReturn, ServerErrors
<1>4. ASSUME rcv.error = "none", CanRead("client") PROVE MayReturn(c, BodyOutcome(NextPart("client")))
  <2>1. Responded \in Seq(ServerPart) /\ Responded # <<>> /\ NextPart("client") = Head(Responded)
    BY <1>4 DEF CanRead, NextPart, Peer, Responded, Inv, Types, WireTypes
  <2>2. PICK p : p = NextPart("client") /\ p = Responded[1] /\ Len(Responded) > 0
    BY <2>1, PopSeq, SMTT(30)
  <2>3. p.part = "body" /\ p.seq = callSeq[c] /\ GoodBody(callSeq[c], p.info) /\ p.info # "noreply"
    BY <1>1, <1>4, <2>2 DEF Inv, ReplyInv, ResponseFrames, ReplyTo
  <2>4. kind[c] \notin {"fails", "unknown", "badargs", "noencode", "noreply"}
    BY <1>1, <2>3, KindOfCall DEF GoodBody, Inv
  <2>5. \A d \in rcv.calls : d = c
    BY <1>1 DEF Inv, Types, DoneTypes, ClientInv, HeldInv, Numbered
  <2>6. PICK o : o = BodyOutcome(p)
    OBVIOUS
  <2>9. /\ kind[c] = "badreply" => o = [error |-> "reading", reply |-> 0]
        /\ kind[c] # "badreply" => o = [error |-> "none", reply |-> p.seq]
    BY <1>4, <2>3, <2>5, <2>6 DEF BodyOutcome
  <2>7. CASE kind[c] = "badreply"
    <3>1. o.error = "reading"
      BY <2>7, <2>9, SMTT(30)
    <3>2. MayReturn(c, o)
      BY <2>7, <3>1 DEF MayReturn
    <3> QED
      BY <2>2, <2>6, <3>2
  <2>8. CASE kind[c] # "badreply"
    <3>1. kind[c] = "ok"
      BY <1>1, <2>4, <2>8 DEF KindSet
    <3>2. o.error = "none" /\ o.reply = callSeq[c]
      <4>1. o = [error |-> "none", reply |-> p.seq]
        BY <2>8, <2>9
      <4>2. o.error = "none" /\ o.reply = p.seq
        BY <4>1
      <4> QED
        BY <2>3, <4>2
    <3>3. MayReturn(c, o)
      BY <3>1, <3>2 DEF MayReturn
    <3> QED
      BY <2>2, <2>6, <3>3
  <2> QED
    BY <2>7, <2>8
<1> QED
  BY <1>1, <1>3, <1>4

LEMMA ReceivesOutcome ==
  ASSUME Inv, [Next]_vars, Receives
  PROVE  OutcomeInv'
<1>0. UNCHANGED <<cpc, returned>>
  BY DEF Receives, Receive, ReceiveHeader, ReceiveBody, ReceiveFails
<1>1. CASE ReceiveHeader
  BY <1>0, <1>1, OutcomesGood DEF ReceiveHeader
<1>2. ASSUME NEW o, Finish(rcv.calls, o), \A c \in rcv.calls : cpc[c] # "start" /\ MayReturn(c, o) PROVE OutcomeInv'
  <2>1. \A c \in Calls : IF c \in rcv.calls THEN outcome'[c] = o ELSE dones'[c] = dones[c] /\ outcome'[c] = outcome[c]
    BY <1>2 DEF Finish
  <2> QED
    BY <1>0, <1>2, <2>1, OutcomesGood
<1>3. rcv.at # "body" => rcv.calls = {}
  BY DEF Inv, ClientInv, HeldInv
<1>4. CASE ReceiveBody
  <2>1. Finish(rcv.calls, BodyOutcome(NextPart("client"))) /\ rcv.at = "body" /\ CanRead("client")
    BY <1>4 DEF ReceiveBody
  <2>2. ASSUME NEW c \in rcv.calls PROVE cpc[c] # "start" /\ MayReturn(c, BodyOutcome(NextPart("client")))
    <3>1. CASE rcv.error = "none"
      BY <2>1, <3>1, ReceivedOutcome
    <3>2. CASE rcv.error # "none"
      BY <2>1, <3>2, ReceivedOutcome DEF BodyOutcome
    <3> QED
      BY <3>1, <3>2
  <2> QED
    BY <1>2, <2>1, <2>2
<1>5. CASE ReceiveFails
  <2>1. PICK o : /\ o = [error |-> IF rcv.error # "none" THEN rcv.error ELSE "reading", reply |-> 0]
                 /\ Finish(rcv.calls, o)
    BY <1>5 DEF ReceiveFails
  <2>2. ~ open["client"] \/ ~ open["server"] \/ lost
    BY <1>5 DEF ReceiveFails, ReadFails, Peer
  <2>3. ASSUME NEW c \in rcv.calls PROVE cpc[c] # "start" /\ MayReturn(c, o)
    <3>1. rcv.at = "body"
      BY <1>3
    <3>2. CASE rcv.error = "none"
      <4>1. o.error = "reading"
        BY <2>1, <3>2
      <4> QED
        BY <2>2, <3>1, <4>1, ReceivedOutcome DEF MayReturn
    <3>3. CASE rcv.error # "none"
      BY <2>1, <3>1, <3>3, ReceivedOutcome
    <3> QED
      BY <3>2, <3>3
  <2> QED
    BY <1>2, <2>1, <2>3
<1> QED
  BY <1>1, <1>4, <1>5 DEF Receives, Receive

LEMMA OutcomeStep ==
  ASSUME Inv, [Next]_vars
  PROVE  OutcomeInv'
<1>1. CASE UNCHANGED <<cpc, returned, dones, outcome>>
  BY <1>1, OutcomesGood
<1> QED
  BY <1>1, CallGoesOutcome, ReceivesOutcome
  DEF Next, vars, clientVars, callVars, Dials, NewClient, DialTakes, DialTimesOut, UserCloses, Close, OptionRead, LoopGoes, Handles, Sends,
      NetworkFails

-----------------------------------------------------------------------------
(* Theorems. *)

(***************************************************************************)
(* The inductive invariant holds in every state of GeeRPC, whatever the    *)
(* number of calls, their kinds and the faults: every step of client.go,   *)
(* server.go and codec/gob.go preserves it.                                *)
(***************************************************************************)
THEOREM Invariance == Spec => []Inv
<1>1. Inv /\ [Next]_vars => Inv'
  <2> SUFFICES ASSUME Inv, [Next]_vars PROVE Inv'
    OBVIOUS
  <2>1. ReplyInv'
    BY AskedStep, AnswerStep, ResponseStep, OutcomeStep DEF ReplyInv
  <2> QED
    BY <2>1, TypesStep, FlagsStep, ClientStep, WireStep, ServerStep DEF Inv
<1> QED
  BY <1>1, InitInv, PTL DEF Spec

(* Types are kept: every variable of the client, the server and the wire stays in its type. *)
THEOREM TypeCorrect == Spec => []TypeOK
<1>1. Inv => TypeOK
  <2> SUFFICES ASSUME Inv PROVE TypeOK
    OBVIOUS
  <2>1. ClientPart \subseteq PartSet /\ ServerPart \subseteq PartSet
    BY DEF ClientPart, ServerPart, PartSet, Errors, ServerErrors, KindSet
  <2>2. stream["client"] \in Seq(PartSet) /\ stream["server"] \in Seq(PartSet) /\ stream = [e \in Ends |-> stream[e]]
    <3>1. \A S, T : S \subseteq T => Seq(S) \subseteq Seq(T)
      BY SMTT(30)
    <3> QED
      BY <2>1, <3>1 DEF Inv, Types, WireTypes
  <2>3. stream \in [Ends -> Seq(PartSet)]
    BY <2>2 DEF Ends
  <2>4. seq \in Nat \ {0}
    BY DEF Inv, Types, CallTypes
  <2>5. ServerErrors \subseteq Errors
    BY DEF ServerErrors, Errors
  <2>6. outcome \in [Calls -> [error : Errors, reply : Seqs \cup {0}]] /\ returned \in [Calls -> [error : Errors, reply : Seqs \cup {0}]]
    BY DEF Inv, Types, DoneTypes, Outcomes
  <2>7. rcv \in [at : {"off", "header", "body", "ended"}, seq : Seqs \cup {0}, error : Errors, calls : SUBSET Calls]
    BY <2>5 DEF Inv, Types, DoneTypes
  <2>8. answer \in [Threads -> [seq : Seqs \cup {0}, error : Errors, body : KindSet \cup {"invalid"}, args : Seqs \cup {0}]]
    BY <2>5 DEF Inv, Types, ServerTypes
  <2> QED
    BY <2>3, <2>4, <2>6, <2>7, <2>8 DEF TypeOK, Inv, Types, Flags, DialTypes, CallTypes, DoneTypes, ServerTypes, WireTypes
<1> QED
  BY <1>1, Invariance, PTL

(***************************************************************************)
(* What Call returns is what happened to this very call (client.go:120,    *)
(* 143): for every interleaving of calls, requests and responses, and for  *)
(* every fault of the connection.                                          *)
(***************************************************************************)
THEOREM OutcomesAreOwn == Spec => []ReturnsOwnOutcome
<1>1. Inv => ReturnsOwnOutcome
  <2> SUFFICES ASSUME Inv, NEW c \in Calls, cpc[c] = "returned" PROVE Justified(c)
    BY DEF ReturnsOwnOutcome
  <2>1. MayReturn(c, returned[c]) /\ returned[c].error \in Errors
    BY DEF Inv, ReplyInv, OutcomeInv, Types, DoneTypes, Outcomes
  <2> QED
    BY <2>1 DEF MayReturn, Justified, Errors
<1> QED
  BY <1>1, Invariance, PTL

(* pending has exactly the calls that wait for an outcome (client.go:185). *)
THEOREM PendingAlwaysExact == Spec => []PendingExact
<1>1. Inv => PendingExact
  BY DEF Inv, ClientInv, PendingExact
<1> QED
  BY <1>1, Invariance, PTL

(* done() is called at most once for a call, so that it never blocks (client.go:28). *)
THEOREM DoneAtMostOnce == Spec => []DoneOnce
<1>1. Inv => DoneOnce
  BY DEF Inv, ClientInv, CallInv, DoneOnce
<1> QED
  BY <1>1, Invariance, PTL

(* The time limit and the method never both respond to a request (server.go:204). *)
THEOREM AtMostOneResponse == Spec => []OneResponse
<1>1. Inv => OneResponse
  BY DEF Inv, ServerInv, HandlerInv, OneResponse
<1> QED
  BY <1>1, Invariance, PTL

(* In both directions headers and bodies alternate (server.go:106, client.go:143). *)
THEOREM FramesAlwaysWhole == Spec => []FramesWhole
<1>1. Inv => FramesWhole
  BY SMTT(30) DEF Inv, WireInv, RequestFrames, ReplyInv, ResponseFrames, FramesWhole, Requested, Responded, Ends
<1> QED
  BY <1>1, Invariance, PTL

(***************************************************************************)
(* serveCodec closes the connection only when every request it accepted    *)
(* has been responded to and no response is being written (server.go:131). *)
(***************************************************************************)
THEOREM AllAnsweredBeforeClose == Spec => []AnsweredBeforeClose
<1>1. Inv => AnsweredBeforeClose
  <2> SUFFICES ASSUME Inv, Loops("closed")
               PROVE  (\A r \in Requests : asked[r].args # 0 => responses[r] = 1) /\ sendLock = {}
    BY DEF AnsweredBeforeClose, Loops
  <2>1. ASSUME NEW r \in Requests
        PROVE  /\ asked[r].args # 0 => responses[r] = 1
               /\ at[Handler(r)] # "writing" /\ at[Runner(r)] # "writing"
    <3>1. at[Handler(r)] \in {"none", "done"} /\ HandlerInv(r)
      BY DEF Inv, ServerInv, HandlerInv
    <3>2. CASE at[Handler(r)] = "none"
      BY <3>1, <3>2 DEF HandlerInv
    <3>3. CASE at[Handler(r)] = "done"
      <4>1. at[Runner(r)] \in {"running", "called", "done"} /\ responses[r] = 1
        BY <3>1, <3>3 DEF HandlerInv
      <4> QED
        BY <3>3, <4>1
    <3> QED
      BY <3>1, <3>2, <3>3
  <2>2. at[Loop] # "writing" /\ sendLock \subseteq Threads
    BY DEF Loops, Inv, Types, ServerTypes
  <2>3. sendLock = {}
    BY <2>1, <2>2, ThreadNames, SMTT(30) DEF Inv, ServerInv, LockInv
  <2> QED
    BY <2>1, <2>3
<1> QED
  BY <1>1, Invariance, PTL

(* dialTimeout that returns no client has closed the connection (client.go:248). *)
THEOREM FailedDialAlwaysCloses == Spec => []FailedDialCloses
<1>1. Init => FailedDialCloses
  BY DEF Init, ClientInit, FailedDialCloses
<1>2. Inv /\ FailedDialCloses /\ [Next]_vars => FailedDialCloses'
  <2> SUFFICES ASSUME Inv, FailedDialCloses, [Next]_vars PROVE FailedDialCloses'
    OBVIOUS
  <2>1. CASE UNCHANGED dialer
    BY <2>1, FailedStays DEF FailedDialCloses
  <2>2. CASE Dials
    <3>1. DOMAIN open = Ends
      BY DEF Inv, Types, WireTypes
    <3>2. CASE DialTakes \/ DialTimesOut
      BY <3>1, <3>2 DEF DialTakes, DialTimesOut, CloseEnd, FailedDialCloses, Ends
    <3>3. CASE NewClient
      BY <2>1, <3>3 DEF NewClient
    <3> QED
      BY <2>2, <3>2, <3>3 DEF Dials
  <2> QED
    BY <2>1, <2>2 DEF Next, vars, clientVars, CallGoes, CallStep, Send, WriteHeader, WriteBody, TakeDone, ContextDone, Sent,
         SendError, Receives, Receive, ReceiveHeader, ReceiveBody, ReceiveFails, UserCloses, Close, OptionRead, LoopGoes, Handles,
         Sends, NetworkFails
<1> QED
  BY <1>1, <1>2, Invariance, PTL DEF Spec

=============================================================================
