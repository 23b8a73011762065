------------------------------- MODULE GeeRPC -------------------------------
(***************************************************************************)
(* GeeRPC: a client and a server at the two ends of one connection.        *)
(***************************************************************************)
EXTENDS GeeClient, GeeServer

CONSTANT
  Faults   \* what may go wrong: "lose" (the network), "close" (the user closes
           \* the client at any time), "early" (calls are made before the server
           \* has read the option; main.go sleeps for a second to avoid it)

ASSUME RequestsAssumption == Requests = Seqs
ASSUME FaultsAssumption   == Faults \subseteq {"lose", "close", "early"}

vars == <<clientVars, serverVars, wireVars>>

Init == ClientInit /\ ServerInit /\ WireInit

Started(c) == "early" \in Faults \/ cpc[c] # "start" \/ at[Loop] # "option"

CallGoes(c)   == Started(c) /\ CallStep(c) /\ UNCHANGED serverVars
Dials         == (NewClient \/ DialTakes \/ DialTimesOut) /\ UNCHANGED serverVars
Receives      == Receive /\ UNCHANGED serverVars
UserCloses    == "close" \in Faults /\ Close /\ UNCHANGED serverVars
OptionRead    == ReadOption(opt.handleLimit) /\ UNCHANGED clientVars
LoopGoes      == LoopStep /\ UNCHANGED clientVars
Handles(r)    == RequestStep(r) /\ UNCHANGED clientVars
Sends(t)      == RespondStep(t) /\ UNCHANGED clientVars
NetworkFails  == "lose" \in Faults /\ Lose /\ UNCHANGED <<clientVars, serverVars>>

Next ==
  \/ \E c \in Calls : CallGoes(c)
  \/ Dials \/ Receives \/ UserCloses
  \/ OptionRead \/ LoopGoes
  \/ \E r \in Requests : Handles(r)
  \/ \E t \in Threads : Sends(t)
  \/ NetworkFails

Spec == Init /\ [][Next]_vars

(***************************************************************************)
(* Goroutines are scheduled, locks are fair, methods return, a deadline    *)
(* passes.  The network need not fail and the user need not close.         *)
(***************************************************************************)
Fairness ==
  /\ \A c \in Calls : WF_vars(CallGoes(c))
  /\ WF_vars(Dials) /\ WF_vars(Receives)
  /\ WF_vars(OptionRead) /\ WF_vars(LoopGoes)
  /\ \A r \in Requests : WF_vars(Handles(r))
  /\ \A t \in Threads : WF_vars(Sends(t))

FairSpec == Spec /\ Fairness

-----------------------------------------------------------------------------
(* Properties. *)

Errors == {"none", "shutdown", "write", "context", "reading", "service", "timeout", "request"}

PartSet ==
  [part : {"option", "header", "body"}, seq : Seqs \cup {0},
   info : KindSet \cup Errors \cup {"option", "invalid"}]

\* The type invariant.
TypeOK ==
  /\ kind \in [Calls -> Kinds]
  /\ opt \in [codec : BOOLEAN, handleLimit : BOOLEAN]
  /\ dialer \in {"selecting", "ok", "failed"}
  /\ maker \in {"making", "offering", "done"} /\ made \in BOOLEAN
  /\ cpc \in [Calls -> {"start", "header", "body", "wait", "returned"}]
  /\ callSeq \in [Calls -> Seqs \cup {0}]
  /\ sending \subseteq Calls
  /\ header \in Seqs \cup {0} /\ seq \in Nat \ {0}
  /\ DOMAIN pending \subseteq Seqs /\ pending \in [DOMAIN pending -> Calls]
  /\ closing \in BOOLEAN
  /\ dones \in [Calls -> Nat]
  /\ outcome \in [Calls -> [error : Errors, reply : Seqs \cup {0}]]
  /\ returned \in [Calls -> [error : Errors, reply : Seqs \cup {0}]]
  /\ rcv \in [at : {"off", "header", "body", "ended"}, seq : Seqs \cup {0}, error : Errors,
              calls : SUBSET Calls]
  /\ at \in [Threads -> {"option", "none", "header", "body", "leaving", "closed", "select",
                         "running", "called", "lock", "writing", "sent", "done"}]
  /\ req \in [seq : Seqs \cup {0}, ask : KindSet \cup {"none"}]
  /\ answer \in [Threads -> [seq : Seqs \cup {0}, error : Errors,
                             body : KindSet \cup {"invalid"}, args : Seqs \cup {0}]]
  /\ asked \in [Requests -> [ask : KindSet \cup {"none"}, args : Seqs \cup {0}]]
  /\ garbled \in BOOLEAN /\ limited \in BOOLEAN
  /\ sendLock \subseteq Threads
  /\ responses \in [Requests -> Nat]
  /\ open \in [Ends -> BOOLEAN] /\ lost \in BOOLEAN /\ broken \in [Ends -> BOOLEAN]
  /\ stream \in [Ends -> Seq(PartSet)]

(***************************************************************************)
(* What Call returns is what happened to this very call: the reply is the  *)
(* one computed from its own arguments, an error has its cause in its own  *)
(* request, although requests and responses of all calls share one         *)
(* connection, one header and one receive goroutine (client.go:120, 143).  *)
(***************************************************************************)
Justified(c) ==
  CASE returned[c].error = "none"         -> kind[c] = "ok" /\ returned[c].reply = callSeq[c]
    [] returned[c].error = "service"      -> kind[c] = "fails"
    [] returned[c].error = "request"      -> kind[c] = "badargs"
    [] returned[c].error = "timeout"      -> opt.handleLimit
    [] returned[c].error = "shutdown"     -> closing /\ callSeq[c] = 0
    [] returned[c].error = "context"      -> c \in Timed
    [] returned[c].error = "write"        -> ~ open["client"]
    [] returned[c].error = "reading"      -> \/ kind[c] = "badreply" \/ lost
                                             \/ ~ open["client"] \/ ~ open["server"]

(* Call returns only what Justified allows. *)
ReturnsOwnOutcome == \A c \in Calls : cpc[c] = "returned" => Justified(c)

(***************************************************************************)
(* A call is done at most once, whoever finishes it (send, receive): the   *)
(* channel of Call has room for one, so a second done() would stop the     *)
(* receive goroutine for ever (client.go:28).                              *)
(***************************************************************************)
DoneOnce == \A c \in Calls : dones[c] <= 1

(* A pending call is registered under its own number and still waits. *)
PendingOwn ==
  \A s \in DOMAIN pending :
    LET c == pending[s] IN
    callSeq[c] = s /\ dones[c] = 0 /\ cpc[c] \in {"header", "body", "wait"}

(* A call in progress that is not done, nor about to be by the receive     *)
(* goroutine, is pending: its response finds it.                           *)
WaitingPending ==
  \A c \in Calls :
    cpc[c] \in {"header", "body", "wait"} /\ dones[c] = 0 /\ c \notin rcv.calls
      => callSeq[c] \in DOMAIN pending /\ pending[callSeq[c]] = c

(***************************************************************************)
(* pending has exactly the calls that are registered and still wait for an *)
(* outcome, each under its own number: no call leaks (client.go:185), and  *)
(* none that waits is missed when receive looks its response up            *)
(* (client.go:143).                                                        *)
(***************************************************************************)
PendingExact == PendingOwn /\ WaitingPending

(***************************************************************************)
(* A request gets at most one response, although the time limit and the    *)
(* method race for it (server.go:204).                                     *)
(***************************************************************************)
OneResponse == \A r \in Requests : responses[r] <= 1

(***************************************************************************)
(* Messages are not intertwined (server.go:106): in both streams, the part *)
(* after a header is a body, and a body comes after a header only.         *)
(***************************************************************************)
FramesWhole ==
  \A e \in Ends : \A k \in 1 .. Len(stream[e]) - 1 :
    LET p == stream[e][k]
        q == stream[e][k + 1]
    IN  p.part = "header" <=> q.part = "body"

(***************************************************************************)
(* The server closes the connection only when every request it accepted    *)
(* has been responded to (wg.Wait, server.go:131); only a response that    *)
(* cannot be written closes it earlier.                                    *)
(***************************************************************************)
AnsweredBeforeClose ==
  at[Loop] = "closed" =>
    /\ \A r \in Requests : asked[r].args # 0 => responses[r] = 1
    /\ sendLock = {}

(***************************************************************************)
(* dialTimeout without a client leaves no connection open (client.go:248). *)
(***************************************************************************)
FailedDialCloses == dialer = "failed" => ~ open["client"]

Returned(c) == cpc[c] = "returned" \/ dialer = "failed"

(***************************************************************************)
(* A call with a deadline returns, whatever happens to the connection, the *)
(* server and the other calls (client.go:184).                             *)
(***************************************************************************)
TimedCallsReturn == \A c \in Timed : <>Returned(c)

(***************************************************************************)
(* On a connection that works, with methods that exist and replies that    *)
(* can be encoded and decoded, every call returns: no response and no      *)
(* wake-up is lost.                                                        *)
(***************************************************************************)
Healthy ==
  /\ ~ lost /\ ~ closing /\ ~ garbled
  /\ \A c \in Calls : kind[c] \in {"ok", "fails", "badargs"}

(* Call returns on a connection that stays healthy. *)
HealthyCallsReturn == []Healthy => \A c \in Calls : <>Returned(c)

(***************************************************************************)
(* The server serves the connection until the client hangs up              *)
(* (server.go:71), and then leaves it, whatever requests are being handled.*)
(***************************************************************************)
ServerHangsUp == (~ open["client"] \/ lost) ~> (at[Loop] = "closed")

(***************************************************************************)
(* A client that dialTimeout gave up leaves no receive goroutine behind    *)
(* (client.go:256).                                                        *)
(***************************************************************************)
NoReceiverLeft == (dialer = "failed") ~> (rcv.at \in {"off", "ended"})

-----------------------------------------------------------------------------
(* What the comments say, and the code does not do. *)

(***************************************************************************)
(* "Call invokes the named function, waits for it to complete, and returns *)
(* its error status" (client.go:179).                                      *)
(***************************************************************************)
CallsReturn == \A c \in Calls : <>Returned(c)

(***************************************************************************)
(* "IsAvailable return true if the client does work" (client.go:67).       *)
(***************************************************************************)
IsAvailable == ~ closing

(* IsAvailable implies that the receive goroutine still runs. *)
AvailableWorks == dialer = "ok" /\ IsAvailable => rcv.at # "ended"
=============================================================================
