--------------------------- MODULE LabCallsProofs ---------------------------
(***************************************************************************)
(* The safety properties of labrpc, for every number of calls, ends,       *)
(* servers and changes of the tables: TypeOK, NoStalePositive, and that    *)
(* the network implements the safety part of LossyCalls.                   *)
(***************************************************************************)
EXTENDS LabCalls, TLAPS

USE ZenonT(30)

USE NilAssumption, SwitchesAssumption

Places == {"idle", "send", "accepted", "request", "wait", "check", "reply", "returned"}

(***************************************************************************)
(* How far a call, the goroutine of its handler and the execution of the   *)
(* request have come belong together; a call that processReq has sent to a *)
(* server knows an object that was added.                                  *)
(***************************************************************************)
Progress(c) ==
  /\ ~ At(c, "idle") => call[c].end \in Ends
  /\ call[c].at \in {"idle", "send", "accepted", "request"} => handler[c] = "none"
  /\ At(c, "wait") => handler[c] \in {"started", "replies"} /\ ~ call[c].ok
  /\ At(c, "check") => handler[c] # "none"
  /\ call[c].ok => handler[c] = "returned" /\ call[c].at \in {"check", "reply", "returned"}
  /\ c \in executed <=> handler[c] \in {"replies", "returned"}
  /\ At(c, "request") \/ handler[c] # "none" => call[c].name \in Servers /\ call[c].obj \in used

(***************************************************************************)
(* An object is added once (MakeServer gives a new one), so that a server  *)
(* that was gone when the handler ran is gone for good.                    *)
(***************************************************************************)
GoneForGood(c) == c \in late => handler[c] # "none" /\ servers[call[c].name] # call[c].obj

PositiveInTime(c) == call[c].at \in {"reply", "returned"} /\ call[c].ok => c \notin late

CallRecord ==
  [at : Places, end : Ends \cup {nil}, name : Servers \cup {nil}, obj : Objects \cup {nil},
   sure : BOOLEAN, ok : BOOLEAN]

CallsInv == \A c \in Calls : Progress(c) /\ GoneForGood(c) /\ PositiveInTime(c)

Inv ==
  /\ TypeOK
  /\ \A s \in Servers : servers[s] \in used \cup {nil}
  /\ CallsInv

LEMMA TypeParts ==
  TypeOK <=> /\ reliable \in BOOLEAN /\ done \in BOOLEAN /\ dispatcher \in BOOLEAN /\ exited \in BOOLEAN
             /\ ends \subseteq Ends
             /\ enabled \in [Ends -> BOOLEAN]
             /\ connections \in [Ends -> Servers \cup {nil}]
             /\ servers \in [Servers -> Objects \cup {nil}] /\ used \subseteq Objects
             /\ call \in [Calls -> CallRecord]
             /\ handler \in [Calls -> {"none", "started", "replies", "returned"}]
             /\ switches \in 0 .. MaxSwitches /\ executed \subseteq Calls /\ late \subseteq executed
BY DEF TypeOK, CallRecord, Places

LEMMA InitInv == Init => Inv
<1> SUFFICES ASSUME Init PROVE Inv
  OBVIOUS
<1> USE DEF Init, MakeNetwork, NoCall
<1>1. TypeOK
  <2>1. /\ reliable \in BOOLEAN /\ done \in BOOLEAN /\ dispatcher \in BOOLEAN /\ exited \in BOOLEAN
        /\ enabled \in [Ends -> BOOLEAN]
    OBVIOUS
  <2>2. call \in [Calls -> CallRecord]
    BY DEF CallRecord, Places
  <2>3. /\ ends \subseteq Ends /\ used \subseteq Objects
        /\ connections \in [Ends -> Servers \cup {nil}]
        /\ servers \in [Servers -> Objects \cup {nil}]
        /\ handler \in [Calls -> {"none", "started", "replies", "returned"}]
        /\ switches \in 0 .. MaxSwitches /\ executed \subseteq Calls /\ late \subseteq executed
    BY SMTT(30)
  <2> QED
    BY <2>1, <2>2, <2>3, TypeParts
<1>2. \A s \in Servers : servers[s] \in used \cup {nil}
  OBVIOUS
<1>3. ASSUME NEW c \in Calls PROVE Progress(c)
  BY DEF Progress, At
<1>4. ASSUME NEW c \in Calls PROVE GoneForGood(c)
  BY DEF GoneForGood
<1>5. ASSUME NEW c \in Calls PROVE PositiveInTime(c)
  BY DEF PositiveInTime
<1> QED
  BY <1>1, <1>2, <1>3, <1>4, <1>5 DEF Inv, CallsInv

(***************************************************************************)
(* A change of the tables: objects are only ever added to those in use.    *)
(***************************************************************************)
LEMMA SwitchInv == ASSUME Inv, Switch PROVE Inv'
<1> USE DEF Inv
<1>1. /\ used \subseteq used' /\ used' \subseteq Objects
      /\ servers' \in [Servers -> Objects \cup {nil}]
      /\ \A s \in Servers : servers'[s] \in used' \cup {nil}
      /\ \A s \in Servers : servers'[s] = servers[s] \/ servers'[s] \notin used
  <2> USE TypeParts DEF Switch, Administer
  <2>1. CASE \E s \in Servers, o \in Objects : AddServer(s, o)
    BY <2>1, SMTT(30) DEF AddServer
  <2>2. CASE \E s \in Servers : DeleteServer(s)
    BY <2>2 DEF DeleteServer
  <2>3. CASE UNCHANGED <<servers, used>>
    BY <2>3
  <2> QED
    BY <2>1, <2>2, <2>3 DEF MakeEnd, Connect, Enable, Reliable
<1>2. TypeOK'
  <2> USE TypeParts DEF Switch, Administer
  <2>1. ends' \subseteq Ends
    BY DEF MakeEnd, Connect, Enable, AddServer, DeleteServer, Reliable
  <2>2. enabled' \in [Ends -> BOOLEAN]
    BY DEF MakeEnd, Connect, Enable, AddServer, DeleteServer, Reliable
  <2>3. connections' \in [Ends -> Servers \cup {nil}]
    BY DEF MakeEnd, Connect, Enable, AddServer, DeleteServer, Reliable
  <2>4. reliable' \in BOOLEAN
    BY DEF MakeEnd, Connect, Enable, AddServer, DeleteServer, Reliable
  <2>5. switches' \in 0 .. MaxSwitches
    BY SMTT(30)
  <2> QED
    BY <1>1, <2>1, <2>2, <2>3, <2>4, <2>5 DEF TypeOK
<1>3. ASSUME NEW c \in Calls PROVE (Progress(c) /\ GoneForGood(c) /\ PositiveInTime(c))'
  <2>1. UNCHANGED <<call, handler, executed, late>> /\ c \in Calls
    BY DEF Switch
  <2>2. Progress(c) /\ GoneForGood(c) /\ PositiveInTime(c)
    BY DEF CallsInv
  <2>3. Progress(c)'
    BY <1>1, <2>1, <2>2 DEF Progress, At
  <2>4. GoneForGood(c)'
    BY <1>1, <2>1, <2>2, TypeParts DEF GoneForGood, Progress
  <2>5. PositiveInTime(c)'
    BY <2>1, <2>2 DEF PositiveInTime
  <2> QED
    BY <2>3, <2>4, <2>5
<1> QED
  BY <1>1, <1>2, <1>3 DEF CallsInv

(***************************************************************************)
(* A step of one call: what it leaves in call and handler decides.         *)
(***************************************************************************)
OneCall(c, r, h) ==
  /\ call' = [call EXCEPT ![c] = r]
  /\ handler' = [handler EXCEPT ![c] = h]
  /\ UNCHANGED <<netVars, switches>>

LEMMA OneCallInv ==
  ASSUME Inv,
         NEW c \in Calls, NEW r \in CallRecord, NEW h \in {"none", "started", "replies", "returned"},
         OneCall(c, r, h),
         done' \in BOOLEAN, dispatcher' \in BOOLEAN, exited' \in BOOLEAN,
         executed' \in {executed, executed \cup {c}}, late' \in {late, late \cup {c}}, late' \subseteq executed',
         (Progress(c) /\ GoneForGood(c) /\ PositiveInTime(c))'
  PROVE  Inv'
<1> USE DEF OneCall, netVars
<1>1. TypeOK'
  <2>1. call' \in [Calls -> CallRecord] /\ handler' \in [Calls -> {"none", "started", "replies", "returned"}]
    BY TypeParts DEF Inv
  <2>2. executed' \subseteq Calls
    BY TypeParts DEF Inv
  <2> QED
    BY <2>1, <2>2, TypeParts DEF Inv, TypeOK, CallRecord, Places
<1>2. \A s \in Servers : servers'[s] \in used' \cup {nil}
  BY DEF Inv
<1>3. ASSUME NEW d \in Calls, d # c PROVE (Progress(d) /\ GoneForGood(d) /\ PositiveInTime(d))'
  <2>1. /\ call'[d] = call[d] /\ handler'[d] = handler[d]
        /\ d \in executed' <=> d \in executed
        /\ d \in late' <=> d \in late
    BY <1>3, TypeParts DEF Inv
  <2>2. Progress(d) /\ GoneForGood(d) /\ PositiveInTime(d)
    BY DEF Inv, CallsInv
  <2> QED
    BY <2>1, <2>2, SMTT(30) DEF Progress, GoneForGood, PositiveInTime, At
<1> QED
  BY <1>1, <1>2, <1>3 DEF Inv, CallsInv

(***************************************************************************)
(* Steps of the client's goroutine.                                        *)
(***************************************************************************)
LEMMA ClientInv ==
  ASSUME Inv, NEW c \in Calls, ClientStep(c) \/ (\E e \in Ends : Call(c, e)), UNCHANGED <<exited, switches, executed, late>>
  PROVE  Inv'
<1>1. /\ call \in [Calls -> CallRecord] /\ handler[c] \in {"none", "started", "replies", "returned"}
      /\ done \in BOOLEAN /\ dispatcher \in BOOLEAN /\ exited \in BOOLEAN /\ ends \subseteq Ends
      /\ late \subseteq executed
      /\ Progress(c) /\ GoneForGood(c) /\ PositiveInTime(c)
  BY TypeParts DEF Inv, CallsInv
<1>2. PICK r \in CallRecord :
        /\ call' = [call EXCEPT ![c] = r]
        /\ UNCHANGED <<netVars, done, dispatcher, handler>>
        /\ r.ok = call[c].ok /\ r.name = call[c].name /\ r.obj = call[c].obj
        /\ \/ call[c].at = "idle" /\ r.at = "send" /\ r.end \in Ends
           \/ call[c].at = "send" /\ r.at \in {"accepted", "returned"} /\ r.end = call[c].end
           \/ call[c].at = "reply" /\ r.at = "returned" /\ r.end = call[c].end
  <2>1. CASE \E e \in Ends : Call(c, e)
    <3>1. PICK e \in Ends : Call(c, e)
      BY <2>1
    <3> DEFINE r == [call[c] EXCEPT !.at = "send", !.end = e]
    <3>2. r \in CallRecord
      BY <1>1 DEF CallRecord, Places
    <3>3. call' = [call EXCEPT ![c] = r]
      BY <3>1, <1>1 DEF Call, CallRecord
    <3> QED
      BY <3>1, <3>2, <3>3, <1>1 DEF Call, At, CallRecord
  <2>2. CASE CallSent(c)
    <3> DEFINE r == [call[c] EXCEPT !.at = "accepted"]
    <3>1. r \in CallRecord
      BY <1>1 DEF CallRecord, Places
    <3> QED
      BY <2>2, <3>1, <1>1 DEF CallSent, At, CallRecord
  <2>3. CASE CallDestroyed(c) \/ CallReturns(c)
    <3> DEFINE r == [call[c] EXCEPT !.at = "returned"]
    <3>1. r \in CallRecord
      BY <1>1 DEF CallRecord, Places
    <3> QED
      BY <2>3, <3>1, <1>1 DEF CallDestroyed, CallReturns, At, CallRecord
  <2> QED
    BY <2>1, <2>2, <2>3 DEF ClientStep
<1>3. OneCall(c, r, handler[c])
  BY <1>1, <1>2, TypeParts DEF OneCall, Inv
<1>4. call'[c] = r /\ handler' = handler
  BY <1>1, <1>2
<1>5. Progress(c)'
  BY <1>1, <1>2, <1>4 DEF Progress, At, netVars
<1>6. GoneForGood(c)' /\ PositiveInTime(c)'
  BY <1>1, <1>2, <1>4 DEF Progress, At, GoneForGood, PositiveInTime, netVars
<1> QED
  BY <1>1, <1>2, <1>3, <1>5, <1>6, OneCallInv

(***************************************************************************)
(* What readEndnameInfo gives is typed, and a server it gives was added.   *)
(***************************************************************************)
LEMMA InfoTyped ==
  ASSUME Inv, NEW c \in Calls, call[c].end \in Ends
  PROVE  LET info == readEndnameInfo(c)
         IN  /\ info \in CallRecord
             /\ info.at = call[c].at /\ info.end = call[c].end /\ info.ok = call[c].ok
             /\ info.name # nil /\ info.obj # nil => info.name \in Servers /\ info.obj \in used
<1>1. /\ call[c] \in CallRecord /\ reliable \in BOOLEAN
      /\ connections \in [Ends -> Servers \cup {nil}]
      /\ servers \in [Servers -> Objects \cup {nil}]
      /\ \A s \in Servers : servers[s] \in used \cup {nil}
  BY TypeParts DEF Inv
<1> QED
  BY <1>1 DEF readEndnameInfo, CallRecord

(***************************************************************************)
(* Steps of processReq.                                                    *)
(***************************************************************************)
LEMMA RequestInv ==
  ASSUME Inv, NEW c \in Calls, RequestStep(c), UNCHANGED <<exited, switches, executed, late>>
  PROVE  Inv'
<1>1. /\ call \in [Calls -> CallRecord] /\ call[c] \in CallRecord
      /\ handler \in [Calls -> {"none", "started", "replies", "returned"}]
      /\ done \in BOOLEAN /\ dispatcher \in BOOLEAN /\ exited \in BOOLEAN
      /\ late \subseteq executed
      /\ Progress(c) /\ GoneForGood(c) /\ PositiveInTime(c)
  BY TypeParts DEF Inv, CallsInv
<1> SUFFICES \E r \in CallRecord, h \in {"none", "started", "replies", "returned"} :
               /\ OneCall(c, r, h)
               /\ UNCHANGED <<done, dispatcher>>
               /\ (Progress(c) /\ GoneForGood(c) /\ PositiveInTime(c))'
  BY <1>1, OneCallInv
<1>2. ASSUME NEW r \in CallRecord, NEW h \in {"none", "started", "replies", "returned"},
             call' = [call EXCEPT ![c] = r], handler' = [handler EXCEPT ![c] = h]
      PROVE  call'[c] = r /\ handler'[c] = h
  BY <1>1, <1>2
<1>3. CASE processReq(c)
  <2> DEFINE info == readEndnameInfo(c)
             live == enabled[info.end] /\ info.name # nil /\ info.obj # nil
             r == [info EXCEPT !.at = IF live THEN "request" ELSE "reply"]
  <2>1. /\ call[c].end \in Ends /\ ~ call[c].ok /\ handler[c] = "none" /\ c \notin executed
    BY <1>1, <1>3 DEF processReq, Progress, At
  <2>2. /\ info \in CallRecord
        /\ info.end = call[c].end /\ info.ok = call[c].ok
        /\ info.name # nil /\ info.obj # nil => info.name \in Servers /\ info.obj \in used
    BY <2>1, InfoTyped
  <2>3. r \in CallRecord /\ r.end = call[c].end /\ r.ok = call[c].ok /\ r.at \in {"request", "reply"}
        /\ (r.at = "request" => r.name \in Servers /\ r.obj \in used)
    <3> HIDE DEF info
    <3> QED
      BY <2>2 DEF CallRecord, Places
  <2>4. call' = [call EXCEPT ![c] = r] /\ handler' = [handler EXCEPT ![c] = handler[c]] /\ UNCHANGED <<netVars, done, dispatcher>>
    BY <1>1, <1>3 DEF processReq
  <2> HIDE DEF r
  <2>5. call'[c] = r /\ handler'[c] = handler[c]
    BY <1>2, <2>3, <2>4, <1>1
  <2>6. (Progress(c) /\ GoneForGood(c) /\ PositiveInTime(c))'
    BY <1>1, <2>1, <2>3, <2>4, <2>5 DEF Progress, GoneForGood, PositiveInTime, At, netVars
  <2> QED
    BY <2>1, <2>3, <2>4, <2>6 DEF OneCall, Progress
<1>4. CASE DropRequest(c)
  <2> DEFINE r == [call[c] EXCEPT !.at = "reply"]
  <2>1. r \in CallRecord
    BY <1>1 DEF CallRecord, Places
  <2>2. OneCall(c, r, handler[c]) /\ UNCHANGED <<done, dispatcher>>
    BY <1>1, <1>4 DEF DropRequest, OneCall, netVars, CallRecord
  <2>3. (Progress(c) /\ GoneForGood(c) /\ PositiveInTime(c))'
    BY <1>1, <1>4, <2>1 DEF DropRequest, Progress, GoneForGood, PositiveInTime, At, netVars, CallRecord
  <2> QED
    BY <1>1, <2>1, <2>2, <2>3
<1>5. CASE StartHandler(c)
  <2> DEFINE r == [call[c] EXCEPT !.at = "wait"]
  <2>1. r \in CallRecord
    BY <1>1 DEF CallRecord, Places
  <2>2. OneCall(c, r, "started") /\ UNCHANGED <<done, dispatcher>>
    BY <1>1, <1>5 DEF StartHandler, OneCall, netVars, CallRecord
  <2>3. (Progress(c) /\ GoneForGood(c) /\ PositiveInTime(c))'
    BY <1>1, <1>5, <2>1 DEF StartHandler, Progress, GoneForGood, PositiveInTime, At, netVars, CallRecord
  <2> QED
    BY <1>1, <2>1, <2>2, <2>3
<1>6. CASE TakeReply(c)
  <2> DEFINE r == [call[c] EXCEPT !.at = "check", !.ok = TRUE]
  <2>1. r \in CallRecord
    BY <1>1 DEF CallRecord, Places
  <2>2. OneCall(c, r, "returned") /\ UNCHANGED <<done, dispatcher>>
    BY <1>1, <1>6 DEF TakeReply, OneCall, netVars, CallRecord
  <2>3. (Progress(c) /\ GoneForGood(c) /\ PositiveInTime(c))'
    BY <1>1, <1>6, <2>1 DEF TakeReply, Progress, GoneForGood, PositiveInTime, At, netVars, CallRecord
  <2> QED
    BY <1>1, <2>1, <2>2, <2>3
<1>7. CASE GiveUp(c)
  <2> DEFINE r == [call[c] EXCEPT !.at = "check"]
  <2>1. r \in CallRecord
    BY <1>1 DEF CallRecord, Places
  <2>2. OneCall(c, r, handler[c]) /\ UNCHANGED <<done, dispatcher>>
    BY <1>1, <1>7 DEF GiveUp, OneCall, netVars, CallRecord
  <2>3. (Progress(c) /\ GoneForGood(c) /\ PositiveInTime(c))'
    BY <1>1, <1>7, <2>1 DEF GiveUp, Progress, GoneForGood, PositiveInTime, At, netVars, CallRecord
  <2> QED
    BY <1>1, <2>1, <2>2, <2>3
<1>8. CASE Answers(c)
  <2>1. PICK ok \in BOOLEAN :
          /\ ok => call[c].ok /\ ~ isServerDead(c)
          /\ call' = [call EXCEPT ![c].at = "reply", ![c].ok = ok]
    BY <1>8 DEF Answers
  <2> DEFINE r == [call[c] EXCEPT !.at = "reply", !.ok = ok]
  <2>2. r \in CallRecord
    BY <1>1 DEF CallRecord, Places
  <2>3. OneCall(c, r, handler[c]) /\ UNCHANGED <<done, dispatcher>>
    BY <1>1, <1>8, <2>1 DEF Answers, OneCall, netVars, CallRecord
  <2>4. call'[c] = r /\ handler' = handler /\ UNCHANGED netVars
    BY <1>1, <1>8, <2>1, <2>2, <2>3 DEF OneCall, Answers
  <2>5. ok => c \notin late
    BY <1>1, <2>1 DEF isServerDead, GoneForGood
  <2>6. (Progress(c) /\ GoneForGood(c) /\ PositiveInTime(c))'
    BY <1>1, <1>8, <2>1, <2>2, <2>4, <2>5 DEF Answers, Progress, GoneForGood, PositiveInTime, At, netVars, CallRecord
  <2> QED
    BY <1>1, <2>2, <2>3, <2>6
<1>9. CASE DrainHandler(c)
  <2>1. OneCall(c, call[c], "returned") /\ UNCHANGED <<done, dispatcher>> /\ UNCHANGED call
    BY <1>1, <1>9 DEF DrainHandler, OneCall, netVars
  <2>2. (Progress(c) /\ GoneForGood(c) /\ PositiveInTime(c))'
    BY <1>1, <1>9, <2>1 DEF DrainHandler, Progress, GoneForGood, PositiveInTime, At, netVars
  <2> QED
    BY <1>1, <2>1, <2>2
<1> QED
  BY <1>3, <1>4, <1>5, <1>6, <1>7, <1>8, <1>9 DEF RequestStep

(***************************************************************************)
(* The handler goroutine runs: the object it runs on is installed now, or  *)
(* will never be again.                                                    *)
(***************************************************************************)
LEMMA HandlerInv == ASSUME Inv, NEW c \in Calls, HandlerRuns(c) PROVE Inv'
<1>1. /\ call \in [Calls -> CallRecord] /\ call[c] \in CallRecord
      /\ handler \in [Calls -> {"none", "started", "replies", "returned"}]
      /\ done \in BOOLEAN /\ dispatcher \in BOOLEAN /\ exited \in BOOLEAN
      /\ late \subseteq executed
      /\ Progress(c) /\ GoneForGood(c) /\ PositiveInTime(c)
  BY TypeParts DEF Inv, CallsInv
<1> USE DEF HandlerRuns, RunHandler
<1>2. OneCall(c, call[c], "replies") /\ UNCHANGED <<done, dispatcher, exited, call>>
  BY <1>1 DEF OneCall, netVars
<1>3. executed' = executed \cup {c} /\ late' \in {late, late \cup {c}} /\ late' \subseteq executed'
  BY <1>1
<1>4. Progress(c)'
  BY <1>1, <1>2, <1>3 DEF Progress, At, OneCall, netVars
<1>5. GoneForGood(c)'
  BY <1>1, <1>2 DEF GoneForGood, OneCall, netVars
<1>6. PositiveInTime(c)'
  BY <1>1, <1>2 DEF PositiveInTime, Progress
<1> QED
  BY <1>1, <1>2, <1>3, <1>4, <1>5, <1>6, OneCallInv

(***************************************************************************)
(* What touches no call: Cleanup, the end of the dispatcher, log.Fatalf,   *)
(* and no step at all.                                                     *)
(***************************************************************************)
LEMMA OtherInv ==
  ASSUME Inv, UNCHANGED <<netVars, call, handler, switches, executed, late>>,
         done' \in BOOLEAN, dispatcher' \in BOOLEAN, exited' \in BOOLEAN
  PROVE  Inv'
<1>1. TypeOK'
  BY TypeParts DEF Inv, netVars, TypeOK, CallRecord, Places
<1>2. ASSUME NEW c \in Calls PROVE (Progress(c) /\ GoneForGood(c) /\ PositiveInTime(c))'
  BY DEF Inv, CallsInv, netVars, Progress, GoneForGood, PositiveInTime, At
<1> QED
  BY <1>1, <1>2 DEF Inv, CallsInv, netVars

LEMMA NextInv == ASSUME Inv, [Next]_vars PROVE Inv'
<1>1. done \in BOOLEAN /\ dispatcher \in BOOLEAN /\ exited \in BOOLEAN
  BY TypeParts DEF Inv
<1>2. CASE Silent /\ UNCHANGED <<exited, switches, executed, late>>
  <2>1. CASE Cleanup
    BY <1>1, <1>2, <2>1, OtherInv DEF Cleanup
  <2>2. CASE DispatcherReturns
    BY <1>1, <1>2, <2>2, OtherInv DEF DispatcherReturns
  <2>3. CASE \E c \in Calls : ClientStep(c) \/ \E e \in Ends : Call(c, e)
    BY <1>2, <2>3, ClientInv
  <2>4. CASE \E c \in Calls : RequestStep(c)
    BY <1>2, <2>4, RequestInv
  <2> QED
    BY <1>2, <2>1, <2>2, <2>3, <2>4 DEF Silent
<1>3. CASE Switch
  BY <1>3, SwitchInv
<1>4. CASE \E c \in Calls : HandlerRuns(c)
  BY <1>4, HandlerInv
<1>5. CASE \E c \in Calls : (dispatchUnknown(c) \/ decodeReplyFails(c)) /\ UNCHANGED <<switches, executed, late>>
  BY <1>1, <1>5, OtherInv DEF dispatchUnknown, decodeReplyFails
<1>6. CASE UNCHANGED vars
  BY <1>1, <1>6, OtherInv DEF vars, lvars
<1> QED
  BY <1>2, <1>3, <1>4, <1>5, <1>6 DEF Next

(***************************************************************************)
(* Inv holds in every behaviour of the network.                            *)
(***************************************************************************)
THEOREM Invariance == Spec => []Inv
BY InitInv, NextInv, PTL DEF Spec

(***************************************************************************)
(* The tables of Network and the calls keep their types.                   *)
(***************************************************************************)
THEOREM TypeCorrect == Spec => []TypeOK
<1>1. Inv => TypeOK
  BY DEF Inv
<1> QED
  BY <1>1, Invariance, PTL

(***************************************************************************)
(* processReq never answers TRUE for a call whose handler ran on a server  *)
(* that had been deleted or replaced, however the tables change between    *)
(* the handler, the check and the answer.                                  *)
(***************************************************************************)
THEOREM StaleNeverPositive == Spec => []NoStalePositive
<1>1. Inv => NoStalePositive
  BY DEF Inv, CallsInv, PositiveInTime, NoStalePositive, At
<1> QED
  BY <1>1, Invariance, PTL

-----------------------------------------------------------------------------
(* The network implements the safety part of LossyCalls. *)

LEMMA InitRefines == Init => Lossy!Init
BY SMTT(30) DEF Init, MakeNetwork, NoCall, Lossy!Init, Status, At

(***************************************************************************)
(* A step that leaves a call where LossyCalls sees it is a stutter.        *)
(***************************************************************************)
LEMMA StatusSame ==
  ASSUME call \in [Calls -> CallRecord], NEW c \in Calls, NEW r,
         call' = [call EXCEPT ![c] = r],
         call[c].at \notin {"idle", "returned"}, r.at \notin {"idle", "returned"}
  PROVE  [d \in Calls |-> Status(d)]' = [d \in Calls |-> Status(d)]
<1>1. ASSUME NEW d \in Calls PROVE Status(d)' = Status(d)
  BY DEF Status, At
<1> QED
  BY <1>1

LEMMA StatusMoves ==
  ASSUME call \in [Calls -> CallRecord], NEW c \in Calls, NEW r, NEW v,
         call' = [call EXCEPT ![c] = r], Status(c)' = v
  PROVE  [d \in Calls |-> Status(d)]' = [[d \in Calls |-> Status(d)] EXCEPT ![c] = v]
<1>1. ASSUME NEW d \in Calls, d # c PROVE Status(d)' = Status(d)
  BY <1>1 DEF Status, At
<1> QED
  BY <1>1

(***************************************************************************)
(* Call is Issue; its return, after an answer or because the network is    *)
(* gone, is Answer, which may be TRUE only for an executed request.        *)
(***************************************************************************)
LEMMA ClientRefines ==
  ASSUME Inv, ~ exited, NEW c \in Calls, ClientStep(c) \/ (\E e \in Ends : Call(c, e)), UNCHANGED <<exited, executed>>
  PROVE  [Lossy!Next]_(Lossy!vars)
<1>1. /\ call \in [Calls -> CallRecord] /\ call[c] \in CallRecord /\ Progress(c)
  BY TypeParts DEF Inv, CallsInv
<1> DEFINE st == [d \in Calls |-> Status(d)]
<1>2. CASE \E e \in Ends : Call(c, e)
  <2>1. PICK e \in Ends : Call(c, e)
    BY <1>2
  <2> DEFINE r == [call[c] EXCEPT !.at = "send", !.end = e]
  <2>2. call' = [call EXCEPT ![c] = r] /\ At(c, "idle")
    BY <2>1, <1>1 DEF Call, CallRecord
  <2>3. Status(c) = "idle" /\ Status(c)' = "waiting"
    BY <2>2, <1>1 DEF Status, At, CallRecord
  <2>4. st' = [st EXCEPT ![c] = "waiting"]
    BY <2>2, <2>3, <1>1, StatusMoves
  <2>5. Lossy!Issue(c)
    BY <2>3, <2>4 DEF Lossy!Issue
  <2> QED
    BY <2>5 DEF Lossy!Next, Lossy!Step
<1>3. CASE CallSent(c)
  <2> DEFINE r == [call[c] EXCEPT !.at = "accepted"]
  <2>1. call' = [call EXCEPT ![c] = r] /\ At(c, "send")
    BY <1>3, <1>1 DEF CallSent, CallRecord
  <2>2. st' = st
    BY <2>1, <1>1, StatusSame DEF At, CallRecord
  <2> QED
    BY <2>2 DEF Lossy!vars
<1>4. CASE CallDestroyed(c) \/ CallReturns(c)
  <2> DEFINE r == [call[c] EXCEPT !.at = "returned"]
  <2>1. call' = [call EXCEPT ![c] = r] /\ call[c].at \in {"send", "reply"}
    BY <1>4, <1>1 DEF CallDestroyed, CallReturns, CallRecord, At
  <2>2. Status(c) = "waiting" /\ Status(c)' = IF call[c].ok THEN "true" ELSE "false"
    BY <2>1, <1>1 DEF Status, At, CallRecord
  <2>3. st' = [st EXCEPT ![c] = IF call[c].ok THEN "true" ELSE "false"]
    BY <2>1, <2>2, <1>1, StatusMoves
  <2>4. call[c].ok => c \in executed
    BY <1>1 DEF Progress
  <2>5. Lossy!Answer(c)
    BY <2>2, <2>3, <2>4 DEF Lossy!Answer
  <2> QED
    BY <2>5 DEF Lossy!Next, Lossy!Step
<1> QED
  BY <1>2, <1>3, <1>4 DEF ClientStep

(***************************************************************************)
(* No step of processReq, nor the end of a handler, is seen.               *)
(***************************************************************************)
LEMMA RequestRefines ==
  ASSUME Inv, NEW c \in Calls, RequestStep(c), UNCHANGED <<exited, executed>>
  PROVE  UNCHANGED Lossy!vars
<1>1. /\ call \in [Calls -> CallRecord] /\ call[c] \in CallRecord
  BY TypeParts DEF Inv
<1>2. CASE DrainHandler(c)
  <2>1. call' = call
    BY <1>2 DEF DrainHandler
  <2> QED
    BY <2>1 DEF Lossy!vars, Status, At
<1>3. CASE processReq(c)
  <2> DEFINE info == readEndnameInfo(c)
             live == enabled[info.end] /\ info.name # nil /\ info.obj # nil
             r == [info EXCEPT !.at = IF live THEN "request" ELSE "reply"]
  <2>1. call' = [call EXCEPT ![c] = r] /\ At(c, "accepted")
    BY <1>3 DEF processReq
  <2>2. r.at \notin {"idle", "returned"}
    BY <1>1 DEF readEndnameInfo, CallRecord
  <2> HIDE DEF r
  <2> QED
    BY <2>1, <2>2, <1>1, StatusSame DEF Lossy!vars, At
<1>4. CASE ~ DrainHandler(c) /\ ~ processReq(c)
  <2>1. PICK r \in CallRecord : call' = [call EXCEPT ![c] = r] /\ r.at \in {"wait", "check", "reply"}
    <3>1. ASSUME NEW p \in {"wait", "check", "reply"}, NEW ok \in BOOLEAN
          PROVE  [call[c] EXCEPT !.at = p, !.ok = ok] \in CallRecord
      BY <1>1 DEF CallRecord, Places
    <3>2. PICK p \in {"wait", "check", "reply"}, ok \in BOOLEAN :
            call' = [call EXCEPT ![c] = [call[c] EXCEPT !.at = p, !.ok = ok]]
      <4>0. /\ call[c].ok \in BOOLEAN
            /\ \A p : [call[c] EXCEPT !.at = p] = [call[c] EXCEPT !.at = p, !.ok = call[c].ok]
        BY <1>1 DEF CallRecord
      <4>1. CASE DropRequest(c)
        BY <4>0, <4>1 DEF DropRequest
      <4>2. CASE StartHandler(c)
        BY <4>0, <4>2 DEF StartHandler
      <4>3. CASE TakeReply(c)
        BY <4>3, <1>1 DEF TakeReply, CallRecord
      <4>4. CASE GiveUp(c)
        BY <4>0, <4>4 DEF GiveUp
      <4>5. CASE Answers(c)
        BY <4>5, <1>1 DEF Answers, CallRecord
      <4> QED
        BY <1>4, <4>1, <4>2, <4>3, <4>4, <4>5 DEF RequestStep
    <3>3. [call[c] EXCEPT !.at = p, !.ok = ok].at = p
      BY <1>1 DEF CallRecord
    <3> QED
      BY <3>1, <3>2, <3>3
  <2>2. call[c].at \notin {"idle", "returned"}
    BY <1>4 DEF RequestStep, DropRequest, StartHandler, TakeReply, GiveUp, Answers, At
  <2> QED
    BY <2>1, <2>2, <1>1, StatusSame DEF Lossy!vars
<1> QED
  BY <1>2, <1>3, <1>4

(***************************************************************************)
(* The handler runs once for a call that waits or has been told FALSE.     *)
(***************************************************************************)
LEMMA HandlerRefines == ASSUME Inv, ~ exited, NEW c \in Calls, HandlerRuns(c) PROVE Lossy!Next
<1>1. /\ call[c] \in CallRecord /\ Progress(c) /\ handler[c] = "started"
      /\ UNCHANGED <<call, exited>> /\ executed' = executed \cup {c}
  BY TypeParts DEF Inv, CallsInv, HandlerRuns, RunHandler
<1>2. Status(c) \in {"waiting", "false"} /\ c \notin executed
  BY <1>1 DEF Progress, Status, At
<1>3. [d \in Calls |-> Status(d)]' = [d \in Calls |-> Status(d)]
  BY <1>1 DEF Status, At
<1>4. Lossy!Execute(c)
  BY <1>1, <1>2, <1>3 DEF Lossy!Execute
<1> QED
  BY <1>1, <1>4 DEF Lossy!Next, Lossy!Step

LEMMA NextRefines == ASSUME Inv, [Next]_vars PROVE [Lossy!Next]_(Lossy!vars)
<1>1. CASE Silent /\ ~ exited /\ UNCHANGED <<exited, switches, executed, late>>
  <2>1. CASE Cleanup \/ DispatcherReturns
    <3>1. UNCHANGED <<call, exited, executed>>
      BY <1>1, <2>1 DEF Cleanup, DispatcherReturns
    <3> QED
      BY <3>1 DEF Lossy!vars, Status, At
  <2>2. CASE \E c \in Calls : ClientStep(c) \/ \E e \in Ends : Call(c, e)
    BY <1>1, <2>2, ClientRefines
  <2>3. CASE \E c \in Calls : RequestStep(c)
    BY <1>1, <2>3, RequestRefines
  <2> QED
    BY <1>1, <2>1, <2>2, <2>3 DEF Silent
<1>2. CASE Switch \/ UNCHANGED vars
  <2>1. UNCHANGED <<call, exited, executed>>
    BY <1>2 DEF Switch, vars, lvars
  <2> QED
    BY <2>1 DEF Lossy!vars, Status, At
<1>3. CASE ~ exited /\ \E c \in Calls : HandlerRuns(c)
  BY <1>3, HandlerRefines
<1>4. CASE ~ exited /\ \E c \in Calls : (dispatchUnknown(c) \/ decodeReplyFails(c)) /\ UNCHANGED <<switches, executed, late>>
  <2>1. exited' = TRUE /\ UNCHANGED <<call, executed>>
    BY <1>4 DEF dispatchUnknown, decodeReplyFails
  <2>2. Lossy!Stop
    BY <1>4, <2>1 DEF Lossy!Stop, Status, At
  <2> QED
    BY <2>2 DEF Lossy!Next
<1> QED
  BY <1>1, <1>2, <1>3, <1>4 DEF Next

(***************************************************************************)
(* Call and processReq implement the safety part of ImplementsLossyCalls:  *)
(* one answer per call, TRUE only for an executed request, and no request  *)
(* executed twice, whatever the administrator does meanwhile.              *)
(***************************************************************************)
THEOREM RefinesLossyCalls == Spec => Lossy!Safety
<1>1. Init => Lossy!Init
  BY InitRefines
<1>2. Inv /\ [Next]_vars => [Lossy!Next]_(Lossy!vars)
  BY NextRefines
<1> QED
  BY <1>1, <1>2, Invariance, PTL DEF Spec, Lossy!Safety

=============================================================================
