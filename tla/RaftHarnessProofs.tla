------------------------- MODULE RaftHarnessProofs -------------------------
(***************************************************************************)
(* The safety properties of raft/config.go, for every number of peers,     *)
(* calls, restarts and changes of links: what a peer confirmed survives    *)
(* every crash and restart and is known to the running instance, as long   *)
(* as peers save no snapshots; an old instance is cut off; links agree     *)
(* with what the harness believes.                                         *)
(***************************************************************************)
EXTENDS RaftHarness, TLAPS

USE ZenonT(30)

Places == {"idle", "send", "accepted", "request", "wait", "check", "reply", "returned"}
CallRecord ==
  [at : Places, end : Ends \cup {nil}, name : Servers \cup {nil}, obj : Objects \cup {nil},
   sure : BOOLEAN, ok : BOOLEAN]
Handlers == {"none", "started", "replies", "returned"}
Steps == {"disconnected", "deleted", "killed", "crashed", "made", "running"}
Store == [raftstate : SUBSET Calls, snapshot : SUBSET Calls]

NetTypes ==
  /\ reliable \in BOOLEAN /\ ends \subseteq Ends /\ used \subseteq Objects
  /\ enabled \in [Ends -> BOOLEAN]
  /\ connections \in [Ends -> Servers \cup {nil}]
  /\ servers \in [Servers -> Objects \cup {nil}]

CallTypes == call \in [Calls -> CallRecord] /\ handler \in [Calls -> Handlers]

PeerTypes ==
  /\ started \in [Servers -> 1 .. MaxStarts]
  /\ saved \in [Servers -> Servers \X (0 .. MaxStarts)]
  /\ store \in [Servers \X (0 .. MaxStarts) -> Store]
  /\ memory \in [Objects -> SUBSET Calls]

HarnessTypes ==
  /\ rafts \in [Servers -> Objects \cup {nil}]
  /\ connected \in [Servers -> BOOLEAN]
  /\ links \in 0 .. MaxLinks
  /\ op = Idle \/ op \in [fn : {"crash1", "start1"}, peer : Servers, at : Steps]

Types == NetTypes /\ CallTypes /\ PeerTypes /\ HarnessTypes

(***************************************************************************)
(* What the harness holds for peer i at each moment of crash1 and start1.  *)
(***************************************************************************)
Runs(i) == LET o == <<i, started[i]>> IN rafts[i] = o /\ saved[i] = o
Lies(i) == rafts[i] = nil /\ saved[i] = <<i, 0>>

Settled(i) ==
  \/ Runs(i) /\ servers[i] = <<i, started[i]>>
  \/ Lies(i) /\ servers[i] = nil

Underway(i) ==
  /\ op.at = "disconnected" => Settled(i)
  /\ op.at # "disconnected" => servers[i] = nil
  /\ op.at = "deleted" => Runs(i) \/ Lies(i)
  /\ op.at = "killed" => rafts[i] \in {<<i, started[i]>>, nil} /\ saved[i] = <<i, 0>>
  /\ op.at = "crashed" => Lies(i) /\ op.fn = "start1"
  /\ op.at = "made" => rafts[i] = nil /\ saved[i] = <<i, started[i]>>
  /\ op.at = "running" => Runs(i)
  /\ op.fn = "start1" /\ op.at \notin {"made", "running"} => started[i] < MaxStarts
  /\ ~ connected[i]

Moment(i) == (op.peer # i => Settled(i)) /\ (op.peer = i => Underway(i))

(* Which instances have been added to the network. *)
Added(i) ==
  \A k \in 1 .. MaxStarts :
    <<i, k>> \in used <=> k < started[i] \/ (k = started[i] /\ (op.peer = i => op.at \notin {"made", "running"}))

(* Which ends are enabled. *)
Linked(i, j) ==
  \A k \in 1 .. MaxStarts :
    enabled[<<i, k, j>>] <=> k = started[i] /\ connected[i] /\ connected[j]

PeersInv ==
  /\ \A i \in Servers : Moment(i) /\ Added(i) /\ (connected[i] => rafts[i] # nil)
  /\ \A i, j \in Servers : Linked(i, j)

(***************************************************************************)
(* How far a call and its handler have come.                               *)
(***************************************************************************)
Progress(c) ==
  /\ ~ At(c, "idle") => call[c].end \in Ends
  /\ call[c].at \in {"idle", "send", "accepted", "request"} => handler[c] = "none"
  /\ At(c, "wait") => ~ call[c].ok
  /\ At(c, "wait") \/ At(c, "check") => handler[c] # "none"
  /\ call[c].ok => handler[c] = "returned" /\ call[c].at \in {"check", "reply", "returned"}
  /\ At(c, "request") \/ handler[c] # "none" =>
       call[c].name \in Servers /\ call[c].obj \in used /\ call[c].obj[1] = call[c].name

CallsInv == \A c \in Calls : Progress(c)

Inv == Types /\ PeersInv /\ CallsInv

(***************************************************************************)
(* Without snapshots: an instance has persisted what it knows; the harness *)
(* holds no more than the running instance knows, and no less than what    *)
(* was confirmed.                                                          *)
(***************************************************************************)
Kept ==
  /\ \A p \in Servers \X (0 .. MaxStarts) : store[p].snapshot = {}
  /\ \A o \in used : store[o].raftstate = memory[o]
  /\ \A i \in Servers : rafts[i] # nil => store[saved[i]].raftstate \subseteq memory[rafts[i]]
  /\ \A i \in Servers : op.peer = i /\ op.at = "running" => store[saved[i]].raftstate = memory[rafts[i]]

Confirmed(c) ==
  /\ handler[c] \in {"replies", "returned"} => c \in memory[call[c].obj]
  /\ call[c].at \in {"reply", "returned"} /\ call[c].ok => c \in store[saved[call[c].name]].raftstate

AckInv == Kept /\ \A c \in Calls : Confirmed(c)

-----------------------------------------------------------------------------
USE NilAssumption

LEMMA InitInv == ASSUME Naming, make_config PROVE Inv
<1> USE DEF make_config, AllStarted, Naming
<1>1. NetTypes
  <2>1. reliable \in BOOLEAN /\ enabled \in [Ends -> BOOLEAN]
    OBVIOUS
  <2>2. ends \subseteq Ends /\ used \subseteq Objects /\ servers \in [Servers -> Objects \cup {nil}]
    BY SMTT(30) DEF Peers
  <2>3. connections \in [Ends -> Servers \cup {nil}]
    OBVIOUS
  <2> QED
    BY <2>1, <2>2, <2>3 DEF NetTypes
<1>2. CallTypes
  BY DEF NoCall, CallTypes, CallRecord, Places, Handlers
<1>3. PeerTypes
  BY SMTT(30) DEF PeerTypes, MakePersister, Store
<1>4. HarnessTypes
  BY SMTT(30) DEF HarnessTypes, Peers
<1>5. PeersInv
  <2>1. ASSUME NEW i \in Servers PROVE Moment(i) /\ Added(i) /\ (connected[i] => rafts[i] # nil)
    <3>1. op.peer # i
      BY DEF Idle
    <3>2. Settled(i)
      BY DEF Settled, Runs
    <3>3. Added(i)
      BY <3>1, SMTT(30) DEF Added
    <3>4. rafts[i] # nil
      BY SMTT(30)
    <3> QED
      BY <3>1, <3>2, <3>3, <3>4 DEF Moment
  <2>2. ASSUME NEW i \in Servers, NEW j \in Servers PROVE Linked(i, j)
    BY DEF Linked, Peers
  <2> QED
    BY <2>1, <2>2 DEF PeersInv
<1>6. CallsInv
  BY DEF CallsInv, Progress, At, NoCall
<1> QED
  BY <1>1, <1>2, <1>3, <1>4, <1>5, <1>6 DEF Inv, Types

(***************************************************************************)
(* connect and disconnect keep the ends and cfg.connected in agreement.    *)
(***************************************************************************)
LEMMA DisconnectLinks ==
  ASSUME Naming, Types, PeersInv, NEW i \in Servers, disconnect(i), UNCHANGED started
  PROVE  /\ enabled' \in [Ends -> BOOLEAN] /\ connected' \in [Servers -> BOOLEAN]
         /\ ~ connected'[i] /\ \A a \in Servers : connected'[a] => connected[a]
         /\ \A a, b \in Servers : Linked(a, b)'
<1> USE DEF Naming, Types, NetTypes, HarnessTypes, PeerTypes, disconnect, EnableAll
<1> DEFINE S == {endnames(i, j) : j \in Peers} \cup {endnames(j, i) : j \in Peers}
<1>1. connected' \in [Servers -> BOOLEAN] /\ ~ connected'[i] /\ \A a \in Servers : connected'[a] <=> connected[a] /\ a # i
  OBVIOUS
<1>2. enabled' \in [Ends -> BOOLEAN] /\ \A e \in Ends : enabled'[e] <=> enabled[e] /\ e \notin S
  OBVIOUS
<1>3. ASSUME NEW a \in Servers, NEW b \in Servers, NEW k \in 1 .. MaxStarts
      PROVE  <<a, k, b>> \in S <=> k = started[a] /\ (a = i \/ b = i)
  BY DEF endnames, Peers
<1>4. ASSUME NEW a \in Servers, NEW b \in Servers, NEW k \in 1 .. MaxStarts
      PROVE  enabled'[<<a, k, b>>] <=> k = started'[a] /\ connected'[a] /\ connected'[b]
  <2> HIDE DEF S
  <2>1. <<a, k, b>> \in Ends
    OBVIOUS
  <2>2. enabled[<<a, k, b>>] <=> k = started[a] /\ connected[a] /\ connected[b]
    BY DEF PeersInv, Linked
  <2>3. enabled'[<<a, k, b>>] <=> enabled[<<a, k, b>>] /\ <<a, k, b>> \notin S
    BY <1>2, <2>1
  <2>4. (connected'[a] <=> connected[a] /\ a # i) /\ (connected'[b] <=> connected[b] /\ b # i)
    BY <1>1
  <2>5. <<a, k, b>> \in S <=> k = started[a] /\ (a = i \/ b = i)
    BY <1>3
  <2>6. started'[a] = started[a]
    OBVIOUS
  <2> QED
    BY <2>2, <2>3, <2>4, <2>5, <2>6
<1> QED
  BY <1>1, <1>2, <1>4 DEF Linked

LEMMA ConnectLinks ==
  ASSUME Naming, Types, PeersInv, NEW i \in Servers, connect(i), UNCHANGED started
  PROVE  /\ enabled' \in [Ends -> BOOLEAN] /\ connected' \in [Servers -> BOOLEAN]
         /\ \A a \in Servers : connected'[a] <=> connected[a] \/ a = i
         /\ \A a, b \in Servers : Linked(a, b)'
<1> USE DEF Naming, Types, NetTypes, HarnessTypes, PeerTypes, connect, EnableAll
<1> DEFINE on == {j \in Peers : connected[j] \/ j = i}
           S == {endnames(i, j) : j \in on} \cup {endnames(j, i) : j \in on}
<1>1. connected' \in [Servers -> BOOLEAN] /\ \A a \in Servers : connected'[a] <=> connected[a] \/ a = i
  OBVIOUS
<1>2. enabled' \in [Ends -> BOOLEAN] /\ \A e \in Ends : enabled'[e] <=> enabled[e] \/ e \in S
  OBVIOUS
<1>3. ASSUME NEW a \in Servers, NEW b \in Servers, NEW k \in 1 .. MaxStarts
      PROVE  <<a, k, b>> \in S <=> /\ k = started[a]
                                   /\ \/ a = i /\ (connected[b] \/ b = i)
                                      \/ b = i /\ (connected[a] \/ a = i)
  BY DEF endnames, Peers
<1>4. ASSUME NEW a \in Servers, NEW b \in Servers, NEW k \in 1 .. MaxStarts
      PROVE  enabled'[<<a, k, b>>] <=> k = started'[a] /\ connected'[a] /\ connected'[b]
  <2> HIDE DEF S
  <2>1. <<a, k, b>> \in Ends
    OBVIOUS
  <2>2. enabled[<<a, k, b>>] <=> k = started[a] /\ connected[a] /\ connected[b]
    BY DEF PeersInv, Linked
  <2> QED
    BY <1>1, <1>2, <1>3, <2>1, <2>2
<1> QED
  BY <1>1, <1>2, <1>4 DEF Linked

(***************************************************************************)
(* A step that leaves the calls alone and only adds objects leaves them    *)
(* where they were.                                                        *)
(***************************************************************************)
LEMMA CallsKept ==
  ASSUME CallTypes, CallsInv, UNCHANGED <<call, handler>>, used \subseteq used'
  PROVE  CallTypes' /\ CallsInv'
BY DEF CallTypes, CallsInv, Progress, At

(***************************************************************************)
(* Relink and the beginning of crash1 or start1.                           *)
(***************************************************************************)
LEMMA RelinkInv == ASSUME Naming, Inv, Relink PROVE Inv'
<1> USE DEF Inv, Relink
<1>1. PICK i \in Servers : \/ rafts[i] # nil /\ ~ connected[i] /\ connect(i)
                           \/ connected[i] /\ disconnect(i)
  BY DEF Peers
<1>2. /\ UNCHANGED <<servers, rafts, saved, store, memory, op, used, started, call, handler, reliable, ends, connections>>
      /\ op = Idle /\ links' \in 0 .. MaxLinks
  BY SMTT(30) DEF pvars, Naming, Types, HarnessTypes
<1>3. /\ enabled' \in [Ends -> BOOLEAN] /\ connected' \in [Servers -> BOOLEAN]
      /\ \A a \in Servers : connected'[a] => connected[a] \/ (a = i /\ rafts[i] # nil)
      /\ \A a, b \in Servers : Linked(a, b)'
  <2>1. CASE connected[i] /\ disconnect(i)
    BY <1>2, <2>1, DisconnectLinks
  <2>2. CASE rafts[i] # nil /\ ~ connected[i] /\ connect(i)
    BY <1>2, <2>2, ConnectLinks
  <2> QED
    BY <1>1, <2>1, <2>2
<1>4. Types'
  BY <1>2, <1>3, CallsKept DEF Types, NetTypes, PeerTypes, HarnessTypes
<1>5. ASSUME NEW a \in Servers PROVE Moment(a)' /\ Added(a)' /\ (connected'[a] => rafts'[a] # nil)
  <2>1. op.peer # a
    BY <1>2, SMTT(30) DEF Idle
  <2> QED
    BY <1>2, <1>3, <2>1 DEF PeersInv, Moment, Settled, Runs, Lies, Added
<1> QED
  BY <1>2, <1>3, <1>4, <1>5, CallsKept DEF PeersInv, Types

LEMMA CrashInv ==
  ASSUME Naming, Inv, NEW i \in Servers, NEW fn \in {"crash1", "start1"}, crash1(i, fn),
         fn = "start1" => started[i] < MaxStarts
  PROVE  Inv'
<1> USE DEF Inv, crash1
<1>2. /\ UNCHANGED <<servers, rafts, saved, store, memory, used, started, call, handler, reliable, ends, connections, links>>
      /\ op = Idle /\ op' = [fn |-> fn, peer |-> i, at |-> "disconnected"]
  BY DEF pvars
<1>3. /\ enabled' \in [Ends -> BOOLEAN] /\ connected' \in [Servers -> BOOLEAN]
      /\ ~ connected'[i] /\ \A a \in Servers : connected'[a] => connected[a]
      /\ \A a, b \in Servers : Linked(a, b)'
  BY <1>2, DisconnectLinks
<1>4. Types'
  BY <1>2, <1>3, CallsKept, SMTT(30) DEF Types, NetTypes, PeerTypes, HarnessTypes, Steps
<1>5. ASSUME NEW a \in Servers PROVE Moment(a)' /\ Added(a)' /\ (connected'[a] => rafts'[a] # nil)
  <2>1. op.peer # a
    BY <1>2, SMTT(30) DEF Idle
  <2> QED
    BY <1>2, <1>3, <2>1, SMTT(30) DEF PeersInv, Moment, Underway, Settled, Runs, Lies, Added
<1> QED
  BY <1>2, <1>3, <1>4, <1>5, CallsKept DEF PeersInv, Types

(***************************************************************************)
(* The other steps of crash1 and start1 move one peer on; connected and    *)
(* enabled stay, and so does everything of the other peers.                *)
(***************************************************************************)
LEMMA HarnessStepInv == ASSUME Naming, Inv, NEW i \in Servers, HarnessStep(i) PROVE Inv'
<1> USE DEF Inv
<1>1. /\ op \in [fn : {"crash1", "start1"}, peer : Servers, at : Steps] /\ op.peer = i
      /\ UNCHANGED <<call, handler, connected, enabled, links, reliable>>
  <2>1. op.peer = i
    BY DEF HarnessStep, crash1Deletes, crash1Copies, crash1Ends, start1Copies, start1, Make, start1Ends
  <2>2. UNCHANGED <<call, handler, connected, enabled, links, reliable>>
    BY DEF HarnessStep, crash1Deletes, crash1Copies, crash1Ends, start1Copies, start1, Make, start1Ends,
           DeleteServer, AddServer, netVars, pvars
  <2> QED
    BY <2>1, <2>2, SMTT(30) DEF Types, HarnessTypes, Idle
<1>2. /\ op' = Idle \/ (op' \in [fn : {"crash1", "start1"}, peer : Servers, at : Steps] /\ op'.peer = i /\ op'.fn = op.fn)
      /\ Underway(i) /\ Added(i) /\ (connected[i] => rafts[i] # nil)
      /\ started[i] \in 1 .. MaxStarts
  <2>1. op' = Idle \/ (op' \in [fn : {"crash1", "start1"}, peer : Servers, at : Steps] /\ op'.peer = i /\ op'.fn = op.fn)
    BY <1>1 DEF HarnessStep, crash1Deletes, crash1Copies, crash1Ends, start1Copies, start1, Make, start1Ends, Steps
  <2> QED
    BY <1>1, <2>1 DEF PeersInv, Moment, Types, PeerTypes
(* What each step does to the instances. *)
<1>3. /\ started' \in [Servers -> 1 .. MaxStarts] /\ used' \subseteq Objects /\ used \subseteq used'
      /\ servers' \in [Servers -> Objects \cup {nil}] /\ rafts' \in [Servers -> Objects \cup {nil}]
      /\ saved' \in [Servers -> Servers \X (0 .. MaxStarts)]
      /\ \A a \in Servers \ {i} : /\ started'[a] = started[a] /\ servers'[a] = servers[a]
                                  /\ rafts'[a] = rafts[a] /\ saved'[a] = saved[a]
                                  /\ \A k \in 1 .. MaxStarts : <<a, k>> \in used' <=> <<a, k>> \in used
      /\ started'[i] \in {started[i], started[i] + 1}
      /\ Moment(i)' /\ Added(i)'
  <2> USE <1>1, <1>2 DEF Types, NetTypes, PeerTypes, HarnessTypes, Naming, Idle, Moment, Underway, Settled, Runs, Lies, Added
  <2>1. CASE crash1Deletes(i)
    BY <2>1 DEF crash1Deletes, DeleteServer, pvars
  <2>2. CASE crash1Copies(i)
    BY <2>2, SMTT(30) DEF crash1Copies, netVars
  <2>3. CASE crash1Ends(i)
    BY <2>3 DEF crash1Ends, netVars
  <2>4. CASE start1Copies(i)
    <3>1. op.at = "crashed" /\ started[i] < MaxStarts
      BY <2>4 DEF start1Copies, start1
    <3>2. /\ started' = [started EXCEPT ![i] = started[i] + 1] /\ saved' = [saved EXCEPT ![i] = <<i, started[i] + 1>>]
          /\ op' = [op EXCEPT !.at = "made"] /\ UNCHANGED <<used, servers, rafts>>
      BY <2>4 DEF start1Copies, start1
    <3>3. started'[i] = started[i] + 1 /\ saved'[i] = <<i, started[i] + 1>> /\ op'.at = "made" /\ op'.peer = i
      BY <3>1, <3>2
    <3>4. Moment(i)'
      BY <3>1, <3>2, <3>3
    <3>5. Added(i)'
      BY <3>1, <3>2, <3>3, SMTT(30)
    <3>6. started' \in [Servers -> 1 .. MaxStarts] /\ saved' \in [Servers -> Servers \X (0 .. MaxStarts)]
      BY <3>1, <3>2, SMTT(30)
    <3> QED
      BY <3>2, <3>3, <3>4, <3>5, <3>6, SMTT(30)
  <2>5. CASE Make(i)
    BY <2>5 DEF Make, netVars
  <2>6. CASE start1Ends(i)
    BY <2>6, SMTT(30) DEF start1Ends, AddServer, pvars
  <2> QED
    BY <2>1, <2>2, <2>3, <2>4, <2>5, <2>6 DEF HarnessStep

<1>4. Types'
  <2> USE DEF Types, NetTypes, PeerTypes, Naming
  <2>1. ends' \subseteq Ends /\ connections' \in [Ends -> Servers \cup {nil}]
    <3>1. CASE start1Copies(i)
      <4>1. started[i] + 1 \in 1 .. MaxStarts
        BY <1>1, <1>2, <3>1, SMTT(30) DEF start1Copies, start1, Underway
      <4>2. ends' = ends \cup {<<i, started[i] + 1, j>> : j \in Servers}
        BY <3>1 DEF start1Copies, start1, Peers
      <4> QED
        BY <3>1, <4>1, <4>2, SMTT(30) DEF start1Copies, start1
    <3>2. CASE UNCHANGED <<ends, connections>>
      BY <3>2
    <3> QED
      BY <3>1, <3>2 DEF HarnessStep, crash1Deletes, crash1Copies, crash1Ends, Make, start1Ends,
           DeleteServer, AddServer, netVars
  <2>2. store' \in [Servers \X (0 .. MaxStarts) -> Store]
    <3>1. \A p \in Servers \X (0 .. MaxStarts) : store[p] \in Store /\ SaveRaftState(MakePersister, store[p].raftstate) \in Store
      BY DEF Store, SaveRaftState, MakePersister
    <3>2. saved[i] \in Servers \X (0 .. MaxStarts)
      OBVIOUS
    <3>3. \E p \in Servers \X (0 .. MaxStarts), v \in Store : store' \in {store, [store EXCEPT ![p] = v]}
      <4>1. CASE crash1Copies(i)
        BY <3>1, <3>2, <4>1 DEF crash1Copies, Copy
      <4>2. CASE crash1Ends(i)
        BY <3>1, <3>2, <4>2 DEF crash1Ends
      <4>3. CASE start1Copies(i)
        BY <3>1, <3>2, <4>3, <1>1, <1>2 DEF start1Copies, start1, Copy, Underway
      <4>4. CASE UNCHANGED store
        BY <3>1, <3>2, <4>4
      <4> QED
        BY <4>1, <4>2, <4>3, <4>4 DEF HarnessStep, crash1Deletes, Make, start1Ends, pvars
    <3> QED
      BY <3>3, SMTT(30)
  <2>3. memory' \in [Objects -> SUBSET Calls]
    <3>1. CASE Make(i)
      BY <3>1 DEF Make, Persisted, Store
    <3> QED
      BY <3>1 DEF HarnessStep, crash1Deletes, crash1Copies, crash1Ends, start1Copies, start1, start1Ends, pvars
  <2> QED
    BY <1>1, <1>2, <1>3, <2>1, <2>2, <2>3, CallsKept DEF HarnessTypes
<1>5. PeersInv'
  <2>1. ASSUME NEW a \in Servers PROVE Moment(a)' /\ Added(a)' /\ (connected'[a] => rafts'[a] # nil)
    <3>1. CASE a = i
      BY <1>1, <1>2, <1>3, <3>1 DEF Underway
    <3>2. CASE a # i
      <4>1. op.peer # a /\ op'.peer # a
        BY <1>1, <1>2, <3>2, SMTT(30) DEF Idle
      <4>2. Settled(a) /\ Added(a) /\ (connected[a] => rafts[a] # nil)
        BY <4>1 DEF PeersInv, Moment
      <4> QED
        BY <1>1, <1>3, <3>2, <4>1, <4>2 DEF Moment, Settled, Runs, Lies, Added
    <3> QED
      BY <3>1, <3>2
  <2>2. ASSUME NEW a \in Servers, NEW b \in Servers PROVE Linked(a, b)'
    <3>1. Linked(a, b) /\ ~ connected[i]
      BY <1>2 DEF PeersInv, Underway
    <3> QED
      BY <1>1, <1>3, <3>1 DEF Linked
  <2> QED
    BY <2>1, <2>2 DEF PeersInv
<1> QED
  BY <1>1, <1>3, <1>4, <1>5, CallsKept DEF Types

-----------------------------------------------------------------------------
(***************************************************************************)
(* A step of labrpc, seen from the harness: one call moves on; an object   *)
(* it was sent to stays; and it becomes positive only while the server it  *)
(* was sent to is still installed.                                         *)
(***************************************************************************)
Moves(c, r, h) ==
  /\ call' = [call EXCEPT ![c] = r]
  /\ handler' = [handler EXCEPT ![c] = h]
  /\ handler[c] # "none" => r.obj = call[c].obj /\ r.name = call[c].name
  /\ h \in {"replies", "returned"} <=> handler[c] \in {"replies", "returned"}
  /\ r.at \in {"reply", "returned"} /\ r.ok =>
       /\ call[c].ok
       /\ call[c].at \in {"reply", "returned"} \/ servers[call[c].name] = call[c].obj

ProgressOf(r, h) ==
  /\ r.at # "idle" => r.end \in Ends
  /\ r.at \in {"idle", "send", "accepted", "request"} => h = "none"
  /\ r.at = "wait" => ~ r.ok
  /\ r.at \in {"wait", "check"} => h # "none"
  /\ r.ok => h = "returned" /\ r.at \in {"check", "reply", "returned"}
  /\ r.at = "request" \/ h # "none" => r.name \in Servers /\ r.obj \in used /\ r.obj[1] = r.name

LEMMA RpcMoves ==
  ASSUME Naming, Inv, NEW c \in Calls,
         ClientStep(c) \/ RequestStep(c) \/ (\E o \in Objects : PeerCalls(c, o))
  PROVE  /\ UNCHANGED netVars
         /\ \E r \in CallRecord, h \in Handlers : Moves(c, r, h) /\ ProgressOf(r, h)
<1>1. /\ call \in [Calls -> CallRecord] /\ call[c] \in CallRecord
      /\ handler \in [Calls -> Handlers] /\ handler[c] \in Handlers
      /\ Progress(c) /\ ends \subseteq Ends
  BY DEF Inv, Types, NetTypes, CallTypes, CallsInv
<1>2. UNCHANGED netVars
  BY DEF ClientStep, CallSent, CallDestroyed, CallReturns, PeerCalls, Call, RequestStep, processReq, DropRequest,
         StartHandler, TakeReply, GiveUp, Answers, DrainHandler
<1> DEFINE Goal(r, h) == r \in CallRecord /\ h \in Handlers /\ Moves(c, r, h) /\ ProgressOf(r, h)
<1> SUFFICES \E r, h : Goal(r, h)
  BY <1>2
<1>3. CASE processReq(c)
  <2> DEFINE info == readEndnameInfo(c)
             live == enabled[info.end] /\ info.name # nil /\ info.obj # nil
             r == [info EXCEPT !.at = IF live THEN "request" ELSE "reply"]
  <2>1. /\ call[c].end \in Ends /\ ~ call[c].ok /\ handler[c] = "none"
    BY <1>1, <1>3 DEF processReq, Progress, At
  <2>2. /\ info \in CallRecord
        /\ info.end = call[c].end /\ info.ok = call[c].ok
        /\ info.name # nil /\ info.obj # nil => info.name \in Servers /\ info.obj = servers[info.name]
    BY <1>1, <2>1 DEF readEndnameInfo, CallRecord, Inv, Types, NetTypes
  <2>3. r \in CallRecord /\ r.end = call[c].end /\ r.ok = call[c].ok /\ r.at \in {"request", "reply"}
        /\ (r.at = "request" => r.name \in Servers /\ r.obj = servers[r.name] /\ r.obj # nil)
    <3> HIDE DEF info
    <3> QED
      BY <2>2 DEF CallRecord, Places
  <2>4. ASSUME NEW s \in Servers, servers[s] # nil PROVE servers[s] = <<s, started[s]>> /\ <<s, started[s]>> \in used
    <3>1. Moment(s) /\ Added(s) /\ started[s] \in 1 .. MaxStarts
      BY DEF Inv, PeersInv, Types, PeerTypes
    <3> QED
      BY <2>4, <3>1 DEF Moment, Added, Settled, Underway, Runs, Lies
  <2>5. call' = [call EXCEPT ![c] = r] /\ handler' = [handler EXCEPT ![c] = "none"]
    BY <1>1, <1>3, <2>1 DEF processReq
  <2> HIDE DEF r
  <2>6. r.at = "request" => r.name \in Servers /\ r.obj \in used /\ r.obj[1] = r.name
    <3>1. ASSUME r.at = "request" PROVE r.name \in Servers /\ r.obj = <<r.name, started[r.name]>> /\ r.obj \in used
      BY <2>3, <2>4, <3>1
    <3> QED
      BY <3>1, SMTT(30)
  <2>7. ProgressOf(r, "none")
    BY <2>1, <2>3, <2>6 DEF ProgressOf
  <2>8. Moves(c, r, "none")
    BY <2>1, <2>3, <2>5 DEF Moves
  <2> QED
    BY <2>3, <2>7, <2>8 DEF Handlers
<1>4. CASE DropRequest(c)
  <2> DEFINE r == [call[c] EXCEPT !.at = "reply"]
  <2>1. Goal(r, handler[c])
    BY <1>1, <1>4 DEF DropRequest, CallRecord, Places, Moves, ProgressOf, Progress, At
  <2> QED
    BY <2>1
<1>5. CASE StartHandler(c)
  <2> DEFINE r == [call[c] EXCEPT !.at = "wait"]
  <2>1. Goal(r, "started")
    BY <1>1, <1>5 DEF StartHandler, CallRecord, Places, Handlers, Moves, ProgressOf, Progress, At
  <2> QED
    BY <2>1
<1>6. CASE TakeReply(c)
  <2> DEFINE r == [call[c] EXCEPT !.at = "check", !.ok = TRUE]
  <2>1. Goal(r, "returned")
    BY <1>1, <1>6 DEF TakeReply, CallRecord, Places, Handlers, Moves, ProgressOf, Progress, At
  <2> QED
    BY <2>1
<1>7. CASE GiveUp(c)
  <2> DEFINE r == [call[c] EXCEPT !.at = "check"]
  <2>1. Goal(r, handler[c])
    BY <1>1, <1>7 DEF GiveUp, CallRecord, Places, Moves, ProgressOf, Progress, At
  <2> QED
    BY <2>1
<1>8. CASE Answers(c)
  <2>1. PICK ok \in BOOLEAN :
          /\ ok => call[c].ok /\ ~ isServerDead(c)
          /\ call' = [call EXCEPT ![c].at = "reply", ![c].ok = ok]
    BY <1>8 DEF Answers
  <2> DEFINE r == [call[c] EXCEPT !.at = "reply", !.ok = ok]
  <2>2. ok => call[c].ok /\ servers[call[c].name] = call[c].obj
    BY <2>1 DEF isServerDead
  <2>3. Goal(r, handler[c])
    BY <1>1, <1>8, <2>1, <2>2 DEF Answers, CallRecord, Places, Moves, ProgressOf, Progress, At
  <2> QED
    BY <2>3
<1>9. CASE DrainHandler(c)
  <2>1. Goal(call[c], "returned")
    BY <1>1, <1>9 DEF DrainHandler, Handlers, Moves, ProgressOf, Progress, At
  <2> QED
    BY <2>1
<1>10. CASE ClientStep(c)
  <2>1. PICK p \in {"accepted", "returned"} :
          /\ call' = [call EXCEPT ![c].at = p] /\ UNCHANGED handler
          /\ call[c].at = "send" \/ (call[c].at = "reply" /\ p = "returned")
    BY <1>10 DEF ClientStep, CallSent, CallDestroyed, CallReturns, At
  <2> DEFINE r == [call[c] EXCEPT !.at = p]
  <2>2. Goal(r, handler[c])
    BY <1>1, <2>1 DEF CallRecord, Places, Moves, ProgressOf, Progress, At
  <2> QED
    BY <2>2
<1>11. CASE \E o \in Objects : PeerCalls(c, o)
  <2>1. PICK e : Call(c, e)
    BY <1>11 DEF PeerCalls
  <2> DEFINE r == [call[c] EXCEPT !.at = "send", !.end = e]
  <2>2. Goal(r, handler[c])
    BY <1>1, <2>1 DEF Call, CallRecord, Places, Moves, ProgressOf, Progress, At
  <2> QED
    BY <2>2
<1> QED
  BY <1>3, <1>4, <1>5, <1>6, <1>7, <1>8, <1>9, <1>10, <1>11 DEF RequestStep

LEMMA MovesInv ==
  ASSUME Naming, Inv, NEW c \in Calls, NEW r \in CallRecord, NEW h \in Handlers,
         call' = [call EXCEPT ![c] = r], handler' = [handler EXCEPT ![c] = h], ProgressOf(r, h),
         UNCHANGED <<netVars, started, saved, hvars>>,
         store' \in [Servers \X (0 .. MaxStarts) -> Store], memory' \in [Objects -> SUBSET Calls]
  PROVE  Inv'
<1> USE DEF Inv
<1>1. UNCHANGED <<reliable, ends, enabled, connections, servers, used, rafts, connected, op, links, started, saved>>
  BY DEF netVars, hvars
<1>2. Types'
  BY <1>1 DEF Types, NetTypes, CallTypes, PeerTypes, HarnessTypes
<1>3. PeersInv'
  BY <1>1, SMTT(30) DEF PeersInv, Moment, Settled, Underway, Runs, Lies, Added, Linked
<1>4. ASSUME NEW d \in Calls PROVE Progress(d)'
  <2>1. CASE d = c
    BY <1>1, <2>1 DEF ProgressOf, Progress, At, Types, CallTypes
  <2>2. CASE d # c
    BY <1>1, <2>2 DEF CallsInv, Progress, At, Types, CallTypes
  <2> QED
    BY <2>1, <2>2
<1> QED
  BY <1>2, <1>3, <1>4 DEF CallsInv

LEMMA RpcInv ==
  ASSUME Naming, Inv, NEW c \in Calls, UNCHANGED <<pvars, hvars>>,
         ClientStep(c) \/ RequestStep(c) \/ (\E o \in Objects : PeerCalls(c, o))
  PROVE  Inv'
<1>1. PICK r \in CallRecord, h \in Handlers : Moves(c, r, h) /\ ProgressOf(r, h) /\ UNCHANGED netVars
  BY RpcMoves
<1> QED
  BY <1>1, MovesInv DEF Moves, pvars, Inv, Types, PeerTypes

(***************************************************************************)
(* A handler runs and saves; a peer saves a snapshot.                      *)
(***************************************************************************)
LEMMA SavesInv == ASSUME Naming, Inv, NEW c \in Calls, HandlerSaves(c), UNCHANGED hvars PROVE Inv'
<1>1. /\ call \in [Calls -> CallRecord] /\ call[c] \in CallRecord
      /\ handler \in [Calls -> Handlers] /\ handler[c] = "started"
      /\ Progress(c) /\ call[c].obj \in Objects /\ call[c].obj \in Servers \X (0 .. MaxStarts)
  <2>1. handler[c] = "started"
    BY DEF HandlerSaves, RunHandler
  <2> QED
    BY <2>1, SMTT(30) DEF Inv, Types, NetTypes, CallTypes, CallsInv, Progress, Naming
<1>2. /\ call' = [call EXCEPT ![c] = call[c]] /\ handler' = [handler EXCEPT ![c] = "replies"]
      /\ UNCHANGED <<netVars, started, saved>>
  BY <1>1 DEF HandlerSaves, RunHandler
<1>3. ProgressOf(call[c], "replies")
  BY <1>1 DEF ProgressOf, Progress, At
<1>4. memory' \in [Objects -> SUBSET Calls]
  BY <1>1 DEF HandlerSaves, Inv, Types, PeerTypes
<1>5. store' \in [Servers \X (0 .. MaxStarts) -> Store]
  <2> DEFINE o == call[c].obj
             v == SaveRaftState(store[o], memory'[o] \ store[o].snapshot)
  <2>1. store' = [store EXCEPT ![o] = v] /\ store \in [Servers \X (0 .. MaxStarts) -> Store]
    BY <1>1 DEF HandlerSaves, Inv, Types, PeerTypes
  <2>2. store[o] \in Store /\ memory'[o] \subseteq Calls
    BY <1>1, <1>4, <2>1
  <2>3. v \in Store
    BY <2>2 DEF SaveRaftState, Store
  <2> QED
    BY <2>1, <2>3
<1> QED
  BY <1>1, <1>2, <1>3, <1>4, <1>5, MovesInv DEF Handlers

LEMMA StutterInv ==
  ASSUME Inv, UNCHANGED <<netVars, call, handler, started, saved, memory, hvars>>,
         store' \in [Servers \X (0 .. MaxStarts) -> Store]
  PROVE  Inv'
<1> USE DEF Inv
<1>1. UNCHANGED <<reliable, ends, enabled, connections, servers, used, rafts, connected, op, links, started, saved>>
  BY DEF netVars, hvars
<1>2. Types'
  BY <1>1 DEF Types, NetTypes, CallTypes, PeerTypes, HarnessTypes
<1>3. PeersInv'
  BY <1>1, SMTT(30) DEF PeersInv, Moment, Settled, Underway, Runs, Lies, Added, Linked
<1> QED
  BY <1>1, <1>2, <1>3, CallsKept DEF Types

LEMMA NextInv == ASSUME Naming, Inv, [Next]_vars PROVE Inv'
<1>1. CASE Relink
  BY <1>1, RelinkInv
<1>2. CASE \E i \in Peers : \/ rafts[i] # nil /\ crash1(i, "crash1")
                            \/ started[i] < MaxStarts /\ crash1(i, "start1")
  BY <1>2, CrashInv DEF Peers
<1>3. CASE \E i \in Peers : HarnessStep(i)
  BY <1>3, HarnessStepInv DEF Peers
<1>4. CASE \E c \in Calls : HandlerSaves(c) /\ UNCHANGED hvars
  BY <1>4, SavesInv
<1>5. CASE \E o \in Objects : PeerSnapshots(o) /\ UNCHANGED hvars
  <2>1. PICK o \in Objects : PeerSnapshots(o) /\ UNCHANGED hvars
    BY <1>5
  <2>2. o \in Servers \X (0 .. MaxStarts)
    BY SMTT(30) DEF Naming
  <2>3. store' \in [Servers \X (0 .. MaxStarts) -> Store]
    BY <2>1, <2>2 DEF PeerSnapshots, SaveStateAndSnapshot, Store, Inv, Types, PeerTypes
  <2> QED
    BY <2>1, <2>3, StutterInv DEF PeerSnapshots
<1>6. CASE /\ \E c \in Calls : ClientStep(c) \/ RequestStep(c) \/ \E o \in Objects : PeerCalls(c, o)
           /\ UNCHANGED <<pvars, hvars>>
  BY <1>6, RpcInv
<1>7. CASE UNCHANGED vars
  BY <1>7, StutterInv DEF vars, lvars, pvars, Inv, Types, PeerTypes
<1> QED
  BY <1>1, <1>2, <1>3, <1>4, <1>5, <1>6, <1>7 DEF Next

-----------------------------------------------------------------------------
(* What is confirmed stays, if peers save no snapshots. *)

LEMMA InitAck == ASSUME Naming, make_config PROVE AckInv
<1> USE DEF make_config, AllStarted, Naming
<1>1. /\ \A p \in Servers \X (0 .. MaxStarts) : store[p].snapshot = {} /\ store[p].raftstate = {}
      /\ \A o \in Objects : memory[o] = {}
  BY DEF MakePersister
<1>2. \A i \in Servers : saved[i] \in Servers \X (0 .. MaxStarts) /\ rafts[i] \in Objects /\ op.peer # i
  BY SMTT(30) DEF Idle
<1>3. used \subseteq Objects /\ used \subseteq Servers \X (0 .. MaxStarts)
  BY SMTT(30)
<1>4. Kept
  BY <1>1, <1>2, <1>3 DEF Kept
<1>5. ASSUME NEW c \in Calls PROVE Confirmed(c)
  BY DEF Confirmed, NoCall
<1> QED
  BY <1>4, <1>5 DEF AckInv

(***************************************************************************)
(* A step that leaves the calls alone keeps what is confirmed, if no       *)
(* Persister the harness holds and no instance forgets.                    *)
(***************************************************************************)
LEMMA ConfirmedKept ==
  ASSUME Inv, AckInv, UNCHANGED <<call, handler>>,
         \A i \in Servers : store[saved[i]].raftstate \subseteq store'[saved'[i]].raftstate,
         \A o \in used : memory[o] \subseteq memory'[o]
  PROVE  \A c \in Calls : Confirmed(c)'
<1> SUFFICES ASSUME NEW c \in Calls PROVE Confirmed(c)'
  OBVIOUS
<1>1. Progress(c) /\ Confirmed(c)
  BY DEF Inv, CallsInv, AckInv
<1> QED
  BY <1>1 DEF Progress, Confirmed

LEMMA KeptFrom ==
  ASSUME Kept, UNCHANGED <<used, memory>>, op'.at # "running",
         \A p \in Servers \X (0 .. MaxStarts) : store'[p].snapshot = {},
         \A o \in used : store'[o] = store[o],
         \A i \in Servers : /\ store'[saved'[i]].raftstate = store[saved[i]].raftstate
                            /\ rafts'[i] # nil => rafts'[i] = rafts[i]
  PROVE  /\ Kept'
         /\ \A a \in Servers : store[saved[a]].raftstate \subseteq store'[saved'[a]].raftstate
         /\ \A o \in used : memory[o] \subseteq memory'[o]
BY DEF Kept

LEMMA HarnessStepAck == ASSUME Naming, Inv, AckInv, NEW i \in Servers, HarnessStep(i) PROVE AckInv'
<1>1. /\ op.peer = i /\ op.at \in Steps /\ Underway(i) /\ Added(i) /\ UNCHANGED <<call, handler>>
      /\ started[i] \in 1 .. MaxStarts
      /\ saved \in [Servers -> Servers \X (0 .. MaxStarts)]
      /\ store \in [Servers \X (0 .. MaxStarts) -> Store]
      /\ memory \in [Objects -> SUBSET Calls]
      /\ rafts \in [Servers -> Objects \cup {nil}]
      /\ op \in [fn : {"crash1", "start1"}, peer : Servers, at : Steps]
      /\ used \subseteq Objects
  <2>1. op.peer = i
    BY DEF HarnessStep, crash1Deletes, crash1Copies, crash1Ends, start1Copies, start1, Make, start1Ends
  <2>2. UNCHANGED <<call, handler>>
    BY DEF HarnessStep, crash1Deletes, crash1Copies, crash1Ends, start1Copies, start1, Make, start1Ends
  <2> QED
    BY <2>1, <2>2, SMTT(30) DEF Inv, Types, NetTypes, PeerTypes, HarnessTypes, Idle, PeersInv, Moment
<1>2. ASSUME NEW a \in Servers, a # i
      PROVE  /\ op.peer # a /\ Settled(a) /\ Added(a) /\ started[a] \in 1 .. MaxStarts
             /\ saved[a] \in {<<a, started[a]>>, <<a, 0>>}
  <2>1. op.peer # a /\ Moment(a) /\ Added(a) /\ started[a] \in 1 .. MaxStarts
    BY <1>1, <1>2 DEF Inv, Types, PeerTypes, PeersInv
  <2> QED
    BY <2>1 DEF Moment, Settled, Runs, Lies
<1>3. Kept
  BY DEF AckInv
<1> SUFFICES /\ Kept'
             /\ \A a \in Servers : store[saved[a]].raftstate \subseteq store'[saved'[a]].raftstate
             /\ \A o \in used : memory[o] \subseteq memory'[o]
  BY <1>1, ConfirmedKept DEF AckInv
<1> USE DEF Naming
<1>4. CASE crash1Deletes(i)
  BY <1>1, <1>3, <1>4 DEF crash1Deletes, DeleteServer, pvars, Kept
<1>5. CASE crash1Copies(i)
  <2> DEFINE p == <<i, 0>>
             v == store[saved[i]]
  <2>1. /\ store' = [store EXCEPT ![p] = v] /\ saved' = [saved EXCEPT ![i] = p]
        /\ op'.at = "killed" /\ UNCHANGED <<memory, rafts, used>>
    BY <1>1, <1>5 DEF crash1Copies, Copy, netVars
  <2>2. p \in Servers \X (0 .. MaxStarts) /\ store'[p] = v /\ saved'[i] = p
        /\ \A q \in Servers \X (0 .. MaxStarts) : q # p => store'[q] = store[q]
    BY <1>1, <2>1, SMTT(30)
  <2>3. \A a \in Servers : store'[saved'[a]] = store[saved[a]]
    BY <1>1, <1>2, <2>1, <2>2, SMTT(30)
  <2>4. \A o \in used : store'[o] = store[o]
    BY <1>1, <2>2, SMTT(30)
  <2>5. v.snapshot = {}
    BY <1>1, <1>3 DEF Kept
  <2>6. \A q \in Servers \X (0 .. MaxStarts) : store'[q].snapshot = {}
    BY <1>3, <2>2, <2>5 DEF Kept
  <2> QED
    BY <1>3, <2>1, <2>3, <2>4, <2>6, KeptFrom
<1>6. CASE crash1Ends(i)
  <2> DEFINE p == <<i, 0>>
             v == SaveRaftState(MakePersister, store[saved[i]].raftstate)
  <2>1. /\ store' = [store EXCEPT ![p] = v] /\ saved[i] = p
        /\ rafts' = [rafts EXCEPT ![i] = nil]
        /\ op'.at # "running" /\ UNCHANGED <<memory, saved, used>>
    BY <1>1, <1>6 DEF crash1Ends, netVars, Underway, Idle
  <2>2. p \in Servers \X (0 .. MaxStarts) /\ store'[p] = v
        /\ \A q \in Servers \X (0 .. MaxStarts) : q # p => store'[q] = store[q]
    BY <1>1, <2>1
  <2>3. v.raftstate = store[saved[i]].raftstate /\ v.snapshot = {}
    BY DEF SaveRaftState, MakePersister
  <2>4. \A a \in Servers : store'[saved'[a]].raftstate = store[saved[a]].raftstate
    BY <1>1, <1>2, <2>1, <2>2, <2>3
  <2>5. \A o \in used : store'[o] = store[o]
    BY <1>1, <2>2, SMTT(30)
  <2>6. \A a \in Servers : rafts'[a] # nil => rafts'[a] = rafts[a]
    BY <1>1, <2>1
  <2>7. \A q \in Servers \X (0 .. MaxStarts) : store'[q].snapshot = {}
    BY <1>3, <2>2, <2>3 DEF Kept
  <2> QED
    BY <1>3, <2>1, <2>4, <2>5, <2>6, <2>7, KeptFrom
<1>7. CASE start1Copies(i)
  <2> DEFINE p == <<i, started[i] + 1>>
             v == store[saved[i]]
  <2>1. /\ store' = [store EXCEPT ![p] = v] /\ saved' = [saved EXCEPT ![i] = p]
        /\ op'.at = "made" /\ UNCHANGED <<memory, rafts, used>>
        /\ started[i] < MaxStarts /\ op.at = "crashed"
    BY <1>1, <1>7 DEF start1Copies, start1, Copy, Underway
  <2>2. p \in Servers \X (0 .. MaxStarts) /\ p \in Objects /\ p \notin used
    BY <1>1, <2>1, SMTT(30) DEF Added
  <2>3. store'[p] = v /\ saved'[i] = p
        /\ \A q \in Servers \X (0 .. MaxStarts) : q # p => store'[q] = store[q]
    BY <1>1, <2>1, <2>2
  <2>4. \A a \in Servers : store'[saved'[a]] = store[saved[a]]
    BY <1>1, <1>2, <2>1, <2>3, SMTT(30)
  <2>5. \A o \in used : store'[o] = store[o]
    <3>1. used \subseteq Servers \X (0 .. MaxStarts)
      BY <1>1, SMTT(30)
    <3> HIDE DEF p
    <3> QED
      BY <2>2, <2>3, <3>1
  <2>6. v.snapshot = {}
    BY <1>1, <1>3 DEF Kept
  <2>7. \A q \in Servers \X (0 .. MaxStarts) : store'[q].snapshot = {}
    BY <1>3, <2>3, <2>6 DEF Kept
  <2> QED
    BY <1>3, <2>1, <2>4, <2>5, <2>7, KeptFrom
<1>8. CASE Make(i)
  <2> DEFINE o == <<i, started[i]>>
  <2>1. /\ memory' = [memory EXCEPT ![o] = Persisted(saved[i])] /\ rafts' = [rafts EXCEPT ![i] = o]
        /\ op' = [op EXCEPT !.at = "running"] /\ UNCHANGED <<store, saved, used>>
        /\ op.at = "made"
    BY <1>8 DEF Make, netVars
  <2>2. o \in Objects /\ o \notin used
    BY <1>1, <2>1, SMTT(30) DEF Added
  <2>3. Persisted(saved[i]) = store[saved[i]].raftstate
    BY <1>1, <1>3 DEF Persisted, Kept
  <2>4. memory'[o] = store[saved[i]].raftstate /\ rafts'[i] = o /\ \A q \in used : memory'[q] = memory[q]
    BY <1>1, <2>1, <2>2, <2>3
  <2>5. ASSUME NEW a \in Servers, a # i PROVE rafts'[a] = rafts[a] /\ (rafts[a] # nil => memory'[rafts[a]] = memory[rafts[a]])
    <3>1. rafts[a] # nil => rafts[a] = <<a, started[a]>> /\ rafts[a] \in Objects
      BY <1>1, <1>2, <2>5 DEF Settled, Runs, Lies
    <3> QED
      BY <1>1, <2>1, <2>5, <3>1, SMTT(30)
  <2>6. op'.peer = i
    BY <1>1, <2>1
  <2>7. ASSUME NEW a \in Servers, rafts'[a] # nil PROVE store'[saved'[a]].raftstate \subseteq memory'[rafts'[a]]
    <3>1. CASE a = i
      BY <2>1, <2>4, <3>1
    <3>2. CASE a # i
      BY <1>3, <2>1, <2>5, <2>7, <3>2 DEF Kept
    <3> QED
      BY <3>1, <3>2
  <2>8. \A q \in used : store'[q].raftstate = memory'[q]
    BY <1>3, <2>1, <2>4 DEF Kept
  <2>9. Kept'
    BY <1>3, <2>1, <2>4, <2>6, <2>7, <2>8 DEF Kept
  <2> QED
    BY <2>1, <2>4, <2>9
<1>9. CASE start1Ends(i)
  <2>1. /\ used' = used \cup {rafts[i]} /\ op' = Idle /\ UNCHANGED <<store, saved, memory, rafts>>
        /\ op.at = "running"
    BY <1>9 DEF start1Ends, AddServer, pvars
  <2>2. rafts[i] = saved[i] /\ store[saved[i]].raftstate = memory[rafts[i]]
    BY <1>1, <1>3, <2>1 DEF Kept, Underway, Runs
  <2> QED
    BY <1>3, <2>1, <2>2 DEF Kept, Idle
<1> QED
  BY <1>4, <1>5, <1>6, <1>7, <1>8, <1>9 DEF HarnessStep

(***************************************************************************)
(* A handler saves: the instance it runs on learns its request and         *)
(* persists what it knows.                                                 *)
(***************************************************************************)
LEMMA SavesAck == ASSUME Naming, Inv, AckInv, NEW c \in Calls, HandlerSaves(c), UNCHANGED hvars PROVE AckInv'
<1> DEFINE o == call[c].obj
<1>1. /\ call \in [Calls -> CallRecord] /\ handler \in [Calls -> Handlers]
      /\ saved \in [Servers -> Servers \X (0 .. MaxStarts)]
      /\ store \in [Servers \X (0 .. MaxStarts) -> Store]
      /\ memory \in [Objects -> SUBSET Calls]
      /\ rafts \in [Servers -> Objects \cup {nil}]
      /\ used \subseteq Objects /\ used \subseteq Servers \X (0 .. MaxStarts)
  BY SMTT(30) DEF Inv, Types, NetTypes, CallTypes, PeerTypes, HarnessTypes, Naming
<1>2. Progress(c) /\ handler[c] = "started" /\ o \in used
  BY DEF Inv, CallsInv, HandlerSaves, RunHandler, Progress
<1>3. /\ memory' = [memory EXCEPT ![o] = memory[o] \cup {c}]
      /\ store' = [store EXCEPT ![o] = SaveRaftState(store[o], memory'[o] \ store[o].snapshot)]
      /\ handler' = [handler EXCEPT ![c] = "replies"]
      /\ UNCHANGED <<call, saved, rafts, op, used>>
  BY DEF HandlerSaves, RunHandler, netVars, hvars
<1>4. Kept
  BY DEF AckInv
<1>5. /\ memory'[o] = memory[o] \cup {c} /\ store'[o].raftstate = memory'[o] /\ store'[o].snapshot = {}
      /\ \A q \in Servers \X (0 .. MaxStarts) : q # o => store'[q] = store[q]
      /\ \A q \in Objects : q # o => memory'[q] = memory[q]
  <2>1. store[o].snapshot = {} /\ o \in Servers \X (0 .. MaxStarts) /\ o \in Objects /\ store[o] \in Store
    BY <1>1, <1>2, <1>4 DEF Kept
  <2>2. memory'[o] = memory[o] \cup {c} /\ \A q \in Objects : q # o => memory'[q] = memory[q]
    BY <1>1, <1>3, <2>1
  <2>3. store'[o] = SaveRaftState(store[o], memory'[o])
    BY <1>1, <1>3, <2>1
  <2>4. store'[o].raftstate = memory'[o] /\ store'[o].snapshot = {}
    BY <2>1, <2>3 DEF SaveRaftState, Store
  <2> QED
    BY <1>1, <1>3, <2>1, <2>2, <2>4
<1>6. store[o].raftstate = memory[o]
  BY <1>2, <1>4 DEF Kept
<1>7. \A a \in Servers : store[saved[a]].raftstate \subseteq store'[saved'[a]].raftstate
  <2> SUFFICES ASSUME NEW a \in Servers PROVE store[saved[a]].raftstate \subseteq store'[saved[a]].raftstate
    BY <1>3
  <2>1. saved[a] \in Servers \X (0 .. MaxStarts)
    BY <1>1
  <2> QED
    BY <1>5, <1>6, <2>1
<1>8. \A q \in Objects : memory[q] \subseteq memory'[q]
  BY <1>5
<1>9. ASSUME NEW a \in Servers, rafts[a] # nil PROVE saved[a] # o \/ rafts[a] = saved[a]
  <2>1. Moment(a) /\ started[a] \in 1 .. MaxStarts
    BY DEF Inv, PeersInv, Types, PeerTypes
  <2>2. op.peer = a => op.at \in Steps
    BY SMTT(30) DEF Inv, Types, HarnessTypes, Idle
  <2>3. saved[a] # <<a, 0>> => rafts[a] = saved[a]
    BY <1>9, <2>1, <2>2 DEF Moment, Settled, Underway, Runs, Lies, Steps
  <2>4. o # <<a, 0>>
    BY <1>1, <1>2, SMTT(30) DEF Naming
  <2> QED
    BY <2>3, <2>4
<1>10. ASSUME NEW a \in Servers, op.peer = a, op.at = "running" PROVE rafts[a] # o /\ saved[a] # o /\ rafts[a] \in Objects
  <2>1. Underway(a) /\ Added(a) /\ started[a] \in 1 .. MaxStarts
    BY <1>10 DEF Inv, PeersInv, Moment, Types, PeerTypes
  <2>2. rafts[a] = <<a, started[a]>> /\ saved[a] = <<a, started[a]>> /\ <<a, started[a]>> \notin used
    BY <1>10, <2>1, SMTT(30) DEF Underway, Runs, Added
  <2>3. <<a, started[a]>> \in Objects
    BY <2>1 DEF Naming
  <2> QED
    BY <1>2, <2>2, <2>3
<1>11. Kept'
  <2>1. \A q \in Servers \X (0 .. MaxStarts) : store'[q].snapshot = {}
    BY <1>4, <1>5 DEF Kept
  <2>2. \A q \in used : store'[q].raftstate = memory'[q]
    BY <1>1, <1>4, <1>5 DEF Kept
  <2>3. ASSUME NEW a \in Servers, rafts[a] # nil PROVE store'[saved[a]].raftstate \subseteq memory'[rafts[a]]
    <3>1. store[saved[a]].raftstate \subseteq memory[rafts[a]] /\ rafts[a] \in Objects /\ saved[a] \in Servers \X (0 .. MaxStarts)
      BY <1>1, <1>4, <2>3 DEF Kept
    <3>2. CASE saved[a] # o
      BY <1>5, <1>8, <3>1, <3>2
    <3>3. CASE saved[a] = o
      BY <1>5, <1>9, <2>3, <3>3
    <3> QED
      BY <3>2, <3>3
  <2>4. ASSUME NEW a \in Servers, op.peer = a, op.at = "running" PROVE store'[saved[a]].raftstate = memory'[rafts[a]]
    BY <1>1, <1>4, <1>5, <1>10, <2>4, SMTT(30) DEF Kept
  <2> QED
    BY <1>3, <2>1, <2>2, <2>3, <2>4 DEF Kept
<1>12. ASSUME NEW d \in Calls PROVE Confirmed(d)'
  <2>1. Progress(d) /\ Confirmed(d)
    BY DEF Inv, CallsInv, AckInv
  <2>2. CASE d = c
    BY <1>1, <1>2, <1>3, <1>5, <1>7, <2>1, <2>2 DEF Progress, Confirmed
  <2>3. CASE d # c
    <3>1. handler'[d] = handler[d]
      BY <1>1, <1>3, <2>3
    <3>2. handler[d] # "none" => call[d].obj \in Objects /\ call[d].name \in Servers
      BY <1>1, <2>1 DEF Progress
    <3>3. handler'[d] \in {"replies", "returned"} => d \in memory'[call'[d].obj]
      BY <1>3, <1>8, <2>1, <3>1, <3>2 DEF Confirmed
    <3>4. call'[d].at \in {"reply", "returned"} /\ call'[d].ok => d \in store'[saved'[call'[d].name]].raftstate
      BY <1>3, <1>7, <2>1, <3>2 DEF Confirmed, Progress
    <3> QED
      BY <3>3, <3>4 DEF Confirmed
  <2> QED
    BY <2>2, <2>3
<1> QED
  BY <1>11, <1>12 DEF AckInv

(***************************************************************************)
(* labrpc: a call becomes positive only while the instance that ran its    *)
(* handler is installed, hence the one whose Persister the harness holds.  *)
(***************************************************************************)
LEMMA RpcAck ==
  ASSUME Naming, Inv, AckInv, NEW c \in Calls, UNCHANGED <<pvars, hvars>>,
         ClientStep(c) \/ RequestStep(c) \/ (\E o \in Objects : PeerCalls(c, o))
  PROVE  AckInv'
<1>1. PICK r \in CallRecord, h \in Handlers : Moves(c, r, h) /\ ProgressOf(r, h) /\ UNCHANGED netVars
  BY RpcMoves
<1>2. UNCHANGED <<saved, store, memory, rafts, op, used>>
  BY <1>1 DEF pvars, hvars, netVars
<1>3. Kept'
  BY <1>2 DEF AckInv, Kept
<1>4. call \in [Calls -> CallRecord] /\ handler \in [Calls -> Handlers] /\ Progress(c) /\ Confirmed(c)
  BY DEF Inv, Types, CallTypes, CallsInv, AckInv
<1>5. ASSUME NEW s \in Servers, NEW o \in used, servers[s] = o PROVE saved[s] = o
  <2>1. Moment(s) /\ o # nil
    BY DEF Inv, PeersInv, Types, NetTypes
  <2> QED
    BY <1>5, <2>1 DEF Moment, Settled, Underway, Runs, Lies
<1>6. Confirmed(c)'
  <2>1. call'[c] = r /\ handler'[c] = h
    BY <1>1, <1>4 DEF Moves
  <2>2. h \in {"replies", "returned"} => c \in memory'[r.obj]
    BY <1>1, <1>2, <1>4 DEF Moves, Confirmed
  <2>3. ASSUME r.at \in {"reply", "returned"}, r.ok PROVE c \in store'[saved'[r.name]].raftstate
    <3>1. call[c].ok /\ handler[c] = "returned" /\ call[c].name \in Servers /\ call[c].obj \in used
      BY <1>1, <1>4, <2>3 DEF Moves, Progress
    <3>2. r.name = call[c].name /\ c \in memory[call[c].obj]
      BY <1>1, <1>4, <3>1 DEF Moves, Confirmed
    <3>3. CASE call[c].at \in {"reply", "returned"}
      BY <1>2, <1>4, <3>1, <3>2, <3>3 DEF Confirmed
    <3>4. CASE servers[call[c].name] = call[c].obj
      <4>1. saved[call[c].name] = call[c].obj
        BY <1>5, <3>1, <3>4
      <4>2. store[call[c].obj].raftstate = memory[call[c].obj]
        BY <3>1 DEF AckInv, Kept
      <4> QED
        BY <1>2, <3>2, <4>1, <4>2
    <3> QED
      BY <1>1, <2>3, <3>3, <3>4 DEF Moves
  <2> QED
    BY <2>1, <2>2, <2>3 DEF Confirmed
<1>7. ASSUME NEW d \in Calls, d # c PROVE Confirmed(d)'
  <2>1. call'[d] = call[d] /\ handler'[d] = handler[d]
    BY <1>1, <1>4, <1>7 DEF Moves
  <2> QED
    BY <1>2, <2>1 DEF AckInv, Confirmed
<1> QED
  BY <1>3, <1>6, <1>7 DEF AckInv

LEMMA NextAck == ASSUME Naming, ~ Snapshots, Inv, AckInv, [Next]_vars PROVE AckInv'
<1>1. CASE Relink
  <2>1. UNCHANGED <<call, handler, saved, store, memory, rafts, op, used>>
    BY <1>1 DEF Relink, pvars
  <2> QED
    BY <2>1 DEF AckInv, Kept, Confirmed
<1>2. CASE \E i \in Peers : \/ rafts[i] # nil /\ crash1(i, "crash1")
                            \/ started[i] < MaxStarts /\ crash1(i, "start1")
  <2>1. UNCHANGED <<call, handler, saved, store, memory, rafts, used>> /\ op'.at # "running"
    BY <1>2, SMTT(30) DEF crash1, pvars
  <2> QED
    BY <2>1 DEF AckInv, Kept, Confirmed
<1>3. CASE \E i \in Peers : HarnessStep(i)
  BY <1>3, HarnessStepAck DEF Peers
<1>4. CASE \E c \in Calls : HandlerSaves(c) /\ UNCHANGED hvars
  BY <1>4, SavesAck
<1>5. CASE \E o \in Objects : PeerSnapshots(o) /\ UNCHANGED hvars
  BY <1>5 DEF PeerSnapshots
<1>6. CASE /\ \E c \in Calls : ClientStep(c) \/ RequestStep(c) \/ \E o \in Objects : PeerCalls(c, o)
           /\ UNCHANGED <<pvars, hvars>>
  BY <1>6, RpcAck
<1>7. CASE UNCHANGED vars
  <2>1. UNCHANGED <<call, handler, saved, store, memory, rafts, op, used>>
    BY <1>7 DEF vars, lvars, netVars, pvars, hvars
  <2> QED
    BY <2>1 DEF AckInv, Kept, Confirmed
<1> QED
  BY <1>1, <1>2, <1>3, <1>4, <1>5, <1>6, <1>7 DEF Next

-----------------------------------------------------------------------------
(***************************************************************************)
(* The harness holds for each peer what Inv says at each moment of crash1  *)
(* and start1, with or without snapshots.                                  *)
(***************************************************************************)
THEOREM Invariance == ASSUME Naming PROVE Spec => []Inv
<1>1. make_config => Inv
  BY InitInv
<1>2. Inv /\ [Next]_vars => Inv'
  BY NextInv
<1> QED
  BY <1>1, <1>2, PTL DEF Spec

(***************************************************************************)
(* Without snapshots, the Persister the harness holds for a peer, the      *)
(* instance that runs and the confirmed calls are related as AckInv says.  *)
(***************************************************************************)
THEOREM AckInvariance == ASSUME Naming, ~ Snapshots PROVE Spec => [](Inv /\ AckInv)
<1>1. make_config => AckInv
  BY InitAck
<1>2. Inv /\ AckInv /\ [Next]_vars => AckInv'
  BY NextAck
<1> QED
  BY <1>1, <1>2, Invariance, PTL DEF Spec

(***************************************************************************)
(* The fields of config, the tables of the network and the Persisters keep *)
(* their types.                                                            *)
(***************************************************************************)
THEOREM TypeCorrect == ASSUME Naming PROVE Spec => []TypeOK
<1>1. Inv => TypeOK
  <2> SUFFICES ASSUME Inv PROVE TypeOK
    OBVIOUS
  <2>1. PeersTypeOK
    BY DEF Inv, Types, NetTypes, CallTypes, PeerTypes, PeersTypeOK, Handlers, Store
  <2> QED
    BY <2>1 DEF Inv, Types, HarnessTypes, TypeOK, Peers
<1> QED
  BY <1>1, Invariance, PTL

(***************************************************************************)
(* Without snapshots, what a peer confirmed is in the Persister the        *)
(* harness holds for it, at every moment of crash1 and start1.             *)
(***************************************************************************)
THEOREM AckedAlwaysSurvives == ASSUME Naming, ~ Snapshots PROVE Spec => []AckedSurvives
<1>1. Inv /\ AckInv => AckedSurvives
  BY DEF AckInv, Confirmed, AckedSurvives, Positive, At, Persisted
<1> QED
  BY <1>1, AckInvariance, PTL

(***************************************************************************)
(* Without snapshots, the instance that start1 made knows what any earlier *)
(* instance of the peer confirmed.                                         *)
(***************************************************************************)
THEOREM AckedAlwaysKnown == ASSUME Naming, ~ Snapshots PROVE Spec => []AckedKnown
<1>1. Inv /\ AckInv => AckedKnown
  <2> SUFFICES ASSUME Inv, AckInv, NEW c \in Calls, Positive(c), rafts[call[c].name] # nil
               PROVE  c \in memory[rafts[call[c].name]]
    BY DEF AckedKnown
  <2>1. Progress(c) /\ Confirmed(c)
    BY DEF Inv, CallsInv, AckInv
  <2>2. call[c].name \in Servers /\ c \in store[saved[call[c].name]].raftstate
    BY <2>1 DEF Positive, At, Progress, Confirmed
  <2> QED
    BY <2>2 DEF AckInv, Kept
<1> QED
  BY <1>1, AckInvariance, PTL

(***************************************************************************)
(* The ends of an instance that crash1 ended are disabled for good.        *)
(***************************************************************************)
THEOREM OldAlwaysSilent == ASSUME Naming PROVE Spec => []OldInstanceSilent
<1>1. Inv => OldInstanceSilent
  <2> SUFFICES ASSUME Inv, NEW e \in ends, e[2] < started[e[1]] \/ (op = Idle /\ rafts[e[1]] = nil)
               PROVE  ~ enabled[e]
    BY DEF OldInstanceSilent
  <2>1. PICK i \in Servers, k \in 1 .. MaxStarts, j \in Servers : e = <<i, k, j>>
    BY SMTT(30) DEF Inv, Types, NetTypes, Naming
  <2>2. Linked(i, j) /\ (connected[i] => rafts[i] # nil)
    BY DEF Inv, PeersInv
  <2>3. k < started[i] \/ rafts[i] = nil
    BY <2>1
  <2>4. started[i] \in Nat
    BY SMTT(30) DEF Inv, Types, PeerTypes, Naming
  <2> QED
    BY <2>1, <2>2, <2>3, <2>4, SMTT(30) DEF Linked
<1> QED
  BY <1>1, Invariance, PTL

(***************************************************************************)
(* Two peers are linked exactly if connect and disconnect left both of     *)
(* them connected.                                                         *)
(***************************************************************************)
THEOREM LinksAlwaysAgree == ASSUME Naming PROVE Spec => []LinksAgree
<1>1. Inv => LinksAgree
  <2> SUFFICES ASSUME Inv, NEW i \in Servers, NEW j \in Servers
               PROVE  enabled[endnames(i, j)] <=> connected[i] /\ connected[j]
    BY DEF LinksAgree, Peers
  <2>1. started[i] \in 1 .. MaxStarts /\ Linked(i, j)
    BY DEF Inv, PeersInv, Types, PeerTypes
  <2>2. enabled[<<i, started[i], j>>] <=> started[i] = started[i] /\ connected[i] /\ connected[j]
    BY <2>1 DEF Linked
  <2> QED
    BY <2>2 DEF endnames
<1> QED
  BY <1>1, Invariance, PTL
=============================================================================
