---------------------------- MODULE RaftHarness ----------------------------
(***************************************************************************)
(* The test harness of raft/config.go: peers that crash, restart, and are  *)
(* cut off, while calls to them are in progress.  One test goroutine calls *)
(* it, so one function of it runs at a time.                               *)
(***************************************************************************)
EXTENDS LabPeers

CONSTANT MaxLinks      \* bound: calls of connect and disconnect by a test

VARIABLES rafts,       \* cfg.rafts: the instance of a peer or nil
          connected,   \* cfg.connected
          op,          \* the harness function that runs, its peer, where it is
          links        \* counter of MaxLinks

hvars == <<rafts, connected, op, links>>
vars == <<lvars, pvars, hvars>>

Peers == Servers

(* Instances and ends are named as LabPeers says. *)
Naming ==
  /\ MaxStarts \in Nat \ {0} /\ MaxLinks \in Nat
  /\ Objects = Servers \X (1 .. MaxStarts)
  /\ Ends = Servers \X (1 .. MaxStarts) \X Servers

Idle == [fn |-> "none", peer |-> nil, at |-> "none"]

make_config ==
  /\ AllStarted
  /\ reliable \in BOOLEAN
  /\ ends = {<<i, 1, j>> : i, j \in Peers}
  /\ enabled = [e \in Ends |-> e[2] = 1]
  /\ connections = [e \in Ends |-> IF e[2] = 1 THEN e[3] ELSE nil]
  /\ rafts = servers
  /\ connected = [i \in Peers |-> TRUE]
  /\ op = Idle
  /\ links = 0

connect(i) ==
  LET on == {j \in Peers : connected[j] \/ j = i}
  IN  /\ connected' = [connected EXCEPT ![i] = TRUE]
      /\ EnableAll({endnames(i, j) : j \in on} \cup {endnames(j, i) : j \in on}, TRUE)

disconnectIncoming(i) ==
  /\ connected' = [connected EXCEPT ![i] = FALSE]
  /\ EnableAll({endnames(j, i) : j \in Peers}, FALSE)

disconnect(i) ==
  /\ connected' = [connected EXCEPT ![i] = FALSE]
  /\ EnableAll({endnames(i, j) : j \in Peers} \cup {endnames(j, i) : j \in Peers}, FALSE)

(* A test connects a running peer or disconnects one. *)
Relink ==
  /\ op = Idle /\ links < MaxLinks
  /\ \E i \in Peers : \/ rafts[i] # nil /\ ~ connected[i] /\ connect(i)
                      \/ connected[i] /\ disconnect(i)
  /\ links' = links + 1
  /\ UNCHANGED <<reliable, ends, connections, servers, used, done, dispatcher, call, handler, pvars, rafts, op>>

(* crash1, alone or as the first thing start1 does: disconnect ... *)
crash1(i, fn) ==
  /\ op = Idle
  /\ op' = [fn |-> fn, peer |-> i, at |-> "disconnected"]
  /\ disconnect(i)
  /\ UNCHANGED <<reliable, ends, connections, servers, used, done, dispatcher, call, handler, pvars, rafts, links>>

(* ... DeleteServer ... *)
crash1Deletes(i) ==
  /\ op.peer = i /\ op.at = "disconnected"
  /\ op' = [op EXCEPT !.at = "deleted"]
  /\ DeleteServer(i)
  /\ UNCHANGED <<done, dispatcher, call, handler, pvars, rafts, connected, links>>

(* ... a fresh Persister with a copy of the old content; Kill ... *)
crash1Copies(i) ==
  /\ op.peer = i /\ op.at = "deleted"
  /\ op' = [op EXCEPT !.at = "killed"]
  /\ saved' = [saved EXCEPT ![i] = <<i, 0>>]
  /\ store' = [store EXCEPT ![<<i, 0>>] = Copy(saved[i])]
  /\ UNCHANGED <<netVars, done, dispatcher, call, handler, started, memory, rafts, connected, links>>

(* ... and, after Kill, another one with the Raft state only. *)
crash1Ends(i) ==
  /\ op.peer = i /\ op.at = "killed"
  /\ op' = IF op.fn = "start1" THEN [op EXCEPT !.at = "crashed"] ELSE Idle
  /\ rafts' = [rafts EXCEPT ![i] = nil]
  /\ store' = [store EXCEPT ![<<i, 0>>] = SaveRaftState(MakePersister, store[saved[i]].raftstate)]
  /\ UNCHANGED <<netVars, done, dispatcher, call, handler, started, saved, memory, connected, links>>

(* start1: fresh ends, a fresh Persister ... *)
start1(i, content) ==
  LET k == started[i] + 1
  IN  /\ op.peer = i /\ op.at = "crashed"
      /\ op' = [op EXCEPT !.at = "made"]
      /\ started' = [started EXCEPT ![i] = k]
      /\ ends' = ends \cup {<<i, k, j>> : j \in Peers}
      /\ connections' = [e \in Ends |-> IF e[1] = i /\ e[2] = k THEN e[3] ELSE connections[e]]
      /\ saved' = [saved EXCEPT ![i] = <<i, k>>]
      /\ store' = [store EXCEPT ![<<i, k>>] = content]
      /\ UNCHANGED <<reliable, enabled, servers, used, done, dispatcher, call, handler, memory>>
      /\ UNCHANGED <<rafts, connected, links>>

(* ... with the content of the old one ... *)
start1Empty(i) == start1(i, MakePersister)
start1Copies(i) == start1(i, Copy(saved[i]))

(* ... Make, which reads it; then the new server is added. *)
Make(i) ==
  /\ op.peer = i /\ op.at = "made"
  /\ op' = [op EXCEPT !.at = "running"]
  /\ memory' = [memory EXCEPT ![<<i, started[i]>>] = Persisted(saved[i])]
  /\ rafts' = [rafts EXCEPT ![i] = <<i, started[i]>>]
  /\ UNCHANGED <<netVars, done, dispatcher, call, handler, started, saved, store, connected, links>>

start1Ends(i) ==
  /\ op.peer = i /\ op.at = "running"
  /\ op' = Idle
  /\ AddServer(i, rafts[i])
  /\ UNCHANGED <<done, dispatcher, call, handler, pvars, rafts, connected, links>>

HarnessStep(i) ==
  crash1Deletes(i) \/ crash1Copies(i) \/ crash1Ends(i) \/ start1Copies(i) \/ Make(i) \/ start1Ends(i)

(* A goroutine of instance o, dead or alive, calls another peer. *)
PeerCalls(c, o) == o \in used /\ \E j \in Peers \ {o[1]} : Call(c, <<o[1], o[2], j>>)

Next ==
  /\ UNCHANGED exited
  /\ \/ Relink
     \/ \E i \in Peers : \/ rafts[i] # nil /\ crash1(i, "crash1")
                         \/ started[i] < MaxStarts /\ crash1(i, "start1")
                         \/ HarnessStep(i)
     \/ \E c \in Calls : HandlerSaves(c) /\ UNCHANGED hvars
     \/ \E o \in Objects : PeerSnapshots(o) /\ UNCHANGED hvars
     \/ /\ \E c \in Calls : ClientStep(c) \/ RequestStep(c) \/ \E o \in Objects : PeerCalls(c, o)
        /\ UNCHANGED <<pvars, hvars>>

Spec == make_config /\ [][Next]_vars

-----------------------------------------------------------------------------
(* Types of the fields of config. *)
TypeOK ==
  /\ PeersTypeOK
  /\ rafts \in [Peers -> Objects \cup {nil}]
  /\ connected \in [Peers -> BOOLEAN]
  /\ links \in 0 .. MaxLinks

(***************************************************************************)
(* What a peer confirmed is in the Persister that the harness holds for    *)
(* it, at every moment of a crash and a restart, whatever the old instance *)
(* still saves: crash1 cuts the server off before it supersedes the        *)
(* Persister, and processReq asks again before it answers.                 *)
(***************************************************************************)
AckedSurvives ==
  \A c \in Calls : Positive(c) => c \in Persisted(saved[call[c].name])

(***************************************************************************)
(* What a peer confirmed is known to the instance that runs now: start1    *)
(* gives Make the last persisted state.                                    *)
(***************************************************************************)
AckedKnown ==
  \A c \in Calls : Positive(c) /\ rafts[call[c].name] # nil => c \in memory[rafts[call[c].name]]

(***************************************************************************)
(* An old instance cannot send: its ends are disabled, and no later        *)
(* connect enables one of them, since start1 has made new ones.            *)
(***************************************************************************)
OldInstanceSilent ==
  \A e \in ends : e[2] < started[e[1]] \/ (op = Idle /\ rafts[e[1]] = nil) => ~ enabled[e]

(***************************************************************************)
(* Between harness calls the ends of two peers are enabled exactly if the  *)
(* harness has both as connected, whoever restarted since.                 *)
(***************************************************************************)
LinksAgree ==
  op = Idle => \A i, j \in Peers : enabled[endnames(i, j)] <=> connected[i] /\ connected[j]
=============================================================================
