----------------------------- MODULE KVHarness -----------------------------
(***************************************************************************)
(* The test harness of kvraft/config.go: servers that are shut down,       *)
(* restarted and partitioned while clerks call them.  One test goroutine   *)
(* changes servers and connectivity; others make and delete clerks when    *)
(* cfg.mu is free.  A clerk's end for server j is <<ck, 0, j>>.            *)
(***************************************************************************)
EXTENDS LabPeers, Integers, SequencesExt

CONSTANTS Clerks,      \* clerks a test makes
          MaxCuts      \* bound: changes of connectivity by a test

VARIABLES kvservers,   \* cfg.kvservers
          clerks,      \* keys of cfg.clerks
          op,          \* the harness function that runs, its server, where it is
          leader,      \* the leader that make_partition cut off last, or nil
          cuts         \* counter of MaxCuts

hvars == <<kvservers, clerks, op, leader, cuts>>
vars == <<lvars, pvars, hvars>>

Idle == [server |-> nil, at |-> "none"]
n == Cardinality(Servers)

(* cfg.mu: ShutdownServer lets it go for Kill, StartServer before StartKVServer. *)
MuFree == op.at \in {"none", "killing", "made", "running"}
AllUp == op = Idle /\ \A i \in Servers : kvservers[i] # nil

make_config ==
  /\ AllStarted
  /\ reliable \in BOOLEAN
  /\ ends = {<<i, 1, j>> : i, j \in Servers}
  /\ enabled = [e \in Ends |-> e \in ends]
  /\ connections = [e \in Ends |-> IF e \in ends THEN e[3] ELSE nil]
  /\ kvservers = servers
  /\ clerks = {}
  /\ op = Idle
  /\ leader = nil
  /\ cuts = 0

-----------------------------------------------------------------------------
(* Connectivity.  On the table `on' of enabled ends: *)

Links(i, S) == {endnames(i, j) : j \in S} \cup {endnames(j, i) : j \in S}

Set(on, S, yes) == [e \in DOMAIN on |-> IF e \in S THEN yes ELSE on[e]]

connectUnlocked(on, i, to) == Set(on, Links(i, to), TRUE)

disconnectOutgoing(on, i, from) == Set(on, {endnames(i, j) : j \in from}, FALSE)

disconnectUnlocked(on, i, from) == Set(on, Links(i, from), FALSE)

(* One part of partition: each of its servers leaves the other part and    *)
(* joins its own.                                                          *)
Part(on, p, q) ==
  FoldLeft(LAMBDA t, i : connectUnlocked(disconnectUnlocked(t, i, Range(q)), i, Range(p)), on, p)

partition(p1, p2) == enabled' = Part(Part(enabled, p1, p2), p2, p1)

ConnectAll ==
  enabled' = FoldLeft(LAMBDA t, i : connectUnlocked(t, i, Servers), enabled, SetToSortSeq(Servers, <))

(* make_partition: arrays of zeros, filled with who is not the leader l;   *)
(* then l in the last place of p2.                                         *)
make_partition(l) ==
  LET rest == SetToSortSeq(Servers \ {l}, <)
      big  == n \div 2 + 1
      At0(k) == IF k <= Len(rest) THEN rest[k] ELSE 0
  IN  << [k \in 1 .. big |-> At0(k)],
         [k \in 1 .. n \div 2 |-> IF k = n \div 2 THEN l ELSE At0(big + k)] >>

(* A test changes the connectivity while all servers are up: any split, or *)
(* the one of make_partition, where Leader gives a server, 0 if none leads.*)
Cut ==
  /\ AllUp /\ cuts < MaxCuts
  /\ \/ /\ \E P \in SUBSET Servers :
             partition(SetToSortSeq(P, <), SetToSortSeq(Servers \ P, <))
        /\ leader' = nil
     \/ \E l \in Servers : /\ partition(make_partition(l)[1], make_partition(l)[2])
                           /\ leader' = l
     \/ ConnectAll /\ leader' = nil
  /\ cuts' = cuts + 1
  /\ UNCHANGED <<reliable, ends, connections, servers, used, done, dispatcher, call, handler, pvars>>
  /\ UNCHANGED <<kvservers, clerks, op>>

-----------------------------------------------------------------------------
(* Clerks. *)

ClerkEnds(ck, S) == {<<ck, 0, j>> : j \in S}

(* fresh ends to all servers, those to the servers in `to' enabled *)
makeClient(ck, to) ==
  /\ MuFree /\ ck \notin clerks /\ ClerkEnds(ck, Servers) \cap ends = {}
  /\ clerks' = clerks \cup {ck}
  /\ ends' = ends \cup ClerkEnds(ck, Servers)
  /\ connections' = [e \in Ends |-> IF e \in ClerkEnds(ck, Servers) THEN e[3] ELSE connections[e]]
  /\ EnableAll(ClerkEnds(ck, to), TRUE)
  /\ UNCHANGED <<reliable, servers, used, done, dispatcher, call, handler, pvars, kvservers, op, leader, cuts>>

deleteClient(ck) ==
  /\ MuFree /\ ck \in clerks
  /\ clerks' = clerks \ {ck}
  /\ UNCHANGED <<netVars, done, dispatcher, call, handler, pvars, kvservers, op, leader, cuts>>

(* ConnectClient or DisconnectClient *)
ConnectClient(ck, S, yes) ==
  /\ op = Idle /\ ck \in clerks /\ cuts < MaxCuts
  /\ cuts' = cuts + 1
  /\ EnableAll(ClerkEnds(ck, S), yes)
  /\ UNCHANGED <<reliable, ends, connections, servers, used, done, dispatcher, call, handler, pvars>>
  /\ UNCHANGED <<kvservers, clerks, op, leader>>

-----------------------------------------------------------------------------
(* ShutdownServer: isolate the server ... *)
ShutdownServer(i) ==
  /\ op = Idle /\ kvservers[i] # nil /\ started[i] < MaxStarts
  /\ leader' = nil
  /\ op' = [server |-> i, at |-> "isolated"]
  /\ enabled' = disconnectUnlocked(enabled, i, Servers)
  /\ UNCHANGED <<reliable, ends, connections, servers, used, done, dispatcher, call, handler, pvars>>
  /\ UNCHANGED <<kvservers, clerks, cuts>>

(* ... disable client connections to it ... *)
ShutdownKeepsServer(i) ==
  /\ op.server = i /\ op.at = "isolated"
  /\ op' = [op EXCEPT !.at = "deleted"]
  /\ UNCHANGED <<netVars, done, dispatcher, call, handler, pvars, kvservers, clerks, leader, cuts>>

ShutdownDeletes(i) ==
  /\ op.server = i /\ op.at = "isolated"
  /\ op' = [op EXCEPT !.at = "deleted"]
  /\ DeleteServer(i)
  /\ UNCHANGED <<done, dispatcher, call, handler, pvars, kvservers, clerks, leader, cuts>>

(* ... supersede its Persister, Kill without cfg.mu ... *)
ShutdownCopies(i) ==
  /\ op.server = i /\ op.at = "deleted"
  /\ op' = [op EXCEPT !.at = "killing"]
  /\ saved' = [saved EXCEPT ![i] = <<i, 0>>]
  /\ store' = [store EXCEPT ![<<i, 0>>] = Copy(saved[i])]
  /\ UNCHANGED <<netVars, done, dispatcher, call, handler, started, memory, kvservers, clerks, leader, cuts>>

(* ... and forget it. *)
ShutdownEnds(i) ==
  /\ op.server = i /\ op.at = "killing"
  /\ op' = Idle
  /\ kvservers' = [kvservers EXCEPT ![i] = nil]
  /\ UNCHANGED <<netVars, done, dispatcher, call, handler, pvars, clerks, leader, cuts>>

(* StartServer of a server that was shut down: fresh ends and Persister ...*)
StartServer(i) ==
  LET k == started[i] + 1
  IN  /\ op = Idle /\ kvservers[i] = nil
      /\ op' = [server |-> i, at |-> "made"]
      /\ started' = [started EXCEPT ![i] = k]
      /\ ends' = ends \cup {<<i, k, j>> : j \in Servers}
      /\ connections' = [e \in Ends |-> IF e[1] = i /\ e[2] = k THEN e[3] ELSE connections[e]]
      /\ saved' = [saved EXCEPT ![i] = <<i, k>>]
      /\ store' = [store EXCEPT ![<<i, k>>] = Copy(saved[i])]
      /\ UNCHANGED <<reliable, enabled, servers, used, done, dispatcher, call, handler, memory>>
      /\ UNCHANGED <<kvservers, clerks, leader, cuts>>

(* ... StartKVServer reads the state; AddServer. *)
StartForgets(i) ==
  /\ op.server = i /\ op.at = "made"
  /\ op' = [op EXCEPT !.at = "running"]
  /\ memory' = [memory EXCEPT ![<<i, started[i]>>] = store[saved[i]].raftstate]
  /\ kvservers' = [kvservers EXCEPT ![i] = <<i, started[i]>>]
  /\ UNCHANGED <<netVars, done, dispatcher, call, handler, started, saved, store, clerks, leader, cuts>>

StartKVServer(i) ==
  /\ op.server = i /\ op.at = "made"
  /\ op' = [op EXCEPT !.at = "running"]
  /\ memory' = [memory EXCEPT ![<<i, started[i]>>] = Persisted(saved[i])]
  /\ kvservers' = [kvservers EXCEPT ![i] = <<i, started[i]>>]
  /\ UNCHANGED <<netVars, done, dispatcher, call, handler, started, saved, store, clerks, leader, cuts>>

StartEnds(i) ==
  /\ op.server = i /\ op.at = "running"
  /\ op' = Idle
  /\ AddServer(i, kvservers[i])
  /\ UNCHANGED <<done, dispatcher, call, handler, pvars, kvservers, clerks, leader, cuts>>

-----------------------------------------------------------------------------
ClerkStep(ck) ==
  \/ \E S \in SUBSET Servers : makeClient(ck, S) \/ \E yes \in BOOLEAN : ConnectClient(ck, S, yes)
  \/ deleteClient(ck)

ServerStep(i) ==
  \/ ShutdownServer(i) \/ ShutdownDeletes(i) \/ ShutdownCopies(i) \/ ShutdownEnds(i)
  \/ StartServer(i) \/ StartKVServer(i) \/ StartEnds(i)

Next ==
  /\ UNCHANGED exited
  /\ \/ Cut
     \/ \E ck \in Clerks : ClerkStep(ck)
     \/ \E i \in Servers : ServerStep(i)
     \/ \E c \in Calls : HandlerSaves(c) /\ UNCHANGED hvars
     \/ \E o \in Objects : PeerSnapshots(o) /\ UNCHANGED hvars
     \/ /\ \E c \in Calls : \/ ClientStep(c) \/ RequestStep(c)
                            \/ \E ck \in clerks, j \in Servers : Call(c, <<ck, 0, j>>)
        /\ UNCHANGED <<pvars, hvars>>

Spec == make_config /\ [][Next]_vars

-----------------------------------------------------------------------------
(* Types of the fields of config. *)
TypeOK ==
  /\ PeersTypeOK
  /\ kvservers \in [Servers -> Objects \cup {nil}]
  /\ clerks \subseteq Clerks /\ cuts \in 0 .. MaxCuts

(***************************************************************************)
(* What a server confirmed to a clerk is in the Persister the harness      *)
(* holds for it, with snapshots in use and though a clerk's ends stay      *)
(* enabled through a shutdown: DeleteServer comes before the new Persister.*)
(***************************************************************************)
AckedSurvives ==
  \A c \in Calls : Positive(c) => c \in Persisted(saved[call[c].name])

(***************************************************************************)
(* ... and known to the server that runs now, from state or snapshot.      *)
(***************************************************************************)
AckedKnown ==
  \A c \in Calls :
    Positive(c) /\ kvservers[call[c].name] # nil => c \in memory[kvservers[call[c].name]]

(***************************************************************************)
(* After partition(make_partition()) a majority of the servers, without    *)
(* the leader, is connected: the service can go on without it.             *)
(***************************************************************************)
LeaderInMinority ==
  leader # nil => \E Q \in SUBSET (Servers \ {leader}) :
                    /\ Cardinality(Q) > n \div 2
                    /\ \A i, j \in Q : enabled[endnames(i, j)]

(***************************************************************************)
(* The tables of labrpc, seen through the current endnames, follow the     *)
(* abstract topology: no function leaves a link half open or one too many. *)
(***************************************************************************)
linked == {p \in Servers \X Servers : enabled[endnames(p[1], p[2])]}

Abstract == INSTANCE Topology WITH Nodes <- Servers

(* ConnectAll, partition, ShutdownServer and StartServer implement it. *)
ImplementsTopology == Abstract!Spec
=============================================================================
