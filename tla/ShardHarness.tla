---------------------------- MODULE ShardHarness ----------------------------
(***************************************************************************)
(* The test harness of shardkv/config.go: masters that run for ever, and   *)
(* groups of servers that are shut down and restarted while clerks and     *)
(* other groups call them.  Ends are named as in LabPeers; a name that     *)
(* leads from a clerk or from an instance to a server of another group     *)
(* stands for the ends that make_end has made for it, which are all alike. *)
(***************************************************************************)
EXTENDS LabPeers

CONSTANTS gid,         \* the group of a server; 0 for a master
          Clerks       \* clerks a test makes

VARIABLES kvservers,   \* servers of the groups: the instance that runs, or nil
          clerks,      \* keys of cfg.clerks
          op           \* the harness function that runs, its server, where it is

hvars == <<kvservers, clerks, op>>
vars == <<lvars, pvars, hvars>>

Idle == [server |-> nil, at |-> "none"]

(* cfg.mu: ShutdownServer lets it go for Kill, StartServer before the server's own. *)
MuFree == op.at \in {"none", "killing", "made", "running"}

Masters == {m \in Servers : gid[m] = 0}
Members == Servers \ Masters
Peers(i) == {j \in Servers : gid[j] = gid[i]}

(* endnames and mendnames: what StartMasterServer and StartServer make *)
OwnEnds(i, k) == {<<i, k, j>> : j \in Peers(i) \cup Masters}

Adds(E) ==
  /\ ends' = ends \cup E
  /\ connections' = [e \in Ends |-> IF e \in E THEN e[3] ELSE connections[e]]
  /\ enabled' = [e \in Ends |-> e \in E \/ enabled[e]]

make_config ==
  /\ AllStarted
  /\ reliable \in BOOLEAN
  /\ ends = UNION {OwnEnds(i, 1) : i \in Servers}
  /\ enabled = [e \in Ends |-> e \in ends]
  /\ connections = [e \in Ends |-> IF e \in ends THEN e[3] ELSE nil]
  /\ kvservers = [i \in Members |-> servers[i]]
  /\ clerks = {}
  /\ op = Idle

makeClient(ck) ==
  /\ MuFree /\ ck \notin clerks
  /\ clerks' = clerks \cup {ck}
  /\ Adds({<<ck, 0, m>> : m \in Masters})
  /\ UNCHANGED <<reliable, servers, used, done, dispatcher, call, handler, pvars, kvservers, op>>

deleteClient(ck) ==
  /\ MuFree /\ ck \in clerks
  /\ clerks' = clerks \ {ck}
  /\ UNCHANGED <<netVars, done, dispatcher, call, handler, pvars, kvservers, op>>

(* make_end, called by a clerk or by an instance, dead or alive *)
make_end(who, j) ==
  /\ <<who[1], who[2], j>> \notin ends
  /\ Adds({<<who[1], who[2], j>>})
  /\ UNCHANGED <<reliable, servers, used, done, dispatcher, call, handler, pvars, hvars>>

-----------------------------------------------------------------------------
(* ShutdownServer: prevent this server from sending ... *)
ShutdownServer(i) ==
  /\ op = Idle
  /\ op' = [server |-> i, at |-> "isolated"]
  /\ EnableAll(OwnEnds(i, started[i]), FALSE)
  /\ UNCHANGED <<reliable, ends, connections, servers, used, done, dispatcher, call, handler, pvars, kvservers, clerks>>

(* ... disable client connections to it ... *)
ShutdownKeepsServer(i) ==
  /\ op.server = i /\ op.at = "isolated"
  /\ op' = [op EXCEPT !.at = "deleted"]
  /\ UNCHANGED <<netVars, done, dispatcher, call, handler, pvars, kvservers, clerks>>

ShutdownDeletes(i) ==
  /\ op.server = i /\ op.at = "isolated"
  /\ op' = [op EXCEPT !.at = "deleted"]
  /\ DeleteServer(i)
  /\ UNCHANGED <<done, dispatcher, call, handler, pvars, kvservers, clerks>>

(* ... supersede its Persister, Kill without cfg.mu if it runs ... *)
ShutdownCopies(i) ==
  /\ op.server = i /\ op.at = "deleted"
  /\ op' = IF kvservers[i] # nil THEN [op EXCEPT !.at = "killing"] ELSE Idle
  /\ saved' = [saved EXCEPT ![i] = <<i, 0>>]
  /\ store' = [store EXCEPT ![<<i, 0>>] = Copy(saved[i])]
  /\ UNCHANGED <<netVars, done, dispatcher, call, handler, started, memory, kvservers, clerks>>

(* ... and forget it. *)
ShutdownEnds(i) ==
  /\ op.server = i /\ op.at = "killing"
  /\ op' = Idle
  /\ kvservers' = [kvservers EXCEPT ![i] = nil]
  /\ UNCHANGED <<netVars, done, dispatcher, call, handler, pvars, clerks>>

(* StartServer: fresh ends and Persister ... *)
StartServer(i) ==
  LET k == started[i] + 1
  IN  /\ op = Idle /\ kvservers[i] = nil /\ k <= MaxStarts
      /\ op' = [server |-> i, at |-> "made"]
      /\ started' = [started EXCEPT ![i] = k]
      /\ Adds(OwnEnds(i, k))
      /\ saved' = [saved EXCEPT ![i] = <<i, k>>]
      /\ store' = [store EXCEPT ![<<i, k>>] = Copy(saved[i])]
      /\ UNCHANGED <<reliable, servers, used, done, dispatcher, call, handler, memory, kvservers, clerks>>

(* ... the server's own StartServer, which reads the state; AddServer. *)
StartForgets(i) ==
  /\ op.server = i /\ op.at = "made"
  /\ op' = [op EXCEPT !.at = "running"]
  /\ memory' = [memory EXCEPT ![<<i, started[i]>>] = store[saved[i]].raftstate]
  /\ kvservers' = [kvservers EXCEPT ![i] = <<i, started[i]>>]
  /\ UNCHANGED <<netVars, done, dispatcher, call, handler, started, saved, store, clerks>>

StartRuns(i) ==
  /\ op.server = i /\ op.at = "made"
  /\ op' = [op EXCEPT !.at = "running"]
  /\ memory' = [memory EXCEPT ![<<i, started[i]>>] = Persisted(saved[i])]
  /\ kvservers' = [kvservers EXCEPT ![i] = <<i, started[i]>>]
  /\ UNCHANGED <<netVars, done, dispatcher, call, handler, started, saved, store, clerks>>

StartEnds(i) ==
  /\ op.server = i /\ op.at = "running"
  /\ op' = Idle
  /\ AddServer(i, kvservers[i])
  /\ UNCHANGED <<done, dispatcher, call, handler, pvars, kvservers, clerks>>

-----------------------------------------------------------------------------
ServerStep(i) ==
  \/ ShutdownServer(i) \/ ShutdownDeletes(i) \/ ShutdownCopies(i) \/ ShutdownEnds(i)
  \/ StartServer(i) \/ StartRuns(i) \/ StartEnds(i)

Next ==
  /\ UNCHANGED exited
  /\ \/ \E ck \in Clerks : makeClient(ck) \/ deleteClient(ck)
     \/ \E ck \in clerks, j \in Members : make_end(<<ck, 0>>, j)
     \/ \E o \in used : gid[o[1]] # 0 /\ \E j \in Members \ Peers(o[1]) : make_end(o, j)
     \/ \E i \in Members : ServerStep(i)
     \/ \E c \in Calls : HandlerSaves(c) /\ UNCHANGED hvars
     \/ \E o \in Objects : PeerSnapshots(o) /\ UNCHANGED hvars
     \/ /\ \E c \in Calls : ClientStep(c) \/ RequestStep(c) \/ \E e \in ends : e[1] # e[3] /\ Call(c, e)
        /\ UNCHANGED <<pvars, hvars>>

Spec == make_config /\ [][Next]_vars

-----------------------------------------------------------------------------
(* The tables of labrpc, the Persisters and the harness's own fields. *)
TypeOK ==
  /\ PeersTypeOK
  /\ kvservers \in [Members -> Objects \cup {nil}]
  /\ clerks \subseteq Clerks

(***************************************************************************)
(* What a server confirmed, to a clerk or to another group, is in the      *)
(* Persister the harness holds for it, though the ends that lead to it     *)
(* stay enabled all through a shutdown: DeleteServer comes before the new  *)
(* Persister, and processReq looks again before it answers.                *)
(***************************************************************************)
AckedSurvives ==
  \A c \in Calls : Positive(c) => c \in Persisted(saved[call[c].name])

(***************************************************************************)
(* ... and is known to the instance of a group's server that runs now.     *)
(***************************************************************************)
AckedKnown ==
  \A c \in Calls :
    LET i == call[c].name IN Positive(c) /\ i \in Members /\ kvservers[i] # nil => c \in memory[kvservers[i]]

(***************************************************************************)
(* Between two functions of the harness the ends made by StartServer, to   *)
(* the group and to the masters, are enabled exactly for the instance that *)
(* runs, after any number of restarts.                                     *)
(***************************************************************************)
OwnEndsAgree ==
  op = Idle => \A i \in Members : \A k \in 1 .. started[i] : \A e \in OwnEnds(i, k) :
                 enabled[e] <=> kvservers[i] = <<i, k>>

(***************************************************************************)
(* ShutdownServer: "prevent this server from sending".  An instance that   *)
(* was shut down has no end that is enabled.                               *)
(***************************************************************************)
OldInstanceSilent ==
  op = Idle => \A e \in ends : e[1] \in Members /\ kvservers[e[1]] # <<e[1], e[2]>> => ~ enabled[e]
=============================================================================
