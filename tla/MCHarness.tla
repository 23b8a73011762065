----------------------------- MODULE MCHarness -----------------------------
(***************************************************************************)
(* Small instances of the three harnesses, one of which the initial state  *)
(* chooses: raft with restarts and cut links; kvraft with two calls to one *)
(* server, and with three servers that are partitioned; shardkv with a     *)
(* master (0) and a group of one, and with two groups.                     *)
(***************************************************************************)
EXTENDS Integers, TLC

CONSTANTS c1, c2, nil

VARIABLES size,
          reliable, ends, enabled, connections, servers, used, done, dispatcher, call, handler, exited,
          started, saved, store, memory, op,
          rafts, connected, links,             \* raft only
          kvservers, clerks, leader, cuts      \* kvraft, and the first two shardkv

rvars == <<rafts, connected, links>>
kvars == <<leader, cuts>>
vars == <<size, reliable, ends, enabled, connections, servers, used, done, dispatcher, call, handler, exited,
          started, saved, store, memory, op, rvars, kvservers, clerks, kvars>>

Ck == {1000}
EndsOf(S, k) == (S \X (1 .. k) \X S) \cup (Ck \X {0} \X S)

Raft == INSTANCE RaftHarness WITH
  Calls <- {c1}, Servers <- 0..1, MaxStarts <- 3, MaxLinks <- 3, Snapshots <- FALSE, Hangs <- {}, Unknown <- {},
  Ends <- (0..1) \X (1..3) \X (0..1), Objects <- (0..1) \X (1..3)

ASSUME RaftNaming == Raft!Naming

KVCalls == INSTANCE KVHarness WITH
  Calls <- {c1, c2}, Servers <- {0}, Clerks <- Ck, MaxStarts <- 2, MaxCuts <- 1, Snapshots <- TRUE,
  Hangs <- {}, Unknown <- {}, Ends <- EndsOf({0}, 2), Objects <- {0} \X (1..2)
KVParts == INSTANCE KVHarness WITH
  Calls <- {}, Servers <- 0..2, Clerks <- Ck, MaxStarts <- 2, MaxCuts <- 2, Snapshots <- TRUE,
  Hangs <- {}, Unknown <- {}, Ends <- EndsOf(0..2, 2), Objects <- (0..2) \X (1..2)
ShardCalls == INSTANCE ShardHarness WITH
  Calls <- {c1}, Servers <- 0..1, gid <- (0 :> 0 @@ 1 :> 100), Clerks <- Ck, MaxStarts <- 3, Snapshots <- TRUE,
  Hangs <- {}, Unknown <- {}, Ends <- EndsOf(0..1, 3), Objects <- (0..1) \X (1..3)
ShardGroups == INSTANCE ShardHarness WITH
  Calls <- {}, Servers <- 0..2, gid <- (0 :> 0 @@ 1 :> 100 @@ 2 :> 101), Clerks <- Ck, MaxStarts <- 3,
  Snapshots <- TRUE, Hangs <- {}, Unknown <- {}, Ends <- EndsOf(0..2, 3), Objects <- (0..2) \X (1..3)

NoRaft == rafts = nil /\ connected = nil /\ links = 0
NoCuts == leader = nil /\ cuts = 0

Init ==
  \/ size = "raft" /\ Raft!make_config /\ NoCuts /\ kvservers = nil /\ clerks = {}
  \/ NoRaft /\ \/ size = "kv calls" /\ KVCalls!make_config
               \/ size = "kv parts" /\ KVParts!make_config
               \/ size = "shard calls" /\ ShardCalls!make_config /\ NoCuts
               \/ size = "shard groups" /\ ShardGroups!make_config /\ NoCuts

Next ==
  /\ UNCHANGED size
  /\ \/ size = "raft" /\ Raft!Next /\ UNCHANGED <<kvservers, clerks, kvars>>
     \/ size = "kv calls" /\ KVCalls!Next /\ UNCHANGED rvars
     \/ size = "kv parts" /\ KVParts!Next /\ UNCHANGED rvars
     \/ size = "shard calls" /\ ShardCalls!Next /\ UNCHANGED <<rvars, kvars>>
     \/ size = "shard groups" /\ ShardGroups!Next /\ UNCHANGED <<rvars, kvars>>

Spec == Init /\ [][Next]_vars

-----------------------------------------------------------------------------
(* The types of the network, the Persisters and the fields of each config. *)
TypeOK ==
  CASE size = "raft" -> Raft!TypeOK
    [] size = "kv calls" -> KVCalls!TypeOK
    [] size = "kv parts" -> KVParts!TypeOK
    [] size = "shard calls" -> ShardCalls!TypeOK
    [] size = "shard groups" -> ShardGroups!TypeOK

(* Whatever a server confirmed is in the Persister that crash1, start1,    *)
(* ShutdownServer or StartServer leaves to its next instance.              *)
AckedSurvives ==
  /\ size = "raft" => Raft!AckedSurvives
  /\ size = "kv calls" => KVCalls!AckedSurvives
  /\ size = "shard calls" => ShardCalls!AckedSurvives

(* ... and the instance that start1 or StartServer made knows it.          *)
AckedKnown ==
  /\ size = "raft" => Raft!AckedKnown
  /\ size = "kv calls" => KVCalls!AckedKnown
  /\ size = "shard calls" => ShardCalls!AckedKnown

(* raft: crash1 disables the ends of an instance and no later connect      *)
(* enables one of them: an old instance cannot send.                       *)
OldInstanceSilent == size = "raft" => Raft!OldInstanceSilent

(* raft: between harness calls two peers are linked exactly if connect and *)
(* disconnect have left both of them connected.                            *)
LinksAgree == size = "raft" => Raft!LinksAgree

(* kvraft: make_partition leaves a connected majority without the leader.  *)
LeaderInMinority == size = "kv parts" => KVParts!LeaderInMinority

(* shardkv: between harness calls the ends that StartServer made for an    *)
(* instance are enabled exactly while it is the one that runs.             *)
OwnEndsAgree == size = "shard groups" => ShardGroups!OwnEndsAgree

Abstract == INSTANCE Topology WITH
  Nodes <- 0..2, linked <- IF size = "kv parts" THEN KVParts!linked ELSE (0..2) \X (0..2)

(* kvraft: partition, ConnectAll, ShutdownServer and StartServer implement *)
(* the abstract topology.                                                  *)
ImplementsTopology == Abstract!Spec
=============================================================================
