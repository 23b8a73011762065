----------------------------- MODULE ShardClerks -----------------------------
(***************************************************************************)
(* The clerks of shardkv/client.go and shardmaster/client.go: loops over   *)
(* the servers of a cached configuration, and over the masters.  A call is *)
(* one of LossyCalls: it may fail before or after it was executed, and     *)
(* what a clerk gave up may still be executed later.  The servers are      *)
(* external: replicated, one of them leads, the master holds the list of   *)
(* configurations, and a group serves the shards that are its own in the   *)
(* latest.  A value is the sequence of the operations it was made by.      *)
(***************************************************************************)
EXTENDS Naturals, Sequences, TLC

CONSTANTS Clerks, Shards, Gids,
          Kinds,          \* operations the clerks make: Get, Put, Append
          NServers,       \* servers of a group, and masters
          key2shard,      \* keys to shards
          MaxConfigs, MaxFails, MaxMoves, MaxOps

ASSUME BoundsAssumption == NServers \in Nat \ {0} /\ {MaxConfigs, MaxFails, MaxMoves, MaxOps} \subseteq Nat
ASSUME KeysAssumption == DOMAIN key2shard # {} /\ key2shard \in [DOMAIN key2shard -> Shards]
ASSUME AdminAssumption == "admin" \notin Clerks   \* the clerk of the tester is none of Clerks

VARIABLES
  configs,    \* the master: configuration k - 1 is configs[k]
  leads,      \* per group, and for the masters (group 0): who leads
  kv,         \* per key: its value
  ck,         \* per clerk of shardkv: cached configuration, operation, where it is
  admin,      \* the clerk of shardmaster that the tester uses
  late,       \* calls given up that were not executed yet
  executed,   \* operations that were executed, with their clerk
  since,      \* per clerk: the values its key had since the operation began
  fails, moves

vars == <<configs, leads, kv, ck, admin, late, executed, since, fails, moves>>

Keys == DOMAIN key2shard
Latest == Len(configs)
Initial == [Shards |-> [s \in Shards |-> 0], Groups |-> {}]

NoCall == [at |-> "none", ok |-> FALSE, Err |-> "none", value |-> <<>>, num |-> 0]
MakeClerk == [config |-> 1, kind |-> "none", key |-> CHOOSE k \in Keys : TRUE, n |-> 0, at |-> "idle", si |-> 0,
              gid |-> 0, rpc |-> NoCall, result |-> <<>>]

Init ==
  /\ configs = <<Initial>>
  /\ leads = [g \in Gids \cup {0} |-> 1]
  /\ kv = [k \in Keys |-> <<>>]
  /\ ck = [c \in Clerks |-> MakeClerk]
  /\ admin = [kind |-> "none", gid |-> 0, n |-> 0, at |-> "idle", si |-> 0, rpc |-> NoCall]
  /\ late = {} /\ executed = {}
  /\ since = [c \in Clerks |-> {}]
  /\ fails = 0 /\ moves = 0

-----------------------------------------------------------------------------
(* The servers, external. *)

Owner(key) == configs[Latest].Shards[key2shard[key]]

(* What server i of group g answers, and whether it executes the operation. *)
Answer(g, i, kind, key) ==
  IF i # leads[g] THEN "ErrWrongLeader"
  ELSE IF Owner(key) # g THEN "ErrWrongGroup"
  ELSE IF kind = "Get" /\ kv[key] = <<>> THEN "ErrNoKey" ELSE "OK"

Execute(c, n, kind, key) ==
  /\ executed' = executed \cup {<<c, n>>}
  /\ LET v == CASE kind = "Get" -> kv[key] [] kind = "Put" -> <<<<c, n>>>> [] OTHER -> Append(kv[key], <<c, n>>)
     IN  /\ kv' = [kv EXCEPT ![key] = v]
         /\ since' = [d \in Clerks |-> IF ck[d].key = key /\ ck[d].at # "idle" THEN since[d] \cup {v} ELSE since[d]]

NotExecuted == UNCHANGED <<executed, kv, since>>

Reconfigure(c) == Latest < MaxConfigs /\ configs' = Append(configs, c)

(* The master executes Join, Leave or Move; Join and Leave rebalance. *)
MasterExecutes(n, kind, gid) ==
  LET old == configs[Latest]
      groups == IF kind = "Join" THEN old.Groups \cup {gid} ELSE IF kind = "Leave" THEN old.Groups \ {gid} ELSE old.Groups
  IN  /\ executed' = executed \cup {<<"admin", n>>}
      /\ IF kind = "Move"
         THEN \E s \in Shards : Reconfigure([old EXCEPT !.Shards[s] = IF gid \in old.Groups THEN gid ELSE @])
         ELSE \E a \in [Shards -> IF groups = {} THEN {0} ELSE groups] : Reconfigure([Shards |-> a, Groups |-> groups])

LeaderMoves ==
  /\ moves < MaxMoves
  /\ moves' = moves + 1
  /\ \E g \in DOMAIN leads, i \in 1..NServers : leads' = [leads EXCEPT ![g] = i]
  /\ UNCHANGED <<configs, kv, ck, admin, late, executed, since, fails>>

-----------------------------------------------------------------------------
(* Get and PutAppend of shardkv.Clerk. *)

Clerk(c, r) == ck' = [ck EXCEPT ![c] = r]

Begin(c, kind, key) ==
  /\ ck[c].at = "idle" /\ ck[c].n < MaxOps
  /\ Clerk(c, [ck[c] EXCEPT !.kind = kind, !.key = key, !.n = @ + 1, !.at = "choose"])
  /\ since' = [since EXCEPT ![c] = {kv[key]}]
  /\ UNCHANGED <<configs, leads, kv, admin, late, executed, fails, moves>>

(* servers, ok := ck.config.Groups[gid] *)
Choose(c) ==
  LET conf == configs[ck[c].config]
      gid == conf.Shards[key2shard[ck[c].key]]
  IN  /\ ck[c].at = "choose"
      /\ Clerk(c, IF gid \in conf.Groups THEN [ck[c] EXCEPT !.at = "call", !.gid = gid, !.si = 1]
                  ELSE [ck[c] EXCEPT !.at = "query", !.si = 1])
      /\ UNCHANGED <<configs, leads, kv, admin, late, executed, since, fails, moves>>

(* srv.Call: executed ... *)
CallRuns(c) ==
  LET r == ck[c]
      err == Answer(r.gid, r.si, r.kind, r.key)
  IN  /\ r.at = "call" /\ r.rpc.at = "none"
      /\ Clerk(c, [r EXCEPT !.rpc = [NoCall EXCEPT !.at = "ran", !.ok = TRUE, !.Err = err, !.value = IF err = "OK" THEN kv[r.key] ELSE <<>>]])
      /\ IF err \in {"OK", "ErrNoKey"} THEN Execute(c, r.n, r.kind, r.key) ELSE NotExecuted
      /\ UNCHANGED <<configs, leads, admin, late, fails, moves>>

(* ... or not ok: not executed, executed later, or executed and not heard of. *)
CallFails(c) ==
  LET r == ck[c]
  IN  /\ r.at = "call" /\ fails < MaxFails
      /\ fails' = fails + 1
      /\ Clerk(c, [r EXCEPT !.rpc = [NoCall EXCEPT !.at = "ran"]])
      /\ \/ r.rpc.at = "ran" /\ r.rpc.ok /\ UNCHANGED late
         \/ r.rpc.at = "none" /\ late' \in {late, late \cup {[c |-> c, n |-> r.n, kind |-> r.kind, key |-> r.key,
                                                              gid |-> r.gid, si |-> r.si]}}
      /\ NotExecuted
      /\ UNCHANGED <<configs, leads, admin, moves>>

RunsLate(q) ==
  /\ late' = late \ {q}
  /\ \/ /\ q.c \in Clerks
        /\ IF Answer(q.gid, q.si, q.kind, q.key) \in {"OK", "ErrNoKey"} THEN Execute(q.c, q.n, q.kind, q.key) ELSE NotExecuted
        /\ UNCHANGED configs
     \/ /\ q.c = "admin" /\ q.si = leads[0]
        /\ MasterExecutes(q.n, q.kind, q.gid)
        /\ UNCHANGED <<kv, since>>
  /\ UNCHANGED <<leads, ck, admin, fails, moves>>

(* After the call: return, leave the loop, or try the next server. *)
GetAcceptsAny(rpc) == rpc.ok
GetAccepts(rpc) == rpc.ok /\ rpc.Err \in {"OK", "ErrNoKey"}
PutAppendAcceptsAny(rpc) == rpc.ok
PutAppendAccepts(rpc) == rpc.ok /\ rpc.Err = "OK"
LastServer(si) == si = NServers
RetrySame == "choose"
Retry == "query"

AfterCallReturn(c) ==
  LET r == ck[c]
      accepted == IF r.kind = "Get" THEN GetAccepts(r.rpc) ELSE PutAppendAccepts(r.rpc)
      leaves == r.rpc.ok /\ r.rpc.Err = "ErrWrongGroup"
      next == [r EXCEPT !.rpc = NoCall]
  IN  IF accepted THEN [next EXCEPT !.at = "idle", !.result = r.rpc.value, !.si = 0, !.gid = 0]
      ELSE IF leaves \/ LastServer(r.si) THEN [next EXCEPT !.at = Retry, !.si = 1]
      ELSE [next EXCEPT !.si = @ + 1]

AfterCall(c) ==
  /\ ck[c].at = "call" /\ ck[c].rpc.at = "ran"
  /\ Clerk(c, AfterCallReturn(c))
  /\ UNCHANGED <<configs, leads, kv, admin, late, executed, since, fails, moves>>

-----------------------------------------------------------------------------
(* ck.config = ck.sm.Query(-1): shardmaster.Clerk.Query, with its loop. *)

QueryRuns(c) ==
  LET r == ck[c] leader == r.si = leads[0]
  IN  /\ r.at = "query" /\ r.rpc.at = "none"
      /\ \/ /\ Clerk(c, [r EXCEPT !.rpc = [NoCall EXCEPT !.at = "ran", !.ok = TRUE, !.Err = IF leader THEN "none" ELSE "WrongLeader",
                                                         !.num = IF leader THEN Latest ELSE 1]])
            /\ UNCHANGED fails
         \/ /\ fails < MaxFails /\ fails' = fails + 1
            /\ Clerk(c, [r EXCEPT !.rpc = [NoCall EXCEPT !.at = "ran"]])
      /\ UNCHANGED <<configs, leads, kv, admin, late, executed, since, moves>>

Accepts(rpc) == rpc.ok /\ rpc.Err # "WrongLeader"

Query(c) ==
  LET r == ck[c] next == [r EXCEPT !.rpc = NoCall]
  IN  /\ r.at = "query" /\ r.rpc.at = "ran"
      /\ Clerk(c, IF Accepts(r.rpc) THEN [next EXCEPT !.config = r.rpc.num, !.at = "choose", !.si = 0]
                  ELSE [next EXCEPT !.si = IF @ = NServers THEN 1 ELSE @ + 1])
      /\ UNCHANGED <<configs, leads, kv, admin, late, executed, since, fails, moves>>

-----------------------------------------------------------------------------
(* Join, Leave and Move of shardmaster.Clerk. *)

AdminBegins(kind, gid) ==
  /\ admin.at = "idle" /\ Latest < MaxConfigs
  /\ admin' = [admin EXCEPT !.kind = kind, !.gid = gid, !.n = @ + 1, !.at = "call", !.si = 1, !.rpc = NoCall]
  /\ UNCHANGED <<configs, leads, kv, ck, late, executed, since, fails, moves>>

Join(gid) == AdminBegins("Join", gid)
Leave(gid) == AdminBegins("Leave", gid)
Move(gid) == AdminBegins("Move", gid)

AdminRuns ==
  LET leader == admin.si = leads[0]
  IN  /\ admin.at = "call" /\ admin.rpc.at = "none" /\ Latest < MaxConfigs
      /\ \E ok \in BOOLEAN :
           /\ ~ ok => fails < MaxFails
           /\ fails' = IF ok THEN fails ELSE fails + 1
           /\ admin' = [admin EXCEPT !.rpc = [NoCall EXCEPT !.at = "ran", !.ok = ok, !.Err = IF leader THEN "none" ELSE "WrongLeader"]]
           /\ \/ leader /\ MasterExecutes(admin.n, admin.kind, admin.gid) /\ UNCHANGED late
              \/ ~ leader /\ UNCHANGED <<configs, executed, late>>
              \/ /\ ~ ok /\ UNCHANGED <<configs, executed>>
                 /\ late' = late \cup {[c |-> "admin", n |-> admin.n, kind |-> admin.kind, key |-> "none", gid |-> admin.gid,
                                       si |-> admin.si]}
      /\ UNCHANGED <<leads, kv, ck, since, moves>>

AdminAfter ==
  LET accepted == Accepts(admin.rpc)
  IN  /\ admin.at = "call" /\ admin.rpc.at = "ran"
      /\ admin' = [admin EXCEPT !.rpc = NoCall, !.at = IF accepted THEN "idle" ELSE @,
                                !.si = IF accepted \/ @ = NServers THEN 1 ELSE @ + 1]
      /\ UNCHANGED <<configs, leads, kv, ck, late, executed, since, fails, moves>>

ClerkStep(c) == Choose(c) \/ CallRuns(c) \/ AfterCall(c) \/ QueryRuns(c) \/ Query(c)
AdminStep == AdminRuns \/ AdminAfter

Next ==
  \/ LeaderMoves \/ AdminStep
  \/ \E g \in Gids : Join(g) \/ Leave(g) \/ Move(g)
  \/ \E c \in Clerks : \/ ClerkStep(c) \/ CallFails(c)
                       \/ \E kind \in Kinds, key \in Keys : Begin(c, kind, key)
  \/ \E q \in late : RunsLate(q)

Spec == Init /\ [][Next]_vars
FairSpec == Spec /\ WF_vars(AdminStep) /\ \A c \in Clerks : WF_vars(ClerkStep(c))

-----------------------------------------------------------------------------
(* Numbers are those of configurations, groups and servers that there are. *)
TypeOK ==
  /\ \A c \in Clerks : ck[c].config \in 1..Latest /\ ck[c].si \in 0..NServers /\ ck[c].gid \in Gids \cup {0}
  /\ admin.si \in 0..NServers
  /\ fails \in 0..MaxFails /\ moves \in 0..MaxMoves

(* Put, Append, Join, Leave and Move return only after some server has     *)
(* executed the operation, though replies are lost, leaders change and the *)
(* cached configuration is stale.                                          *)
ExecutedBeforeReturn ==
  /\ \A c \in Clerks : ck[c].at = "idle" /\ ck[c].n > 0 => <<c, ck[c].n>> \in executed
  /\ admin.at = "idle" /\ admin.n > 0 => <<"admin", admin.n>> \in executed

(* "fetch the current value for a key": what Get returns was the value at  *)
(* some moment between its call and its return, also when it was sent to   *)
(* the group of an old configuration first.                                *)
GetIsCurrent ==
  \A c \in Clerks : ck[c].at = "idle" /\ ck[c].kind = "Get" => ck[c].result \in since[c]

(* "ask master for the latest configuration": a clerk never goes back to   *)
(* an older configuration.                                                 *)
ConfigForward == [][\A c \in Clerks : ck'[c].config >= ck[c].config]_vars

(* "keeps trying forever in the face of all other errors": when the latest *)
(* configuration lasts and gives the key to a group, the operation ends,   *)
(* once failures and changes of leader have come to an end.                *)
OperationReturns ==
  \A c \in Clerks : (ck[c].at # "idle" /\ Latest = MaxConfigs /\ Owner(ck[c].key) # 0) ~> (ck[c].at = "idle")
=============================================================================
