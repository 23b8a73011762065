-------------------------- MODULE ShardClerksProofs --------------------------
(***************************************************************************)
(* What the clerks of shardkv and shardmaster promise, for every number of *)
(* clerks, groups, servers, keys and configurations.                       *)
(***************************************************************************)
EXTENDS ShardClerks, SequenceTheorems, TLAPS

USE ZenonT(30)

USE BoundsAssumption, KeysAssumption, AdminAssumption

-----------------------------------------------------------------------------
(* Types. *)

Configs == [Shards : [Shards -> Gids \cup {0}], Groups : SUBSET Gids]
Values == Seq(Clerks \X Nat)
Errs == {"none", "OK", "ErrNoKey", "ErrWrongLeader", "ErrWrongGroup", "WrongLeader"}
Calls == [at : {"none", "ran"}, ok : BOOLEAN, Err : Errs, value : Values, num : Nat]

ClerkStates ==
  [config : Nat \ {0}, kind : Kinds \cup {"none"}, key : Keys, n : Nat, at : {"idle", "choose", "call", "query"},
   si : 0 .. NServers, gid : Gids \cup {0}, rpc : Calls, result : Values]

AdminKinds == {"Join", "Leave", "Move"}
AdminStates ==
  [kind : AdminKinds \cup {"none"}, gid : Gids \cup {0}, n : Nat, at : {"idle", "call"}, si : 0 .. NServers, rpc : Calls]

LateCalls ==
  [c : Clerks, n : Nat, kind : Kinds \cup {"none"}, key : Keys, gid : Gids, si : 0 .. NServers]
    \cup [c : {"admin"}, n : Nat, kind : AdminKinds, key : {"none"}, gid : Gids, si : 0 .. NServers]

Types ==
  /\ configs \in Seq(Configs) /\ Len(configs) \in Nat \ {0}
  /\ kv \in [Keys -> Values]
  /\ ck \in [Clerks -> ClerkStates]
  /\ admin \in AdminStates
  /\ late \subseteq LateCalls
  /\ DOMAIN since = Clerks
  /\ fails \in 0 .. MaxFails /\ moves \in 0 .. MaxMoves

-----------------------------------------------------------------------------
(***************************************************************************)
(* What a clerk knows while it waits: an operation that was accepted has   *)
(* been executed, the value that was answered is one of the values since   *)
(* Get began, and the configuration that was answered is not older.        *)
(***************************************************************************)
Answered(r) == r.rpc.at = "ran" /\ r.rpc.ok

ClerkInv(c) ==
  LET r == ck[c]
  IN  /\ r.config <= Latest
      /\ r.at \in {"idle", "choose"} => r.rpc.at = "none"
      /\ r.at = "call" => r.gid \in Gids
      /\ r.at = "call" /\ Answered(r) /\ r.rpc.Err \in {"OK", "ErrNoKey"} =>
           <<c, r.n>> \in executed /\ (r.kind = "Get" => r.rpc.value \in since[c])
      /\ r.at = "query" /\ Answered(r) /\ r.rpc.Err # "WrongLeader" => r.config <= r.rpc.num /\ r.rpc.num <= Latest
      /\ r.at = "idle" /\ r.n > 0 => <<c, r.n>> \in executed
      /\ r.at = "idle" /\ r.kind = "Get" => r.result \in since[c]

AdminInv ==
  /\ admin.at = "call" => admin.gid \in Gids /\ admin.kind \in AdminKinds
  /\ admin.at = "call" /\ Answered(admin) /\ admin.rpc.Err # "WrongLeader" => <<"admin", admin.n>> \in executed
  /\ admin.at = "idle" /\ admin.n > 0 => <<"admin", admin.n>> \in executed

Inv == Types /\ (\A c \in Clerks : ClerkInv(c)) /\ AdminInv
-----------------------------------------------------------------------------
(* Initially. *)

LEMMA NoCallType == NoCall \in Calls /\ NoCall.at = "none" /\ <<>> \in Values
<1>1. <<>> \in Values
  BY EmptySeq DEF Values
<1> QED
  BY <1>1 DEF NoCall, Calls, Errs

LEMMA InitInv == Init => Inv
<1> SUFFICES ASSUME Init PROVE Inv
  OBVIOUS
<1>1. configs \in Seq(Configs) /\ Len(configs) = 1
  <2>1. Initial \in Configs
    BY DEF Initial, Configs
  <2> QED
    BY <2>1, SMTT(30) DEF Init
<1>2. MakeClerk \in ClerkStates
  <2>1. MakeClerk.key \in Keys
    BY DEF MakeClerk, Keys
  <2> QED
    BY <2>1, NoCallType, SMTT(30) DEF MakeClerk, ClerkStates
<1>3. Types
  BY <1>1, <1>2, NoCallType, SMTT(30) DEF Init, Types, AdminStates
<1>4. ASSUME NEW c \in Clerks PROVE ClerkInv(c)
  <2>1. ck[c] = MakeClerk
    BY DEF Init
  <2>2. ck[c].config = 1 /\ ck[c].at = "idle" /\ ck[c].n = 0 /\ ck[c].kind = "none" /\ ck[c].rpc.at = "none"
    BY <2>1, NoCallType, SMTT(30) DEF MakeClerk
  <2> QED
    BY <1>1, <2>2, SMTT(30) DEF ClerkInv, Latest
<1>5. AdminInv
  BY SMTT(30) DEF Init, AdminInv
<1> QED
  BY <1>3, <1>4, <1>5 DEF Inv

-----------------------------------------------------------------------------
(* What the servers do. *)

(* An operation is executed. *)
LEMMA ExecuteKeeps ==
  ASSUME Types, NEW c \in Clerks, NEW n \in Nat, NEW kind, NEW key \in Keys, Execute(c, n, kind, key)
  PROVE  /\ kv' \in [Keys -> Values] /\ DOMAIN since' = Clerks
         /\ executed \subseteq executed' /\ <<c, n>> \in executed'
         /\ \A d \in Clerks : since[d] \subseteq since'[d] /\ (ck[d].at = "idle" => since'[d] = since[d])
         /\ kind = "Get" => \A d \in Clerks : ck[d].key = key /\ ck[d].at # "idle" => kv[key] \in since'[d]
<1> DEFINE v == CASE kind = "Get" -> kv[key] [] kind = "Put" -> <<<<c, n>>>> [] OTHER -> Append(kv[key], <<c, n>>)
<1>1. v \in Values
  <2>1. kv[key] \in Values /\ <<c, n>> \in Clerks \X Nat
    BY DEF Types
  <2>2. <<<<c, n>>>> \in Values /\ Append(kv[key], <<c, n>>) \in Values
    BY <2>1, AppendProperties, SMTT(30) DEF Values
  <2> QED
    BY <2>1, <2>2
<1>2. /\ executed' = executed \cup {<<c, n>>} /\ kv' = [kv EXCEPT ![key] = v]
      /\ since' = [d \in Clerks |-> IF ck[d].key = key /\ ck[d].at # "idle" THEN since[d] \cup {v} ELSE since[d]]
  BY DEF Execute
<1>3. kind = "Get" => v = kv[key]
  OBVIOUS
<1> HIDE DEF v
<1> QED
  BY <1>1, <1>2, <1>3 DEF Types

(* The master makes the next configuration. *)
LEMMA ReconfigureKeeps ==
  ASSUME Types, NEW c \in Configs, Reconfigure(c)
  PROVE  configs' \in Seq(Configs) /\ Len(configs') = Len(configs) + 1
BY AppendProperties DEF Types, Reconfigure

LEMMA MasterKeeps ==
  ASSUME Types, NEW n \in Nat, NEW kind, NEW gid \in Gids, MasterExecutes(n, kind, gid)
  PROVE  /\ configs' \in Seq(Configs) /\ Len(configs') = Len(configs) + 1
         /\ executed \subseteq executed' /\ <<"admin", n>> \in executed'
<1> DEFINE old == configs[Latest]
           groups == IF kind = "Join" THEN old.Groups \cup {gid} ELSE IF kind = "Leave" THEN old.Groups \ {gid} ELSE old.Groups
<1>1. old \in Configs
  BY ElementOfSeq, SMTT(30) DEF Types, Latest
<1>2. groups \subseteq Gids
  BY <1>1 DEF Configs
<1>3. executed' = executed \cup {<<"admin", n>>}
  BY DEF MasterExecutes
<1>4. CASE kind = "Move"
  <2>1. PICK s \in Shards : Reconfigure([old EXCEPT !.Shards[s] = IF gid \in old.Groups THEN gid ELSE @])
    BY <1>4 DEF MasterExecutes
  <2>2. [old EXCEPT !.Shards[s] = IF gid \in old.Groups THEN gid ELSE @] \in Configs
    BY <1>1 DEF Configs
  <2> QED
    BY <1>3, <2>1, <2>2, ReconfigureKeeps
<1>5. CASE kind # "Move"
  <2>1. PICK a \in [Shards -> IF groups = {} THEN {0} ELSE groups] : Reconfigure([Shards |-> a, Groups |-> groups])
    BY <1>5 DEF MasterExecutes
  <2>2. [Shards |-> a, Groups |-> groups] \in Configs
    BY <1>2 DEF Configs
  <2> QED
    BY <1>3, <2>1, <2>2, ReconfigureKeeps
<1> QED
  BY <1>4, <1>5

-----------------------------------------------------------------------------
(* Every step preserves the invariant. *)

LEMMA FirstServer == 1 \in 0 .. NServers
BY SMTT(30)

(* A clerk that makes no step: what was executed and answered stays so. *)
LEMMA ClerkKeeps ==
  ASSUME Types, NEW c \in Clerks, ClerkInv(c), ck'[c] = ck[c], executed \subseteq executed',
         Len(configs) <= Len(configs'), Len(configs') \in Nat, since[c] \subseteq since'[c]
  PROVE  ClerkInv(c)'
<1>1. ck[c] \in ClerkStates /\ Latest \in Nat /\ Latest' \in Nat /\ Latest <= Latest'
  BY DEF Types, Latest
<1>2. ck[c].config \in Nat /\ ck[c].rpc.num \in Nat
  BY <1>1 DEF ClerkStates, Calls
<1> QED
  BY <1>1, <1>2, SMTT(30) DEF ClerkInv, Answered

(* A step of clerk c alone: the others keep. *)
LEMMA OneClerk ==
  ASSUME Inv, Types', NEW c \in Clerks, NEW r, Clerk(c, r), r \in ClerkStates, executed \subseteq executed', UNCHANGED <<configs, admin>>,
         \A d \in Clerks : d # c => since[d] \subseteq since'[d],
         ck'[c] = r => ClerkInv(c)'
  PROVE  Inv'
<1>1. ck'[c] = r /\ \A d \in Clerks : d # c => ck'[d] = ck[d]
  BY DEF Clerk, Inv, Types
<1>2. ASSUME NEW d \in Clerks, d # c PROVE ClerkInv(d)'
  BY <1>1, <1>2, ClerkKeeps, SMTT(30) DEF Inv, Types
<1>3. AdminInv'
  BY DEF Inv, AdminInv, Answered
<1> QED
  BY <1>1, <1>2, <1>3 DEF Inv

LEMMA BeginStep ==
  ASSUME Inv, NEW c \in Clerks, NEW kind \in Kinds, NEW key \in Keys, Begin(c, kind, key)
  PROVE  Inv'
<1> DEFINE r == [ck[c] EXCEPT !.kind = kind, !.key = key, !.n = @ + 1, !.at = "choose"]
<1>1. ck[c] \in ClerkStates /\ ck[c].at = "idle" /\ ClerkInv(c)
  BY DEF Inv, Types, Begin
<1>2. r \in ClerkStates /\ r.config = ck[c].config /\ r.rpc = ck[c].rpc /\ r.at = "choose"
  <2>1. ck[c].n \in Nat
    BY <1>1 DEF ClerkStates
  <2>2. ck[c].n + 1 \in Nat
    BY <2>1, SMTT(30)
  <2>3. r \in ClerkStates
    BY <1>1, <2>2 DEF ClerkStates
  <2> QED
    BY <1>1, <2>3 DEF ClerkStates
<1>3. Clerk(c, r)
  BY DEF Begin
<1> HIDE DEF r
<1>4. Types' /\ ck'[c] = r
  BY <1>2, <1>3 DEF Clerk, Begin, Inv, Types
<1>5. ClerkInv(c)'
  BY <1>1, <1>2, <1>4 DEF ClerkInv, Begin, Latest
<1>6. \A d \in Clerks : d # c => since[d] \subseteq since'[d]
  BY DEF Begin, Inv, Types
<1> QED
  BY <1>2, <1>3, <1>4, <1>5, <1>6, OneClerk DEF Begin

LEMMA ChooseStep ==
  ASSUME Inv, NEW c \in Clerks, Choose(c)
  PROVE  Inv'
<1> DEFINE conf == configs[ck[c].config]
           gid == conf.Shards[key2shard[ck[c].key]]
<1>1. ck[c] \in ClerkStates /\ ck[c].at = "choose" /\ ClerkInv(c)
  BY DEF Inv, Types, Choose
<1>2. conf \in Configs /\ conf.Groups \subseteq Gids
  <2>1. ck[c].config \in 1 .. Len(configs)
    BY <1>1, SMTT(30) DEF ClerkInv, ClerkStates, Latest, Inv, Types
  <2>2. conf \in Configs
    BY <2>1, ElementOfSeq DEF Inv, Types
  <2> QED
    BY <2>2 DEF Configs
<1>3. PICK r \in ClerkStates : /\ Clerk(c, r) /\ r.config = ck[c].config /\ r.rpc = ck[c].rpc /\ r.at \in {"call", "query"}
                               /\ r.at = "call" => r.gid \in Gids
  <2> HIDE DEF gid, conf
  <2>1. CASE gid \in conf.Groups
    <3>1. Clerk(c, [ck[c] EXCEPT !.at = "call", !.gid = gid, !.si = 1])
      BY <2>1 DEF Choose, gid, conf
    <3>2. gid \in Gids
      BY <1>2, <2>1
    <3>3. [ck[c] EXCEPT !.at = "call", !.gid = gid, !.si = 1] \in ClerkStates
      BY <1>1, <3>2, FirstServer DEF ClerkStates
    <3> QED
      BY <1>1, <3>1, <3>2, <3>3 DEF ClerkStates
  <2>2. CASE gid \notin conf.Groups
    <3>1. Clerk(c, [ck[c] EXCEPT !.at = "query", !.si = 1])
      BY <2>2 DEF Choose, gid, conf
    <3>2. [ck[c] EXCEPT !.at = "query", !.si = 1] \in ClerkStates
      BY <1>1, FirstServer DEF ClerkStates
    <3> QED
      BY <1>1, <3>1, <3>2 DEF ClerkStates
  <2> QED
    BY <2>1, <2>2
<1>4. Types' /\ ck'[c] = r
  BY <1>3 DEF Clerk, Choose, Inv, Types
<1>5. ClerkInv(c)'
  BY <1>1, <1>3, <1>4 DEF ClerkInv, Answered, Choose, Latest
<1> QED
  BY <1>3, <1>4, <1>5, OneClerk DEF Choose

LEMMA AfterCallStep ==
  ASSUME Inv, NEW c \in Clerks, AfterCall(c)
  PROVE  Inv'
<1>1. ck[c] \in ClerkStates /\ ck[c].at = "call" /\ ck[c].rpc.at = "ran" /\ ClerkInv(c) /\ ck[c].rpc \in Calls
  BY DEF Inv, Types, AfterCall, ClerkStates
<1>2. PICK r : r = AfterCallReturn(c)
  OBVIOUS
<1>3. /\ r \in ClerkStates /\ r.config = ck[c].config /\ r.rpc = NoCall /\ r.n = ck[c].n /\ r.kind = ck[c].kind
      /\ r.at \in {"idle", "query", "call"} /\ (r.at = "call" => r.gid = ck[c].gid)
      /\ r.at = "idle" => /\ r.result = ck[c].rpc.value /\ Answered(ck[c]) /\ ck[c].rpc.Err \in {"OK", "ErrNoKey"}
  <2> DEFINE q == ck[c]
             accepted == IF q.kind = "Get" THEN GetAccepts(q.rpc) ELSE PutAppendAccepts(q.rpc)
             leaves == (q.rpc.ok /\ q.rpc.Err = "ErrWrongGroup") \/ LastServer(q.si)
             next == [q EXCEPT !.rpc = NoCall]
  <2>1. r = IF accepted THEN [next EXCEPT !.at = "idle", !.result = q.rpc.value, !.si = 0, !.gid = 0]
            ELSE IF leaves THEN [next EXCEPT !.at = Retry, !.si = 1] ELSE [next EXCEPT !.si = @ + 1]
    BY <1>2 DEF AfterCallReturn
  <2>2. next \in ClerkStates /\ next.rpc = NoCall /\ next.gid = q.gid /\ next.at = "call" /\ next.si = q.si
    BY <1>1, NoCallType DEF ClerkStates
  <2>3. next.config = q.config /\ next.n = q.n /\ next.kind = q.kind
    BY <1>1 DEF ClerkStates
  <2>4. q.rpc.value \in Values
    BY <1>1 DEF Calls
  <2>5. accepted => Answered(q) /\ q.rpc.Err \in {"OK", "ErrNoKey"}
    BY <1>1 DEF GetAccepts, PutAppendAccepts, Answered
  <2>6. ~ leaves => q.si + 1 \in 0 .. NServers
    <3>1. q.si \in 0 .. NServers
      BY <1>1 DEF ClerkStates
    <3> QED
      BY <3>1, SMTT(30) DEF LastServer
  <2>7. 0 \in 0 .. NServers
    BY SMTT(30)
  <2> HIDE DEF q, accepted, leaves, next
  <2>8. CASE accepted
    BY <2>1, <2>2, <2>3, <2>4, <2>5, <2>7, <2>8 DEF ClerkStates, q
  <2>9. CASE ~ accepted /\ leaves
    BY <2>1, <2>2, <2>3, <2>9, FirstServer DEF ClerkStates, Retry, q
  <2>10. CASE ~ accepted /\ ~ leaves
    BY <2>1, <2>2, <2>3, <2>6, <2>10 DEF ClerkStates, q
  <2> QED
    BY <2>8, <2>9, <2>10
<1>4. Types' /\ ck'[c] = r /\ Clerk(c, r)
  BY <1>2, <1>3 DEF Clerk, AfterCall, Inv, Types
<1>5. ClerkInv(c)'
  BY <1>1, <1>3, <1>4, NoCallType DEF ClerkInv, Answered, AfterCall, Latest
<1> QED
  BY <1>3, <1>4, <1>5, OneClerk DEF AfterCall

(* What a clerk has heard of the call that it waits for. *)
LEMMA HeardStates ==
  ASSUME Types, NEW c \in Clerks, NEW rpc \in Calls
  PROVE  LET r == [ck[c] EXCEPT !.rpc = rpc]
         IN  /\ r \in ClerkStates /\ r.rpc = rpc /\ r.config = ck[c].config /\ r.n = ck[c].n /\ r.kind = ck[c].kind
             /\ r.at = ck[c].at /\ r.gid = ck[c].gid /\ r.result = ck[c].result
BY DEF Types, ClerkStates

LEMMA CallRunsStep ==
  ASSUME Inv, NEW c \in Clerks, CallRuns(c)
  PROVE  Inv'
<1> DEFINE q == ck[c]
           err == Answer(q.gid, q.si, q.kind, q.key)
           value == IF err = "OK" THEN kv[q.key] ELSE <<>>
           rpc == [NoCall EXCEPT !.at = "ran", !.ok = TRUE, !.Err = err, !.value = value]
           r == [q EXCEPT !.rpc = rpc]
<1>1. q \in ClerkStates /\ q.key \in Keys /\ q.n \in Nat /\ q.at = "call" /\ ClerkInv(c) /\ Types
  BY DEF Inv, Types, CallRuns, ClerkStates
<1>2. err \in {"OK", "ErrNoKey", "ErrWrongLeader", "ErrWrongGroup"} /\ (err = "ErrNoKey" => kv[q.key] = <<>>)
  BY DEF Answer
<1>3. rpc \in Calls /\ rpc.Err = err /\ rpc.value = value /\ (err \in {"OK", "ErrNoKey"} => value = kv[q.key])
  <2>1. value \in Values
    BY <1>1, NoCallType DEF Types
  <2> HIDE DEF err, value
  <2>2. rpc \in Calls
    BY <1>2, <2>1 DEF NoCall, Calls, Errs
  <2>3. rpc.Err = err /\ rpc.value = value
    BY DEF NoCall
  <2>4. err \in {"OK", "ErrNoKey"} => value = kv[q.key]
    BY <1>2 DEF value
  <2> QED
    BY <2>2, <2>3, <2>4
<1>4. Clerk(c, r) /\ (IF err \in {"OK", "ErrNoKey"} THEN Execute(c, q.n, q.kind, q.key) ELSE NotExecuted)
  BY DEF CallRuns
<1> HIDE DEF rpc, err, value
<1>5. r \in ClerkStates /\ r.rpc = rpc /\ r.config = q.config /\ r.n = q.n /\ r.kind = q.kind /\ r.at = "call" /\ r.gid = q.gid
  BY <1>1, <1>3, HeardStates
<1>6. /\ kv' \in [Keys -> Values] /\ DOMAIN since' = Clerks /\ executed \subseteq executed'
      /\ \A d \in Clerks : since[d] \subseteq since'[d]
      /\ err \in {"OK", "ErrNoKey"} => <<c, q.n>> \in executed' /\ (q.kind = "Get" => kv[q.key] \in since'[c])
  <2>1. CASE err \in {"OK", "ErrNoKey"}
    BY <1>1, <1>4, <2>1, ExecuteKeeps
  <2>2. CASE err \notin {"OK", "ErrNoKey"}
    BY <1>1, <1>4, <2>2 DEF NotExecuted, Types
  <2> QED
    BY <2>1, <2>2
<1> HIDE DEF r
<1>7. Types' /\ ck'[c] = r
  BY <1>1, <1>4, <1>5, <1>6 DEF Clerk, CallRuns, Types
<1>8. ClerkInv(c)'
  <2>1. q.config <= Latest /\ q.gid \in Gids /\ Latest' = Latest
    BY <1>1 DEF ClerkInv, CallRuns, Latest
  <2> QED
    BY <1>3, <1>5, <1>6, <1>7, <2>1 DEF ClerkInv
<1> QED
  BY <1>4, <1>5, <1>6, <1>7, <1>8, OneClerk DEF CallRuns

LEMMA CallFailsStep ==
  ASSUME Inv, NEW c \in Clerks, CallFails(c)
  PROVE  Inv'
<1> DEFINE rpc == [NoCall EXCEPT !.at = "ran"]
           r == [ck[c] EXCEPT !.rpc = rpc]
<1>1. ck[c] \in ClerkStates /\ ck[c].at = "call" /\ ClerkInv(c) /\ Types
  BY DEF Inv, Types, CallFails
<1>2. rpc \in Calls /\ rpc.ok = FALSE
  BY NoCallType DEF NoCall, Calls, Errs
<1>3. Clerk(c, r) /\ NotExecuted
  BY DEF CallFails
<1> HIDE DEF rpc
<1>4. r \in ClerkStates /\ r.rpc = rpc /\ r.config = ck[c].config /\ r.at = "call" /\ r.gid = ck[c].gid
  BY <1>1, <1>2, HeardStates
<1>5. late' \subseteq LateCalls /\ fails' \in 0 .. MaxFails
  <2>1. ck[c].gid \in Gids
    BY <1>1 DEF ClerkInv
  <2>2. [c |-> c, n |-> ck[c].n, kind |-> ck[c].kind, key |-> ck[c].key, gid |-> ck[c].gid, si |-> ck[c].si] \in LateCalls
    BY <1>1, <2>1 DEF LateCalls, ClerkStates
  <2>3. fails' \in 0 .. MaxFails
    BY <1>1, SMTT(30) DEF CallFails, Types
  <2> QED
    BY <1>1, <2>2, <2>3 DEF CallFails, Types
<1> HIDE DEF r
<1>6. Types' /\ ck'[c] = r
  BY <1>1, <1>3, <1>4, <1>5 DEF Clerk, CallFails, NotExecuted, Types
<1>7. ClerkInv(c)'
  BY <1>1, <1>2, <1>4, <1>6 DEF ClerkInv, CallFails, Answered, Latest
<1> QED
  BY <1>3, <1>4, <1>6, <1>7, OneClerk DEF CallFails, NotExecuted

LEMMA QueryRunsStep ==
  ASSUME Inv, NEW c \in Clerks, QueryRuns(c)
  PROVE  Inv'
<1>1. ck[c] \in ClerkStates /\ ck[c].at = "query" /\ ClerkInv(c) /\ Types /\ Latest \in Nat
  BY DEF Inv, Types, QueryRuns, Latest
<1>2. PICK rpc \in Calls : /\ Clerk(c, [ck[c] EXCEPT !.rpc = rpc])
                           /\ rpc.ok /\ rpc.Err # "WrongLeader" => rpc.num = Latest
  <2>1. CASE Clerk(c, [ck[c] EXCEPT !.rpc = [NoCall EXCEPT !.at = "ran"]])
    <3>1. [NoCall EXCEPT !.at = "ran"] \in Calls /\ [NoCall EXCEPT !.at = "ran"].ok = FALSE
      BY NoCallType DEF NoCall, Calls, Errs
    <3> QED
      BY <2>1, <3>1
  <2>2. ASSUME NEW err \in {"none", "WrongLeader"}, NEW num \in Nat, err = "none" => num = Latest,
               Clerk(c, [ck[c] EXCEPT !.rpc = [NoCall EXCEPT !.at = "ran", !.ok = TRUE, !.Err = err, !.num = num]])
        PROVE  \E rpc \in Calls : /\ Clerk(c, [ck[c] EXCEPT !.rpc = rpc])
                                  /\ rpc.ok /\ rpc.Err # "WrongLeader" => rpc.num = Latest
    <3> DEFINE rpc == [NoCall EXCEPT !.at = "ran", !.ok = TRUE, !.Err = err, !.num = num]
    <3>1. rpc \in Calls /\ rpc.Err = err /\ rpc.num = num
      BY NoCallType DEF NoCall, Calls, Errs
    <3> QED
      BY <2>2, <3>1
  <2> QED
    BY <1>1, <2>1, <2>2 DEF QueryRuns
<1>3. PICK r : r = [ck[c] EXCEPT !.rpc = rpc]
  OBVIOUS
<1>4. r \in ClerkStates /\ r.rpc = rpc /\ r.config = ck[c].config /\ r.at = "query"
  BY <1>1, <1>3, HeardStates
<1>5. Types' /\ ck'[c] = r
  BY <1>1, <1>2, <1>3, <1>4, SMTT(30) DEF Clerk, QueryRuns, Types
<1>6. ClerkInv(c)'
  BY <1>1, <1>2, <1>4, <1>5, SMTT(30) DEF ClerkInv, QueryRuns, Answered, Latest
<1> QED
  BY <1>2, <1>3, <1>4, <1>5, <1>6, OneClerk DEF QueryRuns

LEMMA QueryStep ==
  ASSUME Inv, NEW c \in Clerks, Query(c)
  PROVE  Inv' /\ ck'[c].config >= ck[c].config
<1>1. /\ ck[c] \in ClerkStates /\ ck[c].at = "query" /\ ck[c].rpc.at = "ran" /\ ClerkInv(c) /\ Types /\ Latest \in Nat
      /\ ck[c].config \in Nat \ {0} /\ ck[c].rpc.num \in Nat /\ ck[c].si \in 0 .. NServers
  BY DEF Inv, Types, Query, Latest, ClerkStates, Calls
<1> DEFINE next == [ck[c] EXCEPT !.rpc = NoCall]
<1>2. next \in ClerkStates /\ next.rpc = NoCall /\ next.config = ck[c].config /\ next.at = "query" /\ next.si = ck[c].si
  BY <1>1, HeardStates, NoCallType, SMTT(30)
<1>3. PICK r \in ClerkStates : /\ Clerk(c, r) /\ r.rpc = NoCall /\ r.at \in {"choose", "query"}
                               /\ r.config >= ck[c].config /\ r.config <= Latest
  <2>1. CASE Accepts(ck[c].rpc)
    <3> DEFINE r == [next EXCEPT !.config = ck[c].rpc.num, !.at = "choose", !.si = 0]
    <3>1. Clerk(c, r)
      BY <2>1 DEF Query
    <3>2. ck[c].config <= ck[c].rpc.num /\ ck[c].rpc.num <= Latest
      BY <1>1, <2>1 DEF ClerkInv, Answered, Accepts
    <3>3. ck[c].rpc.num \in Nat \ {0} /\ 0 \in 0 .. NServers
      BY <1>1, <3>2, SMTT(30)
    <3> HIDE DEF next
    <3>4. r \in ClerkStates /\ r.rpc = NoCall /\ r.at = "choose" /\ r.config = ck[c].rpc.num
      BY <1>2, <3>3 DEF ClerkStates
    <3> QED
      BY <1>1, <3>1, <3>2, <3>4
  <2>2. CASE ~ Accepts(ck[c].rpc)
    <3> DEFINE si == IF ck[c].si = NServers THEN 1 ELSE ck[c].si + 1
               r == [next EXCEPT !.si = si]
    <3>1. Clerk(c, r)
      BY <1>2, <2>2 DEF Query
    <3>2. si \in 0 .. NServers
      BY <1>1, SMTT(30)
    <3> HIDE DEF next, si
    <3>3. r \in ClerkStates /\ r.rpc = NoCall /\ r.at = "query" /\ r.config = ck[c].config
      BY <1>2, <3>2 DEF ClerkStates
    <3>4. ck[c].config <= Latest /\ ck[c].config >= ck[c].config
      BY <1>1, SMTT(30) DEF ClerkInv
    <3> HIDE DEF r
    <3> QED
      BY <3>1, <3>3, <3>4
  <2> QED
    BY <2>1, <2>2
<1>4. Types' /\ ck'[c] = r
  BY <1>1, <1>3, SMTT(30) DEF Clerk, Query, Types
<1>5. ClerkInv(c)'
  BY <1>1, <1>3, <1>4, NoCallType DEF ClerkInv, Query, Answered, Latest
<1> QED
  BY <1>3, <1>4, <1>5, OneClerk DEF Query

-----------------------------------------------------------------------------
(* Calls that are executed late, and the operations of the tester's clerk. *)

(* A step that moves no clerk, and takes nothing from what they know. *)
LEMMA ClerksStay ==
  ASSUME Inv, Types', UNCHANGED ck, configs' = configs \/ Latest' > Latest, executed \subseteq executed',
         \A c \in Clerks : since[c] \subseteq since'[c]
  PROVE  \A c \in Clerks : ClerkInv(c)'
<1>1. Len(configs) <= Len(configs') /\ Len(configs') \in Nat
  BY SMTT(30) DEF Inv, Types, Latest
<1> QED
  BY <1>1, ClerkKeeps DEF Inv

LEMMA RunsLateStep ==
  ASSUME Inv, NEW q \in late, RunsLate(q)
  PROVE  Inv'
<1>1. Types /\ AdminInv /\ q \in LateCalls /\ late' \subseteq LateCalls
  BY DEF Inv, Types, RunsLate
<1>2. /\ kv' \in [Keys -> Values] /\ DOMAIN since' = Clerks /\ executed \subseteq executed'
      /\ \A d \in Clerks : since[d] \subseteq since'[d]
      /\ configs' \in Seq(Configs) /\ Len(configs') \in Nat \ {0} /\ (configs' = configs \/ Latest' > Latest)
  <2>1. CASE q.c \in Clerks /\ UNCHANGED configs /\ Execute(q.c, q.n, q.kind, q.key)
    <3>1. q.n \in Nat /\ q.key \in Keys
      BY <1>1, <2>1 DEF LateCalls
    <3> QED
      BY <1>1, <2>1, <3>1, ExecuteKeeps DEF Types
  <2>2. CASE q.c \in Clerks /\ UNCHANGED configs /\ NotExecuted
    BY <1>1, <2>2 DEF NotExecuted, Types
  <2>3. CASE q.c = "admin" /\ MasterExecutes(q.n, q.kind, q.gid) /\ UNCHANGED <<kv, since>>
    <3>1. q.gid \in Gids /\ q.n \in Nat
      BY <1>1 DEF LateCalls
    <3>2. configs' \in Seq(Configs) /\ Len(configs') = Len(configs) + 1 /\ executed \subseteq executed'
      BY <1>1, <2>3, <3>1, MasterKeeps
    <3> QED
      BY <1>1, <2>3, <3>2, SMTT(30) DEF Types, Latest
  <2> QED
    BY <2>1, <2>2, <2>3 DEF RunsLate
<1>3. UNCHANGED <<ck, admin, fails, moves>>
  BY DEF RunsLate
<1>4. Types'
  BY <1>1, <1>2, <1>3 DEF Types
<1>5. AdminInv'
  BY <1>1, <1>2, <1>3 DEF AdminInv, Answered
<1> QED
  BY <1>2, <1>3, <1>4, <1>5, ClerksStay DEF Inv

LEMMA AdminBeginsStep ==
  ASSUME Inv, NEW kind \in AdminKinds, NEW gid \in Gids, AdminBegins(kind, gid)
  PROVE  Inv'
<1>1. Types /\ admin \in AdminStates /\ admin.n + 1 \in Nat
  BY SMTT(30) DEF Inv, Types, AdminStates
<1>2. UNCHANGED <<configs, kv, ck, late, executed, since, fails, moves>>
  BY DEF AdminBegins
<1>3. admin' \in AdminStates /\ admin'.at = "call" /\ admin'.kind = kind /\ admin'.gid = gid /\ admin'.rpc = NoCall
  BY <1>1, FirstServer, NoCallType DEF AdminBegins, AdminStates
<1>4. Types'
  BY <1>1, <1>2, <1>3 DEF Types
<1>5. AdminInv'
  BY <1>3, NoCallType DEF AdminInv, Answered
<1> QED
  BY <1>2, <1>4, <1>5, ClerksStay DEF Inv

LEMMA AdminRunsStep ==
  ASSUME Inv, AdminRuns
  PROVE  Inv'
<1>1. Types /\ AdminInv /\ admin \in AdminStates /\ admin.at = "call" /\ UNCHANGED <<kv, ck, since, moves>>
  BY DEF Inv, Types, AdminRuns
<1>2. admin.gid \in Gids /\ admin.kind \in AdminKinds
  BY <1>1 DEF AdminInv
<1> DEFINE leader == admin.si = leads[0]
           rpc(ok) == [NoCall EXCEPT !.at = "ran", !.ok = ok, !.Err = IF leader THEN "none" ELSE "WrongLeader"]
           call == [c |-> "admin", n |-> admin.n, kind |-> admin.kind, key |-> "none", gid |-> admin.gid, si |-> admin.si]
<1>3. PICK ok \in BOOLEAN :
        /\ ~ ok => fails < MaxFails
        /\ fails' = IF ok THEN fails ELSE fails + 1
        /\ admin' = [admin EXCEPT !.rpc = rpc(ok)]
        /\ \/ leader /\ MasterExecutes(admin.n, admin.kind, admin.gid) /\ UNCHANGED late
           \/ ~ leader /\ UNCHANGED <<configs, executed, late>>
           \/ ~ ok /\ UNCHANGED <<configs, executed>> /\ late' = late \cup {call}
  BY DEF AdminRuns
<1>4. rpc(ok) \in Calls /\ rpc(ok).ok = ok /\ (rpc(ok).Err # "WrongLeader" => leader)
  BY NoCallType DEF NoCall, Calls, Errs
<1>5. call \in LateCalls
  BY <1>1, <1>2 DEF LateCalls, AdminStates
<1>6. /\ configs' \in Seq(Configs) /\ Len(configs') \in Nat \ {0} /\ (configs' = configs \/ Latest' > Latest)
      /\ executed \subseteq executed' /\ late' \subseteq LateCalls
      /\ ok /\ leader => <<"admin", admin.n>> \in executed'
  <2>1. CASE leader /\ MasterExecutes(admin.n, admin.kind, admin.gid) /\ UNCHANGED late
    <3>1. admin.n \in Nat
      BY <1>1 DEF AdminStates
    <3>2. /\ configs' \in Seq(Configs) /\ Len(configs') = Len(configs) + 1
          /\ executed \subseteq executed' /\ <<"admin", admin.n>> \in executed'
      BY <1>1, <1>2, <2>1, <3>1, MasterKeeps
    <3> QED
      BY <1>1, <2>1, <3>2, SMTT(30) DEF Types, Latest
  <2>2. CASE ~ leader /\ UNCHANGED <<configs, executed, late>>
    BY <1>1, <2>2 DEF Types
  <2>3. CASE ~ ok /\ UNCHANGED <<configs, executed>> /\ late' = late \cup {call}
    BY <1>1, <1>5, <2>3 DEF Types
  <2> QED
    BY <1>3, <2>1, <2>2, <2>3
<1>7. fails' \in 0 .. MaxFails
  <2>1. fails \in 0 .. MaxFails /\ (fails' = fails \/ (fails < MaxFails /\ fails' = fails + 1))
    BY <1>1, <1>3 DEF Types
  <2> QED
    BY <2>1, SMTT(30)
<1>8. /\ admin' \in AdminStates /\ admin'.rpc = rpc(ok) /\ admin'.at = "call" /\ admin'.gid = admin.gid
      /\ admin'.kind = admin.kind /\ admin'.n = admin.n
  <2> HIDE DEF rpc
  <2> QED
    BY <1>1, <1>3, <1>4 DEF AdminStates
<1> HIDE DEF rpc, leader, call
<1>9. Types'
  BY <1>1, <1>6, <1>7, <1>8 DEF Types
<1>10. AdminInv'
  <2>1. Answered(admin)' /\ admin'.rpc.Err # "WrongLeader" => <<"admin", admin'.n>> \in executed'
    BY <1>4, <1>6, <1>8 DEF Answered
  <2> QED
    BY <1>2, <1>8, <2>1 DEF AdminInv
<1> QED
  BY <1>1, <1>6, <1>9, <1>10, ClerksStay DEF Inv

LEMMA AdminAfterStep ==
  ASSUME Inv, AdminAfter
  PROVE  Inv'
<1>1. Types /\ AdminInv /\ admin \in AdminStates /\ admin.at = "call" /\ admin.rpc.at = "ran"
  BY DEF Inv, Types, AdminAfter
<1>2. UNCHANGED <<configs, kv, ck, late, executed, since, fails, moves>>
  BY DEF AdminAfter
<1> DEFINE accepted == Accepts(admin.rpc)
           at == IF accepted THEN "idle" ELSE admin.at
           si == IF accepted \/ admin.si = NServers THEN 1 ELSE admin.si + 1
<1>3. at \in {"idle", "call"} /\ si \in 0 .. NServers
  BY <1>1, SMTT(30) DEF AdminStates
<1>4. admin' = [admin EXCEPT !.rpc = NoCall, !.at = at, !.si = si]
  BY <1>1 DEF AdminAfter, AdminStates
<1>5. at = "idle" => <<"admin", admin.n>> \in executed
  BY <1>1 DEF AdminInv, Accepts, Answered
<1> HIDE DEF at, si
<1>6. /\ admin' \in AdminStates /\ admin'.rpc = NoCall /\ admin'.at = at /\ admin'.gid = admin.gid
      /\ admin'.kind = admin.kind /\ admin'.n = admin.n
  BY <1>1, <1>3, <1>4, NoCallType DEF AdminStates
<1>7. Types'
  BY <1>1, <1>2, <1>6 DEF Types
<1>8. AdminInv'
  BY <1>1, <1>2, <1>5, <1>6, NoCallType DEF AdminInv, Answered
<1> QED
  BY <1>2, <1>7, <1>8, ClerksStay DEF Inv

LEMMA LeaderMovesStep ==
  ASSUME Inv, LeaderMoves
  PROVE  Inv'
<1>1. Types /\ AdminInv /\ UNCHANGED <<configs, kv, ck, admin, late, executed, since, fails>>
  BY DEF Inv, LeaderMoves
<1>2. moves' \in 0 .. MaxMoves
  BY <1>1, SMTT(30) DEF Types, LeaderMoves
<1>3. Types' /\ AdminInv'
  BY <1>1, <1>2 DEF Types, AdminInv, Answered
<1> QED
  BY <1>1, <1>3, ClerksStay DEF Inv

-----------------------------------------------------------------------------
(* Every step. *)

LEMMA Step == Inv /\ [Next]_vars => Inv' /\ \A c \in Clerks : ck'[c].config >= ck[c].config
<1> SUFFICES ASSUME Inv, [Next]_vars
             PROVE  Inv' /\ \A c \in Clerks : ck'[c].config >= ck[c].config
  OBVIOUS
<1>1. Types /\ \A c \in Clerks : ck[c] \in ClerkStates /\ ck[c].config >= ck[c].config
  BY SMTT(30) DEF Inv, Types, ClerkStates
<1>2. CASE LeaderMoves
  BY <1>1, <1>2, LeaderMovesStep DEF LeaderMoves
<1>3. CASE AdminStep
  BY <1>1, <1>3, AdminRunsStep, AdminAfterStep DEF AdminStep, AdminRuns, AdminAfter
<1>4. ASSUME NEW g \in Gids, Join(g) \/ Leave(g) \/ Move(g)
      PROVE  Inv' /\ UNCHANGED ck
  BY <1>4, AdminBeginsStep DEF Join, Leave, Move, AdminKinds, AdminBegins
<1>5. ASSUME NEW q \in late, RunsLate(q)
      PROVE  Inv' /\ UNCHANGED ck
  BY <1>5, RunsLateStep DEF RunsLate
<1>6. CASE UNCHANGED vars
  BY <1>1, <1>6 DEF Inv, Types, ClerkInv, AdminInv, Answered, Latest, vars
<1>7. ASSUME NEW c \in Clerks, ClerkStep(c) \/ CallFails(c) \/ \E kind \in Kinds, key \in Keys : Begin(c, kind, key)
      PROVE  Inv' /\ \A d \in Clerks : ck'[d].config >= ck[d].config
  <2>1. Inv'
    BY <1>7, BeginStep, ChooseStep, CallRunsStep, AfterCallStep, QueryRunsStep, QueryStep, CallFailsStep DEF ClerkStep
  <2>2. \A d \in Clerks : d # c => ck'[d] = ck[d]
    BY <1>1, <1>7 DEF ClerkStep, Choose, CallRuns, AfterCall, QueryRuns, Query, CallFails, Begin, Clerk, Types
  <2>3. ck'[c].config >= ck[c].config
    <3>1. CASE Query(c)
      BY <3>1, QueryStep
    <3>2. CASE Choose(c) \/ CallRuns(c) \/ QueryRuns(c) \/ CallFails(c) \/ \E kind \in Kinds, key \in Keys : Begin(c, kind, key)
      <4>1. ck'[c].config = ck[c].config
        <5>1. PICK r : Clerk(c, r) /\ r.config = ck[c].config
          <6>1. CASE Choose(c)
            <7>1. PICK gid : \/ Clerk(c, [ck[c] EXCEPT !.at = "call", !.gid = gid, !.si = 1])
                             \/ Clerk(c, [ck[c] EXCEPT !.at = "query", !.si = 1])
              BY <6>1 DEF Choose
            <7>2. /\ [ck[c] EXCEPT !.at = "call", !.gid = gid, !.si = 1].config = ck[c].config
                  /\ [ck[c] EXCEPT !.at = "query", !.si = 1].config = ck[c].config
              BY <1>1 DEF ClerkStates
            <7> QED
              BY <7>1, <7>2
          <6>2. CASE CallRuns(c)
            BY <1>1, <6>2, SMTT(30) DEF CallRuns, ClerkStates
          <6>3. CASE QueryRuns(c)
            BY <1>1, <6>3, SMTT(30) DEF QueryRuns, ClerkStates
          <6>4. CASE CallFails(c)
            BY <1>1, <6>4, SMTT(30) DEF CallFails, ClerkStates
          <6>5. CASE \E kind \in Kinds, key \in Keys : Begin(c, kind, key)
            <7>1. PICK kind \in Kinds, key \in Keys :
                    Clerk(c, [ck[c] EXCEPT !.kind = kind, !.key = key, !.n = @ + 1, !.at = "choose"])
              BY <6>5 DEF Begin
            <7>2. [ck[c] EXCEPT !.kind = kind, !.key = key, !.n = @ + 1, !.at = "choose"].config = ck[c].config
              BY <1>1 DEF ClerkStates
            <7> QED
              BY <7>1, <7>2
          <6> QED
            BY <3>2, <6>1, <6>2, <6>3, <6>4, <6>5
        <5> QED
          BY <1>1, <5>1 DEF Clerk, Types
      <4> QED
        BY <1>1, <4>1
    <3>3. CASE AfterCall(c)
      <4>1. ck'[c].config = ck[c].config
        <5>1. AfterCallReturn(c).config = ck[c].config
          BY <1>1 DEF AfterCallReturn, ClerkStates
        <5> QED
          BY <1>1, <3>3, <5>1 DEF AfterCall, Clerk, Types
      <4> QED
        BY <1>1, <4>1
    <3> QED
      BY <1>7, <3>1, <3>2, <3>3 DEF ClerkStep
  <2> QED
    BY <1>1, <2>1, <2>2, <2>3
<1> QED
  BY <1>1, <1>2, <1>3, <1>4, <1>5, <1>6, <1>7 DEF Next

(* The clerks keep what they know, whatever the servers and the network do. *)
THEOREM Invariance == Spec => []Inv
<1> QED
  BY InitInv, Step, PTL DEF Spec

(* The numbers of configurations, groups and servers that Get, PutAppend and *)
(* Query use are those of ones that there are.                               *)
THEOREM TypeCorrect == Spec => []TypeOK
<1>1. Inv => TypeOK
  <2> SUFFICES ASSUME Inv PROVE TypeOK
    OBVIOUS
  <2>1. ASSUME NEW c \in Clerks
        PROVE  ck[c].config \in 1 .. Latest /\ ck[c].si \in 0 .. NServers /\ ck[c].gid \in Gids \cup {0}
    <3>1. ck[c] \in ClerkStates /\ ck[c].config <= Latest /\ Latest \in Nat
      BY DEF Inv, Types, ClerkInv, Latest
    <3> QED
      BY <3>1, SMTT(30) DEF ClerkStates
  <2>2. admin.si \in 0 .. NServers
    BY DEF Inv, Types, AdminStates
  <2> QED
    BY <2>1, <2>2 DEF Inv, Types, TypeOK
<1> QED
  BY <1>1, Invariance, PTL

(* PutAppend, Join, Leave and Move return only when the operation has been *)
(* executed: an accepted reply is never that of a call that was lost.      *)
THEOREM ExecutedAlwaysBeforeReturn == Spec => []ExecutedBeforeReturn
<1>1. Inv => ExecutedBeforeReturn
  BY DEF Inv, ClerkInv, AdminInv, ExecutedBeforeReturn
<1> QED
  BY <1>1, Invariance, PTL

(* Get of shardkv.Clerk returns a value that the key had while Get ran. *)
THEOREM GetAlwaysCurrent == Spec => []GetIsCurrent
<1>1. Inv => GetIsCurrent
  BY DEF Inv, ClerkInv, GetIsCurrent
<1> QED
  BY <1>1, Invariance, PTL

(* ck.config = ck.sm.Query(-1) never replaces a configuration by an older one. *)
THEOREM ConfigsOnlyForward == Spec => ConfigForward
<1> QED
  BY InitInv, Step, PTL DEF Spec, ConfigForward

=============================================================================
