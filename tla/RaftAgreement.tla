---------------------------- MODULE RaftAgreement ----------------------------
(***************************************************************************)
(* How the harness of raft/config.go judges a Raft: the goroutines that    *)
(* read applyCh (start1), and checkOneLeader, wait and one with nCommitted,*)
(* which read the servers one by one while those run on.  Raft itself is   *)
(* external: committed commands that every instance applies in order from  *)
(* the first, and leaders, one per term.  A Faulty one applies anything.   *)
(* Instance k of server i is <<i, k>>; an old one goes on applying.        *)
(***************************************************************************)
EXTENDS Integers, Sequences, FiniteSets

CONSTANTS Cmds,         \* commands; one() submits those in Mine
          Mine,
          MaxStarts,    \* bound: instances of a server
          Sizes         \* instances to check: N, Faulty and the other bounds

VARIABLES
  size,        \* the instance, chosen in the initial state
  committed,   \* Raft: the commands committed so far
  led,         \* Raft: per term its leader, nil before it has one
  role,        \* Raft: per server the term it is in, and whether it leads
  applied,     \* per instance: the index applied last
  instance,    \* instances of a server so far
  connected,   \* cfg.connected
  logs,        \* cfg.logs
  reader,      \* per instance: what its reader found wrong, before Fatalf
  test,        \* the test goroutine
  fatal        \* how the process ended

vars == <<size, committed, led, role, applied, instance, connected, logs, reader, test, fatal>>
raft == <<committed, led, role>>

N == size.N                    \* servers 0..N-1
MaxIndex == size.MaxIndex
MaxTerm == size.MaxTerm
MaxRounds == size.MaxRounds    \* calls of the test goroutine
Faulty == size.Faulty

Servers == 0..(N - 1)
Indexes == 1..MaxIndex
Instances == Servers \X (1..MaxStarts)
nil == -1
None == "none"

ASSUME CmdsAssumption   == Mine \subseteq Cmds /\ None \notin Cmds
ASSUME StartsAssumption == MaxStarts \in Nat \ {0}
ASSUME SizesAssumption  == Sizes \subseteq [N : Nat \ {0}, MaxIndex : Nat, MaxTerm : Nat, MaxRounds : Nat, Faulty : BOOLEAN]

Idle == [fn |-> "none", at |-> "idle", cmd |-> None, index |-> nil, want |-> 0, retry |-> TRUE, starts |-> 0,
         si |-> 0, i |-> 0, count |-> 0, cmd1 |-> None, seen |-> {}, rounds |-> 0, accepted |-> 0, startTerm |-> nil, last |-> FALSE]

Init ==
  /\ size \in Sizes
  /\ committed = <<>>
  /\ led = [t \in 1..MaxTerm |-> nil]
  /\ role = [i \in Servers |-> [term |-> 0, leader |-> FALSE]]
  /\ applied = [k \in Instances |-> 0]
  /\ instance = [i \in Servers |-> 1]
  /\ connected = [i \in Servers |-> TRUE]
  /\ logs = [i \in Servers |-> [x \in Indexes |-> None]]
  /\ reader = [k \in Instances |-> "ok"]
  /\ test = Idle
  /\ fatal = None

-----------------------------------------------------------------------------
(* Raft. *)

Elect(i, t) ==
  /\ t > role[i].term /\ led[t] = nil
  /\ led' = [led EXCEPT ![t] = i]
  /\ role' = [role EXCEPT ![i] = [term |-> t, leader |-> TRUE]]
  /\ UNCHANGED committed

LearnTerm(i, t) ==
  /\ t > role[i].term /\ led[t] # nil
  /\ role' = [role EXCEPT ![i] = [term |-> t, leader |-> FALSE]]
  /\ UNCHANGED <<committed, led>>

Commit(v) ==
  /\ Len(committed) < MaxIndex
  /\ v \in Mine => test.accepted > 0
  /\ committed' = Append(committed, v)
  /\ UNCHANGED <<led, role>>

RaftStep ==
  /\ \E i \in Servers, t \in 1..MaxTerm : Elect(i, t) \/ LearnTerm(i, t)
     \/ \E v \in Cmds : Commit(v)
  /\ UNCHANGED <<applied, instance, connected, logs, reader, test, fatal>>

(* The message an instance sends next: in order, or anything. *)
ApplyMsgs(k) ==
  IF Faulty THEN [CommandIndex : Indexes, Command : Cmds]
  ELSE {[CommandIndex |-> x, Command |-> committed[x]] : x \in {applied[k] + 1} \cap DOMAIN committed}

-----------------------------------------------------------------------------
(* The goroutine that reads applyCh for instance k. *)

ReadApplyOwn(k, m) ==
  LET i == k[1] x == m.CommandIndex
      differs == logs[i][x] \notin {None, m.Command}
      gap == x > 1 /\ logs[i][x - 1] = None
  IN  /\ reader[k] = "ok" /\ k[2] <= instance[i]
      /\ applied' = [applied EXCEPT ![k] = x]
      /\ logs' = [logs EXCEPT ![i][x] = m.Command]
      /\ reader' = [reader EXCEPT ![k] = IF gap THEN "out of order" ELSE IF differs THEN "mismatch" ELSE "ok"]
      /\ UNCHANGED <<raft, instance, connected, test, fatal>>

ReadApply(k, m) ==
  LET i == k[1] x == m.CommandIndex
      differs == \E j \in Servers : logs[j][x] \notin {None, m.Command}
      gap == x > 1 /\ logs[i][x - 1] = None
  IN  /\ reader[k] = "ok" /\ k[2] <= instance[i]
      /\ applied' = [applied EXCEPT ![k] = x]
      /\ logs' = [logs EXCEPT ![i][x] = m.Command]
      /\ reader' = [reader EXCEPT ![k] = IF gap THEN "out of order" ELSE IF differs THEN "mismatch" ELSE "ok"]
      /\ UNCHANGED <<raft, instance, connected, test, fatal>>

ReaderFatal(k) ==
  /\ reader[k] # "ok"
  /\ fatal' = reader[k]
  /\ UNCHANGED <<raft, applied, instance, connected, logs, reader, test>>

(* What a test does to servers between its calls.  crash1 stands for       *)
(* disconnect too: the old instance goes on either way.                    *)
crash1(i) ==
  /\ test.at = "idle" /\ connected[i]
  /\ connected' = [connected EXCEPT ![i] = FALSE]
  /\ UNCHANGED <<raft, applied, instance, logs, reader, test, fatal>>

start1Clears(i) ==
  /\ test.at = "idle" /\ instance[i] < MaxStarts
  /\ instance' = [instance EXCEPT ![i] = @ + 1]
  /\ connected' = [connected EXCEPT ![i] = FALSE]
  /\ role' = [role EXCEPT ![i].leader = FALSE]
  /\ logs' = [logs EXCEPT ![i] = [x \in Indexes |-> None]]
  /\ UNCHANGED <<committed, led, applied, reader, test, fatal>>

(* Crashes the server first; connect is another call of the test. *)
start1(i) ==
  /\ test.at = "idle" /\ instance[i] < MaxStarts
  /\ instance' = [instance EXCEPT ![i] = @ + 1]
  /\ connected' = [connected EXCEPT ![i] = FALSE]
  /\ role' = [role EXCEPT ![i].leader = FALSE]
  /\ UNCHANGED <<committed, led, applied, logs, reader, test, fatal>>

connect(i) ==
  /\ test.at = "idle" /\ ~ connected[i]
  /\ connected' = [connected EXCEPT ![i] = TRUE]
  /\ UNCHANGED <<raft, applied, instance, logs, reader, test, fatal>>

-----------------------------------------------------------------------------
(* The test goroutine. *)

Fatalf(why) == fatal' = why /\ UNCHANGED test
Goes(t) == test' = t /\ UNCHANGED fatal
Return(cmd1) ==
  Goes([Idle EXCEPT !.fn = test.fn, !.index = test.index, !.want = test.want, !.cmd = test.cmd, !.cmd1 = cmd1,
                    !.retry = test.retry, !.accepted = test.accepted, !.rounds = test.rounds])
TestOnly == UNCHANGED <<raft, applied, instance, connected, logs, reader>>

Calls(fn) ==
  /\ test.at = "idle" /\ test.rounds < MaxRounds
  /\ \/ /\ fn = "one"
        /\ \E cmd \in Mine, want \in 1..N, retry \in BOOLEAN :
             Goes([Idle EXCEPT !.fn = fn, !.at = "start", !.cmd = cmd, !.want = want, !.retry = retry,
                               !.rounds = test.rounds + 1, !.accepted = 0])
     \/ /\ fn = "wait"
        /\ \E x \in Indexes, want \in 1..N, startTerm \in {nil} \cup {role[i].term : i \in Servers} :
             Goes([Idle EXCEPT !.fn = fn, !.at = "count", !.index = x, !.want = want, !.startTerm = startTerm,
                               !.rounds = test.rounds + 1])
     \/ /\ fn = "checkOneLeader"
        /\ Goes([Idle EXCEPT !.fn = fn, !.at = "ask", !.rounds = test.rounds + 1])
  /\ TestOnly

checkOneLeaderAnyTerm ==
  /\ test.at = "ask"
  /\ IF test.i < N
     THEN Goes([test EXCEPT !.i = @ + 1,
                            !.seen = @ \cup {<<role[j].term, j>> : j \in {j \in {test.i} : connected[j] /\ role[j].leader}}])
     ELSE IF \E a, b \in test.seen : a # b THEN Fatalf("two leaders")
     ELSE IF test.seen # {} THEN Return(test.cmd1)
     ELSE Goes([test EXCEPT !.i = 0]) \/ Fatalf("no leader")
  /\ TestOnly

(* GetState of the servers, one after another; then the verdict. *)
checkOneLeader ==
  /\ test.at = "ask"
  /\ IF test.i < N
     THEN Goes([test EXCEPT !.i = @ + 1,
                            !.seen = @ \cup {<<role[j].term, j>> : j \in {j \in {test.i} : connected[j] /\ role[j].leader}}])
     ELSE IF \E a, b \in test.seen : a[1] = b[1] /\ a # b THEN Fatalf("two leaders")
     ELSE IF test.seen # {} THEN Return(test.cmd1)
     ELSE Goes([test EXCEPT !.i = 0]) \/ Fatalf("no leader")
  /\ TestOnly

(* nCommitted: cfg.mu is held for one server at a time. *)
nCommitted ==
  /\ test.at = "count" /\ test.i < N
  /\ LET cmd1 == logs[test.i][test.index]
     IN  IF cmd1 = None THEN Goes([test EXCEPT !.i = @ + 1])
         ELSE IF test.count > 0 /\ test.cmd1 # cmd1 THEN Fatalf("values do not match")
         ELSE Goes([test EXCEPT !.i = @ + 1, !.count = @ + 1, !.cmd1 = cmd1])
  /\ TestOnly

Again == [test EXCEPT !.i = 0, !.count = 0, !.cmd1 = None]

(* Count until enough have it or the time is over, then count once more;   *)
(* or give up when somebody is in a later term.                            *)
wait ==
  /\ test.fn = "wait" /\ test.at = "count" /\ test.i = N
  /\ \/ ~ test.last /\ test.count < test.want /\ Goes(Again)
     \/ ~ test.last /\ Goes([Again EXCEPT !.last = TRUE])
     \/ /\ ~ test.last /\ test.count < test.want /\ test.startTerm # nil
        /\ \E i \in Servers : role[i].term > test.startTerm
        /\ Return(None)
     \/ test.last /\ IF test.count < test.want THEN Fatalf("too few") ELSE Return(test.cmd1)
  /\ TestOnly

(* Counts one, and more than one. *)
Saturated(k) == IF k < 2 THEN k + 1 ELSE k

(* one: try all the servers ... *)
one ==
  /\ test.at = "start" /\ test.si < N
  /\ LET s == (test.starts + 1) % N
         tried == [test EXCEPT !.starts = s, !.si = @ + 1]
     IN  IF connected[s] /\ role[s].leader
         THEN \E x \in Indexes :
                Goes([tried EXCEPT !.at = "count", !.index = x, !.si = 0, !.i = 0, !.count = 0, !.cmd1 = None, !.accepted = Saturated(@)])
         ELSE Goes(tried)
  /\ TestOnly

(* ... nobody leads: again, or 10 seconds are over ... *)
oneNobody ==
  /\ test.at = "start" /\ test.si = N
  /\ Goes([test EXCEPT !.si = 0]) \/ Fatalf("no agreement")
  /\ TestOnly

oneCommittedAny ==
  /\ test.fn = "one" /\ test.at = "count" /\ test.i = N
  /\ IF test.count > 0 /\ test.count >= test.want
     THEN Return(test.cmd1)
     ELSE \/ Goes(Again)
          \/ test.retry /\ Goes([test EXCEPT !.at = "start", !.si = 0])
          \/ Fatalf("no agreement")
  /\ TestOnly

(* ... or wait 2 seconds for agreement, then submit it again or, when it   *)
(* may not or the 10 seconds are over, give up.                            *)
oneCommitted ==
  /\ test.fn = "one" /\ test.at = "count" /\ test.i = N
  /\ IF test.count > 0 /\ test.count >= test.want /\ test.cmd1 = test.cmd
     THEN Return(test.cmd1)
     ELSE \/ Goes(Again)
          \/ test.retry /\ Goes([test EXCEPT !.at = "start", !.si = 0])
          \/ Fatalf("no agreement")
  /\ TestOnly

Next ==
  /\ fatal = None /\ UNCHANGED size
  /\ \/ RaftStep
     \/ \E k \in Instances : ReaderFatal(k) \/ \E m \in ApplyMsgs(k) : ReadApply(k, m)
     \/ \E i \in Servers : crash1(i) \/ start1(i) \/ connect(i)
     \/ \E fn \in {"one", "wait", "checkOneLeader"} : Calls(fn)
     \/ checkOneLeader \/ nCommitted \/ wait \/ one \/ oneNobody \/ oneCommitted

Spec == Init /\ [][Next]_vars

-----------------------------------------------------------------------------
(* Types of cfg.logs and of the variables of one, wait and checkOneLeader. *)
TypeOK ==
  /\ committed \in Seq(Cmds) /\ Len(committed) <= MaxIndex
  /\ \A i \in Servers, x \in Indexes : logs[i][x] \in Cmds \cup {None}
  /\ test.i \in 0..N /\ test.si \in 0..N /\ test.count \in 0..test.i /\ test.starts \in Servers

(* Crashes, restarts that apply everything again, old instances that go on *)
(* applying and reads of one server at a time: the harness never accuses a *)
(* correct Raft of a mismatch, of applying out of order or of two leaders. *)
NoFalseAlarm ==
  ~ Faulty =>
    /\ fatal \in {None, "no leader", "no agreement", "too few"}
    /\ \A k \in Instances : reader[k] = "ok"

(* one and wait count the servers at different times: when one returns an  *)
(* index, its command is what Raft committed there, and at least as many   *)
(* servers as asked for have it; so for wait when it does not give up.     *)
AgreementReal ==
  test.at = "idle" /\ test.fn \in {"one", "wait"} /\ test.cmd1 # None =>
    /\ test.index \in DOMAIN committed
    /\ committed[test.index] = (IF test.fn = "one" THEN test.cmd ELSE test.cmd1)
    /\ Cardinality({i \in Servers : logs[i][test.index] = test.cmd1}) >= test.want

(* "if retry==false, calls Start() only once" (config.go): no leader takes *)
(* the command a second time.                                              *)
SubmitsOnce == ~ test.retry => test.accepted <= 1

(* "some server has already committed a different value": as soon as two   *)
(* servers, alive or crashed, applied different commands at one index, the *)
(* reader of one of them is on its way to Fatalf, whatever Raft does.      *)
MismatchCaught ==
  (\E i, j \in Servers, x \in Indexes : None \notin {logs[i][x], logs[j][x]} /\ logs[i][x] # logs[j][x])
    => \E k \in Instances : reader[k] # "ok"
=============================================================================
