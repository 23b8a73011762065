------------------------ MODULE RaftAgreementProofs ------------------------
(***************************************************************************)
(* What the harness of raft/config.go concludes about a Raft, proved for   *)
(* every number of servers, instances, indexes, terms and calls.           *)
(***************************************************************************)
EXTENDS RaftAgreement, FiniteSetTheorems, TLAPS

USE ZenonT(30)

-----------------------------------------------------------------------------
(* Types. *)

RaftTypes ==
  /\ size \in Sizes
  /\ committed \in Seq(Cmds) /\ Len(committed) <= MaxIndex
  /\ DOMAIN led = 1..MaxTerm
  /\ DOMAIN role = Servers /\ \A j \in Servers : role[j] = [term |-> role[j].term, leader |-> role[j].leader]

LogTypes ==
  /\ applied \in [Instances -> Nat]
  /\ logs \in [Servers -> [Indexes -> Cmds \cup {None}]]
  /\ DOMAIN reader = Instances

TestFields ==
  test = [fn |-> test.fn, at |-> test.at, cmd |-> test.cmd, index |-> test.index, want |-> test.want,
          retry |-> test.retry, starts |-> test.starts, si |-> test.si, i |-> test.i, count |-> test.count,
          cmd1 |-> test.cmd1, seen |-> test.seen, rounds |-> test.rounds, accepted |-> test.accepted,
          startTerm |-> test.startTerm, last |-> test.last]

TestTypes ==
  /\ test.i \in 0..N /\ test.si \in 0..N /\ test.count \in 0..test.i /\ test.starts \in Servers
  /\ test.at = "count" => test.fn \in {"one", "wait"} /\ test.index \in Indexes /\ test.want \in 1..N
  /\ test.at = "start" => test.fn = "one" /\ test.want \in 1..N
  /\ test.at = "ask" => test.fn = "checkOneLeader" /\ test.count = 0

-----------------------------------------------------------------------------
(* A server that leads is the leader of its term, and so was every server  *)
(* that checkOneLeader has seen lead.                                      *)
RolesLed == \A j \in Servers : role[j].leader => role[j].term \in 1..MaxTerm /\ led[role[j].term] = j
SeenLed == \A a \in test.seen : a \in (1..MaxTerm) \X Servers /\ led[a[1]] = a[2]

(* A command that is not retried was not submitted yet, or once. *)
Submitted == ~ test.retry => test.accepted \in 0..1 /\ (test.at = "start" => test.accepted = 0)

(* No accusation of a correct Raft. *)
Verdicts == {None, "no leader", "no agreement", "too few"}
Quiet == fatal \in Verdicts /\ \A k \in Instances : reader[k] = "ok"

(* cfg.logs has what was committed, and all that an instance applied. *)
LogsTrue ==
  /\ \A j \in Servers, x \in Indexes : logs[j][x] # None => x \in 1..Len(committed) /\ logs[j][x] = committed[x]
  /\ \A k \in Instances : applied[k] <= Len(committed) /\ \A x \in 1..applied[k] : logs[k[1]][x] # None

(* The servers of S below n that have v at index x of their log. *)
Have(S, l, n, x, v) == {j \in S : j < n /\ l[j][x] = v}

(* What nCommitted counted so far is committed, and still there. *)
Committed == test.index \in 1..Len(committed) /\ committed[test.index] = test.cmd1
Counted ==
  test.at = "count" =>
    /\ test.count > 0 => test.cmd1 # None /\ Committed
    /\ test.count <= Cardinality(Have(Servers, logs, test.i, test.index, test.cmd1))

(* So it is when one or wait has returned. *)
Returned ==
  test.at = "idle" /\ test.fn \in {"one", "wait"} /\ test.cmd1 # None =>
    /\ Committed /\ test.index \in Indexes
    /\ test.fn = "one" => test.cmd1 = test.cmd
    /\ test.want \in Nat /\ test.want <= Cardinality(Have(Servers, logs, N, test.index, test.cmd1))

Types == RaftTypes /\ LogTypes /\ TestFields /\ TestTypes
Correct == ~ Faulty => Quiet /\ LogsTrue /\ Counted /\ Returned
Inv == Types /\ RolesLed /\ SeenLed /\ Submitted /\ MismatchCaught /\ Correct

-----------------------------------------------------------------------------
(* The bounds are numbers, and no step changes them. *)
LEMMA Bounds ==
  ASSUME size \in Sizes
  PROVE  /\ N \in Nat /\ N > 0 /\ MaxIndex \in Nat /\ MaxTerm \in Nat /\ MaxRounds \in Nat
         /\ IsFiniteSet(Servers)
<1>1. size \in [N : Nat \ {0}, MaxIndex : Nat, MaxTerm : Nat, MaxRounds : Nat, Faulty : BOOLEAN]
  BY SizesAssumption
<1>2. /\ N \in Nat /\ N > 0 /\ MaxIndex \in Nat /\ MaxTerm \in Nat /\ MaxRounds \in Nat
  BY <1>1, SMTT(30) DEF N, MaxIndex, MaxTerm, MaxRounds
<1>3. 0 \in Int /\ N - 1 \in Int
  BY <1>2, SMTT(30)
<1>4. IsFiniteSet(Servers)
  BY <1>3, FS_Interval DEF Servers
<1> QED
  BY <1>2, <1>4

LEMMA SizeStays ==
  ASSUME size' = size
  PROVE  /\ N' = N /\ MaxIndex' = MaxIndex /\ MaxTerm' = MaxTerm /\ MaxRounds' = MaxRounds /\ Faulty' = Faulty
         /\ Servers' = Servers /\ Indexes' = Indexes /\ Instances' = Instances
BY DEF N, MaxIndex, MaxTerm, MaxRounds, Faulty, Servers, Indexes, Instances

LEMMA Resigns ==
  ASSUME NEW r, r = [term |-> r.term, leader |-> r.leader], NEW s, s = [r EXCEPT !.leader = FALSE]
  PROVE  s = [term |-> s.term, leader |-> s.leader] /\ s.term = r.term /\ s.leader = FALSE
OBVIOUS

(* How many have a command: a number, that grows with what they have, *)
(* and by one with the next server that has it.                       *)
LEMMA HaveFinite ==
  ASSUME size \in Sizes, NEW l, NEW n, NEW x, NEW v
  PROVE  /\ IsFiniteSet(Have(Servers, l, n, x, v))
         /\ Cardinality(Have(Servers, l, n, x, v)) \in Nat
<1>1. Have(Servers, l, n, x, v) \subseteq Servers
  BY DEF Have
<1> QED
  BY <1>1, Bounds, FS_Subset, FS_CardinalityType

LEMMA HaveGrows ==
  ASSUME size \in Sizes, NEW l, NEW m, NEW n, NEW x, NEW v,
         \A j \in Servers : l[j][x] = v => m[j][x] = v
  PROVE  Cardinality(Have(Servers, l, n, x, v)) <= Cardinality(Have(Servers, m, n, x, v))
<1>1. Have(Servers, l, n, x, v) \subseteq Have(Servers, m, n, x, v)
  BY DEF Have
<1> QED
  BY <1>1, HaveFinite, FS_Subset

LEMMA HaveNext ==
  ASSUME size \in Sizes, NEW l, NEW n \in Servers, NEW x, NEW v
  PROVE  LET c == Cardinality(Have(Servers, l, n, x, v))
             d == Cardinality(Have(Servers, l, n + 1, x, v))
         IN  c <= d /\ (l[n][x] = v => c + 1 = d)
<1> DEFINE A == Have(Servers, l, n, x, v)
           B == Have(Servers, l, n + 1, x, v)
<1>1. N \in Nat /\ \A j \in Servers : j \in Int
  BY Bounds, SMTT(30) DEF Servers
<1>2. n \notin A
  BY <1>1, SMTT(30) DEF Have
<1>3. A \subseteq B
  BY <1>1, SMTT(30) DEF Have
<1>4. Cardinality(A) <= Cardinality(B)
  BY <1>3, HaveFinite, FS_Subset
<1>5. ASSUME l[n][x] = v PROVE Cardinality(B) = Cardinality(A) + 1
  <2>1. B = A \cup {n}
    BY <1>1, <1>5, SMTT(30) DEF Have
  <2> QED
    BY <2>1, <1>2, HaveFinite, FS_AddElement
<1>6. Cardinality(A) \in Nat /\ Cardinality(B) \in Nat
  BY HaveFinite
<1> QED
  BY <1>4, <1>5

-----------------------------------------------------------------------------
(* A step of the test goroutine: what is left to show of it. *)
LEMMA TestStep ==
  ASSUME Inv, size' = size, TestOnly, TestFields', TestTypes', SeenLed', Submitted',
         ~ Faulty => fatal' \in Verdicts /\ Counted' /\ Returned'
  PROVE  Inv'
<1> USE SizeStays
<1>1. RaftTypes' /\ LogTypes'
  BY DEF Inv, Types, RaftTypes, LogTypes, TestOnly, raft
<1>2. RolesLed'
  BY DEF Inv, RolesLed, TestOnly, raft
<1>3. MismatchCaught'
  BY DEF Inv, MismatchCaught, TestOnly, raft
<1>4. ~ Faulty => Quiet' /\ LogsTrue'
  BY DEF Inv, Correct, Quiet, LogsTrue, TestOnly, raft
<1>5. Faulty' = Faulty
  OBVIOUS
<1>6. Types' /\ Correct' /\ Submitted' /\ SeenLed'
  BY ONLY <1>1, <1>4, <1>5, TestFields', TestTypes', SeenLed', Submitted', ~ Faulty => fatal' \in Verdicts /\ Counted' /\ Returned', ZenonT(30)
  DEF Types, Correct
<1> QED
  BY <1>2, <1>3, <1>6 DEF Inv

(* Fatalf. *)
LEMMA FatalStep ==
  ASSUME Inv, size' = size, TestOnly, NEW why, Fatalf(why), ~ Faulty => why \in Verdicts
  PROVE  Inv'
<1> USE SizeStays
<1>1. test' = test /\ fatal' = why /\ logs' = logs /\ committed' = committed /\ led' = led
  BY DEF Fatalf, TestOnly, raft
<1>2. TestFields' /\ TestTypes'
  BY <1>1 DEF Inv, Types, TestFields, TestTypes
<1>3. SeenLed' /\ Submitted'
  BY <1>1 DEF Inv, SeenLed, Submitted
<1>4. ~ Faulty => Counted' /\ Returned'
  BY <1>1 DEF Inv, Correct, Counted, Returned, Committed
<1> QED
  BY <1>1, <1>2, <1>3, <1>4, TestStep

(* The end of a call: what one and wait return is committed. *)
LEMMA ReturnStep ==
  ASSUME Inv, size' = size, TestOnly, fatal = None, NEW v, Return(v),
         ~ Faulty /\ test.fn \in {"one", "wait"} /\ v # None =>
           /\ test.at = "count" /\ test.i = N /\ test.count > 0 /\ test.want <= test.count /\ v = test.cmd1
           /\ test.fn = "one" => v = test.cmd
  PROVE  Inv'
<1> USE SizeStays
<1>1. /\ fatal' = fatal /\ logs' = logs /\ committed' = committed /\ led' = led
      /\ test' = [Idle EXCEPT !.fn = test.fn, !.index = test.index, !.want = test.want, !.cmd = test.cmd, !.cmd1 = v,
                              !.retry = test.retry, !.accepted = test.accepted, !.rounds = test.rounds]
  BY DEF Return, Goes, TestOnly, raft
<1>2. /\ TestFields'
      /\ test'.fn = test.fn /\ test'.index = test.index /\ test'.want = test.want /\ test'.cmd = test.cmd /\ test'.cmd1 = v
      /\ test'.retry = test.retry /\ test'.accepted = test.accepted /\ test'.at = "idle" /\ test'.seen = {}
      /\ test'.i = 0 /\ test'.si = 0 /\ test'.count = 0 /\ test'.starts = 0
  BY <1>1 DEF TestFields, Idle
<1>3. TestTypes'
  BY <1>2, Bounds, SMTT(30) DEF Inv, Types, RaftTypes, TestTypes, Servers
<1>4. SeenLed' /\ Submitted'
  BY <1>2 DEF SeenLed, Submitted, Inv
<1>5. fatal' \in Verdicts /\ Counted'
  BY <1>1, <1>2 DEF Verdicts, Counted
<1>6. ASSUME ~ Faulty, test.fn \in {"one", "wait"}, v # None
      PROVE  Returned'
  <2>1. Counted /\ TestTypes /\ size \in Sizes
    BY <1>6 DEF Inv, Correct, Types, RaftTypes
  <2>2. /\ Committed /\ test.index \in Indexes /\ test.want \in 1..N /\ test.count \in 0..N
        /\ test.count <= Cardinality(Have(Servers, logs, N, test.index, v))
    BY <1>6, <2>1 DEF Counted, TestTypes
  <2>3. test.want \in Nat /\ test.want <= Cardinality(Have(Servers, logs, N, test.index, v))
    BY <1>6, <2>1, <2>2, Bounds, HaveFinite, SMTT(30)
  <2> QED
    BY <1>1, <1>2, <1>6, <2>2, <2>3 DEF Returned, Committed
<1>7. ~ Faulty => Returned'
  BY <1>2, <1>6 DEF Returned
<1> QED
  BY <1>3, <1>4, <1>5, <1>7, <1>2, TestStep

(* A call begins. *)
LEMMA CallsStep ==
  ASSUME Inv, size' = size, fatal = None, NEW fn \in {"one", "wait", "checkOneLeader"}, Calls(fn)
  PROVE  Inv'
<1> USE SizeStays
<1>1. TestOnly /\ fatal' = fatal
  BY DEF Calls, Goes
<1>2. /\ TestFields' /\ test'.i = 0 /\ test'.si = 0 /\ test'.count = 0 /\ test'.starts = 0
      /\ test'.cmd1 = None /\ test'.seen = {} /\ test'.accepted = 0
      /\ \/ test'.at = "start" /\ test'.fn = "one" /\ test'.want \in 1..N
         \/ test'.at = "count" /\ test'.fn = "wait" /\ test'.index \in Indexes /\ test'.want \in 1..N
         \/ test'.at = "ask" /\ test'.fn = "checkOneLeader"
  <2>1. CASE fn = "one" /\ \E cmd \in Mine, want \in 1..N, retry \in BOOLEAN :
                Goes([Idle EXCEPT !.fn = fn, !.at = "start", !.cmd = cmd, !.want = want, !.retry = retry,
                                  !.rounds = test.rounds + 1, !.accepted = 0])
    <3>1. PICK cmd \in Mine, want \in 1..N, retry \in BOOLEAN :
             Goes([Idle EXCEPT !.fn = fn, !.at = "start", !.cmd = cmd, !.want = want, !.retry = retry,
                               !.rounds = test.rounds + 1, !.accepted = 0])
      BY <2>1
    <3> QED
      BY <2>1, <3>1 DEF TestFields, Idle, Goes
  <2>2. CASE fn = "wait" /\ \E x \in Indexes, want \in 1..N, startTerm \in {nil} \cup {role[i].term : i \in Servers} :
                Goes([Idle EXCEPT !.fn = fn, !.at = "count", !.index = x, !.want = want, !.startTerm = startTerm,
                                  !.rounds = test.rounds + 1])
    <3>1. PICK x \in Indexes, want \in 1..N, startTerm \in {nil} \cup {role[i].term : i \in Servers} :
             Goes([Idle EXCEPT !.fn = fn, !.at = "count", !.index = x, !.want = want, !.startTerm = startTerm,
                               !.rounds = test.rounds + 1])
      BY <2>2
    <3>2. test' = [Idle EXCEPT !.fn = "wait", !.at = "count", !.index = x, !.want = want, !.startTerm = startTerm,
                               !.rounds = test.rounds + 1]
      BY <2>2, <3>1 DEF Goes
    <3> QED
      BY ONLY <3>2, x \in Indexes, want \in 1..N, SizeStays, size' = size, ZenonT(30) DEF TestFields, Idle
  <2>3. CASE fn = "checkOneLeader" /\ Goes([Idle EXCEPT !.fn = fn, !.at = "ask", !.rounds = test.rounds + 1])
    BY <2>3 DEF TestFields, Idle, Goes
  <2> QED
    BY <2>1, <2>2, <2>3 DEF Calls
<1>3. 0 \in 0..N /\ 0 \in 0..0 /\ 0 \in 0..1 /\ 0 \in Servers /\ ~ 0 > 0
  BY Bounds, SMTT(30) DEF Inv, Types, RaftTypes, Servers
<1>4. TestTypes'
  BY <1>2, <1>3 DEF TestTypes
<1>5. SeenLed' /\ Submitted'
  BY <1>2, <1>3 DEF SeenLed, Submitted
<1>6. 0 <= Cardinality(Have(Servers, logs', test'.i, test'.index, test'.cmd1))
  BY HaveFinite, SMTT(30) DEF Inv, Types, RaftTypes
<1>7. Counted' /\ Returned'
  BY <1>2, <1>3, <1>6 DEF Counted, Returned
<1> QED
  BY <1>1, <1>2, <1>4, <1>5, <1>7, TestStep DEF Verdicts

(* checkOneLeader asks server i, and judges once it has asked them all. *)
LEMMA AsksStep ==
  ASSUME Inv, size' = size, fatal = None, checkOneLeader
  PROVE  Inv'
<1> USE SizeStays
<1>1. TestOnly /\ test.at = "ask" /\ test.fn = "checkOneLeader" /\ test.count = 0 /\ TestFields /\ TestTypes /\ size \in Sizes
  BY DEF checkOneLeader, Inv, Types, TestTypes, RaftTypes
<1>2. ASSUME NEW i \in 0..N, NEW seen, test' = [test EXCEPT !.i = i, !.seen = seen], fatal' = fatal, test.count \in 0..i,
             \A a \in seen : a \in (1..MaxTerm) \X Servers /\ led[a[1]] = a[2]
      PROVE  Inv'
  <2>1. /\ TestFields' /\ test'.i = i /\ test'.seen = seen /\ test'.at = test.at /\ test'.fn = test.fn
        /\ test'.si = test.si /\ test'.count = test.count /\ test'.starts = test.starts
        /\ test'.retry = test.retry /\ test'.accepted = test.accepted
    BY <1>1, <1>2 DEF TestFields
  <2>2. TestTypes' /\ Counted' /\ Returned'
    BY <1>1, <1>2, <2>1 DEF TestTypes, Counted, Returned
  <2>3. Submitted'
    BY <2>1 DEF Inv, Submitted
  <2>4. SeenLed'
    BY <1>1, <1>2, <2>1 DEF SeenLed, TestOnly, raft
  <2> QED
    BY <1>1, <1>2, <2>1, <2>2, <2>3, <2>4, TestStep DEF Verdicts
<1>3. CASE test.i < N
  <2> DEFINE now == {<<role[j].term, j>> : j \in {j \in {test.i} : connected[j] /\ role[j].leader}}
  <2>1. test.i \in Servers /\ test.i + 1 \in 0..N /\ test.count \in 0..(test.i + 1)
    BY <1>1, <1>3, Bounds, SMTT(30) DEF TestTypes, Servers
  <2>2. test' = [test EXCEPT !.i = test.i + 1, !.seen = test.seen \cup now] /\ fatal' = fatal
    BY <1>3 DEF checkOneLeader, Goes
  <2>3. ASSUME NEW a \in now PROVE a \in (1..MaxTerm) \X Servers /\ led[a[1]] = a[2]
    <3>1. role[test.i].leader /\ a = <<role[test.i].term, test.i>>
      BY <2>3
    <3>2. role[test.i].term \in 1..MaxTerm /\ led[role[test.i].term] = test.i
      BY <2>1, <3>1 DEF Inv, RolesLed
    <3> QED
      BY <2>1, <3>1, <3>2
  <2>4. \A a \in test.seen \cup now : a \in (1..MaxTerm) \X Servers /\ led[a[1]] = a[2]
    BY <2>3 DEF Inv, SeenLed
  <2> QED
    BY <2>1, <2>2, <2>4, <1>2
<1>4. CASE ~ test.i < N
  <2>1. ASSUME NEW a \in test.seen, NEW b \in test.seen, a[1] = b[1] PROVE a = b
    <3>1. a \in (1..MaxTerm) \X Servers /\ b \in (1..MaxTerm) \X Servers /\ a[2] = b[2]
      BY <2>1, SMTT(30) DEF Inv, SeenLed
    <3> QED
      BY <3>1, <2>1, SMTT(30)
  <2>2. \/ Return(test.cmd1) \/ Fatalf("no leader")
        \/ Goes([test EXCEPT !.i = 0])
    BY <1>4, <2>1 DEF checkOneLeader
  <2>3. CASE Return(test.cmd1)
    BY <1>1, <2>3, ReturnStep
  <2>4. CASE Fatalf("no leader")
    BY <1>1, <2>4, FatalStep DEF Verdicts
  <2>5. CASE Goes([test EXCEPT !.i = 0])
    <3>1. test' = [test EXCEPT !.i = 0, !.seen = test.seen] /\ fatal' = fatal
      BY <1>1, <2>5 DEF Goes, TestFields
    <3>2. 0 \in 0..N /\ test.count \in 0..0
      BY <1>1, Bounds, SMTT(30) DEF TestTypes
    <3> QED
      BY <1>2, <3>1, <3>2 DEF Inv, SeenLed
  <2> QED
    BY <2>2, <2>3, <2>4, <2>5
<1> QED
  BY <1>3, <1>4


(* nCommitted reads the log of server i. *)
LEMMA CountsStep ==
  ASSUME Inv, size' = size, fatal = None, nCommitted
  PROVE  Inv'
<1> USE SizeStays
<1> DEFINE v == logs[test.i][test.index]
           have(n, u) == Cardinality(Have(Servers, logs, n, test.index, u))
<1>1. /\ TestOnly /\ test.at = "count" /\ test.i < N /\ TestFields /\ TestTypes /\ size \in Sizes
      /\ logs' = logs /\ committed' = committed /\ led' = led
  BY DEF nCommitted, Inv, Types, TestTypes, RaftTypes, TestOnly, raft
<1>2. /\ test.i \in Servers /\ test.i + 1 \in 0..N /\ test.count \in Nat /\ test.count + 1 \in 0..(test.i + 1)
      /\ test.count \in 0..(test.i + 1) /\ test.index \in Indexes
  BY <1>1, Bounds, SMTT(30) DEF TestTypes, Servers
<1>3. ASSUME ~ Faulty PROVE /\ v # None => test.index \in 1..Len(committed) /\ v = committed[test.index]
                            /\ test.count > 0 => test.cmd1 # None /\ Committed
                            /\ test.count <= have(test.i, test.cmd1)
  BY <1>1, <1>2, <1>3 DEF Inv, Correct, LogsTrue, Counted
<1>4. ASSUME NEW c \in 0..(test.i + 1), NEW u, test' = [test EXCEPT !.i = @ + 1, !.count = c, !.cmd1 = u], fatal' = fatal,
             ~ Faulty => /\ c > 0 => u # None /\ test.index \in 1..Len(committed) /\ committed[test.index] = u
                         /\ c <= have(test.i + 1, u)
      PROVE  Inv'
  <2>1. /\ TestFields' /\ test'.i = test.i + 1 /\ test'.count = c /\ test'.cmd1 = u /\ test'.seen = test.seen
        /\ test'.at = test.at /\ test'.fn = test.fn /\ test'.index = test.index /\ test'.want = test.want
        /\ test'.si = test.si /\ test'.starts = test.starts /\ test'.retry = test.retry /\ test'.accepted = test.accepted
    BY <1>1, <1>4 DEF TestFields
  <2>2. TestTypes'
    BY <1>1, <1>2, <1>4, <2>1 DEF TestTypes
  <2>3. Returned' /\ Submitted' /\ SeenLed'
    BY <1>1, <2>1 DEF Returned, Submitted, SeenLed, Inv
  <2>4. ~ Faulty => Counted'
    BY <1>1, <1>4, <2>1 DEF Counted, Committed
  <2> QED
    BY <1>1, <1>4, <2>1, <2>2, <2>3, <2>4, TestStep DEF Verdicts
<1>5. CASE v = None
  <2>1. test' = [test EXCEPT !.i = @ + 1, !.count = test.count, !.cmd1 = test.cmd1] /\ fatal' = fatal
    BY <1>1, <1>5 DEF nCommitted, Goes, TestFields
  <2>2. ASSUME ~ Faulty PROVE test.count <= have(test.i + 1, test.cmd1)
    <3>1. have(test.i, test.cmd1) <= have(test.i + 1, test.cmd1)
      BY <1>1, <1>2, HaveNext
    <3>2. have(test.i, test.cmd1) \in Nat /\ have(test.i + 1, test.cmd1) \in Nat
      BY <1>1, HaveFinite
    <3>3. test.count <= have(test.i, test.cmd1)
      BY <1>3, <2>2
    <3> HIDE DEF have
    <3> QED
      BY <1>2, <3>1, <3>2, <3>3, SMTT(30)
  <2> QED
    BY <1>2, <1>3, <1>4, <2>1, <2>2 DEF Committed
<1>6. CASE v # None /\ test.count > 0 /\ test.cmd1 # v
  <2>1. Faulty
    BY <1>3, <1>6 DEF Committed
  <2>2. Fatalf("values do not match")
    BY <1>6 DEF nCommitted
  <2> QED
    BY <1>1, <2>1, <2>2, FatalStep
<1>7. CASE v # None /\ ~ (test.count > 0 /\ test.cmd1 # v)
  <2>1. test' = [test EXCEPT !.i = @ + 1, !.count = test.count + 1, !.cmd1 = v] /\ fatal' = fatal
    BY <1>7 DEF nCommitted, Goes
  <2>2. ASSUME ~ Faulty PROVE test.count + 1 <= have(test.i + 1, v)
    <3>1. have(test.i, v) + 1 = have(test.i + 1, v)
      BY <1>1, <1>2, HaveNext, SMTT(30)
    <3>2. have(test.i, v) \in Nat /\ have(test.i + 1, v) \in Nat /\ have(test.i, test.cmd1) \in Nat
      BY <1>1, HaveFinite
    <3>3. test.count <= have(test.i, test.cmd1)
      BY <1>3, <2>2
    <3>4. test.count > 0 => have(test.i, test.cmd1) = have(test.i, v)
      BY <1>7
    <3> HIDE DEF have
    <3> QED
      BY <1>2, <3>1, <3>2, <3>3, <3>4, SMTT(30)
  <2> QED
    BY <1>2, <1>3, <1>4, <1>7, <2>1, <2>2
<1> QED
  BY <1>5, <1>6, <1>7


(* nCommitted starts again. *)
LEMMA AgainStep ==
  ASSUME Inv, size' = size, TestOnly, fatal = None, fatal' = fatal, test.at = "count",
         NEW last, test' = [Again EXCEPT !.last = last]
  PROVE  Inv'
<1> USE SizeStays
<1>1. TestFields /\ TestTypes /\ size \in Sizes /\ led' = led
  BY DEF Inv, Types, RaftTypes, TestOnly, raft
<1>2. /\ TestFields' /\ test'.i = 0 /\ test'.count = 0 /\ test'.cmd1 = None /\ test'.seen = test.seen
      /\ test'.at = test.at /\ test'.fn = test.fn /\ test'.index = test.index /\ test'.want = test.want
      /\ test'.si = test.si /\ test'.starts = test.starts /\ test'.retry = test.retry /\ test'.accepted = test.accepted
  BY <1>1 DEF TestFields, Again
<1>3. 0 \in 0..N /\ 0 \in 0..0 /\ ~ 0 > 0
  BY <1>1, Bounds, SMTT(30)
<1>4. TestTypes'
  BY <1>1, <1>2, <1>3 DEF TestTypes
<1>5. SeenLed' /\ Submitted' /\ Returned'
  BY <1>1, <1>2 DEF SeenLed, Submitted, Returned, Inv
<1>6. 0 <= Cardinality(Have(Servers, logs', test'.i, test'.index, test'.cmd1))
  BY <1>1, HaveFinite, SMTT(30)
<1>7. Counted'
  BY <1>2, <1>3, <1>6 DEF Counted
<1> QED
  BY <1>2, <1>4, <1>5, <1>7, TestStep DEF Verdicts

(* wait judges what nCommitted counted. *)
LEMMA WaitStep ==
  ASSUME Inv, size' = size, fatal = None, wait
  PROVE  Inv'
<1> USE SizeStays
<1>1. TestOnly /\ test.fn = "wait" /\ test.at = "count" /\ test.i = N /\ TestFields /\ TestTypes /\ size \in Sizes
  BY DEF wait, Inv, Types, RaftTypes
<1>2. \/ Goes(Again)
      \/ Goes([Again EXCEPT !.last = TRUE])
      \/ Return(None)
      \/ Fatalf("too few")
      \/ ~ test.count < test.want /\ Return(test.cmd1)
  BY DEF wait
<1>3. CASE Goes(Again)
  <2>1. test' = [Again EXCEPT !.last = test.last] /\ fatal' = fatal
    BY <1>1, <1>3 DEF Goes, Again, TestFields
  <2> QED
    BY <1>1, <2>1, AgainStep
<1>4. CASE Goes([Again EXCEPT !.last = TRUE])
  BY <1>1, <1>4, AgainStep DEF Goes
<1>5. CASE Return(None)
  BY <1>1, <1>5, ReturnStep
<1>6. CASE Fatalf("too few")
  BY <1>1, <1>6, FatalStep DEF Verdicts
<1>7. CASE ~ test.count < test.want /\ Return(test.cmd1)
  <2>1. test.count > 0 /\ test.want <= test.count
    BY <1>1, <1>7, Bounds, SMTT(30) DEF TestTypes
  <2> QED
    BY <1>1, <1>7, <2>1, ReturnStep
<1> QED
  BY <1>2, <1>3, <1>4, <1>5, <1>6, <1>7

(* one tries the next server. *)
LEMMA TriesStep ==
  ASSUME Inv, size' = size, fatal = None, one
  PROVE  Inv'
<1> USE SizeStays
<1> DEFINE s == (test.starts + 1) % N
           tried == [test EXCEPT !.starts = s, !.si = @ + 1]
<1>1. TestOnly /\ test.at = "start" /\ test.si < N /\ test.fn = "one" /\ test.want \in 1..N
  BY DEF one, Inv, Types, TestTypes
<1>2. TestFields /\ TestTypes /\ size \in Sizes /\ led' = led
  BY <1>1 DEF Inv, Types, RaftTypes, TestOnly, raft
<1>3. s \in Servers /\ test.si + 1 \in 0..N
  BY <1>1, <1>2, Bounds, SMTT(30) DEF TestTypes, Servers
<1>4. CASE Goes(tried)
  <2>1. /\ TestFields' /\ test'.i = test.i /\ test'.count = test.count /\ test'.seen = test.seen
        /\ test'.at = test.at /\ test'.fn = test.fn /\ test'.want = test.want
        /\ test'.si = test.si + 1 /\ test'.starts = s /\ test'.retry = test.retry /\ test'.accepted = test.accepted
    BY <1>2, <1>4 DEF TestFields, Goes
  <2>2. TestTypes' /\ Counted' /\ Returned'
    BY <1>1, <1>2, <1>3, <2>1 DEF TestTypes, Counted, Returned
  <2>3. SeenLed' /\ Submitted'
    BY <1>2, <2>1 DEF SeenLed, Submitted, Inv
  <2> QED
    BY <1>1, <1>4, <2>1, <2>2, <2>3, TestStep DEF Verdicts, Goes
<1>5. ASSUME NEW x \in Indexes,
             Goes([tried EXCEPT !.at = "count", !.index = x, !.si = 0, !.i = 0, !.count = 0, !.cmd1 = None, !.accepted = Saturated(@)])
      PROVE  Inv'
  <2>1. /\ TestFields' /\ test'.i = 0 /\ test'.count = 0 /\ test'.seen = test.seen /\ test'.cmd1 = None
        /\ test'.at = "count" /\ test'.fn = test.fn /\ test'.want = test.want /\ test'.index = x
        /\ test'.si = 0 /\ test'.starts = s /\ test'.retry = test.retry /\ test'.accepted = Saturated(test.accepted)
    BY <1>2, <1>5 DEF TestFields, Goes
  <2>2. 0 \in 0..N /\ 0 \in 0..0 /\ ~ 0 > 0 /\ Saturated(0) \in 0..1
    BY <1>2, Bounds, SMTT(30) DEF Saturated
  <2>3. TestTypes' /\ Returned'
    BY <1>1, <1>2, <1>3, <2>1, <2>2 DEF TestTypes, Returned
  <2>4. SeenLed' /\ Submitted'
    BY <1>1, <1>2, <2>1, <2>2 DEF SeenLed, Submitted, Inv
  <2>5. 0 <= Cardinality(Have(Servers, logs', test'.i, test'.index, test'.cmd1))
    BY <1>2, HaveFinite, SMTT(30)
  <2>6. Counted'
    BY <2>1, <2>2, <2>5 DEF Counted
  <2> QED
    BY <1>1, <1>5, <2>1, <2>3, <2>4, <2>6, TestStep DEF Verdicts, Goes
<1> QED
  BY <1>4, <1>5 DEF one

LEMMA NobodyStep ==
  ASSUME Inv, size' = size, fatal = None, oneNobody
  PROVE  Inv'
<1> USE SizeStays
<1>1. TestOnly /\ test.at = "start" /\ TestFields /\ TestTypes /\ size \in Sizes /\ led' = led
  BY DEF oneNobody, Inv, Types, RaftTypes, TestOnly, raft
<1>2. CASE Goes([test EXCEPT !.si = 0])
  <2>1. /\ TestFields' /\ test'.i = test.i /\ test'.count = test.count /\ test'.seen = test.seen
        /\ test'.at = test.at /\ test'.fn = test.fn /\ test'.want = test.want
        /\ test'.si = 0 /\ test'.starts = test.starts /\ test'.retry = test.retry /\ test'.accepted = test.accepted
    BY <1>1, <1>2 DEF TestFields, Goes
  <2>2. 0 \in 0..N
    BY <1>1, Bounds, SMTT(30)
  <2>3. TestTypes' /\ Counted' /\ Returned'
    BY <1>1, <2>1, <2>2 DEF TestTypes, Counted, Returned
  <2>4. SeenLed' /\ Submitted'
    BY <1>1, <2>1 DEF SeenLed, Submitted, Inv
  <2> QED
    BY <1>1, <1>2, <2>1, <2>3, <2>4, TestStep DEF Verdicts, Goes
<1>3. CASE Fatalf("no agreement")
  BY <1>1, <1>3, FatalStep DEF Verdicts
<1> QED
  BY <1>2, <1>3 DEF oneNobody

(* one judges what nCommitted counted. *)
LEMMA OneStep ==
  ASSUME Inv, size' = size, fatal = None, oneCommitted
  PROVE  Inv'
<1> USE SizeStays
<1>1. /\ TestOnly /\ test.fn = "one" /\ test.at = "count" /\ test.i = N
      /\ TestFields /\ TestTypes /\ size \in Sizes /\ led' = led
  BY DEF oneCommitted, Inv, Types, RaftTypes, TestOnly, raft
<1>2. \/ test.count > 0 /\ test.count >= test.want /\ test.cmd1 = test.cmd /\ Return(test.cmd1)
      \/ Goes(Again)
      \/ test.retry /\ Goes([test EXCEPT !.at = "start", !.si = 0])
      \/ Fatalf("no agreement")
  BY DEF oneCommitted
<1>3. CASE test.count > 0 /\ test.count >= test.want /\ test.cmd1 = test.cmd /\ Return(test.cmd1)
  <2>1. test.want <= test.count
    BY <1>1, <1>3, Bounds, SMTT(30) DEF TestTypes
  <2> QED
    BY <1>1, <1>3, <2>1, ReturnStep
<1>4. CASE Goes(Again)
  <2>1. test' = [Again EXCEPT !.last = test.last] /\ fatal' = fatal
    BY <1>1, <1>4 DEF Goes, Again, TestFields
  <2> QED
    BY <1>1, <2>1, AgainStep
<1>5. CASE test.retry /\ Goes([test EXCEPT !.at = "start", !.si = 0])
  <2>1. /\ TestFields' /\ test'.i = test.i /\ test'.count = test.count /\ test'.seen = test.seen
        /\ test'.at = "start" /\ test'.fn = test.fn /\ test'.want = test.want
        /\ test'.si = 0 /\ test'.starts = test.starts /\ test'.retry = test.retry
    BY <1>1, <1>5 DEF TestFields, Goes
  <2>2. 0 \in 0..N
    BY <1>1, Bounds, SMTT(30)
  <2>3. TestTypes' /\ Counted' /\ Returned'
    BY <1>1, <2>1, <2>2 DEF TestTypes, Counted, Returned
  <2>4. SeenLed' /\ Submitted'
    BY <1>1, <1>5, <2>1 DEF SeenLed, Submitted, Inv
  <2> QED
    BY <1>1, <1>5, <2>1, <2>3, <2>4, TestStep DEF Verdicts, Goes
<1>6. CASE Fatalf("no agreement")
  BY <1>1, <1>6, FatalStep DEF Verdicts
<1> QED
  BY <1>2, <1>3, <1>4, <1>5, <1>6


-----------------------------------------------------------------------------
(* Raft elects, or a server learns of a term. *)
LEMMA LeaderStep ==
  ASSUME Inv, size' = size, NEW i \in Servers, NEW t \in 1..MaxTerm, Elect(i, t) \/ LearnTerm(i, t),
         UNCHANGED <<applied, instance, connected, logs, reader, test, fatal>>
  PROVE  Inv'
<1> USE SizeStays
<1>1. size \in Sizes /\ DOMAIN role = Servers /\ DOMAIN led = 1..MaxTerm /\ committed' = committed
  BY DEF Inv, Types, RaftTypes, Elect, LearnTerm
<1>2. PICK b : role' = [role EXCEPT ![i] = [term |-> t, leader |-> b]] /\ (b => led'[t] = i)
  BY <1>1 DEF Elect, LearnTerm
<1>3. /\ DOMAIN role' = Servers /\ role'[i] = [term |-> t, leader |-> b]
      /\ \A j \in Servers \ {i} : role'[j] = role[j]
  BY <1>1, <1>2
<1>4. /\ DOMAIN led' = 1..MaxTerm
      /\ \A u \in 1..MaxTerm : led[u] # nil => led'[u] = led[u]
  BY <1>1 DEF Elect, LearnTerm
<1>5. nil \notin Servers
  BY <1>1, Bounds, SMTT(30) DEF nil, Servers
<1>6. RaftTypes'
  <2>1. \A j \in Servers : role'[j] = [term |-> role'[j].term, leader |-> role'[j].leader]
    BY <1>3 DEF Inv, Types, RaftTypes
  <2> QED
    BY <1>1, <1>3, <1>4, <2>1 DEF Inv, Types, RaftTypes
<1>7. RolesLed'
  <2> SUFFICES ASSUME NEW j \in Servers, role'[j].leader
               PROVE  role'[j].term \in 1..MaxTerm /\ led'[role'[j].term] = j
    BY DEF RolesLed
  <2>1. CASE j = i
    BY <1>2, <1>3, <2>1
  <2>2. CASE j # i
    <3>1. role'[j] = role[j] /\ role[j].term \in 1..MaxTerm /\ led[role[j].term] = j
      BY <1>3, <2>2 DEF Inv, RolesLed
    <3> QED
      BY <1>4, <1>5, <3>1
  <2> QED
    BY <2>1, <2>2
<1>8. SeenLed'
  <2> SUFFICES ASSUME NEW a \in test.seen
               PROVE  a \in (1..MaxTerm) \X Servers /\ led'[a[1]] = a[2]
    BY DEF SeenLed
  <2>1. a \in (1..MaxTerm) \X Servers /\ led[a[1]] = a[2]
    BY DEF Inv, SeenLed
  <2>2. a[1] \in 1..MaxTerm /\ a[2] \in Servers
    BY <2>1
  <2> QED
    BY <1>4, <1>5, <2>1, <2>2
<1>9. LogTypes' /\ TestFields' /\ TestTypes' /\ Submitted' /\ MismatchCaught'
  <2>1. LogTypes' /\ TestFields' /\ TestTypes'
    BY DEF Inv, Types, LogTypes, TestFields, TestTypes
  <2>2. Submitted' /\ MismatchCaught'
    BY DEF Inv, Submitted, MismatchCaught
  <2> QED
    BY <2>1, <2>2
<1>10. ~ Faulty => Quiet' /\ LogsTrue' /\ Counted' /\ Returned'
  BY <1>1 DEF Inv, Correct, Quiet, LogsTrue, Counted, Returned, Committed
<1>11. Correct'
  <2>1. Faulty' = Faulty
    OBVIOUS
  <2> QED
    BY ONLY <2>1, <1>10, ZenonT(30) DEF Correct
<1> QED
  BY <1>6, <1>7, <1>8, <1>9, <1>11 DEF Inv, Types

(* Raft commits one more. *)
LEMMA CommitStep ==
  ASSUME Inv, size' = size, NEW v \in Cmds, Commit(v),
         UNCHANGED <<applied, instance, connected, logs, reader, test, fatal>>
  PROVE  Inv'
<1> USE SizeStays
<1>1. /\ size \in Sizes /\ committed \in Seq(Cmds) /\ Len(committed) < MaxIndex /\ committed' = Append(committed, v)
      /\ led' = led /\ role' = role
  BY DEF Inv, Types, RaftTypes, Commit
<1>2. /\ committed' \in Seq(Cmds) /\ Len(committed') = Len(committed) + 1 /\ Len(committed) \in Nat
      /\ \A x \in 1..Len(committed) : committed'[x] = committed[x]
  BY <1>1, SMTT(30)
<1>3. /\ Len(committed') <= MaxIndex /\ \A x \in 1..Len(committed) : x \in 1..Len(committed')
      /\ \A k \in Nat : k <= Len(committed) => k <= Len(committed')
  BY <1>1, <1>2, Bounds, SMTT(30)
<1>4. RaftTypes'
  BY <1>1, <1>2, <1>3 DEF Inv, Types, RaftTypes
<1>5. LogTypes' /\ TestFields' /\ TestTypes' /\ Submitted' /\ MismatchCaught'
  <2>1. LogTypes' /\ TestFields' /\ TestTypes'
    BY DEF Inv, Types, LogTypes, TestFields, TestTypes
  <2>2. Submitted' /\ MismatchCaught'
    BY DEF Inv, Submitted, MismatchCaught
  <2> QED
    BY <2>1, <2>2
<1>6. RolesLed' /\ SeenLed'
  BY <1>1 DEF Inv, RolesLed, SeenLed
<1>7. ASSUME ~ Faulty PROVE Quiet' /\ LogsTrue' /\ Counted' /\ Returned'
  <2>1. Quiet'
    BY <1>7 DEF Inv, Correct, Quiet
  <2>2. \A k \in Instances : applied[k] \in Nat
    BY DEF Inv, Types, LogTypes
  <2>3. LogsTrue'
    BY <1>2, <1>3, <1>7, <2>2 DEF Inv, Correct, LogsTrue
  <2>4. Counted' /\ Returned'
    BY <1>2, <1>3, <1>7 DEF Inv, Correct, Counted, Returned, Committed
  <2> QED
    BY <2>1, <2>3, <2>4
<1>8. Correct'
  <2>1. Faulty' = Faulty
    OBVIOUS
  <2> QED
    BY ONLY <2>1, <1>7, ZenonT(30) DEF Correct
<1> QED
  BY <1>4, <1>5, <1>6, <1>8 DEF Inv, Types

-----------------------------------------------------------------------------
(* The reader of instance k stores what it was sent. *)
LEMMA ReadStep ==
  ASSUME Inv, size' = size, fatal = None, NEW k \in Instances, NEW m \in ApplyMsgs(k), ReadApply(k, m)
  PROVE  Inv'
<1> USE SizeStays
<1> DEFINE i == k[1]
           x == m.CommandIndex
           v == m.Command
<1>1. /\ size \in Sizes /\ committed' = committed /\ led' = led /\ role' = role /\ test' = test /\ fatal' = fatal
      /\ reader[k] = "ok"
      /\ applied' = [applied EXCEPT ![k] = x]
      /\ logs' = [logs EXCEPT ![i][x] = v]
  BY DEF Inv, Types, RaftTypes, ReadApply, raft
<1>2. i \in Servers /\ LogTypes /\ committed \in Seq(Cmds) /\ Len(committed) \in Nat /\ Len(committed) <= MaxIndex
  BY SMTT(30) DEF Inv, Types, RaftTypes, Instances
<1>3. ASSUME ~ Faulty
      PROVE  x = applied[k] + 1 /\ x \in 1..Len(committed) /\ v = committed[x]
  <2>1. PICK y \in {applied[k] + 1} \cap DOMAIN committed : m = [CommandIndex |-> y, Command |-> committed[y]]
    BY <1>3 DEF ApplyMsgs
  <2>2. x = y /\ v = committed[y] /\ y = applied[k] + 1 /\ y \in DOMAIN committed
    BY <2>1
  <2>3. DOMAIN committed = 1..Len(committed)
    BY <1>2, SMTT(30)
  <2> QED
    BY <2>2, <2>3
<1>4. x \in Indexes /\ v \in Cmds
  <2>1. CASE Faulty
    <3>1. m \in [CommandIndex : Indexes, Command : Cmds]
      BY <2>1 DEF ApplyMsgs
    <3> QED
      BY <3>1
  <2>2. CASE ~ Faulty
    <3>1. x \in 1..Len(committed) /\ v = committed[x]
      BY <1>3, <2>2
    <3> HIDE DEF x, v
    <3> QED
      BY <1>1, <1>2, <3>1, Bounds, SMTT(30) DEF Indexes
  <2> QED
    BY <2>1, <2>2
<1> HIDE DEF x, v, i
<1>5. /\ logs'[i][x] = v
      /\ \A j \in Servers, y \in Indexes : ~ (j = i /\ y = x) => logs'[j][y] = logs[j][y]
      /\ logs' \in [Servers -> [Indexes -> Cmds \cup {None}]]
  BY <1>1, <1>2, <1>4, SMTT(30) DEF LogTypes
<1>6. DOMAIN reader' = Instances /\ \A q \in Instances \ {k} : reader'[q] = reader[q]
  BY <1>2 DEF LogTypes, ReadApply
<1>7. /\ applied'[k] = x /\ \A q \in Instances \ {k} : applied'[q] = applied[q]
      /\ applied' \in [Instances -> Nat]
  BY <1>1, <1>2, <1>4, Bounds, SMTT(30) DEF LogTypes, Indexes
<1>8. Types'
  BY <1>1, <1>5, <1>6, <1>7 DEF Inv, Types, RaftTypes, LogTypes, TestFields, TestTypes
<1>9. RolesLed' /\ SeenLed' /\ Submitted'
  BY <1>1 DEF Inv, RolesLed, SeenLed, Submitted
<1>10. MismatchCaught'
  <2> SUFFICES ASSUME NEW p \in Servers, NEW q \in Servers, NEW y \in Indexes,
                      logs'[p][y] # None, logs'[q][y] # None, logs'[p][y] # logs'[q][y]
               PROVE  \E r \in Instances : reader'[r] # "ok"
    BY DEF MismatchCaught
  <2>1. ASSUME NEW j \in Servers, logs[j][x] # None, logs[j][x] # v
        PROVE  reader'[k] # "ok"
    BY <1>2, <2>1 DEF ReadApply, LogTypes, x, v
  <2>2. CASE \E r \in Instances : reader[r] # "ok"
    BY <1>1, <1>6, <2>2
  <2>3. CASE ~ \E r \in Instances : reader[r] # "ok"
    <3>1. \A a, b \in Servers, z \in Indexes : logs[a][z] = None \/ logs[b][z] = None \/ logs[a][z] = logs[b][z]
      BY <2>3, SMTT(30) DEF Inv, MismatchCaught
    <3>2. y = x /\ (p = i \/ q = i)
      BY <1>5, <3>1, SMTT(30)
    <3>3. p # i \/ q # i
      OBVIOUS
    <3>4. \E j \in Servers : logs[j][x] # None /\ logs[j][x] # v
      BY <1>4, <1>5, <3>2, <3>3
    <3> QED
      BY <2>1, <3>4
  <2> QED
    BY <2>2, <2>3
<1>11. ASSUME ~ Faulty PROVE Quiet' /\ LogsTrue' /\ Counted' /\ Returned'
  <2>1. LogsTrue /\ Quiet /\ Counted /\ Returned
    BY <1>11 DEF Inv, Correct
  <2>2. x = applied[k] + 1 /\ x \in 1..Len(committed) /\ v = committed[x]
    BY <1>3, <1>11 DEF x, v
  <2>3. x > 1 => logs[i][x - 1] # None
    <3>1. x > 1 => x - 1 \in 1..applied[k]
      BY <1>2, <2>2, SMTT(30) DEF LogTypes
    <3> QED
      BY <2>1, <3>1 DEF LogsTrue, i
  <2>4. \A j \in Servers : logs[j][x] # None => logs[j][x] = v
    BY <1>4, <2>1, <2>2 DEF LogsTrue
  <2>5. reader'[k] = "ok"
    BY <1>2, <2>3, <2>4 DEF ReadApply, LogTypes, x, v, i
  <2>6. Quiet'
    BY <1>1, <1>6, <2>1, <2>5 DEF Quiet
  <2>7. \A j \in Servers, y \in Indexes : logs[j][y] # None => logs'[j][y] = logs[j][y]
    BY <1>5, <2>4
  <2>8. \A j \in Servers, y \in Indexes : logs'[j][y] # None => y \in 1..Len(committed) /\ logs'[j][y] = committed[y]
    BY <1>5, <2>1, <2>2 DEF LogsTrue
  <2>9. ASSUME NEW q \in Instances
        PROVE  applied'[q] <= Len(committed) /\ \A y \in 1..applied'[q] : logs'[q[1]][y] # None
    <3>1. q[1] \in Servers /\ applied[q] \in Nat /\ applied[q] <= Len(committed) /\ \A y \in 1..applied[q] : logs[q[1]][y] # None
      BY <1>2, <2>1 DEF Instances, LogTypes, LogsTrue
    <3>2. \A y \in 1..applied[q] : logs'[q[1]][y] # None
      <4>1. 1..applied[q] \subseteq Indexes
        BY <1>1, <1>2, <3>1, Bounds, SMTT(30) DEF Indexes
      <4> QED
        BY <2>7, <3>1, <4>1
    <3>3. CASE q = k
      <4>1. 1..x = 1..applied[k] \cup {x} /\ x <= Len(committed)
        BY <1>2, <2>2, <3>1, <3>3, SMTT(30)
      <4>2. logs'[i][x] # None
        BY <1>4, <1>5, CmdsAssumption
      <4> QED
        BY <1>7, <3>2, <3>3, <4>1, <4>2 DEF i
    <3>4. CASE q # k
      BY <1>7, <3>1, <3>2, <3>4
    <3> QED
      BY <3>3, <3>4
  <2>10. LogsTrue'
    BY <1>1, <2>8, <2>9 DEF LogsTrue
  <2>11. ASSUME NEW n, NEW y \in Indexes, NEW u, u # None
         PROVE  Cardinality(Have(Servers, logs, n, y, u)) <= Cardinality(Have(Servers, logs', n, y, u))
    <3>1. \A j \in Servers : logs[j][y] = u => logs'[j][y] = u
      BY <2>7, <2>11
    <3> QED
      BY <1>1, <3>1, HaveGrows
  <2>12. Counted'
    <3> SUFFICES ASSUME test.at = "count"
                 PROVE  test.count <= Cardinality(Have(Servers, logs', test.i, test.index, test.cmd1))
      BY <1>1, <2>1 DEF Counted, Committed
    <3>1. test.count \in Nat /\ test.index \in Indexes /\ N \in Nat
      BY <1>1, Bounds, SMTT(30) DEF Inv, Types, TestTypes
    <3> DEFINE c == Cardinality(Have(Servers, logs, test.i, test.index, test.cmd1))
               d == Cardinality(Have(Servers, logs', test.i, test.index, test.cmd1))
    <3>2. c \in Nat /\ d \in Nat /\ test.count <= c
      BY <1>1, <2>1, HaveFinite DEF Counted
    <3>3. test.count > 0 => c <= d
      BY <2>1, <2>11, <3>1 DEF Counted
    <3> HIDE DEF c, d
    <3>4. test.count <= d
      BY <3>1, <3>2, <3>3, SMTT(30)
    <3> QED
      BY <3>4 DEF d
  <2>13. Returned'
    <3> SUFFICES ASSUME test.at = "idle", test.fn \in {"one", "wait"}, test.cmd1 # None
                 PROVE  test.want <= Cardinality(Have(Servers, logs', N, test.index, test.cmd1))
      BY <1>1, <2>1 DEF Returned, Committed
    <3> DEFINE c == Cardinality(Have(Servers, logs, N, test.index, test.cmd1))
               d == Cardinality(Have(Servers, logs', N, test.index, test.cmd1))
    <3>1. c \in Nat /\ d \in Nat /\ test.want \in Nat /\ test.want <= c /\ c <= d
      BY <1>1, <2>1, <2>11, HaveFinite DEF Returned
    <3> HIDE DEF c, d
    <3>2. test.want <= d
      BY <3>1, SMTT(30)
    <3> QED
      BY <3>2 DEF d
  <2> QED
    BY <2>6, <2>10, <2>12, <2>13
<1>12. Correct'
  <2>1. Faulty' = Faulty
    OBVIOUS
  <2> QED
    BY ONLY <2>1, <1>11, ZenonT(30) DEF Correct
<1> QED
  BY <1>8, <1>9, <1>10, <1>12 DEF Inv

(* The Fatalf of a reader: there is none under a correct Raft. *)
LEMMA ReaderFatalStep ==
  ASSUME Inv, size' = size, NEW k \in Instances, ReaderFatal(k)
  PROVE  Inv'
<1>1. TestOnly /\ Fatalf(reader[k]) /\ reader[k] # "ok"
  BY DEF ReaderFatal, TestOnly, Fatalf, raft
<1>2. Faulty
  BY <1>1 DEF Inv, Correct, Quiet
<1> QED
  BY <1>1, <1>2, FatalStep

(* A server crashes, starts with its old log in cfg.logs, or is connected. *)
LEMMA RestartStep ==
  ASSUME Inv, size' = size, NEW i \in Servers, crash1(i) \/ start1(i) \/ connect(i)
  PROVE  Inv'
<1> USE SizeStays
<1>1. UNCHANGED <<committed, led, applied, logs, reader, test, fatal>>
  BY DEF crash1, start1, connect, raft
<1>2. /\ DOMAIN role' = Servers
      /\ \A j \in Servers : /\ role'[j] = [term |-> role'[j].term, leader |-> role'[j].leader]
                             /\ role'[j].term = role[j].term /\ (role'[j].leader => role[j].leader)
  <2>1. DOMAIN role = Servers /\ \A j \in Servers : role[j] = [term |-> role[j].term, leader |-> role[j].leader]
    BY DEF Inv, Types, RaftTypes
  <2>2. CASE crash1(i) \/ connect(i)
    BY <2>1, <2>2 DEF crash1, connect, raft
  <2>3. CASE start1(i)
    <3>1. role' = [role EXCEPT ![i] = [role[i] EXCEPT !.leader = FALSE]]
      BY <2>3 DEF start1
    <3>2. DOMAIN role' = Servers /\ role'[i] = [role[i] EXCEPT !.leader = FALSE] /\ \A j \in Servers \ {i} : role'[j] = role[j]
      BY <2>1, <3>1
    <3>3. /\ role'[i] = [term |-> role'[i].term, leader |-> role'[i].leader]
          /\ role'[i].term = role[i].term /\ role'[i].leader = FALSE
      BY <2>1, <3>2, Resigns
    <3> QED
      BY <2>1, <3>2, <3>3
  <2> QED
    BY <2>2, <2>3
<1>3. RaftTypes'
  BY <1>1, <1>2 DEF Inv, Types, RaftTypes
<1>4. RolesLed'
  BY <1>1, <1>2 DEF Inv, RolesLed
<1>5. LogTypes' /\ TestFields' /\ TestTypes' /\ Submitted' /\ MismatchCaught' /\ SeenLed'
  <2>1. LogTypes' /\ TestFields' /\ TestTypes'
    BY <1>1 DEF Inv, Types, LogTypes, TestFields, TestTypes
  <2>2. Submitted' /\ MismatchCaught' /\ SeenLed'
    BY <1>1 DEF Inv, Submitted, MismatchCaught, SeenLed
  <2> QED
    BY <2>1, <2>2
<1>6. ~ Faulty => Quiet' /\ LogsTrue' /\ Counted' /\ Returned'
  BY <1>1 DEF Inv, Correct, Quiet, LogsTrue, Counted, Returned, Committed
<1>7. Correct'
  <2>1. Faulty' = Faulty
    OBVIOUS
  <2> QED
    BY ONLY <2>1, <1>6, ZenonT(30) DEF Correct
<1> QED
  BY <1>3, <1>4, <1>5, <1>7 DEF Inv, Types


-----------------------------------------------------------------------------
LEMMA InitInv == Init => Inv
<1> SUFFICES ASSUME Init PROVE Inv
  OBVIOUS
<1>1. size \in Sizes
  BY DEF Init
<1>2. 0 \in 0..N /\ 0 \in 0..0 /\ 0 \in 0..1 /\ 0 \in Servers /\ 0 \in Nat /\ <<>> \in Seq(Cmds) /\ Len(<<>>) = 0 /\ 0 <= MaxIndex
  BY <1>1, Bounds, SMTT(30) DEF Servers
<1>3. RaftTypes
  <2>1. DOMAIN role = Servers /\ \A j \in Servers : role[j] = [term |-> 0, leader |-> FALSE]
    BY DEF Init
  <2>2. \A j \in Servers : role[j] = [term |-> role[j].term, leader |-> role[j].leader]
    BY <2>1, SMTT(30)
  <2> QED
    BY <1>1, <1>2, <2>1, <2>2 DEF Init, RaftTypes
<1>4. LogTypes
  BY <1>2 DEF Init, LogTypes
<1>5. /\ TestFields /\ test.i = 0 /\ test.si = 0 /\ test.count = 0 /\ test.starts = 0 /\ test.at = "idle" /\ test.fn = "none"
      /\ test.seen = {} /\ test.accepted = 0
  BY DEF Init, Idle, TestFields
<1>6. TestTypes /\ SeenLed /\ Submitted /\ Counted /\ Returned
  BY <1>2, <1>5 DEF TestTypes, SeenLed, Submitted, Counted, Returned
<1>7. \A j \in Servers, x \in Indexes : logs[j][x] = None
  BY DEF Init
<1>8. RolesLed
  BY DEF Init, RolesLed
<1>9. MismatchCaught
  BY <1>7 DEF MismatchCaught
<1>10. Quiet
  BY DEF Init, Quiet, Verdicts
<1>11. LogsTrue
  <2>1. \A k \in Instances : applied[k] <= Len(committed) /\ 1..applied[k] = {}
    <3>1. 0 <= 0 /\ 1..0 = {}
      BY SMTT(30)
    <3> QED
      BY <1>2, <3>1 DEF Init
  <2> QED
    BY <1>7, <2>1 DEF LogsTrue
<1> QED
  BY <1>3, <1>4, <1>5, <1>6, <1>8, <1>9, <1>10, <1>11 DEF Inv, Types, Correct

LEMMA NextInv == Inv /\ [Next]_vars => Inv'
<1> SUFFICES ASSUME Inv, [Next]_vars PROVE Inv'
  OBVIOUS
<1>1. CASE UNCHANGED vars
  <2>1. size' = size /\ TestOnly /\ Fatalf(fatal)
    BY <1>1 DEF vars, TestOnly, Fatalf, raft
  <2>2. ~ Faulty => fatal \in Verdicts
    BY DEF Inv, Correct, Quiet
  <2> QED
    BY <2>1, <2>2, FatalStep
<1>2. CASE Next
  <2>1. fatal = None /\ size' = size
    BY <1>2 DEF Next
  <2>2. CASE RaftStep
    BY <2>1, <2>2, LeaderStep, CommitStep DEF RaftStep
  <2>3. CASE \E k \in Instances : ReaderFatal(k) \/ \E m \in ApplyMsgs(k) : ReadApply(k, m)
    BY <2>1, <2>3, ReaderFatalStep, ReadStep
  <2>4. CASE \E i \in Servers : crash1(i) \/ start1(i) \/ connect(i)
    BY <2>1, <2>4, RestartStep
  <2>5. CASE \E fn \in {"one", "wait", "checkOneLeader"} : Calls(fn)
    BY <2>1, <2>5, CallsStep
  <2>6. CASE checkOneLeader \/ nCommitted \/ wait \/ one \/ oneNobody \/ oneCommitted
    BY <2>1, <2>6, AsksStep, CountsStep, WaitStep, TriesStep, NobodyStep, OneStep
  <2> QED
    BY <1>2, <2>2, <2>3, <2>4, <2>5, <2>6 DEF Next
<1> QED
  BY <1>1, <1>2

LEMMA Invariance == Spec => []Inv
  BY InitInv, NextInv, PTL DEF Spec

(* What the invariant says of one's and wait's results. *)
LEMMA ReturnedReal == Inv => (~ Faulty => AgreementReal)
<1> SUFFICES ASSUME Inv, ~ Faulty, test.at = "idle", test.fn \in {"one", "wait"}, test.cmd1 # None
             PROVE  /\ test.index \in DOMAIN committed
                    /\ committed[test.index] = (IF test.fn = "one" THEN test.cmd ELSE test.cmd1)
                    /\ Cardinality({i \in Servers : logs[i][test.index] = test.cmd1}) >= test.want
  BY DEF AgreementReal
<1>1. Returned /\ size \in Sizes /\ committed \in Seq(Cmds)
  BY DEF Inv, Correct, Types, RaftTypes
<1>2. /\ Committed /\ (test.fn = "one" => test.cmd1 = test.cmd)
      /\ test.want \in Nat /\ test.want <= Cardinality(Have(Servers, logs, N, test.index, test.cmd1))
  BY <1>1 DEF Returned
<1>3. DOMAIN committed = 1..Len(committed)
  BY <1>1, SMTT(30)
<1>4. test.index \in DOMAIN committed /\ committed[test.index] = (IF test.fn = "one" THEN test.cmd ELSE test.cmd1)
  BY <1>2, <1>3 DEF Committed
<1> DEFINE D == {i \in Servers : logs[i][test.index] = test.cmd1}
           c == Cardinality(D)
<1>5. c \in Nat /\ test.want <= c
  <2>1. \A i \in Servers : i < N
    BY <1>1, Bounds, SMTT(30) DEF Servers
  <2>2. Have(Servers, logs, N, test.index, test.cmd1) = D
    BY <2>1 DEF Have
  <2> HIDE DEF D
  <2> QED
    BY <1>1, <1>2, <2>2, HaveFinite
<1> HIDE DEF c
<1>6. c >= test.want
  BY <1>2, <1>5, SMTT(30)
<1> QED
  BY <1>4, <1>6 DEF c

-----------------------------------------------------------------------------
(* cfg.logs and the variables of one, wait and checkOneLeader always have  *)
(* their types.                                                            *)
THEOREM TypeCorrect == Spec => []TypeOK
<1>1. Inv => TypeOK
  BY DEF Inv, Types, RaftTypes, LogTypes, TestTypes, TypeOK
<1> QED
  BY Invariance, <1>1, PTL

(* Under a correct Raft no reader of applyCh ever reports a mismatch or a  *)
(* gap, nCommitted no two values at an index and checkOneLeader no two     *)
(* leaders of a term, whatever crashes and restarts between their reads.   *)
THEOREM NeverFalseAlarm == Spec => []NoFalseAlarm
<1>1. Inv => NoFalseAlarm
  BY DEF Inv, Correct, Quiet, Verdicts, NoFalseAlarm
<1> QED
  BY Invariance, <1>1, PTL

(* Under a correct Raft the index one returns holds its command and the    *)
(* command wait returns is committed at its index, and as many servers as  *)
(* asked for have it, though nCommitted read them at different times.      *)
THEOREM AgreementAlwaysReal == Spec => [](~ Faulty => AgreementReal)
  BY Invariance, ReturnedReal, PTL

(* Whatever Raft applies: when cfg.logs of two servers differ at an index, *)
(* a reader of applyCh has found it and is on its way to Fatalf.           *)
THEOREM MismatchAlwaysCaught == Spec => []MismatchCaught
<1>1. Inv => MismatchCaught
  BY DEF Inv
<1> QED
  BY Invariance, <1>1, PTL

(* one calls Start() successfully at most once when retry is false. *)
THEOREM AlwaysSubmitsOnce == Spec => []SubmitsOnce
<1>1. Inv => SubmitsOnce
  <2>1. \A n \in 0..1 : n <= 1
    BY SMTT(30)
  <2> QED
    BY <2>1 DEF Inv, Submitted, SubmitsOnce
<1> QED
  BY Invariance, <1>1, PTL

=============================================================================
