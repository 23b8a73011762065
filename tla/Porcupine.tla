------------------------------ MODULE Porcupine ------------------------------
(***************************************************************************)
(* The linearizability checker of porcupine (checker.go) with the model of *)
(* a key-value store (models/kv.go): checkSingle on each partition, one    *)
(* turn of its loop a step, and checkParallel, which collects the results. *)
(* Times are distinct, ids count from 1.  A string is the sequence of the  *)
(* values it was made from.                                                *)
(***************************************************************************)
EXTENDS Integers, Sequences, FiniteSets, SequencesExt

CONSTANTS WordBits,    \* 64 in the code
          Cases        \* what to check: sets keys (naturals, so that they can be sorted),
                       \* ops ([op, value, out]), sizes, verbose, timers, apis

VARIABLES
  history,     \* the operations given to the checker
  verbose, timer,
  search,      \* per partition: the goroutine that runs checkSingle
  results,     \* the channel
  count, ok, timedOut, kill,
  main,        \* where checkParallel is
  result, info

inputs == <<history, verbose, timer>>
vars == <<inputs, search, results, count, ok, timedOut, kill, main, result, info>>

Nil == -1

(* KvModel *)
Partition(h) ==
  LET keys == SetToSortSeq({h[i].key : i \in DOMAIN h}, <)
  IN  [k \in DOMAIN keys |-> SelectSeq(h, LAMBDA v : v.key = keys[k])]

Step(state, v) ==
  CASE v.op = "get" -> [ok |-> v.out = state, state |-> state]
    [] v.op = "put" -> [ok |-> TRUE, state |-> <<v.value>>]
    [] v.op = "append" -> [ok |-> TRUE, state |-> Append(state, v.value)]

(* bitset: words of WordBits bits, a word is the set of its bits. *)
newBitset(bits) == [w \in 0..(bits \div WordBits + (IF bits % WordBits # 0 THEN 1 ELSE 0) - 1) |-> {}]
bitsetIndex(pos) == [major |-> pos \div WordBits, minor |-> pos % WordBits]
set(b, pos) == [b EXCEPT ![bitsetIndex(pos).major] = @ \cup {bitsetIndex(pos).minor}]
clear(b, pos) == [b EXCEPT ![bitsetIndex(pos).major] = @ \ {bitsetIndex(pos).minor}]

-----------------------------------------------------------------------------
(* Entries and the doubly linked list made of them. *)

makeEntries(h) ==
  SortSeq([i \in DOMAIN h |-> [call |-> TRUE, id |-> i, value |-> h[i], time |-> h[i].call]] \o
          [i \in DOMAIN h |-> [call |-> FALSE, id |-> i, value |-> h[i], time |-> h[i].return]],
          LAMBDA a, b : a.time < b.time)

(* The events of a history: the same, with ids the caller chose. *)
EventsOf(h) == LET entries == makeEntries(h) IN [i \in DOMAIN entries |-> [entries[i] EXCEPT !.id = 10 - @]]

renumber(events) ==
  LET first(i) == CHOOSE j \in 1..i : events[j].id = events[i].id /\ \A k \in 1..(j - 1) : events[k].id # events[i].id
      new(i) == Cardinality({events[j].id : j \in 1..first(i)})
  IN  [i \in DOMAIN events |-> [events[i] EXCEPT !.id = new(i)]]

convertEntries(events) == [i \in DOMAIN events |-> [events[i] EXCEPT !.time = i]]

(* Node 0 is headEntry; a call is matched with its return. *)
makeLinkedEntries(entries) ==
  [k \in DOMAIN entries |->
     [id |-> entries[k].id, value |-> entries[k].value,
      match |-> IF entries[k].call
                THEN CHOOSE m \in DOMAIN entries : m > k /\ entries[m].id = entries[k].id ELSE Nil]]

Begin(entries) ==
  LET n == Len(entries)
  IN  [at |-> "search", node |-> makeLinkedEntries(entries),
       next |-> [k \in 0..n |-> IF k = n THEN Nil ELSE k + 1],
       prev |-> [k \in 1..n |-> k - 1],
       entry |-> IF n = 0 THEN Nil ELSE 1,
       linearized |-> newBitset(n \div 2), cache |-> {}, calls |-> <<>>, state |-> <<>>,
       longest |-> [i \in 1..(n \div 2) |-> <<>>]]

lift(s, e) ==
  LET m == s.node[e].match
      next1 == [s.next EXCEPT ![s.prev[e]] = s.next[e]]
      prev1 == [s.prev EXCEPT ![s.next[e]] = s.prev[e]]
      next2 == [next1 EXCEPT ![prev1[m]] = next1[m]]
  IN  [s EXCEPT !.next = next2,
                !.prev = IF next2[m] # Nil THEN [prev1 EXCEPT ![next2[m]] = prev1[m]] ELSE prev1]

unlift(s, e) ==
  LET m == s.node[e].match
      next1 == [s.next EXCEPT ![s.prev[m]] = m]
      prev1 == IF s.next[m] # Nil THEN [s.prev EXCEPT ![s.next[m]] = m] ELSE s.prev
      next2 == [next1 EXCEPT ![prev1[e]] = e]
  IN  [s EXCEPT !.next = next2, !.prev = [prev1 EXCEPT ![next2[e]] = e]]

-----------------------------------------------------------------------------
(* checkSingle *)

Ids(calls, s) == [i \in DOMAIN calls |-> s.node[calls[i].entry].id]

(* The cache is a map from hash to entries: hash and equals find equal ones. *)
cacheContainsSet(s, linearized, state) == \E c \in s.cache : c.linearized = linearized

cacheContains(s, linearized, state) == [linearized |-> linearized, state |-> state] \in s.cache

(* entry.match # nil: try to linearize the call. *)
Linearize(s) ==
  LET node == s.node[s.entry]
      step == Step(s.state, node.value)
      new == set(s.linearized, node.id - 1)
      lifted == lift(s, s.entry)
  IN  IF step.ok /\ ~ cacheContains(s, new, step.state)
      THEN [lifted EXCEPT !.cache = @ \cup {[linearized |-> new, state |-> step.state]},
                          !.calls = Append(@, [entry |-> s.entry, state |-> s.state]),
                          !.state = step.state, !.linearized = new, !.entry = lifted.next[0]]
      ELSE [s EXCEPT !.entry = s.next[@]]

KeepLongestFirst(s) ==
  LET seq == Ids(s.calls, s)
  IN  [i \in DOMAIN s.longest |->
         IF i \in ToSet(seq) /\ s.longest[i] = <<>> THEN seq ELSE s.longest[i]]

KeepLongest(s) ==
  LET seq == Ids(s.calls, s)
  IN  [i \in DOMAIN s.longest |->
         IF i \in ToSet(seq) /\ Len(seq) > Len(s.longest[i]) THEN seq ELSE s.longest[i]]

(* A return that was not linearized: undo the last call. *)
Backtrack(s) ==
  IF s.calls = <<>> THEN [s EXCEPT !.at = "false"]
  ELSE LET top == Last(s.calls)
           back == unlift(s, top.entry)
       IN  [back EXCEPT !.longest = IF verbose THEN KeepLongest(s) ELSE @,
                        !.state = top.state, !.calls = Front(@),
                        !.linearized = clear(@, s.node[top.entry].id - 1),
                        !.entry = back.next[top.entry]]

checkSingle(s) ==
  CASE s.next[0] = Nil -> [s EXCEPT !.at = "true", !.longest = [i \in DOMAIN @ |-> Ids(s.calls, s)]]
    [] s.next[0] # Nil /\ kill -> [s EXCEPT !.at = "false"]
    [] s.next[0] # Nil /\ ~ kill /\ s.node[s.entry].match # Nil -> Linearize(s)
    [] OTHER -> Backtrack(s)

-----------------------------------------------------------------------------
(* checkParallel *)

(* The intervals of operations, in the order of their calls. *)
RECURSIVE Intervals(_)
Intervals(times) ==
  IF times = {} THEN {<<>>}
  ELSE LET c == Min(times)
       IN  UNION {{<<[call |-> c, return |-> r]>> \o rest : rest \in Intervals(times \ {c, r})} : r \in times \ {c}}

Operation(v, key, t) ==
  [key |-> key, op |-> v.op, value |-> v.value, out |-> v.out, call |-> t.call, return |-> t.return]

checkOperations(h) == [p \in DOMAIN Partition(h) |-> Begin(makeEntries(Partition(h)[p]))]
checkEvents(h) == <<Begin(convertEntries(renumber(EventsOf(h))))>>

Init ==
  /\ \E case \in Cases :
       /\ \E n \in case.sizes :
            \E t \in Intervals(1..(2 * n)), v \in [1..n -> case.ops], key \in [1..n -> case.keys] :
              LET h == [i \in 1..n |-> Operation(v[i], key[i], t[i])] IN history \in {h, Reverse(h)}
       /\ verbose \in case.verbose /\ timer \in case.timers
       /\ \E api \in case.apis : search = IF api = "events" THEN checkEvents(history) ELSE checkOperations(history)
  /\ results = <<>>
  /\ count = 0 /\ ok = TRUE /\ timedOut = FALSE /\ kill = FALSE
  /\ main = "loop" /\ result = "none" /\ info = <<>>

Search(p) ==
  /\ search[p].at = "search"
  /\ search' = [search EXCEPT ![p] = checkSingle(@)]
  /\ UNCHANGED <<inputs, results, count, ok, timedOut, kill, main, result, info>>

(* results := make(chan bool, len(history)) *)
CapOne == 1
Cap == Len(search)

SendResult(p) ==
  /\ search[p].at \in {"true", "false"}
  /\ Len(results) < Cap
  /\ results' = Append(results, search[p].at = "true")
  /\ search' = [search EXCEPT ![p].at = "ended"]
  /\ UNCHANGED <<inputs, count, ok, timedOut, kill, main, result, info>>

AfterLoop == IF verbose THEN "drain" ELSE "return"

Collect ==
  /\ main = "loop" /\ results # <<>>
  /\ results' = Tail(results)
  /\ count' = count + 1
  /\ ok' = (ok /\ Head(results))
  /\ LET stop == ~ ok' /\ ~ verbose
     IN  /\ kill' = (kill \/ stop)
         /\ main' = IF stop \/ count' >= Len(search) THEN AfterLoop ELSE "loop"
  /\ UNCHANGED <<inputs, search, timedOut, result, info>>

TimeOut ==
  /\ main = "loop" /\ timer
  /\ timedOut' = TRUE /\ kill' = TRUE
  /\ main' = AfterLoop
  /\ UNCHANGED <<inputs, search, results, count, ok, result, info>>

DrainCounting ==
  /\ main = "drain" /\ count < Len(search) /\ results # <<>>
  /\ results' = Tail(results)
  /\ count' = count + 1
  /\ ok' = (ok /\ Head(results))
  /\ UNCHANGED <<inputs, search, timedOut, kill, main, result, info>>

Drain ==
  /\ main = "drain" /\ count < Len(search) /\ results # <<>>
  /\ results' = Tail(results)
  /\ count' = count + 1
  /\ UNCHANGED <<inputs, search, ok, timedOut, kill, main, result, info>>

PartialsAtOnce ==
  /\ main = "drain"
  /\ info' = [p \in DOMAIN search |-> ToSet(search[p].longest) \ {<<>>}]
  /\ main' = "return"
  /\ UNCHANGED <<inputs, search, results, count, ok, timedOut, kill, result>>

Partials ==
  /\ main = "drain" /\ count >= Len(search)
  /\ info' = [p \in DOMAIN search |-> ToSet(search[p].longest) \ {<<>>}]
  /\ main' = "return"
  /\ UNCHANGED <<inputs, search, results, count, ok, timedOut, kill, result>>

Returns ==
  /\ main = "return"
  /\ result' = IF ~ ok THEN "Illegal" ELSE IF timedOut THEN "Unknown" ELSE "Ok"
  /\ main' = "returned"
  /\ UNCHANGED <<inputs, search, results, count, ok, timedOut, kill, info>>

Worker(p) == Search(p) \/ SendResult(p)
Main == Collect \/ Drain \/ Partials \/ Returns
Next == (\E p \in DOMAIN search : Worker(p)) \/ Main \/ TimeOut

Keys == UNION {case.keys : case \in Cases}

Spec == Init /\ [][Next]_vars /\ WF_vars(Main) /\ \A p \in 1..Cardinality(Keys) : WF_vars(p \in DOMAIN search /\ Worker(p))

-----------------------------------------------------------------------------
(* What linearizable means: the operations can be put in an order that is  *)
(* legal and keeps the order of those that do not overlap.                 *)

CallOf(s, i) == CHOOSE k \in DOMAIN s.node : s.node[k].id = i /\ s.node[k].match # Nil
Distinct(n, k) == {q \in [1..k -> 1..n] : \A i, j \in 1..k : i # j => q[i] # q[j]}

Legal(s, q) ==
  LET value(i) == s.node[CallOf(s, i)].value
      run == FoldLeft(LAMBDA r, i : [ok |-> r.ok /\ Step(r.state, value(i)).ok, state |-> Step(r.state, value(i)).state],
                      [ok |-> TRUE, state |-> <<>>], q)
  IN  /\ run.ok
      /\ \A k \in DOMAIN q, i \in DOMAIN s.longest :
           s.node[CallOf(s, i)].match < CallOf(s, q[k]) => \E j \in 1..(k - 1) : q[j] = i

Prefixed(s) == {q \in UNION {Distinct(Len(s.longest), k) : k \in 0..Len(s.longest)} : Legal(s, q)}

(* The whole history, with a store of all keys. *)
Linearizable ==
  \E q \in Distinct(Len(history), Len(history)) :
    /\ \A i, j \in DOMAIN q : i < j => ~ (history[q[j]].return < history[q[i]].call)
    /\ LET run == FoldLeft(LAMBDA r, i :
                      LET v == history[i] step == Step(r.store[v.key], v)
                      IN  [ok |-> r.ok /\ step.ok, store |-> [r.store EXCEPT ![v.key] = step.state]],
                      [ok |-> TRUE, store |-> [k \in Keys |-> <<>>]], q)
       IN  run.ok

(* count and the channel stay within the number of partitions, and a search
   that goes on has an entry to look at (checkSingle dereferences it). *)
TypeOK ==
  /\ count \in 0..Len(search) /\ Len(results) <= Len(search)
  /\ main \in {"loop", "drain", "return", "returned"}
  /\ \A p \in DOMAIN search :
       /\ search[p].at \in {"search", "true", "false", "ended"}
       /\ search[p].at = "search" /\ search[p].next[0] # Nil => search[p].entry \in DOMAIN search[p].node

(* checkSingle prunes with its cache and backtracks: when it is not killed *)
(* it says true exactly for the partitions that are linearizable.          *)
SearchCorrect ==
  \A p \in DOMAIN search :
    LET s == search[p] n == Len(s.longest)
    IN  /\ s.at = "true" => \E q \in Distinct(n, n) : Legal(s, q)
        /\ s.at = "false" /\ ~ kill => \A q \in Distinct(n, n) : ~ Legal(s, q)

(* "longest linearizable prefix that includes the given entry" (checker.go *)
(* 180): the prefix kept for an operation is legal and includes it, none   *)
(* that includes it is longer, and none is kept only if there is none.     *)
LongestTrue ==
  \A p \in DOMAIN search :
    LET s == search[p]
    IN  s.at = "false" /\ ~ kill /\ verbose =>
          \A i \in DOMAIN s.longest :
            LET with == {q \in Prefixed(s) : i \in ToSet(q)}
            IN  IF with = {} THEN s.longest[i] = <<>>
                ELSE s.longest[i] \in with /\ \A q \in with : Len(q) <= Len(s.longest[i])

(* lift and unlift take a call and its return out of the list and put them *)
(* back by the pointers they still hold: at every turn next and prev link  *)
(* exactly the entries not linearized, in order, and the bits of linearized*)
(* are the calls on the stack.                                             *)
ListIntact ==
  \A p \in DOMAIN search :
    LET s == search[p]
        taken == {s.node[s.calls[i].entry].id : i \in DOMAIN s.calls}
        live == {k \in DOMAIN s.node : s.node[k].id \notin taken}
    IN  s.at = "search" =>
          /\ \A k \in {0} \cup live : LET after == {m \in live : m > k}
                                     IN  s.next[k] = IF after = {} THEN Nil ELSE Min(after)
          /\ \A k \in live : s.prev[k] = Max({m \in {0} \cup live : m < k})
          /\ taken = {i \in DOMAIN s.longest : bitsetIndex(i - 1).minor \in s.linearized[bitsetIndex(i - 1).major]}

(* "a history is linearizable if an only if each partition is" (model.go), *)
(* and a killed search answers false: whatever the timer and the kill do,  *)
(* Ok and Illegal are true of the whole history, and Unknown is only said  *)
(* after a timeout.                                                        *)
VerdictTrue ==
  /\ result = "Ok" => Linearizable
  /\ result = "Illegal" => ~ Linearizable
  /\ result = "Unknown" => timedOut

(* "otherwise we might race on access to longest[]" (checker.go 309): what *)
(* checkParallel has read of longest does not change afterwards.           *)
InfoSettled ==
  main = "returned" /\ verbose =>
    info = [p \in DOMAIN search |-> ToSet(search[p].longest) \ {<<>>}]

(* The searches end, the check returns, and no goroutine is left waiting   *)
(* on the channel, also when the collector has stopped early.  A history   *)
(* without operations is left out, see CheckReturns.                       *)
AllEnd == history # <<>> => <>(main = "returned" /\ \A p \in DOMAIN search : search[p].at = "ended")

(* The check of a history returns.  Not so for one without operations and  *)
(* without a timer: no partition sends the result checkParallel waits for. *)
CheckReturns == <>(main = "returned")
=============================================================================
