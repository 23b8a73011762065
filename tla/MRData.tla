------------------------------- MODULE MRData -------------------------------
(***************************************************************************)
(* What the job computes: mapper and reducer of mr/worker.go on the data,  *)
(* with Map and Reduce of mrapps/wc.go and mrapps/indexer.go, beside       *)
(* main/mrsequential.go.  Map tasks finish in any order and their files    *)
(* are collected in that order; sort.Sort is not stable and a Go map has   *)
(* no order.  MapReduce has the processes; here every task is run once.    *)
(***************************************************************************)
EXTENDS Naturals, Sequences, FiniteSets, TLC, SequencesExt

CONSTANTS Files,      \* input files, as numbers
          Words,      \* words of a file, as numbers
          MaxWords,   \* bound: words in a file
          NReduce,
          Apps        \* "wc", "indexer"

VARIABLES app, content, hash,
          inter,      \* per reduce task: the files collected for it, in order
          mapped,     \* files whose map task is done
          out,        \* mr-out-r: lines, one key and output each; or nothing yet
          correct     \* mr-out-0 of mrsequential

vars == <<app, content, hash, inter, mapped, out, correct>>

Slots == 0 .. NReduce - 1
Nothing == <<"nothing">>

(* What the files hold and what ihash gives is arbitrary. *)
Init ==
  /\ app \in Apps
  /\ content \in [Files -> UNION {[1 .. k -> Words] : k \in 0 .. MaxWords}]
  /\ hash \in [Words -> 0 .. NReduce]
  /\ inter = [r \in Slots |-> <<>>]
  /\ mapped = {}
  /\ out = [r \in Slots |-> Nothing]
  /\ correct = Nothing

-----------------------------------------------------------------------------
Orders(s) == {[i \in DOMAIN s |-> s[p[i]]] : p \in Permutations(DOMAIN s)}

(* Map: word count gives a pair for each word, in order; the indexer one    *)
(* for each different word, in any order.                                   *)
Map(f) ==
  IF app = "wc" THEN {[i \in DOMAIN content[f] |-> [Key |-> content[f][i], Value |-> 1]]}
  ELSE Orders(SetToSeq({[Key |-> w, Value |-> f] : w \in ToSet(content[f])}))

(* Reduce: how many values; the indexer also sorts and joins them. *)
ReduceUnsorted(values) == <<Len(values), IF app = "wc" THEN <<>> ELSE values>>

Reduce(values) == <<Len(values), IF app = "wc" THEN <<>> ELSE SortSeq(values, <)>>

(* sort.Sort(ByKey(kva)) *)
Sortings(kva) == {s \in Orders(kva) : \A i \in 1 .. Len(s) - 1 : s[i].Key <= s[i + 1].Key}

(* The loop over i, j and k: one line for each run of equal keys. *)
Groups(kva) ==
  LET Step(groups, kv) ==
        IF groups # <<>> /\ Last(groups).key = kv.Key
        THEN [groups EXCEPT ![Len(groups)].values = Append(@, kv.Value)]
        ELSE Append(groups, [key |-> kv.Key, values |-> <<kv.Value>>])
      groups == FoldLeft(Step, <<>>, kva)
  IN  [i \in DOMAIN groups |-> <<groups[i].key, Reduce(groups[i].values)>>]

Slot(key) == hash[key] % NReduce

mapper(f) ==
  /\ f \notin mapped
  /\ mapped' = mapped \cup {f}
  /\ \E kva \in Map(f) : inter' = [r \in Slots |-> inter[r] \o SelectSeq(kva, LAMBDA kv : Slot(kv.Key) = r)]
  /\ UNCHANGED <<app, content, hash, out, correct>>

reducer(r) ==
  /\ mapped = Files /\ out[r] = Nothing
  /\ \E kva \in Sortings(inter[r]) : out' = [out EXCEPT ![r] = Groups(kva)]
  /\ UNCHANGED <<app, content, hash, inter, mapped, correct>>

(* main of mrsequential *)
mrsequential ==
  /\ correct = Nothing
  /\ \E kvas \in {k \in [Files -> UNION {Map(f) : f \in Files}] : \A f \in Files : k[f] \in Map(f)} :
       \E kva \in Sortings(FlattenSeq(kvas)) : correct' = Groups(kva)
  /\ UNCHANGED <<app, content, hash, inter, mapped, out>>

Next == mrsequential \/ (\E f \in Files : mapper(f)) \/ (\E r \in Slots : reducer(r))

Spec == Init /\ [][Next]_vars

-----------------------------------------------------------------------------
Finished == correct # Nothing /\ \A r \in Slots : out[r] # Nothing

(***************************************************************************)
(* test-mr.sh: the sorted lines of all mr-out files are those of the       *)
(* sequential program, with whatever hash, order of map results and order  *)
(* of equal keys: every key is in one file and on one line.                *)
(***************************************************************************)
SameAsSequential ==
  Finished => LET all == FlattenSeq([r \in 1 .. NReduce |-> out[r - 1]])
              IN  Len(all) = Len(correct) /\ ToSet(all) = ToSet(correct)

(***************************************************************************)
(* What the sequential program counts is right: a line for every word that *)
(* occurs, with the occurrences, or with the files it is in.               *)
(***************************************************************************)
CorrectIsCorrect ==
  LET occurs(w) == {<<f, i>> \in Files \X (1 .. MaxWords) : i \in DOMAIN content[f] /\ content[f][i] = w}
      files(w) == {p[1] : p \in occurs(w)}
  IN  correct # Nothing =>
        ToSet(correct) = {<<w, IF app = "wc" THEN <<Cardinality(occurs(w)), <<>>>>
                               ELSE <<Cardinality(files(w)), SetToSortSeq(files(w), <)>>>> :
                            w \in {v \in Words : occurs(v) # {}}}
=============================================================================
