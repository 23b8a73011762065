------------------------------ MODULE MCData ------------------------------
(***************************************************************************)
(* Two parts about data, one of which the initial state chooses: what a    *)
(* MapReduce job computes, and the checks of labgob by two goroutines, on  *)
(* a type that contains itself, through a pointer and as element of a map  *)
(* whose key has a lower-case field, on plain ones, and on values.         *)
(***************************************************************************)
EXTENDS Naturals, Sequences

VARIABLES part,
          app, content, hash, inter, mapped, out, correct,
          checked, errorCount, complaints, warnings, panicked, user

T(kind, elems, lower) == [kind |-> kind, elems |-> elems, lower |-> lower]
MCTypes == [Int  |-> T("basic", <<>>, {}),
            Node |-> T("struct", <<"Ptr", "Map">>, {2}),
            Ptr  |-> T("ptr", <<"Node">>, {}),
            Key  |-> T("struct", <<"Int">>, {1}),
            Map  |-> T("map", <<"Node", "Key">>, {}),
            Good |-> T("struct", <<"Int">>, {}),
            PGood |-> T("ptr", <<"Good">>, {}),
            PPGood |-> T("ptr", <<"PGood">>, {}),
            PKey |-> T("ptr", <<"Key">>, {})]
Leaf(zero) == [kind |-> "basic", zero |-> zero]
Struct(leaf, lower) == [kind |-> "struct", parts |-> <<leaf>>, lower |-> lower]
Ptr(type, value) == [type |-> type, kind |-> "ptr", parts |-> <<value>>, lower |-> {}]
Reply(leaf) == Ptr("PGood", Struct(leaf, {}))
Replies == {Reply(Leaf(TRUE)), Reply(Leaf(FALSE))}
MCValues == Replies \cup {Ptr("PPGood", Reply(Leaf(FALSE))), Ptr("PKey", Struct(Leaf(TRUE), {1}))}

Job == INSTANCE MRData WITH
  Files <- 1..2, Words <- 1..3, MaxWords <- 2, NReduce <- 2, Apps <- {"wc", "indexer"}
Gob == INSTANCE LabGob WITH Users <- {"u", "v"}, Types <- MCTypes, Values <- MCValues, MaxUses <- 2

jobVars == <<app, content, hash, inter, mapped, out, correct>>
gobVars == <<checked, errorCount, complaints, warnings, panicked, user>>
vars == <<part, jobVars, gobVars>>

Init ==
  \/ /\ part = "job" /\ Job!Init
     /\ checked = {} /\ errorCount = 0 /\ complaints = <<>> /\ warnings = 0
     /\ panicked = FALSE /\ user = <<>>
  \/ /\ part = "gob" /\ Gob!Init
     /\ app = "none" /\ content = <<>> /\ hash = <<>> /\ inter = <<>> /\ mapped = {} /\ out = <<>> /\ correct = <<>>

Next ==
  \/ part = "job" /\ Job!Next /\ UNCHANGED <<part, gobVars>>
  \/ part = "gob" /\ Gob!Next /\ UNCHANGED <<part, jobVars>>

Spec == Init /\ [][Next]_vars

-----------------------------------------------------------------------------
(* test-mr.sh: the sorted lines of all mr-out files are those of           *)
(* mrsequential, in whatever order mapper and reducer ran.                 *)
SameAsSequential == part = "job" => Job!SameAsSequential

(* mrsequential has a line for every word, with its count or its files.    *)
CorrectIsCorrect == part = "job" => Job!CorrectIsCorrect

(* checkType "avoid recursion": a goroutine's calls of it are of different *)
(* types but for the innermost, with another goroutine on the same types.  *)
RecursionBounded == part = "gob" => Gob!RecursionBounded

(* checkType "only complain once": each lower-case field below a type that *)
(* was used is reported, and once, though a goroutine stops where another  *)
(* one is.                                                                 *)
ReportedOnce == part = "gob" => Gob!ReportedOnce

(* checkDefault warns once at most, and does if checkType had no complaint.*)
WarnsOnce == part = "gob" => Gob!WarnsOnce
=============================================================================
