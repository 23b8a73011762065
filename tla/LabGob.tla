------------------------------- MODULE LabGob -------------------------------
(***************************************************************************)
(* The checks of labgob.go: goroutines that encode and decode walk over    *)
(* the type of a value by reflection, share the table `checked' and the    *)
(* counter errorCount under mu, and hold mu only for single accesses.      *)
(* A type is known by name; its kind, the types it is made of and which of *)
(* its fields are lower-case are given.  A value has the same shape.       *)
(***************************************************************************)
EXTENDS Naturals, Sequences, FiniteSets, SequencesExt

CONSTANTS Users,       \* goroutines that encode or decode
          Types,       \* name -> [kind, elems (field types, or Elem and Key), lower]
          Values,      \* values that are decoded into
          MaxUses      \* bound: values a goroutine encodes or decodes

VARIABLES
  checked,     \* checked
  errorCount,  \* errorCount
  complaints,  \* per lower-case field: errors printed
  warnings,    \* warnings printed
  panicked,    \* whether value.Interface ended the process
  user         \* per goroutine: the calls of checkType it is in, and the value it decodes

vars == <<checked, errorCount, complaints, warnings, panicked, user>>

Lower == UNION {{<<t, i>> : i \in Types[t].lower} : t \in DOMAIN Types}

Init ==
  /\ checked = {}
  /\ errorCount = 0 /\ warnings = 0 /\ panicked = FALSE
  /\ complaints = [f \in Lower |-> 0]
  /\ user = [u \in Users |-> [stack |-> <<>>, leaves |-> <<>>, used |-> {}, decoded |-> {}, uses |-> 0, now |-> <<>>]]

(* the types below a type, in the order of the calls *)
ElemsNoKey(t) ==
  CASE Types[t].kind \in {"struct", "slice", "ptr"} -> Types[t].elems
    [] Types[t].kind = "map" -> <<Types[t].elems[1]>>
    [] OTHER -> <<>>

Elems(t) == IF Types[t].kind \in {"struct", "slice", "array", "ptr", "map"} THEN Types[t].elems ELSE <<>>

(* What checkDefault1 comes to in a value, in order: leaves that are not   *)
(* at their default, and those that reflection may not read, since the way *)
(* to them goes through a lower-case field.                                *)
RECURSIVE checkDefault1(_, _, _)
checkDefault1(value, depth, hidden) ==
  IF depth > 3 THEN <<>>
  ELSE CASE value.kind \in {"struct", "ptr"} ->
              FlattenSeq([i \in DOMAIN value.parts |->
                            checkDefault1(value.parts[i], depth + 1, hidden \/ i \in value.lower)])
         [] value.kind = "basic" -> IF hidden THEN <<"panic">> ELSE IF value.zero THEN <<>> ELSE <<"warn">>
         [] OTHER -> <<>>

checkDefault(value) == checkDefault1(value, 1, FALSE)

-----------------------------------------------------------------------------
Idle(u) == user[u].stack = <<>> /\ user[u].now = <<>>

Uses(u, t, now) ==
  /\ Idle(u) /\ user[u].uses < MaxUses
  /\ user' = [user EXCEPT ![u].stack = <<[type |-> t, next |-> 0]>>, ![u].uses = @ + 1,
                          ![u].used = @ \cup {t}, ![u].now = now]
  /\ UNCHANGED <<checked, errorCount, complaints, warnings, panicked>>

(* Encode, EncodeValue, Register and RegisterName: checkValue; Decode: also checkDefault. *)
Encode(u, t) == Uses(u, t, <<>>)
Decode(u, value) == Uses(u, value.type, <<value>>)

Top(u) == Last(user[u].stack)
InCheck(u) == user[u].stack # <<>>
Pop(u) == [user EXCEPT ![u].stack = Front(@)]
Push(u, t) == [user EXCEPT ![u].stack = Append([@ EXCEPT ![Len(@)].next = @ + 1], [type |-> t, next |-> 0])]

(* checkType: the section under mu ... *)
Enter(u) ==
  /\ InCheck(u) /\ Top(u).next = 0
  /\ user' = IF Top(u).type \in checked THEN Pop(u) ELSE [user EXCEPT ![u].stack[Len(user[u].stack)].next = 1]
  /\ checked' = checked \cup {Top(u).type}
  /\ UNCHANGED <<errorCount, complaints, warnings, panicked>>

(* ... then field by field: complain, and check the field's type; or Elem and Key ... *)
Descend(u) ==
  LET t == Top(u).type i == Top(u).next
  IN  /\ InCheck(u) /\ i \in 1 .. Len(Elems(t))
      /\ user' = Push(u, Elems(t)[i])
      /\ IF <<t, i>> \in Lower
         THEN errorCount' = errorCount + 1 /\ complaints' = [complaints EXCEPT ![<<t, i>>] = @ + 1]
         ELSE UNCHANGED <<errorCount, complaints>>
      /\ UNCHANGED <<checked, warnings, panicked>>

(* ... and return; after the outermost return Decode goes on to checkDefault. *)
Return(u) ==
  /\ InCheck(u) /\ Top(u).next > Len(Elems(Top(u).type))
  /\ user' = Pop(u)
  /\ UNCHANGED <<checked, errorCount, complaints, warnings, panicked>>

(* one leaf that is not at its default, under mu *)
Warn(u) ==
  /\ user[u].leaves # <<>> /\ Head(user[u].leaves) = "warn"
  /\ user' = [user EXCEPT ![u].leaves = Tail(@)]
  /\ warnings' = IF errorCount < 1 THEN warnings + 1 ELSE warnings
  /\ errorCount' = errorCount + 1
  /\ UNCHANGED <<checked, complaints, panicked>>

(* value.Interface() on one it may not read *)
Panics(u) ==
  /\ user[u].leaves # <<>> /\ Head(user[u].leaves) = "panic"
  /\ panicked' = TRUE
  /\ UNCHANGED <<checked, errorCount, complaints, warnings, user>>

StartDefaults(u) ==
  /\ user[u].stack = <<>> /\ user[u].now # <<>> /\ user[u].now[1] \notin user[u].decoded
  /\ user' = [user EXCEPT ![u].leaves = checkDefault(user[u].now[1]), ![u].decoded = @ \cup {user[u].now[1]}]
  /\ UNCHANGED <<checked, errorCount, complaints, warnings, panicked>>

Decoded(u) ==
  /\ user[u].now # <<>> /\ user[u].now[1] \in user[u].decoded /\ user[u].leaves = <<>> /\ user[u].stack = <<>>
  /\ user' = [user EXCEPT ![u].now = <<>>]
  /\ UNCHANGED <<checked, errorCount, complaints, warnings, panicked>>

Next ==
  /\ ~ panicked
  /\ \E u \in Users : \/ \E t \in DOMAIN Types : Encode(u, t)
                      \/ \E v \in Values : v \notin user[u].decoded /\ Decode(u, v)
                      \/ Enter(u) \/ Descend(u) \/ Return(u)
                      \/ StartDefaults(u) \/ Warn(u) \/ Panics(u) \/ Decoded(u)

Spec == Init /\ [][Next]_vars

-----------------------------------------------------------------------------
(* "avoid recursion": the calls of checkType that a goroutine is in are of  *)
(* different types but for the innermost, also on types that contain        *)
(* themselves and with another goroutine on the same type.                  *)
RecursionBounded ==
  \A u \in Users : Len(user[u].stack) <= Cardinality(DOMAIN Types) + 1

Used == UNION {user[u].used : u \in Users}
Below(S) == S \cup UNION {ToSet(Types[t].elems) : t \in S}
Reachable == LET B[k \in 0 .. Cardinality(DOMAIN Types)] == IF k = 0 THEN Used ELSE Below(B[k - 1])
             IN  B[Cardinality(DOMAIN Types)]

(* "only complain once": no lower-case field is reported twice, and when    *)
(* the goroutines are through, every one below a type that was used was,    *)
(* though each of them stops where another one has been or is.              *)
ReportedOnce ==
  /\ \A f \in Lower : complaints[f] <= 1
  /\ (\A u \in Users : Idle(u)) => \A f \in Lower : f[1] \in Reachable => complaints[f] = 1

RECURSIVE NonDefault(_)
NonDefault(v) ==
  IF v.kind = "basic" THEN ~ v.zero ELSE \E i \in DOMAIN v.parts : NonDefault(v.parts[i])

DecodedNonDefault == \E u \in Users : Idle(u) /\ \E v \in user[u].decoded : NonDefault(v)

(* One warning at most, and one if no field was complained of and a value   *)
(* that checkDefault1 looks into far enough was not at its default.         *)
WarnsOnce ==
  /\ warnings <= 1
  /\ (\A f \in Lower : complaints[f] = 0) /\ (\E u \in Users : Idle(u) /\ \E v \in user[u].decoded : Contains(checkDefault(v), "warn"))
       => warnings = 1

(* "warn if the value contains non-default values" *)
WarnsOfNonDefault == DecodedNonDefault => warnings > 0
=============================================================================
