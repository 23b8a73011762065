-------------------------- MODULE MapReduceProofs --------------------------
(***************************************************************************)
(* The safety properties of MapReduce, for every number of files, reduce   *)
(* tasks, workers, crashes and expiries.                                   *)
(***************************************************************************)
EXTENDS MapReduce, FiniteSetTheorems, SequenceTheorems, TLAPS

USE ZenonT(30)

USE NFilesAssumption, NReduceAssumption, BoundsAssumption

(***************************************************************************)
(* Sends on the queue: what the sequence is after n of them.               *)
(***************************************************************************)
LEMMA SendProperties ==
  ASSUME NEW S, NEW q \in Seq(S), NEW n \in Nat, NEW f \in [1 .. n -> S]
  PROVE  /\ q \o f \in Seq(S)
         /\ Len(q \o f) = Len(q) + n
         /\ \A k \in 1 .. Len(q) : (q \o f)[k] = q[k]
         /\ \A k \in 1 .. n : (q \o f)[Len(q) + k] = f[k]
         /\ \A k \in 1 .. Len(q) + n :
              \/ k \in 1 .. Len(q) /\ (q \o f)[k] = q[k]
              \/ k - Len(q) \in 1 .. n /\ (q \o f)[k] = f[k - Len(q)]
<1>1. f \in Seq(S) /\ Len(f) = n
  BY SMTT(30)
<1>2. /\ q \o f \in Seq(S)
      /\ Len(q \o f) = Len(q) + n
      /\ \A k \in 1 .. Len(q) + n :
           (q \o f)[k] = IF k <= Len(q) THEN q[k] ELSE f[k - Len(q)]
  BY <1>1, ConcatProperties
<1>3. Len(q) \in Nat
  BY SMTT(30)
<1>4. QED
  BY <1>2, <1>3, SMTT(30)

LEMMA AppendElements ==
  ASSUME NEW S, NEW q \in Seq(S), NEW e \in S
  PROVE  /\ Append(q, e) \in Seq(S)
         /\ Len(Append(q, e)) = Len(q) + 1
         /\ \A k \in DOMAIN q : k \in DOMAIN Append(q, e) /\ Append(q, e)[k] = q[k]
         /\ \A k \in DOMAIN Append(q, e) :
              (k \in DOMAIN q /\ Append(q, e)[k] = q[k]) \/ (k = Len(q) + 1 /\ Append(q, e)[k] = e)
BY SMTT(30)

LEMMA TasksTyped ==
  /\ \A m \in MapIds : MapTask(m) \in Task
  /\ \A r \in ReduceIds, f \in Seq(MapIds) : ReduceTask(r, f) \in Task
  /\ \A k \in {"Exit", "Wait"} : Signal(k) \in Task
<1>1. <<>> \in Seq(MapIds) /\ 0 \in Ids
  BY SMTT(30) DEF Ids, MapIds
<1> QED
  BY <1>1 DEF MapTask, ReduceTask, Signal, Task, Ids

-----------------------------------------------------------------------------
(***************************************************************************)
(* Shape: the types; what a task in the queue, in TaskMeta or in the hands *)
(* of a worker can be; and that TaskMeta has, while mu is not held for     *)
(* ever, the tasks of the current phase.                                   *)
(***************************************************************************)
WorkTask(t) == \/ t.kind = "Map" /\ t.id \in MapIds
               \/ t.kind = "Reduce" /\ t.id \in ReduceIds

Shape ==
  /\ \A k \in DOMAIN TaskQueue : WorkTask(TaskQueue[k])
  /\ \A i \in DOMAIN TaskStatus : WorkTask(TaskPtr[i]) /\ TaskPtr[i].id = i
  /\ \A w \in Workers : held[w].kind \in {"Map", "Reduce"} => WorkTask(held[w])
  /\ \A w \in Workers : pc[w] = "report" => WorkTask(held[w])
  /\ master = "up" /\ Phase = "Map" =>
       DOMAIN TaskStatus = MapIds /\ \A i \in MapIds : TaskPtr[i].kind = "Map"
  /\ master = "up" /\ Phase # "Map" =>
       DOMAIN TaskStatus = ReduceIds /\ \A i \in ReduceIds : TaskPtr[i].kind = "Reduce"
  /\ master = "up" /\ reduceResults > 0 => Phase # "Map"

Base == TypeOK /\ QueueHasRoom /\ Shape

LEMMA SendableRange ==
  ASSUME NEW n \in Nat, TaskQueue \in Seq(Task), Len(TaskQueue) <= Cap
  PROVE  Sendable(n) \in 0 .. n /\ Len(TaskQueue) + Sendable(n) <= Cap
BY SMTT(30) DEF Sendable, Cap

LEMMA IdsFinite == IsFiniteSet(Ids)
<1>1. NFiles - 1 \in Int /\ NReduce - 1 \in Int /\ 0 \in Int
  BY SMTT(30)
<1>2. IsFiniteSet(0 .. NFiles - 1) /\ IsFiniteSet(0 .. NReduce - 1)
  BY <1>1, FS_Interval
<1>3. QED
  BY <1>2, FS_Union DEF Ids, MapIds, ReduceIds

LEMMA InProgressFinite ==
  ASSUME DOMAIN TaskStatus \subseteq Ids
  PROVE  IsFiniteSet(InProgress) /\ Cardinality(InProgress) \in Nat
<1>1. InProgress \in SUBSET Ids
  BY DEF InProgress
<1>2. QED
  BY <1>1, IdsFinite, FS_Subset, FS_CardinalityType

LEMMA BaseInit == Init => Base
<1> SUFFICES ASSUME Init PROVE Base
  OBVIOUS
<1>1. TaskQueue \in Seq(Task) /\ Len(TaskQueue) = NFiles
  BY TasksTyped, SMTT(30) DEF Init, MapIds
<1>2. InProgress = {}
  BY DEF Init, InProgress
<1>3. QueueHasRoom
  BY <1>1, <1>2, FS_EmptySet, SMTT(30) DEF QueueHasRoom, Cap
<1>4. TypeOK
  <2>1. TaskPtr \in [DOMAIN TaskStatus -> Task] /\ held \in [Workers -> Task]
    BY TasksTyped DEF Init
  <2>2. QED
    BY <1>1, <2>1, SMTT(30) DEF Init, TypeOK, Ids, MapIds, ReduceIds
<1>5. Shape
  BY SMTT(30) DEF Init, Shape, WorkTask, MapTask, Signal, MapIds
<1>6. QED
  BY <1>3, <1>4, <1>5 DEF Base

-----------------------------------------------------------------------------
(* Every step keeps the types. *)

LEMMA HeadTail ==
  ASSUME TaskQueue \in Seq(Task), TaskQueue # <<>>
  PROVE  /\ Head(TaskQueue) \in Task
         /\ Head(TaskQueue) = TaskQueue[1]
         /\ 1 \in DOMAIN TaskQueue
         /\ Tail(TaskQueue) \in Seq(Task)
         /\ Len(Tail(TaskQueue)) = Len(TaskQueue) - 1
         /\ \A k \in DOMAIN Tail(TaskQueue) :
              k + 1 \in DOMAIN TaskQueue /\ Tail(TaskQueue)[k] = TaskQueue[k + 1]
         /\ \A k \in DOMAIN TaskQueue :
              k # 1 => k - 1 \in DOMAIN Tail(TaskQueue)
BY SMTT(30)

LEMMA CreatedTyped ==
  ASSUME Base, NEW files \in Seq(MapIds), createReduceTask(files)
  PROVE  /\ TaskQueue' \in Seq(Task)
         /\ TaskStatus' \in [DOMAIN TaskStatus' -> {"Idle"}]
         /\ DOMAIN TaskStatus' \subseteq ReduceIds
         /\ DOMAIN TaskPtr' = DOMAIN TaskStatus'
         /\ \A r \in DOMAIN TaskPtr' : TaskPtr'[r] = ReduceTask(r, files)
         /\ \A k \in DOMAIN TaskQueue' :
              \/ k \in DOMAIN TaskQueue /\ TaskQueue'[k] = TaskQueue[k]
              \/ \E r \in ReduceIds : TaskQueue'[k] = ReduceTask(r, files)
         /\ \A r \in DOMAIN TaskPtr' : \E k \in DOMAIN TaskQueue' : TaskQueue'[k] = TaskPtr'[r]
         /\ Len(TaskQueue') <= Cap
         /\ \/ master' = "blocked" /\ Phase' = Phase
            \/ master' = master /\ Phase' = "Reduce" /\ DOMAIN TaskStatus' = ReduceIds
<1> DEFINE sent == Sendable(NReduce)
           f == [k \in 1 .. sent |-> ReduceTask(k - 1, files)]
<1>1. TaskQueue \in Seq(Task) /\ Len(TaskQueue) \in Nat /\ Len(TaskQueue) <= Cap
  <2>1. Cardinality(InProgress) \in Nat
    BY InProgressFinite DEF Base, TypeOK
  <2>2. QED
    BY <2>1, SMTT(30) DEF Base, TypeOK, QueueHasRoom, Cap
<1>2. sent \in 0 .. NReduce /\ Len(TaskQueue) + sent <= Cap
  BY <1>1, SendableRange
<1>3. f \in [1 .. sent -> Task]
  BY <1>2, TasksTyped, SMTT(30) DEF ReduceIds
<1>4. TaskQueue' = TaskQueue \o f
  BY DEF createReduceTask
<1> HIDE DEF sent
<1>5. /\ TaskQueue' \in Seq(Task)
      /\ Len(TaskQueue') = Len(TaskQueue) + sent
      /\ \A k \in 1 .. Len(TaskQueue) + sent :
           \/ k \in 1 .. Len(TaskQueue) /\ TaskQueue'[k] = TaskQueue[k]
           \/ k - Len(TaskQueue) \in 1 .. sent /\ TaskQueue'[k] = f[k - Len(TaskQueue)]
      /\ \A k \in 1 .. sent : TaskQueue'[Len(TaskQueue) + k] = f[k]
  <2> HIDE DEF f
  <2>1. sent \in Nat
    BY <1>2, SMTT(30)
  <2>2. QED
    BY <1>1, <1>3, <1>4, <2>1, SendProperties, SMTT(30)
<1>6. /\ TaskStatus' = [r \in 0 .. sent - 1 |-> "Idle"]
      /\ TaskPtr' = [r \in 0 .. sent - 1 |-> ReduceTask(r, files)]
      /\ \/ master' = "blocked" /\ Phase' = Phase
         \/ master' = master /\ Phase' = "Reduce" /\ sent = NReduce
  BY <1>2, SMTT(30) DEF createReduceTask, sent
<1>7. \A r \in DOMAIN TaskPtr' : \E k \in DOMAIN TaskQueue' : TaskQueue'[k] = TaskPtr'[r]
  <2> TAKE r \in DOMAIN TaskPtr'
  <2>1. r \in 0 .. sent - 1
    BY <1>6
  <2>2. Len(TaskQueue) + r + 1 \in DOMAIN TaskQueue'
    BY <2>1, <1>5, <1>1, <1>2, SMTT(30)
  <2>3. TaskQueue'[Len(TaskQueue) + (r + 1)] = f[r + 1] /\ f[r + 1] = ReduceTask(r, files)
    BY <2>1, <1>5, <1>2, SMTT(30)
  <2>4. QED
    BY <2>1, <2>2, <2>3, <1>6, <1>1, SMTT(30)
<1>8. \A k \in DOMAIN TaskQueue' :
        \/ k \in DOMAIN TaskQueue /\ TaskQueue'[k] = TaskQueue[k]
        \/ \E r \in ReduceIds : TaskQueue'[k] = ReduceTask(r, files)
  <2> TAKE k \in DOMAIN TaskQueue'
  <2>1. k \in 1 .. Len(TaskQueue) + sent
    BY <1>5, SMTT(30)
  <2>2. CASE k \in 1 .. Len(TaskQueue) /\ TaskQueue'[k] = TaskQueue[k]
    BY <2>2, <1>1, SMTT(30)
  <2>3. CASE k - Len(TaskQueue) \in 1 .. sent /\ TaskQueue'[k] = f[k - Len(TaskQueue)]
    <3>1. k - Len(TaskQueue) - 1 \in ReduceIds
      BY <2>3, <1>1, <1>2, <2>1, SMTT(30) DEF ReduceIds
    <3>2. QED
      BY <2>3, <3>1
  <2>4. QED
    BY <2>1, <2>2, <2>3, <1>5
<1>9. 0 .. sent - 1 \subseteq ReduceIds /\ (sent = NReduce => 0 .. sent - 1 = ReduceIds)
  BY <1>2, SMTT(30) DEF ReduceIds
<1>10. Len(TaskQueue') <= Cap
  BY <1>1, <1>2, <1>5
<1>11. /\ TaskStatus' \in [DOMAIN TaskStatus' -> {"Idle"}]
       /\ DOMAIN TaskStatus' \subseteq ReduceIds
       /\ DOMAIN TaskPtr' = DOMAIN TaskStatus'
       /\ \A r \in DOMAIN TaskPtr' : TaskPtr'[r] = ReduceTask(r, files)
  BY <1>6, <1>9
<1>12. \/ master' = "blocked" /\ Phase' = Phase
       \/ master' = master /\ Phase' = "Reduce" /\ DOMAIN TaskStatus' = ReduceIds
  BY <1>6, <1>9
<1> HIDE DEF f
<1>13. QED
  BY <1>5, <1>7, <1>8, <1>10, <1>11, <1>12

LEMMA RequeueProperties ==
  ASSUME Base, NEW S \in SUBSET InProgress, Requeue(S)
  PROVE  /\ TaskQueue' \in Seq(Task)
         /\ Len(TaskQueue') = Len(TaskQueue) + Cardinality(S)
         /\ TaskStatus' = [i \in DOMAIN TaskStatus |-> IF i \in S THEN "Idle"
                                                       ELSE TaskStatus[i]]
         /\ master' = master
         /\ \A k \in DOMAIN TaskQueue : k \in DOMAIN TaskQueue' /\ TaskQueue'[k] = TaskQueue[k]
         /\ \A k \in DOMAIN TaskQueue' :
              k \in DOMAIN TaskQueue \/ \E i \in S : TaskQueue'[k] = TaskPtr[i]
         /\ \A i \in S : \E k \in DOMAIN TaskQueue' : TaskQueue'[k] = TaskPtr[i]
         /\ \A j, k \in DOMAIN TaskQueue' :
              j \notin DOMAIN TaskQueue /\ k \notin DOMAIN TaskQueue /\ TaskQueue'[j] = TaskQueue'[k]
                => j = k
<1> DEFINE n == Cardinality(S)
           sent == Sendable(n)
<1>1. /\ TaskQueue \in Seq(Task) /\ Len(TaskQueue) \in Nat
      /\ DOMAIN TaskQueue = 1 .. Len(TaskQueue)
  BY SMTT(30) DEF Base, TypeOK
<1>2. IsFiniteSet(InProgress) /\ Cardinality(InProgress) \in Nat
  BY InProgressFinite DEF Base, TypeOK
<1>3. n \in Nat /\ n <= Cardinality(InProgress)
  BY <1>2, FS_Subset, FS_CardinalityType
<1>4. sent = n
  <2>1. Len(TaskQueue) + Cardinality(InProgress) <= Cap
    BY DEF Base, QueueHasRoom
  <2>2. Cap \in Nat
    BY DEF Cap
  <2>3. QED
    BY <2>1, <2>2, <1>1, <1>2, <1>3, SMTT(30) DEF Sendable
<1>5. PICK order \in Orders(S) :
        /\ TaskQueue' = TaskQueue \o [k \in 1 .. sent |-> TaskPtr[order[k]]]
        /\ TaskStatus' = [i \in DOMAIN TaskStatus |->
                            IF \E k \in 1 .. sent : order[k] = i
                            THEN "Idle" ELSE TaskStatus[i]]
        /\ master' = IF sent < n THEN "blocked" ELSE master
  BY DEF Requeue
<1> HIDE DEF n, sent
<1>6. /\ order \in [1 .. n -> S]
      /\ \A j, k \in 1 .. n : order[j] = order[k] => j = k
      /\ \A i \in S : \E k \in 1 .. n : order[k] = i
  BY DEF Orders, Bijection, Injection, Surjection, IsInjective, n
<1>7. S \subseteq DOMAIN TaskStatus
  BY DEF InProgress
<1> DEFINE f == [k \in 1 .. n |-> TaskPtr[order[k]]]
<1>8. f \in [1 .. n -> Task]
  BY <1>6, <1>7 DEF Base, TypeOK
<1>9. TaskQueue' = TaskQueue \o f
  BY <1>4, <1>5
<1>10. \A k \in 1 .. n : f[k] = TaskPtr[order[k]] /\ order[k] \in S
  BY <1>6
<1> HIDE DEF f
<1>11. /\ TaskQueue' \in Seq(Task)
       /\ Len(TaskQueue') = Len(TaskQueue) + n
       /\ \A k \in 1 .. Len(TaskQueue) : TaskQueue'[k] = TaskQueue[k]
       /\ \A k \in 1 .. n : TaskQueue'[Len(TaskQueue) + k] = f[k]
       /\ DOMAIN TaskQueue' = 1 .. Len(TaskQueue) + n
  <2>1. /\ TaskQueue' \in Seq(Task)
        /\ Len(TaskQueue') = Len(TaskQueue) + n
        /\ \A k \in 1 .. Len(TaskQueue) : TaskQueue'[k] = TaskQueue[k]
        /\ \A k \in 1 .. n : TaskQueue'[Len(TaskQueue) + k] = f[k]
    BY <1>1, <1>3, <1>8, <1>9, SendProperties, SMTT(30)
  <2>2. QED
    BY <2>1, SMTT(30)
<1>12. /\ TaskStatus' = [i \in DOMAIN TaskStatus |-> IF i \in S THEN "Idle"
                                                     ELSE TaskStatus[i]]
       /\ master' = master
  <2>1. \A i : i \in S <=> \E k \in 1 .. n : order[k] = i
    BY <1>6, SMTT(30)
  <2>2. QED
    BY <1>3, <1>4, <1>5, <2>1, SMTT(30)
<1>13. \A k \in DOMAIN TaskQueue' :
         \/ k \in DOMAIN TaskQueue
         \/ k - Len(TaskQueue) \in 1 .. n /\ TaskQueue'[k] = f[k - Len(TaskQueue)]
  <2> TAKE k \in DOMAIN TaskQueue'
  <2> SUFFICES ASSUME k \notin DOMAIN TaskQueue
               PROVE  k - Len(TaskQueue) \in 1 .. n /\ TaskQueue'[k] = f[k - Len(TaskQueue)]
    OBVIOUS
  <2>1. k \in 1 .. Len(TaskQueue) + n /\ k \notin 1 .. Len(TaskQueue)
    BY <1>1, <1>11
  <2>2. k - Len(TaskQueue) \in 1 .. n /\ Len(TaskQueue) + (k - Len(TaskQueue)) = k
    BY <2>1, <1>1, <1>3, SMTT(30)
  <2>3. TaskQueue'[Len(TaskQueue) + (k - Len(TaskQueue))] = f[k - Len(TaskQueue)]
    BY <2>2, <1>11
  <2>4. QED
    BY <2>2, <2>3
<1>14. \A j, k \in 1 .. n : f[j] = f[k] => j = k
  <2> SUFFICES ASSUME NEW j \in 1 .. n, NEW k \in 1 .. n, f[j] = f[k]
               PROVE  j = k
    OBVIOUS
  <2>1. f[j].id = order[j] /\ f[k].id = order[k]
    BY <1>7, <1>10 DEF Base, Shape
  <2>2. QED
    BY <2>1, <1>6
<1>15. \A j, k \in DOMAIN TaskQueue' :
         j \notin DOMAIN TaskQueue /\ k \notin DOMAIN TaskQueue /\ TaskQueue'[j] = TaskQueue'[k]
           => j = k
  <2> SUFFICES ASSUME NEW j \in DOMAIN TaskQueue', NEW k \in DOMAIN TaskQueue',
                      j \notin DOMAIN TaskQueue, k \notin DOMAIN TaskQueue,
                      TaskQueue'[j] = TaskQueue'[k]
               PROVE  j = k
    OBVIOUS
  <2>1. j - Len(TaskQueue) = k - Len(TaskQueue)
    BY <1>13, <1>14
  <2>2. QED
    BY <2>1, <1>1, <1>11, <1>3, SMTT(30)
<1>16. \A i \in S : \E k \in DOMAIN TaskQueue' : TaskQueue'[k] = TaskPtr[i]
  <2> TAKE i \in S
  <2>1. PICK k \in 1 .. n : order[k] = i
    BY <1>6
  <2>2. Len(TaskQueue) + k \in DOMAIN TaskQueue' /\ TaskQueue'[Len(TaskQueue) + k] = TaskPtr[i]
    BY <2>1, <1>1, <1>3, <1>10, <1>11, SMTT(30)
  <2>3. QED
    BY <2>2
<1>17. \A k \in DOMAIN TaskQueue : k \in DOMAIN TaskQueue' /\ TaskQueue'[k] = TaskQueue[k]
  BY <1>1, <1>3, <1>11, SMTT(30)
<1>18. \A k \in DOMAIN TaskQueue' :
         k \in DOMAIN TaskQueue \/ \E i \in S : TaskQueue'[k] = TaskPtr[i]
  BY <1>10, <1>13
<1>19. QED
  BY <1>11, <1>12, <1>15, <1>16, <1>17, <1>18 DEF n

LEMMA TypeStep == Base /\ [Next]_vars => TypeOK'
<1> SUFFICES ASSUME Base, [Next]_vars PROVE TypeOK'
  OBVIOUS
<1> TypeOK
  BY DEF Base
<1>1. ASSUME NEW w \in Workers, AssignTask(w) PROVE TypeOK'
  <2>1. CASE AssignQueued(w)
    <3>1. Tail(TaskQueue) \in Seq(Task) /\ Head(TaskQueue) \in Task
      BY <2>1, HeadTail DEF AssignQueued, TypeOK
    <3>2. CASE Head(TaskQueue).id \in DOMAIN TaskStatus
      <4>1. /\ TaskStatus' = [TaskStatus EXCEPT ![Head(TaskQueue).id] = "InProgress"]
            /\ Reply(w, Head(TaskQueue))
            /\ master' = master
        BY <2>1, <3>2 DEF AssignQueued
      <4>2. /\ pc' \in [Workers -> {"ask", "run", "report", "returned", "dead"}]
            /\ held' \in [Workers -> Task]
            /\ next' \in [Workers -> 0 .. NReduce]
        BY <3>1, <4>1, SMTT(30) DEF Reply, TypeOK
      <4>3. QED
        BY <1>1, <2>1, <3>1, <4>1, <4>2 DEF AssignTask, AssignQueued, TypeOK, fileVars
    <3>3. CASE Head(TaskQueue).id \notin DOMAIN TaskStatus
      BY <1>1, <2>1, <3>1, <3>3 DEF AssignTask, AssignQueued, TypeOK, workerVars, fileVars
    <3>4. QED
      BY <3>2, <3>3
  <2>2. CASE AssignNothing(w)
    <3>1. Signal(IF Phase = "Exit" THEN "Exit" ELSE "Wait") \in Task
      BY TasksTyped
    <3>2. QED
      BY <1>1, <2>2, <3>1, SMTT(30) DEF AssignTask, AssignNothing, Reply, TypeOK, fileVars
  <2>3. QED
    BY <1>1, <2>1, <2>2 DEF AssignTask
<1>2. ASSUME NEW w \in Workers, TaskCompleted(w) PROVE TypeOK'
  <2>1. Signal("Wait") \in Task /\ WorkTask(held[w])
    BY <1>2, TasksTyped DEF TaskCompleted, Base, Shape
  <2>2. held[w].kind = "Map" => held[w].id \in MapIds
    BY <2>1 DEF WorkTask
  <2>3. CASE Ignored(held[w])
    BY <1>2, <2>1, <2>3 DEF TaskCompleted, TypeOK, fileVars
  <2>4. CASE ~ Ignored(held[w])
    <3>1. /\ TaskStatus' = [TaskStatus EXCEPT ![held[w].id] = "Completed"]
          /\ mapResults' \in [MapIds -> Nat]
          /\ reduceResults' \in Nat
      BY <1>2, <2>2, <2>4, SMTT(30) DEF TaskCompleted, TypeOK
    <3>2. QED
      BY <1>2, <2>1, <3>1 DEF TaskCompleted, TypeOK, fileVars
  <2>5. QED
    BY <2>3, <2>4
<1>3. ASSUME NEW m \in MapIds, CollectMap(m) PROVE TypeOK'
  <2>1. Append(InterMediates, m) \in Seq(MapIds) /\ InterMediates' \in Seq(MapIds)
    BY <1>3, SMTT(30) DEF CollectMap, TypeOK
  <2>2. mapResults' \in [MapIds -> Nat]
    BY <1>3, SMTT(30) DEF CollectMap, TypeOK
  <2>3. CASE allTaskDone(TaskStatus)
    <3>1. createReduceTask(Append(InterMediates, m))
      BY <1>3, <2>3 DEF CollectMap
    <3>2. TaskPtr' \in [DOMAIN TaskStatus' -> Task]
      <4>1. TaskPtr' = [r \in DOMAIN TaskPtr' |-> TaskPtr'[r]]
        BY <3>1 DEF createReduceTask
      <4>2. \A r \in DOMAIN TaskPtr' : TaskPtr'[r] \in Task
        <5>1. /\ DOMAIN TaskPtr' \subseteq ReduceIds
              /\ \A r \in DOMAIN TaskPtr' : TaskPtr'[r] = ReduceTask(r, Append(InterMediates, m))
          BY <3>1, <2>1, CreatedTyped
        <5>2. QED
          BY <5>1, <2>1, TasksTyped
      <4>3. DOMAIN TaskPtr' = DOMAIN TaskStatus'
        BY <3>1, <2>1, CreatedTyped
      <4>4. QED
        BY <4>1, <4>2, <4>3
    <3>3. /\ TaskQueue' \in Seq(Task)
          /\ TaskStatus' \in [DOMAIN TaskStatus' -> {"Idle"}]
          /\ DOMAIN TaskStatus' \subseteq ReduceIds
          /\ master' \in {master, "blocked"} /\ Phase' \in {Phase, "Reduce"}
      BY <3>1, <2>1, CreatedTyped
    <3>4. QED
      BY <1>3, <2>1, <2>2, <3>2, <3>3 DEF CollectMap, TypeOK, Ids, workerVars, fileVars
  <2>4. CASE ~ allTaskDone(TaskStatus)
    BY <1>3, <2>1, <2>2, <2>4 DEF CollectMap, TypeOK, workerVars, fileVars
  <2>5. QED
    BY <2>3, <2>4
<1>4. ASSUME CollectReduce PROVE TypeOK'
  <2>1. /\ Phase' \in {"Map", "Reduce", "Exit"}
        /\ reduceResults' \in Nat
    BY <1>4, SMTT(30) DEF CollectReduce, TypeOK
  <2>2. QED
    BY <1>4, <2>1 DEF CollectReduce, TypeOK, workerVars, fileVars
<1>5. ASSUME catchTimeOut PROVE TypeOK'
  <2>1. PICK S \in SUBSET InProgress \ {{}} :
          /\ slow + Cardinality(RunByLive(S)) <= MaxSlow
          /\ slow' = slow + Cardinality(RunByLive(S))
          /\ Requeue(S)
    BY <1>5 DEF catchTimeOut
  <2>2. Cardinality(RunByLive(S)) \in Nat
    <3>1. RunByLive(S) \in SUBSET InProgress
      BY DEF RunByLive
    <3>2. QED
      BY <3>1, InProgressFinite, FS_Subset, FS_CardinalityType DEF TypeOK
  <2>3. slow' \in 0 .. MaxSlow
    BY <2>1, <2>2, SMTT(30) DEF TypeOK
  <2>4. TaskQueue' \in Seq(Task) /\ master' = master
    BY <2>1, RequeueProperties
  <2>5. TaskStatus' = [i \in DOMAIN TaskStatus |-> IF i \in S THEN "Idle" ELSE TaskStatus[i]]
    BY <2>1, RequeueProperties
  <2>6. QED
    BY <1>5, <2>3, <2>4, <2>5 DEF catchTimeOut, TypeOK, workerVars, fileVars
<1>6. ASSUME catchTimeOutReturns PROVE TypeOK'
  BY <1>6 DEF catchTimeOutReturns, TypeOK, masterVars, workerVars, fileVars
<1>7. ASSUME MainPolls PROVE TypeOK'
  BY <1>7 DEF MainPolls, TypeOK, masterVars, workerVars, fileVars
<1>8. ASSUME MainReturns PROVE TypeOK'
  BY <1>8 DEF MainReturns, TypeOK, masterVars, workerVars, fileVars
<1>9. ASSUME NEW w \in Workers, WriteIntermediate(w) PROVE TypeOK'
  <2>1. held[w].id \in MapIds /\ next[w] \in ReduceIds
    BY <1>9, SMTT(30) DEF WriteIntermediate, TypeOK, Base, Shape, WorkTask, ReduceIds
  <2>2. disk' \subseteq MapIds \X ReduceIds
    BY <1>9, <2>1, SMTT(30) DEF WriteIntermediate, TypeOK
  <2>3. next' \in [Workers -> 0 .. NReduce]
    BY <1>9, SMTT(30) DEF WriteIntermediate, TypeOK
  <2>4. QED
    BY <1>9, <2>2, <2>3 DEF WriteIntermediate, TypeOK, masterVars
<1>10. ASSUME NEW w \in Workers, MapperDone(w) PROVE TypeOK'
  BY <1>10, SMTT(30) DEF MapperDone, TypeOK, masterVars, fileVars
<1>11. ASSUME NEW w \in Workers, NEW p \in {"ask", "returned", "dead"}, Goes(w, p)
       PROVE  /\ pc' \in [Workers -> {"ask", "run", "report", "returned", "dead"}]
              /\ held' \in [Workers -> Task]
              /\ next' \in [Workers -> 0 .. NReduce]
  BY <1>11, TasksTyped, SMTT(30) DEF Goes, TypeOK
<1>12. ASSUME NEW w \in Workers, Reducer(w) PROVE TypeOK'
  <2>1. held[w].id \in ReduceIds /\ held[w].files \in Seq(MapIds)
    BY <1>12, SMTT(30) DEF Reducer, TypeOK, Task, Base, Shape, WorkTask
  <2>2. CASE FilesOf(held[w]) \subseteq disk
    <3>1. DOMAIN out' \subseteq ReduceIds /\ out' \in [DOMAIN out' -> Seq(MapIds)]
      BY <1>12, <2>1, <2>2, SMTT(30) DEF Reducer, TypeOK
    <3>2. QED
      BY <1>12, <2>2, <3>1 DEF Reducer, TypeOK, masterVars
  <2>3. CASE ~ (FilesOf(held[w]) \subseteq disk)
    BY <1>11, <1>12, <2>3 DEF Reducer, TypeOK, masterVars
  <2>4. QED
    BY <2>2, <2>3
<1>13. ASSUME NEW w \in Workers, Waited(w) \/ WorkerReturns(w) \/ CallFails(w) \/ Restart(w)
       PROVE  TypeOK'
  <2>1. /\ \E p \in {"ask", "returned", "dead"} : Goes(w, p)
        /\ UNCHANGED <<masterVars, master, main, reaper, fileVars, slow, crashes>>
    BY <1>13 DEF Waited, WorkerReturns, CallFails, Restart
  <2>2. QED
    BY <1>11, <2>1 DEF TypeOK, masterVars, fileVars
<1>14. ASSUME NEW w \in Workers, Crash(w) PROVE TypeOK'
  <2>1. Goes(w, "dead")
    BY <1>14 DEF Crash
  <2>2. QED
    BY <1>11, <1>14, <2>1, SMTT(30) DEF Crash, TypeOK, masterVars, fileVars
<1>15. CASE UNCHANGED vars
  BY <1>15 DEF vars, masterVars, workerVars, fileVars, TypeOK
<1>16. QED
  BY <1>1, <1>2, <1>3, <1>4, <1>5, <1>6, <1>7, <1>8, <1>9, <1>10, <1>12, <1>13,
     <1>14, <1>15 DEF Next, WorkerStep

-----------------------------------------------------------------------------
(* Every step keeps room in the queue for all the tasks in progress. *)

LEMMA QueueSteps ==
  [Next]_vars =>
    \/ \E w \in Workers : AssignTask(w) \/ TaskCompleted(w)
    \/ \E m \in MapIds : CollectMap(m)
    \/ catchTimeOut
    \/ UNCHANGED <<TaskQueue, TaskStatus, TaskPtr>>
BY DEF Next, WorkerStep, CollectReduce, catchTimeOutReturns, MainPolls, MainReturns,
       WriteIntermediate, MapperDone, Reducer, Waited, WorkerReturns, CallFails, Crash,
       Restart, vars, masterVars

LEMMA RoomStep == Base /\ [Next]_vars => QueueHasRoom'
<1> SUFFICES ASSUME Base, [Next]_vars PROVE QueueHasRoom'
  OBVIOUS
<1>1. /\ TypeOK /\ TypeOK'
      /\ IsFiniteSet(InProgress) /\ Cardinality(InProgress) \in Nat
      /\ IsFiniteSet(InProgress') /\ Cardinality(InProgress') \in Nat
  <2>1. TypeOK /\ TypeOK'
    BY TypeStep DEF Base
  <2>2. IsFiniteSet(InProgress) /\ Cardinality(InProgress) \in Nat
    BY <2>1, InProgressFinite DEF TypeOK
  <2>3. DOMAIN TaskStatus' \subseteq Ids => IsFiniteSet(InProgress') /\ Cardinality(InProgress') \in Nat
    <3>1. IsFiniteSet(Ids)
      BY IdsFinite
    <3>2. InProgress' \subseteq DOMAIN TaskStatus'
      BY DEF InProgress
    <3>3. QED
      BY <3>1, <3>2, FS_Subset, FS_CardinalityType
  <2>4. QED
    BY <2>1, <2>2, <2>3 DEF TypeOK
<1>2. Len(TaskQueue) \in Nat /\ Len(TaskQueue') \in Nat /\ Cap \in Nat
  BY <1>1, SMTT(30) DEF TypeOK, Cap
<1>3. Len(TaskQueue) + Cardinality(InProgress) <= Cap
  BY DEF Base, QueueHasRoom
<1>4. ASSUME NEW w \in Workers, AssignTask(w) PROVE QueueHasRoom'
  <2>1. CASE AssignQueued(w)
    <3>1. Len(TaskQueue') = Len(TaskQueue) - 1
      BY <1>1, <2>1, HeadTail DEF AssignQueued, TypeOK
    <3>2. InProgress' \subseteq InProgress \cup {Head(TaskQueue).id}
      BY <1>1, <2>1 DEF AssignQueued, InProgress, TypeOK
    <3>3. Cardinality(InProgress') <= Cardinality(InProgress) + 1
      <4>1. /\ IsFiniteSet(InProgress \cup {Head(TaskQueue).id})
            /\ Cardinality(InProgress \cup {Head(TaskQueue).id}) \in Nat
            /\ Cardinality(InProgress \cup {Head(TaskQueue).id}) <= Cardinality(InProgress) + 1
        <5>1. /\ IsFiniteSet(InProgress \cup {Head(TaskQueue).id})
              /\ Cardinality(InProgress \cup {Head(TaskQueue).id})
                   = IF Head(TaskQueue).id \in InProgress THEN Cardinality(InProgress)
                     ELSE Cardinality(InProgress) + 1
          BY <1>1, FS_AddElement
        <5>2. QED
          BY <1>1, <5>1, SMTT(30)
      <4>2. Cardinality(InProgress') <= Cardinality(InProgress \cup {Head(TaskQueue).id})
        BY <3>2, <4>1, FS_Subset
      <4>3. QED
        BY <4>1, <4>2, <1>1, SMTT(30)
    <3>4. QED
      BY <1>1, <1>2, <1>3, <3>1, <3>3, SMTT(30) DEF QueueHasRoom
  <2>2. CASE AssignNothing(w)
    BY <1>3, <2>2 DEF AssignNothing, QueueHasRoom, InProgress
  <2>3. QED
    BY <1>4, <2>1, <2>2 DEF AssignTask
<1>5. ASSUME NEW w \in Workers, TaskCompleted(w) PROVE QueueHasRoom'
  <2>1. InProgress' \subseteq InProgress /\ TaskQueue' = TaskQueue
    BY <1>1, <1>5 DEF TaskCompleted, InProgress, TypeOK
  <2>2. Cardinality(InProgress') <= Cardinality(InProgress)
    BY <1>1, <2>1, FS_Subset
  <2>3. QED
    BY <1>1, <1>2, <1>3, <2>1, <2>2, SMTT(30) DEF QueueHasRoom
<1>6. ASSUME NEW m \in MapIds, CollectMap(m) PROVE QueueHasRoom'
  <2>1. CASE allTaskDone(TaskStatus)
    <3>1. Append(InterMediates, m) \in Seq(MapIds) /\ createReduceTask(Append(InterMediates, m))
      BY <1>1, <1>6, <2>1 DEF CollectMap, TypeOK
    <3>2. Len(TaskQueue') <= Cap /\ TaskStatus' \in [DOMAIN TaskStatus' -> {"Idle"}]
      BY <3>1, CreatedTyped
    <3>3. InProgress' = {}
      BY <3>2 DEF InProgress
    <3>4. QED
      BY <1>2, <3>2, <3>3, FS_EmptySet, SMTT(30) DEF QueueHasRoom
  <2>2. CASE ~ allTaskDone(TaskStatus)
    BY <1>3, <1>6, <2>2 DEF CollectMap, QueueHasRoom, InProgress
  <2>3. QED
    BY <2>1, <2>2
<1>7. ASSUME catchTimeOut PROVE QueueHasRoom'
  <2>1. PICK S \in SUBSET InProgress : Requeue(S)
    BY <1>7 DEF catchTimeOut
  <2>2. /\ Len(TaskQueue') = Len(TaskQueue) + Cardinality(S)
        /\ TaskStatus' = [i \in DOMAIN TaskStatus |-> IF i \in S THEN "Idle" ELSE TaskStatus[i]]
    BY <2>1, RequeueProperties
  <2>3. InProgress' = InProgress \ S
    BY <2>2 DEF InProgress
  <2>4. Cardinality(InProgress') = Cardinality(InProgress) - Cardinality(S)
    <3>1. IsFiniteSet(S) /\ Cardinality(S) \in Nat
      BY <1>1, FS_Subset, FS_CardinalityType
    <3>2. S \cap InProgress' = {} /\ S \cup InProgress' = InProgress
      BY <2>3
    <3>3. Cardinality(InProgress) = Cardinality(S) + Cardinality(InProgress') - 0
      BY <1>1, <3>1, <3>2, FS_Union, FS_EmptySet
    <3>4. QED
      BY <1>1, <3>1, <3>3, SMTT(30)
  <2>5. Cardinality(S) \in Nat
    BY <1>1, FS_Subset, FS_CardinalityType
  <2>6. QED
    BY <1>1, <1>2, <1>3, <2>2, <2>4, <2>5, SMTT(30) DEF QueueHasRoom
<1>8. CASE UNCHANGED <<TaskQueue, TaskStatus, TaskPtr>>
  BY <1>3, <1>8 DEF QueueHasRoom, InProgress
<1>9. QED
  BY <1>4, <1>5, <1>6, <1>7, <1>8, QueueSteps

-----------------------------------------------------------------------------
(* Every step keeps the shape. *)

LEMMA ShapeStep == Base /\ [Next]_vars => Shape'
<1> SUFFICES ASSUME Base, [Next]_vars PROVE Shape'
  OBVIOUS
<1> TypeOK /\ Shape
  BY DEF Base
<1> USE DEF Shape
<1>1. ASSUME NEW w \in Workers, AssignTask(w) PROVE Shape'
  <2>1. CASE AssignQueued(w)
    <3>1. /\ Head(TaskQueue) = TaskQueue[1] /\ WorkTask(Head(TaskQueue))
          /\ \A k \in DOMAIN TaskQueue' : WorkTask(TaskQueue'[k])
      <4>1. TaskQueue \in Seq(Task) /\ TaskQueue # <<>> /\ TaskQueue' = Tail(TaskQueue)
        BY <2>1 DEF AssignQueued, TypeOK
      <4>2. /\ Head(TaskQueue) = TaskQueue[1] /\ 1 \in DOMAIN TaskQueue
            /\ \A k \in DOMAIN Tail(TaskQueue) :
                 k + 1 \in DOMAIN TaskQueue /\ Tail(TaskQueue)[k] = TaskQueue[k + 1]
        BY <4>1, HeadTail
      <4>3. \A k \in DOMAIN TaskQueue : WorkTask(TaskQueue[k])
        OBVIOUS
      <4>4. WorkTask(TaskQueue[1])
        BY <4>2, <4>3
      <4>5. \A k \in DOMAIN Tail(TaskQueue) : WorkTask(Tail(TaskQueue)[k])
        BY <4>2, <4>3
      <4>6. QED
        BY <4>1, <4>2, <4>4, <4>5
    <3>2. CASE Head(TaskQueue).id \in DOMAIN TaskStatus
      <4>1. /\ DOMAIN TaskStatus' = DOMAIN TaskStatus /\ master' = master
            /\ pc' = [pc EXCEPT ![w] = "run"]
            /\ held' = [held EXCEPT ![w] = Head(TaskQueue)]
        BY <2>1, <3>2 DEF AssignQueued, Reply, TypeOK
      <4>2. QED
        BY <1>1, <3>1, <4>1 DEF AssignTask, TypeOK
    <3>3. CASE Head(TaskQueue).id \notin DOMAIN TaskStatus
      BY <1>1, <2>1, <3>1, <3>3 DEF AssignTask, AssignQueued, workerVars
    <3>4. QED
      BY <3>2, <3>3
  <2>2. CASE AssignNothing(w)
    <3>1. /\ pc' = [pc EXCEPT ![w] = "run"]
          /\ held' = [held EXCEPT ![w] = Signal(IF Phase = "Exit" THEN "Exit" ELSE "Wait")]
      BY <2>2 DEF AssignNothing, Reply
    <3>2. \A k \in {"Exit", "Wait"} : Signal(k).kind \notin {"Map", "Reduce"}
      BY DEF Signal
    <3>3. QED
      BY <1>1, <2>2, <3>1, <3>2 DEF AssignTask, AssignNothing, TypeOK
  <2>3. QED
    BY <1>1, <2>1, <2>2 DEF AssignTask
<1>2. ASSUME NEW w \in Workers, TaskCompleted(w) PROVE Shape'
  <2>1. Signal("Wait").kind \notin {"Map", "Reduce"}
    BY DEF Signal
  <2>2. DOMAIN TaskStatus' = DOMAIN TaskStatus
    BY <1>2 DEF TaskCompleted, TypeOK
  <2>3. reduceResults' > 0 => Phase # "Map"
    BY <1>2 DEF TaskCompleted, TypeOK, Ignored
  <2>4. QED
    BY <1>2, <2>1, <2>2, <2>3 DEF TaskCompleted, TypeOK
<1>3. ASSUME NEW m \in MapIds, CollectMap(m) PROVE Shape'
  <2>1. CASE allTaskDone(TaskStatus)
    <3> DEFINE files == Append(InterMediates, m)
    <3>1. files \in Seq(MapIds) /\ createReduceTask(files)
      BY <1>3, <2>1, SMTT(30) DEF CollectMap, TypeOK
    <3> HIDE DEF files
    <3>2. /\ DOMAIN TaskStatus' \subseteq ReduceIds
          /\ DOMAIN TaskPtr' = DOMAIN TaskStatus'
          /\ \A r \in DOMAIN TaskPtr' : TaskPtr'[r] = ReduceTask(r, files)
          /\ \A k \in DOMAIN TaskQueue' :
               \/ k \in DOMAIN TaskQueue /\ TaskQueue'[k] = TaskQueue[k]
               \/ \E r \in ReduceIds : TaskQueue'[k] = ReduceTask(r, files)
          /\ \/ master' = "blocked" /\ Phase' = Phase
             \/ master' = master /\ Phase' = "Reduce" /\ DOMAIN TaskStatus' = ReduceIds
      BY <3>1, CreatedTyped
    <3>3. \A r \in ReduceIds : /\ WorkTask(ReduceTask(r, files))
                               /\ ReduceTask(r, files).id = r
                               /\ ReduceTask(r, files).kind = "Reduce"
      BY DEF ReduceTask, WorkTask
    <3>4. UNCHANGED <<pc, held>>
      BY <1>3 DEF CollectMap, workerVars
    <3>5. QED
      BY <3>2, <3>3, <3>4, SMTT(30)
  <2>2. CASE ~ allTaskDone(TaskStatus)
    BY <1>3, <2>2 DEF CollectMap, workerVars
  <2>3. QED
    BY <2>1, <2>2
<1>4. ASSUME CollectReduce PROVE Shape'
  BY <1>4 DEF CollectReduce, TypeOK, workerVars
<1>5. ASSUME catchTimeOut PROVE Shape'
  <2>1. PICK S \in SUBSET InProgress : Requeue(S)
    BY <1>5 DEF catchTimeOut
  <2>2. /\ DOMAIN TaskStatus' = DOMAIN TaskStatus
        /\ master' = master
        /\ \A k \in DOMAIN TaskQueue : TaskQueue'[k] = TaskQueue[k]
        /\ \A k \in DOMAIN TaskQueue' :
             k \in DOMAIN TaskQueue \/ \E i \in S : TaskQueue'[k] = TaskPtr[i]
    BY <2>1, RequeueProperties
  <2>3. S \subseteq DOMAIN TaskStatus
    BY DEF InProgress
  <2>4. \A k \in DOMAIN TaskQueue' : WorkTask(TaskQueue'[k])
    BY <2>2, <2>3
  <2>5. QED
    BY <1>5, <2>2, <2>4 DEF catchTimeOut, workerVars
<1>6. ASSUME catchTimeOutReturns \/ MainPolls PROVE Shape'
  BY <1>6 DEF catchTimeOutReturns, MainPolls, masterVars, workerVars
<1>7. ASSUME MainReturns PROVE Shape'
  BY <1>7 DEF MainReturns, masterVars, workerVars
<1>8. ASSUME NEW w \in Workers, WriteIntermediate(w) PROVE Shape'
  BY <1>8 DEF WriteIntermediate, masterVars
<1>9. ASSUME NEW w \in Workers, MapperDone(w) PROVE Shape'
  BY <1>9 DEF MapperDone, masterVars, TypeOK
<1>10. ASSUME NEW w \in Workers, NEW p \in {"ask", "returned", "dead"}, Goes(w, p)
       PROVE  /\ \A v \in Workers : held'[v].kind \in {"Map", "Reduce"} => WorkTask(held'[v])
              /\ \A v \in Workers : pc'[v] = "report" => WorkTask(held'[v])
  <2>1. Signal("Wait").kind \notin {"Map", "Reduce"}
    BY DEF Signal
  <2>2. QED
    BY <1>10, <2>1 DEF Goes, TypeOK
<1>11. ASSUME NEW w \in Workers, Reducer(w) PROVE Shape'
  <2>1. CASE FilesOf(held[w]) \subseteq disk
    BY <1>11, <2>1 DEF Reducer, masterVars, TypeOK
  <2>2. CASE ~ (FilesOf(held[w]) \subseteq disk)
    BY <1>10, <1>11, <2>2 DEF Reducer, masterVars
  <2>3. QED
    BY <2>1, <2>2
<1>12. ASSUME NEW w \in Workers,
              Waited(w) \/ WorkerReturns(w) \/ CallFails(w) \/ Crash(w) \/ Restart(w)
       PROVE  Shape'
  <2>1. /\ \E p \in {"ask", "returned", "dead"} : Goes(w, p)
        /\ UNCHANGED <<masterVars, master>>
    BY <1>12 DEF Waited, WorkerReturns, CallFails, Crash, Restart
  <2>2. QED
    BY <1>10, <2>1 DEF masterVars
<1>13. CASE UNCHANGED vars
  BY <1>13 DEF vars, masterVars, workerVars
<1>14. QED
  BY <1>1, <1>2, <1>3, <1>4, <1>5, <1>6, <1>7, <1>8, <1>9, <1>11, <1>12, <1>13
     DEF Next, WorkerStep

(***************************************************************************)
(* Types, room in the queue and shape hold in every reachable state.       *)
(***************************************************************************)
THEOREM BaseInvariant == Spec => []Base
<1>1. Base /\ [Next]_vars => Base'
  BY TypeStep, RoomStep, ShapeStep DEF Base
<1>2. QED
  BY <1>1, BaseInit, PTL DEF Spec

\* Type correctness.
THEOREM TypeCorrect == Spec => []TypeOK
<1>1. Base => TypeOK
  BY DEF Base
<1>2. QED
  BY <1>1, BaseInvariant, PTL

\* catchTimeOut never waits on a full queue (master.go:133).
THEOREM RoomForExpired == Spec => []QueueHasRoom
<1>1. Base => QueueHasRoom
  BY DEF Base
<1>2. QED
  BY <1>1, BaseInvariant, PTL

-----------------------------------------------------------------------------
(* No task is forgotten. *)

LEMMA ForgottenStep == Base /\ NoTaskForgotten /\ [Next]_vars => NoTaskForgotten'
<1> SUFFICES ASSUME Base, NoTaskForgotten, [Next]_vars PROVE NoTaskForgotten'
  OBVIOUS
<1> TypeOK /\ Shape
  BY DEF Base
<1>1. ASSUME NEW w \in Workers, AssignTask(w) PROVE NoTaskForgotten'
  <2>1. CASE AssignQueued(w)
    <3> SUFFICES ASSUME NEW i \in DOMAIN TaskStatus', TaskStatus'[i] = "Idle"
                 PROVE  \E k \in DOMAIN TaskQueue' : TaskQueue'[k] = TaskPtr'[i]
      BY DEF NoTaskForgotten
    <3>1. /\ i \in DOMAIN TaskStatus /\ TaskStatus[i] = "Idle" /\ i # Head(TaskQueue).id
          /\ TaskPtr' = TaskPtr /\ TaskQueue' = Tail(TaskQueue) /\ TaskQueue # <<>>
      BY <1>1, <2>1 DEF AssignTask, AssignQueued, TypeOK
    <3>2. PICK k \in DOMAIN TaskQueue : TaskQueue[k] = TaskPtr[i]
      BY <3>1 DEF NoTaskForgotten
    <3>3. k # 1
      BY <3>1, <3>2, HeadTail, SMTT(30) DEF TypeOK, Shape
    <3>4. k - 1 \in DOMAIN Tail(TaskQueue) /\ Tail(TaskQueue)[k - 1] = TaskQueue[k]
      <4>1. k - 1 \in DOMAIN Tail(TaskQueue) /\ k \in Int
        BY <3>1, <3>3, HeadTail, SMTT(30) DEF TypeOK
      <4>2. Tail(TaskQueue)[k - 1] = TaskQueue[(k - 1) + 1]
        BY <4>1, <3>1, HeadTail DEF TypeOK
      <4>3. QED
        BY <4>1, <4>2, SMTT(30)
    <3>5. QED
      BY <3>1, <3>2, <3>4
  <2>2. CASE AssignNothing(w)
    BY <1>1, <2>2 DEF AssignTask, AssignNothing, NoTaskForgotten
  <2>3. QED
    BY <1>1, <2>1, <2>2 DEF AssignTask
<1>2. ASSUME NEW w \in Workers, TaskCompleted(w) PROVE NoTaskForgotten'
  <2>1. /\ TaskQueue' = TaskQueue /\ TaskPtr' = TaskPtr
        /\ DOMAIN TaskStatus' = DOMAIN TaskStatus
        /\ \A i \in DOMAIN TaskStatus : TaskStatus'[i] = "Idle" => TaskStatus[i] = "Idle"
    BY <1>2 DEF TaskCompleted, TypeOK
  <2>2. QED
    BY <2>1 DEF NoTaskForgotten
<1>3. ASSUME NEW m \in MapIds, CollectMap(m) PROVE NoTaskForgotten'
  <2>1. CASE allTaskDone(TaskStatus)
    <3>1. Append(InterMediates, m) \in Seq(MapIds) /\ createReduceTask(Append(InterMediates, m))
      BY <1>3, <2>1, SMTT(30) DEF CollectMap, TypeOK
    <3>2. /\ DOMAIN TaskPtr' = DOMAIN TaskStatus'
          /\ \A r \in DOMAIN TaskPtr' : \E k \in DOMAIN TaskQueue' : TaskQueue'[k] = TaskPtr'[r]
      BY <3>1, CreatedTyped
    <3>3. QED
      BY <3>2 DEF NoTaskForgotten
  <2>2. CASE ~ allTaskDone(TaskStatus)
    BY <1>3, <2>2 DEF CollectMap, NoTaskForgotten
  <2>3. QED
    BY <2>1, <2>2
<1>4. ASSUME catchTimeOut PROVE NoTaskForgotten'
  <2>1. PICK S \in SUBSET InProgress : Requeue(S)
    BY <1>4 DEF catchTimeOut
  <2>2. /\ TaskStatus' = [i \in DOMAIN TaskStatus |-> IF i \in S THEN "Idle" ELSE TaskStatus[i]]
        /\ \A k \in DOMAIN TaskQueue : k \in DOMAIN TaskQueue' /\ TaskQueue'[k] = TaskQueue[k]
        /\ \A i \in S : \E k \in DOMAIN TaskQueue' : TaskQueue'[k] = TaskPtr[i]
    BY <2>1, RequeueProperties
  <2>3. TaskPtr' = TaskPtr
    BY <1>4 DEF catchTimeOut
  <2>4. QED
    BY <2>2, <2>3 DEF NoTaskForgotten
<1>5. CASE UNCHANGED <<TaskQueue, TaskStatus, TaskPtr>>
  BY <1>5 DEF NoTaskForgotten
<1>6. QED
  BY <1>1, <1>2, <1>3, <1>4, <1>5, QueueSteps

\* A task that is Idle has its entry in the queue.
THEOREM NoneForgotten == Spec => []NoTaskForgotten
<1>1. Init => NoTaskForgotten
  <2> SUFFICES ASSUME Init, NEW i \in MapIds
               PROVE  \E k \in DOMAIN TaskQueue : TaskQueue[k] = TaskPtr[i]
    BY DEF Init, NoTaskForgotten
  <2>1. i + 1 \in DOMAIN TaskQueue /\ TaskQueue[i + 1] = TaskPtr[i]
    BY SMTT(30) DEF Init, MapIds
  <2>2. QED
    BY <2>1
<1>2. QED
  BY <1>1, ForgottenStep, BaseInvariant, PTL DEF Spec

-----------------------------------------------------------------------------
(***************************************************************************)
(* The files a reducer reads exist.  The argument follows a map result on  *)
(* its way: the mapper has renamed its first next[w] files; when it        *)
(* reports, all of them; so they exist when the result is in a goroutine   *)
(* or in InterMediates, from where reduce tasks take their lists.          *)
(***************************************************************************)
MapFiles(m) == {m} \X ReduceIds

FilesInv ==
  /\ ReduceInputsExist
  /\ \A w \in Workers : pc[w] = "run" /\ held[w].kind = "Map" =>
       \A r \in ReduceIds : r < next[w] => <<held[w].id, r>> \in disk
  /\ \A w \in Workers : pc[w] = "report" /\ held[w].kind = "Map" =>
       MapFiles(held[w].id) \subseteq disk
  /\ \A m \in MapIds : mapResults[m] > 0 => MapFiles(m) \subseteq disk
  /\ \A k \in DOMAIN InterMediates : MapFiles(InterMediates[k]) \subseteq disk

LEMMA FilesStep == Base /\ FilesInv /\ [Next]_vars => FilesInv'
<1> SUFFICES ASSUME Base, FilesInv, [Next]_vars PROVE FilesInv'
  OBVIOUS
<1> TypeOK /\ Shape
  BY DEF Base
<1>1. FilesOf(Signal("Wait")) = {} /\ FilesOf(Signal("Exit")) = {}
  BY SMTT(30) DEF FilesOf, Signal
<1>2. ASSUME NEW w \in Workers, AssignTask(w) PROVE FilesInv'
  <2>1. CASE AssignQueued(w)
    <3>1. /\ Head(TaskQueue) = TaskQueue[1] /\ 1 \in DOMAIN TaskQueue
          /\ \A k \in DOMAIN TaskQueue' : k + 1 \in DOMAIN TaskQueue /\ TaskQueue'[k] = TaskQueue[k + 1]
      BY <2>1, HeadTail DEF AssignQueued, TypeOK
    <3>2. UNCHANGED <<TaskPtr, InterMediates, mapResults, disk>>
      BY <1>2 DEF AssignTask, fileVars
    <3>3. \/ UNCHANGED <<pc, held, next>>
          \/ /\ pc' = [pc EXCEPT ![w] = "run"]
             /\ held' = [held EXCEPT ![w] = Head(TaskQueue)]
             /\ next' = [next EXCEPT ![w] = 0]
      BY <2>1 DEF AssignQueued, Reply, workerVars
    <3>4. ReduceInputsExist'
      <4>1. \A v \in Workers : held'[v] = held[v] \/ held'[v] = TaskQueue[1]
        BY <3>1, <3>3 DEF TypeOK
      <4>2. \A v \in Workers : FilesOf(held'[v]) \subseteq disk
        BY <3>1, <4>1 DEF FilesInv, ReduceInputsExist
      <4>3. \A k \in DOMAIN TaskQueue' : FilesOf(TaskQueue'[k]) \subseteq disk
        BY <3>1 DEF FilesInv, ReduceInputsExist
      <4>4. QED
        BY <3>2, <4>2, <4>3 DEF FilesInv, ReduceInputsExist
    <3>5. \A v \in Workers :
            \/ pc'[v] = pc[v] /\ held'[v] = held[v] /\ next'[v] = next[v]
            \/ pc'[v] = "run" /\ next'[v] = 0
      BY <3>3 DEF TypeOK
    <3>6. \A v \in Workers : pc'[v] = "run" /\ held'[v].kind = "Map" =>
            \A r \in ReduceIds : r < next'[v] => <<held'[v].id, r>> \in disk
      <4>1. \A r \in ReduceIds : ~ (r < 0)
        BY SMTT(30) DEF ReduceIds
      <4>2. QED
        BY <3>5, <4>1 DEF FilesInv
    <3>7. \A v \in Workers : pc'[v] = "report" /\ held'[v].kind = "Map" =>
            MapFiles(held'[v].id) \subseteq disk
      BY <3>5 DEF FilesInv
    <3>8. QED
      BY <3>2, <3>4, <3>6, <3>7 DEF FilesInv
  <2>2. CASE AssignNothing(w)
    <3>1. PICK s \in {"Exit", "Wait"} : held' = [held EXCEPT ![w] = Signal(s)]
      BY <2>2 DEF AssignNothing, Reply
    <3>2. UNCHANGED <<TaskQueue, TaskPtr, InterMediates, mapResults, disk>>
      BY <1>2, <2>2 DEF AssignTask, AssignNothing, fileVars
    <3>3. pc' = [pc EXCEPT ![w] = "run"] /\ next' = [next EXCEPT ![w] = 0]
      BY <2>2 DEF AssignNothing, Reply
    <3>4. ReduceInputsExist'
      <4>1. \A v \in Workers : held'[v] = held[v] \/ held'[v] = Signal(s)
        BY <3>1 DEF TypeOK
      <4>2. \A v \in Workers : FilesOf(held'[v]) \subseteq disk
        BY <1>1, <3>1, <4>1 DEF FilesInv, ReduceInputsExist
      <4>3. QED
        BY <3>2, <4>2 DEF FilesInv, ReduceInputsExist
    <3>5. \A v \in Workers :
            \/ pc'[v] = pc[v] /\ held'[v] = held[v] /\ next'[v] = next[v]
            \/ pc'[v] = "run" /\ next'[v] = 0
      BY <3>1, <3>3 DEF TypeOK
    <3>6. \A v \in Workers : pc'[v] = "run" /\ held'[v].kind = "Map" =>
            \A r \in ReduceIds : r < next'[v] => <<held'[v].id, r>> \in disk
      <4>1. \A r \in ReduceIds : ~ (r < 0)
        BY SMTT(30) DEF ReduceIds
      <4>2. QED
        BY <3>5, <4>1 DEF FilesInv
    <3>7. \A v \in Workers : pc'[v] = "report" /\ held'[v].kind = "Map" =>
            MapFiles(held'[v].id) \subseteq disk
      BY <3>5 DEF FilesInv
    <3>8. QED
      BY <3>2, <3>4, <3>6, <3>7 DEF FilesInv
  <2>3. QED
    BY <1>2, <2>1, <2>2 DEF AssignTask
<1>3. ASSUME NEW w \in Workers, TaskCompleted(w) PROVE FilesInv'
  <2>1. /\ pc' = [pc EXCEPT ![w] = "ask"]
        /\ held' = [held EXCEPT ![w] = Signal("Wait")]
        /\ UNCHANGED <<TaskQueue, TaskPtr, InterMediates, next, disk>>
    BY <1>3 DEF TaskCompleted, fileVars
  <2>2. ReduceInputsExist'
    BY <1>1, <2>1 DEF FilesInv, ReduceInputsExist, TypeOK
  <2>3. \A m \in MapIds : mapResults'[m] > 0 => MapFiles(m) \subseteq disk
    <3>1. pc[w] = "report" /\ held[w].kind = "Map" => MapFiles(held[w].id) \subseteq disk
      BY DEF FilesInv
    <3>2. \A m \in MapIds : mapResults[m] > 0 => MapFiles(m) \subseteq disk
      BY DEF FilesInv
    <3>3. \/ mapResults' = mapResults
          \/ /\ held[w].kind = "Map" /\ pc[w] = "report"
             /\ mapResults' = [mapResults EXCEPT ![held[w].id] = @ + 1]
      BY <1>3 DEF TaskCompleted
    <3>4. QED
      BY <3>1, <3>2, <3>3 DEF TypeOK
  <2>4. QED
    BY <2>1, <2>2, <2>3 DEF FilesInv, TypeOK, Signal
<1>4. ASSUME NEW m \in MapIds, CollectMap(m) PROVE FilesInv'
  <2> DEFINE files == Append(InterMediates, m)
  <2>1. /\ files \in Seq(MapIds) /\ InterMediates' = files
        /\ Len(files) = Len(InterMediates) + 1
        /\ \A k \in DOMAIN files : (k \in DOMAIN InterMediates /\ files[k] = InterMediates[k]) \/ files[k] = m
    BY <1>4, AppendElements DEF CollectMap, TypeOK
  <2>2. /\ UNCHANGED <<pc, held, next, disk>>
        /\ mapResults' = [mapResults EXCEPT ![m] = @ - 1]
        /\ mapResults[m] > 0
    BY <1>4 DEF CollectMap, workerVars, fileVars
  <2> HIDE DEF files
  <2>3. \A k \in DOMAIN files : MapFiles(files[k]) \subseteq disk
    BY <2>1, <2>2 DEF FilesInv
  <2>4. \A r \in ReduceIds : FilesOf(ReduceTask(r, files)) \subseteq disk
    BY <2>3 DEF FilesOf, ReduceTask, MapFiles
  <2>5. ReduceInputsExist'
    <3>1. CASE allTaskDone(TaskStatus)
      <4>1. createReduceTask(files)
        BY <1>4, <3>1 DEF CollectMap, files
      <4>2. /\ DOMAIN TaskPtr' \subseteq ReduceIds
            /\ \A r \in DOMAIN TaskPtr' : TaskPtr'[r] = ReduceTask(r, files)
            /\ \A k \in DOMAIN TaskQueue' :
                 \/ k \in DOMAIN TaskQueue /\ TaskQueue'[k] = TaskQueue[k]
                 \/ \E r \in ReduceIds : TaskQueue'[k] = ReduceTask(r, files)
        BY <4>1, <2>1, CreatedTyped
      <4>3. /\ \A k \in DOMAIN TaskQueue : FilesOf(TaskQueue[k]) \subseteq disk
            /\ \A v \in Workers : FilesOf(held[v]) \subseteq disk
        BY DEF FilesInv, ReduceInputsExist
      <4>4. \A k \in DOMAIN TaskQueue' : FilesOf(TaskQueue'[k]) \subseteq disk
        BY <4>2, <4>3, <2>4
      <4>5. \A r \in DOMAIN TaskPtr' : FilesOf(TaskPtr'[r]) \subseteq disk
        BY <4>2, <2>4
      <4>6. QED
        BY <4>3, <4>4, <4>5, <2>2 DEF ReduceInputsExist
    <3>2. CASE ~ allTaskDone(TaskStatus)
      BY <1>4, <2>2, <3>2 DEF CollectMap, FilesInv, ReduceInputsExist
    <3>3. QED
      BY <3>1, <3>2
  <2>6. \A x \in MapIds : mapResults'[x] > 0 => MapFiles(x) \subseteq disk
    BY <2>2 DEF FilesInv, TypeOK
  <2>7. QED
    BY <2>1, <2>2, <2>3, <2>5, <2>6 DEF FilesInv
<1>5. ASSUME catchTimeOut PROVE FilesInv'
  <2>1. PICK S \in SUBSET InProgress : Requeue(S)
    BY <1>5 DEF catchTimeOut
  <2>2. /\ \A k \in DOMAIN TaskQueue : TaskQueue'[k] = TaskQueue[k]
        /\ \A k \in DOMAIN TaskQueue' :
             k \in DOMAIN TaskQueue \/ \E i \in S : TaskQueue'[k] = TaskPtr[i]
    BY <2>1, RequeueProperties
  <2>3. S \subseteq DOMAIN TaskPtr
    BY DEF InProgress, TypeOK
  <2>4. UNCHANGED <<TaskPtr, InterMediates, mapResults, pc, held, next, disk>>
    BY <1>5 DEF catchTimeOut, workerVars, fileVars
  <2>5. \A k \in DOMAIN TaskQueue' : FilesOf(TaskQueue'[k]) \subseteq disk
    BY <2>2, <2>3 DEF FilesInv, ReduceInputsExist
  <2>6. ReduceInputsExist'
    BY <2>4, <2>5 DEF FilesInv, ReduceInputsExist
  <2>7. QED
    BY <2>4, <2>6 DEF FilesInv
<1>6. ASSUME CollectReduce \/ catchTimeOutReturns \/ MainPolls \/ MainReturns PROVE FilesInv'
  <2>1. UNCHANGED <<TaskQueue, TaskPtr, InterMediates, mapResults, pc, held, next, disk>>
    BY <1>6 DEF CollectReduce, catchTimeOutReturns, MainPolls, MainReturns, masterVars,
                workerVars, fileVars
  <2>2. QED
    BY <2>1 DEF FilesInv, ReduceInputsExist
<1>7. ASSUME NEW w \in Workers, WriteIntermediate(w) PROVE FilesInv'
  <2>1. /\ UNCHANGED <<TaskQueue, TaskPtr, InterMediates, mapResults, pc, held>>
        /\ disk' = disk \cup {<<held[w].id, next[w]>>}
        /\ next' = [next EXCEPT ![w] = @ + 1]
    BY <1>7 DEF WriteIntermediate, masterVars
  <2>2. ReduceInputsExist'
    BY <2>1 DEF FilesInv, ReduceInputsExist
  <2>3. \A v \in Workers : pc[v] = "run" /\ held[v].kind = "Map" =>
          \A r \in ReduceIds : r < next'[v] => <<held[v].id, r>> \in disk'
    <3> SUFFICES ASSUME NEW v \in Workers, pc[v] = "run", held[v].kind = "Map",
                        NEW r \in ReduceIds, r < next'[v]
                 PROVE  <<held[v].id, r>> \in disk'
      OBVIOUS
    <3>1. \/ r < next[v]
          \/ v = w /\ r = next[w]
      BY <2>1, SMTT(30) DEF TypeOK, ReduceIds
    <3>2. QED
      BY <2>1, <3>1 DEF FilesInv
  <2>4. disk \subseteq disk'
    BY <2>1
  <2>5. QED
    BY <2>1, <2>2, <2>3, <2>4 DEF FilesInv
<1>8. ASSUME NEW w \in Workers, MapperDone(w) PROVE FilesInv'
  <2>1. /\ UNCHANGED <<TaskQueue, TaskPtr, InterMediates, mapResults, held, disk>>
        /\ pc' = [pc EXCEPT ![w] = "report"]
        /\ next' = [next EXCEPT ![w] = 0]
    BY <1>8 DEF MapperDone, masterVars, fileVars
  <2>2. ReduceInputsExist'
    BY <2>1 DEF FilesInv, ReduceInputsExist
  <2>3. MapFiles(held[w].id) \subseteq disk
    <3>1. \A r \in ReduceIds : r < next[w]
      BY <1>8, SMTT(30) DEF MapperDone, ReduceIds
    <3>2. \A r \in ReduceIds : <<held[w].id, r>> \in disk
      BY <1>8, <3>1 DEF FilesInv, MapperDone
    <3>3. QED
      BY <3>2, SMTT(30) DEF MapFiles
  <2>4. QED
    BY <2>1, <2>2, <2>3 DEF FilesInv, TypeOK
<1>9. ASSUME NEW w \in Workers, NEW p \in {"ask", "returned", "dead"}, Goes(w, p),
             UNCHANGED <<TaskQueue, TaskPtr, InterMediates, mapResults, disk>>
      PROVE  FilesInv'
  <2>1. /\ pc' = [pc EXCEPT ![w] = p]
        /\ held' = [held EXCEPT ![w] = Signal("Wait")]
        /\ next' = [next EXCEPT ![w] = 0]
    BY <1>9 DEF Goes
  <2>2. ReduceInputsExist'
    BY <1>1, <1>9, <2>1 DEF FilesInv, ReduceInputsExist, TypeOK
  <2>3. QED
    BY <1>9, <2>1, <2>2 DEF FilesInv, TypeOK
<1>10. ASSUME NEW w \in Workers, Reducer(w) PROVE FilesInv'
  <2>1. UNCHANGED <<TaskQueue, TaskPtr, InterMediates, mapResults, disk>>
    BY <1>10 DEF Reducer, masterVars
  <2>2. CASE FilesOf(held[w]) \subseteq disk
    <3>1. pc' = [pc EXCEPT ![w] = "report"] /\ UNCHANGED <<held, next>> /\ held[w].kind = "Reduce"
      BY <1>10, <2>2 DEF Reducer
    <3>2. ReduceInputsExist'
      BY <2>1, <3>1 DEF FilesInv, ReduceInputsExist
    <3>3. QED
      BY <2>1, <3>1, <3>2 DEF FilesInv, TypeOK
  <2>3. CASE ~ (FilesOf(held[w]) \subseteq disk)
    BY <1>9, <1>10, <2>1, <2>3 DEF Reducer
  <2>4. QED
    BY <2>2, <2>3
<1>11. ASSUME NEW w \in Workers,
              Waited(w) \/ WorkerReturns(w) \/ CallFails(w) \/ Crash(w) \/ Restart(w)
       PROVE  FilesInv'
  <2>1. /\ \E p \in {"ask", "returned", "dead"} : Goes(w, p)
        /\ UNCHANGED <<TaskQueue, TaskPtr, InterMediates, mapResults, disk>>
    BY <1>11 DEF Waited, WorkerReturns, CallFails, Crash, Restart, masterVars, fileVars
  <2>2. QED
    BY <1>9, <2>1
<1>12. CASE UNCHANGED vars
  <2>1. UNCHANGED <<TaskQueue, TaskPtr, held, pc, next, disk, mapResults, InterMediates>>
    BY <1>12 DEF vars, masterVars, workerVars, fileVars
  <2>2. ReduceInputsExist'
    BY <2>1 DEF FilesInv, ReduceInputsExist
  <2>3. QED
    BY <2>1, <2>2 DEF FilesInv
<1>13. QED
  BY <1>2, <1>3, <1>4, <1>5, <1>6, <1>7, <1>8, <1>10, <1>11, <1>12 DEF Next, WorkerStep

\* No reducer finds a listed file missing (worker.go:202).
THEOREM InputsExist == Spec => []ReduceInputsExist
<1>1. Init => FilesInv
  <2> SUFFICES ASSUME Init PROVE FilesInv
    OBVIOUS
  <2>1. /\ \A m \in MapIds : FilesOf(MapTask(m)) = {}
        /\ FilesOf(Signal("Wait")) = {}
    <3>1. /\ \A m \in MapIds : MapTask(m).files = <<>>
          /\ Signal("Wait").files = <<>>
      BY DEF MapTask, Signal
    <3>2. DOMAIN <<>> = {}
      BY SMTT(30)
    <3>3. QED
      BY <3>1, <3>2 DEF FilesOf
  <2>2. \A k \in DOMAIN TaskQueue : \E m \in MapIds : TaskQueue[k] = MapTask(m)
    BY SMTT(30) DEF Init, MapIds
  <2>3. \A i \in DOMAIN TaskPtr : \E m \in MapIds : TaskPtr[i] = MapTask(m)
    BY DEF Init
  <2>4. ReduceInputsExist
    BY <2>1, <2>2, <2>3 DEF Init, ReduceInputsExist
  <2>5. QED
    BY <2>4, SMTT(30) DEF Init, FilesInv
<1>2. FilesInv => ReduceInputsExist
  BY DEF FilesInv
<1>3. QED
  BY <1>1, <1>2, FilesStep, BaseInvariant, PTL DEF Spec

-----------------------------------------------------------------------------
(***************************************************************************)
(* Output files exist before anyone believes the job is finished: a worker *)
(* reports a reduce task after the rename, so the output of a completed    *)
(* reduce task exists; the phase Exit begins when all of them are          *)
(* completed; main and the workers learn of it from the phase.             *)
(***************************************************************************)
OutputsInv ==
  /\ FinishedMeansOutputs
  /\ \A w \in Workers : held[w].kind = "Exit" => DOMAIN out = ReduceIds
  /\ \A w \in Workers :
       pc[w] = "report" /\ held[w].kind = "Reduce" => held[w].id \in DOMAIN out
  /\ \A i \in DOMAIN TaskStatus :
       TaskPtr[i].kind = "Reduce" /\ TaskStatus[i] = "Completed" => i \in DOMAIN out

LEMMA OutOnlyByReducer ==
  [Next]_vars => UNCHANGED out \/ \E w \in Workers : Reducer(w)
BY DEF Next, WorkerStep, AssignTask, TaskCompleted, CollectMap, CollectReduce, catchTimeOut,
       catchTimeOutReturns, MainPolls, MainReturns, WriteIntermediate, MapperDone, Waited,
       WorkerReturns, CallFails, Crash, Restart, fileVars, vars

LEMMA OutputsStay == TypeOK /\ TypeOK' /\ [Next]_vars => DOMAIN out \subseteq DOMAIN out'
<1>1. ASSUME NEW w \in Workers, Reducer(w) PROVE DOMAIN out \subseteq DOMAIN out'
  BY <1>1 DEF Reducer
<1>2. QED
  BY <1>1, OutOnlyByReducer

LEMMA OutputsStep == Base /\ OutputsInv /\ [Next]_vars => OutputsInv'
<1> SUFFICES ASSUME Base, OutputsInv, [Next]_vars PROVE OutputsInv'
  OBVIOUS
<1> TypeOK /\ TypeOK' /\ Shape
  BY TypeStep DEF Base
<1>1. DOMAIN out \subseteq DOMAIN out' /\ DOMAIN out' \subseteq ReduceIds
  BY OutputsStay DEF TypeOK
<1>2. DOMAIN out = ReduceIds => DOMAIN out' = ReduceIds
  BY <1>1
<1> USE DEF OutputsInv, FinishedMeansOutputs
<1>3. ASSUME NEW w \in Workers, AssignTask(w) PROVE OutputsInv'
  <2>1. UNCHANGED <<TaskPtr, Phase, main>>
    BY <1>3 DEF AssignTask
  <2>2. CASE AssignQueued(w)
    <3>1. Head(TaskQueue).kind \in {"Map", "Reduce"}
      <4>1. Head(TaskQueue) = TaskQueue[1] /\ 1 \in DOMAIN TaskQueue
        BY <2>2, HeadTail DEF AssignQueued, TypeOK
      <4>2. QED
        BY <4>1 DEF Shape, WorkTask
    <3>2. CASE Head(TaskQueue).id \in DOMAIN TaskStatus
      <4>1. /\ TaskStatus' = [TaskStatus EXCEPT ![Head(TaskQueue).id] = "InProgress"]
            /\ pc' = [pc EXCEPT ![w] = "run"]
            /\ held' = [held EXCEPT ![w] = Head(TaskQueue)]
        BY <2>2, <3>2 DEF AssignQueued, Reply
      <4>2. QED
        BY <1>1, <1>2, <2>1, <3>1, <4>1 DEF TypeOK
    <3>3. CASE Head(TaskQueue).id \notin DOMAIN TaskStatus
      <4>1. UNCHANGED <<TaskStatus, pc, held>>
        BY <2>2, <3>3 DEF AssignQueued, workerVars
      <4>2. QED
        BY <1>1, <1>2, <2>1, <4>1
    <3>4. QED
      BY <3>2, <3>3
  <2>3. CASE AssignNothing(w)
    <3>1. /\ UNCHANGED TaskStatus
          /\ pc' = [pc EXCEPT ![w] = "run"]
          /\ held' = [held EXCEPT ![w] = Signal(IF Phase = "Exit" THEN "Exit" ELSE "Wait")]
      BY <2>3 DEF AssignNothing, Reply
    <3>2. Signal("Exit").kind = "Exit" /\ Signal("Wait").kind = "Wait"
      BY DEF Signal
    <3>3. QED
      BY <1>1, <1>2, <2>1, <3>1, <3>2 DEF TypeOK
  <2>4. QED
    BY <1>3, <2>2, <2>3 DEF AssignTask
<1>4. ASSUME NEW w \in Workers, TaskCompleted(w) PROVE OutputsInv'
  <2>1. /\ pc' = [pc EXCEPT ![w] = "ask"]
        /\ held' = [held EXCEPT ![w] = Signal("Wait")]
        /\ UNCHANGED <<TaskPtr, Phase, main>>
        /\ Signal("Wait").kind = "Wait"
    BY <1>4 DEF TaskCompleted, Signal
  <2>2. \A i \in DOMAIN TaskStatus' :
          TaskPtr[i].kind = "Reduce" /\ TaskStatus'[i] = "Completed" => i \in DOMAIN out
    <3>1. CASE Ignored(held[w])
      BY <1>4, <3>1 DEF TaskCompleted
    <3>2. CASE ~ Ignored(held[w])
      <4>1. /\ TaskStatus' = [TaskStatus EXCEPT ![held[w].id] = "Completed"]
            /\ held[w].kind = Phase /\ pc[w] = "report" /\ master = "up"
        BY <1>4, <3>2 DEF TaskCompleted, Ignored
      <4>2. \A i \in DOMAIN TaskStatus : TaskPtr[i].kind = "Reduce" => Phase # "Map"
        BY <4>1 DEF Shape
      <4>3. Phase # "Map" => held[w].kind = "Reduce"
        BY <4>1 DEF Shape, WorkTask
      <4>4. QED
        BY <4>1, <4>2, <4>3 DEF TypeOK
    <3>3. QED
      BY <3>1, <3>2
  <2>3. QED
    BY <1>1, <1>2, <2>1, <2>2 DEF TypeOK
<1>5. ASSUME NEW m \in MapIds, CollectMap(m) PROVE OutputsInv'
  <2>1. UNCHANGED <<pc, held, main>>
    BY <1>5 DEF CollectMap, workerVars
  <2>2. CASE allTaskDone(TaskStatus)
    <3>1. Append(InterMediates, m) \in Seq(MapIds) /\ createReduceTask(Append(InterMediates, m))
      BY <1>5, <2>2 DEF CollectMap, TypeOK
    <3>2. /\ TaskStatus' \in [DOMAIN TaskStatus' -> {"Idle"}]
          /\ Phase' \in {Phase, "Reduce"}
      BY <3>1, CreatedTyped
    <3>3. QED
      BY <1>1, <1>2, <2>1, <3>2
  <2>3. CASE ~ allTaskDone(TaskStatus)
    BY <1>1, <1>2, <1>5, <2>1, <2>3 DEF CollectMap
  <2>4. QED
    BY <2>2, <2>3
<1>6. ASSUME CollectReduce PROVE OutputsInv'
  <2>1. UNCHANGED <<TaskStatus, TaskPtr, pc, held, main>>
    BY <1>6 DEF CollectReduce, workerVars
  <2>2. Phase' = "Exit" => DOMAIN out = ReduceIds
    <3>1. CASE allTaskDone(TaskStatus)
      <4>1. DOMAIN TaskStatus = ReduceIds /\ \A i \in ReduceIds : TaskPtr[i].kind = "Reduce"
        BY <1>6 DEF CollectReduce, Shape
      <4>2. \A i \in ReduceIds : TaskStatus[i] = "Completed"
        BY <3>1, <4>1 DEF allTaskDone
      <4>3. QED
        BY <4>1, <4>2 DEF TypeOK
    <3>2. CASE ~ allTaskDone(TaskStatus)
      BY <1>6, <3>2 DEF CollectReduce
    <3>3. QED
      BY <3>1, <3>2
  <2>3. QED
    BY <1>1, <1>2, <2>1, <2>2
<1>7. ASSUME catchTimeOut PROVE OutputsInv'
  <2>1. PICK S \in SUBSET InProgress : Requeue(S)
    BY <1>7 DEF catchTimeOut
  <2>2. TaskStatus' = [i \in DOMAIN TaskStatus |-> IF i \in S THEN "Idle" ELSE TaskStatus[i]]
    BY <2>1, RequeueProperties
  <2>3. UNCHANGED <<TaskPtr, Phase, pc, held, main>>
    BY <1>7 DEF catchTimeOut, workerVars
  <2>4. QED
    BY <1>1, <1>2, <2>2, <2>3
<1>8. ASSUME MainPolls PROVE OutputsInv'
  BY <1>1, <1>2, <1>8 DEF MainPolls, Done, masterVars, workerVars
<1>9. ASSUME catchTimeOutReturns \/ MainReturns \/ UNCHANGED vars PROVE OutputsInv'
  <2>1. UNCHANGED <<TaskStatus, TaskPtr, Phase, pc, held, main>>
    BY <1>9 DEF catchTimeOutReturns, MainReturns, vars, masterVars, workerVars
  <2>2. QED
    BY <1>1, <1>2, <2>1
<1>10. ASSUME NEW w \in Workers, WriteIntermediate(w) \/ MapperDone(w) PROVE OutputsInv'
  <2>1. UNCHANGED <<TaskStatus, TaskPtr, Phase, held, main>>
    BY <1>10 DEF WriteIntermediate, MapperDone, masterVars
  <2>2. \/ pc' = pc
        \/ held[w].kind = "Map" /\ pc' = [pc EXCEPT ![w] = "report"]
    BY <1>10 DEF WriteIntermediate, MapperDone
  <2>3. QED
    BY <1>1, <1>2, <2>1, <2>2 DEF TypeOK
<1>11. ASSUME NEW w \in Workers, NEW p \in {"ask", "returned", "dead"}, Goes(w, p),
              p = "returned" => held[w].kind = "Exit",
              UNCHANGED <<TaskStatus, TaskPtr, Phase, main>>
       PROVE  OutputsInv'
  <2>1. /\ pc' = [pc EXCEPT ![w] = p]
        /\ held' = [held EXCEPT ![w] = Signal("Wait")]
        /\ Signal("Wait").kind = "Wait"
    BY <1>11 DEF Goes, Signal
  <2>2. QED
    BY <1>1, <1>2, <1>11, <2>1 DEF TypeOK
<1>12. ASSUME NEW w \in Workers, Reducer(w) PROVE OutputsInv'
  <2>1. UNCHANGED <<TaskStatus, TaskPtr, Phase, main>>
    BY <1>12 DEF Reducer, masterVars
  <2>2. CASE FilesOf(held[w]) \subseteq disk
    <3>1. /\ pc' = [pc EXCEPT ![w] = "report"] /\ held' = held
          /\ held[w].id \in DOMAIN out'
      BY <1>12, <2>2 DEF Reducer
    <3>2. QED
      BY <1>1, <1>2, <2>1, <3>1 DEF TypeOK
  <2>3. CASE ~ (FilesOf(held[w]) \subseteq disk)
    BY <1>11, <1>12, <2>1, <2>3 DEF Reducer
  <2>4. QED
    BY <2>2, <2>3
<1>13. ASSUME NEW w \in Workers,
              Waited(w) \/ WorkerReturns(w) \/ CallFails(w) \/ Crash(w) \/ Restart(w)
       PROVE  OutputsInv'
  <2>1. /\ UNCHANGED <<TaskStatus, TaskPtr, Phase, main>>
        /\ \E p \in {"ask", "returned", "dead"} :
             Goes(w, p) /\ (p = "returned" => held[w].kind = "Exit")
    BY <1>13 DEF Waited, WorkerReturns, CallFails, Crash, Restart, masterVars
  <2>2. QED
    BY <1>11, <2>1
<1>14. QED
  BY <1>3, <1>4, <1>5, <1>6, <1>7, <1>8, <1>9, <1>10, <1>12, <1>13 DEF Next, WorkerStep

\* All output files exist when master or worker takes the job for finished.
THEOREM OutputsExist == Spec => []FinishedMeansOutputs
<1>1. Init => OutputsInv
  BY SMTT(30) DEF Init, OutputsInv, FinishedMeansOutputs, Signal
<1>2. OutputsInv => FinishedMeansOutputs
  BY DEF OutputsInv
<1>3. QED
  BY <1>1, <1>2, OutputsStep, BaseInvariant, PTL DEF Spec

-----------------------------------------------------------------------------
(* The master drops no map result. *)

LEMMA KeptStep == Base /\ ResultsKept /\ [Next]_vars => ResultsKept'
<1> SUFFICES ASSUME Base, ResultsKept, [Next]_vars PROVE ResultsKept'
  OBVIOUS
<1> TypeOK /\ Shape
  BY DEF Base
<1>1. ASSUME NEW w \in Workers, AssignTask(w) PROVE ResultsKept'
  <2>1. /\ UNCHANGED <<TaskPtr, InterMediates, mapResults>>
        /\ DOMAIN TaskStatus' = DOMAIN TaskStatus
        /\ \A i \in DOMAIN TaskStatus : TaskStatus'[i] \in {TaskStatus[i], "InProgress"}
    BY <1>1 DEF AssignTask, AssignQueued, AssignNothing, TypeOK
  <2>2. QED
    BY <2>1 DEF ResultsKept, MapOpen, Collected
<1>2. ASSUME NEW w \in Workers, TaskCompleted(w) PROVE ResultsKept'
  <2>1. UNCHANGED <<TaskPtr, InterMediates>>
    BY <1>2 DEF TaskCompleted
  <2>2. CASE Ignored(held[w])
    BY <1>2, <2>1, <2>2 DEF TaskCompleted, ResultsKept, MapOpen, Collected
  <2>3. CASE ~ Ignored(held[w])
    <3> DEFINE t == held[w]
    <3>1. /\ TaskStatus' = [TaskStatus EXCEPT ![t.id] = "Completed"]
          /\ t.kind = Phase /\ master = "up" /\ WorkTask(t)
          /\ IF t.kind = "Map" THEN mapResults' = [mapResults EXCEPT ![t.id] = @ + 1]
             ELSE mapResults' = mapResults
      BY <1>2, <2>3 DEF TaskCompleted, Ignored, Shape
    <3>2. CASE t.kind = "Map"
      <4>1. \A m \in MapIds : IF m = t.id THEN mapResults'[m] > 0 ELSE mapResults'[m] = mapResults[m]
        BY <3>1, <3>2, SMTT(30) DEF TypeOK
      <4>2. QED
        BY <2>1, <3>1, <4>1 DEF ResultsKept, MapOpen, Collected, TypeOK
    <3>3. CASE t.kind # "Map"
      <4>1. \A m \in MapIds : ~ MapOpen(m)
        BY <3>1, <3>3 DEF Shape, MapOpen
      <4>2. QED
        BY <2>1, <3>1, <3>3, <4>1 DEF ResultsKept, Collected
    <3>4. QED
      BY <3>2, <3>3
  <2>4. QED
    BY <2>2, <2>3
<1>3. ASSUME NEW m \in MapIds, CollectMap(m) PROVE ResultsKept'
  <2>1. m \in Collected' /\ Collected \subseteq Collected'
    <3>1. InterMediates' = Append(InterMediates, m) /\ InterMediates \in Seq(MapIds)
      BY <1>3 DEF CollectMap, TypeOK
    <3>2. /\ \A k \in DOMAIN InterMediates : /\ k \in DOMAIN InterMediates'
                                             /\ InterMediates'[k] = InterMediates[k]
          /\ \E k \in DOMAIN InterMediates' : InterMediates'[k] = m
      <4>1. \A k \in DOMAIN InterMediates : /\ k \in DOMAIN InterMediates'
                                            /\ InterMediates'[k] = InterMediates[k]
        BY <3>1, AppendElements
      <4>2. Len(InterMediates) + 1 \in DOMAIN InterMediates'
        BY <3>1, SMTT(30)
      <4>3. InterMediates'[Len(InterMediates) + 1] = m
        BY <3>1, SMTT(30)
      <4>4. QED
        BY <4>1, <4>2, <4>3
    <3>3. QED
      BY <3>2 DEF Collected, Range
  <2>2. \A x \in MapIds : x # m => mapResults'[x] = mapResults[x]
    BY <1>3 DEF CollectMap, TypeOK
  <2>3. CASE allTaskDone(TaskStatus)
    <3>1. \A x \in MapIds : ~ MapOpen(x)
      BY <2>3 DEF allTaskDone, MapOpen
    <3>2. QED
      BY <2>1, <2>2, <3>1 DEF ResultsKept
  <2>4. CASE ~ allTaskDone(TaskStatus)
    <3>1. UNCHANGED <<TaskStatus, TaskPtr>>
      BY <1>3, <2>4 DEF CollectMap
    <3>2. QED
      BY <2>1, <2>2, <3>1 DEF ResultsKept, MapOpen
  <2>5. QED
    BY <2>3, <2>4
<1>4. ASSUME catchTimeOut PROVE ResultsKept'
  <2>1. PICK S \in SUBSET InProgress : Requeue(S)
    BY <1>4 DEF catchTimeOut
  <2>2. TaskStatus' = [i \in DOMAIN TaskStatus |-> IF i \in S THEN "Idle" ELSE TaskStatus[i]]
    BY <2>1, RequeueProperties
  <2>3. UNCHANGED <<TaskPtr, InterMediates, mapResults>>
    BY <1>4 DEF catchTimeOut
  <2>4. QED
    BY <2>2, <2>3 DEF ResultsKept, MapOpen, Collected
<1>5. CASE UNCHANGED <<TaskStatus, TaskPtr, InterMediates, mapResults>>
  BY <1>5 DEF ResultsKept, MapOpen, Collected
<1>6. \/ \E w \in Workers : AssignTask(w) \/ TaskCompleted(w)
      \/ \E m \in MapIds : CollectMap(m)
      \/ catchTimeOut
      \/ UNCHANGED <<TaskStatus, TaskPtr, InterMediates, mapResults>>
  BY DEF Next, WorkerStep, CollectReduce, catchTimeOutReturns, MainPolls, MainReturns,
         WriteIntermediate, MapperDone, Reducer, Waited, WorkerReturns, CallFails, Crash,
         Restart, vars, masterVars
<1>7. QED
  BY <1>1, <1>2, <1>3, <1>4, <1>5, <1>6

\* A map result is open, collected or in a goroutine that will collect it.
THEOREM NoResultDropped == Spec => []ResultsKept
<1>1. Init => ResultsKept
  BY SMTT(30) DEF Init, ResultsKept, MapOpen, MapTask
<1>2. QED
  BY <1>1, KeptStep, BaseInvariant, PTL DEF Spec

-----------------------------------------------------------------------------
(* What holds as long as no task expired under a live worker: the queue    *)
(* holds the idle tasks and nothing else, results are collected once, and  *)
(* output files only grow.                                                 *)

(***************************************************************************)
(* PunctualQueue is inductive together with: a task that a live worker has *)
(* is the one TaskMeta has under its id, in progress, and no other live    *)
(* worker has it.                                                          *)
(***************************************************************************)
Busy(w) == pc[w] \in {"run", "report"} /\ held[w].kind \in {"Map", "Reduce"}

PQueueInv ==
  Punctual =>
    /\ PunctualQueue
    /\ \A w \in Workers : Busy(w) =>
         /\ held[w].id \in DOMAIN TaskStatus
         /\ held[w] = TaskPtr[held[w].id]
         /\ TaskStatus[held[w].id] = "InProgress"
    /\ \A v, w \in Workers : Busy(v) /\ Busy(w) /\ held[v].id = held[w].id => v = w

LEMMA SlowGrows ==
  ASSUME TypeOK, TypeOK', [Next]_vars, Punctual'
  PROVE  Punctual
<1>1. CASE catchTimeOut
  <2>1. PICK S \in SUBSET InProgress : slow' = slow + Cardinality(RunByLive(S))
    BY <1>1 DEF catchTimeOut
  <2>2. Cardinality(RunByLive(S)) \in Nat
    <3>1. RunByLive(S) \in SUBSET InProgress
      BY DEF RunByLive
    <3>2. QED
      BY <3>1, InProgressFinite, FS_Subset, FS_CardinalityType DEF TypeOK
  <2>3. QED
    BY <2>1, <2>2, SMTT(30) DEF TypeOK, Punctual
<1>2. CASE UNCHANGED slow
  BY <1>2 DEF Punctual
<1>3. catchTimeOut \/ UNCHANGED slow
  BY DEF Next, WorkerStep, AssignTask, TaskCompleted, CollectMap, CollectReduce,
         catchTimeOutReturns, MainPolls, MainReturns, WriteIntermediate, MapperDone, Reducer,
         Waited, WorkerReturns, CallFails, Crash, Restart, vars
<1>4. QED
  BY <1>1, <1>2, <1>3

(* When all tasks are completed the queue is empty, and all reduce tasks fit. *)
LEMMA PunctualCreate ==
  ASSUME Base, PQueueInv, Punctual, allTaskDone(TaskStatus), master = "up",
         NEW files \in Seq(MapIds), createReduceTask(files)
  PROVE  /\ master' = "up"
         /\ TaskStatus' = [r \in ReduceIds |-> "Idle"]
         /\ TaskPtr' = [r \in ReduceIds |-> ReduceTask(r, files)]
         /\ TaskQueue' \in Seq(Task) /\ Len(TaskQueue') = NReduce
         /\ \A k \in 1 .. NReduce : TaskQueue'[k] = ReduceTask(k - 1, files)
<1>1. TaskQueue = <<>>
  <2>1. \A k \in DOMAIN TaskQueue : FALSE
    BY DEF PQueueInv, PunctualQueue, allTaskDone
  <2>2. TaskQueue \in Seq(Task)
    BY DEF Base, TypeOK
  <2>3. Len(TaskQueue) = 0
    <3>1. Len(TaskQueue) \in Nat /\ DOMAIN TaskQueue = 1 .. Len(TaskQueue)
      BY <2>2, SMTT(30)
    <3>2. Len(TaskQueue) # 0 => 1 \in DOMAIN TaskQueue
      BY <3>1, SMTT(30)
    <3>3. QED
      BY <2>1, <3>2
  <2>4. QED
    BY <2>2, <2>3, EmptySeq
<1>2. Sendable(NReduce) = NReduce
  BY <1>1, SMTT(30) DEF Sendable, Cap
<1> DEFINE f == [k \in 1 .. NReduce |-> ReduceTask(k - 1, files)]
<1>3. f \in [1 .. NReduce -> Task]
  BY TasksTyped, SMTT(30) DEF ReduceIds
<1>4. TaskQueue' = TaskQueue \o f
  BY <1>2 DEF createReduceTask
<1>5. \A k \in 1 .. NReduce : f[k] = ReduceTask(k - 1, files)
  OBVIOUS
<1> HIDE DEF f
<1>6. f \in Seq(Task) /\ Len(f) = NReduce
  BY <1>3, SMTT(30)
<1>7. TaskQueue' = f
  BY <1>1, <1>4, <1>6, ConcatEmptySeq
<1>8. /\ master' = "up"
      /\ TaskStatus' = [r \in ReduceIds |-> "Idle"]
      /\ TaskPtr' = [r \in ReduceIds |-> ReduceTask(r, files)]
  BY <1>2, SMTT(30) DEF createReduceTask, ReduceIds
<1>9. QED
  BY <1>5, <1>6, <1>7, <1>8

(* The entries of the queue have different ids. *)
LEMMA PunctualIds ==
  ASSUME PQueueInv, Punctual
  PROVE  \A j, k \in DOMAIN TaskQueue : TaskQueue[j].id = TaskQueue[k].id => j = k
BY SMTT(30) DEF PQueueInv, PunctualQueue, IsInjective

LEMMA PQueueStep == Base /\ PQueueInv /\ [Next]_vars => PQueueInv'
<1> SUFFICES ASSUME Base, PQueueInv, [Next]_vars, Punctual' PROVE PQueueInv'
  BY DEF PQueueInv
<1> TypeOK /\ TypeOK' /\ Shape
  BY TypeStep DEF Base
<1> Punctual
  BY SlowGrows
<1>1. /\ PunctualQueue
      /\ master \notin {"blocked", "crashed"}
      /\ \A k \in DOMAIN TaskQueue :
           /\ TaskQueue[k].id \in DOMAIN TaskStatus
           /\ TaskQueue[k] = TaskPtr[TaskQueue[k].id]
           /\ TaskStatus[TaskQueue[k].id] = "Idle"
      /\ IsInjective(TaskQueue)
  BY DEF PQueueInv, PunctualQueue
<1>2. /\ \A w \in Workers : Busy(w) =>
           /\ held[w].id \in DOMAIN TaskStatus
           /\ held[w] = TaskPtr[held[w].id]
           /\ TaskStatus[held[w].id] = "InProgress"
      /\ \A v, w \in Workers : Busy(v) /\ Busy(w) /\ held[v].id = held[w].id => v = w
  BY DEF PQueueInv
<1>3. ASSUME NEW w \in Workers, AssignTask(w) PROVE PQueueInv'
  <2>1. CASE AssignQueued(w)
    <3> DEFINE t == Head(TaskQueue)
    <3>1. /\ t = TaskQueue[1] /\ 1 \in DOMAIN TaskQueue
          /\ TaskQueue' = Tail(TaskQueue)
          /\ \A k \in DOMAIN TaskQueue' : k + 1 \in DOMAIN TaskQueue /\ TaskQueue'[k] = TaskQueue[k + 1]
          /\ \A k \in DOMAIN TaskQueue' : k \in Nat /\ k # 0
      BY <2>1, HeadTail, SMTT(30) DEF AssignQueued, TypeOK
    <3>2. /\ t.id \in DOMAIN TaskStatus /\ t = TaskPtr[t.id] /\ TaskStatus[t.id] = "Idle"
          /\ t.kind \in {"Map", "Reduce"}
      BY <1>1, <3>1, SMTT(30) DEF Shape, WorkTask
    <3>3. /\ TaskStatus' = [TaskStatus EXCEPT ![t.id] = "InProgress"]
          /\ pc' = [pc EXCEPT ![w] = "run"]
          /\ held' = [held EXCEPT ![w] = t]
          /\ master' = master /\ TaskPtr' = TaskPtr
      BY <1>3, <2>1, <3>2 DEF AssignTask, AssignQueued, Reply
    <3> HIDE DEF t
    <3>4. \A k \in DOMAIN TaskQueue' : TaskQueue'[k].id # t.id
      BY <3>1, PunctualIds, SMTT(30)
    <3>5. PunctualQueue'
      <4>1. IsInjective(TaskQueue')
        BY <1>1, <3>1, SMTT(30) DEF IsInjective
      <4>2. \A k \in DOMAIN TaskQueue' :
              /\ TaskQueue'[k].id \in DOMAIN TaskStatus'
              /\ TaskQueue'[k] = TaskPtr'[TaskQueue'[k].id]
              /\ TaskStatus'[TaskQueue'[k].id] = "Idle"
        <5>1. /\ DOMAIN TaskStatus' = DOMAIN TaskStatus
              /\ \A i \in DOMAIN TaskStatus : i # t.id => TaskStatus'[i] = TaskStatus[i]
          BY <3>3 DEF TypeOK
        <5>2. QED
          BY <1>1, <3>1, <3>3, <3>4, <5>1, SMTT(30)
      <4>3. QED
        BY <1>1, <3>3, <4>1, <4>2 DEF PunctualQueue
    <3>6. \A v \in Workers : IF v = w THEN held'[v] = t
                             ELSE held'[v] = held[v] /\ pc'[v] = pc[v]
      BY <3>3 DEF TypeOK
    <3>7. \A v \in Workers : v # w /\ Busy(v)' => Busy(v) /\ held'[v] = held[v] /\ held[v].id # t.id
      BY <1>2, <3>2, <3>6 DEF Busy
    <3>8. \A v \in Workers : Busy(v)' =>
            /\ held'[v].id \in DOMAIN TaskStatus'
            /\ held'[v] = TaskPtr'[held'[v].id]
            /\ TaskStatus'[held'[v].id] = "InProgress"
      <4>1. /\ DOMAIN TaskStatus' = DOMAIN TaskStatus /\ TaskStatus'[t.id] = "InProgress"
            /\ \A i \in DOMAIN TaskStatus : i # t.id => TaskStatus'[i] = TaskStatus[i]
            /\ t.id \in DOMAIN TaskStatus /\ t = TaskPtr'[t.id]
        BY <3>2, <3>3 DEF TypeOK
      <4>2. held'[w] = t
        BY <3>6
      <4>3. TaskPtr' = TaskPtr
        BY <3>3
      <4>4. TAKE v \in Workers
      <4>5. CASE v = w
        BY <4>1, <4>2, <4>5
      <4>6. CASE v # w
        BY <1>2, <3>7, <4>1, <4>3, <4>6, SMTT(30)
      <4>7. QED
        BY <4>5, <4>6
    <3>9. \A u, v \in Workers : Busy(u)' /\ Busy(v)' /\ held'[u].id = held'[v].id => u = v
      BY <1>2, <3>6, <3>7
    <3>10. QED
      BY <3>5, <3>8, <3>9 DEF PQueueInv
  <2>2. CASE AssignNothing(w)
    <3>1. /\ UNCHANGED <<TaskQueue, TaskStatus, TaskPtr, master>>
          /\ pc' = [pc EXCEPT ![w] = "run"]
          /\ held' = [held EXCEPT ![w] = Signal(IF Phase = "Exit" THEN "Exit" ELSE "Wait")]
      BY <1>3, <2>2 DEF AssignTask, AssignNothing, Reply
    <3>2. \A k \in {"Exit", "Wait"} : Signal(k).kind \notin {"Map", "Reduce"}
      BY DEF Signal
    <3>3. \A v \in Workers : Busy(v)' => Busy(v) /\ held'[v] = held[v]
      BY <3>1, <3>2 DEF Busy, TypeOK
    <3>4. PunctualQueue'
      BY <1>1, <3>1 DEF PunctualQueue
    <3>5. QED
      BY <1>2, <3>1, <3>3, <3>4, SMTT(30) DEF PQueueInv
  <2>3. QED
    BY <1>3, <2>1, <2>2 DEF AssignTask
<1>4. ASSUME NEW w \in Workers, TaskCompleted(w) PROVE PQueueInv'
  <2>1. /\ UNCHANGED <<TaskQueue, TaskPtr, master>>
        /\ pc' = [pc EXCEPT ![w] = "ask"]
        /\ held' = [held EXCEPT ![w] = Signal("Wait")]
        /\ pc[w] = "report"
    BY <1>4 DEF TaskCompleted
  <2>2. Busy(w)
    BY <2>1 DEF Busy, Shape, WorkTask
  <2>3. /\ DOMAIN TaskStatus' = DOMAIN TaskStatus
        /\ \A i \in DOMAIN TaskStatus : i # held[w].id => TaskStatus'[i] = TaskStatus[i]
    BY <1>4 DEF TaskCompleted, TypeOK
  <2>4. \A v \in Workers : Busy(v)' => Busy(v) /\ held'[v] = held[v] /\ v # w
    BY <2>1 DEF Busy, TypeOK
  <2>5. \A k \in DOMAIN TaskQueue : TaskQueue[k].id # held[w].id
    BY <1>1, <1>2, <2>2
  <2>6. PunctualQueue'
    BY <1>1, <2>1, <2>3, <2>5 DEF PunctualQueue
  <2>7. \A v \in Workers : Busy(v)' => held[v].id # held[w].id
    BY <1>2, <2>2, <2>4
  <2>8. QED
    BY <1>2, <2>1, <2>3, <2>4, <2>6, <2>7, SMTT(30) DEF PQueueInv
<1>5. ASSUME NEW m \in MapIds, CollectMap(m) PROVE PQueueInv'
  <2>1. UNCHANGED <<pc, held>>
    BY <1>5 DEF CollectMap, workerVars
  <2>2. CASE allTaskDone(TaskStatus)
    <3> DEFINE files == Append(InterMediates, m)
    <3>1. files \in Seq(MapIds) /\ createReduceTask(files) /\ master = "up"
      BY <1>5, <2>2 DEF CollectMap, TypeOK
    <3> HIDE DEF files
    <3>2. /\ master' = "up"
          /\ TaskStatus' = [r \in ReduceIds |-> "Idle"]
          /\ TaskPtr' = [r \in ReduceIds |-> ReduceTask(r, files)]
          /\ TaskQueue' \in Seq(Task) /\ Len(TaskQueue') = NReduce
          /\ \A k \in 1 .. NReduce : TaskQueue'[k] = ReduceTask(k - 1, files)
      BY <2>2, <3>1, PunctualCreate
    <3>3. DOMAIN TaskQueue' = 1 .. NReduce
      BY <3>2, SMTT(30)
    <3>4. \A k \in 1 .. NReduce : k - 1 \in ReduceIds /\ TaskQueue'[k].id = k - 1
      BY <3>2, SMTT(30) DEF ReduceIds, ReduceTask
    <3>5. IsInjective(TaskQueue')
      <4>1. \A j, k \in 1 .. NReduce : TaskQueue'[j] = TaskQueue'[k] => j - 1 = k - 1
        BY <3>4
      <4>2. \A j, k \in 1 .. NReduce : TaskQueue'[j] = TaskQueue'[k] => j = k
        BY <4>1, SMTT(30)
      <4>3. QED
        BY <3>3, <4>2 DEF IsInjective
    <3>6. PunctualQueue'
      BY <3>2, <3>3, <3>4, <3>5 DEF PunctualQueue
    <3>7. \A v \in Workers : ~ Busy(v)'
      BY <1>2, <2>1, <2>2 DEF Busy, allTaskDone
    <3>8. QED
      BY <3>6, <3>7 DEF PQueueInv
  <2>3. CASE ~ allTaskDone(TaskStatus)
    <3>1. UNCHANGED <<TaskQueue, TaskStatus, TaskPtr, master>>
      BY <1>5, <2>3 DEF CollectMap
    <3>2. QED
      BY <1>1, <1>2, <2>1, <3>1 DEF PQueueInv, PunctualQueue, Busy
  <2>4. QED
    BY <2>2, <2>3
<1>6. ASSUME catchTimeOut PROVE PQueueInv'
  <2>1. PICK S \in SUBSET InProgress :
          slow' = slow + Cardinality(RunByLive(S)) /\ Requeue(S)
    BY <1>6 DEF catchTimeOut
  <2>2. /\ TaskStatus' = [i \in DOMAIN TaskStatus |-> IF i \in S THEN "Idle" ELSE TaskStatus[i]]
        /\ master' = master
        /\ \A k \in DOMAIN TaskQueue : k \in DOMAIN TaskQueue' /\ TaskQueue'[k] = TaskQueue[k]
        /\ \A k \in DOMAIN TaskQueue' :
             k \in DOMAIN TaskQueue \/ \E i \in S : TaskQueue'[k] = TaskPtr[i]
        /\ \A j, k \in DOMAIN TaskQueue' :
             j \notin DOMAIN TaskQueue /\ k \notin DOMAIN TaskQueue /\ TaskQueue'[j] = TaskQueue'[k]
               => j = k
    BY <2>1, RequeueProperties
  <2>3. UNCHANGED <<TaskPtr, pc, held>>
    BY <1>6 DEF catchTimeOut, workerVars
  <2>4. S \subseteq DOMAIN TaskStatus /\ \A i \in S : TaskStatus[i] = "InProgress"
    BY DEF InProgress
  <2>5. RunByLive(S) = {}
    <3>1. RunByLive(S) \in SUBSET InProgress
      BY DEF RunByLive
    <3>2. IsFiniteSet(RunByLive(S)) /\ Cardinality(RunByLive(S)) \in Nat
      BY <3>1, InProgressFinite, FS_Subset, FS_CardinalityType DEF TypeOK
    <3>3. Cardinality(RunByLive(S)) = 0
      BY <2>1, <3>2, SMTT(30) DEF Punctual
    <3>4. QED
      BY <3>2, <3>3, FS_EmptySet
  <2>6. \A w \in Workers : Busy(w) => held[w].id \notin S
    BY <1>2, <2>5 DEF RunByLive, RunBy, Busy
  <2>7. \A i \in S : TaskPtr[i].id = i
    BY <2>4 DEF Shape
  <2>8. \A k \in DOMAIN TaskQueue' :
          /\ TaskQueue'[k].id \in DOMAIN TaskStatus
          /\ TaskQueue'[k] = TaskPtr[TaskQueue'[k].id]
          /\ k \in DOMAIN TaskQueue => TaskStatus[TaskQueue'[k].id] = "Idle"
          /\ k \notin DOMAIN TaskQueue => TaskQueue'[k].id \in S
    BY <1>1, <2>2, <2>4, <2>7, SMTT(30)
  <2>9. IsInjective(TaskQueue')
    <3> SUFFICES ASSUME NEW j \in DOMAIN TaskQueue', NEW k \in DOMAIN TaskQueue',
                        TaskQueue'[j] = TaskQueue'[k]
                 PROVE  j = k
      BY DEF IsInjective
    <3>1. j \in DOMAIN TaskQueue <=> k \in DOMAIN TaskQueue
      BY <2>4, <2>8
    <3>2. QED
      BY <1>1, <2>2, <3>1 DEF IsInjective
  <2>10. PunctualQueue'
    BY <1>1, <2>2, <2>3, <2>8, <2>9 DEF PunctualQueue
  <2>11. \A w \in Workers : Busy(w)' <=> Busy(w)
    BY <2>3 DEF Busy
  <2>12. QED
    BY <1>2, <2>2, <2>3, <2>6, <2>10, <2>11 DEF PQueueInv
<1>7. ASSUME UNCHANGED <<TaskQueue, TaskStatus, TaskPtr>>, master' \notin {"blocked", "crashed"},
             \A v \in Workers : Busy(v)' => Busy(v) /\ held'[v] = held[v]
      PROVE  PQueueInv'
  <2>1. PunctualQueue'
    BY <1>1, <1>7 DEF PunctualQueue
  <2>2. QED
    BY <1>2, <1>7, <2>1, SMTT(30) DEF PQueueInv
<1>8. ASSUME CollectReduce \/ catchTimeOutReturns \/ MainPolls \/ MainReturns \/ UNCHANGED vars
      PROVE  PQueueInv'
  <2>1. /\ UNCHANGED <<TaskQueue, TaskStatus, TaskPtr, pc, held>>
        /\ master' \in {master, "exited"}
    BY <1>8 DEF CollectReduce, catchTimeOutReturns, MainPolls, MainReturns, vars, masterVars,
                workerVars
  <2>2. QED
    BY <1>1, <1>7, <2>1 DEF Busy
<1>9. ASSUME NEW w \in Workers, WriteIntermediate(w) \/ MapperDone(w) PROVE PQueueInv'
  <2>1. /\ UNCHANGED <<TaskQueue, TaskStatus, TaskPtr, held, master>>
        /\ pc[w] = "run" /\ (pc' = pc \/ pc' = [pc EXCEPT ![w] = "report"])
    BY <1>9 DEF WriteIntermediate, MapperDone, masterVars
  <2>2. QED
    BY <1>1, <1>7, <2>1 DEF Busy, TypeOK
<1>10. ASSUME NEW w \in Workers, NEW p \in {"ask", "returned", "dead"}, Goes(w, p),
              UNCHANGED <<TaskQueue, TaskStatus, TaskPtr, master>>
       PROVE  PQueueInv'
  BY <1>1, <1>7, <1>10 DEF Goes, Busy, TypeOK
<1>11. ASSUME NEW w \in Workers, Reducer(w) PROVE PQueueInv'
  <2>1. UNCHANGED <<TaskQueue, TaskStatus, TaskPtr, master>>
    BY <1>11 DEF Reducer, masterVars
  <2>2. CASE FilesOf(held[w]) \subseteq disk
    <3>1. pc[w] = "run" /\ pc' = [pc EXCEPT ![w] = "report"] /\ held' = held
      BY <1>11, <2>2 DEF Reducer
    <3>2. QED
      BY <1>1, <1>7, <2>1, <3>1 DEF Busy, TypeOK
  <2>3. CASE ~ (FilesOf(held[w]) \subseteq disk)
    BY <1>10, <1>11, <2>1, <2>3 DEF Reducer
  <2>4. QED
    BY <2>2, <2>3
<1>12. ASSUME NEW w \in Workers,
              Waited(w) \/ WorkerReturns(w) \/ CallFails(w) \/ Crash(w) \/ Restart(w)
       PROVE  PQueueInv'
  <2>1. /\ \E p \in {"ask", "returned", "dead"} : Goes(w, p)
        /\ UNCHANGED <<TaskQueue, TaskStatus, TaskPtr, master>>
    BY <1>12 DEF Waited, WorkerReturns, CallFails, Crash, Restart, masterVars
  <2>2. QED
    BY <1>10, <2>1
<1>13. QED
  BY <1>3, <1>4, <1>5, <1>6, <1>8, <1>9, <1>11, <1>12 DEF Next, WorkerStep

LEMMA PQueueInit == Init => PQueueInv
<1> SUFFICES ASSUME Init PROVE PQueueInv
  OBVIOUS
<1>1. DOMAIN TaskQueue = 1 .. NFiles
  BY DEF Init
<1>2. \A k \in 1 .. NFiles : k - 1 \in MapIds /\ TaskQueue[k] = MapTask(k - 1) /\ TaskQueue[k].id = k - 1
  BY SMTT(30) DEF Init, MapIds, MapTask
<1>3. IsInjective(TaskQueue)
  <2>1. \A j, k \in 1 .. NFiles : j - 1 = k - 1 => j = k
    BY SMTT(30)
  <2>2. QED
    BY <1>1, <1>2, <2>1, SMTT(30) DEF IsInjective
<1>4. PunctualQueue
  BY <1>1, <1>2, <1>3 DEF Init, PunctualQueue
<1>5. \A w \in Workers : ~ Busy(w)
  BY DEF Init, Busy
<1>6. QED
  BY <1>4, <1>5 DEF PQueueInv

\* Base and PQueueInv in every reachable state.
THEOREM PQueueInvariant == Spec => [](Base /\ PQueueInv)
BY PQueueInit, PQueueStep, BaseInvariant, PTL DEF Spec

(***************************************************************************)
(* As long as every live worker meets its ten seconds, the master neither  *)
(* stands still at a full queue nor panics, and the queue holds the idle   *)
(* tasks once each, however many workers crash.                            *)
(***************************************************************************)
THEOREM PunctualQueueHolds == Spec => []PunctualQueue
<1>1. PQueueInv => PunctualQueue
  BY DEF PQueueInv, PunctualQueue
<1>2. QED
  BY <1>1, PQueueInvariant, PTL

-----------------------------------------------------------------------------
(***************************************************************************)
(* PunctualCollectsOnce is inductive together with: the result of map task *)
(* m is nowhere while m is to be done, then with one goroutine, then in    *)
(* InterMediates.                                                          *)
(***************************************************************************)
PCollectInv ==
  Punctual =>
    /\ IsInjective(InterMediates)
    /\ \A m \in MapIds :
         /\ mapResults[m] <= 1
         /\ mapResults[m] = 1 => m \notin Collected
         /\ MapOpen(m) => m \notin Collected /\ mapResults[m] = 0

LEMMA AppendNew ==
  ASSUME NEW s \in Seq(MapIds), NEW m \in MapIds
  PROVE  /\ Range(Append(s, m)) = Range(s) \cup {m}
         /\ IsInjective(s) /\ m \notin Range(s) => IsInjective(Append(s, m))
<1>1. /\ Len(s) \in Nat /\ DOMAIN s = 1 .. Len(s)
      /\ DOMAIN Append(s, m) = 1 .. Len(s) + 1
      /\ \A k \in 1 .. Len(s) : Append(s, m)[k] = s[k]
      /\ Append(s, m)[Len(s) + 1] = m
  BY SMTT(30)
<1>2. \A k \in 1 .. Len(s) + 1 : k \in 1 .. Len(s) \/ k = Len(s) + 1
  BY <1>1, SMTT(30)
<1>3. 1 .. Len(s) \subseteq 1 .. Len(s) + 1 /\ Len(s) + 1 \in 1 .. Len(s) + 1
  BY <1>1, SMTT(30)
<1>4. Range(Append(s, m)) = Range(s) \cup {m}
  BY <1>1, <1>2, <1>3 DEF Range
<1>5. ASSUME IsInjective(s), m \notin Range(s) PROVE IsInjective(Append(s, m))
  BY <1>1, <1>2, <1>5, SMTT(30) DEF IsInjective, Range
<1>6. QED
  BY <1>4, <1>5

LEMMA PCollectStep == Base /\ PQueueInv /\ PCollectInv /\ [Next]_vars => PCollectInv'
<1> SUFFICES ASSUME Base, PQueueInv, PCollectInv, [Next]_vars, Punctual' PROVE PCollectInv'
  BY DEF PCollectInv
<1> TypeOK /\ TypeOK' /\ Shape
  BY TypeStep DEF Base
<1> Punctual
  BY SlowGrows
<1>1. /\ IsInjective(InterMediates)
      /\ \A m \in MapIds :
           /\ mapResults[m] <= 1
           /\ mapResults[m] = 1 => m \notin Collected
           /\ MapOpen(m) => m \notin Collected /\ mapResults[m] = 0
  BY DEF PCollectInv
<1>2. ASSUME UNCHANGED <<InterMediates, mapResults>>,
             \A m \in MapIds : MapOpen(m)' => MapOpen(m)
      PROVE  PCollectInv'
  BY <1>1, <1>2 DEF PCollectInv, Collected
<1>3. ASSUME NEW w \in Workers, AssignTask(w) PROVE PCollectInv'
  <2>1. UNCHANGED <<TaskPtr, InterMediates, mapResults>>
    BY <1>3 DEF AssignTask
  <2>2. CASE AssignQueued(w)
    <3> DEFINE t == Head(TaskQueue)
    <3>1. t = TaskQueue[1] /\ 1 \in DOMAIN TaskQueue
      BY <2>2, HeadTail DEF AssignQueued, TypeOK
    <3>2. t.id \in DOMAIN TaskStatus /\ TaskStatus[t.id] = "Idle"
      BY <3>1 DEF PQueueInv, PunctualQueue
    <3>3. TaskStatus' = [TaskStatus EXCEPT ![t.id] = "InProgress"]
      BY <2>2, <3>2 DEF AssignQueued
    <3>4. \A m \in MapIds : MapOpen(m)' => MapOpen(m)
      BY <2>1, <3>2, <3>3 DEF MapOpen, TypeOK
    <3>5. QED
      BY <1>2, <2>1, <3>4
  <2>3. CASE AssignNothing(w)
    BY <1>2, <2>1, <2>3 DEF AssignNothing, MapOpen
  <2>4. QED
    BY <1>3, <2>2, <2>3 DEF AssignTask
<1>4. ASSUME NEW w \in Workers, TaskCompleted(w) PROVE PCollectInv'
  <2>1. UNCHANGED <<TaskPtr, InterMediates>>
    BY <1>4 DEF TaskCompleted
  <2>2. CASE Ignored(held[w])
    <3>1. UNCHANGED <<TaskStatus, mapResults>>
      BY <1>4, <2>2 DEF TaskCompleted
    <3>2. QED
      BY <1>2, <2>1, <3>1 DEF MapOpen
  <2>3. CASE ~ Ignored(held[w])
    <3> DEFINE t == held[w]
    <3>1. /\ TaskStatus' = [TaskStatus EXCEPT ![t.id] = "Completed"]
          /\ IF t.kind = "Map" THEN mapResults' = [mapResults EXCEPT ![t.id] = @ + 1]
             ELSE mapResults' = mapResults
          /\ pc[w] = "report" /\ WorkTask(t)
      BY <1>4, <2>3 DEF TaskCompleted, Shape
    <3>2. Busy(w)
      BY <3>1 DEF Busy, WorkTask
    <3>3. /\ t.id \in DOMAIN TaskStatus /\ t = TaskPtr[t.id]
          /\ TaskStatus[t.id] = "InProgress"
      BY <3>2 DEF PQueueInv
    <3>4. \A m \in MapIds : MapOpen(m)' => MapOpen(m) /\ m # t.id
      BY <2>1, <3>1, <3>3 DEF MapOpen, TypeOK
    <3>5. CASE t.kind # "Map"
      BY <1>2, <2>1, <3>1, <3>4, <3>5
    <3>6. CASE t.kind = "Map"
      <4>1. t.id \in MapIds /\ MapOpen(t.id)
        BY <3>1, <3>3, <3>6 DEF WorkTask, MapOpen
      <4>2. mapResults[t.id] = 0 /\ t.id \notin Collected
        BY <1>1, <4>1
      <4>3. \A m \in MapIds : IF m = t.id THEN mapResults'[m] = 1 ELSE mapResults'[m] = mapResults[m]
        <5> HIDE DEF t
        <5>1. mapResults \in [MapIds -> Nat] /\ mapResults' = [mapResults EXCEPT ![t.id] = @ + 1]
          BY <3>1, <3>6 DEF TypeOK
        <5>2. QED
          BY <4>1, <4>2, <5>1, SMTT(30)
      <4>4. Collected' = Collected
        BY <2>1 DEF Collected
      <4>5. QED
        BY <1>1, <2>1, <3>4, <4>2, <4>3, <4>4, SMTT(30) DEF PCollectInv
    <3>7. QED
      BY <3>5, <3>6
  <2>4. QED
    BY <2>2, <2>3
<1>5. ASSUME NEW m \in MapIds, CollectMap(m) PROVE PCollectInv'
  <2>1. /\ InterMediates' = Append(InterMediates, m) /\ InterMediates \in Seq(MapIds)
        /\ mapResults[m] > 0 /\ mapResults' = [mapResults EXCEPT ![m] = @ - 1]
        /\ master = "up"
    BY <1>5 DEF CollectMap, TypeOK
  <2>2. mapResults[m] = 1 /\ m \notin Collected
    BY <1>1, <2>1, SMTT(30) DEF TypeOK
  <2>3. IsInjective(InterMediates') /\ Collected' = Collected \cup {m}
    BY <1>1, <2>1, <2>2, AppendNew DEF Collected
  <2>4. \A x \in MapIds : IF x = m THEN mapResults'[x] = 0 ELSE mapResults'[x] = mapResults[x]
    BY <2>1, <2>2, SMTT(30) DEF TypeOK
  <2>5. \A x \in MapIds : MapOpen(x)' => MapOpen(x)
    <3>1. CASE allTaskDone(TaskStatus)
      <4> DEFINE files == Append(InterMediates, m)
      <4>1. files \in Seq(MapIds) /\ createReduceTask(files)
        BY <1>5, <3>1 DEF CollectMap, TypeOK
      <4> HIDE DEF files
      <4>2. /\ TaskStatus' = [r \in ReduceIds |-> "Idle"]
            /\ TaskPtr' = [r \in ReduceIds |-> ReduceTask(r, files)]
        BY <2>1, <3>1, <4>1, PunctualCreate
      <4>3. QED
        BY <4>2 DEF MapOpen, ReduceTask
    <3>2. CASE ~ allTaskDone(TaskStatus)
      BY <1>5, <3>2 DEF CollectMap, MapOpen
    <3>3. QED
      BY <3>1, <3>2
  <2>6. \A x \in MapIds : x = m => ~ MapOpen(x)
    BY <1>1, <2>2, SMTT(30)
  <2>7. \A x \in MapIds : /\ mapResults'[x] <= 1
                          /\ mapResults'[x] = 1 => x \notin Collected'
                          /\ MapOpen(x)' => x \notin Collected' /\ mapResults'[x] = 0
    <3> TAKE x \in MapIds
    <3>1. CASE x = m
      BY <2>4, <2>5, <2>6, <3>1, SMTT(30)
    <3>2. CASE x # m
      BY <1>1, <2>3, <2>4, <2>5, <3>2
    <3>3. QED
      BY <3>1, <3>2
  <2>8. QED
    BY <2>3, <2>7 DEF PCollectInv
<1>6. ASSUME catchTimeOut PROVE PCollectInv'
  <2>1. PICK S \in SUBSET InProgress : Requeue(S)
    BY <1>6 DEF catchTimeOut
  <2>2. TaskStatus' = [i \in DOMAIN TaskStatus |-> IF i \in S THEN "Idle" ELSE TaskStatus[i]]
    BY <2>1, RequeueProperties
  <2>3. UNCHANGED <<TaskPtr, InterMediates, mapResults>>
    BY <1>6 DEF catchTimeOut
  <2>4. \A m \in MapIds : MapOpen(m)' => MapOpen(m)
    BY <2>2, <2>3 DEF MapOpen, InProgress
  <2>5. QED
    BY <1>2, <2>3, <2>4
<1>7. CASE UNCHANGED <<TaskStatus, TaskPtr, InterMediates, mapResults>>
  BY <1>2, <1>7 DEF MapOpen
<1>8. \/ \E w \in Workers : AssignTask(w) \/ TaskCompleted(w)
      \/ \E m \in MapIds : CollectMap(m)
      \/ catchTimeOut
      \/ UNCHANGED <<TaskStatus, TaskPtr, InterMediates, mapResults>>
  BY DEF Next, WorkerStep, CollectReduce, catchTimeOutReturns, MainPolls, MainReturns,
         WriteIntermediate, MapperDone, Reducer, Waited, WorkerReturns, CallFails, Crash,
         Restart, masterVars, vars
<1>9. QED
  BY <1>3, <1>4, <1>5, <1>6, <1>7, <1>8

LEMMA PCollectInit == Init => PCollectInv
<1> SUFFICES ASSUME Init PROVE PCollectInv
  OBVIOUS
<1>1. InterMediates = <<>> /\ mapResults = [m \in MapIds |-> 0]
  BY DEF Init
<1>2. Collected = {} /\ IsInjective(InterMediates)
  BY <1>1, SMTT(30) DEF Collected, Range, IsInjective
<1>3. QED
  BY <1>1, <1>2, SMTT(30) DEF PCollectInv

(***************************************************************************)
(* As long as every live worker meets its ten seconds, no map result is    *)
(* collected twice, so no reducer counts a file twice, however many        *)
(* workers crash and are replaced.                                         *)
(***************************************************************************)
THEOREM PunctualCollectsOnceHolds == Spec => []PunctualCollectsOnce
<1>1. PCollectInv => PunctualCollectsOnce
  BY DEF PCollectInv, PunctualCollectsOnce
<1>2. QED
  BY <1>1, PCollectInit, PCollectStep, PQueueInvariant, PTL DEF Spec

-----------------------------------------------------------------------------
(***************************************************************************)
(* OutputsGrow follows from: an output is made of a prefix of what has     *)
(* been collected, and the reduce task that may replace it lists a prefix  *)
(* at least as long.                                                       *)
(***************************************************************************)
POutInv ==
  Punctual =>
    /\ \A r \in DOMAIN out : Prefix(out[r], InterMediates)
    /\ \A i \in DOMAIN TaskStatus : TaskPtr[i].kind = "Reduce" =>
         /\ Prefix(TaskPtr[i].files, InterMediates)
         /\ i \in DOMAIN out => Prefix(out[i], TaskPtr[i].files)

LEMMA PrefixAppend ==
  ASSUME NEW s \in Seq(MapIds), NEW t \in Seq(MapIds), NEW m \in MapIds, Prefix(s, t)
  PROVE  Prefix(s, Append(t, m))
<1>1. /\ Len(s) \in Nat /\ Len(t) \in Nat /\ Len(Append(t, m)) = Len(t) + 1
      /\ \A k \in 1 .. Len(t) : Append(t, m)[k] = t[k]
  BY SMTT(30)
<1>2. Len(s) <= Len(Append(t, m)) /\ 1 .. Len(s) \subseteq 1 .. Len(t)
  BY <1>1, SMTT(30) DEF Prefix
<1>3. QED
  BY <1>1, <1>2 DEF Prefix

LEMMA PrefixRefl == ASSUME NEW s \in Seq(MapIds) PROVE Prefix(s, s)
BY SMTT(30) DEF Prefix

(* What a reducer writes is what TaskMeta lists for its task. *)
LEMMA PunctualWrites ==
  ASSUME Base, PQueueInv, Punctual, NEW w \in Workers, Reducer(w)
  PROVE  \/ out' = out
         \/ LET i == held[w].id IN
            /\ i \in DOMAIN TaskStatus /\ TaskPtr[i].kind = "Reduce"
            /\ DOMAIN out' = DOMAIN out \cup {i}
            /\ out'[i] = TaskPtr[i].files
            /\ \A r \in DOMAIN out : r # i => out'[r] = out[r]
<1>1. CASE FilesOf(held[w]) \subseteq disk
  <2>1. Busy(w) /\ held[w].kind = "Reduce"
    BY Reducer(w) DEF Busy, Reducer
  <2>2. /\ held[w].id \in DOMAIN TaskStatus
        /\ held[w] = TaskPtr[held[w].id]
    BY <2>1 DEF PQueueInv
  <2>3. out' = [r \in DOMAIN out \cup {held[w].id} |-> IF r = held[w].id THEN held[w].files
                                                        ELSE out[r]]
    BY <1>1 DEF Reducer
  <2>4. QED
    BY <2>1, <2>2, <2>3
<1>2. CASE ~ (FilesOf(held[w]) \subseteq disk)
  BY <1>2 DEF Reducer
<1>3. QED
  BY <1>1, <1>2

LEMMA POutStep == Base /\ PQueueInv /\ POutInv /\ [Next]_vars => POutInv'
<1> SUFFICES ASSUME Base, PQueueInv, POutInv, [Next]_vars, Punctual' PROVE POutInv'
  BY DEF POutInv
<1> TypeOK /\ TypeOK' /\ Shape
  BY TypeStep DEF Base
<1> Punctual
  BY SlowGrows
<1>1. /\ \A r \in DOMAIN out : Prefix(out[r], InterMediates)
      /\ \A i \in DOMAIN TaskStatus : TaskPtr[i].kind = "Reduce" =>
           /\ Prefix(TaskPtr[i].files, InterMediates)
           /\ i \in DOMAIN out => Prefix(out[i], TaskPtr[i].files)
  BY DEF POutInv
<1>2. /\ InterMediates \in Seq(MapIds)
      /\ \A i \in DOMAIN TaskStatus : TaskPtr[i].files \in Seq(MapIds)
      /\ \A r \in DOMAIN out : out[r] \in Seq(MapIds)
  BY DEF TypeOK, Task
<1>3. ASSUME UNCHANGED <<TaskPtr, InterMediates, out>>, DOMAIN TaskStatus' = DOMAIN TaskStatus
      PROVE  POutInv'
  BY <1>1, <1>3 DEF POutInv
<1>4. ASSUME NEW w \in Workers, Reducer(w) PROVE POutInv'
  <2>1. UNCHANGED <<TaskPtr, InterMediates, TaskStatus>>
    BY <1>4 DEF Reducer, masterVars
  <2>2. CASE out' = out
    BY <1>3, <2>1, <2>2
  <2>3. CASE out' # out
    <3> DEFINE i == held[w].id
    <3>1. /\ i \in DOMAIN TaskStatus /\ TaskPtr[i].kind = "Reduce"
          /\ DOMAIN out' = DOMAIN out \cup {i}
          /\ out'[i] = TaskPtr[i].files
          /\ \A r \in DOMAIN out : r # i => out'[r] = out[r]
      BY <1>4, <2>3, PunctualWrites
    <3> HIDE DEF i
    <3>2. Prefix(TaskPtr[i].files, TaskPtr[i].files)
      BY <1>2, <3>1, PrefixRefl
    <3>3. QED
      BY <1>1, <2>1, <3>1, <3>2 DEF POutInv
  <2>4. QED
    BY <2>2, <2>3
<1>5. ASSUME NEW m \in MapIds, CollectMap(m) PROVE POutInv'
  <2> DEFINE files == Append(InterMediates, m)
  <2>1. /\ InterMediates' = files /\ out' = out /\ master = "up"
        /\ files \in Seq(MapIds)
    BY <1>2, <1>5, SMTT(30) DEF CollectMap, fileVars
  <2>2. \A s \in Seq(MapIds) : Prefix(s, InterMediates) => Prefix(s, files)
    BY <1>2, PrefixAppend
  <2>3. Prefix(files, files)
    BY <2>1, PrefixRefl
  <2>4. CASE allTaskDone(TaskStatus)
    <3>1. createReduceTask(files)
      BY <1>5, <2>4 DEF CollectMap
    <3> HIDE DEF files
    <3>2. /\ TaskStatus' = [r \in ReduceIds |-> "Idle"]
          /\ TaskPtr' = [r \in ReduceIds |-> ReduceTask(r, files)]
      BY <2>1, <2>4, <3>1, PunctualCreate
    <3>3. \A i \in DOMAIN TaskStatus' : TaskPtr'[i].files = files
      BY <3>2 DEF ReduceTask
    <3>4. QED
      BY <1>1, <1>2, <2>1, <2>2, <2>3, <3>3 DEF POutInv
  <2>5. CASE ~ allTaskDone(TaskStatus)
    <3>1. UNCHANGED <<TaskStatus, TaskPtr>>
      BY <1>5, <2>5 DEF CollectMap
    <3> HIDE DEF files
    <3>2. QED
      BY <1>1, <1>2, <2>1, <2>2, <3>1 DEF POutInv
  <2>6. QED
    BY <2>4, <2>5
<1>6. ASSUME catchTimeOut PROVE POutInv'
  <2>1. PICK S \in SUBSET InProgress : Requeue(S)
    BY <1>6 DEF catchTimeOut
  <2>2. DOMAIN TaskStatus' = DOMAIN TaskStatus
    BY <2>1, RequeueProperties
  <2>3. QED
    BY <1>3, <1>6, <2>2 DEF catchTimeOut, fileVars
<1>7. ASSUME NEW w \in Workers, AssignTask(w) \/ TaskCompleted(w) PROVE POutInv'
  <2>1. /\ UNCHANGED <<TaskPtr, InterMediates, out>>
        /\ DOMAIN TaskStatus' = DOMAIN TaskStatus
    BY <1>7 DEF AssignTask, AssignQueued, AssignNothing, TaskCompleted, fileVars
  <2>2. QED
    BY <1>3, <2>1
<1>8. \/ \E w \in Workers : AssignTask(w) \/ TaskCompleted(w) \/ Reducer(w)
      \/ \E m \in MapIds : CollectMap(m)
      \/ catchTimeOut
      \/ UNCHANGED <<TaskStatus, TaskPtr, InterMediates, out>>
  BY DEF Next, WorkerStep, CollectReduce, catchTimeOutReturns, MainPolls, MainReturns,
         WriteIntermediate, MapperDone, Waited, WorkerReturns, CallFails, Crash, Restart,
         masterVars, fileVars, vars
<1>9. QED
  BY <1>3, <1>4, <1>5, <1>6, <1>7, <1>8

LEMMA POutInit == Init => POutInv
BY SMTT(30) DEF Init, POutInv, MapTask

LEMMA OutGrowsStep ==
  Base /\ PQueueInv /\ POutInv /\ [Next]_vars =>
    (Punctual => \A r \in DOMAIN out : r \in DOMAIN out' /\ Prefix(out[r], out'[r]))
<1> SUFFICES ASSUME Base, PQueueInv, POutInv, [Next]_vars, Punctual, NEW r \in DOMAIN out
             PROVE  r \in DOMAIN out' /\ Prefix(out[r], out'[r])
  OBVIOUS
<1>1. Prefix(out[r], out[r])
  BY PrefixRefl DEF Base, TypeOK
<1>2. CASE UNCHANGED out
  BY <1>1, <1>2
<1>3. ASSUME NEW w \in Workers, Reducer(w) PROVE r \in DOMAIN out' /\ Prefix(out[r], out'[r])
  BY <1>1, <1>3, PunctualWrites DEF POutInv
<1>4. QED
  BY <1>2, <1>3, OutOnlyByReducer

(***************************************************************************)
(* As long as every live worker meets its ten seconds, an output file is   *)
(* only replaced by one made of the same map results and perhaps more.     *)
(***************************************************************************)
THEOREM OutputsOnlyGrow == Spec => OutputsGrow
BY POutInit, POutStep, OutGrowsStep, PQueueInvariant, PTL DEF Spec, OutputsGrow
=============================================================================
