----------------------------- MODULE MapReduce -----------------------------
(***************************************************************************)
(* The MapReduce of MIT6.824/src/mr: one master process (master.go), its   *)
(* goroutines, the worker processes that call it over net/rpc (worker.go)  *)
(* and the directory all of them share.                                    *)
(*                                                                         *)
(* Every handler of the master runs from its first to its last statement   *)
(* with the mutex mu held, so a handler is one action.  What is NOT under  *)
(* one lock is what the model interleaves: the goroutine that              *)
(* TaskCompleted starts (processTaskResult), the catchTimeOut scan, the    *)
(* poll of main/mrmaster.go, and the workers, which may crash at any step  *)
(* or be slower than the ten seconds catchTimeOut allows them.             *)
(*                                                                         *)
(* Data is abstracted to what decides correctness.  An intermediate file   *)
(* mr-m-r is the pair <<m, r>>; the content of an output file mr-out-r is  *)
(* the sequence of the map ids whose files were read to compute it.        *)
(***************************************************************************)
EXTENDS Integers, Sequences, FiniteSets, Functions

CONSTANTS
  NFiles,      \* len(files): the number of input files, one map task each
  NReduce,     \* nReduce of MakeMaster
  Workers,     \* the worker processes
  MaxSlow,     \* bound: how often a task expires while a live worker runs it
  MaxCrashes   \* bound: how many worker processes crash

ASSUME NFilesAssumption  == NFiles \in Nat \ {0}
ASSUME NReduceAssumption == NReduce \in Nat \ {0}
ASSUME BoundsAssumption  == MaxSlow \in Nat /\ MaxCrashes \in Nat

MapIds    == 0 .. NFiles - 1
ReduceIds == 0 .. NReduce - 1
Ids       == MapIds \cup ReduceIds

\* make(chan *Task, max(nReduce, len(files)))
Cap == IF NReduce > NFiles THEN NReduce ELSE NFiles

(***************************************************************************)
(* A Task: its kind (the field TaskState), its Id and, for a reduce task,  *)
(* the map ids of the files its InterMediates field lists.                 *)
(***************************************************************************)
Task == [kind : {"Map", "Reduce", "Exit", "Wait"}, id : Ids, files : Seq(MapIds)]

MapTask(m)           == [kind |-> "Map", id |-> m, files |-> <<>>]
ReduceTask(r, files) == [kind |-> "Reduce", id |-> r, files |-> files]
Signal(kind)         == [kind |-> kind, id |-> 0, files |-> <<>>]

VARIABLES
  TaskQueue,     \* the channel of tasks to hand out
  TaskStatus,    \* TaskMeta[id].TaskStatus, for the ids TaskMeta has
  TaskPtr,       \* TaskMeta[id].TaskPtr
  Phase,         \* "Map", "Reduce", "Exit"
  InterMediates, \* the map ids collected so far; InterMediates[r] of the code
                 \* is the list of the files mr-m-r, m taken from this sequence
  mapResults,    \* goroutines processTaskResult(map task m) that have not run
  reduceResults, \* how many processTaskResult(reduce task) have not run
  master,        \* "up"; "blocked": a goroutine sends on the full TaskQueue
                 \* and keeps mu for ever; "crashed": panic; "exited": main
                 \* returned
  main,          \* the loop of mrmaster.go: "polling", then "leaving"
  reaper,        \* is the goroutine catchTimeOut still running?
  pc,            \* where each worker is
  held,          \* the reply of a worker's last AssignTask
  next,          \* how many intermediate files its mapper has renamed
  disk,          \* the intermediate files that exist
  out,           \* the output files that exist, with what they were made of
  slow, crashes  \* how often the two bounded events happened

masterVars == <<TaskQueue, TaskStatus, TaskPtr, Phase, InterMediates,
                mapResults, reduceResults>>
workerVars == <<pc, held, next>>
fileVars   == <<disk, out>>
vars == <<masterVars, master, main, reaper, workerVars, fileVars, slow, crashes>>

-----------------------------------------------------------------------------
(* MakeMaster: the map tasks are queued before the server starts. *)

Init ==
  /\ TaskQueue = [i \in 1 .. NFiles |-> MapTask(i - 1)]
  /\ TaskStatus = [m \in MapIds |-> "Idle"]
  /\ TaskPtr = [m \in MapIds |-> MapTask(m)]
  /\ Phase = "Map"
  /\ InterMediates = <<>>
  /\ mapResults = [m \in MapIds |-> 0]
  /\ reduceResults = 0
  /\ master = "up"
  /\ main = "polling"
  /\ reaper = TRUE
  /\ pc = [w \in Workers |-> "ask"]
  /\ held = [w \in Workers |-> Signal("Wait")]
  /\ next = [w \in Workers |-> 0]
  /\ disk = {}
  /\ out = [r \in {} |-> <<>>]
  /\ slow = 0
  /\ crashes = 0

-----------------------------------------------------------------------------
(* The master's handlers. *)

allTaskDone(status) == \A i \in DOMAIN status : status[i] = "Completed"

InProgress == {i \in DOMAIN TaskStatus : TaskStatus[i] = "InProgress"}

\* How many of n sends on TaskQueue go through while nobody can receive.
Sendable(n) == IF Cap - Len(TaskQueue) < n THEN Cap - Len(TaskQueue) ELSE n

\* The worker gets the reply of AssignTask.
Reply(w, t) ==
  /\ pc' = [pc EXCEPT ![w] = "run"]
  /\ held' = [held EXCEPT ![w] = t]
  /\ next' = [next EXCEPT ![w] = 0]

(***************************************************************************)
(* AssignTask.  The queue entry is taken before TaskMeta is looked up;     *)
(* TaskMeta has no entry for the id when the task is a map task left over  *)
(* in the reduce phase and there are fewer reduce tasks than files.  The   *)
(* nil dereference panics in a goroutine of net/rpc, which ends the        *)
(* process.                                                                *)
(***************************************************************************)
AssignQueued(w) ==
  LET t == Head(TaskQueue) IN
  /\ TaskQueue # <<>>
  /\ TaskQueue' = Tail(TaskQueue)
  /\ IF t.id \in DOMAIN TaskStatus
     THEN /\ TaskStatus' = [TaskStatus EXCEPT ![t.id] = "InProgress"]
          /\ Reply(w, t)
          /\ UNCHANGED master
     ELSE /\ master' = "crashed"
          /\ UNCHANGED <<TaskStatus, workerVars>>

AssignNothing(w) ==
  /\ TaskQueue = <<>>
  /\ Reply(w, Signal(IF Phase = "Exit" THEN "Exit" ELSE "Wait"))
  /\ UNCHANGED <<TaskQueue, TaskStatus, master>>

AssignTask(w) ==
  /\ master = "up"
  /\ pc[w] = "ask"
  /\ AssignQueued(w) \/ AssignNothing(w)
  /\ UNCHANGED <<TaskPtr, Phase, InterMediates, mapResults, reduceResults,
                 main, reaper, fileVars, slow, crashes>>

(***************************************************************************)
(* TaskCompleted, called by taskCompleted of a worker.  A result of        *)
(* another phase, and a second result of a completed task, are ignored.    *)
(* The goroutine it starts takes mu later, after any other handler.        *)
(***************************************************************************)
Ignored(t) == t.kind = Phase => TaskStatus[t.id] = "Completed"

TaskCompleted(w) ==
  LET t == held[w] IN
  /\ master = "up"
  /\ pc[w] = "report"
  /\ \/ /\ Ignored(t)
        /\ UNCHANGED <<TaskStatus, mapResults, reduceResults>>
     \/ /\ ~ Ignored(t)
        /\ TaskStatus' = [TaskStatus EXCEPT ![t.id] = "Completed"]
        /\ IF t.kind = "Map"
           THEN /\ mapResults' = [mapResults EXCEPT ![t.id] = @ + 1]
                /\ UNCHANGED reduceResults
           ELSE /\ reduceResults' = reduceResults + 1
                /\ UNCHANGED mapResults
  /\ pc' = [pc EXCEPT ![w] = "ask"]
  /\ held' = [held EXCEPT ![w] = Signal("Wait")]
  /\ UNCHANGED <<TaskQueue, TaskPtr, Phase, InterMediates, master, main, reaper,
                 next, fileVars, slow, crashes>>

(***************************************************************************)
(* createReduceTask: TaskMeta is emptied, then each reduce task is sent on *)
(* the queue and entered in TaskMeta.  A send on a full queue waits, with  *)
(* mu held, for a receive that needs mu: the master then stands still with *)
(* the tasks sent so far entered.                                          *)
(***************************************************************************)
createReduceTask(files) ==
  LET sent == Sendable(NReduce)
  IN  /\ TaskQueue' = TaskQueue \o [k \in 1 .. sent |-> ReduceTask(k - 1, files)]
      /\ TaskStatus' = [r \in 0 .. sent - 1 |-> "Idle"]
      /\ TaskPtr' = [r \in 0 .. sent - 1 |-> ReduceTask(r, files)]
      /\ IF sent < NReduce
         THEN master' = "blocked" /\ UNCHANGED Phase
         ELSE Phase' = "Reduce" /\ UNCHANGED master

\* Mutant: the collected list starts anew when the reduce tasks are created.
CollectMapResets(m) ==
  /\ master = "up"
  /\ mapResults[m] > 0
  /\ mapResults' = [mapResults EXCEPT ![m] = @ - 1]
  /\ IF allTaskDone(TaskStatus)
     THEN /\ createReduceTask(Append(InterMediates, m))
          /\ InterMediates' = <<>>
     ELSE /\ InterMediates' = Append(InterMediates, m)
          /\ UNCHANGED <<TaskQueue, TaskStatus, TaskPtr, Phase, master>>
  /\ UNCHANGED <<reduceResults, main, reaper, workerVars, fileVars, slow, crashes>>

\* processTaskResult of map task m.
CollectMap(m) ==
  /\ master = "up"
  /\ mapResults[m] > 0
  /\ mapResults' = [mapResults EXCEPT ![m] = @ - 1]
  /\ InterMediates' = Append(InterMediates, m)
  /\ IF allTaskDone(TaskStatus)
     THEN createReduceTask(Append(InterMediates, m))
     ELSE UNCHANGED <<TaskQueue, TaskStatus, TaskPtr, Phase, master>>
  /\ UNCHANGED <<reduceResults, main, reaper, workerVars, fileVars, slow, crashes>>

\* Mutant: the first reduce result ends the job.
CollectReduceAtOnce ==
  /\ master = "up"
  /\ reduceResults > 0
  /\ reduceResults' = reduceResults - 1
  /\ Phase' = "Exit"
  /\ UNCHANGED <<TaskQueue, TaskStatus, TaskPtr, InterMediates, mapResults,
                 master, main, reaper, workerVars, fileVars, slow, crashes>>

\* processTaskResult of a reduce task: nothing of the task itself is used.
CollectReduce ==
  /\ master = "up"
  /\ reduceResults > 0
  /\ reduceResults' = reduceResults - 1
  /\ Phase' = IF allTaskDone(TaskStatus) THEN "Exit" ELSE Phase
  /\ UNCHANGED <<TaskQueue, TaskStatus, TaskPtr, InterMediates, mapResults,
                 master, main, reaper, workerVars, fileVars, slow, crashes>>

-----------------------------------------------------------------------------
(***************************************************************************)
(* catchTimeOut, one scan.  Which of the tasks in progress have been so    *)
(* for more than ten seconds is not known: any set may have expired, and   *)
(* range over a map visits them in any order.  A task that no live worker  *)
(* runs expires without limit; one that a live worker runs, only MaxSlow   *)
(* times in a behaviour.                                                   *)
(***************************************************************************)
RunBy(w, i) ==
  /\ pc[w] \in {"run", "report"}
  /\ held[w].kind = TaskPtr[i].kind
  /\ held[w].id = i

RunByLive(S) == {i \in S : \E w \in Workers : RunBy(w, i)}

\* The orders in which range may visit the elements of S.
Orders(S) == Bijection(1 .. Cardinality(S), S)

\* Mutant: an expired task is marked Idle and not sent.
RequeueNotSent(S) ==
  /\ TaskStatus' = [i \in DOMAIN TaskStatus |-> IF i \in S THEN "Idle"
                                                ELSE TaskStatus[i]]
  /\ UNCHANGED <<TaskQueue, master>>

\* Mutant: an expired task is sent and stays InProgress.
RequeueKeepsStatus(S) ==
  LET n    == Cardinality(S)
      sent == Sendable(n)
  IN  \E order \in Orders(S) :
        /\ TaskQueue' = TaskQueue \o [k \in 1 .. sent |-> TaskPtr[order[k]]]
        /\ master' = IF sent < n THEN "blocked" ELSE master
        /\ UNCHANGED TaskStatus

\* Each expired task is sent on the queue, then marked Idle, while there is room.
Requeue(S) ==
  LET n    == Cardinality(S)
      sent == Sendable(n)
  IN  \E order \in Orders(S) :
        /\ TaskQueue' = TaskQueue \o [k \in 1 .. sent |-> TaskPtr[order[k]]]
        /\ TaskStatus' = [i \in DOMAIN TaskStatus |->
                            IF \E k \in 1 .. sent : order[k] = i
                            THEN "Idle" ELSE TaskStatus[i]]
        /\ master' = IF sent < n THEN "blocked" ELSE master

catchTimeOut ==
  /\ master = "up"
  /\ reaper
  /\ Phase # "Exit"
  /\ \E S \in SUBSET InProgress \ {{}} :
       /\ slow + Cardinality(RunByLive(S)) <= MaxSlow
       /\ slow' = slow + Cardinality(RunByLive(S))
       /\ Requeue(S)
  /\ UNCHANGED <<TaskPtr, Phase, InterMediates, mapResults, reduceResults, main, reaper, workerVars, fileVars, crashes>>

catchTimeOutReturns ==
  /\ master = "up"
  /\ reaper
  /\ Phase = "Exit"
  /\ reaper' = FALSE
  /\ UNCHANGED <<masterVars, master, main, workerVars, fileVars, slow, crashes>>

-----------------------------------------------------------------------------
(* main of mrmaster.go: poll Done every second, then wait one second more. *)

\* Mutant: Done as in the skeleton of the lab, which always answers false.
DoneNever == FALSE

Done == Phase = "Exit"

MainPolls ==
  /\ master = "up"
  /\ main = "polling"
  /\ Done
  /\ main' = "leaving"
  /\ UNCHANGED <<masterVars, master, reaper, workerVars, fileVars, slow, crashes>>

MainReturns ==
  /\ master \in {"up", "blocked"}
  /\ main = "leaving"
  /\ master' = "exited"
  /\ UNCHANGED <<masterVars, main, reaper, workerVars, fileVars, slow, crashes>>

-----------------------------------------------------------------------------
(* The workers. *)

\* Worker w moves on to where, without a task.
Goes(w, where) ==
  /\ pc' = [pc EXCEPT ![w] = where]
  /\ held' = [held EXCEPT ![w] = Signal("Wait")]
  /\ next' = [next EXCEPT ![w] = 0]

(***************************************************************************)
(* mapper: one intermediate file after the other is written to a temporary *)
(* file and renamed; then the completion is reported.                      *)
(***************************************************************************)
WriteIntermediate(w) ==
  /\ pc[w] = "run"
  /\ held[w].kind = "Map"
  /\ next[w] < NReduce
  /\ disk' = disk \cup {<<held[w].id, next[w]>>}
  /\ next' = [next EXCEPT ![w] = @ + 1]
  /\ UNCHANGED <<masterVars, master, main, reaper, pc, held, out, slow, crashes>>

MapperDone(w) ==
  /\ pc[w] = "run"
  /\ held[w].kind = "Map"
  /\ next[w] = NReduce
  /\ pc' = [pc EXCEPT ![w] = "report"]
  /\ next' = [next EXCEPT ![w] = 0]
  /\ UNCHANGED <<masterVars, master, main, reaper, held, fileVars, slow, crashes>>

(***************************************************************************)
(* reducer: every listed file is read (a missing one is fatal) and the     *)
(* result is renamed to mr-out-r, replacing what was there.  Intermediate  *)
(* files are never removed and are only replaced by equal ones, so reading *)
(* them one after the other is one step.                                   *)
(***************************************************************************)
FilesOf(t) == {<<t.files[k], t.id>> : k \in DOMAIN t.files}

Reducer(w) ==
  LET t == held[w] IN
  /\ pc[w] = "run"
  /\ t.kind = "Reduce"
  /\ IF FilesOf(t) \subseteq disk
     THEN /\ out' = [r \in DOMAIN out \cup {t.id} |-> IF r = t.id THEN t.files
                                                      ELSE out[r]]
          /\ pc' = [pc EXCEPT ![w] = "report"]
          /\ UNCHANGED <<held, next>>
     ELSE Goes(w, "dead") /\ UNCHANGED out
  /\ UNCHANGED <<masterVars, master, main, reaper, disk, slow, crashes>>

\* case Wait: the worker sleeps and asks again; case Exit: Worker returns.
Waited(w) ==
  /\ pc[w] = "run"
  /\ held[w].kind = "Wait"
  /\ Goes(w, "ask")
  /\ UNCHANGED <<masterVars, master, main, reaper, fileVars, slow, crashes>>

WorkerReturns(w) ==
  /\ pc[w] = "run"
  /\ held[w].kind = "Exit"
  /\ Goes(w, "returned")
  /\ UNCHANGED <<masterVars, master, main, reaper, fileVars, slow, crashes>>

(***************************************************************************)
(* A call when the master process is gone.  Dialling fails and the worker  *)
(* exits; an AssignTask that was under way returns the zero Task, a map    *)
(* task without input, on which mapper gives up: the worker ends too.  A   *)
(* failed TaskCompleted is not noticed: the worker asks for the next task. *)
(***************************************************************************)
CallFails(w) ==
  /\ master \in {"crashed", "exited"}
  /\ \/ pc[w] = "ask" /\ Goes(w, "dead")
     \/ pc[w] = "report" /\ Goes(w, "ask")
  /\ UNCHANGED <<masterVars, master, main, reaper, fileVars, slow, crashes>>

Crash(w) ==
  /\ pc[w] \in {"ask", "run", "report"}
  /\ crashes < MaxCrashes
  /\ crashes' = crashes + 1
  /\ Goes(w, "dead")
  /\ UNCHANGED <<masterVars, master, main, reaper, fileVars, slow>>

\* test-mr.sh starts a new worker for one that ended, while the master runs.
Restart(w) ==
  /\ pc[w] \in {"dead", "returned"}
  /\ master \in {"up", "blocked"}
  /\ Goes(w, "ask")
  /\ UNCHANGED <<masterVars, master, main, reaper, fileVars, slow, crashes>>

-----------------------------------------------------------------------------
WorkerStep(w) ==
  \/ AssignTask(w)
  \/ TaskCompleted(w)
  \/ WriteIntermediate(w)
  \/ MapperDone(w)
  \/ Reducer(w)
  \/ Waited(w)
  \/ WorkerReturns(w)
  \/ CallFails(w)

Next ==
  \/ \E w \in Workers : WorkerStep(w) \/ Crash(w) \/ Restart(w)
  \/ \E m \in MapIds : CollectMap(m)
  \/ CollectReduce
  \/ catchTimeOut
  \/ catchTimeOutReturns
  \/ MainPolls
  \/ MainReturns

Spec == Init /\ [][Next]_vars

(***************************************************************************)
(* Workers that have not crashed keep running, goroutines get scheduled,   *)
(* mu is a fair lock.  Nothing makes a worker crash, or a new one start.   *)
(***************************************************************************)
Fairness ==
  /\ \A w \in Workers : WF_vars(WorkerStep(w))
  /\ \A m \in MapIds : WF_vars(CollectMap(m))
  /\ WF_vars(CollectReduce)
  /\ WF_vars(catchTimeOut)
  /\ WF_vars(MainPolls)
  /\ WF_vars(MainReturns)

FairSpec == Spec /\ Fairness

-----------------------------------------------------------------------------
(* Properties. *)

\* The type invariant.
TypeOK ==
  /\ TaskQueue \in Seq(Task)
  /\ DOMAIN TaskStatus \subseteq Ids
  /\ TaskStatus \in [DOMAIN TaskStatus -> {"Idle", "InProgress", "Completed"}]
  /\ TaskPtr \in [DOMAIN TaskStatus -> Task]
  /\ Phase \in {"Map", "Reduce", "Exit"}
  /\ InterMediates \in Seq(MapIds)
  /\ mapResults \in [MapIds -> Nat]
  /\ reduceResults \in Nat
  /\ master \in {"up", "blocked", "crashed", "exited"}
  /\ main \in {"polling", "leaving"}
  /\ reaper \in BOOLEAN
  /\ pc \in [Workers -> {"ask", "run", "report", "returned", "dead"}]
  /\ held \in [Workers -> Task]
  /\ next \in [Workers -> 0 .. NReduce]
  /\ disk \subseteq MapIds \X ReduceIds
  /\ DOMAIN out \subseteq ReduceIds
  /\ out \in [DOMAIN out -> Seq(MapIds)]
  /\ slow \in 0 .. MaxSlow
  /\ crashes \in 0 .. MaxCrashes

(***************************************************************************)
(* The scan of catchTimeOut never waits on a full TaskQueue while it holds *)
(* mu: there is always room for every task that is in progress, whatever   *)
(* stale entries the queue holds (master.go:133).                          *)
(***************************************************************************)
QueueHasRoom == Len(TaskQueue) + Cardinality(InProgress) <= Cap

(***************************************************************************)
(* No task is forgotten: a task that is Idle has its own entry in the      *)
(* queue, so that AssignTask will hand it out, although late results,      *)
(* time-outs and entries of the other phase change its status.             *)
(***************************************************************************)
NoTaskForgotten ==
  \A i \in DOMAIN TaskStatus :
    TaskStatus[i] = "Idle" => \E k \in DOMAIN TaskQueue : TaskQueue[k] = TaskPtr[i]

(***************************************************************************)
(* Nobody believes that the job is finished before every output file       *)
(* mr-out-r exists: not the master (phase Exit, Done), not a worker that   *)
(* returned.                                                               *)
(***************************************************************************)
FinishedMeansOutputs ==
  (Phase = "Exit" \/ main = "leaving" \/ \E w \in Workers : pc[w] = "returned")
    => DOMAIN out = ReduceIds

(***************************************************************************)
(* A reducer never stops at "Failed to open file" (worker.go:202): all the *)
(* intermediate files of a reduce task exist before the task is created,   *)
(* wherever the task is (queue, TaskMeta, worker).                         *)
(***************************************************************************)
ReduceInputsExist ==
  /\ \A k \in DOMAIN TaskQueue : FilesOf(TaskQueue[k]) \subseteq disk
  /\ \A i \in DOMAIN TaskPtr : FilesOf(TaskPtr[i]) \subseteq disk
  /\ \A w \in Workers : FilesOf(held[w]) \subseteq disk

(***************************************************************************)
(* The master drops no map result: unless map task m is still to be done,  *)
(* its result is in InterMediates or in a goroutine that will put it       *)
(* there, also after TaskMeta was emptied for the reduce tasks.            *)
(***************************************************************************)
Collected == Range(InterMediates)

MapOpen(m) == /\ m \in DOMAIN TaskStatus
              /\ TaskPtr[m].kind = "Map"
              /\ TaskStatus[m] # "Completed"

(* processTaskResult keeps the result of every map task. *)
ResultsKept ==
  \A m \in MapIds : MapOpen(m) \/ m \in Collected \/ mapResults[m] > 0

(***************************************************************************)
(* As long as no task expired under a live worker, whatever crashed: the   *)
(* queue has exactly one entry for each Idle task and no other; hence the  *)
(* master never waits on a full queue and never meets an entry without     *)
(* TaskMeta, and no map result is collected twice.                         *)
(***************************************************************************)
Punctual == slow = 0

(* AssignTask and catchTimeOut keep the queue exact. *)
PunctualQueue ==
  Punctual =>
    /\ master \notin {"blocked", "crashed"}
    /\ \A k \in DOMAIN TaskQueue :
         /\ TaskQueue[k].id \in DOMAIN TaskStatus
         /\ TaskQueue[k] = TaskPtr[TaskQueue[k].id]
         /\ TaskStatus[TaskQueue[k].id] = "Idle"
    /\ IsInjective(TaskQueue)

(* ... and processTaskResult collects no map result twice. *)
PunctualCollectsOnce == Punctual => IsInjective(InterMediates)

(***************************************************************************)
(* As long as no task expired under a live worker, an output file is only  *)
(* ever replaced by one made of the same map results and perhaps more,     *)
(* although reduce tasks are created anew when a map result comes late.    *)
(***************************************************************************)
Prefix(s, t) == Len(s) <= Len(t) /\ \A k \in 1 .. Len(s) : s[k] = t[k]

(* reducer replaces an output only by one that extends it. *)
OutputsGrow ==
  [][Punctual => \A r \in DOMAIN out : r \in DOMAIN out' /\ Prefix(out[r], out'[r])]_vars

(***************************************************************************)
(* The job ends: with a worker that does not crash, the master gets to the *)
(* phase Exit, unless it stands still or panics for a stale queue entry.   *)
(***************************************************************************)
JobEnds == <>(Phase = "Exit" \/ master \in {"blocked", "crashed"})

(***************************************************************************)
(* Every process ends: master and workers (test-mr.sh waits for them all). *)
(***************************************************************************)
AllEnd == <>(/\ master \in {"exited", "crashed"}
             /\ \A w \in Workers : pc[w] \in {"returned", "dead"})

(***************************************************************************)
(* If the phase Exit is final and the master does not stand still, every   *)
(* process ends, although stale queue entries are still handed out in that *)
(* phase.  The second condition is needed from two reduce tasks on: a late *)
(* map result makes createReduceTask (master.go:157) run again in Exit and *)
(* wait on a full queue, with mu held, before it sets the phase back.      *)
(***************************************************************************)
FinalExitEndsAll == <>[](Phase = "Exit" /\ master # "blocked") => AllEnd

-----------------------------------------------------------------------------
(* What the comments and tests of the repository say, and the code does not do. *)

(***************************************************************************)
(* "Start Reduce phase after all Map finish" (master.go:211): when the job *)
(* is done, every output is made of the results of every map task, as the  *)
(* comparison with mrsequential in test-mr.sh demands.                     *)
(***************************************************************************)
OutputsComplete ==
  main = "leaving" =>
    \A r \in DOMAIN out : \A m \in MapIds : \E k \in DOMAIN out[r] : out[r][k] = m

(***************************************************************************)
(* InterMediates lists each intermediate file once (master.go:38-40); a    *)
(* file listed twice is counted twice by the reducer.                      *)
(***************************************************************************)
CollectedOnce == IsInjective(InterMediates)

(***************************************************************************)
(* main "calls Done() periodically to find out if the entire job has       *)
(* finished" (master.go:89): Done gets mu, nobody keeps it for ever.       *)
(***************************************************************************)
DoneAnswers == master # "blocked"

(***************************************************************************)
(* AssignTask assigns a task if there is one in the TaskQueue              *)
(* (master.go:174): no entry makes the master panic.                       *)
(***************************************************************************)
NoPanic == master # "crashed"

(***************************************************************************)
(* Workers exit when the job is completely finished, and not before        *)
(* (test-mr.sh:55): no task is left when a worker has returned.            *)
(***************************************************************************)
ReturnedMeansFinished ==
  (\E w \in Workers : pc[w] = "returned") => Phase = "Exit"
=============================================================================
