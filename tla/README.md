# Verification of Let-s-Go

TLA+ modules, TLC configurations and TLAPS proofs for the programs of this
repository. The source is the reference: every definition that models code is
listed in `PROJECT.json` under `map` with the lines it stands for, every part of
the repository under `components`, and what is hard to test in it under
`hazards`. Paths below are relative to `src/`.

## The system

| Part | Source | What makes it hard | Modules | Status |
|---|---|---|---|---|
| MapReduce | `MIT6.824/src/mr`, `main/mrmaster.go`, `main/mrworker.go` | goroutines in any order, expired tasks whose worker lives, crashes, a bounded channel used with a mutex held | `MapReduce`; proofs `MapReduceProofs` | checked, proved |
| its data | `mr/worker.go`, `mrapps/{wc,indexer}.go`, `main/mrsequential.go` | order of results, unstable sort, unordered maps | `MRData` | checked |
| GeeRPC | `Geektutu/GeeRPC` | concurrent requests on one connection, time-outs racing answers, connection loss | `GeeCodec`, `GeeClient`, `GeeServer`, `GeeRPC`; proofs `GeeRPCProofs`, `GeeRPCReplies` | checked, proved |
| Gee | `Geektutu/Gee/gee` | overlapping literal and wildcard parts, nested groups, re-entrant `Next`, panics | `GeeRouter`, `GeeContext`, `GeeEngine`; proofs `GeeContextProofs` | checked, context proved |
| labrpc | `MIT6.824/src/labrpc` | lost and delayed messages, servers deleted while a request runs | `LabRPC`, `LabCalls`; abstract `LossyCalls`; proofs `LabCallsProofs` | checked, refinement, proved |
| harnesses | `raft/config.go`, `raft/persister.go`, `kvraft/config.go`, `shardkv/config.go` | a crash while the old instance still answers and saves, partitions | `LabPeers`, `RaftHarness`, `KVHarness`, `ShardHarness`; abstract `Topology`; proofs `RaftHarnessProofs` | checked, refinement, raft proved |
| judging a Raft | `raft/config.go` | servers are read one by one while they run on | `RaftAgreement`; proofs `RaftAgreementProofs` | checked, proved |
| porcupine | `porcupine`, `models` | back-tracking search, goroutines, kill flag, timer | `Porcupine` | checked |
| clerks | `shardkv/client.go`, `shardmaster/client.go` | stale configuration, retries of what was already done | `ShardClerks`; proofs `ShardClerksProofs` | checked, proved |
| labgob | `labgob` | recursive types, a table shared by goroutines | `LabGob` | checked |

MapReduce uses `net/rpc` over a Unix socket, GeeRPC and Gee use `net`; they share
no code. `raft`, `kvraft`, `shardmaster` and `shardkv` run on labrpc with messages
encoded by labgob, and their tests judge histories with porcupine; the servers of
these four packages are skeletons without a body. So the harness modules extend
`LabRPC` (through `LabPeers`) and treat a server as external, `ShardClerks` makes
the calls of `LossyCalls`, and `GeeEngine` composes router and context.

## Runs

A module `MC…` gives the constants their values; where it has several instances,
the initial state chooses one, so that one run covers them all.

| Run | Module | Distinct states | Question |
|---|---|---|---|
| `mr_job` | `MCMapReduce` | 463 thousand | is a MapReduce job right and does it end, with a crash and an expiry |
| `mr_lost_result` | `MCMapReduce` | violation | a map result can be left out (Disagreements) |
| `data` | `MCData` | 1.8 million | does a job compute what `mrsequential` does; what labgob's checks report |
| `rpc_safety` | `GeeRPC` | 3.5 million | outcomes, responses and frames of concurrent calls |
| `rpc_live` | `GeeRPC` | 65 thousand | does everybody stop waiting |
| `gee` | `MCGee` | 370 thousand | routing, middlewares, handler chains |
| `lab` | `LabCalls` | 264 thousand | does labrpc implement `LossyCalls` |
| `harness` | `MCHarness` | 1.0 million | do restarts keep what was confirmed; are partitions what they say |
| `agree` | `MCRaftAgreement` | 4.6 million | does the harness accuse the guilty only, and always |
| `porcupine` | `MCPorcupine` | 777 thousand | is the verdict linearizability; does the check end |
| `clerk_safety`, `clerk_live` | `MCShardClerks` | 3.1 million, 607 thousand | what an operation of a clerk means when it returns, and that it does |

`CHECK_DEADLOCK FALSE` throughout: all of these programs really stop, and the
bounds stop the others. The modules state further properties that no
configuration lists. Proved for all constants are the type invariants of `MapReduce`,
`GeeRPC`, `LabCalls`, `RaftHarness`, `RaftAgreement` and `ShardClerks`,
`NoTaskForgotten`, `ReduceInputsExist`, `PunctualCollectsOnce`, `DoneOnce`, `FramesWhole`,
`FailedDialCloses`, `LinksAgree`, `SubmitsOnce`, `ConfigForward`, `NoneAfterFail` and
`EachLogged`; the others are the remaining type invariants,
`LeaderInMinority`, `OwnEndsAgree`, `ParamsInRange`, `HandlerFound`,
`ListIntact`, `CorrectIsCorrect`, `RecursionBounded`, `WarnsOnce`.
Added to the configuration of their module's run they hold on the same instance.
`harness.cfg`, `gee.cfg` and `data.cfg` reach them through the modules of those runs.

## MapReduce

`MapReduce` is the master with its goroutines, the workers, and their directory.

| Model | Code |
|---|---|
| `TaskQueue`, `TaskStatus`, `TaskPtr`, `Phase`, `InterMediates` | the fields of `Master`; `TaskMeta` is split into status and task |
| `mapResults`, `reduceResults` | the goroutines `processTaskResult` that have not run yet |
| `master` | "blocked": waits on the full channel with `mu` held; "crashed": panic |
| `main`, `reaper` | the loop of `mrmaster.go`, the goroutine `catchTimeOut` |
| `pc`, `held`, `next` | a worker: where it is, its task, the next file to write |
| `disk`, `out` | intermediate files; output files with the map ids they are made of |
| `slow`, `crashes` | counters of the bounds below |

Every handler of the master holds `mu` from its first to its last statement and
is one action (`AssignTask`, `TaskCompleted`, `CollectMap` and `CollectReduce`
for `processTaskResult`, `catchTimeOut`, `MainPolls` for `Done`). Interleaved are
the goroutines, the scan, the poll and the workers; a worker writes its files
one at a time, and may crash at each step. Go's map order in `catchTimeOut` is a
choice. File contents are abstracted to the map ids they come from.

`mr_job`: the queue has room for what expires (`QueueHasRoom`), a finished job has
its outputs (`FinishedMeansOutputs`), results are kept (`ResultsKept`), outputs only
grow and queue entries are current while workers are punctual (`OutputsGrow`,
`PunctualQueue`); the job reaches `Exit` unless the master stands still or panics
(`JobEnds`), and every process ends if `Exit` is final and the master does not
stand still (`FinalExitEndsAll`).

The last condition is needed. Without it the claim is false from two reduce tasks
on: in phase `Exit` a late map goroutine runs `createReduceTask` again, which sends
with `mu` held before it sets the phase (`master.go:166`, `:213`); a stale entry
fills the channel, the master stands still with the phase still `Exit`, and no
process ends. An earlier version of this project stated it without the condition
and checked it with one reduce task only, where the case cannot happen.

Bounds: two files, two reduce tasks and two workers are the least with which
results arrive out of order, a task is run by two workers, and an old queue entry
meets a new task; `MaxSlow = 1` counts tasks that expire under a live worker,
`MaxCrashes = 1` the crashes; restarts are not bounded.

Fairness: weak, for each worker that has not crashed, each goroutine, the scan
and `main`: the Go scheduler and a fair mutex give that. Nothing forces a crash,
a restart or an expiry under a live worker.

### What is proved of MapReduce

For every number of files, reduce tasks, workers, crashes and expiries, from the
assumptions `NFiles, NReduce \in Nat \ {0}` and `MaxSlow, MaxCrashes \in Nat` only:

* `Base` (types, `QueueHasRoom`, and `Shape`: what kind of
  task may be where) is inductive, and needed as a whole: how much room a step
  leaves depends on which tasks it may meet. It gives `TypeCorrect` and
  `RoomForExpired`. `NoneForgotten` and `NoResultDropped` are inductive on top of it.
  `InputsExist` needs `FilesInv`, which follows a map result from the renames of
  the mapper over the report and the goroutine to `InterMediates`; `OutputsExist`
  needs `OutputsInv`, which does the same for outputs, up to the `Exit` a worker holds.
* The last part of `MapReduceProofs`: what holds as long as no task expires under a live worker.
  `PunctualQueueHolds` rests on `PQueueInv` (no two live workers hold one task,
  and `TaskMeta` has it in progress), `PunctualCollectsOnceHolds` on `PCollectInv` (a
  result is in one place at a time), `OutputsOnlyGrow` on `POutInv` (outputs are
  prefixes of what was collected).

### The data of a job

`MRData` runs the map and reduce functions on the data: what the files hold and
what `ihash` gives is arbitrary, map tasks finish and are collected in any order,
`sort.Sort` and Go maps give any order they may. `SameAsSequential`: the lines of all
outputs are those of `mrsequential`, as `test-mr.sh` compares them. Bounds: two files
of up to two of three words, two reduce tasks, both applications; enough for a
word in two files, two words in one bucket, and an empty bucket. Every task is run
once here; repeated and lost ones are the subject of `MapReduce`.

## GeeRPC

`GeeCodec` is one connection with a `GobCodec` at each end, `GeeClient` and
`GeeServer` are the two programs, `GeeRPC` composes them and states the properties.

| Model | Code |
|---|---|
| `open`, `lost`, `stream`, `broken` | ends that are closed; a failed network; parts (header or body) under way; the sticky error of `bufio.Writer` |
| `dialer`, `maker`, `made` | `dialTimeout`, its goroutine, and whether `NewClient` gave a client |
| `cpc`, `callSeq`, `dones`, `outcome`, `returned` | each goroutine in `Call`, its `Call` object, what it returned |
| `sending`, `header`, `seq`, `pending`, `closing`, `rcv` | the `Client` and its receive goroutine |
| `at`, `answer`, `asked`, `sendLock` | `serveCodec`, and two goroutines per request: `handleRequest` and the one that runs the method |
| `garbled`, `limited` | the option decoder has read ahead; `HandleTimeout` is set |

A call has a kind, what is special about it: the method fails or is unknown,
arguments or reply cannot be encoded or decoded. A section under `mu` is one
step; taking `sending`, `registerCall` and filling the header are one step
because the header is only touched under `sending`. Header and body are written
in two steps, so that a missing lock would show. An error of the connection may
show in `Encode` (`Write` fails and closes) or only in `Flush` (ignored).
An empty error of a response header is "none" in the model. `Seqs`, the numbers
`seq` goes through, bounds how many calls are registered.
`shutdown` is left out: only `terminateCalls` sets it and nothing calls that.

`rpc_safety`: a call returns its own outcome, `pending` holds exactly the calls an
answer may still come for, a request gets one response, and accepted requests are
answered before the connection is closed. `rpc_live`: calls with a deadline return,
all return on a connection that works, the server leaves one that does not, no
receive goroutine is left.

Bounds: two calls are enough for two writers on either side, for a late answer
beside a live call, and for a reader that ends with calls pending; each call is
made once. `rpc_safety` lets calls begin when the option has been read, as the
sleep of `main/main.go` arranges; `rpc_live` drops that (fault "early").

Fairness: weak, for every goroutine. Methods are assumed to return, deadlines to
pass and a lock to be given to who waits for it; the network need not fail.
With two calls a mutex released by one can only go to the other.

### What is proved of GeeRPC

For every set of calls, with and without deadline, of every kind, and all faults;
assumed are the sets the constants are subsets of, and that the server has as many
request slots as the client numbers. One inductive invariant, in layers:

* `GeeRPCProofs`: types; `ClientInv`, which ties each goroutine in `Call` to its number,
  its entry in `pending` and whether it is done; `WireInv`, the requests under way
  (headers and bodies alternate, numbers grow, the server is past those it has
  read); `ServerInv`, where the two goroutines of a request are, who holds
  `sending`, and how many responses that makes.
* `GeeRPCReplies`: what a response says is true of the request whose number it has
  (`AskedInv`, `AnswerInv` and what follows a response through the stream to
  `receive`). The theorems follow: `OutcomesAreOwn`, `PendingAlwaysExact`,
  `AtMostOneResponse`, `AllAnsweredBeforeClose`, `DoneAtMostOnce`, `FramesAlwaysWhole`,
  `FailedDialAlwaysCloses`.

The layers need each other: that a response answers its own call needs that a number is
used once, which is the client's, and that a request is answered once, which is
the server's.

## Gee

`GeeRouter` has the trie (`insert`, `search`), the route table, the groups and the
middlewares `ServeHTTP` selects; a pattern is the sequence of its items between
slashes. `GeeContext` has one request: the stack of `Next` loops and handlers, a
handler being the list of the calls it makes. `GeeEngine` configures and serves.

`gee`: in a tidy table (one wildcard per position, registered after the literals
there) a path is routed to the best pattern it matches (`RoutedToBest`, against a
definition of matching). In any other table a path that matches a pattern without `*`
is still routed somewhere, unless the empty pattern was added (`NeverLost`, a part of
`RoutedToBest`); that it is a pattern it matches is not so, see Disagreements. A request
for a route of a group passes the middlewares of that group and of all the groups
it is nested in, the outermost first (`GroupMiddlewareRuns`, for prefixes without
wildcards). It may pass others between them, of groups whose prefix is a prefix of the
path as text (`OnlyOwnMiddleware`, see Disagreements). Handlers run once and in order though `Next` is re-entrant (`InOrderOnce`); `Recovery`
contains the panics behind it (`PanicContained`); a request ends (`RequestEnds`,
under weak fairness of the one goroutine that serves it).

Bounds: all tables of up to three of 17 patterns, the empty one included, with all
paths of up to three items over two literals; the group of the engine and
three more, beside or inside each other, under names of which one is a textual extension
of the other, with two calls of `Use`; all chains of up to three middlewares before every kind of handler. Three
patterns are the least in which a third disturbs two that overlap.

### What is proved of Gee

`GeeContextProofs`, for chains of every length:

* Handlers that make any calls (`AnySpec`): `AlwaysInOrderOnce`, `NeverAfterFail`. The
  invariant says that loops and handlers alternate on the stack, that no handler
  beyond `index` was called and, while nothing went wrong, all up to it were.
* Chains of middlewares of the package and of users, ending in the handler of a route
  (`GeeSpec`): `AlwaysPanicContained`, `AlwaysEachLogged`. The invariant adds the order of
  the handlers on the stack; that a `Next` that has returned left nothing to call
  (`NextDone`), so that a `Recovery` that returns has no handler behind it to guard
  any more; that a `Recovery` is on the stack below every later handler (`Guarded`);
  and what has been sent before, during and after a panic.

The router uses RECURSIVE operators, so its properties, and the engine that composes
both, are model-checked.

## labrpc and the harnesses

`LabRPC` is the network: its tables, `Call`, one `processReq` and one handler
goroutine per request; a section under `rn.mu` is one step, and delays are the
freedom to step later. `LabCalls` puts an administrator beside it who changes any
table at any time. `LossyCalls` is what labrpc promises: one answer; TRUE means
executed; FALSE means nothing, the request may even run later; at most one
execution; an answer unless the handler hangs or `log.Fatalf` ends the process. That happens for an
unknown method and for a reply that cannot be decoded (`decodeReplyFails`); the harness
modules leave both out, as the calls of the labs name methods that exist and pass
replies of their types.

`lab`: `LabCalls` implements `LossyCalls`, fairness included; no positive answer from
a server that was gone when the handler ran (`NoStalePositive`); no handler
goroutine is left (`HandlersEnd`). Bounds: two calls, one end, one server name with
two objects, seven changes: what it takes to make, connect and enable an end, add
a server, and then replace, cut or degrade it mid-call. Fairness: weak for each
goroutine and for handlers that do not hang.

`LabPeers` adds the `Persister` and servers: instance k of server i is `<<i, k>>`, and
an old instance goes on answering and saving, as `Kill` only sets a flag. A server is
external: a handler saves its request before it returns. `RaftHarness`, `KVHarness` and
`ShardHarness` are `crash1`, `start1`, `ShutdownServer`, `StartServer` in the steps
between which labrpc and old instances run, and the functions on connectivity. A
loop of `Enable` calls in a harness function is one step. In kvraft and shardkv one test
goroutine shuts down, starts and partitions servers; others make and delete clerks
whenever `cfg.mu` is free (`MuFree`), also while `ShutdownServer` has released it for
`Kill` and after `StartServer` has.

`harness`: what a server confirmed is in the Persister its successor gets
(`AckedSurvives`) and the successor knows it (`AckedKnown`), at every moment of a
shutdown; in raft an old instance cannot send (`OldInstanceSilent`); the kvraft
harness implements `Topology`, in which a shut down server is isolated and a
partition leaves the links within its two parts. Instances: raft with two peers,
three starts and three cuts; kvraft with two calls to one server over a restart, and
three servers over two cuts; shardkv with a master and one group, and with two groups.

`RaftAgreement` is how `raft/config.go` judges a Raft: the readers of `applyCh`,
`checkOneLeader`, `nCommitted`, `wait` and `one`, reading one server at a time. Raft is
external: correct, or one that applies anything. A test crashes, starts and connects
servers between its calls; a server that was started takes part only after `connect`.
`Start` may give any index, and `one` may run out of time at any turn. `agree`: a correct Raft is not
accused (`NoFalseAlarm`), what `one` and `wait` return is committed and on as many
servers as asked (`AgreementReal`), two commands at one index are noticed whatever
Raft does (`MismatchCaught`). Bounds: two servers, two instances each, two indexes
and one leader; two servers, one index and two terms, so that a command is submitted
again at another leader; three servers and terms for elections.

### What is proved of labrpc and the harness of raft

* `LabCallsProofs`, for all calls, ends, servers, objects and numbers of changes:
  `StaleNeverPositive`, and `RefinesLossyCalls`: every step is a step of `LossyCalls` or
  none (`Lossy!Safety`; its fairness is left to the run). The invariant says
  how far a call, its handler goroutine and the execution have come together, and that
  an object that was removed is gone for good, as objects are added once.
* `RaftHarnessProofs`, for all peers, instances, calls and changes of links, if instances
  and ends are named as the harness names them (`Naming`, which `MCHarness` assumes of its
  instance): `OldAlwaysSilent`, `LinksAlwaysAgree`, and, if servers take no snapshots
  (`~ Snapshots`; with them it is false, see Disagreements), `AckedAlwaysSurvives` and
  `AckedAlwaysKnown`. The invariant says what the harness holds for a peer at
  each step of `crash1` and `start1` and which ends are enabled; `AckInv` adds that the
  saved Persister has no more than the running instance knows and no less than was
  confirmed.
* `RaftAgreementProofs`, for all numbers of servers, instances, indexes, terms and calls of
  the test: `NeverFalseAlarm`, `MismatchAlwaysCaught`, `AlwaysSubmitsOnce`, and
  `AgreementAlwaysReal` for a correct Raft (of one that applies anything it says nothing; in
  the run such a Raft meets no test). The invariant ties `cfg.logs` to what is
  committed and what `nCommitted` has counted so far to the servers that have it, which
  keep it; what checkOneLeader has seen lead, led.

## porcupine, clerks, labgob

`Porcupine` runs `checkSingle` one turn of its loop a step, on its linked list, cache
and bitset (words of two bits, so that three operations need two words), and
`checkParallel` with goroutines, channel, kill flag and timer. `porcupine`: the search
is right about its partition (`SearchCorrect`), partial results are longest
(`LongestTrue`), the verdict is linearizability of the whole history and Unknown
only follows a time-out (`VerdictTrue`), what was read of `longest` stays (`InfoSettled`),
everybody ends (`AllEnd`, weak fairness of each goroutine). Bounds: all histories of up
to three operations of seven kinds on one key, as operations and as events; of three
on two keys with and without timer. Times of a history are distinct.

`ShardClerks` has the retry loops with the cached configuration, over calls lost before
or after execution or executed late, beside a tester that joins, leaves and moves.
Servers are external: replicated, one leads, a group serves its shards.
`clerk_safety`: an operation returns only after it was executed
(`ExecutedBeforeReturn`), `Get` returns a value of its own time (`GetIsCurrent`).
`clerk_live`: with a last configuration that owns the key, operations return
(`OperationReturns`), under weak fairness of the clerks; failures and changes of
leader are bounded, as no retry loop ends without that. Bounds: two clerks on one
key (a symmetry set in `clerk_safety`), two groups of two servers, three
configurations, one or two lost calls, one change of leader.

`ShardClerksProofs` proves `ExecutedAlwaysBeforeReturn`, `GetAlwaysCurrent` and
`ConfigsOnlyForward` for all clerks, keys, groups, servers, configurations and failures,
assuming that every key has a shard and the tester's clerk is not one of the others.
The invariant says what an answer that is still under way means: the operation
was executed, the value is one since the call, the configuration is not older.

`LabGob` has `checkType` and `checkDefault` by two goroutines that share `checked` and
`errorCount`. `data` checks that each lower-case field is reported once (`ReportedOnce`),
on a type that contains itself through a pointer and a map. The process may also end
there: `checkDefault1` reads a leaf below a lower-case field with `value.Interface()`,
which panics (`Panics`, `labgob.go:159`).

## The proofs

A proof module extends the module it is about and states the invariant, one lemma per
action or group of actions that it is preserved, and the theorems; the theorems to
know are listed in `PROJECT.json` under `theorems`. Zenon is the default prover of each
module (`USE ZenonT(30)`), and a leaf that needs arithmetic or sequences cites `SMTT(30)`.
`tlapm` checks each module in minutes. Nothing is assumed but the named ASSUMEs, which TLC
evaluates on the instances, and the hypotheses stated in a theorem.

What stays with TLC, and why:

* liveness, and the fairness in `ImplementsLossyCalls`: the prover has no rules for
  fairness and `ENABLED`;
* `GeeRouter`, `LabGob`, `Porcupine` and, through the router, `GeeEngine`: they have
  RECURSIVE operators, and what these compute for every input needs induction over data;
* `MRData`: folds over words and files, for the same reason;
* `KVHarness`, `ShardHarness` and the refinement of `Topology`: not attempted. They are
  built from the same network and Persister as `RaftHarness`, whose proofs do not carry
  over as they stand, since these harnesses link servers differently.

## Disagreements

What comments, docs or tests of the repository say and the code does not do. The
first is the run `mr_lost_result`. The others are properties stated in the modules;
TLC violates each with the change of configuration given.

| Property | The code | The repository says | To see it |
|---|---|---|---|
| `OutputsComplete` | the goroutine of the last map task may run before that of an earlier one, and the job ends without the earlier result | "Start Reduce phase after all Map finish." (`master.go:211`) | `mr_lost_result` |
| `CollectedOnce` | a stale queue entry sets a completed task back to `InProgress`; its files are collected twice | one file per map task (`master.go:38`) | `MCMapReduce`, `Spec`, 1 file, 1 reduce task, 2 workers, `MaxSlow` 1, `MaxCrashes` 0 |
| `DoneAnswers` | a stale entry fills the channel, `createReduceTask` waits with `mu` held, in the phase `Map` or again in `Exit` | `Done()` is called periodically (`master.go:89`) | the same |
| `NoPanic` | a stale map entry has no `TaskMeta` in the reduce phase | `AssignTask` assigns what is queued (`master.go:174`) | the same with 2 files |
| `ReturnedMeansFinished` | a late map result sets the phase back from `Exit` to `Reduce` | workers exit when the job is finished "and not before" (`test-mr.sh:55`) | 2 files, 1 reduce task, 2 workers, `MaxSlow` 0 |
| `CallsReturn` | a call of an unknown method never returns | "waits for it to complete, and returns its error status" (`client.go:179`) | `GeeRPC`, `FairSpec`, one call without deadline, `Kinds = {"unknown"}`, no faults |
| `CallsReturn` | a call sent right behind the option never returns | one stream of option, headers and bodies (`server.go:23`) | `Kinds = {"ok"}`, `Faults = {"early"}` |
| `AvailableWorks` | after the connection is lost `IsAvailable` is true | "return true if the client does work" (`client.go:67`) | `Spec`, `Timed = {}`, `Kinds = {"ok"}`, `Faults = {"lose"}` |
| `RouteMatches` | `insert` puts a later pattern below a wildcard that is not its own; paths are routed to a pattern they do not match | "Route to match" (`trie.go:6`) | `gee.cfg` |
| `OnlyOwnMiddleware` | `ServeHTTP` selects groups by `strings.HasPrefix` of the path: middlewares of `/a` run for `/ab` | `onlyForV2`, used by the group `/v2`, logs "for group v2" (`main.go:30`) | `gee.cfg` |
| `Context!StatusIsSent` | `HTML` sends the status before the template fails; `Logger` reports 500 for a response that was 200 | "Status set the status code in the response header." (`context.go:53`) | `gee.cfg` |
| `CheckReturns` | without operations and timer `checkParallel` waits for a result nobody sends | an empty history is linearizable by `model.go:28` | `porcupine.cfg` |
| `Gob!WarnsOfNonDefault` | complaints about lower-case fields raise the counter that mutes the warning | "warn if the value contains non-default values" (`labgob.go:116`) | `data.cfg` |
| `Raft!AckedSurvives` | `crash1` copies only the Raft state into the second new Persister, a snapshot is lost | "so that we always pass Make() the last persisted state" (`raft/config.go:108`) | `harness.cfg`, `Snapshots <- TRUE` in `Raft` |
| `KVParts!LeaderInMinority` | with an even number of servers a slot of the minority stays 0, server 0 is in both parts | "put current leader in minority" (`kvraft/config.go:338`) | `harness.cfg`, `Servers <- 0..3` in `KVParts` |
| `ShardGroups!OldInstanceSilent` | ends made by `make_end` are in no table and stay enabled | "prevent this server from sending" (`shardkv/config.go:159`) | `harness.cfg` |

A name with `!` is added as a definition to the module of the run (in `MCHarness` and
`MCData` under the condition on `size` or `part` that the others have).

## Not modelled

* `raft/raft.go`, the servers of `kvraft`, `shardmaster` and `shardkv`, and the clerk
  of `kvraft` are skeletons. That servers recognise a retry is left to them, so
  nothing is said about operations executed twice.
* `shardmaster/config.go` is a copy of kvraft's harness; `KVHarness` stands for it.
  In shardkv, `mendnames` with another number of servers than masters is left out.
* Programs `main/{pbd,pbc,viewd,lockd,lockc,diskvd}.go` start packages that are not
  here; `porcupine/visualization.go` only produces a page; the applications that time
  or crash a job are the crashes and slow workers of `MapReduce`.
* labrpc: the durations `longDelays` and `longReordering` choose, counters, reflection.
  Harnesses: time limits, statistics, `checkTerms`, `checkNoLeader`, `checklogs`.
* GeeRPC: several connections (they share only the service map), `Register` and its
  reflection, `Go` with a channel of the caller, and the memory behind `Reply`, into
  which `receive` may still write after a deadline.
* Gee: templates, the file system, bodies and headers of responses.
* labgob: the encoding itself, which is `encoding/gob`.

## Next

1. Proofs for `KVHarness`: what was confirmed survives, and the refinement of `Topology`.
2. `MRJob`, a job as tasks that become done with their outputs, implemented by
   `MapReduce` while workers are punctual.
3. Servers behind `ShardClerks` that recognise retries, when the repository has them.
