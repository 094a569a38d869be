# BatchFlow: formal models, model checks and proofs

BatchFlow prepares the training batches of machine-learning jobs. A coordinator plans the
batches of every job's epochs and creates preparation tasks, data workers carry the tasks
out, Redis or the workers' memory keep the payloads, and a prefetcher in each training
process asks for batches, fetches their payloads and hands them to the training loop in
order. `src/experiments` compares it with other systems, two of which (CoorDL, TensorSocket)
are implemented in the repository as well.

This directory holds TLA+ models of the program in `src/`, TLC configurations that check
them on small instances, and TLAPS proofs for every value of the constants.

| file | what it is |
| --- | --- |
| `Coordinator.tla` | coordinator store, request handlers, maintainer, workers' calls |
| `BatchDelivery.tla` | abstract: what the coordinator promises a job |
| `CoordinatorProofs.tla` | types, seven safety invariants and an action property of `Coordinator`, and its refinement of `BatchDelivery`, proved |
| `ReusableCache.tla` | where payload bytes are: Redis, worker memory, admission, eviction |
| `CacheProofs.tla` | three safety properties of `ReusableCache`, proved |
| `Prefetcher.tla` | threads and queues in the training process |
| `OrderedStream.tla` | abstract: what a training loop may rely on |
| `PrefetcherProofs.tla` | three invariants of `Prefetcher` and its refinement of `OrderedStream`, proved |
| `CoorDLStaging.tla` | the CoorDL baseline |
| `CoorDLProofs.tla` | three safety invariants of `CoorDLStaging`, proved |
| `TensorSocket.tla` | the TensorSocket baseline |
| `TensorSocketProofs.tla` | five safety invariants of `TensorSocket`, and that large pipes drop nothing, proved |
| `Launcher.tla` | the processes of a node: start, signals, stop |
| `LauncherProofs.tla` | types and three safety invariants of `Launcher`, proved |
| `DatasetIndex.tla` | the index of a dataset and its manifest, built by many processes |
| `DatasetProofs.tla` | all processes get the same index, and it is well formed, proved |
| `Materializer.tla` | one task of a data worker: two thread pools, retried reads |
| `ExperimentRun.tla` | a run of an experiment: driver, jobs, files; composes the two above |
| `ExperimentProofs.tla` | a run implements `DatasetIndex`; payloads, rows, summaries and labels of a run, proved |
| `MC*.tla`, `*.cfg` | instances for TLC |
| `PROJECT.json` | components, runs, map of definitions to source lines, hazards, findings |

To check a run: `tlc -config <run>.cfg <module>.tla`. To check the proofs: `tlapm <module>.tla` for
`CoordinatorProofs`, `CacheProofs`, `PrefetcherProofs`,
`CoorDLProofs`, `TensorSocketProofs`, `LauncherProofs`, `DatasetProofs` and `ExperimentProofs`.

## 1. Inventory

### Coordinator (`src/batchflow/coordinator`)

* **Store** (`store.py`, 800 lines). State: jobs with status, progress (epoch, next batch
  index) and statistics; planned windows; tasks and the map from batch ids to tasks; payload
  entries, READY handles, pins by job; workers with their active task ids. One `RLock` guards
  every method, so each method is one atomic step.
* **Service** (`service.py`). One method per RPC: `register_dataset`, `start_job`,
  `get_next_batch`, `acknowledge_batch`, `finish_job`, `register_worker`, `heartbeat_worker`,
  `poll_materialization_task`, `complete_materialization`, `fail_materialization`; and a
  maintainer thread that refreshes windows, creates tasks, prefetches opportunistically and
  drops expired payloads. A method is a *sequence* of store calls and holds no lock between
  them; the gRPC server runs the methods on a thread pool. This is where the hard behaviour is.
* **Scheduler** (`scheduler.py`). Stateless policy: which batch, which handle, which task, how
  far ahead, whether a payload is worth keeping. Reads the store.
* **Batch plan** (`batch_coordinator.py`, `common/core.py`). Per (dataset, epoch, drop_last): the
  shuffled sample list cut into batches, cached under a lock. With reuse a batch id does not name
  the job, so jobs share tasks and payloads.
* **Cache manager** (`cache_manager.py`). Capacity, admission, victims, eviction, transient
  fallback. It has its own lock, held during admission, but not while the store installs the
  admitted payload.
* **Dataset builder** (`dataset_builder.py`, `common/s3io.py`). Builds the index of a dataset
  (sample ids, labels, classes) from a cached manifest in S3 or from the source, and saves a fresh
  one as the manifest. The coordinator, the driver of an experiment and each PyTorch job call it in
  processes of their own, possibly at the same time; S3 is all they share. Hard: listings by pages
  of a bucket that grows, manifests that are old, unreadable or overwritten, reads that fail.
* **gRPC service**, **message conversion**: stateless conversion.

Correct means: a job gets every batch of every epoch in order and once; one live task per
batch; nothing pending for a closed job; a payload is not dropped while a client fetches it;
READY means there is a payload; no job waits for good; capacity is respected up to a
known overshoot.

### Data worker (`src/batchflow/data_worker`)

Two loops poll for a task, reuse bytes that are still at hand or materialize them, put them
in Redis or in the in-memory payload store, and report. A gRPC server serves local payloads. Local
bytes are dropped by age. State: the task in hand, the store's bytes with `evict_after_ms`.
Hard: answers and reports get lost, two workers may hold one task, bytes and the coordinator's
entry for them expire separately.

**Materializers** (`materializers.py`): the samples of a task are read by one pool of threads, with
retries, and decoded by a second one. Hard: results arrive out of order; the first failure
cancels what is queued and waits for what runs. Correct means: the payload has the rows of the batch in
its order, and nothing runs on after the outcome is reported.

### PyTorch prefetcher (`src/batchflow/integrations/pytorch`)

A coordinator thread, `num_fetch_threads` fetch threads and an ordered publish thread over three
bounded queues, and an iterator in the training loop. State: queues, counters of scheduled and
published batches, stop / done / end flags. Hard: batches finish out of order; the end may be
sent by any thread after the last batch was published; an error must not block anybody in a full
queue; `close` races `StartJob`.

### Baselines (`src/experiments`)

* **CoorDL**: one preparation owner per job stages its share of a common plan in Redis; every
  job consumes every batch; the last consumer deletes it (Lua scripts). Hard: owners wait for
  consumers that wait for owners; failing owners; a start that fails when some owners already
  stage batches; a namespace cleared while somebody publishes.
* **TensorSocket**: one producer broadcasts shared-memory tensors over PUB/SUB with credits and a
  maximum lag. Hard: messages are lost at subscription and at high-water marks, consumers leave,
  a failed job stays registered.

### Launcher (`src/batchflow/deployment`)

One process per node of the topology. The owner's process holds the coordinator; workers are
daemonic children. State: the handles with their `_stopped` flags, the installed handlers, the
children. Operations: validate, start, wait for the coordinator, start workers, install handlers,
`stop_all`, and the interpreter's exit. Hard: a signal runs `stop_all` on top of anything, also of
another `stop_all`, and raises `SystemExit` through it; a failing launch loses its handles. Correct
means: workers start after the coordinator, the coordinator stops after them and once, and a node
that was told to end ends.

### Experiment runs (`src/experiments/run_experiment.py`, `runners`, `common`)

The driver resolves the dataset, starts a process per job, waits for all, and writes summaries from
the CSV files the jobs wrote. State: the futures, the files with their buffers, the number of
classes every model is sized with. Hard: the driver, the jobs and the coordinator obtain their index separately;
a process that dies breaks the pool and takes the others and their buffers along; two job
names may have one file name. Correct means: every label fits the models, no row is lost that was
flushed, a summary is of whole jobs and its measurements leave the warm-up out, and the run ends
unless a job waits for a worker that died.

### Clients, configuration, transforms, examples

Clients wrap RPC calls, configuration is parsed from YAML, transforms are pure functions.

### Interactions

```
training loop <- iterator <- prefetcher --GetNextBatch/Acknowledge/StartJob/FinishJob--> service
                                 |                                                         |
                                 +--fetch--> Redis / worker memory       store calls (one lock each)
                                                  ^                                        |
                             data worker ---------+---Poll/Complete/Fail--> service, cache manager
```

`Coordinator` and `Prefetcher` meet at the RPCs: in `Coordinator` the client calls in order, one
`GetNextBatch` at a time, acknowledges what it received in order, and may close at any
time; `Prefetcher` is the client that does so. `Coordinator` and `ReusableCache` meet at
`complete_materialization`: `Coordinator` has what happens to tasks, handles and pins whatever
admission decides, `ReusableCache` has where the bytes are. `ExperimentRun` composes `DatasetIndex`
(all its builders) and `Materializer` (the worker that serves a BatchFlow job) with the driver and the
jobs. There the coordinator is reduced to its index and the worker it hands the next batch to: how requests, tasks
and windows interleave is `Coordinator`'s subject. `Launcher` knows of the coordinator only whether it
answers.

The hazards (race, loss, crash, bound, ...) are listed one by one, each at its line and with
the properties that cover it, in `PROJECT.json`.

## 2. Coordinator

State is the store's: `jobStatus`, `progress`, `planned`, `tasks`, `taskOf`
(`_tasks_by_batch_id`), `entry` and `expiring` (`_payload_entries`), `handles`, `pins`,
`activeTasks`; and for every thread a program counter with the locals it carries from one store
call to the next. Task ids are numbered in the order of creation. A batch is a record of
epoch, index and owner, the owner being `NoJob` with reuse.

| thread | code | actions |
| --- | --- | --- |
| GetNextBatch of job j | `service.get_next_batch` | `GnbStart`, `GnbLookup`, `GnbRefresh`, `GnbWindow`, `GnbLookup` again, `GnbPending` / `GnbFailed` / `GnbReady`, `GnbPin`, `GnbIssue`, `GnbEpoch`, `GnbClear`, `GnbReply` |
| acknowledgement | `service.acknowledge_batch` | `Acknowledge` (one store call after a check) |
| FinishJob of j | `service.finish_job` | `FinStatus`, `FinPins`, `FinWindow` |
| StartJob of j | `service.start_job` | `StartJob`, `StartWindow`, then a scheduling pass |
| maintainer | `_maintainer_loop` | `MaintainJob`, a scheduling pass, `OppChoose`, `OppCreate`, `Cleanup` |
| scheduling pass | `_refresh_job_window`, `_schedule_job_batches` | `PlanCheck`, `PlanIndex`, `PlanStore`, `PlanRead`, `PlanEnd` / `PlanSkip` / `PlanEach`, `PlanCreate` |
| worker w | worker loop and the three worker RPCs | `WorkerPoll`, `WorkerAssign`, `WorkerMaterialize`, `WorkerComplete`, `WorkerFail`, `WorkerError`, `WorkerCrash` |

Steps between two store calls that only compute are merged with the call before or after.
Faults are counted: the expiry of a payload (`Cleanup`), a lost poll answer, an exception while
materializing, a lost completion answer, a lost failure report, the crash of a worker. A
configuration names the kinds it allows and how many.

Abstracted: timestamps become "an entry may expire" (the expiry is a nondeterministic event of an
entry that has an expiry and is not pinned); the adaptive lookahead depth is the constant
`TargetDepth`; which of the pending tasks a worker takes, and which batch an opportunistic
prefetch takes, is arbitrary among the admissible ones; statistics are left out.

`BatchDelivery` is what a job is promised: each batch is the successor of the one before,
across epochs, and at most one more is delivered after the job was closed (the call in
flight). `InOrderDelivery == Delivery!Spec` maps `received` to itself and the status of the job
and its call to `phase`.

Properties (see the comments in the module): `OneLiveTaskPerBatch`, `PendingTaskHasActiveJob`,
`KnownPayload`, `PinHasHolder`, `NoSpuriousDone`, `IdleWorkerCounted`, `FailureHasCause`,
`NoRework`, `InOrderDelivery`, `EveryBatchServed`, and `ClosedJobHoldsNoPin`, which is
violated.

## 3. ReusableCache

State: `entry` (where the coordinator says the payload is, until when, and how it was admitted),
`redis` and `local` (where the bytes are), `pinned`, per worker its task and report, and the
manager's lock with the victims that are still to go. `now` is a clock shared by all processes;
the expiry of an entry and the age of local bytes are compared with it.

Worker: `Poll`, `Assign`, then reuse (`ReuseRedis`, or the local store), or `StartRedis` / `PutRedis`
/ `PutLocal`, then `Receive` (the report arrives) and `Install` (`complete_task`). Admission, under
the lock: `Choose` victims, `Evict` and `EvictBytes` per victim, `Admit` or `Reject`. Removing an
entry also removes its task, so a worker in the middle of that task becomes `lost`.
The choice of victims by value is `VictimSets`: any set of unpinned Redis entries that frees enough,
and of which at least one member (the last in some order of value) is needed to free enough.

`CapacityHeld` says that what was admitted fits the capacity as long as no two admissions overlapped;
`raced` is a history variable that remembers such an overlap. Admission is decided under the
manager's lock, but the entry is installed after it was released, so a second admission may be decided before the first
one counts. `TransientFetchable` and `PinnedNotRemoved` hold without such a condition.

That a Redis entry has its bytes holds with one worker only. With two, a second report of a task whose bytes
are in Redis may be rejected, or its entry evicted, and the bytes that are deleted with it are still
advertised by the first report. `RejectedHasFallback` is the part of this that a docstring denies.

## 4. Prefetcher

Each thread stands at `pc[t]`; a blocking put or get on a queue is a step that is enabled when it
would return. `PutOr` keeps the order of the code: whether `stop` was set is looked at before each
attempt, and a thread that is already in `put` may still put when stop is set. The end marker
goes through `EndDue`, `TryEnd`, `PutEnd`, which any thread may run. `unclean` remembers that
a join timed out or that FinishJob failed, the two cases where the code accepts that the job stays.

`OrderedStream` is the promise to the training loop: batch n+1 follows n, the end comes after the
last batch obtained, nothing follows an end, an error or a close. `OrderedDelivery` is the
refinement.

## 5. CoorDLStaging and TensorSocket

`CoorDLStaging`: the parent starts the owners and waits until each has reported that it is ready (`Ready`);
then it starts the jobs (`StartJobs`). An owner that is ready does not wait for the others, so batches are
staged before the start is over. When an owner reports an error (`FailStart`, `FailOwner`) or takes too long
(`SlowStart`), the parent stops and joins the owners and raises (`Abort`, `GiveUp`); that call is outside
the `try` whose `finally` clears the namespace, so what was staged stays in Redis. Owners run `Forget`,
`StartBatch`, `Publish`; the window test, the generation and the publication are separate steps, so stop or
a termination may come between them. A consumer's `wait_and_consume` is the atomic script; a job may fail
for any other reason as well (`FailJob`). The plan is computed from the number of samples, the batch size
and `drop_last`, since the owners' shares depend on it.

`TensorSocket`: the producer is one thread (`DrainControl`, `Serve`), a consumer has a fetch thread
(`Receive`, `Put`) and a training loop (`Train`). `pipe[c]` is what is under way to c: per message
only c's part, because a message for others still takes a place in the pipe and is dropped when
the pipe is full. `Receive` takes a whole message into `todo`; `Put` skips what was received before
(`Skipped`) and includes the acknowledgement: whatever the training loop does between the
two, the producer sees the same control messages or ignores the late one.

The pipes' size is a parameter, and the model says how it matters: with credits of two batches and a
lag of three `NoBatchDropped` and `InSequence` fail with four places and hold with five. The code derives the sender's
high-water mark from the buffer size and the number of consumers alone
(`max(100, consumer_buffer_size * expected_consumers * 4)`) and the receiver's from the buffer size
(`max(100, consumer_buffer_size * 4)`), while the messages that may wait for a
blocked consumer grow with twice `max_lag_batches` for each of the others. Without faults, and with jobs
that need many batches, the smallest pipes that suffice on small instances had
`(n - 1) * (2 * lag - 2) + 1` places for n jobs when the lag is above the credit (credit 1 or 2, lag up
to 4, n = 2; credit 1, lag 2, n = 3). Section 8 proves that `(n - 1) * 2 * lag + credit` places
are enough. With the configured values (credit 10, lag 64) and the two marks added up that
covers two jobs (138 of 200 places) and not three (266 of 220); what the kernel's socket buffers hold
comes on top and is not in the model. This is recorded as a hazard and not as a finding since no text
of the repository says otherwise. `NoBatchDropped` says that no pipe is full when a batch for its
consumer is published; section 8 also proves that nothing else can make a hole.

## 6. Launcher, DatasetIndex, Materializer, ExperimentRun

`Launcher`: `pc[n]` is where the main thread of node n is. A frame is an activation of `stop_all`;
`frame`, `at` and `step` are the top one, its handle and the step of that handle's `stop`. `Signal` replaces the frame
it interrupts: the handler's `SystemExit` unwinds the old frame, which never goes on, and the
handle it was at keeps its flag. `FrameEnds` is that exception arriving in `main`, whose `finally`
runs `stop_all` again. `StopCoordinator` may fail between service and server, which `stop_all` logs. A
signal may go to the process group, as from a terminal; SIGINT is then a `KeyboardInterrupt` in
the workers. `Exit` is multiprocessing's exit handler: it terminates daemonic children and joins
them. Worker processes boot, serve, register (which fails when no coordinator answers), loop and stop.

`StopOrder` is limited to one signal: a second one interrupts the join of a worker, whose flag is set
already, and the coordinator is stopped while that worker lives. `SignalEnds` excludes SIGTERM before the
handlers are installed, which kills the launcher at once.

`DatasetIndex`: a row of the source is a key, and keys are ordered like the listing or the lines of
the file. `ImageFolderIndex`, `OpenImagesIndex`, `RetrievalIndex` and `SyntheticIndex` are the four
builders; what they filter is the constant `Usable`, what they group by is `ClassOf`. A process
loads (`LoadManifest`), lists page by page (`ListPage`), and saves (`SaveManifest`); each may fail
where the code swallows or raises. `Upload` is another writer of the bucket. `drift` remembers that the
source changed or that the manifest was out of date from the start, the two cases where processes may
disagree by design.

`Materializer`: `stage` is the pool at work, `work` the state of each sample. `Begin` hands samples to
threads in order, `Read` has the retries of `read_s3_bytes`, `Cancel` and `EndStage` are `executor.map` inside its
`with` statement: the first failure *in the order of the batch* is met once everything before it succeeded.
A pool of one thread is the caller itself.

`ExperimentRun`: `driver` follows `main` (`BuildJobs`, `Resolve`, `Submit`, `Collect`, `WriteSummaries`,
`LoadCosts`), `job[j]` a job's process (`TakeDevice`, `PrepareData`, `TakeIndex`, `BuildModel`, then
`TrainPytorch` or `Request` / `Deliver`, `LeaveLoop`, `Close`). A BatchFlow job without batches fails in
`PrepareData`, since its configuration is not valid. `rows` is what a job passed to its writer, `unflushed`
counts the rows since the last flush, `written` those the file object has written out, `file` is what is on
disk. `Flush` and `Close` write out everything; in between the file object writes its buffer whenever that
is full, also in the middle of a row, so `WriteRow` may bring any number of rows to the disk and a part of
the next (the torn row `<<0, i>>`). `WriteOut` is what remains when processes write one file, each at its
own offset. `Die` kills a job's process and breaks the pool, which terminates the others. `WorkerDies` kills
the data worker, which nobody notices: its task stays running, and the job asks again and again until its
own process ends or the coordinator is lost (`LoseCoordinator`). `JobSummary` counts all rows in the total,
and computes everything else from the rows that are not warm-up. `SummaryExact` and `RowsSurvive` are about
job names with files of their own: names that differ only in characters `_safe_name` replaces share a file,
and the last writer wins. `LabelsFit` holds when the driver counts the classes itself; `num_classes` of the
configuration is not compared with the index. A synthetic dataset has no source to count, so there it holds
when the configured number is not below that of the generator.

## 7. Runs

| run | instance | shows |
| --- | --- | --- |
| `coordinator_shared` | 2 jobs share 1 batch, 1 worker, one job may close at any time, 3 tasks | `OneLiveTaskPerBatch`, `PendingTaskHasActiveJob`, `FailureHasCause` |
| `coordinator_faults` | 1 job, 2 batches, 2 workers, prefetch on, any fault of 6 kinds, 6 tasks | `TypeOK`, `KnownPayload`, `PinHasHolder` |
| `coordinator_live` | 1 job, 2 epochs of 2 batches, windows of 2, prefetch on, 1 expiry, fair | `NoSpuriousDone`, `IdleWorkerCounted`, `InOrderDelivery`, `EveryBatchServed`, `NoRework` |
| `coordinator_leaked_pin` | 1 job that closes | `ClosedJobHoldsNoPin` fails |
| `coordinator_ghost_task` | 1 worker, an exception and a lost report | `IdleWorkerCounted` fails |
| `reusable_cache` | payloads of 1 and 2 units, 2 workers, capacity 2, clock to 1 | `CapacityHeld`, `TransientFetchable`, `PinnedNotRemoved` |
| `cache_forced` | 2 payloads of 1 unit, 2 workers, capacity 1 | `RejectedHasFallback` fails |
| `prefetcher` | 2 fetch threads, queues of 1, 2 batches, every call may fail, fair | `CompletedMeansAll`, `CleanCloseEndsJob`, `OrderedDelivery`, `EverythingEnds` |
| `coordl` | 3 jobs, 7 samples in batches of 2, 6 batches, window 1, 2 failures, fair | `KeptForEveryJob`, `StagedBounded`, `OnlyFailedStartLeaves`, `RunCompletes` |
| `tensorsocket` | 2 jobs that need 1 and 4 batches, credit 2, lag 3, pipes of 5, 1 fault, fair | `InSequence`, `Servable`, `WindowHeld`, `BufferBounded`, `ServedBeforeClose`, `NoBatchDropped`, `RunEnds` |
| `launcher` | 2 nodes with 0 to 2 workers, 6 topologies of which 3 are invalid, 2 signals per node, fair | `StopOrder`, `ShutDownOnce`, `NoEarlyWorker`, `SignalEnds` |
| `experiment` | 2 jobs, a source of at most 4 rows, one of them unusable, pages of 2, batches of 2, flushed every 2 rows, 1 killed job or worker, fair | `IndexWellFormed`, `BuildersAgree`, `PayloadComplete`, `SummaryExact`, `RowsSurvive`, `LabelsFit`, `RunEnds` |

Why the bounds are enough to be interesting:

* Sharing needs two jobs and one batch: every race about a task (two schedulers, a closing job, a
  worker) is about one batch. Order and epoch ends need two batches and two epochs, so
  `coordinator_live` has those, with one job.
* Two workers are needed where one task is run twice. A third adds another holder of the same
  stale id and no new kind of state.
* `coordinator_faults` has one fault of any kind, at any point; its safety properties are also proved,
  for any number of faults.
* `MaxTasks` is above what the runs need for the first loss of every batch; a task that is
  not created at the bound only removes behaviours.
* In `reusable_cache` the larger payload only fits when the smaller one is evicted, two admissions
  may be under way, and a local copy is too old after one tick. The workers are interchangeable.
* In `prefetcher` two batches in two fetch threads arrive out of order, and queues of one are
  full after one item, where every blocking path shows.
* In `coordl` the four batches of an epoch give the three owners unequal shares, and with six
  batches an epoch boundary lies in the middle of the plan. Two failures are a start that fails and
  something else that fails meanwhile, or an owner and the wait of a job.
* In `launcher` the second signal is the one that interrupts a handler or the finally clause; a third
  would interrupt the same code again. One topology has its two workers beside the coordinator, two
  have one there and one elsewhere, and three are rejected for different reasons.
* In `experiment` three usable rows of two classes, the class of the last one sorted first, change every
  label when the last page is missing or comes late; two batches of which the second is short exercise
  `drop_last` and the epoch's end. One process is killed, a job (and the others with it) or the worker; the
  safety properties are also proved, for any number. `Cases` of `MCExperimentRun` picks the pairs of a plan
  and a dataset that interact, since all pairs would repeat the same behaviour.
* In `tensorsocket` the lag is above the credit (otherwise the credit would never bind), the pipes
  are the smallest that suffice, and one job leaves long before the other.

Deadlock is not checked where the bounds end the behaviour (`MaxEpoch`, `MaxTasks`, `MaxFaults` of
`Coordinator`: a client stops asking, a worker has nothing to poll); the fair runs show that
nobody waits for good. Nor is it in `Launcher` and `ExperimentRun`, which end (`SignalEnds` and `RunEnds`
say how). Deadlock is checked in every other module: `Prefetcher`, `CoorDLStaging` and
`TensorSocket` end in an explicit stuttering step of the finished program, and the workers of
`ReusableCache` never run out of work.

### What the failing runs mean

* `coordinator_leaked_pin`: `finish_job` drops the job's pins, and a `get_next_batch` of the same
  job that found its batch before pins it afterwards. Nobody will acknowledge, so the payload can
  neither expire nor be evicted.
* `coordinator_ghost_task`: only `complete_task` and `fail_task` take an id out of
  `active_task_ids`. When the failure report is lost the worker polls on, and is never counted as
  idle again; opportunistic prefetch depends on that count.
* `cache_forced`: a rejected payload without a fallback is deleted from Redis and
  advertised there all the same, contrary to the docstring of `admit_reusable_payload`.

Observed while modelling and not stated by any text, hence no finding: `get_next_batch` may hand
out a payload that expired between finding and pinning it; a worker drops local bytes by
age while a job has them pinned; a task whose worker died is never given to another worker, and its job
waits for good; a CoorDL run whose start fails after some owners were ready leaves their batches in Redis; a join
of the prefetcher that times out while StartJob is in flight leaves an active job; the port range of a
node's workers may contain the coordinator's port; SIGTERM during the launch leaves the workers that were
started; two builders may leave the manifest of the one that listed less.

### Fairness

* `Launcher`: weak fairness of the launching and of the stopping steps of a node, and of each worker.
  Joins have timeouts in the code, so no step waits for another process for good. No signal and no
  failure need come.
* `ExperimentRun`: weak fairness of the driver, the jobs, the builders, and the worker as long as it lives;
  a process of a broken pool is terminated by the executor. Reads and listings end, with or without a result.
  Nobody need die, and a waiting job need not lose its coordinator: `RunEnds` therefore has the wait for a dead
  worker as its second case.

* `Coordinator`: weak fairness of each request thread, each scheduling pass and each worker: they
  are threads or processes that block only where the model's guard says so. Strong fairness of
  `MaintainJob(j)` because the maintainer loops over *all* active jobs, so a job that is active
  again and again when the loop comes by is visited. No fairness of faults, expiry, or of a
  client that closes. The client is fair because a training loop goes on asking.
* `Prefetcher`: weak fairness of each thread and of the training loop with its joins. Calls return
  (with an answer or an error); the training loop need not break off.
* `CoorDLStaging`, `TensorSocket`: weak fairness of each process or thread and of the parent. A wait
  with a timeout, of a job for a batch or of the parent for an owner, may end without a result only after a
  failure (or as one), so without a failure it is the protocol and not the timeout that has to end every wait.

## 8. Proofs

`CoordinatorProofs` assumes, but for the last two of its theorems, only the constants' assumptions
(`DepthAssumption`: a positive number of batches and lookahead, the target depth within the
lookahead; `BoundAssumption`; `NameAssumption` and `NoBatchAssumption`: the model's own marks
are no jobs and no batches). They hold for any sets of jobs and workers and for any combination and
number of faults.

* **`TypeCorrect`**, `Spec => []TypeOK`. `TypeOK` is not inductive: what a handler carries from
  one store call to the next must be typed at the places where it is used. `TypeInv` adds
  `GnbTypes` (a call past its lookup has a batch, and works in an epoch below the bound until it
  advances the job), `PlanTypes` (a scheduler at work has a job), `WorkerTypes` (a worker at work has
  a task) and `MappingTypes` (a batch id maps to a task *of that batch*; without it, removing a
  payload could not be shown to keep tasks apart). One lemma per thread, one step per action.
* **`OneLiveTask`** and **`NoPendingTaskOfClosedJob`**. `TaskInv` is the conjunction of both with
  `TypeInv`. `StepKinds` first sorts all steps into those that leave the shared dictionaries alone
  and five kinds that do not; `FewerTasks` covers the kinds that only end tasks; creation is the
  interesting one: `MayCreate` refuses a batch whose mapped task is live, so the new
  task is the only one, and refuses a closed job.
* **`HandlesAndPinsAreKnown`**. `KnownPayload` is inductive with the types: a removal takes
  handle and entry together and refuses what is pinned; a pin checks the entry in its own step.
  This is the proof that the unlocked gap between finding and pinning a payload is harmless for
  the coordinator's tables.
* **`EveryPinHasHolder`**. The inductive invariant is `PinInv`: with the types, a job
  has acknowledged no more than it received, a call starts only after `StartJob` returned, and
  every pin is held, by a call with the batch in hand past the pinning or by a batch received and
  not yet acknowledged. The property alone does not say which of a job's calls holds the pin.

* **`NeverDoneEarly`** (`NoSpuriousDone`), **`FailuresAreCaused`** (`FailureHasCause`) and
  **`DeliveryRefined`** (`InOrderDelivery`) are about what a job's calls answer, and rest on where a
  call stands between its store calls. `CallInv` adds to `PinInv`: `LifeInv` (a job starts once
  and is finished only after that), `DueInv` (at each step of a call, the progress in the store stands
  at the batch the client has to get next, or at the one after it once the call has moved it), and
  `WindowInv` (the window of an open job holds its next batch, or no maintainer is about to
  install one that does not: the stale read that would end a job early). `DeliveryRefined` then
  maps `GnbReply` of a batch to `Deliver` and everything else to a close or a stutter. `CauseInv`
  adds `OwnerInv` (batches are planned and tasks created under the name of their job),
  `CancelInv` (cancelled tasks are of closed jobs) and `CleanInv` (without a fault nothing
  fails, and no task goes while a worker has it).

* **`NothingIsDoneTwice`** (`NoRework`) has two hypotheses about the constants: `NothingLost` (the fault kinds
  "materialize" and "reply" are off) and `NothingShared` (with reuse there is one job; without, any number).
  The instance of `coordinator_live` satisfies both. `ReworkInv` adds to `CauseInv`: no task fails or is replaced
  while it is stored (`SoundTasks`); a ready batch maps to a completed task (`ReadyInv`), which `create_task` does
  not replace, however old the look of the scheduler is; and what the prefetch chose is nobody's work (`SpareInv`).
  The last is the hard part, as the prefetch looks and creates in two steps with `StartJob` at work in between. It holds
  because the two keep apart: the prefetch chooses beyond the target depth (`AheadBound`: the batches ahead of
  one are no more than its index), and until `StartJob` returned, the window is the first one and `StartJob` goes
  through it batch by batch up to that depth (`StartInv`, `FirstOfWindow`). The hypotheses are needed: TLC finds
  a second task for a ready batch with "materialize" alone, with "reply" alone, and with three jobs that share a
  batch (the first two close, the third creates a task on an old look).
* **`IdleWorkersAreCounted`** (`IdleWorkerCounted`) assumes that the fault kinds "poll" and "report" are off
  (`coordinator_ghost_task` shows why) and `NothingRemoved`: payloads do not expire, or else nothing is lost and nothing
  shared, as in `coordinator_live`. `ListInv`: what is on a worker's list is running, and is the worker's own task. Only
  the removal of a running task breaks this; by `ReadyInv` what expires has a completed task (`CleanupList`).
  With "expiry", TLC finds the property violated when "materialize" or "reply" is on as well or two jobs share.

`CacheProofs` assumes `CacheAssumption`: finitely many batches, sizes and a clock that are natural
numbers, a capacity and a time to live of at least 1. `Bytes` of a set counts slots, one per byte of each
member, so that the theorems about cardinalities apply.

* **`PinnedStays`** (`PinnedNotRemoved`) follows from the types: every removal looks at the pins in the
  step that removes.
* **`TransientIsFetchable`** (`TransientFetchable`). `FetchInv` carries the promise with the report: what
  a worker is about to report, what is under admission and what is installed as transient
  has its bytes in that worker's memory at least as long as the entry says.
* **`CapacityIsHeld`** (`CapacityHeld`). `RoomInv`: as long as no two admissions overlapped, the admitted
  entries fit, also together with the payload that was granted and is not installed yet.

`PrefetcherProofs` assumes `MarkAssumption` (the marks in the queues are no sequence numbers) and the
module's other assumptions, for any number of fetch threads, any queue size and any number of batches.

* **`TypeCorrect`** (types and the capacities of the queues, in no run), **`CompletedIsComplete`** (`CompletedMeansAll`: FinishJob says "completed" only after
  the whole job was yielded), **`CleanCloseIsClean`** (`CleanCloseEndsJob`) and **`Refinement`**
  (`OrderedDelivery`) share the invariant `IInv`: `QueueTypes`, `ThreadTypes`, `ValueTypes`;
  `CoordInv` (the coordinator thread obtains nothing once it is done); `FlightInv` (what is on its way was
  obtained); `PublishInv` (how published, next and acknowledged numbers follow each other along
  the publish thread's steps, and that they part only after a stop); `ReadyInv` (the ready queue holds
  exactly the batches between those yielded and those handed over, in order, and no batch after the
  end); `EndInv` (the end is sent when everything obtained was published); `CloseInv` (what a close finds
  and leaves). `ReadyInv` is where the order of the training loop comes from, and it
  needs `PublishInv`, since the end may be sent by any thread.

`CoorDLProofs` assumes `PlanAssumption`, for any number of jobs, samples, batches and failures.

* **`EveryJobFindsIt`** (`KeptForEveryJob`), **`StagingIsBounded`** (`StagedBounded`) and **`StartedRunsLeaveNothing`**
  (`OnlyFailedStartLeaves`). `StageInv`: `CountInv` (a batch's count is at most the number of jobs that are past
  it, so the use that deletes it is the last one), `QueueInv` (what an owner has in Redis is in its queue,
  and there is room for the batch in preparation) and `EndInv` (jobs run only after a start that
  succeeded, no owner is alive when the run is over, and the namespace was cleared unless the start failed). What a
  failed start leaves stays there; the theorem says that nothing else does.

`TensorSocketProofs` assumes `SocketAssumption` (a lag not below the credit, as the constructor demands),
for any jobs, needs, credits, lags, pipes and number of faults.

* **`NothingIsMissing`** (`Servable`), **`WindowIsHeld`** (`WindowHeld`), **`BufferIsBounded`**
  (`BufferBounded`). `WindowInv` orders, for each registered consumer, what was acknowledged, received,
  sent and prepared, within credit and lag (`LagInv`); it needs to know that nobody registers once the
  producer serves (`PhaseInv`, `ControlInv`), that what is under way was sent (`SentInv`), that
  a job without a consumer gets nothing (`IdleInv`), and that the buffer lies within the lag
  behind the next index (`BufferInv`).
* **`EveryJobIsServed`** (`ServedBeforeClose`). `ClosedInv`: a shutdown is under way only after the
  producer was closed; `ServedInv`: without a fault that is after all jobs ended.
* **`NoHoleWithoutDrop`**: `Spec /\ NoBatchDropped => []InSequence`. The condition is a property that the
  run checks for its instance; with small pipes it fails (section 5).
  `StreamsInv` describes the stream of one consumer: what was yielded and buffered are the first batches in
  order (`Delivered`), what the fetch thread holds and the messages in the pipe continue it (`Chain`: the
  messages hold consecutive intervals, some empty, and a shutdown can only be the last), up to what was
  sent last, or to nothing when the subscription came too late; then the credit is spent, and
  nothing comes any more (`EndsAt`).

* **`LargePipesDropNothing`** (`NoBatchDropped`) and **`NoHole`** (`InSequence` without the condition)
  assume `EnoughRoom`: the number of places in section 5. Nothing in the program counts what is in a
  pipe; `RoomInv` does it by causes. A message is in the pipe of j because some consumer c was sent its
  batches through i, and nothing is sent through i to c twice, so each message has a pair (c, i) of its own
  (`CausesInv`). For another consumer i lies within the lag before or after what j received last, and
  for j itself within the credit after it (`CausedBy`, from `WindowInv`): that many pairs there
  are, and the pigeonhole principle bounds the pipe (`RoomForTheNext`). The instance of the run is below
  this size (5 places instead of 8), so the run and the theorem do not repeat each other.

`LauncherProofs` assumes `BoundsAssumption` and `TopologyAssumption` (counts and ports are integers, no
node has more than `MaxWorkers` workers; a topology may be invalid in every way the code checks).

* **`TypesAndPorts`**. `LaunchInv` adds to the types that a node that launches passed validation:
  this is what bounds the port of every worker.
* **`OneShutdown`**. `StopInv`: the flag of the owner's handle 0 is set before its `stop` begins, and the
  service is not shut down while the flag is clear. A handler that interrupts the shutdown finds the flag, and
  only the owner has that handle, so nobody comes a second time.
* **`WorkersFirst`** (`StopOrder`). `OrderInv`: handles are the node's own once there is anything to stop,
  flags are set in `stop_all` only, and as long as there was one signal the workers behind the handle a
  frame is at are flagged, and who is flagged is gone or just being stopped. It holds over the change from the
  handler's frame to that of `finally`, which starts at the last handle again and finds all flags set.
* **`CoordinatorFirst`**. `CoordInv` orders the coordinator's states along the owner's launch;
  `WorkerInv` says that whoever had to wait saw it up, hence finds it up or gone.

`DatasetProofs` assumes `KeyAssumption`, `SizeAssumption` and `LayoutAssumption` (finitely many keys, positive
sizes, finitely many described classes).

* **`OneIndex`**. `AgreeInv`: without drift a usable manifest holds the index of the source, and a
  listing has seen exactly the keys up to its cursor (`PageIsInterval` shows that a page is an
  interval). So the last page completes the source, and what is saved is what everybody else builds.

* **`IndexFits`** (`IndexWellFormed`). `RowsInv`: whatever a process reads, lists or saves is the index of some set
  of rows. The rest is about such an index: `NumberedByPosition` (the position of a number in a finite set is a numbering from
  0 without gaps), `ImageNumbers` (so is the order in which a caption file meets its images, by `MetGrows`) and
  `AllNumbersOccur` (n different numbers below n are all of them), then one lemma per format.

`ExperimentProofs` assumes, with those of `DatasetIndex`, `BuilderAssumption`, `RunAssumption` and
`PlanAssumption` (counts of jobs, batches and rows are natural numbers, batches and buffers are not empty) and
`ThreadAssumption` of `Materializer`. `SafeName` may map names as it likes.

* **`DatasetImplemented`**. Every step of a run is a step of `DatasetIndex` or leaves the data alone
  (`DataSteps`); **`RunIndexFits`** and **`RunIndicesAgree`** follow with `IndexFits` and `OneIndex`.
* **`PayloadsAreComplete`** (`PayloadComplete`). `MatInv`: a pool runs no more than its threads, and every
  sample, its state and its tries have the positions of the batch. `BatchOfSamples` adds that what a job
  asks for is a finite sequence of samples of the index.
* **`RunTypes`** (`RunTypeOK`, in no run).
* **`RowsAreKept`** (`RowsSurvive`). `BufferInv`: at most `FlushEvery` rows since the last flush, fewer
  where a row may follow. `DiskInv`: only those rows may be missing, and none once the writer was closed; a
  file with one writer is `Lines` of what was written out, perhaps with a torn row at the end;
  `WriteOutOfLines` says that writing on from there gives such a file again, over the torn row.
* **`SummariesAreExact`** (`SummaryExact`). `SummaryInv`: a job leaves its loop well only after its last row, and
  the driver summarizes after all jobs ended well. Nothing is held back then, so with `DiskInv` the file is whole, and
  `SummaryOfLines` computes the summary of a whole file: the total counts all rows, the measured ones
  are those after the warm-up.
* **`LabelsAlwaysFit`** (`LabelsFit`). `LabelInv` relates three processes: the classes the driver
  knows before a job starts are those of the source (`ClassesKnown`), who trains has an index, and
  what the worker serves is from the coordinator's (`ServedSamples`). By `AgreeInv` all three are of one source.

`JobSteps`, `WorkerSteps` and `DriverSteps` sort the steps by what they do to files, worker and driver, so
that each invariant is shown for a handful of kinds instead of for every action.

Only model-checked:

* liveness (`EveryBatchServed`, `EverythingEnds`, `RunCompletes`, `RunEnds`, `SignalEnds`), since fairness
  and ENABLED are out of the prover's reach;
* `NoRework` and `IdleWorkerCounted` of `Coordinator` hold only under the hypotheses above, which the
  passing runs that check them satisfy;
* `NoBatchDropped` of `TensorSocket` for pipes between the least size and that of `EnoughRoom`;

## 9. Not modelled, and why

* Heartbeats, and a coordinator that restarts: a worker registers once, so a new coordinator would
  answer its heartbeats and polls with an error for good; there is no recovery to check.
* Statistics, runtime metrics, and the scheduler's adaptive depth and value formulas, which compute
  with measured times: the properties hold whatever they are, and where they choose among
  alternatives the choice is arbitrary. In `Coordinator` the depth is a constant.
* The shuffled contents of batches, decoding, transforms, serialization, tensors: data.
* Clients, message conversion, generated code, YAML parsing: stateless.
* The Hydra and logging set-up, model definitions, plots, analysis, examples, shell scripts, and
  `reporting copy.py` and `runner_core copy.py`, which nothing imports.

## 10. Plan

Done, in this order: `Coordinator` with `BatchDelivery`; its type and safety
proofs; `ReusableCache`, `Prefetcher` with `OrderedStream`, `CoorDLStaging`, `TensorSocket` and `Launcher`, each with
its proofs; `DatasetIndex` with its proof, `Materializer`, and `ExperimentRun` over both.

What would add most from here:

1. The adaptive lookahead depth as a choice of each scheduling pass in `Coordinator`, with its proofs.
2. Composition of `Prefetcher` with `BatchDelivery`: the training loop gets the batches
   of the epochs in order.
3. A worker-side composition of `ReusableCache` with the coordinator's pins (the stale age of
   local bytes against a pinned entry).
