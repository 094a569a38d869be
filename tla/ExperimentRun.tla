--------------------------- MODULE ExperimentRun ----------------------------
(***************************************************************************)
(* One run of an experiment (src/experiments): the driver resolves the     *)
(* dataset, starts one process per job, waits for all of them and writes   *)
(* the summaries from the files the jobs left.  The jobs of the "pytorch"  *)
(* system build the index of the dataset themselves (DatasetIndex); those  *)
(* of "batchflow" train on payloads that a data worker materializes        *)
(* (Materializer) from the coordinator's index.  That worker may die.      *)
(*                                                                         *)
(* Batches are in the order of the index: a shuffled dataset is one with   *)
(* other keys.                                                             *)
(***************************************************************************)
EXTENDS DatasetIndex, Materializer

CONSTANTS
    Coordinator, Driver,   \* processes, with the jobs the members of Builders
    NumJobs,
    Plans,         \* [system, warmup, batches, counted, classes, devices, name,
                   \*  dropLast, priced]: the configuration of a run
    SafeName,      \* _safe_name, on the job names
    BatchSize,
    FlushEvery,    \* flush_every_batches
    MaxKills       \* bound on job processes and workers that die

Jobs == 1..NumJobs
Files == {SafeName[n] : n \in DOMAIN SafeName}

ASSUME BuilderAssumption == Builders = Jobs \cup {Coordinator, Driver}

\* The writer flushes every max(1, flush_every_batches) rows.
ASSUME RunAssumption ==
    NumJobs \in Nat /\ BatchSize \in Nat \ {0} /\ FlushEvery \in Nat \ {0}

\* Counts are what range() makes of them: not negative.
ASSUME PlanAssumption ==
    \A p \in Plans :
        /\ p.warmup \in Nat /\ p.classes \in Nat
        /\ p.batches \in [Jobs -> Nat] /\ p.name \in [Jobs -> DOMAIN SafeName]

VARIABLES
    plan,
    driver,      \* where main is
    classes,     \* num_classes of the resolved dataset
    job,         \* where a job's process is
    rows,        \* rows a job has passed to its writer
    unflushed,   \* _rows_since_flush
    written,     \* whole rows that its file object has written out
    file,        \* contents of the metrics files: [exists, rows]
    worker,      \* the data worker: "up" or "dead"
    serving,     \* the job whose batch the worker prepares, or 0
    misfit,      \* history: jobs that met a label their model has no output for
    summary,     \* what the job summaries were computed from
    broken,      \* whether the process pool is broken
    kills

runVars == <<plan, driver, classes, job, rows, unflushed, written, file, worker,
             serving, misfit, summary, broken, kills>>
vars == <<datasetVars, matVars, runVars>>

Live == {"device", "data", "index", "model", "loop", "wait", "flush", "closing",
         "giving up"}


\* Where a job's future is done.
Over == {"ok", "failed", "killed"}

Total(j) == plan.warmup + plan.batches[j]
FileOf(j) == SafeName[plan.name[j]]
Retrieval == layout.format = "coco_retrieval"
OnS3 == layout.format # "synthetic"

Init ==
    /\ DatasetInit /\ MatInit
    /\ plan \in Plans
    /\ driver = "jobs"
    /\ classes = 0
    /\ job = [j \in Jobs |-> "off"]
    /\ rows = [j \in Jobs |-> 0]
    /\ unflushed = [j \in Jobs |-> 0]
    /\ written = [j \in Jobs |-> 0]
    /\ file = [f \in Files |-> [exists |-> FALSE, rows |-> <<>>]]
    /\ worker = "up"
    /\ serving = 0
    /\ misfit = {}
    /\ summary = <<>>
    /\ broken = FALSE
    /\ kills = 0

-----------------------------------------------------------------------------
(* The driver *)

UnchangedFiles == UNCHANGED <<rows, unflushed, written, file>>
UnchangedJobs == UNCHANGED <<worker, serving, misfit, broken, kills>> /\ UnchangedFiles
DriverAt(p, q) == driver = p /\ driver' = q

\* _build_jobs
BuildJobs ==
    /\ DriverAt("jobs", IF \A i, j \in Jobs : plan.name[i] = plan.name[j] => i = j
                        THEN "resolve" ELSE "failed")
    /\ UNCHANGED <<datasetVars, matVars, plan, classes, job, summary>> /\ UnchangedJobs

\* _resolve_dataset_metadata: the index is built when the configuration leaves
\* the counts open.
Resolve ==
    /\ \/ /\ ~OnS3 \/ plan.counted
          /\ DriverAt("resolve", "submit")
          /\ classes' = plan.classes
          /\ UNCHANGED datasetVars
       \/ /\ OnS3 /\ ~plan.counted
          /\ DriverAt("resolve", "build")
          /\ BeginBuild(Driver)
          /\ UNCHANGED classes
       \/ /\ built[Driver] = "failed"
          /\ DriverAt("build", "failed")
          /\ UNCHANGED <<datasetVars, classes>>
       \/ /\ built[Driver] = "done"
          /\ DriverAt("build", "submit")
          /\ classes' = IF Retrieval THEN plan.classes ELSE index[Driver].classes
          /\ UNCHANGED datasetVars
    /\ UNCHANGED <<matVars, plan, job, summary>> /\ UnchangedJobs

\* run_*_jobs: every job is submitted to a pool with a process for each.
Submit ==
    /\ DriverAt("submit", "collect")
    /\ job' = [j \in Jobs |-> "device"]
    /\ UNCHANGED <<datasetVars, matVars, plan, classes, summary>> /\ UnchangedJobs

\* as_completed: the errors of all jobs are collected before one is raised.
NoErrors == \A j \in Jobs : job[j] = "ok"
Collect ==
    /\ \A j \in Jobs : job[j] \in Over
    /\ DriverAt("collect", IF NoErrors THEN "summary" ELSE "failed")
    /\ UNCHANGED <<datasetVars, matVars, plan, classes, job, summary>> /\ UnchangedJobs

\* Mutant: the last warm-up batch is measured.
MeasuredTooSoon(r) == r[1] = 0 \/ r[2] >= plan.warmup

\* A row without the warm-up flag.  What is no row has no flag.
Measured(r) == r[1] = 0 \/ r[2] > plan.warmup

\* build_job_summary: total_batches counts the rows in the job's file, everything
\* else is computed from those that are no warm-up.
JobSummary(j) ==
    LET all == file[FileOf(j)].rows
    IN  [total |-> Len(all),
         measured |-> {all[i] : i \in {k \in DOMAIN all : Measured(all[k])}}]

\* write_summaries: per_job_summary.csv from the jobs' files, of which none may
\* be missing; then the aggregate.
WriteSummaries ==
    /\ \/ /\ \E j \in Jobs : ~file[FileOf(j)].exists
          /\ DriverAt("summary", "failed")
          /\ UNCHANGED summary
       \/ /\ \A j \in Jobs : file[FileOf(j)].exists
          /\ DriverAt("summary", "cost")
          /\ summary' = [j \in Jobs |-> JobSummary(j)]
    /\ UNCHANGED <<datasetVars, matVars, plan, classes, job>> /\ UnchangedJobs

\* _load_cost_metadata: the configured profile has a price, or this raises and
\* there is no aggregate_summary.csv.
LoadCosts ==
    /\ DriverAt("cost", IF plan.priced THEN "done" ELSE "failed")
    /\ UNCHANGED <<datasetVars, matVars, plan, classes, job, summary>> /\ UnchangedJobs

DriverStep == BuildJobs \/ Resolve \/ Submit \/ Collect \/ WriteSummaries \/ LoadCosts

-----------------------------------------------------------------------------
(* The jobs *)

JobAt(j, p, q) == job[j] = p /\ job' = [job EXCEPT ![j] = q]
UnchangedRun == UNCHANGED <<plan, driver, classes, summary, worker, broken, kills>>

\* resolve_device_and_amp: a job has the GPU of its own index.
HasDevice(j) == plan.devices = 0 \/ j - 1 < plan.devices

\* _run_job up to the training loop; what raises here has no file to close.
TakeDevice(j) ==
    /\ JobAt(j, "device", IF HasDevice(j) THEN "data" ELSE "failed")
    /\ UNCHANGED <<datasetVars, matVars, serving, misfit>> /\ UnchangedRun /\ UnchangedFiles

\* A BatchFlow job needs its configuration only, which is not valid without
\* batches; a PyTorch job builds the index.
PrepareData(j) ==
    /\ \/ /\ plan.system = "batchflow"
          /\ JobAt(j, "data", IF Total(j) > 0 THEN "model" ELSE "failed")
          /\ UNCHANGED datasetVars
       \/ /\ plan.system = "pytorch" /\ ~OnS3
          /\ JobAt(j, "data", "failed")
          /\ UNCHANGED datasetVars
       \/ /\ plan.system = "pytorch" /\ OnS3
          /\ JobAt(j, "data", "index")
          /\ BeginBuild(j)
    /\ UNCHANGED <<matVars, serving, misfit>> /\ UnchangedRun /\ UnchangedFiles

\* build_torch_dataset has the index, or raised.
TakeIndex(j) ==
    /\ built[j] \in {"done", "failed"}
    /\ JobAt(j, "index", IF built[j] = "done" THEN "model" ELSE "failed")
    /\ UNCHANGED <<datasetVars, matVars, serving, misfit>> /\ UnchangedRun /\ UnchangedFiles

\* build_training_components: the model's name may be unknown, or the model too
\* large for the device.
BuildModel(j) ==
    /\ JobAt(j, "model", "loop") \/ JobAt(j, "model", "failed")
    /\ UNCHANGED <<datasetVars, matVars, serving, misfit>> /\ UnchangedRun /\ UnchangedFiles

\* The batches of an index, cut in the order of its samples.
InOrder(ix) ==
    LET keys == DOMAIN ix.samples
    IN  [i \in 1..Cardinality(keys) |-> CHOOSE k \in keys : Before(k, keys) = i - 1]
SamplesOf(ix) == [i \in DOMAIN InOrder(ix) |-> ix.samples[InOrder(ix)[i]]]
EpochBatches(ix) ==
    LET n == Cardinality(DOMAIN ix.samples)
    IN  IF plan.dropLast THEN n \div BatchSize ELSE (n + BatchSize - 1) \div BatchSize

BatchOf(ix, i) ==
    SubSeq(SamplesOf(ix), (i * BatchSize) + 1,
           IF (i + 1) * BatchSize < Len(SamplesOf(ix)) THEN (i + 1) * BatchSize
                                                       ELSE Len(SamplesOf(ix)))

\* The file object of j writes out its rows up to the n-th and, if torn, a part of
\* the next.  It goes on at its own offset, whoever else has the file open: what
\* was there before stays behind it, and what was cut off leaves a hole (<<0, i>>,
\* as for a torn row).
WriteOut(old, j, n, torn) ==
    LET last == IF torn THEN n + 1 ELSE n
    IN  [i \in 1..(IF Len(old) > last THEN Len(old) ELSE last) |->
            IF i \in (written[j] + 1)..n THEN <<j, i>>
            ELSE IF i <= Len(old) /\ ~(torn /\ i = last) THEN old[i]
            ELSE <<0, i>>]

\* write_batch: the first row opens, and so empties, the file.  The row goes to the
\* buffer of the file object, which is written out whenever it is full, also in the
\* middle of a row.
WriteRow(j) ==
    LET old == IF rows[j] = 0 THEN <<>> ELSE file[FileOf(j)].rows
    IN  \E n \in written[j]..(rows[j] + 1), torn \in BOOLEAN :
            /\ torn => n <= rows[j]
            /\ written' = [written EXCEPT ![j] = n]
            /\ file' = [file EXCEPT ![FileOf(j)] =
                           [exists |-> TRUE, rows |-> WriteOut(old, j, n, torn)]]
            /\ rows' = [rows EXCEPT ![j] = @ + 1]
            /\ unflushed' = [unflushed EXCEPT ![j] = @ + 1]

\* Mutant: the buffer stays what it is.
NotFlushed(j) == file[FileOf(j)].rows

Flushed(j) == WriteOut(file[FileOf(j)].rows, j, rows[j], FALSE)
WriteAll(j) ==
    /\ file' = [file EXCEPT ![FileOf(j)].rows = Flushed(j)]
    /\ written' = [written EXCEPT ![j] = rows[j]]
    /\ unflushed' = [unflushed EXCEPT ![j] = 0]
    /\ UNCHANGED rows

\* run_batch and the row of the batch; a label the model has no output for is
\* an error.
Fits(batch) == Retrieval \/ \A i \in DOMAIN batch : batch[i].label < classes
FlushDue(j) == unflushed[j] + 1 >= FlushEvery
TrainOn(j, batch, from) ==
    IF Fits(batch)
    THEN /\ JobAt(j, from, IF FlushDue(j) THEN "flush" ELSE "loop")
         /\ WriteRow(j) /\ UNCHANGED misfit
    ELSE JobAt(j, from, "giving up") /\ misfit' = misfit \cup {j} /\ UnchangedFiles

\* ... every flush_every_batches rows.
Flush(j) ==
    /\ JobAt(j, "flush", "loop") /\ WriteAll(j)
    /\ UNCHANGED <<datasetVars, matVars, serving, misfit>> /\ UnchangedRun

LoopOver(j) == rows[j] = Total(j)

\* A DataLoader has one epoch; when it ends before the loop does, the loop
\* raises.
TrainPytorch(j) ==
    /\ plan.system = "pytorch" /\ job[j] = "loop" /\ ~LoopOver(j)
    /\ IF rows[j] < EpochBatches(index[j])
       THEN TrainOn(j, BatchOf(index[j], rows[j]), "loop")
       ELSE JobAt(j, "loop", "giving up") /\ UnchangedFiles /\ UNCHANGED misfit
    /\ UNCHANGED <<datasetVars, matVars, serving>> /\ UnchangedRun

\* The next batch of a BatchFlow job goes to the worker, epoch after epoch; without
\* one the job polls for it.
Request(j) ==
    LET n == EpochBatches(index[Coordinator])
    IN  /\ plan.system = "batchflow" /\ ~LoopOver(j)
        /\ built[Coordinator] = "done" /\ n > 0
        /\ JobAt(j, "loop", "wait")
        /\ \/ /\ worker = "up" /\ serving = 0 /\ serving' = j
              /\ Materialize(BatchOf(index[Coordinator], rows[j] % n),
                             IF OnS3 THEN "s3" ELSE "synthetic")
           \/ worker = "dead" /\ UNCHANGED <<matVars, serving>>
        /\ UNCHANGED <<datasetVars, misfit>> /\ UnchangedRun /\ UnchangedFiles

\* The job gets the payload, or the failure of its task.  A job that died
\* meanwhile gets neither.
Deliver(j) ==
    /\ worker = "up" /\ serving = j /\ Report /\ serving' = 0
    /\ CASE job[j] = "wait" /\ stage = "done" -> TrainOn(j, payload, "wait")
         [] job[j] = "wait" /\ stage = "failed" ->
                JobAt(j, "wait", "giving up") /\ UnchangedFiles /\ UNCHANGED misfit
         [] OTHER -> UNCHANGED <<job, misfit>> /\ UnchangedFiles
    /\ UNCHANGED datasetVars /\ UnchangedRun

\* The end of the loop, or any exception in it: no coordinator, a broken
\* connection, an epoch without batches ...
LeaveLoop(j) ==
    /\ \/ LoopOver(j) /\ JobAt(j, "loop", "closing")
       \/ ~LoopOver(j) /\ JobAt(j, "loop", "giving up")
    /\ UNCHANGED <<datasetVars, matVars, serving, misfit>> /\ UnchangedRun /\ UnchangedFiles

\* ... which may also come while the job waits, but need not.
LoseCoordinator(j) ==
    /\ JobAt(j, "wait", "giving up")
    /\ UNCHANGED <<datasetVars, matVars, serving, misfit>> /\ UnchangedRun /\ UnchangedFiles

\* The finally clauses: the iterator, the monitor, and the writer's close.
Close(j) ==
    /\ JobAt(j, "closing", "ok") \/ JobAt(j, "giving up", "failed")
    /\ IF rows[j] = 0 THEN UnchangedFiles ELSE WriteAll(j)
    /\ UNCHANGED <<datasetVars, matVars, serving, misfit>> /\ UnchangedRun

\* A process dies; the pool is broken and terminates the others.  What was in
\* the buffers of their file objects is lost.
Die(j) ==
    /\ job[j] \in Live
    /\ job' = [job EXCEPT ![j] = "killed"]
    /\ \/ broken /\ UNCHANGED kills
       \/ ~broken /\ kills < MaxKills /\ kills' = kills + 1
    /\ broken' = TRUE
    /\ UNCHANGED <<datasetVars, matVars, plan, driver, classes, summary, worker, serving,
                   misfit>>
    /\ UnchangedFiles

\* The worker dies, with a task or without.  Nobody notices: its task stays running,
\* and a job that waits for the batch is told to ask again.
WorkerDies ==
    /\ plan.system = "batchflow" /\ worker = "up"
    /\ kills < MaxKills /\ kills' = kills + 1
    /\ worker' = "dead"
    /\ UNCHANGED <<datasetVars, matVars, plan, driver, classes, job, summary, serving, misfit,
                   broken>>
    /\ UnchangedFiles

JobStep(j) ==
    \/ TakeDevice(j) \/ PrepareData(j) \/ TakeIndex(j) \/ BuildModel(j)
    \/ TrainPytorch(j) \/ Request(j) \/ Deliver(j) \/ Flush(j) \/ LeaveLoop(j) \/ Close(j)

Worker == worker = "up" /\ MatStep /\ UNCHANGED <<datasetVars, runVars>>

\* The builders that run: the coordinator of a BatchFlow runtime starts when it
\* likes, the driver and the jobs when the run comes to it.
Building(b) ==
    /\ b \in Jobs => job[b] = "index"
    /\ b = Coordinator => plan.system = "batchflow"
    /\ BuildStep(b) \/ (b = Coordinator /\ BeginBuild(b))
    /\ UNCHANGED <<matVars, runVars>>

Next ==
    \/ DriverStep
    \/ \E j \in Jobs : JobStep(j) \/ LoseCoordinator(j) \/ Die(j)
    \/ \E b \in Builders : Building(b)
    \/ \E k \in Keys : Upload(k) /\ UNCHANGED <<matVars, runVars>>
    \/ Worker \/ WorkerDies

Spec == Init /\ [][Next]_vars

\* Every process runs, the worker as long as it lives; nothing need fail, and nobody
\* need upload.
Fairness ==
    /\ WF_vars(DriverStep) /\ WF_vars(Worker)
    /\ \A j \in Jobs : WF_vars(JobStep(j)) /\ WF_vars(broken /\ Die(j))
    /\ \A b \in Builders : WF_vars(Building(b))

FairSpec == Spec /\ Fairness

-----------------------------------------------------------------------------
(* Properties *)

RunTypeOK ==
    /\ plan \in Plans /\ layout \in Layouts
    /\ driver \in {"jobs", "resolve", "build", "submit", "collect", "summary", "cost",
                   "done", "failed"}
    /\ classes \in Nat
    /\ job \in [Jobs -> Live \cup Over \cup {"off"}]
    /\ \A j \in Jobs : /\ rows[j] \in 0..Total(j) /\ written[j] \in 0..rows[j]
                      /\ unflushed[j] \in 0..FlushEvery
    /\ worker \in {"up", "dead"}
    /\ serving \in Jobs \cup {0} /\ (serving = 0 => stage = "idle")
    /\ built \in [Builders -> {"off", "load", "list", "save", "done", "failed"}]
    /\ \A i \in DOMAIN tries : tries[i] < MaxAttempts
    /\ Cardinality(In("run")) <= IF Pooled THEN Threads ELSE 1

OwnFiles == \A i, j \in Jobs : FileOf(i) = FileOf(j) => i = j

\* A summary is of whole jobs: once it is written every job came to its end, its
\* total counts all rows of the job, and its other numbers are of exactly the rows
\* after the warm-up (src/README.md: "Warmup batches are excluded from these
\* statistics"), none lost and none of another job, given that no two job names
\* have the same file name.
SummaryExact ==
    summary # <<>> => \A j \in Jobs :
        /\ job[j] = "ok"
        /\ OwnFiles =>
            /\ summary[j].total = Total(j)
            /\ summary[j].measured = {<<j, i>> : i \in (plan.warmup + 1)..Total(j)}

\* The first n rows of a job and, if torn, a part of the next.
Lines(j, n, torn) ==
    [i \in 1..(IF torn THEN n + 1 ELSE n) |-> IF i <= n THEN <<j, i>> ELSE <<0, i>>]

\* The file of a job has its rows from the first on, without a hole, and at most one
\* torn row, the last.  A process that dies takes no more than flush_every_batches of
\* them with it (that many when it dies in the flush itself).  A job that ends, well
\* or not, leaves all of them, and whole.
RowsSurvive ==
    OwnFiles => \A j \in Jobs : \E n \in 0..rows[j], torn \in BOOLEAN :
        /\ file[FileOf(j)].rows = Lines(j, n, torn)
        /\ torn => n < rows[j]
        /\ rows[j] - n <= FlushEvery
        /\ job[j] \in {"ok", "failed"} => n = rows[j]

\* While the source is what the manifest says, no model meets a label it has no
\* output for, although the driver sized it and other processes built the index
\* the labels come from.  For synthetic data the driver believes its configuration.
LabelsFit ==
    ~drift /\ (IF OnS3 THEN ~plan.counted ELSE plan.classes >= NumClasses) => misfit = {}

\* Every run ends, whatever fails and whichever job dies, unless the data worker died
\* and a job waits for a batch it had or would have had: nothing ends that wait.
RunEnds ==
    \/ <>(driver \in {"done", "failed"})
    \/ <>[](worker = "dead" /\ \E j \in Jobs : job[j] = "wait")
=============================================================================
