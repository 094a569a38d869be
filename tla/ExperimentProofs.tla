-------------------------- MODULE ExperimentProofs --------------------------
(***************************************************************************)
(* Whatever the dataset, the plans, the number of jobs and who dies: a run *)
(* builds its indices like DatasetIndex says, payloads are whole, files    *)
(* have no holes and at most one torn row, summaries are of whole jobs,    *)
(* and labels fit the models.                                              *)
(***************************************************************************)
EXTENDS ExperimentRun, DatasetProofs, SequenceTheorems

-----------------------------------------------------------------------------
(* The worker *)

Stages == {"idle", "fetch", "decode", "done", "failed"}

\* Both pools hold at most their threads, nothing runs between the stages, and
\* what a task gets is a finite sequence of samples.
MatInv ==
    /\ stage \in Stages
    /\ IsFiniteSet(DOMAIN samples) /\ samples = [i \in DOMAIN samples |-> samples[i]]
    /\ work \in [DOMAIN samples -> {"wait", "run", "ok", "bad", "cut"}]
    /\ tries \in [DOMAIN samples -> 0..(MaxAttempts - 1)]
    /\ Cardinality(In("run")) <= IF Pooled THEN Threads ELSE 1
    /\ PayloadComplete

LEMMA RunningIsFinite ==
    ASSUME MatInv, NEW s PROVE IsFiniteSet(In(s)) /\ Cardinality(In(s)) \in Nat
BY FS_Subset, FS_CardinalityType DEF MatInv, In, Positions

\* The bound of a stage, when nothing runs.
LEMMA NothingRuns ==
    ASSUME In("run") = {} PROVE Cardinality(In("run")) <= IF Pooled THEN Threads ELSE 1
BY FS_EmptySet, ThreadAssumption DEF Pooled, Threads

\* Fewer run after a step that starts nothing.
LEMMA FewerRun ==
    ASSUME MatInv, stage' = stage, In("run")' \subseteq In("run")
    PROVE  (Cardinality(In("run")) <= IF Pooled THEN Threads ELSE 1)'
<1>1. /\ Cardinality(In("run")') <= Cardinality(In("run"))
      /\ Cardinality(In("run")') \in Nat /\ Cardinality(In("run")) \in Nat
  BY RunningIsFinite, FS_Subset, FS_CardinalityType
<1>2. Pooled' = Pooled /\ Threads' = Threads
  BY DEF Pooled, Threads
<1>3. (IF Pooled THEN Threads ELSE 1) \in Int
  BY ThreadAssumption DEF Threads
<1> QED BY <1>1, <1>2, <1>3 DEF MatInv

LEMMA MatInitOk == MatInit => MatInv
<1> SUFFICES ASSUME MatInit PROVE MatInv
  OBVIOUS
<1>1. DOMAIN samples = {} /\ In("run") = {} /\ IsFiniteSet(DOMAIN samples)
  BY FS_EmptySet DEF MatInit, In, Positions
<1>2. Cardinality(In("run")) <= IF Pooled THEN Threads ELSE 1
  BY <1>1, NothingRuns
<1> QED BY <1>1, <1>2 DEF MatInit, MatInv, Stages, PayloadComplete

LEMMA ReportOk == MatInv /\ Report => MatInv'
<1> SUFFICES ASSUME MatInv, Report PROVE MatInv'
  OBVIOUS
<1>1. DOMAIN samples' = {} /\ In("run")' = {} /\ IsFiniteSet(DOMAIN samples')
  BY FS_EmptySet DEF Report, In, Positions
<1>2. (Cardinality(In("run")) <= IF Pooled THEN Threads ELSE 1)'
  BY <1>1, FS_EmptySet, ThreadAssumption DEF Pooled, Threads
<1> QED BY <1>1, <1>2 DEF Report, MatInv, Stages, PayloadComplete

LEMMA MaterializeOk ==
    ASSUME MatInv, NEW batch, NEW kind \in {"s3", "synthetic"}, Materialize(batch, kind),
           IsFiniteSet(DOMAIN batch), batch = [i \in DOMAIN batch |-> batch[i]]
    PROVE  MatInv'
<1>1. DOMAIN samples' = DOMAIN batch /\ In("run")' = {}
  BY DEF Materialize, In, Positions
<1>2. (Cardinality(In("run")) <= IF Pooled THEN Threads ELSE 1)'
  BY <1>1, FS_EmptySet, ThreadAssumption DEF Pooled, Threads
<1>3. stage' \in Stages /\ (stage' = "done" => payload' = samples')
  BY DEF Materialize, Stages, SyntheticRows
<1>4. /\ work' \in [DOMAIN samples' -> {"wait", "run", "ok", "bad", "cut"}]
      /\ tries' \in [DOMAIN samples' -> 0..(MaxAttempts - 1)]
      /\ samples' = batch
  BY ThreadAssumption DEF Materialize
<1> QED BY <1>1, <1>2, <1>3, <1>4 DEF MatInv, PayloadComplete

LEMMA MatStepOk == MatInv /\ MatStep => MatInv'
<1> SUFFICES ASSUME MatInv, MatStep PROVE MatInv'
  OBVIOUS
<1>1. ASSUME NEW i \in Positions, Begin(i) PROVE MatInv'
  <2>1. /\ stage' = stage /\ samples' = samples /\ tries' = tries /\ stage \in {"fetch", "decode"}
        /\ work' = [work EXCEPT ![i] = "run"]
    BY <1>1 DEF Begin
  <2>2. In("run")' = In("run") \cup {i}
    BY <2>1 DEF In, Positions, MatInv
  <2>3. /\ Cardinality(In("run")') \in Nat /\ Cardinality(In("run")) \in Nat
        /\ Cardinality(In("run")') <= Cardinality(In("run")) + 1
    <3>1. IsFiniteSet(In("run")) /\ Cardinality(In("run")) \in Nat
      BY RunningIsFinite
    <3>2. Cardinality(In("run") \cup {i}) \in {Cardinality(In("run")), Cardinality(In("run")) + 1}
      BY <3>1, FS_AddElement
    <3>3. Cardinality(In("run")') = Cardinality(In("run") \cup {i})
      BY <2>2
    <3> QED BY <3>1, <3>2, <3>3
  <2>4. (Cardinality(In("run")) <= IF Pooled THEN Threads ELSE 1)'
    <3>1. Pooled' = Pooled /\ Threads' = Threads /\ Threads \in Nat
      BY <2>1, ThreadAssumption DEF Pooled, Threads
    <3>2. CASE Pooled
      <4>1. Cardinality(In("run")) < Threads
        BY <1>1, <3>2 DEF Begin
      <4> QED BY <2>3, <3>1, <3>2, <4>1
    <3>3. CASE ~Pooled
      <4>1. In("run") = {}
        BY <1>1, <3>3 DEF Begin
      <4>2. Cardinality(In("run")) = 0
        BY <4>1, FS_EmptySet
      <4> QED BY <2>3, <3>1, <3>3, <4>2
    <3> QED BY <3>2, <3>3
  <2> QED BY <1>1, <2>1, <2>4 DEF MatInv, PayloadComplete
<1>2. ASSUME NEW i \in Positions, Read(i) PROVE MatInv'
  <2>1. /\ stage' = stage /\ samples' = samples /\ stage = "fetch"
        /\ \/ work' = [work EXCEPT ![i] = "ok"] /\ tries' = tries
           \/ /\ tries[i] + 1 < MaxAttempts
              /\ tries' = [tries EXCEPT ![i] = tries[i] + 1] /\ work' = work
           \/ work' = [work EXCEPT ![i] = "bad"] /\ tries' = tries
    BY <1>2 DEF Read
  <2>2. work' \in [DOMAIN samples' -> {"wait", "run", "ok", "bad", "cut"}]
    BY <2>1 DEF MatInv
  <2>3. tries' \in [DOMAIN samples' -> 0..(MaxAttempts - 1)]
    BY <2>1, ThreadAssumption DEF MatInv, Positions
  <2>4. In("run")' \subseteq In("run")
    BY <2>1 DEF In, Positions, MatInv
  <2>5. (Cardinality(In("run")) <= IF Pooled THEN Threads ELSE 1)'
    BY <2>1, <2>4, FewerRun
  <2> QED BY <2>1, <2>2, <2>3, <2>5 DEF MatInv, PayloadComplete
<1>3. ASSUME NEW i \in Positions, Decode(i) PROVE MatInv'
  <2>1. /\ stage' = stage /\ samples' = samples /\ tries' = tries /\ stage = "decode"
        /\ work' \in {[work EXCEPT ![i] = "ok"], [work EXCEPT ![i] = "bad"]}
    BY <1>3 DEF Decode
  <2>2. In("run")' \subseteq In("run")
    BY <2>1 DEF In, Positions, MatInv
  <2>3. (Cardinality(In("run")) <= IF Pooled THEN Threads ELSE 1)'
    BY <2>1, <2>2, FewerRun
  <2> QED BY <2>1, <2>3 DEF MatInv, PayloadComplete
<1>4. CASE Cancel
  <2>1. /\ stage' = stage /\ samples' = samples /\ tries' = tries /\ stage \in {"fetch", "decode"}
        /\ work' = [i \in Positions |-> IF work[i] = "wait" THEN "cut" ELSE work[i]]
    BY <1>4 DEF Cancel
  <2>2. In("run")' \subseteq In("run")
    BY <2>1 DEF In, Positions
  <2>3. (Cardinality(In("run")) <= IF Pooled THEN Threads ELSE 1)'
    BY <2>1, <2>2, FewerRun
  <2>4. work' \in [DOMAIN samples' -> {"wait", "run", "ok", "bad", "cut"}]
    BY <2>1 DEF MatInv, Positions
  <2> QED BY <2>1, <2>3, <2>4 DEF MatInv, PayloadComplete
<1>5. CASE EndStage
  <2>1. samples' = samples /\ tries' = tries /\ In("run") = {}
    BY <1>5 DEF EndStage, Ended
  <2>2. \/ stage' = "failed" /\ work' = work
        \/ stage' = "decode" /\ work' = [i \in Positions |-> "wait"]
        \/ stage' = "done" /\ work' = work /\ payload' = [i \in Positions |-> samples[i]]
    BY <1>5 DEF EndStage, RowAt
  <2>3. In("run")' = {}
    BY <2>1, <2>2 DEF In, Positions
  <2>4. (Cardinality(In("run")) <= IF Pooled THEN Threads ELSE 1)'
    BY <2>3, FS_EmptySet, ThreadAssumption DEF Pooled, Threads
  <2>5. work' \in [DOMAIN samples' -> {"wait", "run", "ok", "bad", "cut"}]
    BY <2>1, <2>2 DEF MatInv, Positions
  <2>6. stage' = "done" => payload' = samples'
    BY <2>1, <2>2 DEF MatInv, Positions
  <2> QED BY <2>1, <2>2, <2>3, <2>4, <2>5, <2>6 DEF MatInv, PayloadComplete, Stages
<1> QED BY <1>1, <1>2, <1>3, <1>4, <1>5 DEF MatStep

-----------------------------------------------------------------------------
(* Batches *)

\* The samples of an index are in the order of their rows, each of them once.
LEMMA OrderOfSamples ==
    ASSUME NEW ix, DOMAIN ix.samples \in SUBSET Keys
    PROVE  /\ Cardinality(DOMAIN ix.samples) \in Nat
           /\ DOMAIN SamplesOf(ix) = 1..Cardinality(DOMAIN ix.samples)
           /\ \A i \in DOMAIN SamplesOf(ix) :
                \E k \in DOMAIN ix.samples : SamplesOf(ix)[i] = ix.samples[k]
<1> DEFINE keys == DOMAIN ix.samples
           n == Cardinality(keys)
<1>1. IsFiniteSet(keys) /\ keys \in SUBSET Nat /\ n \in Nat
  BY FiniteClasses, FS_CardinalityType
<1>2. \A i \in 0..(n - 1) : \E k \in keys : Before(k, keys) = i
  BY <1>1, NumberedByPosition
<1>3. DOMAIN InOrder(ix) = 1..n /\ DOMAIN SamplesOf(ix) = 1..n
  BY DEF InOrder, SamplesOf
<1>4. ASSUME NEW i \in 1..n PROVE \E k \in keys : SamplesOf(ix)[i] = ix.samples[k]
  <2>1. i - 1 \in 0..(n - 1)
    BY <1>1
  <2>2. InOrder(ix)[i] = CHOOSE k \in keys : Before(k, keys) = i - 1
    BY DEF InOrder
  <2>3. InOrder(ix)[i] \in keys
    BY <1>2, <2>1, <2>2
  <2>4. SamplesOf(ix)[i] = ix.samples[InOrder(ix)[i]]
    BY <1>3 DEF SamplesOf
  <2> QED BY <2>3, <2>4
<1> QED BY <1>1, <1>3, <1>4

\* A batch is a finite sequence of samples of the index.
LEMMA BatchOfSamples ==
    ASSUME NEW ix, DOMAIN ix.samples \in SUBSET Keys, NEW n \in Nat, NEW batch, batch = BatchOf(ix, n)
    PROVE  /\ IsFiniteSet(DOMAIN batch) /\ batch = [i \in DOMAIN batch |-> batch[i]]
           /\ \A i \in DOMAIN batch : \E k \in DOMAIN ix.samples : batch[i] = ix.samples[k]
<1> DEFINE s == SamplesOf(ix)
           size == Cardinality(DOMAIN ix.samples)
           S == {ix.samples[k] : k \in DOMAIN ix.samples}
           from == (n * BatchSize) + 1
           to == IF (n + 1) * BatchSize < size THEN (n + 1) * BatchSize ELSE size
<1>1. size \in Nat /\ DOMAIN s = 1..size /\ \A i \in 1..size : s[i] \in S
  BY OrderOfSamples
<1>2. s = [i \in 1..size |-> s[i]]
  BY <1>1 DEF SamplesOf
<1> HIDE DEF s, S, size
<1>3. s \in Seq(S) /\ Len(s) = size
  BY <1>1, <1>2
<1>4. from \in Int /\ to \in Int /\ from >= 1 /\ to <= size
  <2>1. n * BatchSize \in Nat /\ (n + 1) * BatchSize \in Nat
    BY RunAssumption
  <2> QED BY <1>1, <2>1
<1>5. batch = SubSeq(s, from, to)
  BY <1>3 DEF BatchOf, s
<1> HIDE DEF from, to
<1>6. \A i \in from..to : s[i] \in S
  BY <1>1, <1>4
<1>7. batch \in Seq(S)
  BY <1>4, <1>5, <1>6, SubSeqProperties
<1>8. Len(batch) \in Nat /\ DOMAIN batch = 1..Len(batch) /\ batch = [i \in DOMAIN batch |-> batch[i]]
  BY <1>7
<1>9. IsFiniteSet(DOMAIN batch)
  BY <1>8, FS_Interval
<1>10. \A i \in DOMAIN batch : batch[i] \in S
  BY <1>7
<1> QED BY <1>8, <1>9, <1>10 DEF S

-----------------------------------------------------------------------------
(* The run builds its indices as DatasetIndex says *)

\* What a step does to the data, by who takes it.
LEMMA DataSteps ==
    ASSUME [Next]_vars
    PROVE  [DatasetNext]_datasetVars
<1>1. ASSUME Resolve PROVE DatasetNext \/ UNCHANGED datasetVars
  BY <1>1, BuilderAssumption DEF Resolve, DatasetNext
<1>2. ASSUME DriverStep, ~Resolve PROVE UNCHANGED datasetVars
  BY <1>2 DEF DriverStep, BuildJobs, Submit, Collect, WriteSummaries, LoadCosts
<1>3. ASSUME NEW j \in Jobs, PrepareData(j) PROVE DatasetNext \/ UNCHANGED datasetVars
  BY <1>3, BuilderAssumption DEF PrepareData, DatasetNext
<1>4. ASSUME NEW j \in Jobs, JobStep(j) \/ LoseCoordinator(j) \/ Die(j), ~PrepareData(j)
      PROVE  UNCHANGED datasetVars
  BY <1>4 DEF JobStep, TakeDevice, TakeIndex, BuildModel, TrainPytorch, Request, Deliver, Flush,
              LeaveLoop, LoseCoordinator, Close, Die
<1>5. ASSUME NEW b \in Builders, Building(b) PROVE DatasetNext
  BY <1>5 DEF Building, DatasetNext
<1>6. ASSUME NEW k \in Keys, Upload(k) PROVE DatasetNext
  BY <1>6 DEF DatasetNext
<1>7. ASSUME Worker \/ WorkerDies \/ UNCHANGED vars PROVE UNCHANGED datasetVars
  BY <1>7 DEF Worker, WorkerDies, vars
<1> QED BY <1>1, <1>2, <1>3, <1>4, <1>5, <1>6, <1>7 DEF Next

\* The driver, the jobs and the coordinator of a run, each in its own process and
\* at its own time, do nothing to the data that DatasetIndex does not have: what
\* holds of the processes there holds of those of a run.
THEOREM DatasetImplemented == Spec => DatasetSpec
<1>1. Init => DatasetInit
  BY DEF Init
<1>2. [Next]_vars => [DatasetNext]_datasetVars
  BY DataSteps
<1> QED BY <1>1, <1>2, PTL DEF Spec, DatasetSpec

\* Every index of a run is well formed.
THEOREM RunIndexFits == Spec => []IndexWellFormed
BY DatasetImplemented, IndexFits, PTL

\* As long as the source is what it was, the driver sizes the models with the index
\* that the jobs and the coordinator train from.
THEOREM RunIndicesAgree == Spec => []BuildersAgree
BY DatasetImplemented, OneIndex, PTL

-----------------------------------------------------------------------------
(* What the steps of a run do, sorted by their effect on the jobs and their *)
(* files, on the worker, and on the driver.                                 *)

\* A process that has not come to its training loop.
Starting == {"off", "device", "data", "index", "model"}

Moves(j, q) ==
    /\ job[j] \in Live /\ q \in Live \cup {"failed", "killed"}
    /\ job' = [job EXCEPT ![j] = q]
    /\ UNCHANGED <<rows, unflushed, written, file, misfit>>
    /\ q \in Starting \cup {"failed"} => job[j] \in Starting
    /\ q = "model" => plan.system = "batchflow" \/ built[j] = "done"
    /\ q = "loop" => job[j] = "model"
    /\ q = "wait" => job[j] = "loop" /\ ~LoopOver(j) /\ plan.system = "batchflow"
    /\ q # "flush"
    /\ q = "closing" => LoopOver(j)

\* The job has a batch to train on.
Trains(j, batch) ==
    \/ /\ job[j] = "loop" /\ ~LoopOver(j) /\ plan.system = "pytorch"
       /\ batch = BatchOf(index[j], rows[j])
    \/ job[j] = "wait" /\ serving = j /\ stage = "done" /\ batch = payload

Writes(j) ==
    /\ \E batch \in {BatchOf(index[j], rows[j]), payload} : Trains(j, batch)
    /\ job' = [job EXCEPT ![j] = IF FlushDue(j) THEN "flush" ELSE "loop"]
    /\ WriteRow(j) /\ UNCHANGED misfit

Misfits(j) ==
    /\ \E batch \in {BatchOf(index[j], rows[j]), payload} : Trains(j, batch) /\ ~Fits(batch)
    /\ job' = [job EXCEPT ![j] = "giving up"]
    /\ misfit' = misfit \cup {j}
    /\ UNCHANGED <<rows, unflushed, written, file>>

LEMMA JobSteps ==
    ASSUME [Next]_vars
    PROVE  \/ UNCHANGED <<job, rows, unflushed, written, file, misfit>>
           \/ Submit
           \/ \E j \in Jobs : \/ \E q \in Live \cup Over : Moves(j, q)
                             \/ Writes(j) \/ Misfits(j) \/ Flush(j) \/ Close(j)
<1> USE DEF JobAt, Live, Over, Starting, UnchangedFiles
<1>1. ASSUME DriverStep, ~Submit PROVE UNCHANGED <<job, rows, unflushed, written, file, misfit>>
  BY <1>1 DEF DriverStep, BuildJobs, Resolve, Collect, WriteSummaries, LoadCosts, UnchangedJobs
<1>2. ASSUME NEW j \in Jobs, TakeDevice(j) \/ PrepareData(j) \/ TakeIndex(j) \/ BuildModel(j)
      PROVE  \E q \in Live \cup Over : Moves(j, q)
  <2>1. UNCHANGED <<rows, unflushed, written, file, misfit>>
    BY <1>2 DEF TakeDevice, PrepareData, TakeIndex, BuildModel
  <2>2. \E q \in {"data", "failed", "index", "model", "loop"} :
          /\ job' = [job EXCEPT ![j] = q] /\ job[j] \in {"device", "data", "index", "model"}
          /\ q = "model" => plan.system = "batchflow" \/ built[j] = "done"
          /\ q = "loop" => job[j] = "model"
    BY <1>2 DEF TakeDevice, PrepareData, TakeIndex, BuildModel
  <2> QED BY <2>1, <2>2 DEF Moves
<1>3. ASSUME NEW j \in Jobs, TrainPytorch(j)
      PROVE  (\E q \in Live \cup Over : Moves(j, q)) \/ Writes(j) \/ Misfits(j)
  <2>1. Trains(j, BatchOf(index[j], rows[j]))
    BY <1>3 DEF TrainPytorch, Trains
  <2>2. CASE TrainOn(j, BatchOf(index[j], rows[j]), "loop")
    BY <2>1, <2>2 DEF TrainOn, Writes, Misfits
  <2>3. CASE JobAt(j, "loop", "giving up") /\ UnchangedFiles /\ UNCHANGED misfit
    <3>1. Moves(j, "giving up")
      BY <2>3 DEF Moves
    <3> QED BY <3>1
  <2> QED BY <1>3, <2>2, <2>3 DEF TrainPytorch
<1>4. ASSUME NEW j \in Jobs, Request(j) PROVE Moves(j, "wait")
  BY <1>4 DEF Request, Moves
<1>5. ASSUME NEW j \in Jobs, Deliver(j)
      PROVE  \/ UNCHANGED <<job, rows, unflushed, written, file, misfit>>
             \/ Moves(j, "giving up") \/ Writes(j) \/ Misfits(j)
  <2>1. CASE job[j] = "wait" /\ stage = "done"
    <3>1. Trains(j, payload) /\ TrainOn(j, payload, "wait")
      BY <1>5, <2>1 DEF Deliver, Trains
    <3> QED BY <3>1 DEF TrainOn, Writes, Misfits
  <2>2. CASE job[j] = "wait" /\ stage = "failed"
    <3>1. JobAt(j, "wait", "giving up") /\ UnchangedFiles /\ UNCHANGED misfit
      BY <1>5, <2>2 DEF Deliver
    <3> QED BY <3>1 DEF Moves
  <2>3. CASE ~(job[j] = "wait" /\ stage = "done") /\ ~(job[j] = "wait" /\ stage = "failed")
    BY <1>5, <2>3 DEF Deliver
  <2> QED BY <2>1, <2>2, <2>3
<1>6. ASSUME NEW j \in Jobs, LeaveLoop(j) PROVE \E q \in Live \cup Over : Moves(j, q)
  <2>1. \E q \in {"closing", "giving up"} :
          /\ job' = [job EXCEPT ![j] = q] /\ job[j] = "loop" /\ (q = "closing" => LoopOver(j))
    BY <1>6 DEF LeaveLoop
  <2>2. UNCHANGED <<rows, unflushed, written, file, misfit>>
    BY <1>6 DEF LeaveLoop
  <2> QED BY <2>1, <2>2 DEF Moves
<1>7. ASSUME NEW j \in Jobs, Die(j) \/ LoseCoordinator(j)
      PROVE  \E q \in Live \cup Over : Moves(j, q)
  <2>1. CASE Die(j)
    <3>1. Moves(j, "killed")
      BY <2>1 DEF Die, Moves
    <3> QED BY <3>1
  <2>2. CASE LoseCoordinator(j)
    <3>1. Moves(j, "giving up")
      BY <2>2 DEF LoseCoordinator, Moves
    <3> QED BY <3>1
  <2> QED BY <1>7, <2>1, <2>2
<1>8. ASSUME NEW b \in Builders, Building(b) PROVE UNCHANGED <<job, rows, unflushed, written, file, misfit>>
  BY <1>8 DEF Building, runVars
<1>9. ASSUME Worker \/ WorkerDies \/ UNCHANGED vars \/ UNCHANGED <<matVars, runVars>>
      PROVE  UNCHANGED <<job, rows, unflushed, written, file, misfit>>
  BY <1>9 DEF Worker, WorkerDies, vars, runVars
<1>10. ASSUME NEW j \in Jobs, JobStep(j) \/ LoseCoordinator(j) \/ Die(j)
       PROVE  \/ UNCHANGED <<job, rows, unflushed, written, file, misfit>>
              \/ \E q \in Live \cup Over : Moves(j, q)
              \/ Writes(j) \/ Misfits(j) \/ Flush(j) \/ Close(j)
  BY <1>2, <1>3, <1>4, <1>5, <1>6, <1>7, <1>10 DEF JobStep
<1> HIDE DEF JobAt, Live, Over, Starting, UnchangedFiles
<1> QED BY <1>1, <1>8, <1>9, <1>10 DEF Next

\* A job's batch goes to the worker, as long as there is one.
HandsOut(j) == Request(j) /\ worker = "up"

LEMMA WorkerSteps ==
    ASSUME [Next]_vars
    PROVE  \/ UNCHANGED matVars /\ UNCHANGED serving
           \/ MatStep /\ UNCHANGED serving
           \/ Report /\ serving' = 0
           \/ \E j \in Jobs : HandsOut(j)
<1>1. ASSUME DriverStep PROVE UNCHANGED matVars /\ UNCHANGED serving
  BY <1>1 DEF DriverStep, BuildJobs, Resolve, Submit, Collect, WriteSummaries, LoadCosts, UnchangedJobs
<1>2. ASSUME NEW j \in Jobs, JobStep(j) \/ LoseCoordinator(j) \/ Die(j), ~HandsOut(j), ~Deliver(j)
      PROVE  UNCHANGED matVars /\ UNCHANGED serving
  <2>1. ASSUME Request(j) PROVE UNCHANGED matVars /\ UNCHANGED serving
    BY <1>2, <2>1 DEF Request, HandsOut
  <2> QED BY <1>2, <2>1 DEF JobStep, TakeDevice, PrepareData, TakeIndex, BuildModel, TrainPytorch, Flush,
                            LeaveLoop, LoseCoordinator, Close, Die
<1>3. ASSUME NEW j \in Jobs, Deliver(j) PROVE Report /\ serving' = 0
  BY <1>3 DEF Deliver
<1>4. ASSUME Worker PROVE MatStep /\ UNCHANGED serving
  BY <1>4 DEF Worker, runVars
<1>5. ASSUME WorkerDies \/ UNCHANGED vars \/ UNCHANGED <<matVars, runVars>>
      PROVE  UNCHANGED matVars /\ UNCHANGED serving
  BY <1>5 DEF WorkerDies, vars, runVars
<1>6. ASSUME NEW b \in Builders, Building(b) PROVE UNCHANGED <<matVars, runVars>>
  BY <1>6 DEF Building
<1> QED BY <1>1, <1>2, <1>3, <1>4, <1>5, <1>6 DEF Next

LEMMA DriverSteps ==
    ASSUME [Next]_vars
    PROVE  plan' = plan /\ (DriverStep \/ UNCHANGED <<driver, classes, summary>>)
<1>1. ASSUME DriverStep PROVE plan' = plan
  BY <1>1 DEF DriverStep, BuildJobs, Resolve, Submit, Collect, WriteSummaries, LoadCosts
<1>2. ASSUME NEW j \in Jobs, JobStep(j) \/ LoseCoordinator(j) \/ Die(j)
      PROVE  UNCHANGED <<plan, driver, classes, summary>>
  BY <1>2 DEF JobStep, TakeDevice, PrepareData, TakeIndex, BuildModel, TrainPytorch, Request, Deliver,
              Flush, LeaveLoop, LoseCoordinator, Close, Die, UnchangedRun
<1>3. ASSUME Worker \/ WorkerDies \/ UNCHANGED vars \/ UNCHANGED <<matVars, runVars>>
      PROVE  UNCHANGED <<plan, driver, classes, summary>>
  BY <1>3 DEF Worker, WorkerDies, vars, runVars
<1>4. ASSUME NEW b \in Builders, Building(b) PROVE UNCHANGED <<matVars, runVars>>
  BY <1>4 DEF Building
<1> QED BY <1>1, <1>2, <1>3, <1>4 DEF Next

-----------------------------------------------------------------------------
(* The invariant of a run *)

\* Types; a job that waits for a payload has a row to write when it comes; the
\* worker is idle unless it serves a job.
TypesInv ==
    /\ plan \in Plans
    /\ driver \in {"jobs", "resolve", "build", "submit", "collect", "summary", "cost", "done", "failed"}
    /\ classes \in Nat
    /\ job \in [Jobs -> Live \cup Over \cup {"off"}]
    /\ rows \in [Jobs -> Nat] /\ unflushed \in [Jobs -> Nat] /\ written \in [Jobs -> Nat]
    /\ worker \in {"up", "dead"}
    /\ file = [f \in Files |-> [exists |-> file[f].exists, rows |-> file[f].rows]]
    /\ built \in [Builders -> {"off", "load", "list", "save", "done", "failed"}]
    /\ serving \in Jobs \cup {0} /\ (serving = 0 => stage = "idle")
    /\ \A j \in Jobs : rows[j] <= Total(j) /\ (job[j] = "wait" => rows[j] < Total(j))

\* A job that may write a row has room for it before its next flush.
Filling == {"off", "device", "data", "index", "model", "loop", "wait"}

BufferInv ==
    /\ \A j \in Jobs : unflushed[j] <= FlushEvery
    /\ \A j \in Jobs : job[j] \in Filling => unflushed[j] < FlushEvery

\* A file of one job has the job's rows up to the last its file object has written
\* out, and perhaps a part of the next.  Only rows since the last flush are missing,
\* and none before the first row and after the close.
FileHas(j, torn) == file[FileOf(j)].rows = Lines(j, written[j], torn)

DiskInv ==
    /\ \A j \in Jobs :
        /\ written[j] <= rows[j] /\ rows[j] - written[j] <= unflushed[j]
        /\ job[j] \in {"ok", "failed"} => written[j] = rows[j]
        /\ job[j] \in Starting => rows[j] = 0
    /\ OwnFiles => \A j \in Jobs : \E torn \in BOOLEAN :
        FileHas(j, torn) /\ (torn => written[j] < rows[j])

\* A job ends well after all of its rows only; the driver summarizes after all jobs
\* ended well.
SummaryInv ==
    /\ \A j \in Jobs : job[j] \in {"closing", "ok"} => rows[j] = Total(j)
    /\ driver \in {"jobs", "resolve", "build", "submit"} => \A j \in Jobs : job[j] = "off"
    /\ driver \in {"jobs", "resolve", "build", "submit", "collect", "summary"} => summary = <<>>
    /\ driver = "summary" => \A j \in Jobs : job[j] = "ok"
    /\ SummaryExact

\* Before the jobs start the classes are known: those of the source, or those that
\* were configured.
ClassesKnown ==
    /\ ~OnS3 => classes = plan.classes
    /\ OnS3 /\ ~plan.counted /\ ~Retrieval /\ ~drift => classes = Index(source).classes

\* The samples of a task are those of the coordinator's index.
ServedSamples ==
    serving # 0 =>
        /\ built[Coordinator] = "done"
        /\ \A i \in DOMAIN samples :
            \E k \in DOMAIN index[Coordinator].samples : samples[i] = index[Coordinator].samples[k]

\* Who trains has an index.
LabelInv ==
    /\ driver = "build" => OnS3
    /\ driver = "submit" \/ (\E j \in Jobs : job[j] # "off") => ClassesKnown
    /\ \A j \in Jobs : job[j] = "wait" => plan.system = "batchflow"
    /\ \A j \in Jobs : plan.system = "pytorch" /\ job[j] \in {"model", "loop", "flush"} => built[j] = "done"
    /\ ServedSamples
    /\ LabelsFit

RunInv == RowsInv /\ AgreeInv /\ MatInv /\ TypesInv /\ BufferInv /\ DiskInv /\ SummaryInv /\ LabelInv

-----------------------------------------------------------------------------
(* Data *)

LEMMA IndexTypes ==
    ASSUME layout \in Layouts, NEW ix \in Indices
    PROVE  ix.classes \in Nat /\ DOMAIN ix.samples \in SUBSET Keys
<1>1. PICK keys \in SUBSET Keys : ix = Index(keys)
  BY DEF Indices
<1>2. Kept(keys) \in SUBSET Keys /\ Projected(keys) \in SUBSET Keys
  BY DEF Kept, Projected
<1>3. IsFiniteSet(ClassesOf(Kept(keys))) /\ IsFiniteSet(LabelNames(keys))
  BY <1>2, FiniteClasses, LayoutAssumption DEF LabelNames
<1>4. Cardinality(ClassesOf(Kept(keys))) \in Nat /\ Cardinality(LabelNames(keys)) \in Nat
  BY <1>3, FS_CardinalityType
<1>5. ix \in {ImageFolderIndex(keys), OpenImagesIndex(keys), RetrievalIndex(keys), SyntheticIndex(keys),
              NoIndex}
  BY <1>1 DEF Index
<1> QED BY <1>2, <1>4, <1>5, SizeAssumption
        DEF ImageFolderIndex, OpenImagesIndex, RetrievalIndex, SyntheticIndex, NoIndex

\* The layout never changes, a built index stays, and the source does while there is
\* no drift.
LEMMA DataKept ==
    ASSUME RowsInv, [DatasetNext]_datasetVars
    PROVE  /\ layout' = layout
           /\ ~drift' => ~drift /\ source' = source
           /\ \A b \in Builders : built[b] = "done" => built'[b] = "done" /\ index'[b] = index[b]
<1> USE DEF Step
<1>1. layout' = layout
  BY DEF DatasetNext, BuildStep, BeginBuild, LoadManifest, ListPage, ListFails, SaveManifest, Upload,
         datasetVars
<1>2. ~drift' => ~drift /\ source' = source
  BY DEF DatasetNext, BuildStep, BeginBuild, LoadManifest, ListPage, ListFails, SaveManifest, Upload,
         datasetVars
<1>3. \/ \E b \in Builders, p \in {"load", "list", "save", "done", "failed"} :
           /\ built[b] # "done" /\ (built' = built \/ built' = [built EXCEPT ![b] = p])
           /\ \/ index' = index
              \/ \E ix \in {Index(source), Index(seen[b] \cup Page(b)), manifest.index} :
                    index' = [index EXCEPT ![b] = ix]
      \/ built' = built /\ index' = index
  <2>1. ASSUME NEW b \in Builders, BeginBuild(b) PROVE <1>3!1
    BY <2>1 DEF BeginBuild
  <2>2. ASSUME NEW b \in Builders, LoadManifest(b) PROVE <1>3!1
    BY <2>2 DEF LoadManifest
  <2>3. ASSUME NEW b \in Builders, ListPage(b) PROVE <1>3!1
    BY <2>3 DEF ListPage
  <2>4. ASSUME NEW b \in Builders, ListFails(b) \/ SaveManifest(b) PROVE <1>3!1
    BY <2>4 DEF ListFails, SaveManifest
  <2>5. ASSUME (\E k \in Keys : Upload(k)) \/ UNCHANGED datasetVars PROVE built' = built /\ index' = index
    BY <2>5 DEF Upload, datasetVars
  <2> QED BY <2>1, <2>2, <2>3, <2>4, <2>5 DEF DatasetNext, BuildStep
<1>4. built = [b \in Builders |-> built[b]] /\ index = [b \in Builders |-> index[b]]
  BY DEF RowsInv
<1>5. \A b \in Builders : built[b] = "done" => built'[b] = "done" /\ index'[b] = index[b]
  BY <1>3, <1>4
<1> QED BY <1>1, <1>2, <1>5

LEMMA BuiltTypes ==
    ASSUME built \in [Builders -> {"off", "load", "list", "save", "done", "failed"}],
           [DatasetNext]_datasetVars
    PROVE  built' \in [Builders -> {"off", "load", "list", "save", "done", "failed"}]
<1>1. \/ \E b \in Builders, p \in {"load", "list", "save", "done", "failed"} :
            built' = [built EXCEPT ![b] = p]
      \/ built' = built
  BY DEF DatasetNext, BuildStep, BeginBuild, LoadManifest, ListPage, ListFails, SaveManifest, Upload,
         datasetVars, Step
<1> QED BY <1>1

-----------------------------------------------------------------------------
(* The worker in a run *)

\* What the coordinator hands out are samples of its index.
LEMMA RequestedBatch ==
    ASSUME RowsInv, TypesInv, NEW j \in Jobs, HandsOut(j)
    PROVE  \E batch : \E kind \in {"s3", "synthetic"} :
             /\ Materialize(batch, kind) /\ serving' = j /\ built[Coordinator] = "done"
             /\ IsFiniteSet(DOMAIN batch) /\ batch = [i \in DOMAIN batch |-> batch[i]]
             /\ \A i \in DOMAIN batch :
                  \E k \in DOMAIN index[Coordinator].samples : batch[i] = index[Coordinator].samples[k]
<1> DEFINE ix == index[Coordinator]
           n == EpochBatches(ix)
           batch == BatchOf(ix, rows[j] % n)
           kind == IF OnS3 THEN "s3" ELSE "synthetic"
<1>1. built[Coordinator] = "done" /\ Coordinator \in Builders
  BY BuilderAssumption DEF Request, HandsOut
<1>2. layout \in Layouts /\ ix \in Indices
  BY <1>1 DEF RowsInv
<1>3. DOMAIN ix.samples \in SUBSET Keys
  BY <1>2, IndexTypes
<1>4. Cardinality(DOMAIN ix.samples) \in Nat
  BY <1>3, OrderOfSamples
<1>5. n \in Int /\ n > 0
  <2>1. \A m \in Nat : m \div BatchSize \in Int /\ (m + BatchSize - 1) \div BatchSize \in Int
    BY RunAssumption
  <2>2. n \in Int
    BY <1>4, <2>1 DEF EpochBatches
  <2> QED BY <2>2 DEF Request, HandsOut
<1>6. rows[j] % n \in Nat
  <2>1. rows[j] \in Nat
    BY DEF TypesInv
  <2> HIDE DEF n
  <2> QED BY <1>5, <2>1
<1>7. Materialize(batch, kind) /\ serving' = j /\ kind \in {"s3", "synthetic"}
  BY DEF Request, HandsOut
<1> HIDE DEF n, kind
<1>8. /\ IsFiniteSet(DOMAIN batch) /\ batch = [i \in DOMAIN batch |-> batch[i]]
      /\ \A i \in DOMAIN batch : \E k \in DOMAIN ix.samples : batch[i] = ix.samples[k]
  BY <1>3, <1>6, BatchOfSamples
<1> HIDE DEF batch
<1> QED BY <1>1, <1>7, <1>8

LEMMA MatNext ==
    ASSUME RowsInv, TypesInv, MatInv, [Next]_vars PROVE MatInv'
<1>1. CASE UNCHANGED matVars
  BY <1>1 DEF matVars, MatInv, In, Positions, Pooled, Threads, PayloadComplete
<1>2. CASE MatStep
  BY <1>2, MatStepOk
<1>3. CASE Report
  BY <1>3, ReportOk
<1>4. ASSUME NEW j \in Jobs, HandsOut(j) PROVE MatInv'
  BY <1>4, RequestedBatch, MaterializeOk
<1> QED BY <1>1, <1>2, <1>3, <1>4, WorkerSteps

LEMMA ServedNext ==
    ASSUME RowsInv, TypesInv, ServedSamples, [Next]_vars PROVE ServedSamples'
<1>1. built[Coordinator] = "done" =>
        built'[Coordinator] = "done" /\ index'[Coordinator] = index[Coordinator]
  BY DataSteps, DataKept, BuilderAssumption
<1>2. CASE UNCHANGED serving /\ UNCHANGED samples
  BY <1>1, <1>2 DEF ServedSamples
<1>3. CASE serving' = 0
  BY <1>3 DEF ServedSamples
<1>4. ASSUME NEW j \in Jobs, HandsOut(j) PROVE ServedSamples'
  <2>1. PICK batch : \E kind \in {"s3", "synthetic"} :
             /\ Materialize(batch, kind) /\ serving' = j /\ built[Coordinator] = "done"
             /\ \A i \in DOMAIN batch :
                  \E k \in DOMAIN index[Coordinator].samples : batch[i] = index[Coordinator].samples[k]
    BY <1>4, RequestedBatch
  <2>2. samples' = batch
    BY <2>1 DEF Materialize
  <2> QED BY <1>1, <2>1, <2>2 DEF ServedSamples
<1>5. ASSUME MatStep PROVE UNCHANGED samples
  BY <1>5 DEF MatStep, Begin, Read, Decode, Cancel, EndStage
<1>6. ASSUME UNCHANGED matVars PROVE UNCHANGED samples
  BY <1>6 DEF matVars
<1> QED BY <1>2, <1>3, <1>4, <1>5, <1>6, WorkerSteps

-----------------------------------------------------------------------------
(* Types *)

LEMMA Totals == ASSUME plan \in Plans, NEW j \in Jobs PROVE Total(j) \in Nat /\ FileOf(j) \in Files
BY PlanAssumption DEF Total, FileOf, Files

LEMMA InitTypes == Init => TypesInv
<1> SUFFICES ASSUME Init PROVE TypesInv
  OBVIOUS
<1>1. \A j \in Jobs : Total(j) \in Nat
  BY Totals DEF Init
<1>2. stage = "idle" /\ built \in [Builders -> {"off"}]
  BY DEF Init, MatInit, DatasetInit
<1>3. \A j \in Jobs : rows[j] <= Total(j) /\ job[j] # "wait"
  BY <1>1 DEF Init
<1> QED BY <1>2, <1>3 DEF Init, TypesInv

\* What a file object writes out goes to its own file.
LEMMA FileWritten ==
    ASSUME TypesInv, NEW j \in Jobs, NEW e, NEW r,
           file' = [file EXCEPT ![FileOf(j)] = [exists |-> e, rows |-> r]]
    PROVE  /\ file' = [f \in Files |-> [exists |-> file'[f].exists, rows |-> file'[f].rows]]
           /\ file'[FileOf(j)].rows = r
           /\ \A f \in Files \ {FileOf(j)} : file'[f] = file[f]
<1>1. FileOf(j) \in Files
  BY Totals DEF TypesInv
<1>2. file = [f \in Files |-> [exists |-> file[f].exists, rows |-> file[f].rows]]
  BY DEF TypesInv
<1>3. file' = [f \in Files |-> IF f = FileOf(j) THEN [exists |-> e, rows |-> r] ELSE file[f]]
  BY <1>1, <1>2
<1>4. \A f \in Files : file[f] = [exists |-> file[f].exists, rows |-> file[f].rows]
  BY <1>2
<1>5. \A f \in Files : file'[f] = [exists |-> file'[f].exists, rows |-> file'[f].rows]
  BY <1>3, <1>4
<1>6. file' = [f \in Files |-> file'[f]]
  BY <1>3
<1>7. file' = [f \in Files |-> [exists |-> file'[f].exists, rows |-> file'[f].rows]]
  BY <1>5, <1>6
<1>8. file'[FileOf(j)].rows = r /\ \A f \in Files \ {FileOf(j)} : file'[f] = file[f]
  BY <1>1, <1>3
<1> QED BY <1>7, <1>8

\* A row more.
LEMMA RowWritten ==
    ASSUME TypesInv, NEW j \in Jobs, WriteRow(j)
    PROVE  /\ rows' = [rows EXCEPT ![j] = rows[j] + 1]
           /\ unflushed' = [unflushed EXCEPT ![j] = unflushed[j] + 1]
           /\ unflushed' \in [Jobs -> Nat] /\ written' \in [Jobs -> Nat]
           /\ file' = [f \in Files |-> [exists |-> file'[f].exists, rows |-> file'[f].rows]]
           /\ \A f \in Files \ {FileOf(j)} : file'[f] = file[f]
           /\ \E n \in Nat, torn \in BOOLEAN :
                /\ written[j] <= n /\ n <= rows[j] + 1 /\ (torn => n <= rows[j])
                /\ written' = [written EXCEPT ![j] = n]
                /\ file'[FileOf(j)].rows =
                      WriteOut(IF rows[j] = 0 THEN <<>> ELSE file[FileOf(j)].rows, j, n, torn)
<1> DEFINE old == IF rows[j] = 0 THEN <<>> ELSE file[FileOf(j)].rows
<1>1. /\ rows' = [rows EXCEPT ![j] = rows[j] + 1]
      /\ unflushed' = [unflushed EXCEPT ![j] = unflushed[j] + 1]
  BY DEF WriteRow
<1>2. PICK n \in written[j]..(rows[j] + 1), torn \in BOOLEAN :
        /\ torn => n <= rows[j]
        /\ written' = [written EXCEPT ![j] = n]
        /\ file' = [file EXCEPT ![FileOf(j)] = [exists |-> TRUE, rows |-> WriteOut(old, j, n, torn)]]
  BY DEF WriteRow
<1>3. n \in Nat /\ written[j] <= n /\ n <= rows[j] + 1
  BY DEF TypesInv
<1>4. /\ file' = [f \in Files |-> [exists |-> file'[f].exists, rows |-> file'[f].rows]]
      /\ file'[FileOf(j)].rows = WriteOut(old, j, n, torn)
      /\ \A f \in Files \ {FileOf(j)} : file'[f] = file[f]
  <2> HIDE DEF old
  <2> QED BY <1>2, FileWritten
<1>5. unflushed' \in [Jobs -> Nat] /\ written' \in [Jobs -> Nat]
  <2>1. unflushed[j] + 1 \in Nat
    BY DEF TypesInv
  <2> QED BY <1>1, <1>2, <1>3, <2>1 DEF TypesInv
<1> QED BY <1>1, <1>2, <1>3, <1>4, <1>5

\* The rest of the buffer.
LEMMA AllWritten ==
    ASSUME TypesInv, NEW j \in Jobs, WriteAll(j)
    PROVE  /\ rows' = rows
           /\ unflushed' = [unflushed EXCEPT ![j] = 0] /\ unflushed' \in [Jobs -> Nat]
           /\ written' = [written EXCEPT ![j] = rows[j]] /\ written' \in [Jobs -> Nat]
           /\ file' = [f \in Files |-> [exists |-> file'[f].exists, rows |-> file'[f].rows]]
           /\ file'[FileOf(j)].rows = Flushed(j)
           /\ \A f \in Files \ {FileOf(j)} : file'[f] = file[f]
<1>1. FileOf(j) \in Files
  BY Totals DEF TypesInv
<1>2. file[FileOf(j)] = [exists |-> file[FileOf(j)].exists, rows |-> file[FileOf(j)].rows]
  BY <1>1 DEF TypesInv
<1>3. ASSUME NEW r
      PROVE  [file EXCEPT ![FileOf(j)].rows = r]
               = [file EXCEPT ![FileOf(j)] = [exists |-> file[FileOf(j)].exists, rows |-> r]]
  <2>1. [file[FileOf(j)] EXCEPT !.rows = r] = [exists |-> file[FileOf(j)].exists, rows |-> r]
    BY <1>2
  <2> QED BY <2>1
<1>4. file' = [file EXCEPT ![FileOf(j)] = [exists |-> file[FileOf(j)].exists, rows |-> Flushed(j)]]
  BY <1>3 DEF WriteAll
<1>5. unflushed' \in [Jobs -> Nat] /\ written' \in [Jobs -> Nat]
  BY DEF WriteAll, TypesInv
<1>6. /\ file' = [f \in Files |-> [exists |-> file'[f].exists, rows |-> file'[f].rows]]
      /\ file'[FileOf(j)].rows = Flushed(j)
      /\ \A f \in Files \ {FileOf(j)} : file'[f] = file[f]
  BY <1>4, FileWritten
<1>7. /\ rows' = rows /\ unflushed' = [unflushed EXCEPT ![j] = 0]
      /\ written' = [written EXCEPT ![j] = rows[j]]
  BY DEF WriteAll
<1> QED BY <1>5, <1>6, <1>7

\* The end of a job's process.
LEMMA JobClosed ==
    ASSUME NEW j \in Jobs, Close(j)
    PROVE  /\ \/ job[j] = "closing" /\ job' = [job EXCEPT ![j] = "ok"]
              \/ job[j] = "giving up" /\ job' = [job EXCEPT ![j] = "failed"]
           /\ IF rows[j] = 0 THEN UNCHANGED <<rows, unflushed, written, file>> ELSE WriteAll(j)
BY DEF Close, JobAt, UnchangedFiles

LEMMA NextTypes ==
    ASSUME RowsInv, TypesInv, [Next]_vars PROVE TypesInv'
<1>1. plan' = plan /\ (DriverStep \/ UNCHANGED <<driver, classes, summary>>)
  BY DriverSteps
<1>2. driver' \in {"jobs", "resolve", "build", "submit", "collect", "summary", "cost", "done", "failed"}
  <2>1. ASSUME DriverStep PROVE driver' \in {"resolve", "build", "submit", "collect", "summary", "cost",
                                             "done", "failed"}
    BY <2>1 DEF DriverStep, BuildJobs, Resolve, Submit, Collect, WriteSummaries, LoadCosts, DriverAt
  <2> QED BY <1>1, <2>1 DEF TypesInv
<1>3. classes' \in Nat
  <2>1. ASSUME DriverStep
        PROVE  \/ classes' = classes \/ classes' = plan.classes
               \/ built[Driver] = "done" /\ classes' = index[Driver].classes
    BY <2>1 DEF DriverStep, BuildJobs, Resolve, Submit, Collect, WriteSummaries, LoadCosts
  <2>2. built[Driver] = "done" => index[Driver] \in Indices /\ layout \in Layouts
    BY BuilderAssumption DEF RowsInv
  <2>3. built[Driver] = "done" => index[Driver].classes \in Nat
    BY <2>2, IndexTypes
  <2> QED BY <1>1, <2>1, <2>3, PlanAssumption DEF TypesInv
<1>4. built' \in [Builders -> {"off", "load", "list", "save", "done", "failed"}]
  BY DataSteps, BuiltTypes DEF TypesInv
<1>5. serving' \in Jobs \cup {0} /\ (serving' = 0 => stage' = "idle")
  <2>1. ASSUME MatStep, stage = "idle" PROVE FALSE
    BY <2>1 DEF MatStep, Begin, Read, Decode, Cancel, EndStage
  <2>2. ASSUME Report PROVE stage' = "idle"
    BY <2>2 DEF Report
  <2>3. ASSUME NEW j \in Jobs, HandsOut(j) PROVE serving' = j /\ j # 0
    BY <2>3 DEF HandsOut, Request, Jobs
  <2> QED BY <2>1, <2>2, <2>3, WorkerSteps DEF TypesInv, matVars
<1> DEFINE JobTypes ==
             /\ job' \in [Jobs -> Live \cup Over \cup {"off"}]
             /\ rows' \in [Jobs -> Nat] /\ unflushed' \in [Jobs -> Nat] /\ written' \in [Jobs -> Nat]
             /\ file' = [f \in Files |-> [exists |-> file'[f].exists, rows |-> file'[f].rows]]
             /\ \A j \in Jobs : rows'[j] <= Total(j) /\ (job'[j] = "wait" => rows'[j] < Total(j))
<1>6. \A j \in Jobs : Total(j) \in Nat /\ rows[j] \in Nat
  BY Totals DEF TypesInv
<1>7. ASSUME UNCHANGED <<job, rows, unflushed, written, file>> PROVE JobTypes
  BY <1>7 DEF TypesInv
<1>8. ASSUME Submit PROVE JobTypes
  BY <1>8 DEF Submit, UnchangedJobs, UnchangedFiles, TypesInv, Live
<1>9. ASSUME NEW j \in Jobs, NEW q \in Live \cup Over, Moves(j, q) PROVE JobTypes
  <2>1. job' = [job EXCEPT ![j] = q] /\ UNCHANGED <<rows, unflushed, written, file>>
    BY <1>9 DEF Moves
  <2>2. q = "wait" => rows[j] < Total(j)
    <3>1. q = "wait" => rows[j] # Total(j)
      BY <1>9 DEF Moves, LoopOver
    <3>2. rows[j] <= Total(j) /\ rows[j] \in Nat /\ Total(j) \in Nat
      BY <1>6 DEF TypesInv
    <3> QED BY <3>1, <3>2
  <2> QED BY <2>1, <2>2 DEF TypesInv
<1>10. ASSUME NEW j \in Jobs, Writes(j) PROVE JobTypes
  <2>1. /\ WriteRow(j)
        /\ \E q \in {"loop", "flush"} : job' = [job EXCEPT ![j] = q]
        /\ ~LoopOver(j) \/ job[j] = "wait"
    BY <1>10 DEF Writes, Trains
  <2>2. rows[j] + 1 <= Total(j)
    BY <1>6, <2>1 DEF LoopOver, TypesInv
  <2>3. rows' = [rows EXCEPT ![j] = rows[j] + 1]
    BY <2>1, RowWritten
  <2>4. rows' \in [Jobs -> Nat] /\ \A k \in Jobs : rows'[k] <= Total(k) /\ (k # j => rows'[k] = rows[k])
    BY <1>6, <2>2, <2>3 DEF TypesInv
  <2>5. job' \in [Jobs -> Live \cup Over \cup {"off"}] /\ job'[j] # "wait"
        /\ \A k \in Jobs \ {j} : job'[k] = job[k]
    BY <2>1 DEF TypesInv, Live
  <2>6. /\ unflushed' \in [Jobs -> Nat] /\ written' \in [Jobs -> Nat]
        /\ file' = [f \in Files |-> [exists |-> file'[f].exists, rows |-> file'[f].rows]]
    BY <2>1, RowWritten
  <2> QED BY <2>4, <2>5, <2>6 DEF TypesInv
<1>11. ASSUME NEW j \in Jobs, Misfits(j) PROVE JobTypes
  BY <1>11 DEF Misfits, TypesInv, Live
<1>12. ASSUME NEW j \in Jobs, Flush(j) \/ Close(j) PROVE JobTypes
  <2>1. WriteAll(j) \/ UNCHANGED <<rows, unflushed, written, file>>
    BY <1>12, JobClosed DEF Flush
  <2>2. \E q \in {"loop", "ok", "failed"} : job' = [job EXCEPT ![j] = q]
    BY <1>12, JobClosed DEF Flush, JobAt
  <2>3. /\ rows' = rows /\ unflushed' \in [Jobs -> Nat] /\ written' \in [Jobs -> Nat]
        /\ file' = [f \in Files |-> [exists |-> file'[f].exists, rows |-> file'[f].rows]]
    BY <2>1, AllWritten DEF TypesInv
  <2>4. job' \in [Jobs -> Live \cup Over \cup {"off"}]
        /\ \A k \in Jobs : job'[k] = "wait" => job[k] = "wait"
    BY <2>2 DEF TypesInv, Over, Live
  <2> QED BY <2>3, <2>4 DEF TypesInv
<1>13. JobTypes
  <2> HIDE DEF JobTypes
  <2> QED BY <1>7, <1>8, <1>9, <1>10, <1>11, <1>12, JobSteps
<1>14. \A j \in Jobs : Total(j)' = Total(j)
  BY <1>1 DEF Total
<1>15. worker' \in {"up", "dead"}
  <2>1. ASSUME NEW j \in Jobs, JobStep(j) \/ LoseCoordinator(j) \/ Die(j) PROVE worker' = worker
    BY <2>1 DEF JobStep, TakeDevice, PrepareData, TakeIndex, BuildModel, TrainPytorch, Request, Deliver,
                Flush, LeaveLoop, LoseCoordinator, Close, Die, UnchangedRun
  <2>2. ASSUME DriverStep PROVE worker' = worker
    BY <2>2 DEF DriverStep, BuildJobs, Resolve, Submit, Collect, WriteSummaries, LoadCosts, UnchangedJobs
  <2>3. ASSUME NEW b \in Builders, Building(b) PROVE worker' = worker
    BY <2>3 DEF Building, runVars
  <2>4. ASSUME Worker \/ UNCHANGED vars \/ UNCHANGED <<matVars, runVars>> PROVE worker' = worker
    BY <2>4 DEF Worker, vars, runVars
  <2>5. ASSUME WorkerDies PROVE worker' = "dead"
    BY <2>5 DEF WorkerDies
  <2> QED BY <2>1, <2>2, <2>3, <2>4, <2>5 DEF Next, TypesInv
<1> QED BY <1>1, <1>2, <1>3, <1>4, <1>5, <1>13, <1>14, <1>15 DEF TypesInv

-----------------------------------------------------------------------------
(* Buffers *)

LEMMA InitBuffer == Init => BufferInv
BY RunAssumption DEF Init, BufferInv

LEMMA NextBuffer ==
    ASSUME TypesInv, SummaryInv, BufferInv, [Next]_vars PROVE BufferInv'
<1> DEFINE RoomKept == UNCHANGED unflushed /\ \A k \in Jobs : job'[k] \in Filling => job[k] \in Filling
<1>1. ASSUME RoomKept PROVE BufferInv'
  BY <1>1 DEF BufferInv
<1>2. CASE UNCHANGED <<job, rows, unflushed, written, file, misfit>>
  BY <1>1, <1>2
<1>3. CASE Submit
  <2>1. \A k \in Jobs : job[k] = "off"
    BY <1>3 DEF Submit, DriverAt, SummaryInv
  <2> QED BY <1>1, <1>3, <2>1 DEF Submit, UnchangedJobs, UnchangedFiles, Filling
<1>4. ASSUME NEW j \in Jobs, NEW q \in Live \cup Over, Moves(j, q) PROVE BufferInv'
  <2>1. job' = [job EXCEPT ![j] = q] /\ UNCHANGED unflushed /\ (q \in Filling => job[j] \in Filling)
    BY <1>4 DEF Moves, Filling, Starting
  <2>2. \A k \in Jobs : job'[k] = IF k = j THEN q ELSE job[k]
    BY <2>1 DEF TypesInv
  <2> QED BY <1>1, <2>1, <2>2
<1>5. ASSUME NEW j \in Jobs, Misfits(j) PROVE BufferInv'
  <2>1. \A k \in Jobs : job'[k] = IF k = j THEN "giving up" ELSE job[k]
    BY <1>5 DEF Misfits, TypesInv
  <2>2. UNCHANGED unflushed
    BY <1>5 DEF Misfits
  <2> QED BY <1>1, <2>1, <2>2 DEF Filling
<1>6. \A j \in Jobs : unflushed[j] \in Nat
  BY DEF TypesInv
<1>7. ASSUME NEW j \in Jobs, Writes(j) PROVE BufferInv'
  <2> DEFINE q == IF FlushDue(j) THEN "flush" ELSE "loop"
  <2>1. WriteRow(j) /\ job' = [job EXCEPT ![j] = q] /\ job[j] \in Filling
    BY <1>7 DEF Writes, Trains, Filling
  <2>2. unflushed' = [unflushed EXCEPT ![j] = unflushed[j] + 1]
    BY <2>1, RowWritten
  <2>3. \A k \in Jobs : /\ job'[k] = IF k = j THEN q ELSE job[k]
                        /\ unflushed'[k] = IF k = j THEN unflushed[j] + 1 ELSE unflushed[k]
    BY <2>1, <2>2 DEF TypesInv
  <2>4. unflushed[j] + 1 <= FlushEvery
    <3>1. unflushed[j] \in Nat /\ FlushEvery \in Nat
      BY <1>6, RunAssumption
    <3>2. unflushed[j] < FlushEvery
      BY <2>1, <3>1 DEF BufferInv
    <3> QED BY <3>1, <3>2
  <2>5. q \in Filling => unflushed[j] + 1 < FlushEvery
    BY <1>6, RunAssumption DEF FlushDue, Filling
  <2> HIDE DEF q
  <2> QED BY <2>3, <2>4, <2>5 DEF BufferInv
<1>8. ASSUME NEW j \in Jobs, WriteAll(j), \A k \in Jobs \ {j} : job'[k] = job[k] PROVE BufferInv'
  <2>1. \A k \in Jobs : unflushed'[k] = IF k = j THEN 0 ELSE unflushed[k]
    BY <1>8 DEF WriteAll, TypesInv
  <2> QED BY <1>8, <2>1, RunAssumption DEF BufferInv
<1>9. ASSUME NEW j \in Jobs, Flush(j) PROVE BufferInv'
  <2>1. WriteAll(j) /\ \A k \in Jobs \ {j} : job'[k] = job[k]
    BY <1>9 DEF Flush, JobAt, TypesInv
  <2> QED BY <1>8, <2>1
<1>10. ASSUME NEW j \in Jobs, Close(j) PROVE BufferInv'
  <2>1. \E q \in {"ok", "failed"} : job' = [job EXCEPT ![j] = q]
    BY <1>10, JobClosed
  <2>2. \A k \in Jobs : job'[k] = job[k] \/ job'[k] \notin Filling
    BY <2>1 DEF TypesInv, Filling
  <2>3. \A k \in Jobs \ {j} : job'[k] = job[k]
    BY <2>1 DEF TypesInv
  <2> QED BY <1>1, <1>8, <1>10, <2>2, <2>3, JobClosed
<1> QED BY <1>2, <1>3, <1>4, <1>5, <1>7, <1>9, <1>10, JobSteps

-----------------------------------------------------------------------------
(* Files *)

\* What is written out goes on where the file ended.
LEMMA WriteOutOfLines ==
    ASSUME TypesInv, NEW j \in Jobs, NEW n \in Nat, written[j] <= n,
           NEW t \in BOOLEAN, NEW torn \in BOOLEAN, NEW old, old = Lines(j, written[j], t)
    PROVE  WriteOut(old, j, n, torn) = Lines(j, n, torn \/ (n = written[j] /\ t))
<1> DEFINE m == written[j]
           len == IF t THEN m + 1 ELSE m
           last == IF torn THEN n + 1 ELSE n
           end == IF len > last THEN len ELSE last
           Row(i) == IF i \in (m + 1)..n THEN <<j, i>>
                     ELSE IF i <= len /\ ~(torn /\ i = last) THEN old[i] ELSE <<0, i>>
           tt == torn \/ (n = m /\ t)
<1>1. m \in Nat /\ m <= n
  BY DEF TypesInv
<1>2. len \in Nat /\ DOMAIN old = 1..len /\ \A i \in 1..len : old[i] = IF i <= m THEN <<j, i>> ELSE <<0, i>>
  BY <1>1 DEF Lines
<1>3. Len(old) = len
  <2>1. old = [i \in 1..len |-> old[i]]
    BY <1>2 DEF Lines
  <2> HIDE DEF len
  <2> QED BY <1>2, <2>1
<1>4. WriteOut(old, j, n, torn) = [i \in 1..end |-> Row(i)]
  <2> HIDE DEF len
  <2> QED BY <1>3 DEF WriteOut
<1>5. end = IF tt THEN n + 1 ELSE n
  BY <1>1
<1>6. ASSUME NEW i \in 1..end PROVE Row(i) = IF i <= n THEN <<j, i>> ELSE <<0, i>>
  <2>1. CASE i <= m
    <3>1. i \in 1..len /\ i \notin (m + 1)..n /\ i <= n /\ i # n + 1
      BY <1>1, <2>1
    <3>2. old[i] = <<j, i>>
      BY <1>2, <2>1, <3>1
    <3>3. ~(torn /\ i = last)
      BY <3>1
    <3> HIDE DEF len, last, m
    <3> QED BY <3>1, <3>2, <3>3
  <2>2. CASE i > m /\ i <= n
    <3>1. i \in (m + 1)..n
      BY <1>1, <2>2
    <3> QED BY <2>2, <3>1
  <2>3. CASE i > n
    <3>1. i \notin (m + 1)..n /\ i > m
      BY <1>1, <2>3
    <3>2. i <= len => old[i] = <<0, i>>
      <4>1. ASSUME i <= len PROVE i \in 1..len /\ ~(i <= m)
        BY <1>1, <1>2, <2>3, <4>1
      <4> HIDE DEF len, m
      <4> QED BY <1>2, <4>1
    <3> HIDE DEF len, last, m, end
    <3> QED BY <2>3, <3>1, <3>2
  <2> QED BY <1>1, <2>1, <2>2, <2>3
<1> HIDE DEF len, last, end, Row
<1>7. [i \in 1..end |-> Row(i)] = [i \in 1..end |-> IF i <= n THEN <<j, i>> ELSE <<0, i>>]
  BY <1>6
<1> QED BY <1>4, <1>5, <1>7 DEF Lines

LEMMA InitDisk == Init => DiskInv
<1> SUFFICES ASSUME Init PROVE DiskInv
  OBVIOUS
<1>1. \A j \in Jobs : rows[j] = 0 /\ unflushed[j] = 0 /\ job[j] = "off"
  BY DEF Init
<1>2. \A j \in Jobs : FileOf(j) \in Files /\ written[j] = 0
  BY Totals DEF Init
<1>3. \A j \in Jobs : file[FileOf(j)].rows = <<>> /\ Lines(j, 0, FALSE) = <<>>
  BY <1>2 DEF Init, Lines
<1>4. \A j \in Jobs : FileHas(j, FALSE)
  BY <1>2, <1>3 DEF FileHas
<1>5. \A j \in Jobs : \E torn \in BOOLEAN : FileHas(j, torn) /\ (torn => written[j] < rows[j])
  BY <1>4
<1>6. 0 <= 0 /\ 0 - 0 <= 0
  OBVIOUS
<1> QED BY <1>1, <1>2, <1>5, <1>6 DEF DiskInv

LEMMA NextDisk ==
    ASSUME TypesInv, DiskInv, SummaryInv, [Next]_vars PROVE DiskInv'
<1>1. plan' = plan
  BY DriverSteps
<1>2. OwnFiles' = OwnFiles /\ \A j \in Jobs : FileOf(j)' = FileOf(j)
  BY <1>1 DEF OwnFiles, FileOf
<1>3. \A j \in Jobs : FileOf(j) \in Files /\ Total(j) \in Nat
  BY Totals DEF TypesInv
<1>4. \A j \in Jobs : rows[j] \in Nat /\ unflushed[j] \in Nat /\ written[j] \in Nat /\ written[j] <= rows[j]
  BY DEF TypesInv, DiskInv
<1> DEFINE Counts == \A j \in Jobs :
             /\ written'[j] <= rows'[j] /\ rows'[j] - written'[j] <= unflushed'[j]
             /\ job'[j] \in {"ok", "failed"} => written'[j] = rows'[j]
             /\ job'[j] \in Starting => rows'[j] = 0
           FileKept(j) == \A torn \in BOOLEAN : FileHas(j, torn) /\ (torn => written[j] < rows[j]) =>
                            FileHas(j, torn)' /\ (torn => written'[j] < rows'[j])
           Has(j) == \E torn \in BOOLEAN : FileHas(j, torn)' /\ (torn => written'[j] < rows'[j])
<1>5. ASSUME Counts, OwnFiles => \A j \in Jobs : FileKept(j) \/ Has(j) PROVE DiskInv'
  <2>1. OwnFiles => \A j \in Jobs : Has(j)
    BY <1>5 DEF DiskInv
  <2> QED BY <1>2, <1>5, <2>1 DEF DiskInv
<1>6. ASSUME UNCHANGED <<rows, written, file>> PROVE \A j \in Jobs : FileKept(j)
  BY <1>2, <1>6 DEF FileHas
<1>7. CASE UNCHANGED <<job, rows, unflushed, written, file>>
  <2>1. Counts
    BY <1>7 DEF DiskInv
  <2> QED BY <1>5, <1>6, <1>7, <2>1
<1>8. CASE Submit
  <2>1. UNCHANGED <<rows, unflushed, written, file>> /\ job' = [j \in Jobs |-> "device"] /\ driver = "submit"
    BY <1>8 DEF Submit, UnchangedJobs, UnchangedFiles, DriverAt
  <2>2. \A j \in Jobs : rows[j] = 0
    BY <2>1 DEF SummaryInv, DiskInv, Starting
  <2>3. Counts
    BY <2>1, <2>2 DEF DiskInv
  <2> QED BY <1>5, <1>6, <2>1, <2>3
<1>9. ASSUME NEW j \in Jobs, NEW q \in Live \cup Over, Moves(j, q) PROVE DiskInv'
  <2>1. UNCHANGED <<rows, unflushed, written, file>> /\ job' = [job EXCEPT ![j] = q]
        /\ (q \in Starting \cup {"failed"} => job[j] \in Starting) /\ q # "ok"
    BY <1>9 DEF Moves, Live
  <2>2. q \in Starting \cup {"failed"} => rows[j] = 0 /\ written[j] = 0
    <3>1. q \in Starting \cup {"failed"} => rows[j] = 0
      BY <2>1 DEF DiskInv
    <3> QED BY <1>4, <3>1
  <2>3. \A k \in Jobs : job'[k] = IF k = j THEN q ELSE job[k]
    BY <2>1 DEF TypesInv
  <2>4. Counts
    BY <2>1, <2>2, <2>3 DEF DiskInv
  <2> QED BY <1>5, <1>6, <2>1, <2>4
<1>10. ASSUME NEW j \in Jobs, Misfits(j) PROVE DiskInv'
  <2>1. UNCHANGED <<rows, unflushed, written, file>> /\ job' = [job EXCEPT ![j] = "giving up"]
    BY <1>10 DEF Misfits
  <2>2. \A k \in Jobs : job'[k] = IF k = j THEN "giving up" ELSE job[k]
    BY <2>1 DEF TypesInv
  <2>3. Counts
    <3>1. "giving up" \notin Starting \cup {"ok", "failed"}
      BY DEF Starting
    <3> QED BY <2>1, <2>2, <3>1 DEF DiskInv
  <2> QED BY <1>5, <1>6, <2>1, <2>3
<1> DEFINE Others(j) == \A f \in Files \ {FileOf(j)} : file'[f] = file[f]
<1>11. ASSUME OwnFiles, NEW j \in Jobs, Others(j), NEW k \in Jobs \ {j},
              rows'[k] = rows[k], written'[k] = written[k]
       PROVE  FileKept(k)
  <2>1. FileOf(k) # FileOf(j) /\ FileOf(k) \in Files
    BY <1>3, <1>11 DEF OwnFiles
  <2>2. file'[FileOf(k)'] = file[FileOf(k)]
    BY <1>2, <1>11, <2>1
  <2> QED BY <1>11, <2>2 DEF FileHas
<1>12. ASSUME NEW j \in Jobs, Writes(j) PROVE DiskInv'
  <2> DEFINE q == IF FlushDue(j) THEN "flush" ELSE "loop"
             old == IF rows[j] = 0 THEN <<>> ELSE file[FileOf(j)].rows
  <2>1. WriteRow(j) /\ job' = [job EXCEPT ![j] = q] 
    BY <1>12 DEF Writes
  <2>2. /\ rows' = [rows EXCEPT ![j] = rows[j] + 1]
        /\ unflushed' = [unflushed EXCEPT ![j] = unflushed[j] + 1] /\ Others(j)
    BY <2>1, RowWritten
  <2>3. PICK n \in Nat, torn \in BOOLEAN :
           /\ written[j] <= n /\ n <= rows[j] + 1 /\ (torn => n <= rows[j])
           /\ written' = [written EXCEPT ![j] = n]
           /\ file'[FileOf(j)].rows = WriteOut(old, j, n, torn)
    BY <2>1, RowWritten
  <2>4. q \in {"flush", "loop"}
    OBVIOUS
  <2> HIDE DEF q
  <2>5. \A k \in Jobs : /\ rows'[k] = IF k = j THEN rows[j] + 1 ELSE rows[k]
                        /\ unflushed'[k] = IF k = j THEN unflushed[j] + 1 ELSE unflushed[k]
                        /\ written'[k] = IF k = j THEN n ELSE written[k]
                        /\ job'[k] = IF k = j THEN q ELSE job[k]
    BY <2>1, <2>2, <2>3 DEF TypesInv
  <2>6. Counts
    <3>1. (rows[j] + 1) - n <= unflushed[j] + 1
      BY <1>4, <2>3 DEF DiskInv
    <3> QED BY <2>3, <2>4, <2>5, <3>1 DEF DiskInv, Starting
  <2>7. ASSUME OwnFiles PROVE Has(j)
    <3>1. PICK t \in BOOLEAN : FileHas(j, t) /\ (t => written[j] < rows[j])
      BY <2>7 DEF DiskInv
    <3>2. old = Lines(j, written[j], t)
      <4>1. CASE rows[j] = 0
        <5>1. written[j] = 0 /\ ~t
          BY <1>4, <3>1, <4>1
        <5> QED BY <4>1, <5>1 DEF Lines
      <4>2. CASE rows[j] # 0
        BY <3>1, <4>2 DEF FileHas
      <4> QED BY <4>1, <4>2
    <3> HIDE DEF old
    <3> DEFINE tt == torn \/ (n = written[j] /\ t)
    <3>3. WriteOut(old, j, n, torn) = Lines(j, n, tt)
      BY <2>3, <3>2, WriteOutOfLines
    <3>4. tt => n < rows[j] + 1
      BY <1>4, <2>3, <3>1
    <3>5. tt \in BOOLEAN
      OBVIOUS
    <3> HIDE DEF tt
    <3>6. file'[FileOf(j)'].rows = Lines(j, written'[j], tt) /\ (tt => written'[j] < rows'[j])
      BY <1>2, <2>3, <2>5, <3>3, <3>4
    <3> QED BY <3>5, <3>6 DEF FileHas
  <2>8. ASSUME OwnFiles, NEW k \in Jobs PROVE FileKept(k) \/ Has(k)
    <3>1. k # j => FileKept(k)
      BY <1>11, <2>2, <2>5, <2>8
    <3> QED BY <2>7, <2>8, <3>1
  <2> QED BY <1>5, <2>6, <2>8
<1>13. ASSUME NEW j \in Jobs, Flush(j) \/ Close(j) PROVE DiskInv'
  <2>1. /\ \/ job[j] = "flush" /\ job' = [job EXCEPT ![j] = "loop"] /\ WriteAll(j)
           \/ \E q \in {"ok", "failed"} : job' = [job EXCEPT ![j] = q]
        /\ WriteAll(j) \/ (rows[j] = 0 /\ UNCHANGED <<rows, unflushed, written, file>>)
    BY <1>13, JobClosed DEF Flush, JobAt
  <2>2. \A k \in Jobs : /\ k # j => job'[k] = job[k]
                        /\ job'[j] \notin Starting
    BY <2>1 DEF TypesInv, Starting
  <2>3. CASE rows[j] = 0 /\ UNCHANGED <<rows, unflushed, written, file>>
    <3>1. written[j] = 0
      BY <1>4, <2>3
    <3>2. Counts
      BY <2>2, <2>3, <3>1 DEF DiskInv
    <3> QED BY <1>5, <1>6, <2>3, <3>2
  <2>4. CASE WriteAll(j)
    <3>1. /\ rows' = rows /\ unflushed' = [unflushed EXCEPT ![j] = 0]
          /\ written' = [written EXCEPT ![j] = rows[j]]
          /\ file'[FileOf(j)].rows = Flushed(j) /\ Others(j)
      BY <2>4, AllWritten
    <3>2. \A k \in Jobs : /\ unflushed'[k] = IF k = j THEN 0 ELSE unflushed[k]
                          /\ written'[k] = IF k = j THEN rows[j] ELSE written[k]
      BY <3>1 DEF TypesInv
    <3>3. Counts
      BY <1>4, <2>2, <3>1, <3>2 DEF DiskInv
    <3>4. ASSUME OwnFiles PROVE Has(j)
      <4>1. PICK t \in BOOLEAN : FileHas(j, t) /\ (t => written[j] < rows[j])
        BY <3>4 DEF DiskInv
      <4>2. Flushed(j) = Lines(j, rows[j], FALSE \/ (rows[j] = written[j] /\ t))
        BY <1>4, <4>1, WriteOutOfLines DEF FileHas, Flushed
      <4>3. (FALSE \/ (rows[j] = written[j] /\ t)) = FALSE
        BY <1>4, <4>1
      <4>4. file'[FileOf(j)'].rows = Lines(j, written'[j], FALSE)
        BY <1>2, <3>1, <3>2, <4>2, <4>3
      <4> QED BY <4>4 DEF FileHas
    <3>5. ASSUME OwnFiles, NEW k \in Jobs PROVE FileKept(k) \/ Has(k)
      <4>1. k # j => FileKept(k)
        BY <1>11, <3>1, <3>2, <3>5
      <4> QED BY <3>4, <3>5, <4>1
    <3> QED BY <1>5, <3>3, <3>5
  <2> QED BY <2>1, <2>3, <2>4
<1> HIDE DEF Counts, FileKept, Has, Others
<1> QED BY <1>7, <1>8, <1>9, <1>10, <1>12, <1>13, JobSteps

-----------------------------------------------------------------------------
(* Summaries *)

LEMMA DriverAlone ==
    ASSUME DriverStep PROVE Submit \/ UNCHANGED <<job, rows, unflushed, written, file, misfit>>
BY DEF DriverStep, BuildJobs, Resolve, Collect, WriteSummaries, LoadCosts, UnchangedJobs, UnchangedFiles

\* A job moves between its submission and its end only.
LEMMA IdleJobsKept ==
    ASSUME TypesInv, [Next]_vars, ~Submit, NEW j \in Jobs, job[j] \notin Live
    PROVE  job'[j] = job[j]
<1>1. \A k \in Jobs : Writes(k) \/ Misfits(k) => job[k] \in {"loop", "wait"}
  BY DEF Writes, Misfits, Trains
<1>2. ASSUME NEW k \in Jobs, Writes(k) \/ Misfits(k) PROVE job'[j] = job[j]
  <2>1. k # j
    BY <1>1, <1>2 DEF Live
  <2>2. \E q \in {"loop", "flush", "giving up"} : job' = [job EXCEPT ![k] = q]
    BY <1>2 DEF Writes, Misfits
  <2> QED BY <2>1, <2>2 DEF TypesInv
<1>3. ASSUME NEW k \in Jobs, NEW q \in Live \cup Over, Moves(k, q) PROVE job'[j] = job[j]
  BY <1>3 DEF Moves, TypesInv
<1>4. ASSUME NEW k \in Jobs, Flush(k) \/ Close(k) PROVE job'[j] = job[j]
  <2>1. k # j /\ \E q \in {"loop", "ok", "failed"} : job' = [job EXCEPT ![k] = q]
    BY <1>4 DEF Flush, Close, JobAt, Live
  <2> QED BY <2>1 DEF TypesInv
<1> QED BY <1>2, <1>3, <1>4, JobSteps

\* The summary of a whole file counts all its rows, and measures those after the
\* warm-up.
LEMMA SummaryOfLines ==
    ASSUME plan \in Plans, NEW j \in Jobs, file[FileOf(j)].rows = Lines(j, Total(j), FALSE)
    PROVE  /\ JobSummary(j).total = Total(j)
           /\ JobSummary(j).measured = {<<j, i>> : i \in (plan.warmup + 1)..Total(j)}
<1> DEFINE all == file[FileOf(j)].rows
           n == Total(j)
<1>1. n \in Nat /\ plan.warmup \in Nat /\ j # 0
  BY Totals, PlanAssumption DEF Jobs
<1>2. all = [i \in 1..n |-> <<j, i>>]
  BY DEF Lines
<1> HIDE DEF n, all
<1>3. Len(all) = n /\ DOMAIN all = 1..n
  BY <1>1, <1>2
<1>4. \A i \in 1..n : all[i] = <<j, i>> /\ (Measured(all[i]) <=> i > plan.warmup)
  BY <1>1, <1>2 DEF Measured
<1>5. {k \in DOMAIN all : Measured(all[k])} = (plan.warmup + 1)..n
  BY <1>1, <1>3, <1>4
<1>6. {all[i] : i \in {k \in DOMAIN all : Measured(all[k])}} = {<<j, i>> : i \in (plan.warmup + 1)..n}
  <2>1. \A i \in (plan.warmup + 1)..n : all[i] = <<j, i>>
    BY <1>1, <1>4
  <2> QED BY <1>5, <2>1
<1> QED BY <1>3, <1>6 DEF JobSummary, all, n

LEMMA InitSummary == Init => SummaryInv
BY DEF Init, SummaryInv, SummaryExact

LEMMA NextSummary ==
    ASSUME TypesInv, DiskInv, SummaryInv, [Next]_vars PROVE SummaryInv'
<1>1. plan' = plan /\ (DriverStep \/ UNCHANGED <<driver, classes, summary>>)
  BY DriverSteps
<1>2. OwnFiles' = OwnFiles /\ \A j \in Jobs : Total(j)' = Total(j) /\ Total(j) \in Nat
  BY <1>1, Totals DEF OwnFiles, FileOf, Total, TypesInv
<1> DEFINE Whole == \A j \in Jobs : job'[j] \in {"closing", "ok"} => rows'[j] = Total(j)
<1>3. ASSUME Submit PROVE SummaryInv'
  BY <1>3 DEF Submit, DriverAt, SummaryInv, SummaryExact
<1>4. Whole
  <2>1. ASSUME UNCHANGED <<job, rows>> PROVE Whole
    BY <2>1 DEF SummaryInv
  <2>2. ASSUME Submit PROVE Whole
    BY <2>2 DEF Submit
  <2>3. ASSUME NEW j \in Jobs, NEW q \in Live \cup Over, Moves(j, q) PROVE Whole
    <3>1. job' = [job EXCEPT ![j] = q] /\ rows' = rows /\ q # "ok" /\ (q = "closing" => rows[j] = Total(j))
      BY <2>3 DEF Moves, Live, LoopOver
    <3> QED BY <3>1 DEF SummaryInv, TypesInv
  <2>4. ASSUME NEW j \in Jobs, Writes(j) PROVE Whole
    <3>1. \E q \in {"loop", "flush"} :
            job' = [job EXCEPT ![j] = q] /\ rows' = [rows EXCEPT ![j] = rows[j] + 1]
      BY <2>4 DEF Writes, WriteRow
    <3> QED BY <3>1 DEF SummaryInv, TypesInv
  <2>5. ASSUME NEW j \in Jobs, Misfits(j) PROVE Whole
    BY <2>5 DEF Misfits, SummaryInv, TypesInv
  <2>6. ASSUME NEW j \in Jobs, Flush(j) \/ Close(j) PROVE Whole
    <3>1. rows' = rows /\ \/ job[j] = "closing" /\ job' = [job EXCEPT ![j] = "ok"]
                          \/ \E q \in {"loop", "failed"} : job' = [job EXCEPT ![j] = q]
      BY <2>6, JobClosed DEF Flush, JobAt, WriteAll
    <3> QED BY <3>1 DEF SummaryInv, TypesInv
  <2> HIDE DEF Whole
  <2> QED BY <2>1, <2>2, <2>3, <2>4, <2>5, <2>6, JobSteps
<1>5. ASSUME DriverStep, ~Submit PROVE SummaryInv'
  <2>1. UNCHANGED <<job, rows, unflushed, written, file>>
    BY <1>5, DriverAlone
  <2>2. CASE WriteSummaries /\ driver' = "cost"
    <3>1. summary' = [j \in Jobs |-> JobSummary(j)] /\ driver = "summary"
      BY <2>2 DEF WriteSummaries, DriverAt
    <3>2. \A j \in Jobs : job[j] = "ok" /\ rows[j] = Total(j) /\ written[j] = rows[j]
      BY <3>1 DEF SummaryInv, DiskInv
    <3>3. ASSUME OwnFiles, NEW j \in Jobs PROVE file[FileOf(j)].rows = Lines(j, Total(j), FALSE)
      <4>1. PICK torn \in BOOLEAN : FileHas(j, torn) /\ (torn => written[j] < rows[j])
        BY <3>3 DEF DiskInv
      <4>2. ~torn
        BY <1>2, <3>2, <4>1
      <4> QED BY <3>2, <4>1, <4>2 DEF FileHas
    <3>4. OwnFiles => \A j \in Jobs :
            /\ summary'[j].total = Total(j)
            /\ summary'[j].measured = {<<j, i>> : i \in (plan.warmup + 1)..Total(j)}
      BY <3>1, <3>3, SummaryOfLines DEF TypesInv, JobSummary
    <3>5. SummaryExact'
      BY <1>1, <1>2, <2>1, <3>2, <3>4 DEF SummaryExact
    <3> QED BY <1>2, <1>4, <2>2, <3>5 DEF SummaryInv
  <2>3. CASE ~(WriteSummaries /\ driver' = "cost")
    <3>1. summary' = summary
      BY <1>5, <2>3 DEF DriverStep, BuildJobs, Resolve, Collect, WriteSummaries, LoadCosts, DriverAt
    <3>2. /\ driver' \in {"resolve", "build", "submit"} => driver \in {"jobs", "resolve", "build", "submit"}
          /\ driver' \notin {"jobs", "collect"}
          /\ driver' = "summary" => driver = "collect" /\ NoErrors
      BY <1>5 DEF DriverStep, BuildJobs, Resolve, Collect, WriteSummaries, LoadCosts, DriverAt
    <3>3. SummaryExact'
      BY <1>1, <1>2, <2>1, <3>1 DEF SummaryInv, SummaryExact
    <3> QED BY <1>2, <1>4, <2>1, <3>1, <3>2, <3>3 DEF SummaryInv, NoErrors
  <2> QED BY <2>2, <2>3
<1>6. ASSUME ~DriverStep PROVE SummaryInv'
  <2>1. UNCHANGED <<driver, summary>>
    BY <1>1, <1>6
  <2>2. \A j \in Jobs : job[j] \in {"off", "ok"} => job'[j] = job[j]
    BY <1>6, IdleJobsKept DEF DriverStep, Live
  <2>3. SummaryExact'
    BY <1>1, <1>2, <2>1, <2>2 DEF SummaryInv, SummaryExact
  <2> QED BY <1>2, <1>4, <2>1, <2>2, <2>3 DEF SummaryInv
<1> QED BY <1>3, <1>5, <1>6

-----------------------------------------------------------------------------
(* Labels *)

\* All labels of an index are below its number of classes, and that is the number
\* every model was made for.
LEMMA SourceFits ==
    ASSUME RowsInv, AgreeInv, TypesInv, ClassesKnown, ~drift,
           IF OnS3 THEN ~plan.counted ELSE plan.classes >= NumClasses,
           NEW b \in Builders, built[b] = "done",
           NEW batch, \A i \in DOMAIN batch :
                        \E k \in DOMAIN index[b].samples : batch[i] = index[b].samples[k]
    PROVE  Fits(batch)
<1> SUFFICES ASSUME ~Retrieval, NEW i \in DOMAIN batch PROVE batch[i].label < classes
  BY DEF Fits
<1>1. layout \in Layouts /\ layout.format \in Formats \cup {"synthetic"} /\ index[b] \in Indices
  BY DEF RowsInv
<1>2. WellFormed(index[b])
  BY <1>1, EveryIndexWellFormed DEF Indices
<1>3. batch[i].label \in 0..(index[b].classes - 1)
  BY <1>2 DEF WellFormed
<1>4. index[b].classes \in Nat /\ classes \in Nat /\ index[b].classes <= classes
  <2>1. index[b].classes \in Nat /\ classes \in Nat
    BY <1>1, IndexTypes DEF TypesInv
  <2>2. CASE OnS3
    <3>1. index[b] = Index(source) /\ classes = Index(source).classes
      BY <2>2 DEF AgreeInv, ClassesKnown
    <3> QED BY <2>1, <3>1
  <2>3. CASE ~OnS3
    <3>1. index[b].classes = NumClasses
      <4>1. PICK keys \in SUBSET Keys : index[b] = Index(keys)
        BY <1>1 DEF Indices
      <4> QED BY <2>3, <4>1 DEF Index, SyntheticIndex, OnS3
    <3>2. classes = plan.classes /\ plan.classes >= NumClasses
      BY <2>3 DEF ClassesKnown
    <3> QED BY <2>1, <3>1, <3>2, SizeAssumption
  <2> QED BY <2>1, <2>2, <2>3
<1> QED BY <1>3, <1>4

\* Whoever trains in such a run has a batch that fits.
LEMMA NobodyMeetsMisfit ==
    ASSUME RowsInv, AgreeInv, MatInv, TypesInv, LabelInv, ~drift,
           IF OnS3 THEN ~plan.counted ELSE plan.classes >= NumClasses, NEW j \in Jobs
    PROVE  ~Misfits(j)
<1> SUFFICES ASSUME Misfits(j) PROVE FALSE
  OBVIOUS
<1>1. PICK batch : Trains(j, batch) /\ ~Fits(batch)
  BY DEF Misfits
<1>2. ClassesKnown
  BY <1>1 DEF LabelInv, Trains
<1>3. CASE job[j] = "loop" /\ plan.system = "pytorch" /\ batch = BatchOf(index[j], rows[j])
  <2>1. built[j] = "done" /\ j \in Builders
    BY <1>3, BuilderAssumption DEF LabelInv
  <2>2. layout \in Layouts /\ index[j] \in Indices /\ rows[j] \in Nat
    BY <2>1 DEF RowsInv, TypesInv
  <2>3. DOMAIN index[j].samples \in SUBSET Keys
    BY <2>2, IndexTypes
  <2>4. \A i \in DOMAIN batch : \E k \in DOMAIN index[j].samples : batch[i] = index[j].samples[k]
    BY <1>3, <2>2, <2>3, BatchOfSamples
  <2> QED BY <1>1, <1>2, <2>1, <2>4, SourceFits
<1>4. CASE serving = j /\ stage = "done" /\ batch = payload
  <2>1. serving # 0 /\ Coordinator \in Builders /\ payload = samples
    BY <1>4, BuilderAssumption DEF Jobs, MatInv, PayloadComplete
  <2>2. built[Coordinator] = "done" /\ \A i \in DOMAIN batch :
          \E k \in DOMAIN index[Coordinator].samples : batch[i] = index[Coordinator].samples[k]
    BY <1>4, <2>1 DEF LabelInv, ServedSamples
  <2> QED BY <1>1, <1>2, <2>1, <2>2, SourceFits
<1> QED BY <1>1, <1>3, <1>4 DEF Trains

LEMMA InitLabels == Init => LabelInv
<1> SUFFICES ASSUME Init PROVE LabelInv
  OBVIOUS
<1>1. driver = "jobs" /\ misfit = {} /\ serving = 0 /\ \A j \in Jobs : job[j] = "off"
  BY DEF Init
<1> QED BY <1>1 DEF LabelInv, ServedSamples, LabelsFit

LEMMA NextLabels ==
    ASSUME RowsInv, AgreeInv, MatInv, TypesInv, SummaryInv, LabelInv, [Next]_vars PROVE LabelInv'
<1>1. plan' = plan /\ (DriverStep \/ UNCHANGED <<driver, classes, summary>>)
  BY DriverSteps
<1>2. /\ layout' = layout
      /\ ~drift' => ~drift /\ source' = source
      /\ \A b \in Builders : built[b] = "done" => built'[b] = "done" /\ index'[b] = index[b]
  BY DataSteps, DataKept
<1>3. /\ OnS3' = OnS3 /\ Retrieval' = Retrieval
      /\ \A keys : Index(keys)' = Index(keys)
  BY <1>2, IndexKept DEF OnS3, Retrieval
<1>4. driver' = "build" => OnS3
  <2>1. driver' = "build" => OnS3 \/ driver = "build"
    BY <1>1 DEF DriverStep, BuildJobs, Resolve, Submit, Collect, WriteSummaries, LoadCosts, DriverAt
  <2> QED BY <2>1 DEF LabelInv
<1>5. driver' = "submit" \/ (\E j \in Jobs : job'[j] # "off") => ClassesKnown'
  <2>1. CASE driver = "submit" \/ \E j \in Jobs : job[j] # "off"
    <3>1. driver \notin {"resolve", "build"}
      BY <2>1 DEF SummaryInv
    <3>2. classes' = classes
      BY <1>1, <3>1 DEF DriverStep, BuildJobs, Resolve, Submit, Collect, WriteSummaries, LoadCosts, DriverAt
    <3>3. ~drift' => ~drift /\ Index(source)' = Index(source)
      BY <1>2, IndexKept
    <3> QED BY <1>1, <1>3, <2>1, <3>2, <3>3 DEF LabelInv, ClassesKnown
  <2>2. CASE driver # "submit" /\ \A j \in Jobs : job[j] = "off"
    <3>1. \A j \in Jobs : job'[j] = "off"
      <4>1. ~Submit
        BY <2>2 DEF Submit, DriverAt
      <4> QED BY <2>2, <4>1, IdleJobsKept DEF Live
    <3>2. SUFFICES ASSUME driver' = "submit" PROVE ClassesKnown'
      BY <3>1
    <3>3. Resolve
      BY <1>1, <2>2, <3>2
         DEF DriverStep, BuildJobs, Resolve, Submit, Collect, WriteSummaries, LoadCosts, DriverAt
    <3>4. CASE (~OnS3 \/ plan.counted) /\ classes' = plan.classes
      BY <1>1, <1>3, <3>4 DEF ClassesKnown
    <3>5. CASE /\ built[Driver] = "done" /\ driver = "build" /\ UNCHANGED datasetVars
               /\ classes' = IF Retrieval THEN plan.classes ELSE index[Driver].classes
      <4>1. OnS3
        BY <3>5 DEF LabelInv
      <4>2. ~drift => index[Driver] = Index(source)
        BY <3>5, BuilderAssumption DEF AgreeInv
      <4>3. drift' = drift /\ Index(source)' = Index(source)
        BY <3>5, IndexKept DEF datasetVars
      <4> QED BY <1>1, <1>3, <3>5, <4>1, <4>2, <4>3 DEF ClassesKnown
    <3> QED BY <3>2, <3>3, <3>4, <3>5 DEF Resolve, DriverAt
  <2> QED BY <2>1, <2>2
<1> DEFINE Waits == \A j \in Jobs : job'[j] = "wait" => plan.system = "batchflow"
           Loads == \A j \in Jobs :
                      plan.system = "pytorch" /\ job'[j] \in {"model", "loop", "flush"} => built'[j] = "done"
<1>6. \A j \in Jobs : built[j] = "done" => built'[j] = "done"
  BY <1>2, BuilderAssumption
<1>7. Waits /\ Loads
  <2>1. ASSUME job' = job PROVE Waits /\ Loads
    BY <1>6, <2>1 DEF LabelInv
  <2>2. ASSUME Submit PROVE Waits /\ Loads
    BY <2>2 DEF Submit
  <2>3. ASSUME NEW j \in Jobs, NEW q \in Live \cup Over, Moves(j, q) PROVE Waits /\ Loads
    <3>1. /\ job' = [job EXCEPT ![j] = q]
          /\ q = "wait" => plan.system = "batchflow"
          /\ q = "model" => plan.system = "batchflow" \/ built[j] = "done"
          /\ (q = "loop" => job[j] = "model") /\ q # "flush"
      BY <2>3 DEF Moves
    <3>2. \A k \in Jobs : job'[k] = IF k = j THEN q ELSE job[k]
      BY <3>1 DEF TypesInv
    <3> QED BY <1>6, <3>1, <3>2 DEF LabelInv
  <2>4. ASSUME NEW j \in Jobs, Writes(j) PROVE Waits /\ Loads
    <3>1. PICK q \in {"loop", "flush"} : job' = [job EXCEPT ![j] = q] /\ job[j] \in {"loop", "wait"}
      BY <2>4 DEF Writes, Trains
    <3>2. \A k \in Jobs : job'[k] = IF k = j THEN q ELSE job[k]
      BY <3>1 DEF TypesInv
    <3> QED BY <1>6, <3>1, <3>2 DEF LabelInv
  <2>5. ASSUME NEW j \in Jobs, Misfits(j) \/ Close(j) PROVE Waits /\ Loads
    <3>1. \E q \in {"giving up", "ok", "failed"} : job' = [job EXCEPT ![j] = q]
      BY <2>5 DEF Misfits, Close, JobAt
    <3>2. \A k \in Jobs : job'[k] \in {"wait", "model", "loop", "flush"} => job'[k] = job[k]
      BY <3>1 DEF TypesInv
    <3> QED BY <1>6, <3>2 DEF LabelInv
  <2>6. ASSUME NEW j \in Jobs, Flush(j) PROVE Waits /\ Loads
    <3>1. job[j] = "flush" /\ job' = [job EXCEPT ![j] = "loop"]
      BY <2>6 DEF Flush, JobAt
    <3>2. \A k \in Jobs : job'[k] = IF k = j THEN "loop" ELSE job[k]
      BY <3>1 DEF TypesInv
    <3> QED BY <1>6, <3>1, <3>2 DEF LabelInv
  <2> HIDE DEF Waits, Loads
  <2> QED BY <2>1, <2>2, <2>3, <2>4, <2>5, <2>6, JobSteps
<1>8. ServedSamples'
  BY ServedNext DEF LabelInv
<1>9. LabelsFit'
  <2> SUFFICES ASSUME ~drift', (IF OnS3 THEN ~plan.counted ELSE plan.classes >= NumClasses)'
               PROVE  misfit' = {}
    BY DEF LabelsFit
  <2>1. ~drift /\ IF OnS3 THEN ~plan.counted ELSE plan.classes >= NumClasses
    BY <1>1, <1>2, <1>3
  <2>2. misfit = {} /\ \A j \in Jobs : ~Misfits(j)
    BY <2>1, NobodyMeetsMisfit DEF LabelInv, LabelsFit
  <2>3. UNCHANGED misfit
    BY <2>2, JobSteps DEF Submit, UnchangedJobs, Moves, Writes, Flush, Close
  <2> QED BY <2>2, <2>3
<1> QED BY <1>1, <1>3, <1>4, <1>5, <1>7, <1>8, <1>9 DEF LabelInv

-----------------------------------------------------------------------------
(* The theorems *)

LEMMA RunInit == Init => RunInv
BY RowsInit, AgreeInit, MatInitOk, InitTypes, InitBuffer, InitDisk, InitSummary, InitLabels
DEF Init, RunInv

LEMMA RunNext == RunInv /\ [Next]_vars => RunInv'
BY DataSteps, RowsStep, AgreeStep, MatNext, NextTypes, NextBuffer, NextDisk, NextSummary, NextLabels
DEF RunInv

LEMMA RunIsSafe == Spec => []RunInv
BY RunInit, RunNext, PTL DEF Spec

\* A payload has the rows of its batch in their order, whatever the threads of the
\* two pools do and whoever died meanwhile, and no thread is left at work behind an
\* outcome.
THEOREM PayloadsAreComplete == Spec => []PayloadComplete
<1>1. RunInv => PayloadComplete
  BY DEF RunInv, MatInv
<1> QED BY RunIsSafe, <1>1, PTL

\* Every part of a run has its type; no job writes more rows than it has batches, and
\* no pool runs more threads than it has.
THEOREM RunTypes == Spec => []RunTypeOK
<1>1. RunInv => RunTypeOK
  <2> SUFFICES ASSUME RunInv PROVE RunTypeOK
    OBVIOUS
  <2>1. \A j \in Jobs : /\ rows[j] \in 0..Total(j) /\ written[j] \in 0..rows[j]
                        /\ unflushed[j] \in 0..FlushEvery
    <3>1. \A j \in Jobs : /\ rows[j] \in Nat /\ written[j] \in Nat /\ unflushed[j] \in Nat
                          /\ rows[j] <= Total(j) /\ Total(j) \in Nat
      BY Totals DEF RunInv, TypesInv
    <3>2. \A j \in Jobs : written[j] <= rows[j]
      BY DEF RunInv, DiskInv
    <3>3. \A j \in Jobs : unflushed[j] <= FlushEvery
      BY <3>1, RunAssumption DEF RunInv, BufferInv
    <3> QED BY <3>1, <3>2, <3>3, RunAssumption
  <2>2. \A i \in DOMAIN tries : tries[i] < MaxAttempts
    BY ThreadAssumption DEF RunInv, MatInv
  <2> QED BY <2>1, <2>2 DEF RunInv, RowsInv, TypesInv, MatInv, RunTypeOK
<1> QED BY RunIsSafe, <1>1, PTL

\* A process that dies, at whatever time its file object writes its buffer out, leaves
\* its rows up to one of the last flush_every_batches and at most a part of the next;
\* a job that ends, well or not, leaves all its rows.
THEOREM RowsAreKept == Spec => []RowsSurvive
<1>1. RunInv => RowsSurvive
  <2> SUFFICES ASSUME RunInv, OwnFiles, NEW j \in Jobs
               PROVE  \E n \in 0..rows[j], torn \in BOOLEAN :
                        /\ file[FileOf(j)].rows = Lines(j, n, torn)
                        /\ torn => n < rows[j]
                        /\ rows[j] - n <= FlushEvery
                        /\ job[j] \in {"ok", "failed"} => n = rows[j]
    BY DEF RowsSurvive
  <2>1. PICK torn \in BOOLEAN : FileHas(j, torn) /\ (torn => written[j] < rows[j])
    BY DEF RunInv, DiskInv
  <2>2. written[j] \in 0..rows[j] /\ (job[j] \in {"ok", "failed"} => written[j] = rows[j])
    BY DEF RunInv, DiskInv, TypesInv
  <2>3. rows[j] - written[j] <= FlushEvery
    <3>1. rows[j] \in Nat /\ written[j] \in Nat /\ unflushed[j] \in Nat /\ FlushEvery \in Nat
      BY RunAssumption DEF RunInv, TypesInv
    <3>2. rows[j] - written[j] <= unflushed[j]
      BY DEF RunInv, DiskInv
    <3>3. unflushed[j] <= FlushEvery
      BY <3>1 DEF RunInv, BufferInv
    <3> QED BY <3>1, <3>2, <3>3
  <2> QED BY <2>1, <2>2, <2>3 DEF FileHas
<1> QED BY RunIsSafe, <1>1, PTL

\* Once summaries are written every job came to its end; they count all the rows of
\* each, and measure exactly those after its warm-up.
THEOREM SummariesAreExact == Spec => []SummaryExact
<1>1. RunInv => SummaryExact
  BY DEF RunInv, SummaryInv
<1> QED BY RunIsSafe, <1>1, PTL

\* No model meets a label it has no output for, in whatever order driver, jobs and
\* coordinator build their indices, for any number of rows, classes and jobs.
THEOREM LabelsAlwaysFit == Spec => []LabelsFit
<1>1. RunInv => LabelsFit
  BY DEF RunInv, LabelInv
<1> QED BY RunIsSafe, <1>1, PTL
=============================================================================
