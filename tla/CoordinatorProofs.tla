------------------------- MODULE CoordinatorProofs -------------------------
(***************************************************************************)
(* Theorems about Coordinator, for any jobs, workers, depths, bounds and   *)
(* faults: type correctness; safety invariants about tasks, about payloads,*)
(* handles and pins, and about the calls of a job; and that these calls    *)
(* implement BatchDelivery.                                                *)
(***************************************************************************)
EXTENDS Coordinator, FiniteSetTheorems, TLAPS

-----------------------------------------------------------------------------
(* Type correctness.  TypeOK is not inductive: what the handlers keep in   *)
(* their locals while they are at work has to be known as well.            *)

\* A GetNextBatch call has a batch in hand once it found one, and works on
\* an epoch below the bound until it moves the job to the next one.
GnbTypes ==
    \A j \in Jobs :
        /\ gnbPc[j] \in {"resolve", "pin", "issue", "epoch", "clear", "reply"}
              => gnbBatch[j] \in Batch
        /\ gnbPc[j] \in {"lookup", "retry", "resolve", "pin", "issue", "epoch"}
              => progress[j].epoch < MaxEpoch
        /\ gnbPc[j] \in {"refresh", "window"} /\ gnbBatch[j] = NoBatch
              => progress[j].epoch < MaxEpoch

\* A scheduler at work has a job.
PlanTypes ==
    /\ \A p \in Planners :
          planPc[p] \in {"check", "index", "store", "read", "each", "create"}
              => planJob[p] \in Jobs
    /\ \A j \in Jobs : planJob[j] = j

\* A worker at work has a task.
WorkerTypes ==
    \A w \in Workers :
        wkPc[w] \in {"assign", "run", "complete", "fail"} => wkTask[w] \in TaskId

\* A batch id maps to a task of that batch.
MappingTypes ==
    \A b \in Batch : taskOf[b] # NoTask =>
        tasks[taskOf[b]] \in TaskRecord /\ tasks[taskOf[b]].batch = b

TypeInv == TypeOK /\ GnbTypes /\ PlanTypes /\ WorkerTypes /\ MappingTypes

LEMMA BatchAtType ==
    ASSUME NEW j \in Jobs, NEW e \in 0..MaxEpoch, NEW i \in 0..(BatchesPerEpoch - 1)
    PROVE  BatchAt(j, e, i) \in Batch
BY DEF BatchAt, Batch, Owner

LEMMA WindowFromType ==
    ASSUME NEW j \in Jobs, NEW e \in 0..MaxEpoch, NEW i
    PROVE  WindowFrom(j, e, i) \subseteq Batch
BY BatchAtType DEF WindowFrom

LEMMA InitType == Init => TypeInv
BY DepthAssumption, BoundAssumption, NameAssumption, NoBatchAssumption
   DEF Init, TypeInv, TypeOK, GnbTypes, PlanTypes, WorkerTypes, MappingTypes,
       Planners, NoTask

\* What a GetNextBatch call may change, apart from the rest of TypeOK.
CallTypes ==
    /\ gnbPc \in [Jobs -> {"off", "idle", "lookup", "refresh", "retry", "window",
                           "resolve", "pin", "issue", "epoch", "clear", "reply",
                           "failed", "done", "none"}]
    /\ gnbBatch \in [Jobs -> Batch \cup {NoBatch}]
    /\ progress \in [Jobs -> [epoch : 0..MaxEpoch, next : 0..BatchesPerEpoch]]
    /\ planned \in [Jobs -> SUBSET Batch]
    /\ pins \subseteq Batch \X Jobs
    /\ received \in [Jobs -> Seq(Batch)]

\* A call leaves the rest of the state alone.
LEMMA CallStepType ==
    ASSUME TypeInv, CallTypes', GnbTypes',
           UNCHANGED <<jobStatus, tasks, taskOf, entry, expiring, handles,
                       activeTasks, acked, finPc, planVars, wkVars, faults>>
    PROVE  TypeInv'
<1> USE DEF planVars, wkVars
<1>1. TypeOK'
  BY DEF TypeInv, TypeOK, CallTypes
<1>2. PlanTypes' /\ WorkerTypes' /\ MappingTypes'
  BY DEF TypeInv, PlanTypes, WorkerTypes, MappingTypes
<1> QED
  BY <1>1, <1>2 DEF TypeInv

LEMMA GnbType ==
    ASSUME NEW j \in Jobs, TypeInv, GetNextBatch(j)
    PROVE  TypeInv'
<1> USE DEF GnbGoto
<1> DEFINE rest == <<jobStatus, tasks, taskOf, entry, expiring, handles,
                     activeTasks, acked, finPc, planVars, wkVars, faults>>
<1>a. CallTypes
  BY DEF CallTypes, TypeInv, TypeOK
<1>b. GnbTypes
  BY DEF TypeInv
<1>1. CASE GnbStart(j)
  <2>1. /\ progress[j].epoch < MaxEpoch
        /\ \/ gnbPc' = [gnbPc EXCEPT ![j] = "lookup"]
           \/ gnbPc' = [gnbPc EXCEPT ![j] = "done"]
        /\ UNCHANGED <<progress, planned, pins, gnbBatch, received>>
        /\ UNCHANGED rest
    BY <1>1 DEF GnbStart, storeVars, clientVars
  <2>2. CallTypes'
    BY <1>a, <2>1 DEF CallTypes
  <2>3. GnbTypes'
    BY <1>a, <1>b, <2>1 DEF CallTypes, GnbTypes
  <2> QED
    BY <2>1, <2>2, <2>3, CallStepType
<1>2. CASE GnbLookup(j)
  <2>1. gnbPc[j] \in {"lookup", "retry"} /\ UNCHANGED <<progress, planned, pins, received>>
        /\ UNCHANGED rest
    BY <1>2 DEF GnbLookup, storeVars, clientVars
  <2>2. CASE NextBatch(j) \in planned[j]
    <3>1. /\ gnbBatch' = [gnbBatch EXCEPT ![j] = NextBatch(j)]
          /\ gnbPc' = [gnbPc EXCEPT ![j] = "resolve"]
      BY <1>2, <2>2 DEF GnbLookup
    <3>2. NextBatch(j) \in Batch
      BY <1>a, <2>2 DEF CallTypes
    <3>3. CallTypes'
      BY <1>a, <2>1, <3>1, <3>2 DEF CallTypes
    <3>4. GnbTypes'
      BY <1>a, <1>b, <2>1, <3>1, <3>2 DEF CallTypes, GnbTypes
    <3> QED
      BY <2>1, <3>3, <3>4, CallStepType
  <2>3. CASE NextBatch(j) \notin planned[j]
    <3>1. /\ \/ gnbPc' = [gnbPc EXCEPT ![j] = "refresh"]
             \/ gnbPc' = [gnbPc EXCEPT ![j] = "none"]
          /\ gnbBatch' = gnbBatch
      BY <1>2, <2>3 DEF GnbLookup, MissedAt
    <3>2. CallTypes'
      BY <1>a, <2>1, <3>1 DEF CallTypes
    <3>3. GnbTypes'
      BY <1>a, <1>b, <2>1, <3>1 DEF CallTypes, GnbTypes
    <3> QED
      BY <2>1, <3>2, <3>3, CallStepType
  <2> QED
    BY <2>2, <2>3
<1>3. CASE GnbRefresh(j)
  <2> DEFINE back == IF gnbBatch[j] = NoBatch THEN "retry" ELSE "reply"
  <2>1. /\ gnbPc[j] = "refresh"
        /\ \/ gnbPc' = [gnbPc EXCEPT ![j] = "window"] /\ planned' = planned
           \/ gnbPc' = [gnbPc EXCEPT ![j] = back] /\ planned' = [planned EXCEPT ![j] = {}]
        /\ UNCHANGED <<progress, pins, gnbBatch, received>>
        /\ UNCHANGED rest
    BY <1>3 DEF GnbRefresh, clientVars
  <2>2. CallTypes'
    <3>1. CASE gnbPc' = [gnbPc EXCEPT ![j] = "window"] /\ planned' = planned
      BY <1>a, <2>1, <3>1 DEF CallTypes
    <3>2. CASE gnbPc' = [gnbPc EXCEPT ![j] = back] /\ planned' = [planned EXCEPT ![j] = {}]
      BY <1>a, <2>1, <3>2 DEF CallTypes
    <3> QED
      BY <2>1, <3>1, <3>2
  <2>3. GnbTypes'
    BY <1>a, <1>b, <2>1 DEF CallTypes, GnbTypes
  <2> QED
    BY <2>1, <2>2, <2>3, CallStepType
<1>4. CASE GnbWindow(j)
  <2> DEFINE back == IF gnbBatch[j] = NoBatch THEN "retry" ELSE "reply"
             window == WindowFrom(j, progress[j].epoch, progress[j].next)
  <2>1. /\ gnbPc[j] = "window"
        /\ gnbPc' = [gnbPc EXCEPT ![j] = back]
        /\ planned' = [planned EXCEPT ![j] = window]
        /\ UNCHANGED <<progress, pins, gnbBatch, received>>
        /\ UNCHANGED rest
    BY <1>4 DEF GnbWindow, clientVars
  <2>2. window \subseteq Batch
    <3>1. progress[j].epoch \in 0..MaxEpoch
      BY <1>a DEF CallTypes
    <3> QED
      BY <3>1, WindowFromType
  <2>3. CallTypes'
    <3> HIDE DEF window
    <3> QED
      BY <1>a, <2>1, <2>2 DEF CallTypes
  <2>4. GnbTypes'
    <3> HIDE DEF window
    <3> QED
      BY <1>a, <1>b, <2>1 DEF CallTypes, GnbTypes
  <2> QED
    BY <2>1, <2>3, <2>4, CallStepType
<1>5. CASE GnbPending(j)
  <2>1. /\ gnbPc' = [gnbPc EXCEPT ![j] = "idle"]
        /\ gnbBatch' = [gnbBatch EXCEPT ![j] = NoBatch]
        /\ UNCHANGED <<progress, planned, pins, received>>
        /\ UNCHANGED rest
    BY <1>5 DEF GnbPending, storeVars, clientVars
  <2>2. CallTypes'
    BY <1>a, <2>1 DEF CallTypes
  <2>3. GnbTypes'
    BY <1>a, <1>b, <2>1 DEF CallTypes, GnbTypes
  <2> QED
    BY <2>1, <2>2, <2>3, CallStepType
<1>6. CASE GnbFailed(j)
  <2>1. /\ gnbPc' = [gnbPc EXCEPT ![j] = "failed"]
        /\ UNCHANGED <<progress, planned, pins, gnbBatch, received>>
        /\ UNCHANGED rest
    BY <1>6 DEF GnbFailed, storeVars, clientVars
  <2>2. CallTypes'
    BY <1>a, <2>1 DEF CallTypes
  <2>3. GnbTypes'
    BY <1>a, <1>b, <2>1 DEF CallTypes, GnbTypes
  <2> QED
    BY <2>1, <2>2, <2>3, CallStepType
<1>7. CASE GnbReady(j)
  <2>1. /\ gnbPc[j] = "resolve"
        /\ gnbPc' = [gnbPc EXCEPT ![j] = "pin"]
        /\ UNCHANGED <<progress, planned, pins, gnbBatch, received>>
        /\ UNCHANGED rest
    BY <1>7 DEF GnbReady, storeVars, clientVars
  <2>2. CallTypes'
    BY <1>a, <2>1 DEF CallTypes
  <2>3. GnbTypes'
    BY <1>a, <1>b, <2>1 DEF CallTypes, GnbTypes
  <2> QED
    BY <2>1, <2>2, <2>3, CallStepType
<1>8. CASE GnbPin(j)
  <2>1. /\ gnbPc[j] = "pin"
        /\ gnbPc' = [gnbPc EXCEPT ![j] = "issue"]
        /\ pins' = pins \/ pins' = pins \cup {<<gnbBatch[j], j>>}
        /\ UNCHANGED <<progress, planned, gnbBatch, received>>
        /\ UNCHANGED rest
    BY <1>8 DEF GnbPin, clientVars
  <2>2. gnbBatch[j] \in Batch
    BY <1>b, <2>1 DEF GnbTypes
  <2>3. CallTypes'
    BY <1>a, <2>1, <2>2 DEF CallTypes
  <2>4. GnbTypes'
    BY <1>a, <1>b, <2>1 DEF CallTypes, GnbTypes
  <2> QED
    BY <2>1, <2>3, <2>4, CallStepType
<1>9. CASE GnbIssue(j)
  <2> DEFINE b == gnbBatch[j]
  <2>1. /\ gnbPc[j] = "issue"
        /\ gnbPc' = [gnbPc EXCEPT ![j] = "epoch"]
        /\ \/ progress' = [progress EXCEPT ![j].next = b.index + 1]
           \/ progress' = progress
        /\ UNCHANGED <<planned, pins, gnbBatch, received>>
        /\ UNCHANGED rest
    BY <1>9 DEF GnbIssue, clientVars
  <2>2. b \in Batch
    BY <1>b, <2>1 DEF GnbTypes
  <2>3. b.index + 1 \in 0..BatchesPerEpoch
    BY <2>2, DepthAssumption DEF Batch
  <2>4. progress \in [Jobs -> [epoch : 0..MaxEpoch, next : 0..BatchesPerEpoch]]
    BY <1>a DEF CallTypes
  <2>5. progress' \in [Jobs -> [epoch : 0..MaxEpoch, next : 0..BatchesPerEpoch]]
    BY <2>1, <2>3, <2>4
  <2>6. \A k \in Jobs : progress'[k].epoch = progress[k].epoch
    BY <2>1, <2>4
  <2>7. CallTypes'
    BY <1>a, <2>1, <2>5 DEF CallTypes
  <2>8. GnbTypes'
    BY <1>a, <1>b, <2>1, <2>2, <2>6 DEF CallTypes, GnbTypes
  <2> QED
    BY <2>1, <2>7, <2>8, CallStepType
<1>10. CASE GnbEpoch(j)
  <2>1. /\ gnbPc[j] = "epoch"
        /\ gnbPc' \in {[gnbPc EXCEPT ![j] = "clear"], [gnbPc EXCEPT ![j] = "refresh"]}
        /\ \/ progress' = [progress EXCEPT ![j] =
                              [epoch |-> progress[j].epoch + 1, next |-> 0]]
           \/ progress' = progress
        /\ UNCHANGED <<planned, pins, gnbBatch, received>>
        /\ UNCHANGED rest
    BY <1>10 DEF GnbEpoch, clientVars
  <2>2. gnbBatch[j] \in Batch /\ progress[j].epoch < MaxEpoch
    BY <1>b, <2>1 DEF GnbTypes
  <2>3. progress \in [Jobs -> [epoch : 0..MaxEpoch, next : 0..BatchesPerEpoch]]
    BY <1>a DEF CallTypes
  <2>4. progress' \in [Jobs -> [epoch : 0..MaxEpoch, next : 0..BatchesPerEpoch]]
    BY <2>1, <2>2, <2>3, DepthAssumption, BoundAssumption
  <2>5. \A k \in Jobs \ {j} : progress'[k].epoch = progress[k].epoch
    BY <2>1, <2>3
  <2>6. CallTypes'
    BY <1>a, <2>1, <2>4 DEF CallTypes
  <2>7. gnbBatch[j] # NoBatch
    BY <2>2, NoBatchAssumption
  <2>8. GnbTypes'
    BY <1>a, <1>b, <2>1, <2>2, <2>5, <2>7 DEF CallTypes, GnbTypes
  <2> QED
    BY <2>1, <2>6, <2>8, CallStepType
<1>11. CASE GnbClear(j)
  <2>1. /\ gnbPc[j] = "clear"
        /\ gnbPc' = [gnbPc EXCEPT ![j] = "refresh"]
        /\ planned' = [planned EXCEPT ![j] = {}]
        /\ UNCHANGED <<progress, pins, gnbBatch, received>>
        /\ UNCHANGED rest
    BY <1>11 DEF GnbClear, clientVars
  <2>2. gnbBatch[j] # NoBatch
    BY <1>b, <2>1, NoBatchAssumption DEF GnbTypes
  <2>3. CallTypes'
    BY <1>a, <2>1 DEF CallTypes
  <2>4. GnbTypes'
    BY <1>a, <1>b, <2>1, <2>2 DEF CallTypes, GnbTypes
  <2> QED
    BY <2>1, <2>3, <2>4, CallStepType
<1>12. CASE GnbReply(j)
  <2>1. /\ gnbPc[j] = "reply"
        /\ gnbPc' = [gnbPc EXCEPT ![j] = "idle"]
        /\ gnbBatch' = [gnbBatch EXCEPT ![j] = NoBatch]
        /\ received' = [received EXCEPT ![j] = Append(received[j], gnbBatch[j])]
        /\ UNCHANGED <<progress, planned, pins>>
        /\ UNCHANGED rest
    BY <1>12 DEF GnbReply, storeVars
  <2>2. received[j] \in Seq(Batch) /\ gnbBatch[j] \in Batch
    BY <1>a, <1>b, <2>1 DEF CallTypes, GnbTypes
  <2>3. Append(received[j], gnbBatch[j]) \in Seq(Batch)
    BY <2>2
  <2>4. CallTypes'
    BY <1>a, <2>1, <2>3 DEF CallTypes
  <2>5. GnbTypes'
    BY <1>a, <1>b, <2>1 DEF CallTypes, GnbTypes
  <2> QED
    BY <2>1, <2>4, <2>5, CallStepType
<1> QED
  BY <1>1, <1>2, <1>3, <1>4, <1>5, <1>6, <1>7, <1>8, <1>9, <1>10, <1>11, <1>12
     DEF GetNextBatch

\* The client's own steps and FinishJob: no task but the cancelled ones changes.
LEMMA ClientType ==
    ASSUME NEW j \in Jobs, TypeInv, Acknowledge(j) \/ FinishJob(j)
    PROVE  TypeInv'
<1> USE DepthAssumption, BoundAssumption, NameAssumption, NoBatchAssumption
    DEF storeVars, gnbVars, clientVars, planVars, wkVars
<1>1. CASE Acknowledge(j)
  BY <1>1 DEF Acknowledge, Unpin, TypeInv, TypeOK, GnbTypes, PlanTypes, WorkerTypes, MappingTypes
<1>2. CASE FinStatus(j)
  <2>1. /\ jobStatus' = [jobStatus EXCEPT ![j] = "finished"]
        /\ finPc' = [finPc EXCEPT ![j] = "pins"]
        /\ UNCHANGED <<progress, planned, taskOf, entry, expiring, handles, pins,
                       activeTasks, gnbVars, clientVars, planVars, wkVars, faults>>
    BY <1>2 DEF FinStatus
  <2>2. tasks' = [t \in TaskId |->
                    IF tasks[t].job = j /\ tasks[t].status = "pending"
                    THEN [tasks[t] EXCEPT !.status = "cancelled"]
                    ELSE tasks[t]]
    BY <1>2 DEF FinStatus, Cancelled
  <2>3. \A t \in TaskId :
           /\ tasks[t] \in TaskRecord => /\ tasks'[t] \in TaskRecord
                                         /\ tasks'[t].batch = tasks[t].batch
           /\ tasks[t] = UnusedTask => tasks'[t] = UnusedTask
    <3> SUFFICES ASSUME NEW t \in TaskId
                 PROVE  /\ tasks[t] \in TaskRecord => /\ tasks'[t] \in TaskRecord
                                                      /\ tasks'[t].batch = tasks[t].batch
                        /\ tasks[t] = UnusedTask => tasks'[t] = UnusedTask
      OBVIOUS
    <3>1. CASE tasks[t].job = j /\ tasks[t].status = "pending"
      BY <2>2, <3>1 DEF TaskRecord, UnusedTask
    <3>2. CASE ~(tasks[t].job = j /\ tasks[t].status = "pending")
      <4>1. tasks'[t] = tasks[t]
        BY <2>2, <3>2
      <4> QED
        BY <4>1
    <3> QED
      BY <3>1, <3>2
  <2>4. tasks' \in [TaskId -> TaskRecord \cup {UnusedTask}]
    BY <2>2, <2>3 DEF TypeInv, TypeOK
  <2>5. TypeOK'
    BY <2>1, <2>4 DEF TypeInv, TypeOK
  <2>6. MappingTypes'
    <3> SUFFICES ASSUME NEW c \in Batch, taskOf[c] # NoTask
                 PROVE  tasks'[taskOf[c]] \in TaskRecord /\ tasks'[taskOf[c]].batch = c
      BY <2>1 DEF MappingTypes
    <3>1. taskOf[c] \in TaskId
      BY DEF TypeInv, TypeOK
    <3> QED
      BY <2>3, <3>1 DEF TypeInv, MappingTypes
  <2> QED
    BY <2>1, <2>5, <2>6 DEF TypeInv, GnbTypes, PlanTypes, WorkerTypes
<1>3. CASE FinPins(j)
  BY <1>3 DEF FinPins, TypeInv, TypeOK, GnbTypes, PlanTypes, WorkerTypes, MappingTypes
<1>4. CASE FinWindow(j)
  BY <1>4 DEF FinWindow, TypeInv, TypeOK, GnbTypes, PlanTypes, WorkerTypes, MappingTypes
<1> QED
  BY <1>1, <1>2, <1>3, <1>4 DEF FinishJob

\* A task that is stored may change its status and nothing else.
LEMMA StatusType ==
    ASSUME TypeInv, NEW t \in TaskId, tasks[t].status # "unused",
           NEW s \in {"pending", "running", "completed", "failed", "cancelled", "gone"},
           tasks' = [tasks EXCEPT ![t].status = s]
    PROVE  /\ tasks' \in [TaskId -> TaskRecord \cup {UnusedTask}]
           /\ \A u \in TaskId : tasks[u] \in TaskRecord =>
                 tasks'[u] \in TaskRecord /\ tasks'[u].batch = tasks[u].batch
<1>1. tasks \in [TaskId -> TaskRecord \cup {UnusedTask}]
  BY DEF TypeInv, TypeOK
<1>2. tasks[t] \in TaskRecord
  BY <1>1 DEF UnusedTask
<1>3. tasks'[t] \in TaskRecord /\ tasks'[t].batch = tasks[t].batch
  BY <1>1, <1>2 DEF TaskRecord
<1>4. \A u \in TaskId \ {t} : tasks'[u] = tasks[u]
  BY <1>1
<1> QED
  BY <1>1, <1>3, <1>4

\* create_task keeps the dictionaries typed and the mapping right: the new id
\* was not in use, so no batch id mapped to it.
LEMMA CreateTaskType ==
    ASSUME TypeInv, NEW b \in Batch, NEW k \in Jobs \cup {NoJob}, CreateTask(b, k)
    PROVE  /\ tasks' \in [TaskId -> TaskRecord \cup {UnusedTask}]
           /\ taskOf' \in [Batch -> TaskId \cup {NoTask}]
           /\ entry' \in [Batch -> {"absent", "pending", "available", "failed"}]
           /\ MappingTypes'
<1>1. /\ tasks \in [TaskId -> TaskRecord \cup {UnusedTask}]
      /\ taskOf \in [Batch -> TaskId \cup {NoTask}]
      /\ entry \in [Batch -> {"absent", "pending", "available", "failed"}]
      /\ MappingTypes
  BY DEF TypeInv, TypeOK
<1>2. CASE ~MayCreate(b, k)
  BY <1>1, <1>2 DEF CreateTask, MappingTypes
<1>3. CASE MayCreate(b, k)
  <2> DEFINE new == [batch |-> b, job |-> k, status |-> "pending"]
  <2>1. PICK t \in TaskId :
           /\ tasks[t].status = "unused"
           /\ tasks' = [tasks EXCEPT ![t] = new]
           /\ taskOf' = [taskOf EXCEPT ![b] = t]
           /\ entry' = [entry EXCEPT ![b] =
                           IF @ \in {"absent", "failed"} THEN "pending" ELSE @]
    BY <1>3 DEF CreateTask
  <2>2. new \in TaskRecord
    BY DEF TaskRecord
  <2>3. \A c \in Batch : taskOf[c] # t
    BY <1>1, <2>1 DEF MappingTypes, TaskRecord, NoTask, TaskId
  <2>4. tasks' \in [TaskId -> TaskRecord \cup {UnusedTask}]
    BY <1>1, <2>1, <2>2
  <2>5. taskOf' \in [Batch -> TaskId \cup {NoTask}]
    BY <1>1, <2>1
  <2>6. entry' \in [Batch -> {"absent", "pending", "available", "failed"}]
    BY <1>1, <2>1
  <2>7. MappingTypes'
    <3> SUFFICES ASSUME NEW c \in Batch, taskOf'[c] # NoTask
                 PROVE  tasks'[taskOf'[c]] \in TaskRecord /\ tasks'[taskOf'[c]].batch = c
      BY DEF MappingTypes
    <3>1. CASE c = b
      BY <1>1, <2>1, <2>2, <3>1
    <3>2. CASE c # b
      BY <1>1, <2>1, <2>3, <3>2 DEF MappingTypes
    <3> QED
      BY <3>1, <3>2
  <2> QED
    BY <2>4, <2>5, <2>6, <2>7
<1> QED
  BY <1>2, <1>3

\* The locals of the schedulers, apart from the rest of TypeOK.
SchedulerTypes ==
    /\ planPc \in [Planners -> {"idle", "force", "check", "index", "store",
                                "read", "each", "create", "opp", "returned"}]
    /\ planJob \in [Planners -> Jobs \cup {NoJob}]
    /\ planEpoch \in [Planners -> 0..MaxEpoch]
    /\ planTodo \in [Planners -> SUBSET Batch]
    /\ planSeen \in [Planners -> 0..TargetDepth]
    /\ PlanTypes

\* A scheduling pass ends: StartJob's client becomes idle and may call.
LEMMA PlanDoneType ==
    ASSUME TypeInv, NEW p \in Planners, PlanDone(p)
    PROVE  /\ SchedulerTypes'
           /\ \/ gnbPc' = gnbPc
              \/ p \in Jobs /\ gnbPc' = [gnbPc EXCEPT ![p] = "idle"]
<1> USE DepthAssumption, BoundAssumption, NameAssumption DEF PlanGoto, GnbGoto, Planners
<1>1. SchedulerTypes
  BY DEF TypeInv, TypeOK, SchedulerTypes
<1>2. /\ planTodo' = [planTodo EXCEPT ![p] = {}]
      /\ planSeen' = [planSeen EXCEPT ![p] = 0]
      /\ planEpoch' = [planEpoch EXCEPT ![p] = 0]
  BY DEF PlanDone
<1>3. CASE p = Maintainer
  <2>1. /\ planJob' = [planJob EXCEPT ![p] = NoJob]
        /\ planPc' = [planPc EXCEPT ![p] = "idle"]
        /\ gnbPc' = gnbPc
    BY <1>3 DEF PlanDone
  <2> QED
    BY <1>1, <1>2, <1>3, <2>1 DEF SchedulerTypes, PlanTypes
<1>4. CASE p # Maintainer
  <2>1. /\ planJob' = planJob
        /\ planPc' = [planPc EXCEPT ![p] = "returned"]
        /\ gnbPc' = [gnbPc EXCEPT ![p] = "idle"]
    BY <1>4 DEF PlanDone
  <2> QED
    BY <1>1, <1>2, <1>4, <2>1 DEF SchedulerTypes, PlanTypes
<1> QED
  BY <1>3, <1>4

\* The part of TypeOK that no scheduler touches, next to the part it does.
LEMMA SchedulerTypeOK ==
    ASSUME TypeOK, SchedulerTypes',
           jobStatus' \in [Jobs -> {"absent", "active", "finished"}],
           planned' \in [Jobs -> SUBSET Batch],
           tasks' \in [TaskId -> TaskRecord \cup {UnusedTask}],
           taskOf' \in [Batch -> TaskId \cup {NoTask}],
           entry' \in [Batch -> {"absent", "pending", "available", "failed"}],
           gnbPc' \in [Jobs -> {"off", "idle", "lookup", "refresh", "retry", "window",
                                "resolve", "pin", "issue", "epoch", "clear", "reply",
                                "failed", "done", "none"}],
           UNCHANGED <<progress, expiring, handles, pins, activeTasks, gnbBatch,
                       received, acked, finPc, wkPc, wkTask, faults>>
    PROVE  TypeOK'
BY DEF TypeOK, SchedulerTypes

\* What is left when a step of a scheduler kept the schedulers' locals typed.
LEMMA SchedulerStepType ==
    ASSUME TypeInv, SchedulerTypes',
           planned' \in [Jobs -> SUBSET Batch],
           \/ gnbPc' = gnbPc
           \/ \E p \in Jobs : gnbPc' = [gnbPc EXCEPT ![p] = "idle"],
           \/ UNCHANGED <<tasks, taskOf, entry>>
           \/ \E b \in Batch, k \in Jobs \cup {NoJob} : CreateTask(b, k),
           jobStatus' \in [Jobs -> {"absent", "active", "finished"}],
           UNCHANGED <<progress, expiring, handles, pins, activeTasks, gnbBatch,
                       clientVars, finPc, wkVars, faults>>
    PROVE  TypeInv'
<1> USE DEF clientVars, wkVars
<1>1. /\ tasks' \in [TaskId -> TaskRecord \cup {UnusedTask}]
      /\ taskOf' \in [Batch -> TaskId \cup {NoTask}]
      /\ entry' \in [Batch -> {"absent", "pending", "available", "failed"}]
      /\ MappingTypes'
  BY CreateTaskType DEF TypeInv, TypeOK, MappingTypes
<1>2. TypeOK'
  <2>1. gnbPc' \in [Jobs -> {"off", "idle", "lookup", "refresh", "retry", "window",
                             "resolve", "pin", "issue", "epoch", "clear", "reply",
                             "failed", "done", "none"}]
    BY DEF TypeInv, TypeOK
  <2>2. TypeOK
    BY DEF TypeInv
  <2> QED
    BY <1>1, <2>1, <2>2, SchedulerTypeOK
<1>3. GnbTypes'
  BY DEF TypeInv, TypeOK, GnbTypes
<1>4. PlanTypes' /\ WorkerTypes'
  BY DEF SchedulerTypes, TypeInv, WorkerTypes
<1> QED
  BY <1>1, <1>2, <1>3, <1>4 DEF TypeInv

LEMMA PlanType ==
    ASSUME NEW p \in Planners, TypeInv, SchedulePass(p)
    PROVE  TypeInv'
<1> USE DepthAssumption, BoundAssumption, NameAssumption
    DEF storeVars, gnbVars, clientVars, planVars, wkVars, PlanGoto
<1>0. SchedulerTypes /\ planned \in [Jobs -> SUBSET Batch]
      /\ jobStatus \in [Jobs -> {"absent", "active", "finished"}]
      /\ progress \in [Jobs -> [epoch : 0..MaxEpoch, next : 0..BatchesPerEpoch]]
  BY DEF TypeInv, TypeOK, SchedulerTypes
<1>1. CASE PlanCheck(p)
  <2>1. planPc[p] = "check" /\ planJob[p] \in Jobs
    BY <1>0, <1>1 DEF PlanCheck, SchedulerTypes, PlanTypes
  <2>2. UNCHANGED <<jobStatus, progress, tasks, taskOf, entry, expiring, handles,
                    pins, activeTasks, gnbBatch, clientVars, finPc, wkVars, faults>>
    BY <1>1 DEF PlanCheck
  <2>3. CASE /\ planned' = [planned EXCEPT ![planJob[p]] = {}]
             /\ PlanDone(p)
    <3>1. planned' \in [Jobs -> SUBSET Batch]
      BY <1>0, <2>3
    <3> QED
      BY <1>0, <2>2, <2>3, <3>1, PlanDoneType, SchedulerStepType
  <2>4. CASE /\ planPc' = [planPc EXCEPT ![p] = "read"]
             /\ UNCHANGED <<planned, gnbPc, planJob, planEpoch, planTodo, planSeen>>
    <3>1. SchedulerTypes'
      BY <1>0, <2>1, <2>4 DEF SchedulerTypes, PlanTypes
    <3> QED
      BY <1>0, <2>2, <2>4, <3>1, SchedulerStepType
  <2>5. CASE /\ planEpoch' = [planEpoch EXCEPT ![p] = progress[planJob[p]].epoch]
             /\ planPc' = [planPc EXCEPT ![p] = "index"]
             /\ UNCHANGED <<planned, gnbPc, planJob, planTodo, planSeen>>
    <3>1. SchedulerTypes'
      BY <1>0, <2>1, <2>5 DEF SchedulerTypes, PlanTypes
    <3> QED
      BY <1>0, <2>2, <2>5, <3>1, SchedulerStepType
  <2> QED
    BY <1>1, <2>3, <2>4, <2>5 DEF PlanCheck
<1>2. CASE PlanIndex(p)
  <2>1. planPc[p] = "index" /\ planJob[p] \in Jobs /\ planEpoch[p] \in 0..MaxEpoch
    BY <1>0, <1>2 DEF PlanIndex, SchedulerTypes, PlanTypes
  <2>2. WindowFrom(planJob[p], planEpoch[p], progress[planJob[p]].next) \subseteq Batch
    BY <2>1, WindowFromType
  <2>3. SchedulerTypes'
    BY <1>0, <1>2, <2>1, <2>2 DEF PlanIndex, SchedulerTypes, PlanTypes
  <2> QED
    BY <1>0, <1>2, <2>3, SchedulerStepType DEF PlanIndex
<1>3. CASE PlanStore(p)
  <2>1. SchedulerTypes'
    BY <1>0, <1>3 DEF PlanStore, SchedulerTypes, PlanTypes
  <2>2. planned' \in [Jobs -> SUBSET Batch]
    BY <1>0, <1>3 DEF PlanStore, SchedulerTypes
  <2> QED
    BY <1>0, <1>3, <2>1, <2>2, SchedulerStepType DEF PlanStore
<1>4. CASE PlanRead(p)
  <2>1. planned[planJob[p]] \in SUBSET Batch
    BY <1>0, <1>4 DEF PlanRead, SchedulerTypes, PlanTypes
  <2>2. SchedulerTypes'
    BY <1>0, <1>4, <2>1 DEF PlanRead, SchedulerTypes, PlanTypes
  <2> QED
    BY <1>0, <1>4, <2>2, SchedulerStepType DEF PlanRead
<1>5. CASE PlanEnd(p)
  BY <1>0, <1>5, PlanDoneType, SchedulerStepType DEF PlanEnd
<1>6. CASE PlanSkip(p)
  <2>1. PICK b : planTodo' = [planTodo EXCEPT ![p] = @ \ {b}]
    BY <1>6 DEF PlanSkip
  <2>2. planTodo' \in [Planners -> SUBSET Batch]
    BY <1>0, <2>1 DEF SchedulerTypes
  <2>3. SchedulerTypes'
    BY <1>0, <1>6, <2>2 DEF PlanSkip, SchedulerTypes, PlanTypes
  <2> QED
    BY <1>0, <1>6, <2>3, SchedulerStepType DEF PlanSkip
<1>7. CASE PlanEach(p)
  <2>1. /\ planPc[p] = "each"
        /\ planPc' = [planPc EXCEPT ![p] = "create"] \/ planPc' = planPc
        /\ \/ \E b : planTodo' = [planTodo EXCEPT ![p] = @ \ {b}]
           \/ planTodo' = planTodo
        /\ planSeen[p] < TargetDepth
        /\ planSeen' = [planSeen EXCEPT ![p] = @ + 1]
        /\ UNCHANGED <<storeVars, gnbVars, clientVars, finPc, planJob, planEpoch,
                       wkVars, faults>>
    BY <1>7 DEF PlanEach
  <2>2. planTodo' \in [Planners -> SUBSET Batch]
    BY <1>0, <2>1 DEF SchedulerTypes
  <2>3. planSeen' \in [Planners -> 0..TargetDepth]
    BY <1>0, <2>1 DEF SchedulerTypes
  <2>4. SchedulerTypes'
    BY <1>0, <2>1, <2>2, <2>3 DEF SchedulerTypes, PlanTypes
  <2> QED
    BY <1>0, <2>1, <2>4, SchedulerStepType
<1>8. CASE PlanCreate(p)
  <2>1. PICK b \in planTodo[p] :
           CreateTask(b, planJob[p]) /\ planTodo' = [planTodo EXCEPT ![p] = @ \ {b}]
    BY <1>8 DEF PlanCreate, IsFirst
  <2>2. /\ planPc[p] = "create"
        /\ planPc' = [planPc EXCEPT ![p] = "each"]
        /\ UNCHANGED <<jobStatus, progress, planned, expiring, handles, pins,
                       activeTasks, gnbVars, clientVars, finPc, planJob, planEpoch,
                       planSeen, wkVars, faults>>
    BY <1>8 DEF PlanCreate
  <2>3. b \in Batch /\ planJob[p] \in Jobs \cup {NoJob}
    BY <1>0, <2>1 DEF SchedulerTypes
  <2>4. planTodo' \in [Planners -> SUBSET Batch]
    BY <1>0, <2>1 DEF SchedulerTypes
  <2>5. SchedulerTypes'
    BY <1>0, <2>2, <2>4 DEF SchedulerTypes, PlanTypes
  <2> QED
    BY <1>0, <2>1, <2>2, <2>3, <2>5, SchedulerStepType
<1> QED
  BY <1>1, <1>2, <1>3, <1>4, <1>5, <1>6, <1>7, <1>8 DEF SchedulePass

\* StartJob, the maintainer's choice of a job, opportunistic prefetch.
LEMMA MaintainType ==
    ASSUME NEW j \in Jobs, TypeInv,
           \/ StartJob(j) \/ StartWindow(j) \/ MaintainJob(j)
           \/ \E b \in Batch : OppChoose(j, b)
    PROVE  TypeInv'
<1> USE DepthAssumption, BoundAssumption, NameAssumption
    DEF storeVars, gnbVars, clientVars, planVars, wkVars, PlanGoto, Planners
<1>0. SchedulerTypes /\ planned \in [Jobs -> SUBSET Batch]
      /\ jobStatus \in [Jobs -> {"absent", "active", "finished"}]
  BY DEF TypeInv, TypeOK, SchedulerTypes
<1>1. CASE StartJob(j)
  <2>1. SchedulerTypes' /\ jobStatus' \in [Jobs -> {"absent", "active", "finished"}]
    BY <1>0, <1>1 DEF StartJob, SchedulerTypes, PlanTypes
  <2> QED
    BY <1>0, <1>1, <2>1, SchedulerStepType DEF StartJob
<1>2. CASE StartWindow(j)
  <2>1. WindowFrom(j, 0, 0) \subseteq Batch
    BY WindowFromType
  <2>2. SchedulerTypes'
    BY <1>0, <1>2 DEF StartWindow, SchedulerTypes, PlanTypes
  <2>3. planned' \in [Jobs -> SUBSET Batch]
    BY <1>0, <1>2, <2>1 DEF StartWindow
  <2> QED
    BY <1>0, <1>2, <2>2, <2>3, SchedulerStepType DEF StartWindow
<1>3. CASE MaintainJob(j)
  <2>1. SchedulerTypes'
    BY <1>0, <1>3 DEF MaintainJob, SchedulerTypes, PlanTypes
  <2> QED
    BY <1>0, <1>3, <2>1, SchedulerStepType DEF MaintainJob
<1>4. CASE \E b \in Batch : OppChoose(j, b)
  <2>1. SchedulerTypes'
    BY <1>0, <1>4 DEF OppChoose, SchedulerTypes, PlanTypes
  <2> QED
    BY <1>0, <1>4, <2>1, SchedulerStepType DEF OppChoose
<1> QED
  BY <1>1, <1>2, <1>3, <1>4

LEMMA OppCreateType ==
    ASSUME TypeInv, OppCreate
    PROVE  TypeInv'
<1> USE DEF storeVars, gnbVars, clientVars, planVars, wkVars, PlanGoto, Planners
<1>1. SchedulerTypes /\ planned \in [Jobs -> SUBSET Batch]
      /\ jobStatus \in [Jobs -> {"absent", "active", "finished"}]
  BY DEF TypeInv, TypeOK, SchedulerTypes
<1>2. PICK b \in planTodo[Maintainer] : CreateTask(b, NoJob)
  BY DEF OppCreate
<1>3. b \in Batch
  BY <1>1, <1>2 DEF SchedulerTypes
<1>4. SchedulerTypes'
  BY <1>1, NameAssumption DEF OppCreate, SchedulerTypes, PlanTypes
<1> QED
  BY <1>1, <1>2, <1>3, <1>4, SchedulerStepType DEF OppCreate

\* What is left when a step of a worker or of the cleanup kept the tasks, the
\* mapping and the worker's locals typed.
LEMMA WorkerStepType ==
    ASSUME TypeInv, WorkerTypes',
           tasks' \in [TaskId -> TaskRecord \cup {UnusedTask}],
           taskOf' \in [Batch -> TaskId \cup {NoTask}],
           MappingTypes',
           entry' \in [Batch -> {"absent", "pending", "available", "failed"}],
           expiring' \subseteq Batch, handles' \subseteq Batch,
           activeTasks' \in [Workers -> SUBSET TaskId],
           wkPc' \in [Workers -> {"idle", "assign", "run", "complete", "fail", "dead"}],
           wkTask' \in [Workers -> TaskId \cup {NoTask}],
           faults' = faults \/ \E kind : Fault(kind),
           UNCHANGED <<jobStatus, progress, planned, pins, gnbVars, clientVars,
                       finPc, planVars>>
    PROVE  TypeInv'
<1> USE DEF gnbVars, clientVars, planVars
<1>1. faults' \in 0..MaxFaults
  BY BoundAssumption DEF TypeInv, TypeOK, Fault
<1>2. TypeOK'
  BY <1>1 DEF TypeInv, TypeOK
<1> QED
  BY <1>2 DEF TypeInv, GnbTypes, PlanTypes

\* A worker's task id maps its batch only while the record is that batch's.
LEMMA StatusMapping ==
    ASSUME TypeInv, UNCHANGED taskOf,
           \A u \in TaskId : tasks[u] \in TaskRecord =>
               tasks'[u] \in TaskRecord /\ tasks'[u].batch = tasks[u].batch
    PROVE  MappingTypes'
<1> SUFFICES ASSUME NEW c \in Batch, taskOf[c] # NoTask
             PROVE  tasks'[taskOf[c]] \in TaskRecord /\ tasks'[taskOf[c]].batch = c
  BY DEF MappingTypes
<1>1. taskOf[c] \in TaskId
  BY DEF TypeInv, TypeOK
<1> QED
  BY <1>1 DEF TypeInv, MappingTypes

LEMMA CleanupType ==
    ASSUME TypeInv, NEW b \in Batch, Cleanup(b)
    PROVE  TypeInv'
<1>1. /\ entry' = [entry EXCEPT ![b] = "absent"]
      /\ expiring' = expiring \ {b}
      /\ handles' = handles \ {b}
      /\ taskOf' = [taskOf EXCEPT ![b] = NoTask]
      /\ tasks' = IF taskOf[b] = NoTask THEN tasks
                  ELSE [tasks EXCEPT ![taskOf[b]].status = "gone"]
      /\ Fault("expiry")
      /\ UNCHANGED <<jobStatus, progress, planned, pins, activeTasks, gnbVars,
                     clientVars, finPc, planVars, wkVars>>
  BY DEF Cleanup, RemovePayload, Unmap
<1>2. /\ tasks \in [TaskId -> TaskRecord \cup {UnusedTask}]
      /\ taskOf \in [Batch -> TaskId \cup {NoTask}]
      /\ entry \in [Batch -> {"absent", "pending", "available", "failed"}]
      /\ activeTasks \in [Workers -> SUBSET TaskId]
      /\ wkPc \in [Workers -> {"idle", "assign", "run", "complete", "fail", "dead"}]
      /\ wkTask \in [Workers -> TaskId \cup {NoTask}]
      /\ expiring \subseteq Batch /\ handles \subseteq Batch
  BY DEF TypeInv, TypeOK
<1>3. /\ tasks' \in [TaskId -> TaskRecord \cup {UnusedTask}]
      /\ \A u \in TaskId : tasks[u] \in TaskRecord =>
             tasks'[u] \in TaskRecord /\ tasks'[u].batch = tasks[u].batch
  <2>1. CASE taskOf[b] = NoTask
    BY <1>1, <1>2, <2>1
  <2>2. CASE taskOf[b] # NoTask
    <3>1. tasks[taskOf[b]].status # "unused" /\ taskOf[b] \in TaskId
      BY <1>2, <2>2 DEF TypeInv, MappingTypes, TaskRecord
    <3> QED
      BY <1>1, <2>2, <3>1, StatusType
  <2> QED
    BY <2>1, <2>2
<1>4. taskOf' \in [Batch -> TaskId \cup {NoTask}]
  BY <1>1, <1>2
<1>5. MappingTypes'
  <2> SUFFICES ASSUME NEW c \in Batch, taskOf'[c] # NoTask
               PROVE  tasks'[taskOf'[c]] \in TaskRecord /\ tasks'[taskOf'[c]].batch = c
    BY DEF MappingTypes
  <2>1. taskOf'[c] = taskOf[c] /\ taskOf[c] \in TaskId
    BY <1>1, <1>2
  <2> QED
    BY <1>3, <2>1 DEF TypeInv, MappingTypes
<1>6. entry' \in [Batch -> {"absent", "pending", "available", "failed"}]
  BY <1>1, <1>2
<1>7. WorkerTypes'
  BY <1>1 DEF TypeInv, WorkerTypes, wkVars
<1> QED
  BY <1>1, <1>2, <1>3, <1>4, <1>5, <1>6, <1>7, WorkerStepType DEF wkVars

LEMMA WorkerType ==
    ASSUME NEW w \in Workers, TypeInv, Work(w) \/ WorkerFault(w)
    PROVE  TypeInv'
<1> USE DEF storeVars, gnbVars, clientVars, planVars, wkVars, WkGoto, WkIdle
<1>0. /\ tasks \in [TaskId -> TaskRecord \cup {UnusedTask}]
      /\ taskOf \in [Batch -> TaskId \cup {NoTask}]
      /\ entry \in [Batch -> {"absent", "pending", "available", "failed"}]
      /\ activeTasks \in [Workers -> SUBSET TaskId]
      /\ wkPc \in [Workers -> {"idle", "assign", "run", "complete", "fail", "dead"}]
      /\ wkTask \in [Workers -> TaskId \cup {NoTask}]
      /\ expiring \subseteq Batch /\ handles \subseteq Batch
      /\ MappingTypes /\ WorkerTypes
  BY DEF TypeInv, TypeOK
<1>1. CASE WorkerPoll(w)
  <2>1. PICK t \in TaskId : /\ wkTask' = [wkTask EXCEPT ![w] = t]
                            /\ wkPc' = [wkPc EXCEPT ![w] = "assign"]
                            /\ UNCHANGED <<storeVars, gnbVars, clientVars, finPc,
                                           planVars, faults>>
    BY <1>1 DEF WorkerPoll, PendingTasks
  <2>2. WorkerTypes'
    BY <1>0, <2>1 DEF WorkerTypes
  <2> QED
    BY <1>0, <2>1, <2>2, WorkerStepType DEF MappingTypes
<1>2. CASE WorkerAssign(w)
  <2> DEFINE t == wkTask[w]
  <2>1. wkPc[w] = "assign" /\ t \in TaskId
    BY <1>0, <1>2 DEF WorkerAssign, WorkerTypes
  <2>2. /\ \/ /\ wkPc' = [wkPc EXCEPT ![w] = "run"]
              /\ UNCHANGED wkTask
           \/ WkIdle(w)
        /\ faults' = faults \/ Fault("poll")
        /\ UNCHANGED <<jobStatus, progress, planned, taskOf, entry, expiring,
                       handles, pins, gnbVars, clientVars, finPc, planVars>>
    BY <1>2 DEF WorkerAssign
  <2>3. \/ UNCHANGED <<tasks, activeTasks>>
        \/ /\ tasks[t].status = "pending"
           /\ \/ tasks' = [tasks EXCEPT ![t].status = "cancelled"]
              \/ tasks' = [tasks EXCEPT ![t].status = "running"]
           /\ \/ activeTasks' = activeTasks
              \/ activeTasks' = [activeTasks EXCEPT ![w] = @ \cup {t}]
    BY <1>2 DEF WorkerAssign
  <2>4. /\ tasks' \in [TaskId -> TaskRecord \cup {UnusedTask}]
        /\ \A u \in TaskId : tasks[u] \in TaskRecord =>
               tasks'[u] \in TaskRecord /\ tasks'[u].batch = tasks[u].batch
    BY <1>0, <2>1, <2>3, StatusType
  <2>5. activeTasks' \in [Workers -> SUBSET TaskId]
    BY <1>0, <2>1, <2>3
  <2>6. MappingTypes'
    BY <2>2, <2>4, StatusMapping
  <2>7. /\ wkPc' \in [Workers -> {"idle", "assign", "run", "complete", "fail", "dead"}]
        /\ wkTask' \in [Workers -> TaskId \cup {NoTask}]
        /\ WorkerTypes'
    BY <1>0, <2>1, <2>2 DEF WorkerTypes
  <2> QED
    BY <1>0, <2>2, <2>4, <2>5, <2>6, <2>7, WorkerStepType
<1>3. CASE WorkerMaterialize(w)
  <2>1. /\ wkPc[w] = "run"
        /\ \/ wkPc' = [wkPc EXCEPT ![w] = "complete"]
           \/ wkPc' = [wkPc EXCEPT ![w] = "fail"]
        /\ UNCHANGED <<storeVars, gnbVars, clientVars, finPc, wkTask, planVars, faults>>
    BY <1>3 DEF WorkerMaterialize
  <2>2. WorkerTypes'
    BY <1>0, <2>1 DEF WorkerTypes
  <2> QED
    BY <1>0, <2>1, <2>2, WorkerStepType DEF MappingTypes
<1>4. CASE WorkerComplete(w)
  <2> DEFINE t == wkTask[w]
  <2>1. wkPc[w] = "complete" /\ t \in TaskId
    BY <1>0, <1>4 DEF WorkerComplete, WorkerTypes
  <2>2. /\ WkIdle(w) \/ (wkPc' = [wkPc EXCEPT ![w] = "fail"] /\ UNCHANGED wkTask)
        /\ faults' = faults \/ Fault("reply")
        /\ UNCHANGED <<jobStatus, progress, planned, taskOf, pins, gnbVars,
                       clientVars, finPc, planVars>>
    BY <1>4 DEF WorkerComplete
  <2>3. /\ wkPc' \in [Workers -> {"idle", "assign", "run", "complete", "fail", "dead"}]
        /\ wkTask' \in [Workers -> TaskId \cup {NoTask}]
        /\ WorkerTypes'
    BY <1>0, <2>1, <2>2 DEF WorkerTypes
  <2>4. CASE Stored(t)
    <3> DEFINE b == tasks[t].batch
    <3>1. /\ tasks' = [tasks EXCEPT ![t].status = "completed"]
          /\ Release(t)
          /\ entry' = [entry EXCEPT ![b] = "available"]
          /\ expiring' = expiring \cup {b}
          /\ handles' = handles \cup {b}
      BY <1>4, <2>4 DEF WorkerComplete
    <3>2. b \in Batch /\ tasks[t].status # "unused"
      BY <1>0, <2>1, <2>4 DEF Stored, TaskRecord, UnusedTask
    <3>3. /\ tasks' \in [TaskId -> TaskRecord \cup {UnusedTask}]
          /\ MappingTypes'
      BY <2>1, <2>2, <3>1, <3>2, StatusType, StatusMapping
    <3>4. activeTasks' \in [Workers -> SUBSET TaskId]
      BY <1>0, <3>1 DEF Release
    <3>5. /\ entry' \in [Batch -> {"absent", "pending", "available", "failed"}]
          /\ expiring' \subseteq Batch /\ handles' \subseteq Batch
      BY <1>0, <3>1, <3>2
    <3> QED
      BY <1>0, <2>2, <2>3, <3>3, <3>4, <3>5, WorkerStepType
  <2>5. CASE ~Stored(t)
    <3>1. UNCHANGED <<tasks, activeTasks, entry, expiring, handles>>
      BY <1>4, <2>5 DEF WorkerComplete
    <3> QED
      BY <1>0, <2>2, <2>3, <3>1, WorkerStepType DEF MappingTypes
  <2> QED
    BY <2>4, <2>5
<1>5. CASE WorkerFail(w)
  <2> DEFINE t == wkTask[w]
  <2>1. wkPc[w] = "fail" /\ t \in TaskId
    BY <1>0, <1>5 DEF WorkerFail, WorkerTypes
  <2>2. /\ WkIdle(w)
        /\ faults' = faults \/ Fault("report")
        /\ UNCHANGED <<jobStatus, progress, planned, taskOf, expiring, handles,
                       pins, gnbVars, clientVars, finPc, planVars>>
    BY <1>5 DEF WorkerFail
  <2>3. /\ wkPc' \in [Workers -> {"idle", "assign", "run", "complete", "fail", "dead"}]
        /\ wkTask' \in [Workers -> TaskId \cup {NoTask}]
        /\ WorkerTypes'
    BY <1>0, <2>1, <2>2 DEF WorkerTypes
  <2>4. CASE UNCHANGED <<tasks, activeTasks, entry>>
    BY <1>0, <2>2, <2>3, <2>4, WorkerStepType DEF MappingTypes
  <2>5. CASE /\ Stored(t)
             /\ tasks' = [tasks EXCEPT ![t].status = "failed"]
             /\ Release(t)
             /\ entry' = [entry EXCEPT ![tasks[t].batch] =
                             IF @ = "absent" THEN @ ELSE "failed"]
    <3>1. tasks[t].status # "unused"
      BY <2>5 DEF Stored
    <3>2. /\ tasks' \in [TaskId -> TaskRecord \cup {UnusedTask}]
          /\ MappingTypes'
      BY <2>1, <2>2, <2>5, <3>1, StatusType, StatusMapping
    <3>3. activeTasks' \in [Workers -> SUBSET TaskId]
      BY <1>0, <2>5 DEF Release
    <3>4. entry' \in [Batch -> {"absent", "pending", "available", "failed"}]
      BY <1>0, <2>5
    <3> QED
      BY <1>0, <2>2, <2>3, <3>2, <3>3, <3>4, WorkerStepType
  <2> QED
    BY <1>5, <2>4, <2>5 DEF WorkerFail
<1>6. CASE WorkerFault(w)
  <2>1. /\ \/ /\ wkPc[w] = "run"
              /\ wkPc' = [wkPc EXCEPT ![w] = "fail"]
              /\ UNCHANGED wkTask
           \/ /\ wkPc' = [wkPc EXCEPT ![w] = "dead"]
              /\ wkTask' = [wkTask EXCEPT ![w] = NoTask]
        /\ \E kind : Fault(kind)
        /\ UNCHANGED <<storeVars, gnbVars, clientVars, finPc, planVars>>
    BY <1>6 DEF WorkerFault, WorkerError, WorkerCrash
  <2>2. /\ wkPc' \in [Workers -> {"idle", "assign", "run", "complete", "fail", "dead"}]
        /\ wkTask' \in [Workers -> TaskId \cup {NoTask}]
        /\ WorkerTypes'
    BY <1>0, <2>1 DEF WorkerTypes
  <2> QED
    BY <1>0, <2>1, <2>2, WorkerStepType DEF MappingTypes
<1> QED
  BY <1>1, <1>2, <1>3, <1>4, <1>5, <1>6 DEF Work

LEMMA NextType == TypeInv /\ [Next]_vars => TypeInv'
<1> SUFFICES ASSUME TypeInv, [Next]_vars
             PROVE  TypeInv'
  OBVIOUS
<1>1. CASE Next
  <2>1. CASE \E j \in Jobs : GetNextBatch(j)
    BY <2>1, GnbType
  <2>2. CASE \E j \in Jobs : Acknowledge(j) \/ FinishJob(j)
    BY <2>2, ClientType
  <2>3. CASE \E j \in Jobs : \/ StartJob(j) \/ StartWindow(j) \/ MaintainJob(j)
                             \/ \E b \in Batch : OppChoose(j, b)
    BY <2>3, MaintainType
  <2>4. CASE \E p \in Planners : SchedulePass(p)
    BY <2>4, PlanType
  <2>5. CASE OppCreate
    BY <2>5, OppCreateType
  <2>6. CASE \E b \in Batch : Cleanup(b)
    BY <2>6, CleanupType
  <2>7. CASE \E w \in Workers : Work(w) \/ WorkerFault(w)
    BY <2>7, WorkerType
  <2> QED
    BY <1>1, <2>1, <2>2, <2>3, <2>4, <2>5, <2>6, <2>7 DEF Next
<1>2. CASE UNCHANGED vars
  BY <1>2 DEF vars, storeVars, gnbVars, clientVars, planVars, wkVars,
              TypeInv, TypeOK, GnbTypes, PlanTypes, WorkerTypes, MappingTypes
<1> QED
  BY <1>1, <1>2

\* The dictionaries of the store and the locals of every handler keep their
\* types, whatever the interleaving and the faults.
THEOREM TypeCorrect == Spec => []TypeOK
<1>1. Spec => []TypeInv
  BY InitType, NextType, PTL DEF Spec
<1>2. TypeInv => TypeOK
  BY DEF TypeInv
<1> QED
  BY <1>1, <1>2, PTL

-----------------------------------------------------------------------------
(* What the steps do to the tasks, the payload entries and the pins: most  *)
(* of the threads' steps touch none of them.                               *)

shared == <<tasks, taskOf, jobStatus, entry, handles, pins>>

Creating == /\ \E b \in Batch, k \in Jobs \cup {NoJob} : CreateTask(b, k)
            /\ UNCHANGED <<jobStatus, handles, pins>>

Removing == /\ \E b \in Batch : RemovePayload(b)
            /\ UNCHANGED <<jobStatus, pins>>

Pinning == \/ \E j \in Jobs : GnbPin(j) \/ Acknowledge(j) \/ FinPins(j)

Working == \E w \in Workers : WorkerAssign(w) \/ WorkerComplete(w) \/ WorkerFail(w)

LEMMA StepKinds ==
    ASSUME TypeInv, [Next]_vars
    PROVE  \/ UNCHANGED shared
           \/ Creating
           \/ Removing
           \/ Pinning
           \/ \E j \in Jobs : FinStatus(j) \/ StartJob(j)
           \/ Working
<1> USE DEF shared, storeVars
<1>1. CASE UNCHANGED vars
  BY <1>1 DEF vars
<1>2. ASSUME NEW j \in Jobs, GetNextBatch(j)
      PROVE  UNCHANGED shared \/ Pinning
  BY <1>2 DEF GetNextBatch, GnbStart, GnbLookup, GnbRefresh, GnbWindow, GnbPending,
              GnbFailed, GnbReady, GnbIssue, GnbEpoch, GnbClear, GnbReply, Pinning
<1>3. ASSUME NEW j \in Jobs, Acknowledge(j) \/ FinishJob(j)
      PROVE  UNCHANGED shared \/ Pinning \/ FinStatus(j)
  BY <1>3 DEF FinishJob, FinWindow, Pinning
<1>4. ASSUME NEW j \in Jobs,
             \/ StartJob(j) \/ StartWindow(j) \/ MaintainJob(j)
             \/ \E b \in Batch : OppChoose(j, b)
      PROVE  UNCHANGED shared \/ StartJob(j)
  BY <1>4 DEF StartWindow, MaintainJob, OppChoose
<1>5. ASSUME NEW p \in Planners, SchedulePass(p)
      PROVE  UNCHANGED shared \/ Creating
  <2>1. CASE PlanCreate(p)
    <3>1. PICK b \in planTodo[p] : CreateTask(b, planJob[p])
      BY <2>1 DEF PlanCreate, IsFirst
    <3>2. b \in Batch /\ planJob[p] \in Jobs \cup {NoJob}
      BY <3>1 DEF TypeInv, TypeOK
    <3> QED
      BY <2>1, <3>1, <3>2 DEF PlanCreate, Creating
  <2>2. CASE ~PlanCreate(p)
    BY <1>5, <2>2 DEF SchedulePass, PlanCheck, PlanIndex, PlanStore, PlanRead,
                      PlanEnd, PlanSkip, PlanEach
  <2> QED
    BY <2>1, <2>2
<1>6. ASSUME OppCreate
      PROVE  Creating
  <2>1. PICK b \in planTodo[Maintainer] : CreateTask(b, NoJob)
    BY <1>6 DEF OppCreate
  <2>2. b \in Batch
    BY <2>1 DEF TypeInv, TypeOK, Planners
  <2> QED
    BY <1>6, <2>1, <2>2 DEF OppCreate, Creating
<1>7. ASSUME NEW b \in Batch, Cleanup(b)
      PROVE  Removing
  BY <1>7 DEF Cleanup, Removing
<1>8. ASSUME NEW w \in Workers, Work(w) \/ WorkerFault(w)
      PROVE  UNCHANGED shared \/ Working
  BY <1>8 DEF Work, WorkerFault, WorkerPoll, WorkerMaterialize, WorkerError,
              WorkerCrash, Working
<1> QED
  BY <1>1, <1>2, <1>3, <1>4, <1>5, <1>6, <1>7, <1>8 DEF Next

-----------------------------------------------------------------------------
(* Tasks *)

TaskInv == TypeInv /\ OneLiveTaskPerBatch /\ PendingTaskHasActiveJob

Live(t) == tasks[t].status \in {"pending", "running"}

\* The batch of a live task is a batch: the id of an unused task has none.
LEMMA LiveType ==
    ASSUME TypeInv, NEW t \in TaskId, Live(t)
    PROVE  tasks[t] \in TaskRecord /\ tasks[t].batch \in Batch
BY DEF TypeInv, TypeOK, TaskRecord, UnusedTask, Live

\* A step that starts no task and moves no mapping.
LEMMA FewerTasks ==
    ASSUME TaskInv, UNCHANGED taskOf,
           \A t \in TaskId :
               /\ tasks'[t].status = "pending" => tasks[t].status = "pending"
               /\ tasks'[t].status = "running" => Live(t)
               /\ tasks'[t].batch = tasks[t].batch
               /\ tasks'[t].job = tasks[t].job,
           \A j \in Jobs : Active(j) /\ ~Active(j)' =>
               \A t \in TaskId : tasks'[t].job = j => tasks'[t].status # "pending"
    PROVE  OneLiveTaskPerBatch' /\ PendingTaskHasActiveJob'
<1>1. OneLiveTaskPerBatch'
  BY DEF TaskInv, OneLiveTaskPerBatch, Live
<1>2. PendingTaskHasActiveJob'
  <2> SUFFICES ASSUME NEW t \in TaskId, tasks'[t].status = "pending", tasks'[t].job # NoJob
               PROVE  jobStatus'[tasks'[t].job] = "active"
    BY DEF PendingTaskHasActiveJob, PendingTasks, Active
  <2>1. tasks[t].status = "pending" /\ tasks[t].job = tasks'[t].job
    OBVIOUS
  <2>2. Active(tasks[t].job) /\ tasks[t].job \in Jobs
    BY <2>1, LiveType DEF TaskInv, PendingTaskHasActiveJob, PendingTasks, TaskRecord, Live
  <2> QED
    BY <2>1, <2>2 DEF Active
<1> QED
  BY <1>1, <1>2

LEMMA TaskStep == TaskInv /\ [Next]_vars => TaskInv'
<1> SUFFICES ASSUME TaskInv, [Next]_vars
             PROVE  TaskInv'
  OBVIOUS
<1>1. TypeInv /\ TypeInv'
  BY NextType DEF TaskInv
<1>2. CASE UNCHANGED shared \/ Pinning
  <2>1. UNCHANGED <<tasks, taskOf, jobStatus>>
    BY <1>2 DEF shared, Pinning, GnbPin, Acknowledge, FinPins
  <2> QED
    BY <1>1, <2>1 DEF TaskInv, OneLiveTaskPerBatch, PendingTaskHasActiveJob,
                      PendingTasks, Active
<1>3. CASE Creating
  <2>1. PICK b \in Batch, k \in Jobs \cup {NoJob} : CreateTask(b, k)
    BY <1>3 DEF Creating
  <2>2. CASE ~MayCreate(b, k)
    BY <1>1, <1>3, <2>1, <2>2 DEF CreateTask, Creating, TaskInv, OneLiveTaskPerBatch,
                                  PendingTaskHasActiveJob, PendingTasks, Active
  <2>3. CASE MayCreate(b, k)
    <3> DEFINE new == [batch |-> b, job |-> k, status |-> "pending"]
    <3>1. PICK t \in TaskId : /\ tasks[t].status = "unused"
                              /\ tasks' = [tasks EXCEPT ![t] = new]
                              /\ taskOf' = [taskOf EXCEPT ![b] = t]
      BY <2>1, <2>3 DEF CreateTask
    <3>2. /\ tasks'[t] = new /\ taskOf'[b] = t
          /\ \A u \in TaskId \ {t} : tasks'[u] = tasks[u]
          /\ \A c \in Batch \ {b} : taskOf'[c] = taskOf[c]
      BY <1>1, <3>1 DEF TypeInv, TypeOK
    <3>3. \A u \in TaskId : Live(u) => tasks[u].batch # b
      <4> SUFFICES ASSUME NEW u \in TaskId, Live(u), tasks[u].batch = b
                   PROVE  FALSE
        OBVIOUS
      <4>1. taskOf[b] = u
        BY DEF TaskInv, OneLiveTaskPerBatch, Live
      <4> QED
        BY <2>3, <4>1 DEF MayCreate, Live, NoTask, TaskId
    <3>4. OneLiveTaskPerBatch'
      <4> SUFFICES ASSUME NEW u \in TaskId, tasks'[u].status \in {"pending", "running"}
                   PROVE  taskOf'[tasks'[u].batch] = u
        BY DEF OneLiveTaskPerBatch
      <4>1. CASE u = t
        BY <3>2, <4>1
      <4>2. CASE u # t
        <5>1. tasks'[u] = tasks[u] /\ Live(u)
          BY <3>2, <4>2 DEF Live
        <5>2. tasks[u].batch \in Batch \ {b}
          BY <1>1, <3>3, <5>1, LiveType
        <5> QED
          BY <3>2, <5>1, <5>2 DEF TaskInv, OneLiveTaskPerBatch, Live
      <4> QED
        BY <4>1, <4>2
    <3>5. PendingTaskHasActiveJob'
      BY <1>3, <2>3, <3>2 DEF Creating, MayCreate, TaskInv, PendingTaskHasActiveJob,
                              PendingTasks, Active
    <3> QED
      BY <1>1, <3>4, <3>5 DEF TaskInv
  <2> QED
    BY <2>2, <2>3
<1>4. CASE Removing
  <2>1. PICK b \in Batch : /\ taskOf' = [taskOf EXCEPT ![b] = NoTask]
                           /\ tasks' = IF taskOf[b] = NoTask THEN tasks
                                       ELSE [tasks EXCEPT ![taskOf[b]].status = "gone"]
                           /\ jobStatus' = jobStatus
    BY <1>4 DEF Removing, RemovePayload, Unmap
  <2>2. /\ \A u \in TaskId : tasks'[u] = tasks[u] \/ tasks'[u].status = "gone"
        /\ taskOf[b] # NoTask => tasks'[taskOf[b]].status = "gone"
        /\ \A c \in Batch \ {b} : taskOf'[c] = taskOf[c]
    BY <1>1, <2>1 DEF TypeInv, TypeOK
  <2>3. OneLiveTaskPerBatch'
    <3> SUFFICES ASSUME NEW u \in TaskId, tasks'[u].status \in {"pending", "running"}
                 PROVE  taskOf'[tasks'[u].batch] = u
      BY DEF OneLiveTaskPerBatch
    <3>1. tasks'[u] = tasks[u] /\ Live(u)
      BY <2>2 DEF Live
    <3>2. taskOf[tasks[u].batch] = u /\ tasks[u].batch \in Batch
      BY <1>1, <3>1, LiveType DEF TaskInv, OneLiveTaskPerBatch, Live
    <3>3. tasks[u].batch # b
      BY <2>2, <3>2 DEF NoTask, TaskId
    <3> QED
      BY <2>2, <3>1, <3>2, <3>3
  <2>4. PendingTaskHasActiveJob'
    BY <2>1, <2>2 DEF TaskInv, PendingTaskHasActiveJob, PendingTasks, Active
  <2> QED
    BY <1>1, <2>3, <2>4 DEF TaskInv
<1>5. CASE \E j \in Jobs : FinStatus(j)
  <2>1. PICK j \in Jobs : FinStatus(j)
    BY <1>5
  <2>2. /\ jobStatus' = [jobStatus EXCEPT ![j] = "finished"]
        /\ taskOf' = taskOf
        /\ tasks' = [t \in TaskId |->
                       IF tasks[t].job = j /\ tasks[t].status = "pending"
                       THEN [tasks[t] EXCEPT !.status = "cancelled"]
                       ELSE tasks[t]]
    BY <2>1 DEF FinStatus, Cancelled
  <2>3. ASSUME NEW t \in TaskId
        PROVE  /\ tasks'[t].status = "pending" => tasks[t].status = "pending"
               /\ tasks'[t].status = "running" => Live(t)
               /\ tasks'[t].batch = tasks[t].batch
               /\ tasks'[t].job = tasks[t].job
               /\ tasks'[t].job = j => tasks'[t].status # "pending"
    <3>1. tasks[t] \in TaskRecord \cup {UnusedTask}
      BY <1>1 DEF TypeInv, TypeOK
    <3>2. CASE tasks[t].job = j /\ tasks[t].status = "pending"
      BY <2>2, <3>1, <3>2 DEF TaskRecord, UnusedTask
    <3>3. CASE ~(tasks[t].job = j /\ tasks[t].status = "pending")
      <4>1. tasks'[t] = tasks[t]
        BY <2>2, <3>3
      <4> QED
        BY <3>3, <4>1 DEF Live
    <3> QED
      BY <3>2, <3>3
  <2>4. \A i \in Jobs : Active(i) /\ ~Active(i)' => i = j
    BY <1>1, <2>2 DEF TypeInv, TypeOK, Active
  <2> QED
    BY <1>1, <2>2, <2>3, <2>4, FewerTasks DEF TaskInv
<1>6. CASE \E j \in Jobs : StartJob(j)
  <2>1. PICK j \in Jobs : jobStatus' = [jobStatus EXCEPT ![j] = "active"]
    BY <1>6 DEF StartJob
  <2>2. \A i \in Jobs : Active(i) => Active(i)'
    BY <1>1, <2>1 DEF TypeInv, TypeOK, Active
  <2>3. UNCHANGED <<tasks, taskOf>>
    BY <1>6 DEF StartJob
  <2> QED
    BY <1>1, <2>2, <2>3, FewerTasks DEF TaskInv, Live
<1>7. CASE Working
  <2>1. UNCHANGED <<taskOf, jobStatus>>
    BY <1>7 DEF Working, WorkerAssign, WorkerComplete, WorkerFail
  <2>2. \/ tasks' = tasks
        \/ \E t \in TaskId : \/ tasks' = [tasks EXCEPT ![t].status = "completed"]
                             \/ tasks' = [tasks EXCEPT ![t].status = "failed"]
                             \/ tasks' = [tasks EXCEPT ![t].status = "cancelled"]
                             \/ /\ tasks' = [tasks EXCEPT ![t].status = "running"]
                                /\ tasks[t].status = "pending"
    <3>1. PICK w \in Workers : WorkerAssign(w) \/ WorkerComplete(w) \/ WorkerFail(w)
      BY <1>7 DEF Working
    <3>2. wkTask[w] \in TaskId
      BY <1>1, <3>1 DEF TypeInv, WorkerTypes, WorkerAssign, WorkerComplete, WorkerFail
    <3> QED
      BY <3>1, <3>2 DEF WorkerAssign, WorkerComplete, WorkerFail
  <2>3. ASSUME NEW t \in TaskId
        PROVE  /\ tasks'[t].status = "pending" => tasks[t].status = "pending"
               /\ tasks'[t].status = "running" => Live(t)
               /\ tasks'[t].batch = tasks[t].batch
               /\ tasks'[t].job = tasks[t].job
    <3>1. tasks \in [TaskId -> TaskRecord \cup {UnusedTask}]
      BY <1>1 DEF TypeInv, TypeOK
    <3>2. tasks[t] \in TaskRecord \cup {UnusedTask}
      BY <3>1
    <3> QED
      BY <2>2, <3>1, <3>2 DEF TaskRecord, UnusedTask, Live
  <2> QED
    BY <1>1, <2>1, <2>3, FewerTasks DEF TaskInv, Active
<1> QED
  BY <1>1, <1>2, <1>3, <1>4, <1>5, <1>6, <1>7, StepKinds

LEMMA TaskInit == Init => TaskInv
BY InitType DEF Init, TaskInv, OneLiveTaskPerBatch, PendingTaskHasActiveJob,
                PendingTasks, UnusedTask

\* No interleaving of StartJob, the maintainer, FinishJob, the workers and the
\* cleanup leaves a batch with two live tasks, or a live task its batch id does
\* not map to.
THEOREM OneLiveTask == Spec => []OneLiveTaskPerBatch
<1>1. Spec => []TaskInv
  BY TaskInit, TaskStep, PTL DEF Spec
<1>2. TaskInv => OneLiveTaskPerBatch
  BY DEF TaskInv
<1> QED
  BY <1>1, <1>2, PTL

\* A job that is closed has no pending task, also when a scheduler that found
\* it active creates tasks for it late.
THEOREM NoPendingTaskOfClosedJob == Spec => []PendingTaskHasActiveJob
<1>1. Spec => []TaskInv
  BY TaskInit, TaskStep, PTL DEF Spec
<1>2. TaskInv => PendingTaskHasActiveJob
  BY DEF TaskInv
<1> QED
  BY <1>1, <1>2, PTL

-----------------------------------------------------------------------------
(* Payloads *)

PayloadInv == TypeInv /\ KnownPayload

LEMMA PayloadStep == PayloadInv /\ [Next]_vars => PayloadInv'
<1> SUFFICES ASSUME PayloadInv, [Next]_vars
             PROVE  PayloadInv'
  OBVIOUS
<1>1. TypeInv /\ TypeInv'
  BY NextType DEF PayloadInv
<1>2. entry \in [Batch -> {"absent", "pending", "available", "failed"}]
  BY <1>1 DEF TypeInv, TypeOK
<1>3. CASE UNCHANGED <<entry, handles, pins>>
  BY <1>1, <1>3 DEF PayloadInv, KnownPayload, Pinned
<1>4. CASE Creating
  <2>1. PICK b \in Batch, k \in Jobs \cup {NoJob} : CreateTask(b, k)
    BY <1>4 DEF Creating
  <2>2. \A c \in Batch : entry[c] # "absent" => entry'[c] # "absent"
    BY <1>2, <2>1 DEF CreateTask
  <2> QED
    BY <1>1, <1>4, <2>2 DEF Creating, PayloadInv, KnownPayload, Pinned
<1>5. CASE Removing
  <2>1. PICK b \in Batch : /\ ~Pinned(b)
                           /\ entry' = [entry EXCEPT ![b] = "absent"]
                           /\ handles' = handles \ {b}
                           /\ pins' = pins
    BY <1>5 DEF Removing, RemovePayload, Removable
  <2> QED
    BY <1>1, <1>2, <2>1 DEF PayloadInv, KnownPayload, Pinned
<1>6. CASE Pinning
  <2>1. PICK j \in Jobs : GnbPin(j) \/ Acknowledge(j) \/ FinPins(j)
    BY <1>6 DEF Pinning
  <2>2. UNCHANGED <<entry, handles>>
    BY <2>1 DEF GnbPin, Acknowledge, FinPins
  <2>3. \A p \in pins' : p \in pins \/ entry[p[1]] # "absent"
    BY <2>1 DEF GnbPin, Acknowledge, FinPins, Unpin
  <2>4. \A c \in Batch, i \in Jobs :
           <<c, i>> \in pins' => <<c, i>> \in pins \/ entry[c] # "absent"
    BY <2>3
  <2> QED
    BY <1>1, <2>2, <2>4 DEF PayloadInv, KnownPayload, Pinned
<1>7. CASE Working
  <2>1. pins' = pins
    BY <1>7 DEF Working, WorkerAssign, WorkerComplete, WorkerFail
  <2>2. \/ UNCHANGED <<entry, handles>>
        \/ \E b \in Batch : /\ entry' = [entry EXCEPT ![b] = "available"]
                            /\ handles' = handles \cup {b}
        \/ \E b \in Batch : /\ entry' = [entry EXCEPT ![b] =
                                            IF @ = "absent" THEN @ ELSE "failed"]
                            /\ handles' = handles
    <3>1. PICK w \in Workers : WorkerAssign(w) \/ WorkerComplete(w) \/ WorkerFail(w)
      BY <1>7 DEF Working
    <3>2. wkTask[w] \in TaskId
      BY <1>1, <3>1 DEF TypeInv, WorkerTypes, WorkerAssign, WorkerComplete, WorkerFail
    <3>3. Stored(wkTask[w]) => tasks[wkTask[w]].batch \in Batch
      BY <1>1, <3>2 DEF Stored, TypeInv, TypeOK, TaskRecord, UnusedTask
    <3> QED
      BY <3>1, <3>3 DEF WorkerAssign, WorkerComplete, WorkerFail
  <2>3. \A c \in Batch : /\ entry[c] # "absent" => entry'[c] # "absent"
                         /\ c \in handles' => c \in handles \/ entry'[c] # "absent"
    BY <1>2, <2>2
  <2> QED
    BY <1>1, <2>1, <2>3 DEF PayloadInv, KnownPayload, Pinned
<1>8. CASE \E j \in Jobs : FinStatus(j) \/ StartJob(j)
  <2>1. UNCHANGED <<entry, handles, pins>>
    BY <1>8 DEF FinStatus, StartJob
  <2> QED
    BY <1>3, <2>1
<1> QED
  BY <1>1, <1>3, <1>4, <1>5, <1>6, <1>7, <1>8, StepKinds DEF shared

\* Removal by the maintainer, completion and failure reports of several workers
\* and pinning never leave a READY handle or a pin without a payload entry.
THEOREM HandlesAndPinsAreKnown == Spec => []KnownPayload
<1>1. Init => PayloadInv
  BY InitType DEF Init, PayloadInv, KnownPayload, Pinned
<1>2. Spec => []PayloadInv
  BY <1>1, PayloadStep, PTL DEF Spec
<1>3. PayloadInv => KnownPayload
  BY DEF PayloadInv
<1> QED
  BY <1>2, <1>3, PTL

-----------------------------------------------------------------------------
(* Pins.  PinHasHolder is not inductive: a batch in hand only counts from  *)
(* the moment it is pinned, and a call starts after StartJob returned.     *)

InHand == {"issue", "epoch", "clear", "refresh", "window", "reply"}

Fetching(b, j) == \E n \in (acked[j] + 1)..Len(received[j]) : received[j][n] = b

Holding(b, j) == (gnbBatch[j] = b /\ gnbPc[j] \in InHand) \/ Fetching(b, j)

PinInv ==
    /\ TypeInv
    /\ \A j \in Jobs : acked[j] <= Len(received[j])
    /\ \A j \in Jobs : planPc[j] # "returned" => gnbPc[j] = "off"
    /\ \A b \in Batch, j \in Jobs : <<b, j>> \in pins => Holding(b, j)

callers == <<pins, gnbPc, gnbBatch, received, acked>>

\* What the steps of everybody else leave of a job's calls and pins.
LEMMA CallerStep ==
    ASSUME PinInv, [Next]_vars
    PROVE  \/ UNCHANGED callers /\ \A j \in Jobs : planPc[j] = "returned" => planPc'[j] = "returned"
           \/ \E j \in Jobs : /\ GetNextBatch(j) \/ Acknowledge(j) \/ FinPins(j)
                              /\ planPc' = planPc
           \/ \E p \in Jobs : /\ planPc[p] # "returned"
                              /\ gnbPc' = [gnbPc EXCEPT ![p] = "idle"]
                              /\ planPc' = [planPc EXCEPT ![p] = "returned"]
                              /\ UNCHANGED <<pins, gnbBatch, received, acked>>
<1> USE NameAssumption DEF callers, storeVars, gnbVars, clientVars, planVars, PlanGoto, GnbGoto
<1>0. planPc \in [Planners -> {"idle", "force", "check", "index", "store",
                              "read", "each", "create", "opp", "returned"}]
  BY DEF PinInv, TypeInv, TypeOK
<1>1. CASE UNCHANGED vars
  BY <1>1 DEF vars
<1>2. ASSUME NEW j \in Jobs, GetNextBatch(j) \/ Acknowledge(j) \/ FinPins(j)
      PROVE  planPc' = planPc
  BY <1>2 DEF GetNextBatch, GnbStart, GnbLookup, GnbRefresh, GnbWindow, GnbPending,
              GnbFailed, GnbReady, GnbPin, GnbIssue, GnbEpoch, GnbClear, GnbReply,
              Acknowledge, FinPins
<1>3. ASSUME NEW j \in Jobs, FinStatus(j) \/ FinWindow(j)
      PROVE  UNCHANGED callers /\ planPc' = planPc
  BY <1>3 DEF FinStatus, FinWindow
<1>4. ASSUME NEW j \in Jobs,
             \/ StartJob(j) \/ StartWindow(j) \/ MaintainJob(j)
             \/ \E b \in Batch : OppChoose(j, b)
      PROVE  UNCHANGED callers /\ \A i \in Jobs : planPc[i] = "returned" => planPc'[i] = "returned"
  BY <1>0, <1>4 DEF StartJob, StartWindow, MaintainJob, OppChoose, Planners
<1>5. ASSUME OppCreate
      PROVE  UNCHANGED callers /\ \A i \in Jobs : planPc[i] = "returned" => planPc'[i] = "returned"
  BY <1>0, <1>5 DEF OppCreate, Planners
<1>6. ASSUME NEW p \in Planners, SchedulePass(p)
      PROVE  \/ UNCHANGED callers /\ \A i \in Jobs : planPc[i] = "returned" => planPc'[i] = "returned"
             \/ /\ p \in Jobs
                /\ planPc[p] # "returned"
                /\ gnbPc' = [gnbPc EXCEPT ![p] = "idle"]
                /\ planPc' = [planPc EXCEPT ![p] = "returned"]
                /\ UNCHANGED <<pins, gnbBatch, received, acked>>
  <2>1. CASE PlanDone(p)
    <3>1. planPc[p] # "returned" /\ UNCHANGED <<pins, gnbBatch, received, acked>>
      BY <1>6 DEF SchedulePass, PlanCheck, PlanIndex, PlanStore, PlanRead,
                  PlanEnd, PlanSkip, PlanEach, PlanCreate
    <3> QED
      BY <1>0, <2>1, <3>1 DEF PlanDone, Planners
  <2>2. CASE ~PlanDone(p)
    <3>1. UNCHANGED callers /\ planPc[p] # "returned"
      BY <1>6, <2>2 DEF SchedulePass, PlanCheck, PlanIndex, PlanStore, PlanRead,
                        PlanEnd, PlanSkip, PlanEach, PlanCreate
    <3>2. planPc' = planPc \/ \E q : planPc' = [planPc EXCEPT ![p] = q]
      BY <1>6, <2>2 DEF SchedulePass, PlanCheck, PlanIndex, PlanStore, PlanRead,
                        PlanEnd, PlanSkip, PlanEach, PlanCreate
    <3> QED
      BY <1>0, <3>1, <3>2 DEF Planners
  <2> QED
    BY <2>1, <2>2
<1>7. ASSUME \/ \E b \in Batch : Cleanup(b)
             \/ \E w \in Workers : Work(w) \/ WorkerFault(w)
      PROVE  UNCHANGED callers /\ planPc' = planPc
  BY <1>7 DEF Cleanup, Work, WorkerFault, WorkerPoll, WorkerAssign, WorkerMaterialize,
              WorkerComplete, WorkerFail, WorkerError, WorkerCrash
<1> QED
  BY <1>1, <1>2, <1>3, <1>4, <1>5, <1>6, <1>7 DEF Next, FinishJob

\* A call that hands a batch out, or goes on with it, keeps every pin's holder.
LEMMA CallHolds ==
    ASSUME PinInv, NEW j \in Jobs, GetNextBatch(j)
    PROVE  /\ acked'[j] <= Len(received'[j])
           /\ gnbPc[j] # "off"
           /\ \A b \in Batch : <<b, j>> \in pins' => Holding(b, j)'
           /\ \A i \in Jobs \ {j} :
                 /\ \A b \in Batch : <<b, i>> \in pins' => <<b, i>> \in pins
                 /\ UNCHANGED <<gnbPc[i], gnbBatch[i], received[i], acked[i]>>
<1> USE DEF storeVars, clientVars, GnbGoto
<1>1. /\ gnbPc \in [Jobs -> {"off", "idle", "lookup", "refresh", "retry", "window",
                             "resolve", "pin", "issue", "epoch", "clear", "reply",
                             "failed", "done", "none"}]
      /\ gnbBatch \in [Jobs -> Batch \cup {NoBatch}]
      /\ received \in [Jobs -> Seq(Batch)]
      /\ acked \in [Jobs -> Nat]
      /\ acked[j] <= Len(received[j])
  BY DEF PinInv, TypeInv, TypeOK
<1>2. \A b \in Batch : <<b, j>> \in pins => Holding(b, j)
  BY DEF PinInv
<1>3. CASE \/ GnbStart(j) \/ GnbLookup(j) \/ GnbPending(j) \/ GnbFailed(j) \/ GnbReady(j)
  <2>1. gnbPc[j] \notin InHand \cup {"off"} /\ UNCHANGED <<pins, received, acked>>
    BY <1>3 DEF GnbStart, GnbLookup, GnbPending, GnbFailed, GnbReady, InHand
  <2>2. \A b \in Batch : <<b, j>> \in pins' => Fetching(b, j)'
    BY <1>2, <2>1 DEF Holding, Fetching
  <2>3. \A i \in Jobs \ {j} : UNCHANGED <<gnbPc[i], gnbBatch[i]>>
    BY <1>1, <1>3 DEF GnbStart, GnbLookup, GnbPending, GnbFailed, GnbReady
  <2> QED
    BY <1>1, <2>1, <2>2, <2>3 DEF Holding
<1>4. CASE GnbRefresh(j) \/ GnbWindow(j) \/ GnbIssue(j) \/ GnbEpoch(j) \/ GnbClear(j)
  <2>1. /\ gnbPc[j] # "off"
        /\ \/ gnbBatch[j] = NoBatch
           \/ \E pc \in InHand : gnbPc' = [gnbPc EXCEPT ![j] = pc]
        /\ \E pc : gnbPc' = [gnbPc EXCEPT ![j] = pc]
        /\ UNCHANGED <<pins, gnbBatch, received, acked>>
    BY <1>4 DEF GnbRefresh, GnbWindow, GnbIssue, GnbEpoch, GnbClear, InHand
  <2>2. \A b \in Batch : <<b, j>> \in pins => Holding(b, j)'
    BY <1>1, <1>2, <2>1, NoBatchAssumption DEF Holding, Fetching
  <2> QED
    BY <1>1, <2>1, <2>2
<1>5. CASE GnbPin(j)
  <2>1. /\ gnbPc[j] = "pin"
        /\ gnbPc' = [gnbPc EXCEPT ![j] = "issue"]
        /\ pins' \subseteq pins \cup {<<gnbBatch[j], j>>}
        /\ UNCHANGED <<gnbBatch, received, acked>>
    BY <1>5 DEF GnbPin
  <2>2. \A b \in Batch : <<b, j>> \in pins => Fetching(b, j)
    BY <1>2, <2>1 DEF Holding, InHand
  <2>3. \A b \in Batch : <<b, j>> \in pins' => Fetching(b, j)' \/ gnbBatch'[j] = b
    BY <2>1, <2>2 DEF Fetching
  <2> QED
    BY <1>1, <2>1, <2>3 DEF Holding, InHand
<1>6. CASE GnbReply(j)
  <2>1. /\ gnbPc[j] = "reply"
        /\ received' = [received EXCEPT ![j] = Append(@, gnbBatch[j])]
        /\ gnbBatch' = [gnbBatch EXCEPT ![j] = NoBatch]
        /\ gnbPc' = [gnbPc EXCEPT ![j] = "idle"]
        /\ UNCHANGED <<pins, acked>>
    BY <1>6 DEF GnbReply
  <2>2. gnbBatch[j] \in Batch
    BY <2>1 DEF PinInv, TypeInv, GnbTypes
  <2>3. received'[j] = Append(received[j], gnbBatch[j]) /\ received[j] \in Seq(Batch)
    BY <1>1, <2>1
  <2>4. /\ Len(received'[j]) = Len(received[j]) + 1
        /\ received'[j][Len(received[j]) + 1] = gnbBatch[j]
        /\ \A n \in 1..Len(received[j]) : received'[j][n] = received[j][n]
    BY <2>2, <2>3
  <2>5. acked'[j] = acked[j] /\ acked[j] \in Nat /\ Len(received[j]) \in Nat
    BY <1>1, <2>1, <2>3
  <2>6. \A b \in Batch : <<b, j>> \in pins => Fetching(b, j)'
    <3> SUFFICES ASSUME NEW b \in Batch, <<b, j>> \in pins
                 PROVE  \E n \in (acked'[j] + 1)..Len(received'[j]) : received'[j][n] = b
      BY DEF Fetching
    <3>1. CASE gnbBatch[j] = b
      <4>1. Len(received[j]) + 1 \in (acked'[j] + 1)..Len(received'[j])
        BY <1>1, <2>4, <2>5
      <4> QED
        BY <2>4, <3>1, <4>1
    <3>2. CASE Fetching(b, j)
      <4>1. PICK n \in (acked[j] + 1)..Len(received[j]) : received[j][n] = b
        BY <3>2 DEF Fetching
      <4>2. n \in 1..Len(received[j]) /\ n \in (acked'[j] + 1)..Len(received'[j])
        BY <2>4, <2>5, <4>1
      <4>3. received'[j][n] = b
        BY <2>4, <4>1, <4>2
      <4> QED
        BY <4>2, <4>3
    <3> QED
      BY <1>2, <3>1, <3>2 DEF Holding
  <2> QED
    BY <1>1, <2>1, <2>4, <2>5, <2>6 DEF Holding
<1> QED
  BY <1>3, <1>4, <1>5, <1>6 DEF GetNextBatch

\* An acknowledgement drops the pin of the batch that is no longer held.
LEMMA AckHolds ==
    ASSUME PinInv, NEW j \in Jobs, Acknowledge(j)
    PROVE  /\ acked'[j] <= Len(received'[j])
           /\ \A b \in Batch : <<b, j>> \in pins' => Holding(b, j)'
           /\ UNCHANGED <<gnbPc, gnbBatch, received>>
           /\ \A i \in Jobs \ {j} : acked'[i] = acked[i]
           /\ pins' \subseteq pins
<1>1. /\ received \in [Jobs -> Seq(Batch)]
      /\ acked \in [Jobs -> Nat]
  BY DEF PinInv, TypeInv, TypeOK
<1>2. /\ acked[j] < Len(received[j])
      /\ acked' = [acked EXCEPT ![j] = @ + 1]
      /\ pins' = pins \ {<<received[j][acked[j] + 1], j>>}
      /\ UNCHANGED <<gnbPc, gnbBatch, received>>
  BY DEF Acknowledge, Unpin, gnbVars
<1>3. /\ acked'[j] = acked[j] + 1 /\ acked[j] \in Nat
      /\ Len(received[j]) \in Nat /\ received' = received
  BY <1>1, <1>2
<1>4. ASSUME NEW b \in Batch, <<b, j>> \in pins'
      PROVE  Holding(b, j)'
  <2>1. <<b, j>> \in pins /\ received[j][acked[j] + 1] # b
    BY <1>2, <1>4
  <2>2. Holding(b, j)
    BY <2>1 DEF PinInv
  <2>3. CASE Fetching(b, j)
    <3>1. PICK n \in (acked[j] + 1)..Len(received[j]) : received[j][n] = b
      BY <2>3 DEF Fetching
    <3>2. n \in (acked'[j] + 1)..Len(received'[j])
      BY <1>3, <2>1, <3>1
    <3> QED
      BY <1>3, <3>1, <3>2 DEF Holding, Fetching
  <2>4. CASE gnbBatch[j] = b /\ gnbPc[j] \in InHand
    BY <1>2, <2>4 DEF Holding, InHand
  <2> QED
    BY <2>2, <2>3, <2>4 DEF Holding
<1> QED
  BY <1>1, <1>2, <1>3, <1>4

LEMMA PinStep == PinInv /\ [Next]_vars => PinInv'
<1> SUFFICES ASSUME PinInv, [Next]_vars
             PROVE  PinInv'
  OBVIOUS
<1>1. TypeInv /\ TypeInv'
  BY NextType DEF PinInv
<1>2. CASE /\ UNCHANGED callers
           /\ \A j \in Jobs : planPc[j] = "returned" => planPc'[j] = "returned"
  BY <1>1, <1>2 DEF callers, PinInv, Holding, Fetching
<1>3. CASE \E j \in Jobs : GetNextBatch(j) /\ planPc' = planPc
  <2>1. PICK j \in Jobs : GetNextBatch(j) /\ planPc' = planPc
    BY <1>3
  <2>2. \A i \in Jobs \ {j}, b \in Batch : Holding(b, i) => Holding(b, i)'
    BY <2>1, CallHolds DEF Holding, Fetching
  <2>3. \A i \in Jobs : acked'[i] <= Len(received'[i])
    BY <2>1, CallHolds DEF PinInv
  <2> QED
    BY <1>1, <2>1, <2>2, <2>3, CallHolds DEF PinInv
<1>4. CASE \E j \in Jobs : Acknowledge(j) /\ planPc' = planPc
  <2>1. PICK j \in Jobs : Acknowledge(j) /\ planPc' = planPc
    BY <1>4
  <2>2. \A i \in Jobs \ {j}, b \in Batch : Holding(b, i) => Holding(b, i)'
    BY <2>1, AckHolds DEF Holding, Fetching
  <2>3. \A i \in Jobs : acked'[i] <= Len(received'[i])
    BY <2>1, AckHolds DEF PinInv
  <2> QED
    BY <1>1, <2>1, <2>2, <2>3, AckHolds DEF PinInv
<1>5. CASE \E j \in Jobs : FinPins(j) /\ planPc' = planPc
  <2>1. pins' \subseteq pins /\ UNCHANGED <<gnbPc, gnbBatch, received, acked, planPc>>
    BY <1>5 DEF FinPins, gnbVars, clientVars
  <2> QED
    BY <1>1, <2>1 DEF PinInv, Holding, Fetching
<1>6. CASE \E p \in Jobs : /\ planPc[p] # "returned"
                           /\ gnbPc' = [gnbPc EXCEPT ![p] = "idle"]
                           /\ planPc' = [planPc EXCEPT ![p] = "returned"]
                           /\ UNCHANGED <<pins, gnbBatch, received, acked>>
  <2>1. PICK p \in Jobs : /\ planPc[p] # "returned"
                         /\ gnbPc' = [gnbPc EXCEPT ![p] = "idle"]
                         /\ planPc' = [planPc EXCEPT ![p] = "returned"]
                         /\ UNCHANGED <<pins, gnbBatch, received, acked>>
    BY <1>6
  <2>2. gnbPc[p] = "off"
    BY <2>1 DEF PinInv
  <2>3. /\ \A i \in Jobs \ {p} : gnbPc'[i] = gnbPc[i] /\ planPc'[i] = planPc[i]
        /\ planPc'[p] = "returned"
    BY <1>1, <2>1 DEF TypeInv, TypeOK, Planners
  <2>4. \A b \in Batch, i \in Jobs : Holding(b, i) => Holding(b, i)'
    BY <2>1, <2>2, <2>3 DEF Holding, Fetching, InHand
  <2> QED
    BY <1>1, <2>1, <2>3, <2>4 DEF PinInv
<1> QED
  BY <1>2, <1>3, <1>4, <1>5, <1>6, CallerStep

\* A pin of a job always belongs to its call in flight or to a batch its client
\* has still to acknowledge: calls, acknowledgements, FinishJob and the end of
\* StartJob, each in its own thread, keep the pins and their holders together.
THEOREM EveryPinHasHolder == Spec => []PinHasHolder
<1>1. Init => PinInv
  BY InitType DEF Init, PinInv
<1>2. Spec => []PinInv
  BY <1>1, PinStep, PTL DEF Spec
<1>3. PinInv => PinHasHolder
  BY DEF PinInv, Holding, Fetching, PinHasHolder
<1> QED
  BY <1>2, <1>3, PTL

-----------------------------------------------------------------------------
(* The life of a job and of its calls.  InOrderDelivery, NoSpuriousDone    *)
(* and FailureHasCause need to know where a call stands between its steps: *)
(* which batch is due, and whether the window still holds it.              *)

Finished(j) == jobStatus[j] = "finished"

\* StartJob comes first and comes once; FinishJob only comes to what it started.
LifeInv ==
    \A j \in Jobs : /\ planPc[j] = "idle" <=> jobStatus[j] = "absent"
                    /\ finPc[j] # "idle" => Finished(j)

\* The batch the client of j has to get next.
Due(j) == Delivery!Following(j)

\* A call that looks for its batch, that found one, and that gives it away.
Searching(j) == \/ gnbPc[j] \in {"lookup", "retry"}
                \/ gnbPc[j] \in {"refresh", "window"} /\ gnbBatch[j] = NoBatch
Granting(j) == gnbPc[j] \in {"resolve", "pin", "issue"}
Moving(j) == \/ gnbPc[j] \in {"clear", "reply"}
             \/ gnbPc[j] \in {"refresh", "window"} /\ gnbBatch[j] # NoBatch

\* The progress of an open job stands at the batch that is due, and at the one
\* after it while the call that moved it is on its way back.
DueInv(j) ==
    /\ gnbPc[j] \in {"off", "idle", "lookup", "retry"} => gnbBatch[j] = NoBatch
    /\ gnbPc[j] # "epoch" => progress[j].next < BatchesPerEpoch
    /\ Searching(j) => NextBatch(j) = Due(j)
    /\ gnbPc[j] \in {"off", "idle"} /\ ~Finished(j) => NextBatch(j) = Due(j)
    /\ Granting(j) => gnbBatch[j] = NextBatch(j) /\ NextBatch(j) = Due(j)
    /\ gnbPc[j] = "epoch" \/ Moving(j) => gnbBatch[j] = Due(j)
    /\ gnbPc[j] = "epoch" /\ ~Finished(j) =>
          /\ gnbBatch[j].owner = Owner(j)
          /\ progress[j].epoch = gnbBatch[j].epoch
          /\ progress[j].next = gnbBatch[j].index + 1
    /\ Moving(j) /\ ~Finished(j) => NextBatch(j) = Delivery!Successor(gnbBatch[j])

\* The maintainer is about to install a window without the job's next batch.
Outdated(j) ==
    /\ planJob[Maintainer] = j
    /\ \/ planPc[Maintainer] = "index" /\ planEpoch[Maintainer] # progress[j].epoch
       \/ planPc[Maintainer] = "store" /\ NextBatch(j) \notin planTodo[Maintainer]

\* The window of an open job holds the next batch, or nobody is about to spoil
\* the refresh that will bring it.
WindowInv(j) ==
    ~Finished(j) =>
        /\ gnbPc[j] # "none"
        /\ gnbPc[j] \in {"idle", "lookup", "resolve", "reply"}
              => NextBatch(j) \in planned[j] \/ ~Outdated(j)
        /\ gnbPc[j] = "off" \/ (gnbPc[j] \in {"refresh", "window"} /\ gnbBatch[j] = NoBatch)
              => ~Outdated(j)
        /\ gnbPc[j] = "retry" => NextBatch(j) \in planned[j] /\ ~Outdated(j)

CallInv == /\ PinInv /\ LifeInv
           /\ \A j \in Jobs : DueInv(j) /\ WindowInv(j)

\* Nothing but the call of a job moves it on.
LEMMA DueSame ==
    ASSUME NEW j \in Jobs, received'[j] = received[j]
    PROVE  Due(j)' = Due(j)
BY DEF Due, Delivery!Following, Delivery!FirstBatch

LEMMA DueKept ==
    ASSUME NEW j \in Jobs, DueInv(j), Finished(j) => Finished(j)',
           UNCHANGED <<progress[j], gnbBatch[j], received[j]>>,
           \/ gnbPc'[j] = gnbPc[j]
           \/ gnbPc[j] = "off" /\ gnbPc'[j] = "idle"
    PROVE  DueInv(j)'
<1>1. Due(j)' = Due(j) /\ NextBatch(j)' = NextBatch(j)
  BY DueSame DEF NextBatch, BatchAt
<1>2. Delivery!Successor(gnbBatch[j])' = Delivery!Successor(gnbBatch[j])
  BY DEF Delivery!Successor
<1> QED
  BY <1>1, <1>2 DEF DueInv, Searching, Granting, Moving

LEMMA NextInWindow ==
    ASSUME NEW j \in Jobs, TypeOK, progress[j].next < BatchesPerEpoch
    PROVE  NextBatch(j) \in WindowFrom(j, progress[j].epoch, progress[j].next)
<1>1. progress[j].next \in 0..(BatchesPerEpoch - 1)
  BY DepthAssumption DEF TypeOK
<1> QED
  BY <1>1, DepthAssumption DEF NextBatch, WindowFrom

\* A call of an open job comes from a job that is active.
LEMMA CallsAreActive ==
    ASSUME PinInv, LifeInv, NEW j \in Jobs, gnbPc[j] # "off", ~Finished(j)
    PROVE  Active(j)
BY DEF PinInv, TypeInv, TypeOK, LifeInv, Finished, Active

LEMMA CallDue ==
    ASSUME CallInv, NEW j \in Jobs, GetNextBatch(j)
    PROVE  DueInv(j)'
<1> USE DEF GnbGoto, storeVars, clientVars
<1>0. /\ TypeInv /\ TypeOK /\ GnbTypes /\ DueInv(j) /\ NoBatch \notin Batch
      /\ progress[j] \in [epoch : 0..MaxEpoch, next : 0..BatchesPerEpoch]
      /\ gnbPc \in [Jobs -> {"off", "idle", "lookup", "refresh", "retry", "window",
                             "resolve", "pin", "issue", "epoch", "clear", "reply",
                             "failed", "done", "none"}]
      /\ gnbBatch \in [Jobs -> Batch \cup {NoBatch}]
      /\ received \in [Jobs -> Seq(Batch)]
  BY NoBatchAssumption DEF CallInv, PinInv, TypeInv, TypeOK
<1>1. received'[j] = received[j] => Due(j)' = Due(j)
  BY DueSame
<1>2. progress'[j] = progress[j] => NextBatch(j)' = NextBatch(j)
  BY DEF NextBatch, BatchAt
<1>3. CASE GnbStart(j)
  <2>1. ~Finished(j) \/ gnbPc'[j] = "done"
    BY <1>0, <1>3 DEF GnbStart, Active, Finished
  <2> QED
    BY <1>0, <1>1, <1>2, <1>3, <2>1 DEF GnbStart, DueInv, Searching, Granting, Moving
<1>4. CASE GnbLookup(j)
  BY <1>0, <1>1, <1>2, <1>4
     DEF GnbLookup, MissedAt, DueInv, Searching, Granting, Moving, TypeOK
<1>5. CASE GnbRefresh(j) \/ GnbWindow(j)
  <2>1. Delivery!Successor(gnbBatch[j])' = Delivery!Successor(gnbBatch[j])
    BY <1>5 DEF GnbRefresh, GnbWindow, Delivery!Successor
  <2>2. /\ UNCHANGED <<progress, jobStatus, gnbBatch, received>>
        /\ gnbPc[j] \in {"refresh", "window"}
        /\ \/ gnbPc'[j] = "window"
           \/ gnbPc'[j] = IF gnbBatch[j] = NoBatch THEN "retry" ELSE "reply"
    BY <1>0, <1>5 DEF GnbRefresh, GnbWindow
  <2> QED
    BY <1>0, <1>1, <1>2, <2>1, <2>2 DEF DueInv, Searching, Granting, Moving, Finished
<1>6. CASE GnbPending(j)
  BY <1>0, <1>1, <1>2, <1>6
     DEF GnbPending, DueInv, Searching, Granting, Moving
<1>7. CASE GnbFailed(j) \/ GnbReady(j) \/ GnbPin(j)
  <2>1. /\ UNCHANGED <<progress, jobStatus, gnbBatch, received>>
        /\ gnbPc[j] \in {"resolve", "pin"} /\ gnbPc'[j] \in {"failed", "pin", "issue"}
    BY <1>0, <1>7 DEF GnbFailed, GnbReady, GnbPin
  <2> QED
    BY <1>0, <1>1, <1>2, <2>1 DEF DueInv, Searching, Granting, Moving
<1>8. CASE GnbIssue(j)
  <2> DEFINE b == gnbBatch[j]
  <2>1. /\ gnbPc[j] = "issue" /\ gnbPc'[j] = "epoch"
        /\ UNCHANGED <<jobStatus, gnbBatch, received>>
    BY <1>0, <1>8 DEF GnbIssue
  <2>2. b = BatchAt(j, progress[j].epoch, progress[j].next) /\ b = Due(j) /\ b \in Batch
    BY <1>0, <2>1 DEF DueInv, Granting, NextBatch, GnbTypes
  <2>3. /\ b.owner = Owner(j) /\ progress[j].epoch = b.epoch /\ progress[j].next = b.index
        /\ progress[j] = [epoch |-> b.epoch, next |-> b.index]
    BY <1>0, <2>2 DEF BatchAt
  <2>4. ~Finished(j) => /\ progress'[j].epoch = b.epoch
                        /\ progress'[j].next = b.index + 1
    <3> SUFFICES ASSUME ~Finished(j)
                 PROVE  progress'[j].epoch = b.epoch /\ progress'[j].next = b.index + 1
      OBVIOUS
    <3>1. Active(j)
      BY <2>1, CallsAreActive DEF CallInv
    <3>2. progress' = [progress EXCEPT ![j].next = b.index + 1]
      BY <1>8, <2>3, <3>1 DEF GnbIssue
    <3>3. progress \in [Jobs -> [epoch : 0..MaxEpoch, next : 0..BatchesPerEpoch]]
      BY <1>0 DEF TypeOK
    <3> QED
      BY <2>3, <3>2, <3>3
  <2> QED
    BY <1>0, <1>1, <2>1, <2>2, <2>3, <2>4 DEF DueInv, Searching, Granting, Moving, Finished
<1>9. CASE GnbEpoch(j)
  <2> DEFINE b == gnbBatch[j]
  <2>1. /\ gnbPc[j] = "epoch" /\ UNCHANGED <<jobStatus, gnbBatch, received>>
        /\ b \in Batch /\ b # NoBatch /\ b = Due(j)
        /\ gnbPc'[j] \in {"clear", "refresh"}
    BY <1>0, <1>9 DEF GnbEpoch, GnbTypes, DueInv
  <2>2. \/ /\ progress[j].next >= BatchesPerEpoch
           /\ progress'[j] = [epoch |-> progress[j].epoch + 1, next |-> 0]
        \/ /\ progress[j].next < BatchesPerEpoch
           /\ progress'[j] = progress[j]
    BY <1>0, <1>9, DepthAssumption DEF GnbEpoch, EpochOver, TypeOK
  <2>3. progress'[j].next < BatchesPerEpoch
    BY <1>0, <2>2, DepthAssumption
  <2>4. ~Finished(j) => NextBatch(j)' = Delivery!Successor(b)
    <3> SUFFICES ASSUME ~Finished(j)
                 PROVE  NextBatch(j)' = Delivery!Successor(b)
      OBVIOUS
    <3>1. /\ b.owner = Owner(j) /\ progress[j].epoch = b.epoch
          /\ progress[j].next = b.index + 1
      BY <1>0, <2>1 DEF DueInv
    <3>2. /\ b = [epoch |-> b.epoch, index |-> b.index, owner |-> b.owner]
          /\ b.index \in 0..(BatchesPerEpoch - 1)
      BY <2>1 DEF Batch
    <3>3. CASE b.index + 1 = BatchesPerEpoch
      <4>1. progress'[j] = [epoch |-> b.epoch + 1, next |-> 0]
        BY <2>2, <3>1, <3>3, DepthAssumption
      <4>2. NextBatch(j)' = [epoch |-> b.epoch + 1, index |-> 0, owner |-> b.owner]
        BY <3>1, <4>1 DEF NextBatch, BatchAt
      <4>3. Delivery!Successor(b) = [b EXCEPT !.epoch = b.epoch + 1, !.index = 0]
        BY <3>3 DEF Delivery!Successor
      <4>4. Delivery!Successor(b) = [epoch |-> b.epoch + 1, index |-> 0, owner |-> b.owner]
        BY <2>1, <4>3 DEF Batch
      <4> QED
        BY <4>2, <4>4
    <3>4. CASE b.index + 1 # BatchesPerEpoch
      <4>1. progress'[j] = progress[j]
        BY <2>2, <3>1, <3>2, <3>4, DepthAssumption
      <4>2. NextBatch(j)' = [epoch |-> b.epoch, index |-> b.index + 1, owner |-> b.owner]
        BY <3>1, <4>1 DEF NextBatch, BatchAt
      <4> QED
        BY <3>2, <3>4, <4>2 DEF Delivery!Successor
    <3> QED
      BY <3>3, <3>4
  <2>5. Delivery!Successor(gnbBatch[j])' = Delivery!Successor(b)
    BY <2>1 DEF Delivery!Successor
  <2> QED
    BY <1>0, <1>1, <2>1, <2>3, <2>4, <2>5 DEF DueInv, Searching, Granting, Moving, Finished
<1>10. CASE GnbClear(j)
  <2>1. Delivery!Successor(gnbBatch[j])' = Delivery!Successor(gnbBatch[j])
    BY <1>10 DEF GnbClear, Delivery!Successor
  <2>2. gnbBatch[j] # NoBatch
    BY <1>0, <1>10 DEF GnbClear, GnbTypes
  <2>3. /\ UNCHANGED <<progress, jobStatus, gnbBatch, received>>
        /\ gnbPc[j] = "clear" /\ gnbPc'[j] = "refresh"
    BY <1>0, <1>10 DEF GnbClear
  <2> QED
    BY <1>0, <1>1, <1>2, <2>1, <2>2, <2>3 DEF DueInv, Searching, Granting, Moving, Finished
<1>11. CASE GnbReply(j)
  <2>1. /\ gnbPc[j] = "reply" /\ gnbPc'[j] = "idle" /\ gnbBatch'[j] = NoBatch
        /\ UNCHANGED <<progress, jobStatus>>
        /\ received'[j] = Append(received[j], gnbBatch[j])
        /\ gnbBatch[j] \in Batch /\ received[j] \in Seq(Batch)
    BY <1>0, <1>11 DEF GnbReply, GnbTypes
  <2>2. Due(j)' = Delivery!Successor(gnbBatch[j])
    <3>1. received'[j] # <<>> /\ received'[j][Len(received'[j])] = gnbBatch[j]
      BY <2>1
    <3> QED
      BY <3>1 DEF Due, Delivery!Following, Delivery!Successor
  <2> QED
    BY <1>0, <1>2, <2>1, <2>2 DEF DueInv, Searching, Granting, Moving, Finished
<1> QED
  BY <1>3, <1>4, <1>5, <1>6, <1>7, <1>8, <1>9, <1>10, <1>11 DEF GetNextBatch

LEMMA WindowKept ==
    ASSUME NEW j \in Jobs, WindowInv(j), Finished(j) => Finished(j)',
           UNCHANGED <<progress[j], gnbBatch[j]>>,
           \/ gnbPc'[j] = gnbPc[j]
           \/ gnbPc[j] = "off" /\ gnbPc'[j] = "idle",
           Outdated(j)' => Outdated(j),
           planned'[j] = planned[j] \/ gnbPc[j] = "off" \/ Finished(j)'
    PROVE  WindowInv(j)'
<1>1. NextBatch(j)' = NextBatch(j)
  BY DEF NextBatch, BatchAt
<1> QED
  BY <1>1 DEF WindowInv

LEMMA CallWindow ==
    ASSUME CallInv, NEW j \in Jobs, GetNextBatch(j)
    PROVE  WindowInv(j)'
<1> USE DEF GnbGoto, storeVars, clientVars, planVars
<1>0. /\ TypeInv /\ TypeOK /\ GnbTypes /\ DueInv(j) /\ WindowInv(j) /\ NoBatch \notin Batch
      /\ gnbPc \in [Jobs -> {"off", "idle", "lookup", "refresh", "retry", "window",
                             "resolve", "pin", "issue", "epoch", "clear", "reply",
                             "failed", "done", "none"}]
      /\ gnbBatch \in [Jobs -> Batch \cup {NoBatch}]
      /\ planned \in [Jobs -> SUBSET Batch]
      /\ gnbPc[j] # "off"
      /\ ~Finished(j) => Active(j)
      /\ UNCHANGED jobStatus
      /\ UNCHANGED planVars
  <2>1. gnbPc[j] # "off" /\ UNCHANGED planVars /\ UNCHANGED jobStatus
    BY DEF GetNextBatch, GnbStart, GnbLookup, GnbRefresh, GnbWindow, GnbPending, GnbFailed,
       GnbReady, GnbPin, GnbIssue, GnbEpoch, GnbClear, GnbReply
  <2> QED
    BY <2>1, CallsAreActive, NoBatchAssumption DEF CallInv, PinInv, TypeInv, TypeOK
<1>1. progress'[j] = progress[j]
         => NextBatch(j)' = NextBatch(j) /\ Outdated(j)' = Outdated(j)
  <2>1. progress'[j] = progress[j] => NextBatch(j)' = NextBatch(j)
    BY DEF NextBatch, BatchAt
  <2> QED
    BY <1>0, <2>1 DEF Outdated
<1>2. CASE GnbStart(j)
  BY <1>0, <1>1, <1>2 DEF GnbStart, WindowInv, Finished
<1>3. CASE GnbLookup(j)
  BY <1>0, <1>1, <1>3 DEF GnbLookup, MissedAt, WindowInv, DueInv, Finished
<1>4. CASE GnbRefresh(j)
  BY <1>0, <1>1, <1>4 DEF GnbRefresh, WindowInv, Finished
<1>5. CASE GnbWindow(j)
  <2> DEFINE window == WindowFrom(j, progress[j].epoch, progress[j].next)
  <2>1. NextBatch(j) \in window
    BY <1>0, <1>5, NextInWindow DEF GnbWindow, DueInv
  <2>2. planned'[j] = window /\ UNCHANGED <<progress, gnbBatch>>
    BY <1>0, <1>5 DEF GnbWindow
  <2>3. gnbPc[j] = "window" /\ gnbPc'[j] = IF gnbBatch[j] = NoBatch THEN "retry" ELSE "reply"
    BY <1>0, <1>5 DEF GnbWindow
  <2> HIDE DEF window
  <2> QED
    BY <1>0, <1>1, <2>1, <2>2, <2>3 DEF WindowInv, Finished
<1>6. CASE GnbPending(j) \/ GnbReply(j)
  BY <1>0, <1>1, <1>6 DEF GnbPending, GnbReply, WindowInv, Finished
<1>7. CASE GnbFailed(j) \/ GnbReady(j) \/ GnbPin(j) \/ GnbIssue(j)
  <2>1. gnbPc'[j] \in {"failed", "pin", "issue", "epoch"}
    BY <1>0, <1>7 DEF GnbFailed, GnbReady, GnbPin, GnbIssue
  <2> QED
    BY <2>1 DEF WindowInv
<1>8. CASE GnbEpoch(j) \/ GnbClear(j)
  <2>1. gnbPc'[j] \in {"clear", "refresh"} /\ gnbBatch'[j] # NoBatch
    BY <1>0, <1>8 DEF GnbEpoch, GnbClear, GnbTypes
  <2> QED
    BY <2>1 DEF WindowInv
<1> QED
  BY <1>2, <1>3, <1>4, <1>5, <1>6, <1>7, <1>8 DEF GetNextBatch

\* The maintainer may spoil a window, but not one that a call has just renewed.
LEMMA MaintainerWindow ==
    ASSUME CallInv, SchedulePass(Maintainer), NEW j \in Jobs
    PROVE  WindowInv(j)'
<1> USE NameAssumption DEF PlanGoto, PlanDone, GnbGoto, storeVars, gnbVars, clientVars, planVars
<1>0. /\ TypeInv /\ TypeOK /\ DueInv(j) /\ WindowInv(j)
      /\ planPc \in [Planners -> {"idle", "force", "check", "index", "store",
                                  "read", "each", "create", "opp", "returned"}]
      /\ planTodo \in [Planners -> SUBSET Batch]
      /\ planEpoch \in [Planners -> 0..MaxEpoch]
      /\ planned \in [Jobs -> SUBSET Batch]
      /\ Maintainer \in Planners
      /\ planPc[Maintainer] \in {"check", "index", "store", "read", "each", "create"}
            => planJob[Maintainer] \in Jobs
      /\ ~Finished(j) /\ gnbPc[j] # "off" => Active(j)
  BY CallsAreActive DEF CallInv, PinInv, TypeInv, TypeOK, PlanTypes, Planners
<1>1. UNCHANGED <<jobStatus, progress, gnbPc, gnbBatch>>
  BY DEF SchedulePass, PlanCheck, PlanIndex, PlanStore, PlanRead, PlanEnd, PlanSkip,
     PlanEach, PlanCreate
<1>2. NextBatch(j)' = NextBatch(j)
  BY <1>1 DEF NextBatch, BatchAt
<1>3. CASE PlanCheck(Maintainer)
  <2>1. ~Outdated(j)'
    BY <1>0, <1>1, <1>3 DEF PlanCheck, Outdated
  <2>2. planned'[j] = planned[j] \/ ~Active(j)
    BY <1>0, <1>3 DEF PlanCheck
  <2> QED
    BY <1>0, <1>1, <1>2, <2>1, <2>2 DEF WindowInv, Finished
<1>4. CASE PlanIndex(Maintainer)
  <2>1. UNCHANGED <<planned, planJob>> /\ planPc[Maintainer] = "index"
    BY <1>4 DEF PlanIndex
  <2>2. Outdated(j)' => Outdated(j) \/ gnbPc[j] = "epoch"
    <3> SUFFICES ASSUME planJob[Maintainer] = j, planEpoch[Maintainer] = progress[j].epoch,
                        gnbPc[j] # "epoch"
                 PROVE  NextBatch(j)' \in planTodo'[Maintainer]
      BY <1>4, <2>1 DEF Outdated, PlanIndex
    <3>1. NextBatch(j) \in WindowFrom(j, progress[j].epoch, progress[j].next)
      BY <1>0, NextInWindow DEF DueInv
    <3>2. planTodo'[Maintainer] = WindowFrom(j, progress[j].epoch, progress[j].next)
      BY <1>0, <1>4 DEF PlanIndex
    <3> QED
      BY <1>2, <3>1, <3>2
  <2> QED
    BY <1>0, <1>1, <1>2, <2>1, <2>2 DEF WindowInv, Finished
<1>5. CASE PlanStore(Maintainer)
  <2>1. ~Outdated(j)'
    BY <1>0, <1>5 DEF PlanStore, Outdated
  <2>2. planned'[j] = planned[j] \/ (planJob[Maintainer] = j /\ planned'[j] = planTodo[Maintainer])
    BY <1>0, <1>5 DEF PlanStore
  <2>3. NextBatch(j) \in planned[j] /\ ~Outdated(j) => NextBatch(j) \in planned'[j]
    BY <1>5, <2>2 DEF PlanStore, Outdated
  <2> QED
    BY <1>0, <1>1, <1>2, <2>1, <2>3 DEF WindowInv, Finished
<1>6. CASE \/ PlanRead(Maintainer) \/ PlanEnd(Maintainer) \/ PlanSkip(Maintainer)
           \/ PlanEach(Maintainer) \/ PlanCreate(Maintainer)
  <2>1. ~Outdated(j)' /\ UNCHANGED planned
    BY <1>0, <1>6 DEF PlanRead, PlanEnd, PlanSkip, PlanEach, PlanCreate, Outdated
  <2> QED
    BY <1>0, <1>1, <1>2, <2>1 DEF WindowInv, Finished
<1> QED
  BY <1>3, <1>4, <1>5, <1>6 DEF SchedulePass

\* Steps outside the calls leave the calls and the progress alone; StartJob's
\* last step lets the first call start.
LEMMA OtherStep ==
    ASSUME CallInv,
           \/ UNCHANGED vars
           \/ \E j \in Jobs : \/ Acknowledge(j) \/ FinishJob(j) \/ StartJob(j)
                              \/ StartWindow(j) \/ MaintainJob(j)
                              \/ \E b \in Batch : OppChoose(j, b)
           \/ OppCreate \/ \E p \in Jobs : SchedulePass(p)
           \/ \E b \in Batch : Cleanup(b)
           \/ \E w \in Workers : Work(w) \/ WorkerFault(w),
           NEW i \in Jobs
    PROVE  /\ UNCHANGED <<progress[i], gnbBatch[i], received[i]>>
           /\ gnbPc'[i] = gnbPc[i] \/ (gnbPc[i] = "off" /\ gnbPc'[i] = "idle")
           /\ Outdated(i)' => Outdated(i)
           /\ Finished(i) => Finished(i)'
           /\ planned'[i] = planned[i] \/ gnbPc[i] = "off" \/ Finished(i)'
           /\ planPc'[i] = "idle" <=> jobStatus'[i] = "absent"
           /\ finPc'[i] # "idle" => Finished(i)'
<1> USE NameAssumption DEF storeVars, gnbVars, clientVars, planVars, PlanGoto, GnbGoto
<1>0. /\ planPc \in [Planners -> {"idle", "force", "check", "index", "store",
                                  "read", "each", "create", "opp", "returned"}]
      /\ jobStatus \in [Jobs -> {"absent", "active", "finished"}]
      /\ gnbPc \in [Jobs -> {"off", "idle", "lookup", "refresh", "retry", "window",
                             "resolve", "pin", "issue", "epoch", "clear", "reply",
                             "failed", "done", "none"}]
      /\ finPc \in [Jobs -> {"idle", "pins", "window", "done"}]
      /\ planned \in [Jobs -> SUBSET Batch]
      /\ planTodo \in [Planners -> SUBSET Batch]
      /\ planEpoch \in [Planners -> 0..MaxEpoch]
      /\ planJob \in [Planners -> Jobs \cup {NoJob}]
      /\ Planners = Jobs \cup {Maintainer}
      /\ \A j \in Jobs : planJob[j] = j
      /\ \A j \in Jobs : planPc[j] # "returned" => gnbPc[j] = "off"
      /\ \A j \in Jobs : planPc[j] = "idle" <=> jobStatus[j] = "absent"
      /\ \A j \in Jobs : finPc[j] # "idle" => Finished(j)
  BY DEF CallInv, PinInv, LifeInv, TypeInv, TypeOK, PlanTypes, Planners
<1>a. /\ UNCHANGED <<progress[i], planJob[Maintainer], planPc[Maintainer], planEpoch[Maintainer],
                     planTodo[Maintainer]>> => Outdated(i)' = Outdated(i)
      /\ planPc'[Maintainer] \notin {"index", "store"} => ~Outdated(i)'
  BY DEF Outdated, NextBatch, BatchAt
<1>1. CASE UNCHANGED vars
  BY <1>0, <1>a, <1>1 DEF vars, Finished
<1>2. ASSUME NEW j \in Jobs, Acknowledge(j)
      PROVE  /\ UNCHANGED <<jobStatus, progress, planned, finPc>> /\ UNCHANGED gnbVars
             /\ UNCHANGED received /\ UNCHANGED planVars
  BY <1>2 DEF Acknowledge
<1>3. ASSUME NEW j \in Jobs, FinStatus(j)
      PROVE  /\ jobStatus' = [jobStatus EXCEPT ![j] = "finished"] /\ jobStatus[j] = "active"
             /\ finPc' = [finPc EXCEPT ![j] = "pins"]
             /\ UNCHANGED <<progress, planned, gnbVars, clientVars, planVars>>
  BY <1>3 DEF FinStatus, Active
<1>4. ASSUME NEW j \in Jobs, FinPins(j) \/ FinWindow(j)
      PROVE  /\ finPc[j] # "idle" /\ finPc' \in {[finPc EXCEPT ![j] = q] : q \in {"window", "done"}}
             /\ planned' = planned \/ planned' = [planned EXCEPT ![j] = {}]
             /\ UNCHANGED <<jobStatus, progress, gnbVars, clientVars, planVars>>
  BY <1>4 DEF FinPins, FinWindow
<1>5. CASE \E j \in Jobs : Acknowledge(j)
  BY <1>0, <1>2, <1>5, <1>a DEF Finished
<1>6. CASE \E j \in Jobs : FinStatus(j)
  BY <1>0, <1>3, <1>6, <1>a DEF Finished
<1>7. CASE \E j \in Jobs : FinPins(j) \/ FinWindow(j)
  BY <1>0, <1>4, <1>7, <1>a DEF Finished
<1>8. CASE \E j \in Jobs : StartJob(j)
  <2>1. PICK j \in Jobs : /\ planPc[j] = "idle"
                          /\ jobStatus' = [jobStatus EXCEPT ![j] = "active"]
                          /\ planPc' = [planPc EXCEPT ![j] = "force"]
                          /\ UNCHANGED <<progress, planned, finPc, gnbVars, received, planJob,
                                         planEpoch, planTodo>>
    BY <1>8 DEF StartJob
  <2> QED
    BY <1>0, <1>a, <2>1 DEF Finished
<1>9. CASE \E j \in Jobs : StartWindow(j)
  <2>1. PICK j \in Jobs : /\ planPc[j] = "force"
                          /\ planPc' = [planPc EXCEPT ![j] = "check"]
                          /\ \E x : planned' = [planned EXCEPT ![j] = x]
                          /\ UNCHANGED <<jobStatus, progress, finPc, gnbVars, received, planJob,
                                         planEpoch, planTodo>>
    BY <1>9 DEF StartWindow
  <2> QED
    BY <1>0, <1>a, <2>1 DEF Finished
<1>10. CASE \/ \E j \in Jobs : MaintainJob(j) \/ \E b \in Batch : OppChoose(j, b)
            \/ OppCreate
  <2>1. /\ UNCHANGED <<jobStatus, progress, planned, finPc, gnbVars, received>>
        /\ \E q \in {"check", "opp", "idle"} : planPc' = [planPc EXCEPT ![Maintainer] = q]
    BY <1>10 DEF MaintainJob, OppChoose, OppCreate
  <2> QED
    BY <1>0, <1>a, <2>1 DEF Finished
<1>11. CASE \E p \in Jobs : SchedulePass(p)
  <2>1. PICK p \in Jobs : SchedulePass(p)
    BY <1>11
  <2>2. /\ planPc[p] \notin {"idle", "returned"}
        /\ UNCHANGED <<jobStatus, progress, finPc, gnbBatch, received>>
        /\ planned' = planned \/ \E x : planned' = [planned EXCEPT ![p] = x]
    BY <1>0, <2>1 DEF SchedulePass, PlanCheck, PlanIndex, PlanStore, PlanRead, PlanEnd,
       PlanSkip, PlanEach, PlanCreate
  <2>3. /\ \E q \in {"index", "store", "read", "each", "create", "returned"} :
              planPc' = [planPc EXCEPT ![p] = q] \/ planPc' = planPc
        /\ gnbPc' = gnbPc \/ gnbPc' = [gnbPc EXCEPT ![p] = "idle"]
        /\ UNCHANGED <<planJob[Maintainer], planEpoch[Maintainer], planTodo[Maintainer]>>
    <3>1. CASE PlanDone(p)
      <4>1. p # Maintainer /\ Maintainer \in Planners /\ p \in Planners
        BY <1>0
      <4> QED
        BY <1>0, <3>1, <4>1 DEF PlanDone
    <3>2. CASE ~PlanDone(p)
      BY <1>0, <2>1, <3>2 DEF SchedulePass, PlanCheck, PlanIndex, PlanStore, PlanRead, PlanEnd,
         PlanSkip, PlanEach, PlanCreate
    <3> QED
      BY <3>1, <3>2
  <2> QED
    BY <1>0, <1>a, <2>2, <2>3 DEF Finished
<1>12. CASE \/ \E b \in Batch : Cleanup(b)
            \/ \E w \in Workers : Work(w) \/ WorkerFault(w)
  <2>1. UNCHANGED <<jobStatus, progress, planned, finPc, gnbVars, received, planVars>>
    BY <1>12 DEF Cleanup, Work, WorkerFault, WorkerPoll, WorkerAssign, WorkerMaterialize,
       WorkerComplete, WorkerFail, WorkerError, WorkerCrash
  <2> QED
    BY <1>0, <1>a, <2>1 DEF Finished
<1> QED
  BY <1>1, <1>5, <1>6, <1>7, <1>8, <1>9, <1>10, <1>11, <1>12 DEF FinishJob

LEMMA CallStep == CallInv /\ [Next]_vars => CallInv'
<1> SUFFICES ASSUME CallInv, [Next]_vars
             PROVE  CallInv'
  OBVIOUS
<1>1. PinInv'
  BY PinStep DEF CallInv
<1>2. CASE \E j \in Jobs : GetNextBatch(j)
  <2>1. PICK j \in Jobs : GetNextBatch(j)
    BY <1>2
  <2>2. /\ UNCHANGED <<jobStatus, finPc, planVars>>
        /\ \A i \in Jobs \ {j} :
              UNCHANGED <<progress[i], gnbBatch[i], received[i], gnbPc[i], planned[i]>>
    BY <2>1 DEF GetNextBatch, GnbStart, GnbLookup, GnbRefresh, GnbWindow, GnbPending,
       GnbFailed, GnbReady, GnbPin, GnbIssue, GnbEpoch, GnbClear, GnbReply, GnbGoto,
       storeVars, clientVars, CallInv, PinInv, TypeInv, TypeOK
  <2>3. LifeInv'
    BY <2>2 DEF CallInv, LifeInv, Finished, planVars
  <2>4. ASSUME NEW i \in Jobs \ {j}
        PROVE  DueInv(i)' /\ WindowInv(i)'
    <3>1. Outdated(i)' => Outdated(i)
      BY <2>2 DEF Outdated, NextBatch, BatchAt, planVars
    <3> QED
      BY <2>2, <2>4, <3>1, DueKept, WindowKept DEF CallInv, Finished
  <2> QED
    BY <1>1, <2>1, <2>3, <2>4, CallDue, CallWindow DEF CallInv
<1>3. CASE SchedulePass(Maintainer)
  <2>1. UNCHANGED <<jobStatus, finPc, progress, gnbVars, received>>
    BY <1>3, NameAssumption DEF SchedulePass, PlanCheck, PlanIndex, PlanStore, PlanRead, PlanEnd, PlanSkip,
       PlanEach, PlanCreate, PlanDone, storeVars, gnbVars, clientVars
  <2>2. \A i \in Jobs : planPc'[i] = planPc[i]
    BY <1>3, NameAssumption DEF SchedulePass, PlanCheck, PlanIndex, PlanStore, PlanRead, PlanEnd, PlanSkip,
       PlanEach, PlanCreate, PlanDone, PlanGoto, planVars, CallInv, PinInv, TypeInv, TypeOK, Planners
  <2>3. LifeInv'
    BY <2>1, <2>2 DEF CallInv, LifeInv, Finished
  <2>4. \A i \in Jobs : DueInv(i)'
    BY <2>1, DueKept DEF CallInv, Finished, gnbVars
  <2> QED
    BY <1>1, <1>3, <2>3, <2>4, MaintainerWindow DEF CallInv
<1>4. CASE ~(\E j \in Jobs : GetNextBatch(j)) /\ ~SchedulePass(Maintainer)
  <2>1. \/ UNCHANGED vars
        \/ \E j \in Jobs : \/ Acknowledge(j) \/ FinishJob(j) \/ StartJob(j)
                           \/ StartWindow(j) \/ MaintainJob(j)
                           \/ \E b \in Batch : OppChoose(j, b)
        \/ OppCreate \/ \E p \in Jobs : SchedulePass(p)
        \/ \E b \in Batch : Cleanup(b)
        \/ \E w \in Workers : Work(w) \/ WorkerFault(w)
    BY <1>4 DEF Next, Planners
  <2>2. ASSUME NEW i \in Jobs
        PROVE  DueInv(i)' /\ WindowInv(i)'
    BY <2>1, <2>2, OtherStep, DueKept, WindowKept DEF CallInv
  <2>3. LifeInv'
    BY <2>1, OtherStep DEF LifeInv
  <2> QED
    BY <1>1, <2>2, <2>3 DEF CallInv
<1> QED
  BY <1>2, <1>3, <1>4

LEMMA InitCall == Init => CallInv
<1> SUFFICES ASSUME Init
             PROVE  CallInv
  OBVIOUS
<1> USE NameAssumption, DepthAssumption DEF Init, Planners
<1>1. PinInv
  BY InitType DEF PinInv
<1>2. LifeInv
  BY DEF LifeInv
<1>3. ASSUME NEW j \in Jobs
      PROVE  DueInv(j) /\ WindowInv(j)
  <2>1. NextBatch(j) = Due(j)
    BY DEF NextBatch, BatchAt, Due, Delivery!Following, Delivery!FirstBatch
  <2> QED
    BY <2>1 DEF DueInv, WindowInv, Searching, Granting, Moving, Outdated
<1> QED
  BY <1>1, <1>2, <1>3 DEF CallInv

\* An active job is never told that there is no batch: no late window of the
\* maintainer comes between the forced refresh of a call and its second lookup.
THEOREM NeverDoneEarly == Spec => []NoSpuriousDone
<1>1. CallInv => NoSpuriousDone
  BY DEF CallInv, WindowInv, NoSpuriousDone, Active, Finished
<1> QED
  BY <1>1, InitCall, CallStep, PTL DEF Spec

\* The job's side of BatchDelivery.
Phase(j) == IF jobStatus[j] # "finished" THEN "open"
            ELSE IF InCall(j) THEN "closing" ELSE "closed"
phase == [j \in Jobs |-> IF jobStatus[j] # "finished" THEN "open"
                         ELSE IF InCall(j) THEN "closing" ELSE "closed"]

LEMMA PhaseStep ==
    ASSUME NEW j \in Jobs, \A i \in Jobs \ {j} : Phase(i)' = Phase(i)
    PROVE  /\ received' = [received EXCEPT ![j] = Append(@, Due(j))] =>
                 /\ Phase(j) = "open" /\ Phase(j)' = "open" => Delivery!Deliver(j)
                 /\ Phase(j) = "closing" /\ Phase(j)' = "closed" => Delivery!Deliver(j)
           /\ UNCHANGED received =>
                 /\ Phase(j) = "open" /\ Phase(j)' \in {"closing", "closed"} => Delivery!Close(j)
                 /\ Phase(j) = "closing" /\ Phase(j)' = "closed" => Delivery!Settle(j)
           /\ Phase(j)' = Phase(j) => UNCHANGED phase
<1>1. phase = [i \in Jobs |-> Phase(i)] /\ phase' = [i \in Jobs |-> Phase(i)']
  BY DEF phase, Phase
<1>2. phase' = [phase EXCEPT ![j] = Phase(j)'] /\ phase[j] = Phase(j)
  BY <1>1
<1>3. Phase(j)' = Phase(j) => UNCHANGED phase
  BY <1>1
<1>4. ASSUME received' = [received EXCEPT ![j] = Append(@, Due(j))],
             \/ phase[j] = "open" /\ phase' = [phase EXCEPT ![j] = "open"]
             \/ phase[j] = "closing" /\ phase' = [phase EXCEPT ![j] = "closed"]
      PROVE  Delivery!Deliver(j)
  <2>1. phase' = [phase EXCEPT ![j] = IF @ = "open" THEN "open" ELSE "closed"]
    BY <1>4
  <2> QED
    BY <1>4, <2>1 DEF Delivery!Deliver, phase, Due
<1>5. ASSUME UNCHANGED received, phase[j] = "open",
             \E q \in {"closing", "closed"} : phase' = [phase EXCEPT ![j] = q]
      PROVE  Delivery!Close(j)
  BY <1>5 DEF Delivery!Close, phase
<1>6. ASSUME UNCHANGED received, phase[j] = "closing", phase' = [phase EXCEPT ![j] = "closed"]
      PROVE  Delivery!Settle(j)
  BY <1>6 DEF Delivery!Settle, phase
<1> QED
  BY <1>2, <1>3, <1>4, <1>5, <1>6

\* Every step delivers the batch that is due, closes a job, ends the call of a
\* closed job, or is none of the client's business.
LEMMA DeliveryStep ==
    ASSUME CallInv, [Next]_vars
    PROVE  [Delivery!Next]_<<received, phase>>
<1> USE DEF GnbGoto, storeVars, gnbVars, clientVars, planVars
<1>0. /\ PinInv /\ LifeInv /\ TypeInv /\ GnbTypes
      /\ gnbPc \in [Jobs -> {"off", "idle", "lookup", "refresh", "retry", "window",
                             "resolve", "pin", "issue", "epoch", "clear", "reply",
                             "failed", "done", "none"}]
      /\ jobStatus \in [Jobs -> {"absent", "active", "finished"}]
      /\ received \in [Jobs -> Seq(Batch)]
  BY DEF CallInv, PinInv, TypeInv, TypeOK
<1>1. ASSUME NEW j \in Jobs, GetNextBatch(j)
      PROVE  [Delivery!Next]_<<received, phase>>
  <2>1. /\ UNCHANGED jobStatus
        /\ \A i \in Jobs \ {j} : gnbPc'[i] = gnbPc[i]
    BY <1>0, <1>1 DEF GetNextBatch, GnbStart, GnbLookup, GnbRefresh, GnbWindow, GnbPending,
       GnbFailed, GnbReady, GnbPin, GnbIssue, GnbEpoch, GnbClear, GnbReply
  <2>2. \A i \in Jobs \ {j} : Phase(i)' = Phase(i)
    BY <2>1 DEF Phase, InCall
  <2>3. CASE GnbReply(j)
    <3>1. received' = [received EXCEPT ![j] = Append(@, Due(j))]
      BY <2>3 DEF GnbReply, CallInv, DueInv, Moving
    <3>2. \/ Phase(j) = "open" /\ Phase(j)' = "open"
          \/ Phase(j) = "closing" /\ Phase(j)' = "closed"
      BY <1>0, <2>1, <2>3 DEF GnbReply, Phase, InCall
    <3> QED
      BY <2>2, <3>1, <3>2, PhaseStep DEF Delivery!Next
  <2>4. CASE ~GnbReply(j)
    <3>1. UNCHANGED received /\ (InCall(j) \/ GnbStart(j))
      BY <1>1, <2>4 DEF GetNextBatch, GnbStart, GnbLookup, GnbRefresh, GnbWindow,
         GnbPending, GnbFailed, GnbReady, GnbPin, GnbIssue, GnbEpoch, GnbClear, InCall
    <3>2. \/ Phase(j)' = Phase(j)
          \/ Phase(j) = "closing" /\ Phase(j)' = "closed"
      <4>1. CASE GnbStart(j)
        BY <1>0, <2>1, <4>1 DEF GnbStart, Active, Phase, InCall
      <4>2. CASE InCall(j)
        BY <2>1, <4>2 DEF Phase
      <4> QED
        BY <3>1, <4>1, <4>2
    <3> QED
      BY <2>2, <3>1, <3>2, PhaseStep DEF Delivery!Next
  <2> QED
    BY <2>3, <2>4
<1>2. ASSUME NEW j \in Jobs, FinStatus(j)
      PROVE  [Delivery!Next]_<<received, phase>>
  <2>1. /\ UNCHANGED <<gnbPc, received>>
        /\ jobStatus[j] = "active" /\ jobStatus' = [jobStatus EXCEPT ![j] = "finished"]
    BY <1>2 DEF FinStatus, Active
  <2>2. \A i \in Jobs \ {j} : Phase(i)' = Phase(i)
    BY <1>0, <2>1 DEF Phase, InCall
  <2>3. Phase(j) = "open" /\ Phase(j)' \in {"closing", "closed"}
    BY <1>0, <2>1 DEF Phase
  <2> QED
    BY <2>1, <2>2, <2>3, PhaseStep DEF Delivery!Next
<1>3. ASSUME NEW j \in Jobs, StartJob(j)
      PROVE  UNCHANGED <<received, phase>>
  <2>1. /\ UNCHANGED <<gnbPc, received>>
        /\ jobStatus[j] = "absent" /\ jobStatus' = [jobStatus EXCEPT ![j] = "active"]
    BY <1>0, <1>3 DEF StartJob, LifeInv
  <2>2. \A i \in Jobs : Phase(i)' = Phase(i)
    BY <1>0, <2>1 DEF Phase, InCall
  <2> QED
    BY <2>1, <2>2, PhaseStep
<1>4. ASSUME NEW p \in Planners, SchedulePass(p)
      PROVE  UNCHANGED <<received, phase>>
  <2>1. UNCHANGED <<jobStatus, received>>
    BY <1>4 DEF SchedulePass, PlanCheck, PlanIndex, PlanStore, PlanRead, PlanEnd, PlanSkip,
       PlanEach, PlanCreate
  <2>2. gnbPc' = gnbPc \/ \E i \in Jobs : gnbPc[i] = "off" /\ gnbPc' = [gnbPc EXCEPT ![i] = "idle"]
    <3>1. planPc[p] # "returned"
      BY <1>4 DEF SchedulePass, PlanCheck, PlanIndex, PlanStore, PlanRead, PlanEnd, PlanSkip,
         PlanEach, PlanCreate
    <3>2. CASE PlanDone(p)
      BY <1>0, <3>1, <3>2 DEF PlanDone, PinInv, Planners
    <3>3. CASE ~PlanDone(p)
      BY <1>4, <3>3 DEF SchedulePass, PlanCheck, PlanIndex, PlanStore, PlanRead, PlanEnd,
         PlanSkip, PlanEach, PlanCreate
    <3> QED
      BY <3>2, <3>3
  <2>3. \A i \in Jobs : Phase(i)' = Phase(i)
    BY <1>0, <2>1, <2>2 DEF Phase, InCall
  <2> QED
    BY <2>1, <2>3 DEF phase, Phase
<1>5. CASE \/ \E j \in Jobs : \/ Acknowledge(j) \/ FinPins(j) \/ FinWindow(j)
                              \/ StartWindow(j) \/ MaintainJob(j)
                              \/ \E b \in Batch : OppChoose(j, b)
           \/ OppCreate \/ \E b \in Batch : Cleanup(b)
           \/ \E w \in Workers : Work(w) \/ WorkerFault(w)
           \/ UNCHANGED vars
  <2>1. UNCHANGED <<jobStatus, gnbPc, received>>
    BY <1>5 DEF Acknowledge, FinPins, FinWindow, StartWindow, MaintainJob, OppChoose, OppCreate,
       Cleanup, Work, WorkerFault, WorkerPoll, WorkerAssign, WorkerMaterialize,
       WorkerComplete, WorkerFail, WorkerError, WorkerCrash, vars
  <2> QED
    BY <2>1 DEF phase, InCall
<1> QED
  BY <1>1, <1>2, <1>3, <1>4, <1>5 DEF Next, FinishJob

\* The coordinator implements BatchDelivery: each job gets the batches of its
\* epochs in order, none skipped and none twice, and at most one after its close.
THEOREM DeliveryRefined == Spec => InOrderDelivery
<1>1. Init => Delivery!Init
  BY DEF Init, Delivery!Init
<1>2. CallInv /\ [Next]_vars => [Delivery!Next]_<<received, phase>>
  BY DeliveryStep
<1> QED
  BY <1>1, <1>2, InitCall, CallStep, PTL DEF Spec, InOrderDelivery, Delivery!Spec, phase

-----------------------------------------------------------------------------
(* Failures.  A task that a call finds cancelled was cancelled with its    *)
(* job, and the tasks of a batch that is not shared are all of the batch's *)
(* own job: without a fault nothing else makes a batch unavailable.        *)

OwnedBy(batches, j) == \A b \in batches : b.owner = Owner(j)

PlanOwner(p) == planPc[p] \in {"store", "each", "create"}
                   => OwnedBy(planTodo[p], planJob[p])

TaskOwner(t) == tasks[t].status # "unused" /\ tasks[t].job \in Jobs
                   => tasks[t].batch.owner = Owner(tasks[t].job)

\* Batches are planned, and tasks created, under the name of their job.
OwnerInv == /\ \A j \in Jobs : OwnedBy(planned[j], j)
            /\ \A p \in Planners : PlanOwner(p)
            /\ \A t \in TaskId : TaskOwner(t)

\* What is cancelled was of a closed job.
CancelInv == \A t \in TaskId : tasks[t].status = "cancelled" =>
                 tasks[t].job \in Jobs /\ Finished(tasks[t].job)

\* Without a fault no task fails or goes while a worker has it.
CleanInv ==
    faults = 0 =>
        /\ \A t \in TaskId : tasks[t].status \notin {"failed", "gone"}
        /\ \A b \in Batch : entry[b] # "failed"
        /\ \A w \in Workers : /\ wkPc[w] # "fail"
                              /\ wkPc[w] \in {"assign", "run", "complete"}
                                    => Stored(wkTask[w])

CauseInv == TaskInv /\ CallInv /\ OwnerInv /\ CancelInv /\ CleanInv /\ FailureHasCause

LEMMA WindowOwner ==
    ASSUME NEW j \in Jobs, NEW e, NEW i, NEW b \in WindowFrom(j, e, i)
    PROVE  b.owner = Owner(j)
BY DEF WindowFrom, BatchAt

\* Whatever a step puts into a window, or copies from one, has the job's name.
LEMMA PlannedOwner ==
    ASSUME TypeInv, \A j \in Jobs : OwnedBy(planned[j], j),
           \A p \in Planners : PlanOwner(p), [Next]_vars
    PROVE  /\ \A j \in Jobs : OwnedBy(planned'[j], j)
           /\ \A p \in Planners : PlanOwner(p)'
<1> USE NameAssumption DEF storeVars, gnbVars, clientVars, planVars, PlanGoto
<1>0. /\ planned \in [Jobs -> SUBSET Batch]
      /\ planPc \in [Planners -> {"idle", "force", "check", "index", "store",
                                  "read", "each", "create", "opp", "returned"}]
      /\ planTodo \in [Planners -> SUBSET Batch]
      /\ planJob \in [Planners -> Jobs \cup {NoJob}]
      /\ Planners = Jobs \cup {Maintainer}
      /\ \A p \in Planners :
            planPc[p] \in {"check", "index", "store", "read", "each", "create"}
              => planJob[p] \in Jobs
  BY DEF TypeInv, TypeOK, PlanTypes, Planners
<1>1. ASSUME UNCHANGED <<planVars, planned>>
      PROVE  /\ \A j \in Jobs : OwnedBy(planned'[j], j)
             /\ \A p \in Planners : PlanOwner(p)'
  BY <1>1 DEF PlanOwner
<1>2. ASSUME NEW j \in Jobs, GetNextBatch(j) \/ Acknowledge(j) \/ FinishJob(j) \/ StartWindow(j)
      PROVE  /\ \A i \in Jobs : OwnedBy(planned'[i], i)
             /\ \A p \in Planners : PlanOwner(p)'
  <2>1. PICK x : /\ planned' = planned \/ planned' = [planned EXCEPT ![j] = x]
                 /\ OwnedBy(x, j)
    <3>1. OwnedBy({}, j) /\ \A e, i : OwnedBy(WindowFrom(j, e, i), j)
      BY WindowOwner DEF OwnedBy
    <3>2. \E e, i : \/ planned' = planned
                    \/ planned' = [planned EXCEPT ![j] = {}]
                    \/ planned' = [planned EXCEPT ![j] = WindowFrom(j, e, i)]
      BY <1>2 DEF GetNextBatch, GnbStart, GnbLookup, GnbRefresh, GnbWindow, GnbPending, GnbFailed,
         GnbReady, GnbPin, GnbIssue, GnbEpoch, GnbClear, GnbReply, Acknowledge, FinishJob,
         FinStatus, FinPins, FinWindow, StartWindow
    <3> QED
      BY <3>1, <3>2
  <2>2. /\ UNCHANGED <<planJob, planTodo>>
        /\ planPc' = planPc \/ planPc' = [planPc EXCEPT ![j] = "check"]
    BY <1>2 DEF GetNextBatch, GnbStart, GnbLookup, GnbRefresh, GnbWindow, GnbPending, GnbFailed,
       GnbReady, GnbPin, GnbIssue, GnbEpoch, GnbClear, GnbReply, Acknowledge, FinishJob,
       FinStatus, FinPins, FinWindow, StartWindow
  <2>3. \A i \in Jobs : OwnedBy(planned'[i], i)
    BY <1>0, <2>1
  <2>4. \A p \in Planners : PlanOwner(p)'
    BY <1>0, <2>2 DEF PlanOwner
  <2> QED
    BY <2>3, <2>4
<1>3. ASSUME \/ \E j \in Jobs : \/ StartJob(j) \/ MaintainJob(j)
                                \/ \E b \in Batch : OppChoose(j, b)
             \/ OppCreate
      PROVE  /\ \A j \in Jobs : OwnedBy(planned'[j], j)
             /\ \A p \in Planners : PlanOwner(p)'
  <2>1. PICK q \in Planners : /\ planned' = planned
                              /\ \E c \in {"force", "check", "opp", "idle"} :
                                    planPc' = [planPc EXCEPT ![q] = c]
                              /\ \A p \in Planners \ {q} : UNCHANGED <<planTodo[p], planJob[p]>>
    BY <1>0, <1>3 DEF StartJob, MaintainJob, OppChoose, OppCreate
  <2> QED
    BY <1>0, <2>1 DEF PlanOwner
<1>4. ASSUME NEW p \in Planners, SchedulePass(p)
      PROVE  /\ \A j \in Jobs : OwnedBy(planned'[j], j)
             /\ \A q \in Planners : PlanOwner(q)'
  <2>1. \A q \in Planners \ {p} : UNCHANGED <<planPc[q], planTodo[q], planJob[q]>>
    BY <1>0, <1>4 DEF SchedulePass, PlanCheck, PlanIndex, PlanStore, PlanRead, PlanEnd, PlanSkip,
       PlanEach, PlanCreate, PlanDone
  <2>2. planJob[p] \in Jobs
    BY <1>0, <1>4 DEF SchedulePass, PlanCheck, PlanIndex, PlanStore, PlanRead, PlanEnd, PlanSkip,
       PlanEach, PlanCreate
  <2>3. CASE PlanCheck(p) \/ PlanEnd(p)
    <3>1. /\ planned' = planned \/ planned' = [planned EXCEPT ![planJob[p]] = {}]
          /\ planPc'[p] \in {"read", "index", "idle", "returned"}
      BY <1>0, <2>3 DEF PlanCheck, PlanEnd, PlanDone
    <3> QED
      BY <1>0, <2>1, <3>1 DEF PlanOwner, OwnedBy
  <2>4. CASE PlanIndex(p)
    <3> DEFINE j == planJob[p]
               window == WindowFrom(j, planEpoch[p], progress[j].next)
    <3>1. OwnedBy(window, j)
      BY <2>2, WindowOwner DEF OwnedBy
    <3>2. planned' = planned /\ planTodo'[p] = window /\ planJob' = planJob
      BY <1>0, <2>4 DEF PlanIndex
    <3> QED
      BY <2>1, <3>1, <3>2 DEF PlanOwner
  <2>5. CASE PlanStore(p)
    <3>1. /\ OwnedBy(planTodo[p], planJob[p]) /\ planPc'[p] = "read"
          /\ planned' = [planned EXCEPT ![planJob[p]] = planTodo[p]]
      BY <1>0, <2>5 DEF PlanStore, PlanOwner
    <3> QED
      BY <1>0, <2>1, <3>1 DEF PlanOwner
  <2>6. CASE PlanRead(p)
    <3>1. planned' = planned /\ planTodo'[p] = planned[planJob[p]] /\ planJob' = planJob
      BY <1>0, <2>6 DEF PlanRead
    <3> QED
      BY <2>1, <2>2, <3>1 DEF PlanOwner
  <2>7. CASE PlanSkip(p) \/ PlanEach(p) \/ PlanCreate(p)
    <3>1. planned' = planned /\ planTodo'[p] \subseteq planTodo[p] /\ planJob' = planJob
          /\ planPc[p] \in {"each", "create"}
      BY <1>0, <2>7 DEF PlanSkip, PlanEach, PlanCreate
    <3> QED
      BY <2>1, <3>1 DEF PlanOwner, OwnedBy
  <2> QED
    BY <1>4, <2>3, <2>4, <2>5, <2>6, <2>7 DEF SchedulePass
<1>5. ASSUME \/ \E b \in Batch : Cleanup(b)
             \/ \E w \in Workers : Work(w) \/ WorkerFault(w)
             \/ UNCHANGED vars
      PROVE  UNCHANGED <<planVars, planned>>
  BY <1>5 DEF Cleanup, Work, WorkerFault, WorkerPoll, WorkerAssign, WorkerMaterialize,
     WorkerComplete, WorkerFail, WorkerError, WorkerCrash, vars
<1>6. CASE \E j \in Jobs : GetNextBatch(j) \/ Acknowledge(j) \/ FinishJob(j) \/ StartWindow(j)
  BY <1>2, <1>6
<1>7. CASE \E p \in Planners : SchedulePass(p)
  BY <1>4, <1>7
<1>8. CASE \/ \E j \in Jobs : \/ StartJob(j) \/ MaintainJob(j)
                              \/ \E b \in Batch : OppChoose(j, b)
           \/ OppCreate
  BY <1>3, <1>8
<1>9. CASE \/ \E b \in Batch : Cleanup(b)
           \/ \E w \in Workers : Work(w) \/ WorkerFault(w)
           \/ UNCHANGED vars
  BY <1>1, <1>5, <1>9
<1> QED
  BY <1>6, <1>7, <1>8, <1>9 DEF Next

\* A task keeps its batch and its job; a new one is of a batch that its job owns.
LEMMA TaskKept ==
    ASSUME TypeInv, OwnerInv, [Next]_vars, NEW t \in TaskId
    PROVE  \/ /\ UNCHANGED <<tasks[t].batch, tasks[t].job>>
              /\ tasks'[t].status = "unused" <=> tasks[t].status = "unused"
           \/ TaskOwner(t)'
<1> USE DEF shared, storeVars
<1>0. /\ tasks \in [TaskId -> TaskRecord \cup {UnusedTask}]
      /\ tasks[t] \in TaskRecord \cup {UnusedTask}
      /\ taskOf \in [Batch -> TaskId \cup {NoTask}]
      /\ \A b \in Batch : taskOf[b] # NoTask => tasks[taskOf[b]] \in TaskRecord
  BY DEF TypeInv, TypeOK, MappingTypes
<1> DEFINE kept == /\ UNCHANGED <<tasks[t].batch, tasks[t].job>>
                   /\ tasks'[t].status = "unused" <=> tasks[t].status = "unused"
<1>1. CASE UNCHANGED tasks
  BY <1>1
<1>2. ASSUME NEW b \in Batch, NEW k, CreateTask(b, k), k \in Jobs => b.owner = Owner(k)
      PROVE  kept \/ TaskOwner(t)'
  <2>1. \/ UNCHANGED tasks
        \/ \E u \in TaskId : tasks' = [tasks EXCEPT ![u] =
                                          [batch |-> b, job |-> k, status |-> "pending"]]
    BY <1>2 DEF CreateTask
  <2> QED
    BY <1>0, <1>2, <2>1 DEF TaskOwner
<1>3. CASE \E p \in Planners : PlanCreate(p)
  <2>0. PICK p \in Planners : PlanCreate(p)
    BY <1>3
  <2>1. PICK b \in planTodo[p] : CreateTask(b, planJob[p]) /\ planPc[p] = "create"
    BY <2>0 DEF PlanCreate, IsFirst
  <2>2. b \in Batch /\ b.owner = Owner(planJob[p])
    BY <2>1 DEF TypeInv, TypeOK, OwnerInv, PlanOwner, OwnedBy
  <2> QED
    BY <1>2, <2>1, <2>2
<1>4. CASE OppCreate
  <2>1. PICK b \in planTodo[Maintainer] : CreateTask(b, NoJob)
    BY <1>4 DEF OppCreate
  <2>2. b \in Batch /\ NoJob \notin Jobs
    BY <2>1, NameAssumption DEF TypeInv, TypeOK, Planners
  <2> QED
    BY <1>2, <2>1, <2>2
<1>5. CASE \E j \in Jobs : FinStatus(j)
  <2>1. \/ tasks'[t] = tasks[t]
        \/ tasks[t].status = "pending" /\ tasks'[t] = [tasks[t] EXCEPT !.status = "cancelled"]
    BY <1>5 DEF FinStatus, Cancelled
  <2> QED
    BY <1>0, <2>1 DEF TaskRecord, UnusedTask
<1>6. CASE \E b \in Batch : Cleanup(b)
  <2>1. PICK b \in Batch : tasks' = IF taskOf[b] = NoTask THEN tasks
                                    ELSE [tasks EXCEPT ![taskOf[b]].status = "gone"]
    BY <1>6 DEF Cleanup, RemovePayload
  <2> QED
    BY <1>0, <2>1 DEF TaskRecord, UnusedTask
<1>7. CASE Working
  <2>1. \/ tasks' = tasks
        \/ \E u \in TaskId, s \in {"completed", "failed", "cancelled", "running"} :
              tasks' = [tasks EXCEPT ![u].status = s] /\ tasks[u].status # "unused"
    <3>1. PICK w \in Workers : WorkerAssign(w) \/ WorkerComplete(w) \/ WorkerFail(w)
      BY <1>7 DEF Working
    <3>2. wkTask[w] \in TaskId
      BY <3>1 DEF TypeInv, WorkerTypes, WorkerAssign, WorkerComplete, WorkerFail
    <3> QED
      BY <3>1, <3>2 DEF WorkerAssign, WorkerComplete, WorkerFail, Stored
  <2> QED
    BY <1>0, <2>1 DEF TaskRecord, UnusedTask
<1>8. ASSUME ~Working, ~\E p \in Planners : PlanCreate(p), ~OppCreate,
             ~\E j \in Jobs : FinStatus(j), ~\E b \in Batch : Cleanup(b)
      PROVE  UNCHANGED tasks
  <2>1. ASSUME NEW j \in Jobs, \/ GetNextBatch(j) \/ Acknowledge(j) \/ FinishJob(j)
                               \/ StartJob(j) \/ StartWindow(j) \/ MaintainJob(j)
                               \/ \E b \in Batch : OppChoose(j, b)
        PROVE  UNCHANGED tasks
    BY <1>8, <2>1 DEF GetNextBatch, GnbStart, GnbLookup, GnbRefresh, GnbWindow, GnbPending,
       GnbFailed, GnbReady, GnbPin, GnbIssue, GnbEpoch, GnbClear, GnbReply, Acknowledge,
       FinishJob, FinPins, FinWindow, StartJob, StartWindow, MaintainJob, OppChoose
  <2>2. ASSUME NEW p \in Planners, SchedulePass(p)
        PROVE  UNCHANGED tasks
    BY <1>8, <2>2 DEF SchedulePass, PlanCheck, PlanIndex, PlanStore, PlanRead, PlanEnd,
       PlanSkip, PlanEach
  <2>3. ASSUME NEW w \in Workers, Work(w) \/ WorkerFault(w)
        PROVE  UNCHANGED tasks
    BY <1>8, <2>3 DEF Work, WorkerFault, WorkerPoll, WorkerMaterialize, WorkerError,
       WorkerCrash, Working
  <2> QED
    BY <1>8, <2>1, <2>2, <2>3 DEF Next, vars
<1> QED
  BY <1>1, <1>3, <1>4, <1>5, <1>6, <1>7, <1>8

LEMMA OwnerStep == TypeInv /\ OwnerInv /\ [Next]_vars => OwnerInv'
<1> SUFFICES ASSUME TypeInv, OwnerInv, [Next]_vars
             PROVE  OwnerInv'
  OBVIOUS
<1>1. /\ \A j \in Jobs : OwnedBy(planned'[j], j)
      /\ \A p \in Planners : PlanOwner(p)'
  BY PlannedOwner DEF OwnerInv
<1>2. \A t \in TaskId : TaskOwner(t)'
  BY TaskKept DEF OwnerInv, TaskOwner
<1>3. \A j \in Jobs : OwnedBy(planned[j], j)'
  BY <1>1 DEF OwnedBy
<1> QED
  BY <1>1, <1>2, <1>3 DEF OwnerInv

\* A closed job stays closed: StartJob comes once.
LEMMA FinishedStays ==
    ASSUME CallInv, [Next]_vars, NEW i \in Jobs, Finished(i)
    PROVE  Finished(i)'
<1>0. /\ TypeInv /\ jobStatus \in [Jobs -> {"absent", "active", "finished"}]
      /\ \A j \in Jobs : planPc[j] = "idle" <=> jobStatus[j] = "absent"
  BY DEF CallInv, PinInv, LifeInv, TypeInv, TypeOK
<1>1. \/ UNCHANGED jobStatus
      \/ \E j \in Jobs : FinStatus(j) \/ StartJob(j)
  BY <1>0, StepKinds DEF shared, Creating, Removing, Pinning, GnbPin, Acknowledge, FinPins,
     Working, WorkerAssign, WorkerComplete, WorkerFail
<1> QED
  BY <1>0, <1>1 DEF Finished, FinStatus, StartJob

\* Tasks are cancelled by finish_job alone; assign_task_to_worker, which cancels
\* what belongs to a closed job, never finds such a task pending.
LEMMA CancelStep ==
    ASSUME TaskInv, CallInv, CancelInv, [Next]_vars
    PROVE  CancelInv'
<1> SUFFICES ASSUME NEW t \in TaskId, tasks'[t].status = "cancelled"
             PROVE  tasks'[t].job \in Jobs /\ jobStatus'[tasks'[t].job] = "finished"
  BY DEF CancelInv, Finished
<1>0. /\ TypeInv /\ tasks[t] \in TaskRecord \cup {UnusedTask}
      /\ tasks \in [TaskId -> TaskRecord \cup {UnusedTask}]
  BY DEF TaskInv, TypeInv, TypeOK
<1>1. tasks[t].status = "cancelled" => tasks[t].job \in Jobs /\ jobStatus'[tasks[t].job] = "finished"
  BY FinishedStays DEF CancelInv, Finished
<1>2. CASE UNCHANGED tasks
  BY <1>1, <1>2
<1>3. CASE Creating
  <2>1. tasks' = tasks \/ \E b, k : \E u \in TaskId :
           tasks' = [tasks EXCEPT ![u] = [batch |-> b, job |-> k, status |-> "pending"]]
    BY <1>3 DEF Creating, CreateTask
  <2> QED
    BY <1>0, <1>1, <2>1
<1>4. CASE Removing
  <2>1. PICK b \in Batch : tasks' = IF taskOf[b] = NoTask THEN tasks
                                    ELSE [tasks EXCEPT ![taskOf[b]].status = "gone"]
    BY <1>4 DEF Removing, RemovePayload
  <2> QED
    BY <1>0, <1>1, <2>1 DEF TaskRecord, UnusedTask
<1>5. CASE \E j \in Jobs : FinStatus(j)
  <2>1. PICK j \in Jobs : FinStatus(j)
    BY <1>5
  <2>2. /\ \/ tasks'[t] = tasks[t]
           \/ tasks[t].job = j /\ tasks'[t] = [tasks[t] EXCEPT !.status = "cancelled"]
        /\ jobStatus' = [jobStatus EXCEPT ![j] = "finished"]
    BY <2>1 DEF FinStatus, Cancelled
  <2>3. tasks[t].job = j => tasks[t].job \in Jobs /\ jobStatus'[tasks[t].job] = "finished"
    BY <1>0, <2>2 DEF TypeInv, TypeOK
  <2> QED
    BY <1>0, <1>1, <2>2, <2>3 DEF TaskRecord, UnusedTask
<1>6. CASE Working
  <2>1. PICK w \in Workers : WorkerAssign(w) \/ WorkerComplete(w) \/ WorkerFail(w)
    BY <1>6 DEF Working
  <2>2. wkTask[w] \in TaskId
    BY <1>0, <2>1 DEF TypeInv, WorkerTypes, WorkerAssign, WorkerComplete, WorkerFail
  <2>3. \/ tasks' = tasks
        \/ \E s \in {"completed", "failed", "running"} :
              tasks' = [tasks EXCEPT ![wkTask[w]].status = s]
    <3>1. CASE WorkerAssign(w)
      BY <2>2, <3>1 DEF WorkerAssign, TaskInv, PendingTaskHasActiveJob, PendingTasks
    <3>2. CASE WorkerComplete(w) \/ WorkerFail(w)
      BY <3>2 DEF WorkerComplete, WorkerFail
    <3> QED
      BY <2>1, <3>1, <3>2
  <2> QED
    BY <1>0, <1>1, <2>2, <2>3 DEF TaskRecord, UnusedTask
<1> QED
  BY <1>0, <1>2, <1>3, <1>4, <1>5, <1>6, StepKinds
     DEF shared, Pinning, GnbPin, Acknowledge, FinPins, StartJob

\* The faults are counted: while there is none, only these steps touch a task,
\* an entry or a worker.
LEMMA FaultFree ==
    ASSUME TypeInv, [Next]_vars, faults' = 0
    PROVE  /\ faults = 0
           /\ \/ UNCHANGED <<tasks, entry, wkVars>>
              \/ /\ \E b \in Batch, k \in Jobs \cup {NoJob} : CreateTask(b, k)
                 /\ UNCHANGED wkVars
              \/ \E j \in Jobs : FinStatus(j)
              \/ \E w \in Workers : Work(w)
<1> USE DEF storeVars, wkVars
<1>0. faults \in Nat
  BY BoundAssumption DEF TypeInv, TypeOK
<1>1. ~\E kind : Fault(kind)
  BY <1>0 DEF Fault
<1>2. CASE UNCHANGED vars
  BY <1>2 DEF vars
<1>3. ASSUME NEW j \in Jobs, \/ GetNextBatch(j) \/ Acknowledge(j) \/ FinPins(j) \/ FinWindow(j)
                             \/ StartJob(j) \/ StartWindow(j) \/ MaintainJob(j)
                             \/ \E b \in Batch : OppChoose(j, b)
      PROVE  UNCHANGED <<tasks, entry, wkVars, faults>>
  BY <1>3 DEF GetNextBatch, GnbStart, GnbLookup, GnbRefresh, GnbWindow, GnbPending,
     GnbFailed, GnbReady, GnbPin, GnbIssue, GnbEpoch, GnbClear, GnbReply, Acknowledge,
     FinPins, FinWindow, StartJob, StartWindow, MaintainJob, OppChoose
<1>4. ASSUME NEW j \in Jobs, FinStatus(j)
      PROVE  UNCHANGED faults
  BY <1>4 DEF FinStatus
<1>5. ASSUME NEW p \in Planners, SchedulePass(p)
      PROVE  /\ UNCHANGED faults
             /\ \/ UNCHANGED <<tasks, entry, wkVars>>
                \/ PlanCreate(p)
  BY <1>5 DEF SchedulePass, PlanCheck, PlanIndex, PlanStore, PlanRead, PlanEnd, PlanSkip,
     PlanEach, PlanCreate
<1>6. ASSUME NEW p \in Planners, PlanCreate(p)
      PROVE  /\ \E b \in Batch, k \in Jobs \cup {NoJob} : CreateTask(b, k)
             /\ UNCHANGED wkVars
  BY <1>6 DEF PlanCreate, IsFirst, TypeInv, TypeOK
<1>7. ASSUME OppCreate
      PROVE  /\ \E b \in Batch, k \in Jobs \cup {NoJob} : CreateTask(b, k)
             /\ UNCHANGED <<wkVars, faults>>
  BY <1>7 DEF OppCreate, TypeInv, TypeOK, Planners
<1>8. ASSUME NEW w \in Workers, Work(w)
      PROVE  UNCHANGED faults
  BY <1>1, <1>8 DEF Work, WorkerPoll, WorkerAssign, WorkerMaterialize, WorkerComplete, WorkerFail
<1>9. /\ ~\E b \in Batch : Cleanup(b)
      /\ ~\E w \in Workers : WorkerFault(w)
  BY <1>1 DEF Cleanup, WorkerFault, WorkerError, WorkerCrash
<1> QED
  BY <1>2, <1>3, <1>4, <1>5, <1>6, <1>7, <1>8, <1>9 DEF Next, FinishJob, vars

LEMMA CleanStep ==
    ASSUME TypeInv, CleanInv, [Next]_vars
    PROVE  CleanInv'
<1> SUFFICES ASSUME faults' = 0
             PROVE  /\ \A t \in TaskId : tasks'[t].status \notin {"failed", "gone"}
                    /\ \A b \in Batch : entry'[b] # "failed"
                    /\ \A w \in Workers : /\ wkPc'[w] # "fail"
                                          /\ wkPc'[w] \in {"assign", "run", "complete"}
                                                => Stored(wkTask[w])'
  BY DEF CleanInv
<1>0. /\ \A t \in TaskId : tasks[t] \in TaskRecord \cup {UnusedTask}
      /\ tasks \in [TaskId -> TaskRecord \cup {UnusedTask}]
      /\ entry \in [Batch -> {"absent", "pending", "available", "failed"}]
      /\ wkPc \in [Workers -> {"idle", "assign", "run", "complete", "fail", "dead"}]
      /\ wkTask \in [Workers -> TaskId \cup {NoTask}]
      /\ \A w \in Workers : wkPc[w] \in {"assign", "run", "complete", "fail"}
                               => wkTask[w] \in TaskId
  BY DEF TypeInv, TypeOK, WorkerTypes
<1>1. /\ \A t \in TaskId : tasks[t].status \notin {"failed", "gone"}
      /\ \A b \in Batch : entry[b] # "failed"
      /\ \A w \in Workers : /\ wkPc[w] # "fail"
                            /\ wkPc[w] \in {"assign", "run", "complete"} => Stored(wkTask[w])
  BY FaultFree DEF CleanInv
<1>2. CASE UNCHANGED <<tasks, entry, wkVars>>
  BY <1>1, <1>2 DEF wkVars, Stored
<1>3. CASE /\ \E b \in Batch, k \in Jobs \cup {NoJob} : CreateTask(b, k)
           /\ UNCHANGED wkVars
  <2>1. PICK b \in Batch, k \in Jobs \cup {NoJob} : CreateTask(b, k)
    BY <1>3
  <2>2. \/ UNCHANGED <<tasks, entry>>
        \/ /\ \E t \in TaskId : tasks' = [tasks EXCEPT ![t] =
                                             [batch |-> b, job |-> k, status |-> "pending"]]
           /\ \E s \in {"pending", entry[b]} : entry' = [entry EXCEPT ![b] = s]
    BY <2>1 DEF CreateTask
  <2>3. \A t \in TaskId : tasks'[t] = tasks[t] \/ tasks'[t].status = "pending"
    BY <1>0, <2>2
  <2>4. \A c \in Batch : entry'[c] = entry[c] \/ entry'[c] = "pending"
    BY <1>0, <2>2
  <2> QED
    BY <1>0, <1>1, <1>3, <2>3, <2>4 DEF wkVars, Stored
<1>4. CASE \E j \in Jobs : FinStatus(j)
  <2>1. /\ UNCHANGED <<entry, wkVars>>
        /\ \A t \in TaskId : \/ tasks'[t] = tasks[t]
                             \/ tasks'[t] = [tasks[t] EXCEPT !.status = "cancelled"]
    BY <1>4 DEF FinStatus, Cancelled
  <2>2. \A t \in TaskId : tasks'[t].status \in {tasks[t].status, "cancelled"}
    BY <1>0, <2>1 DEF TaskRecord, UnusedTask
  <2> QED
    BY <1>0, <1>1, <2>1, <2>2 DEF wkVars, Stored
<1>5. ASSUME NEW w \in Workers, Work(w)
      PROVE  /\ \A t \in TaskId : tasks'[t].status \notin {"failed", "gone"}
             /\ \A b \in Batch : entry'[b] # "failed"
             /\ \A v \in Workers : /\ wkPc'[v] # "fail"
                                   /\ wkPc'[v] \in {"assign", "run", "complete"}
                                         => Stored(wkTask[v])'
  <2> DEFINE t == wkTask[w]
  <2>0. ~\E kind : Fault(kind)
    <3>1. faults \in Nat
      BY BoundAssumption DEF TypeInv, TypeOK
    <3> QED
      BY <3>1 DEF Fault
  <2>1. \A v \in Workers \ {w} : UNCHANGED <<wkPc[v], wkTask[v]>>
    BY <1>0, <1>5 DEF Work, WorkerPoll, WorkerAssign, WorkerMaterialize, WorkerComplete,
       WorkerFail, WkGoto, WkIdle, wkVars
  <2>2. \/ /\ UNCHANGED <<tasks, entry>>
           /\ \/ \E u \in TaskId : /\ Stored(u)
                                   /\ wkTask'[w] = u /\ wkPc'[w] = "assign"
              \/ t \in TaskId /\ Stored(t) /\ wkTask'[w] = t /\ wkPc'[w] = "complete"
        \/ /\ UNCHANGED entry
           /\ tasks' = tasks \/ \E s \in {"cancelled", "running"} :
                                    tasks' = [tasks EXCEPT ![t].status = s]
           /\ wkPc'[w] = "idle" \/ (wkTask'[w] = t /\ wkPc'[w] = "run"
                                     /\ t \in TaskId /\ Stored(t))
        \/ /\ tasks' = [tasks EXCEPT ![t].status = "completed"]
           /\ \E b : entry' = [entry EXCEPT ![b] = "available"]
           /\ wkPc'[w] = "idle"
    <3>1. CASE WorkerPoll(w)
      BY <1>0, <3>1 DEF WorkerPoll, PendingTasks, Stored, WkGoto, storeVars
    <3>2. CASE WorkerMaterialize(w)
      BY <1>0, <1>1, <3>2 DEF WorkerMaterialize, WkGoto, storeVars
    <3>3. CASE WorkerAssign(w)
      BY <1>0, <1>1, <2>0, <3>3 DEF WorkerAssign, WkGoto, WkIdle
    <3>4. CASE WorkerComplete(w)
      BY <1>0, <1>1, <2>0, <3>4 DEF WorkerComplete, WkGoto, WkIdle
    <3>5. CASE WorkerFail(w)
      BY <1>1, <3>5 DEF WorkerFail
    <3> QED
      BY <1>5, <3>1, <3>2, <3>3, <3>4, <3>5 DEF Work
  <2>3. \A u \in TaskId : tasks'[u].status \in {tasks[u].status, "cancelled", "running", "completed"}
    BY <1>0, <2>2 DEF TaskRecord, UnusedTask
  <2>4. \A u \in TaskId : /\ tasks'[u].status \notin {"failed", "gone"}
                          /\ Stored(u) => Stored(u)'
    BY <1>1, <2>3 DEF Stored
  <2>5. \A b \in Batch : entry'[b] # "failed"
    BY <1>0, <1>1, <2>2
  <2>6. /\ wkPc'[w] # "fail"
        /\ wkPc'[w] \in {"assign", "run", "complete"} => wkTask'[w] \in TaskId /\ Stored(wkTask'[w])
    BY <1>0, <1>1, <2>2
  <2>7. wkPc'[w] \in {"assign", "run", "complete"} => Stored(wkTask[w])'
    BY <2>4, <2>6 DEF Stored
  <2> QED
    BY <1>0, <1>1, <2>1, <2>4, <2>5, <2>6, <2>7 DEF Stored
<1> QED
  BY <1>2, <1>3, <1>4, <1>5, FaultFree

\* The batch a call fails on is due, so of the job's owner; its task, when it
\* is cancelled, is of a closed job.
LEMMA FailureStep ==
    ASSUME CauseInv, [Next]_vars, NEW j \in Jobs, gnbPc'[j] = "failed", Active(j)'
    PROVE  \/ faults' > 0
           \/ ReuseEnabled /\ \E k \in Jobs \ {j} : jobStatus'[k] = "finished"
<1>0. /\ gnbPc \in [Jobs -> {"off", "idle", "lookup", "refresh", "retry", "window",
                             "resolve", "pin", "issue", "epoch", "clear", "reply",
                             "failed", "done", "none"}]
      /\ gnbBatch[j] \in Batch \cup {NoBatch}
      /\ jobStatus \in [Jobs -> {"absent", "active", "finished"}]
      /\ TypeInv /\ MappingTypes
      /\ planPc[j] # "returned" => gnbPc[j] = "off"
      /\ planPc[j] = "idle" <=> jobStatus[j] = "absent"
  BY DEF CauseInv, CallInv, PinInv, LifeInv, TypeInv, TypeOK
<1>a. faults' \in Nat
  <2>1. TypeInv'
    BY <1>0, NextType
  <2> QED
    BY <2>1, BoundAssumption DEF TypeInv, TypeOK
<1>1. SUFFICES ASSUME faults' = 0
               PROVE  ReuseEnabled /\ \E k \in Jobs \ {j} : jobStatus'[k] = "finished"
  BY <1>a
<1>2. faults = 0 /\ \A k \in Jobs : Finished(k) => jobStatus'[k] = "finished"
  BY <1>0, <1>1, FaultFree, FinishedStays DEF CauseInv, Finished
<1>3. Active(j) \/ jobStatus[j] = "absent"
  BY <1>0, <1>2 DEF Active, Finished
<1>4. CASE gnbPc[j] = "failed"
  <2>1. Active(j)
    BY <1>0, <1>3, <1>4
  <2> QED
    BY <1>2, <1>4, <2>1 DEF CauseInv, FailureHasCause, Finished
<1>5. CASE GnbFailed(j)
  <2> DEFINE b == gnbBatch[j]
             t == taskOf[b]
  <2>1. gnbPc[j] = "resolve" /\ ~IsReady(b) /\ Unavailable(b) /\ UNCHANGED jobStatus
    BY <1>5 DEF GnbFailed, storeVars
  <2>2. b \in Batch /\ b.owner = Owner(j)
    <3>1. b \in Batch
      BY <1>0, <2>1 DEF TypeInv, GnbTypes
    <3>2. b = NextBatch(j)
      BY <2>1 DEF CauseInv, CallInv, DueInv, Granting
    <3>3. NextBatch(j).owner = Owner(j)
      BY DEF NextBatch, BatchAt
    <3> QED
      BY <3>1, <3>2, <3>3
  <2>3. t \in TaskId /\ tasks[t].batch = b /\ tasks[t] \in TaskRecord
        /\ tasks[t].status = "cancelled"
    <3>1. entry[b] # "failed" /\ \A u \in TaskId : tasks[u].status # "failed"
      BY <1>2, <2>2 DEF CauseInv, CleanInv
    <3>2. t # NoTask /\ tasks[t].status \in {"failed", "cancelled"}
      BY <2>1, <3>1 DEF Unavailable
    <3>3. t \in TaskId
      BY <1>0, <2>2, <3>2 DEF TypeInv, TypeOK
    <3> QED
      BY <1>0, <2>2, <3>1, <3>2, <3>3 DEF MappingTypes
  <2>4. tasks[t].job \in Jobs /\ Finished(tasks[t].job) /\ b.owner = Owner(tasks[t].job)
    BY <2>3 DEF CauseInv, CancelInv, OwnerInv, TaskOwner
  <2>5. tasks[t].job # j
    BY <1>3, <2>1, <2>4 DEF Finished, Active
  <2>6. ReuseEnabled
    BY <2>2, <2>4, <2>5 DEF Owner
  <2> QED
    BY <1>2, <2>4, <2>5, <2>6
<1>6. CASE gnbPc[j] # "failed" /\ ~GnbFailed(j)
  <2>1. ASSUME NEW i \in Jobs, GetNextBatch(i)
        PROVE  gnbPc'[j] # "failed"
    BY <1>0, <1>6, <2>1 DEF GetNextBatch, GnbStart, GnbLookup, GnbRefresh, GnbWindow, GnbPending,
       GnbFailed, GnbReady, GnbPin, GnbIssue, GnbEpoch, GnbClear, GnbReply, GnbGoto, MissedAt
  <2>2. ASSUME ~\E i \in Jobs : GetNextBatch(i)
        PROVE  gnbPc'[j] \in {gnbPc[j], "idle"}
    <3>1. \/ gnbPc' = gnbPc
          \/ \E p : gnbPc' = [gnbPc EXCEPT ![p] = "idle"]
      BY <2>2 DEF Next, vars, gnbVars, Acknowledge, FinishJob, FinStatus, FinPins, FinWindow,
         StartJob, StartWindow, MaintainJob, OppChoose, OppCreate, Cleanup, Work, WorkerFault,
         WorkerPoll, WorkerAssign, WorkerMaterialize, WorkerComplete, WorkerFail, WorkerError,
         WorkerCrash, SchedulePass, PlanCheck, PlanIndex, PlanStore, PlanRead, PlanEnd, PlanSkip,
         PlanEach, PlanCreate, PlanDone, GnbGoto
    <3> QED
      BY <1>0, <3>1
  <2> QED
    BY <1>6, <2>1, <2>2
<1> QED
  BY <1>4, <1>5, <1>6

LEMMA CauseStep == CauseInv /\ [Next]_vars => CauseInv'
<1> SUFFICES ASSUME CauseInv, [Next]_vars
             PROVE  CauseInv'
  OBVIOUS
<1>1. TaskInv' /\ CallInv' /\ OwnerInv'
  BY TaskStep, CallStep, OwnerStep DEF CauseInv, TaskInv
<1>2. CancelInv' /\ CleanInv'
  BY CancelStep, CleanStep DEF CauseInv, TaskInv
<1>3. FailureHasCause'
  BY FailureStep DEF FailureHasCause, Active
<1> QED
  BY <1>1, <1>2, <1>3 DEF CauseInv

LEMMA InitCause == Init => CauseInv
<1> SUFFICES ASSUME Init
             PROVE  CauseInv
  OBVIOUS
<1>1. OwnerInv
  BY NameAssumption DEF Init, OwnerInv, OwnedBy, PlanOwner, TaskOwner, UnusedTask, Planners
<1>2. CancelInv /\ CleanInv /\ FailureHasCause
  BY DEF Init, CancelInv, CleanInv, FailureHasCause, UnusedTask, Stored
<1> QED
  BY <1>1, <1>2, TaskInit, InitCall DEF CauseInv

\* A request of an active job fails only after a fault, or with reuse because
\* another job, whose task the shared batch waited for, was closed.
THEOREM FailuresAreCaused == Spec => []FailureHasCause
<1>1. CauseInv => FailureHasCause
  BY DEF CauseInv
<1> QED
  BY <1>1, InitCause, CauseStep, PTL DEF Spec

-----------------------------------------------------------------------------
(* Work done twice.  A batch that was made ready has a completed task,     *)
(* which nobody replaces; what could make it ready behind its back is a    *)
(* task that was replaced.  Tasks are replaced when they failed or were    *)
(* cancelled, and a cancelled one only by a job that shares it.  The       *)
(* prefetch would not notice that the job was closed meanwhile, but it is  *)
(* for batches that StartJob leaves alone.                                 *)

\* A task for b is created by a scheduler of an active job that owns b, where that
\* is StartJob it has come to b, or, for no job, by the maintainer's prefetch.
Creates(b, k) ==
    /\ MayCreate(b, k)
    /\ \/ /\ k \in Jobs /\ Active(k) /\ b.owner = Owner(k)
          /\ planPc[Maintainer] = "opp" => planPc[k] = "create" /\ IsFirst(b, planTodo[k])
       \/ /\ k = NoJob /\ b \in planTodo[Maintainer]
          /\ planPc[Maintainer] = "opp" /\ planPc'[Maintainer] = "idle"
    /\ \E t \in TaskId : /\ tasks[t].status = "unused"
                         /\ tasks' = [tasks EXCEPT ![t] =
                                         [batch |-> b, job |-> k, status |-> "pending"]]
                         /\ taskOf' = [taskOf EXCEPT ![b] = t]
    /\ UNCHANGED <<jobStatus, handles, expiring, activeTasks, wkVars>>

\* Only these steps touch a task, a mapping, a handle or a worker.
LEMMA TaskKinds ==
    ASSUME TypeInv, OwnerInv, [Next]_vars
    PROVE  \/ UNCHANGED <<tasks, taskOf, handles, expiring, activeTasks, wkVars>>
           \/ \E b \in Batch : \E k \in Jobs \cup {NoJob} : Creates(b, k)
           \/ \E b \in Batch : Cleanup(b)
           \/ \E j \in Jobs : FinStatus(j)
           \/ \E w \in Workers : Work(w) \/ WorkerFault(w)
<1> DEFINE same == UNCHANGED <<tasks, taskOf, handles, expiring, activeTasks, wkVars>>
<1> USE DEF storeVars, wkVars
<1>1. CASE UNCHANGED vars
  BY <1>1 DEF vars
<1>2. ASSUME NEW j \in Jobs, \/ GetNextBatch(j) \/ Acknowledge(j) \/ FinPins(j) \/ FinWindow(j)
                             \/ StartJob(j) \/ StartWindow(j) \/ MaintainJob(j)
                             \/ \E b \in Batch : OppChoose(j, b)
      PROVE  same
  BY <1>2 DEF GetNextBatch, GnbStart, GnbLookup, GnbRefresh, GnbWindow, GnbPending,
     GnbFailed, GnbReady, GnbPin, GnbIssue, GnbEpoch, GnbClear, GnbReply, Acknowledge,
     FinPins, FinWindow, StartJob, StartWindow, MaintainJob, OppChoose
<1>3. ASSUME NEW p \in Planners, SchedulePass(p), ~PlanCreate(p)
      PROVE  same
  BY <1>3 DEF SchedulePass, PlanCheck, PlanIndex, PlanStore, PlanRead, PlanEnd, PlanSkip, PlanEach
<1>4. ASSUME NEW p \in Planners, PlanCreate(p)
      PROVE  same \/ \E b \in Batch : \E k \in Jobs \cup {NoJob} : Creates(b, k)
  <2>1. PICK b \in planTodo[p] : CreateTask(b, planJob[p]) /\ IsFirst(b, planTodo[p])
    BY <1>4 DEF PlanCreate, IsFirst
  <2>2. /\ b \in Batch /\ planJob[p] \in Jobs /\ b.owner = Owner(planJob[p])
        /\ planPc[p] = "create" /\ (planPc[Maintainer] = "opp" => planJob[p] = p)
    BY <1>4, <2>1
       DEF TypeInv, TypeOK, PlanTypes, OwnerInv, PlanOwner, OwnedBy, PlanCreate, Planners
  <2>3. UNCHANGED <<jobStatus, handles, expiring, activeTasks, wkVars>>
    BY <1>4 DEF PlanCreate
  <2>4. same \/ Creates(b, planJob[p])
    BY <2>1, <2>2, <2>3, NameAssumption DEF CreateTask, Creates, MayCreate
  <2> QED BY <2>2, <2>4
<1>5. ASSUME OppCreate
      PROVE  same \/ \E b \in Batch : \E k \in Jobs \cup {NoJob} : Creates(b, k)
  <2>1. PICK b \in planTodo[Maintainer] : CreateTask(b, NoJob)
    BY <1>5 DEF OppCreate
  <2>2. b \in Batch
    BY <2>1 DEF TypeInv, TypeOK, Planners
  <2>3. planPc[Maintainer] = "opp" /\ planPc'[Maintainer] = "idle"
    BY <1>5 DEF OppCreate, PlanGoto, TypeInv, TypeOK, Planners
  <2>4. UNCHANGED <<jobStatus, handles, expiring, activeTasks, wkVars>>
    BY <1>5 DEF OppCreate
  <2>5. same \/ Creates(b, NoJob)
    BY <2>1, <2>3, <2>4 DEF CreateTask, Creates
  <2> QED BY <2>2, <2>5
<1> QED BY <1>1, <1>2, <1>3, <1>4, <1>5 DEF Next, FinishJob

\* What the mapping says of a task it maps to.
LEMMA MappedTask ==
    ASSUME TypeInv, NEW b \in Batch, taskOf[b] # NoTask
    PROVE  /\ taskOf[b] \in TaskId /\ tasks[taskOf[b]] \in TaskRecord
           /\ tasks[taskOf[b]].batch = b
BY DEF TypeInv, TypeOK, MappingTypes

-----------------------------------------------------------------------------
(* What StartJob schedules.  Until it returns nobody asks for a batch, so  *)
(* the window is the first one or none, and StartJob goes through it batch *)
(* by batch up to the target depth.                                        *)

FirstFrom(j, n) == {c \in WindowFrom(j, 0, 0) : c.index >= n}

FreshPlan(p, j) ==
    /\ planPc[p] = "index" => planEpoch[p] = 0
    /\ planPc[p] = "store" => planTodo[p] = WindowFrom(j, 0, 0)

StartInv(j) ==
    planPc[j] # "returned" =>
        /\ progress[j] = [epoch |-> 0, next |-> 0]
        /\ planned[j] \in {{}, WindowFrom(j, 0, 0)}
        /\ FreshPlan(j, j)
        /\ planJob[Maintainer] = j => FreshPlan(Maintainer, j)
        /\ planPc[j] \notin {"each", "create"} => planSeen[j] = 0
        /\ planPc[j] = "each" => planTodo[j] \in {{}, FirstFrom(j, planSeen[j])}
        /\ planPc[j] = "create" => /\ planSeen[j] > 0
                                   /\ planTodo[j] = FirstFrom(j, planSeen[j] - 1)

\* The first of what is left of the window is the next one.
LEMMA FirstOfWindow ==
    ASSUME NEW j \in Jobs, NEW n \in Nat, NEW b, IsFirst(b, FirstFrom(j, n))
    PROVE  b.index = n /\ FirstFrom(j, n) \ {b} = FirstFrom(j, n + 1)
<1>1. \A c \in WindowFrom(j, 0, 0) :
         /\ c.index \in 0..(BatchesPerEpoch - 1) /\ c.index < Lookahead
         /\ c = BatchAt(j, 0, c.index)
  <2> SUFFICES ASSUME NEW c \in WindowFrom(j, 0, 0)
               PROVE  /\ c.index \in 0..(BatchesPerEpoch - 1) /\ c.index < Lookahead
                      /\ c = BatchAt(j, 0, c.index)
    OBVIOUS
  <2>1. PICK k \in 0..(BatchesPerEpoch - 1) : k < 0 + Lookahead /\ c = BatchAt(j, 0, k)
    BY DEF WindowFrom
  <2>2. c.index = k
    BY <2>1 DEF BatchAt
  <2> QED BY <2>1, <2>2, DepthAssumption
<1>2. \A k \in 0..(BatchesPerEpoch - 1) : k < Lookahead => BatchAt(j, 0, k) \in WindowFrom(j, 0, 0)
  <2> SUFFICES ASSUME NEW k \in 0..(BatchesPerEpoch - 1), k < Lookahead
               PROVE  BatchAt(j, 0, k) \in WindowFrom(j, 0, 0)
    OBVIOUS
  <2>1. 0 <= k /\ k < 0 + Lookahead
    BY DepthAssumption
  <2> QED BY <2>1 DEF WindowFrom
<1>3. b \in WindowFrom(j, 0, 0) /\ b.index >= n /\ \A c \in FirstFrom(j, n) : b.index <= c.index
  BY DEF IsFirst, FirstFrom
<1>4. n \in 0..(BatchesPerEpoch - 1) /\ n < Lookahead /\ b.index \in Nat
  BY <1>1, <1>3, DepthAssumption
<1>5. BatchAt(j, 0, n) \in FirstFrom(j, n) /\ BatchAt(j, 0, n).index = n
  BY <1>2, <1>4 DEF FirstFrom, BatchAt
<1>6. b.index = n
  BY <1>3, <1>4, <1>5
<1>7. \A c \in WindowFrom(j, 0, 0) : c # b => c.index # n
  BY <1>1, <1>3, <1>6
<1>8. \A c \in WindowFrom(j, 0, 0) : c.index \in Int
  BY <1>1
<1>9. ASSUME NEW c \in WindowFrom(j, 0, 0)
      PROVE  c.index >= n /\ c # b <=> c.index >= n + 1
  BY <1>6, <1>7, <1>8
<1> QED BY <1>6, <1>9 DEF FirstFrom

LEMMA StartStep ==
    ASSUME CallInv, \A i \in Jobs : StartInv(i), [Next]_vars, NEW j \in Jobs
    PROVE  StartInv(j)'
<1> USE DEF storeVars, gnbVars, clientVars, planVars, PlanGoto
<1> DEFINE W == WindowFrom(j, 0, 0)
<1>0. /\ TypeInv
      /\ planPc \in [Planners -> {"idle", "force", "check", "index", "store",
                                  "read", "each", "create", "opp", "returned"}]
      /\ planJob \in [Planners -> Jobs \cup {NoJob}] /\ planJob[j] = j
      /\ planTodo \in [Planners -> SUBSET Batch]
      /\ planSeen \in [Planners -> 0..TargetDepth]
      /\ planEpoch \in [Planners -> 0..MaxEpoch]
      /\ planned \in [Jobs -> SUBSET Batch]
      /\ progress \in [Jobs -> [epoch : 0..MaxEpoch, next : 0..BatchesPerEpoch]]
      /\ Planners = Jobs \cup {Maintainer} /\ Maintainer \notin Jobs /\ NoJob \notin Jobs
      /\ planPc[j] # "returned" => gnbPc[j] = "off"
      /\ TargetDepth \in Nat
  <2>1. TypeInv /\ (planPc[j] # "returned" => gnbPc[j] = "off")
    BY DEF CallInv, PinInv
  <2>2. planJob[j] = j
    BY <2>1 DEF TypeInv, PlanTypes
  <2>3. TargetDepth \in Nat
    BY DepthAssumption
  <2> QED BY <2>1, <2>2, <2>3, NameAssumption DEF TypeInv, TypeOK, Planners
<1>1. SUFFICES ASSUME planPc[j] # "returned"
               PROVE  StartInv(j)'
  <2>1. planPc[j] = "returned" => planPc'[j] = "returned"
    <3> SUFFICES ASSUME planPc[j] = "returned" PROVE planPc'[j] = "returned"
      OBVIOUS
    <3>1. ASSUME NEW p \in Planners, SchedulePass(p)
          PROVE  planPc'[j] = "returned"
      BY <1>0, <3>1 DEF SchedulePass, PlanCheck, PlanIndex, PlanStore, PlanRead, PlanEnd, PlanSkip,
         PlanEach, PlanCreate, PlanDone
    <3>2. ASSUME NEW i \in Jobs, GetNextBatch(i) \/ Acknowledge(i) \/ FinishJob(i)
          PROVE  planPc' = planPc
      BY <3>2 DEF GetNextBatch, GnbStart, GnbLookup, GnbRefresh, GnbWindow, GnbPending,
         GnbFailed, GnbReady, GnbPin, GnbIssue, GnbEpoch, GnbClear, GnbReply, Acknowledge,
         FinishJob, FinStatus, FinPins, FinWindow
    <3>3. ASSUME NEW w \in Workers, Work(w) \/ WorkerFault(w)
          PROVE  planPc' = planPc
      BY <3>3 DEF Work, WorkerFault, WorkerPoll, WorkerAssign, WorkerMaterialize,
         WorkerComplete, WorkerFail, WorkerError, WorkerCrash
    <3>4. ASSUME NEW i \in Jobs, \/ StartJob(i) \/ StartWindow(i) \/ MaintainJob(i)
                                 \/ \E b \in Batch : OppChoose(i, b)
          PROVE  planPc'[j] = "returned"
      BY <1>0, <3>4 DEF StartJob, StartWindow, MaintainJob, OppChoose
    <3>5. ASSUME OppCreate \/ (\E b \in Batch : Cleanup(b)) \/ UNCHANGED vars
          PROVE  planPc'[j] = "returned"
      BY <1>0, <3>5 DEF OppCreate, Cleanup, vars
    <3> QED BY <3>1, <3>2, <3>3, <3>4, <3>5 DEF Next
  <2> QED BY <2>1 DEF StartInv
<1>2. StartInv(j)
  OBVIOUS
<1>3. ASSUME UNCHANGED <<progress, planned, planVars>>
      PROVE  StartInv(j)'
  BY <1>2, <1>3 DEF StartInv, FreshPlan
<1>4. ASSUME NEW i \in Jobs, GetNextBatch(i) \/ Acknowledge(i) \/ FinishJob(i)
      PROVE  StartInv(j)'
  <2>1. UNCHANGED planVars
    BY <1>4 DEF GetNextBatch, GnbStart, GnbLookup, GnbRefresh, GnbWindow, GnbPending, GnbFailed,
       GnbReady, GnbPin, GnbIssue, GnbEpoch, GnbClear, GnbReply, Acknowledge, FinishJob,
       FinStatus, FinPins, FinWindow
  <2>2. ASSUME i # j
        PROVE  UNCHANGED <<progress[j], planned[j]>>
    BY <1>0, <1>4, <2>2 DEF GetNextBatch, GnbStart, GnbLookup, GnbRefresh, GnbWindow, GnbPending, GnbFailed,
       GnbReady, GnbPin, GnbIssue, GnbEpoch, GnbClear, GnbReply, Acknowledge, FinishJob,
       FinStatus, FinPins, FinWindow
  <2>3. ASSUME i = j
        PROVE  progress' = progress /\ (planned' = planned \/ planned'[j] = {})
    BY <1>0, <1>1, <1>4, <2>3 DEF GetNextBatch, GnbStart, GnbLookup, GnbRefresh, GnbWindow, GnbPending,
       GnbFailed, GnbReady, GnbPin, GnbIssue, GnbEpoch, GnbClear, GnbReply, Acknowledge,
       FinishJob, FinStatus, FinPins, FinWindow
  <2>4. progress'[j] = progress[j] /\ planned'[j] \in {planned[j], {}}
    BY <2>2, <2>3
  <2> QED BY <1>2, <2>1, <2>4 DEF StartInv, FreshPlan
<1>5. ASSUME NEW i \in Jobs, StartJob(i) \/ StartWindow(i) \/ MaintainJob(i)
      PROVE  StartInv(j)'
  <2>1. CASE StartJob(i)
    BY <1>0, <1>2, <2>1 DEF StartJob, StartInv, FreshPlan
  <2>2. CASE StartWindow(i)
    BY <1>0, <1>2, <2>2 DEF StartWindow, StartInv, FreshPlan
  <2>3. CASE MaintainJob(i)
    BY <1>0, <1>2, <2>3 DEF MaintainJob, StartInv, FreshPlan
  <2> QED BY <1>5, <2>1, <2>2, <2>3
<1>6. ASSUME (\E i \in Jobs : \E b \in Batch : OppChoose(i, b)) \/ OppCreate
      PROVE  StartInv(j)'
  <2>1. /\ UNCHANGED <<progress, planned, planJob, planEpoch, planSeen>>
        /\ UNCHANGED <<planPc[j], planTodo[j]>> /\ planPc'[Maintainer] \in {"opp", "idle"}
    BY <1>0, <1>6 DEF OppChoose, OppCreate
  <2> QED BY <1>2, <2>1 DEF StartInv, FreshPlan
<1>7. ASSUME NEW p \in Planners, SchedulePass(p)
      PROVE  StartInv(j)'
  <2>0. planJob[p] \in Jobs
    BY <1>0, <1>7 DEF SchedulePass, PlanCheck, PlanIndex, PlanStore, PlanRead, PlanEnd, PlanSkip,
       PlanEach, PlanCreate, TypeInv, PlanTypes
  <2>1. /\ progress' = progress
        /\ \A q \in Planners \ {p} :
              UNCHANGED <<planPc[q], planJob[q], planEpoch[q], planTodo[q], planSeen[q]>>
    BY <1>0, <1>7 DEF SchedulePass, PlanCheck, PlanIndex, PlanStore, PlanRead, PlanEnd, PlanSkip,
       PlanEach, PlanCreate, PlanDone
  <2>2. planned'[j] \in {planned[j], {}, W}
    <3>1. \/ planned' = planned
          \/ planned' = [planned EXCEPT ![planJob[p]] = {}]
          \/ planPc[p] = "store" /\ planned' = [planned EXCEPT ![planJob[p]] = planTodo[p]]
      BY <1>7 DEF SchedulePass, PlanCheck, PlanIndex, PlanStore, PlanRead, PlanEnd, PlanSkip,
         PlanEach, PlanCreate
    <3>2. planPc[p] = "store" /\ planJob[p] = j => planTodo[p] = W
      BY <1>0, <1>1, <1>2, NameAssumption DEF StartInv, FreshPlan, TypeInv, PlanTypes
    <3> QED BY <1>0, <2>0, <3>1, <3>2
  <2>3. ASSUME planJob'[p] = j
        PROVE  FreshPlan(p, j)'
    <3>1. CASE PlanCheck(p)
      <4>1. \/ planPc'[p] \in {"read", "idle", "returned"}
            \/ planPc'[p] = "index" /\ planEpoch'[p] = progress[planJob[p]].epoch /\ planJob' = planJob
        BY <1>0, <3>1 DEF PlanCheck, PlanDone
      <4> QED BY <1>1, <1>2, <2>3, <4>1 DEF FreshPlan, StartInv
    <3>2. CASE PlanIndex(p)
      <4>1. /\ planPc[p] = "index" /\ planPc'[p] = "store" /\ planJob' = planJob
            /\ planTodo'[p] = WindowFrom(planJob[p], planEpoch[p], progress[planJob[p]].next)
        BY <1>0, <3>2 DEF PlanIndex
      <4>2. planEpoch[p] = 0 /\ progress[j].next = 0
        BY <1>0, <1>1, <1>2, <2>3, <4>1 DEF StartInv, FreshPlan, TypeInv, PlanTypes
      <4> QED BY <2>3, <4>1, <4>2 DEF FreshPlan
    <3>3. CASE ~PlanCheck(p) /\ ~PlanIndex(p)
      <4>1. planPc'[p] \in {"read", "each", "create", "idle", "returned"}
        BY <1>0, <1>7, <3>3 DEF SchedulePass, PlanStore, PlanRead, PlanEnd, PlanSkip, PlanEach,
           PlanCreate, PlanDone
      <4> QED BY <4>1 DEF FreshPlan
    <3> QED BY <3>1, <3>2, <3>3
  <2>4. CASE p = Maintainer
    <3>1. planPc'[j] = planPc[j] /\ planTodo'[j] = planTodo[j] /\ planSeen'[j] = planSeen[j]
          /\ planEpoch'[j] = planEpoch[j] /\ Maintainer # j
      BY <1>0, <2>1, <2>4
    <3> QED BY <1>2, <2>1, <2>2, <2>3, <2>4, <3>1 DEF StartInv, FreshPlan
  <2>5. CASE p # Maintainer /\ p # j
    <3>1. /\ UNCHANGED <<planPc[j], planTodo[j], planSeen[j], planEpoch[j]>>
          /\ UNCHANGED <<planPc[Maintainer], planTodo[Maintainer]>>
          /\ UNCHANGED <<planEpoch[Maintainer], planJob[Maintainer]>>
      BY <1>0, <2>1, <2>5
    <3> QED BY <1>2, <2>1, <2>2, <3>1 DEF StartInv, FreshPlan
  <2>6. CASE p = j
    <3>1. UNCHANGED <<planPc[Maintainer], planTodo[Maintainer], planEpoch[Maintainer], planJob[Maintainer]>>
      BY <1>0, <2>1, <2>6
    <3>2. planPc'[j] # "returned" => FreshPlan(j, j)'
      BY <1>0, <1>7, <2>3, <2>6 DEF SchedulePass, PlanCheck, PlanIndex, PlanStore, PlanRead, PlanEnd,
         PlanSkip, PlanEach, PlanCreate, PlanDone
    <3> DEFINE Going == /\ planPc'[j] \notin {"each", "create"} => planSeen'[j] = 0
                        /\ planPc'[j] = "each" => planTodo'[j] \in {{}, FirstFrom(j, planSeen'[j])}
                        /\ planPc'[j] = "create" => /\ planSeen'[j] > 0
                                                    /\ planTodo'[j] = FirstFrom(j, planSeen'[j] - 1)
    <3>3. ASSUME PlanCheck(j) \/ PlanIndex(j) \/ PlanStore(j) \/ PlanEnd(j)
          PROVE  Going
      BY <1>0, <1>1, <1>2, <3>3 DEF PlanCheck, PlanIndex, PlanStore, PlanEnd, PlanDone, StartInv
    <3>4. ASSUME PlanRead(j)
          PROVE  Going
      <4>1. FirstFrom(j, 0) = W
        BY DEF FirstFrom, WindowFrom, BatchAt
      <4> QED BY <1>0, <1>1, <1>2, <3>4, <4>1 DEF PlanRead, StartInv
    <3>5. ASSUME PlanSkip(j) \/ PlanEach(j)
          PROVE  Going
      <4>1. planPc[j] = "each" /\ planSeen[j] \in Nat
        BY <1>0, <3>5 DEF PlanSkip, PlanEach
      <4>2. PICK b \in planTodo[j] :
               /\ IsFirst(b, planTodo[j])
               /\ \/ Passed(j, b)
                  \/ /\ planSeen'[j] = planSeen[j] + 1
                     /\ \/ planPc'[j] = "each" /\ planTodo'[j] = planTodo[j] \ {b}
                        \/ planPc'[j] = "create" /\ planTodo'[j] = planTodo[j]
        BY <1>0, <3>5, <4>1 DEF PlanSkip, PlanEach
      <4>3. planTodo[j] = FirstFrom(j, planSeen[j])
        BY <1>1, <1>2, <4>1, <4>2 DEF StartInv
      <4>4. b.epoch = 0 /\ b.index \in Nat
        <5>1. b \in FirstFrom(j, planSeen[j])
          BY <4>2, <4>3
        <5>2. PICK k \in Nat : b = BatchAt(j, 0, k)
          BY <5>1, DepthAssumption DEF FirstFrom, WindowFrom
        <5> QED BY <5>2 DEF BatchAt
      <4>5. ~Passed(j, b)
        <5>1. progress[j].epoch = 0 /\ progress[j].next = 0
          BY <1>1, <1>2 DEF StartInv
        <5> QED BY <4>4, <5>1 DEF Passed
      <4>6. FirstFrom(j, planSeen[j]) \ {b} = FirstFrom(j, planSeen[j] + 1)
        BY <4>1, <4>2, <4>3, FirstOfWindow
      <4>7. planSeen[j] + 1 > 0 /\ (planSeen[j] + 1) - 1 = planSeen[j]
        BY <4>1
      <4> QED BY <4>2, <4>3, <4>5, <4>6, <4>7
    <3>6. ASSUME PlanCreate(j)
          PROVE  Going
      <4>1. planPc[j] = "create" /\ planPc'[j] = "each" /\ planSeen'[j] = planSeen[j]
        BY <1>0, <3>6 DEF PlanCreate
      <4>2. PICK b \in planTodo[j] : IsFirst(b, planTodo[j]) /\ planTodo'[j] = planTodo[j] \ {b}
        BY <1>0, <3>6 DEF PlanCreate, IsFirst
      <4>3. /\ planTodo[j] = FirstFrom(j, planSeen[j] - 1)
            /\ planSeen[j] - 1 \in Nat /\ (planSeen[j] - 1) + 1 = planSeen[j]
        BY <1>0, <1>1, <1>2, <4>1 DEF StartInv
      <4>4. planTodo'[j] = FirstFrom(j, planSeen[j])
        BY <4>2, <4>3, FirstOfWindow
      <4> QED BY <4>1, <4>4
    <3>7. Going
      BY <1>7, <2>6, <3>3, <3>4, <3>5, <3>6 DEF SchedulePass
    <3>8. progress'[j] = [epoch |-> 0, next |-> 0] /\ planned'[j] \in {{}, W}
      BY <1>1, <1>2, <2>1, <2>2 DEF StartInv
    <3>9. planJob'[Maintainer] = j => FreshPlan(Maintainer, j)'
      BY <1>1, <1>2, <3>1 DEF StartInv, FreshPlan
    <3> HIDE DEF Going
    <3>10. Going => StartInv(j)'
      BY <3>2, <3>8, <3>9 DEF Going, StartInv
    <3> QED BY <3>7, <3>10
  <2> QED BY <2>4, <2>5, <2>6
<1>8. ASSUME \/ \E b \in Batch : Cleanup(b)
             \/ \E w \in Workers : Work(w) \/ WorkerFault(w)
             \/ UNCHANGED vars
      PROVE  UNCHANGED <<progress, planned, planVars>>
  BY <1>8 DEF Cleanup, Work, WorkerFault, WorkerPoll, WorkerAssign, WorkerMaterialize,
     WorkerComplete, WorkerFail, WorkerError, WorkerCrash, vars
<1>9. CASE \/ \E b \in Batch : Cleanup(b)
           \/ \E w \in Workers : Work(w) \/ WorkerFault(w)
           \/ UNCHANGED vars
  BY <1>3, <1>8, <1>9
<1>10. CASE \E i \in Jobs : GetNextBatch(i) \/ Acknowledge(i) \/ FinishJob(i)
  BY <1>4, <1>10
<1>11. CASE \/ \E i \in Jobs : \/ StartJob(i) \/ StartWindow(i) \/ MaintainJob(i)
                               \/ \E b \in Batch : OppChoose(i, b)
            \/ OppCreate
  BY <1>5, <1>6, <1>11
<1>12. CASE \E p \in Planners : SchedulePass(p)
  BY <1>7, <1>12
<1> QED BY <1>9, <1>10, <1>11, <1>12 DEF Next

-----------------------------------------------------------------------------
(* The batches ahead of one in a window have smaller numbers, each its own. *)

LEMMA AheadBound ==
    ASSUME TypeInv, NEW j \in Jobs, OwnedBy(planned[j], j), NEW b \in Upcoming(j)
    PROVE  b.index \in Nat /\ Ahead(j, b) \in Nat /\ Ahead(j, b) <= b.index
<1> DEFINE S == {c \in Upcoming(j) : c.index < b.index}
           T == 0..(b.index - 1)
           f == [c \in S |-> c.index]
<1>1. ASSUME NEW c \in Upcoming(j)
      PROVE  /\ c \in Batch /\ c.epoch = progress[j].epoch /\ c.owner = Owner(j)
             /\ c.index \in Nat
  <2>1. c \in planned[j] /\ c.epoch = progress[j].epoch /\ c.owner = Owner(j)
    BY DEF Upcoming, OwnedBy
  <2>2. c \in Batch
    BY <2>1 DEF TypeInv, TypeOK
  <2>3. c.index \in 0..(BatchesPerEpoch - 1)
    BY <2>2 DEF Batch
  <2> QED BY <2>1, <2>2, <2>3, DepthAssumption
<1>2. b.index \in Nat
  BY <1>1
<1>3. f \in [S -> T]
  <2>1. \A c \in S : c.index \in Nat /\ c.index < b.index
    BY <1>1
  <2> HIDE DEF S
  <2> QED BY <1>2, <2>1
<1>4. ASSUME NEW c \in S, NEW d \in S, f[c] = f[d]
      PROVE  c = d
  <2>1. c \in Upcoming(j) /\ d \in Upcoming(j) /\ c.index = d.index
    BY <1>4
  <2>2. c \in Batch /\ d \in Batch /\ c.epoch = d.epoch /\ c.owner = d.owner
    BY <1>1, <2>1
  <2> QED BY <2>1, <2>2 DEF Batch
<1>5. f \in Injection(S, T)
  BY <1>3, <1>4 DEF Injection, IsInjective
<1>6. IsFiniteSet(T) /\ Cardinality(T) = b.index
  <2>1. 0 \in Int /\ b.index - 1 \in Int
    BY <1>2
  <2>2. /\ IsFiniteSet(T)
        /\ Cardinality(T) = IF 0 > b.index - 1 THEN 0 ELSE b.index - 1 - 0 + 1
    BY <2>1, FS_Interval
  <2> HIDE DEF T
  <2> QED BY <1>2, <2>2
<1>7. IsFiniteSet(S) /\ Cardinality(S) <= b.index
  <2> HIDE DEF S, T, f
  <2> QED BY <1>5, <1>6, FS_Injection
<1>8. Cardinality(S) \in Nat
  <2> HIDE DEF S
  <2> QED BY <1>7, FS_CardinalityType
<1> QED BY <1>2, <1>7, <1>8 DEF Ahead

-----------------------------------------------------------------------------
(* No task is replaced *)

\* The faults of a worker that lose what it did.
NothingLost == FaultKinds \cap {"materialize", "reply"} = {}

\* Every batch has one job that could ask for it.
NothingShared == ReuseEnabled => \A j, k \in Jobs : j = k

\* A task that is still stored although its batch was given another one.
Replaced(t) == Stored(t) /\ taskOf[tasks[t].batch] # t

\* No task fails, and a worker only reports the failure of one that was removed.
SoundTasks ==
    /\ \A t \in TaskId : tasks[t].status # "failed" /\ ~Replaced(t)
    /\ \A w \in Workers :
        /\ wkPc[w] \in {"assign", "run", "complete"} => tasks[wkTask[w]].status # "unused"
        /\ wkPc[w] = "fail" => tasks[wkTask[w]].status = "gone"

\* A batch is ready by its own task.
ReadyInv == \A b \in handles : taskOf[b] # NoTask /\ tasks[taskOf[b]].status = "completed"

\* What the prefetch chose lies beyond the target depth, and is nobody's work.
SpareInv ==
    planPc[Maintainer] = "opp" =>
        \A b \in planTodo[Maintainer] :
            /\ b.index >= TargetDepth
            /\ taskOf[b] # NoTask
                  => tasks[taskOf[b]].status \notin {"pending", "running", "cancelled"}

ReworkInv == /\ CauseInv /\ SoundTasks /\ ReadyInv /\ SpareInv
             /\ \A j \in Jobs : StartInv(j)

\* The batch of a job that could be given a second task is out of question: a
\* cancelled task was of a closed job, which is the only one.
LEMMA OnlyOneJob ==
    ASSUME CauseInv, NothingShared, NEW b \in Batch, taskOf[b] # NoTask,
           tasks[taskOf[b]].status = "cancelled",
           NEW k \in Jobs, b.owner = Owner(k) \/ ReuseEnabled
    PROVE  ~Active(k)
<1> DEFINE t == taskOf[b]
<1>1. t \in TaskId /\ tasks[t].batch = b
  BY MappedTask DEF CauseInv, TaskInv
<1>2. tasks[t].job \in Jobs /\ Finished(tasks[t].job)
  BY <1>1 DEF CauseInv, CancelInv
<1>3. b.owner = Owner(tasks[t].job)
  BY <1>1, <1>2 DEF CauseInv, OwnerInv, TaskOwner
<1>4. k = tasks[t].job
  BY <1>2, <1>3 DEF NothingShared, Owner
<1> QED BY <1>2, <1>4 DEF Active, Finished

\* Nobody creates a task for a batch that has one.
LEMMA ReadyIsKept ==
    ASSUME ReworkInv, NothingShared, NEW b \in Batch, NEW k \in Jobs \cup {NoJob}, Creates(b, k)
    PROVE  taskOf[b] = NoTask /\ b \notin handles
<1>0. TypeInv /\ CauseInv
  BY DEF ReworkInv, CauseInv, TaskInv
<1>1. ASSUME taskOf[b] # NoTask
      PROVE  FALSE
  <2>1. taskOf[b] \in TaskId /\ tasks[taskOf[b]].status # "failed"
    BY <1>0, <1>1, MappedTask DEF ReworkInv, SoundTasks
  <2>2. tasks[taskOf[b]].status = "cancelled"
    BY <1>1, <2>1 DEF Creates, MayCreate
  <2>3. k = NoJob \/ (k \in Jobs /\ Active(k) /\ b.owner = Owner(k))
    BY DEF Creates
  <2>4. CASE k \in Jobs /\ Active(k) /\ b.owner = Owner(k)
    BY <1>0, <1>1, <2>2, <2>4, OnlyOneJob
  <2>5. CASE ~(k \in Jobs /\ Active(k) /\ b.owner = Owner(k))
    <3>1. planPc[Maintainer] = "opp" /\ b \in planTodo[Maintainer]
      BY <2>5 DEF Creates
    <3> QED BY <1>1, <2>2, <3>1 DEF ReworkInv, SpareInv
  <2> QED BY <2>4, <2>5
<1>2. b \notin handles
  BY <1>1 DEF ReworkInv, ReadyInv
<1> QED BY <1>1, <1>2

LEMMA CreateRework ==
    ASSUME ReworkInv, NothingShared,
           NEW b \in Batch, NEW k \in Jobs \cup {NoJob}, Creates(b, k)
    PROVE  SoundTasks' /\ ReadyInv'
<1> DEFINE new == [batch |-> b, job |-> k, status |-> "pending"]
<1>0. /\ TypeInv
      /\ tasks \in [TaskId -> TaskRecord \cup {UnusedTask}]
      /\ taskOf \in [Batch -> TaskId \cup {NoTask}] /\ handles \subseteq Batch
  BY DEF ReworkInv, CauseInv, TaskInv, TypeInv, TypeOK
<1>1. PICK t \in TaskId : /\ tasks[t].status = "unused"
                          /\ tasks' = [tasks EXCEPT ![t] = new]
                          /\ taskOf' = [taskOf EXCEPT ![b] = t]
  BY DEF Creates
<1>2. /\ tasks'[t] = new /\ taskOf'[b] = t
      /\ \A u \in TaskId \ {t} : tasks'[u] = tasks[u]
      /\ \A c \in Batch \ {b} : taskOf'[c] = taskOf[c]
  BY <1>0, <1>1
<1>3. handles' = handles /\ b \notin handles /\ taskOf[b] = NoTask /\ UNCHANGED wkVars
  BY ReadyIsKept DEF Creates
<1>4. \A u \in TaskId : tasks'[u].status # "failed"
  BY <1>2 DEF ReworkInv, SoundTasks
<1>5. ASSUME NEW u \in TaskId, Replaced(u)'
      PROVE  FALSE
  <2>1. u # t
    BY <1>2, <1>5 DEF Replaced
  <2>2. tasks'[u] = tasks[u] /\ Stored(u) /\ tasks[u].batch \in Batch
    BY <1>0, <1>2, <1>5, <2>1 DEF Replaced, Stored, TaskRecord, UnusedTask
  <2>3. taskOf[tasks[u].batch] = u
    BY <2>2 DEF ReworkInv, SoundTasks, Replaced
  <2>4. tasks[u].batch # b
    BY <1>3, <2>3 DEF NoTask, TaskId
  <2> QED BY <1>2, <1>5, <2>2, <2>3, <2>4 DEF Replaced
<1>6. SoundTasks'
  <2>1. \A u \in TaskId : tasks[u].status # "unused" => tasks'[u] = tasks[u]
    BY <1>1, <1>2
  <2>2. \A w \in Workers : wkPc[w] \in {"assign", "run", "complete", "fail"} => wkTask[w] \in TaskId
    BY <1>0 DEF TypeInv, WorkerTypes
  <2>3. \A w \in Workers :
           /\ wkPc'[w] \in {"assign", "run", "complete"} => tasks'[wkTask'[w]].status # "unused"
           /\ wkPc'[w] = "fail" => tasks'[wkTask'[w]].status = "gone"
    BY <1>3, <2>1, <2>2 DEF ReworkInv, SoundTasks, wkVars
  <2> QED BY <1>4, <1>5, <2>3 DEF SoundTasks
<1>7. ReadyInv'
  <2> SUFFICES ASSUME NEW c \in handles, c # b
               PROVE  taskOf'[c] # NoTask /\ tasks'[taskOf'[c]].status = "completed"
    BY <1>3 DEF ReadyInv
  <2>1. taskOf[c] # NoTask /\ tasks[taskOf[c]].status = "completed"
    BY DEF ReworkInv, ReadyInv
  <2>2. taskOf[c] \in TaskId \ {t}
    BY <1>0, <1>1, <2>1
  <2> QED BY <1>0, <1>2, <2>1, <2>2
<1> QED BY <1>6, <1>7

LEMMA CleanupRework ==
    ASSUME ReworkInv, NEW b \in Batch, Cleanup(b)
    PROVE  SoundTasks' /\ ReadyInv'
<1>0. /\ TypeInv
      /\ tasks \in [TaskId -> TaskRecord \cup {UnusedTask}]
      /\ taskOf \in [Batch -> TaskId \cup {NoTask}] /\ handles \subseteq Batch
  BY DEF ReworkInv, CauseInv, TaskInv, TypeInv, TypeOK
<1>1. /\ taskOf' = [taskOf EXCEPT ![b] = NoTask] /\ handles' = handles \ {b}
      /\ tasks' = IF taskOf[b] = NoTask THEN tasks
                  ELSE [tasks EXCEPT ![taskOf[b]].status = "gone"]
      /\ UNCHANGED wkVars
  BY DEF Cleanup, RemovePayload, Unmap
<1>2. /\ \A u \in TaskId : /\ u # taskOf[b] => tasks'[u] = tasks[u]
                           /\ u = taskOf[b] => tasks'[u].status = "gone"
      /\ \A c \in Batch \ {b} : taskOf'[c] = taskOf[c]
  BY <1>0, <1>1 DEF TaskRecord, UnusedTask, NoTask, TaskId
<1>3. \A u \in TaskId : tasks'[u].status \in {tasks[u].status, "gone"}
  BY <1>2
<1>4. ASSUME NEW u \in TaskId, Replaced(u)'
      PROVE  FALSE
  <2>1. u # taskOf[b] /\ tasks'[u] = tasks[u]
    BY <1>2, <1>4 DEF Replaced, Stored
  <2>2. Stored(u) /\ tasks[u].batch \in Batch
    BY <1>0, <1>4, <2>1 DEF Replaced, Stored, TaskRecord, UnusedTask
  <2>3. taskOf[tasks[u].batch] = u
    BY <2>2 DEF ReworkInv, SoundTasks, Replaced
  <2> QED BY <1>2, <1>4, <2>1, <2>2, <2>3 DEF Replaced
<1>5. SoundTasks'
  <2>1. \A w \in Workers : wkPc[w] \in {"assign", "run", "complete", "fail"} => wkTask[w] \in TaskId
    BY <1>0 DEF TypeInv, WorkerTypes
  <2>2. \A u \in TaskId : tasks'[u].status # "failed"
    BY <1>3 DEF ReworkInv, SoundTasks
  <2>3. \A w \in Workers :
           /\ wkPc'[w] \in {"assign", "run", "complete"} => tasks'[wkTask'[w]].status # "unused"
           /\ wkPc'[w] = "fail" => tasks'[wkTask'[w]].status = "gone"
    BY <1>1, <1>3, <2>1 DEF ReworkInv, SoundTasks, wkVars
  <2> QED BY <1>4, <2>2, <2>3 DEF SoundTasks
<1>6. ReadyInv'
  <2> SUFFICES ASSUME NEW c \in handles, c # b
               PROVE  taskOf'[c] # NoTask /\ tasks'[taskOf'[c]].status = "completed"
    BY <1>1 DEF ReadyInv
  <2>1. taskOf[c] # NoTask /\ tasks[taskOf[c]].status = "completed"
    BY DEF ReworkInv, ReadyInv
  <2>2. c \in Batch /\ taskOf'[c] = taskOf[c]
    BY <1>0, <1>2
  <2>3. taskOf[c] \in TaskId /\ tasks[taskOf[c]].batch = c
    BY <1>0, <2>1, <2>2, MappedTask
  <2>4. taskOf[c] # taskOf[b]
    BY <1>0, <2>1, <2>3, MappedTask
  <2> QED BY <1>2, <2>1, <2>2, <2>3, <2>4
<1> QED BY <1>5, <1>6

\* Closing a job cancels its pending tasks and leaves the others alone.
LEMMA FinishTasks ==
    ASSUME TypeInv, NEW j \in Jobs, FinStatus(j), NEW u \in TaskId
    PROVE  /\ tasks'[u].batch = tasks[u].batch
           /\ tasks'[u].status = IF tasks[u].job = j /\ tasks[u].status = "pending"
                                 THEN "cancelled" ELSE tasks[u].status
<1>1. tasks'[u] = IF tasks[u].job = j /\ tasks[u].status = "pending"
                  THEN [tasks[u] EXCEPT !.status = "cancelled"] ELSE tasks[u]
  BY DEF FinStatus, Cancelled
<1>2. tasks[u] \in TaskRecord \cup {UnusedTask}
  BY DEF TypeInv, TypeOK
<1> QED BY <1>1, <1>2 DEF TaskRecord, UnusedTask

LEMMA FinishRework ==
    ASSUME ReworkInv, NEW j \in Jobs, FinStatus(j)
    PROVE  SoundTasks' /\ ReadyInv'
<1>0. TypeInv /\ taskOf \in [Batch -> TaskId \cup {NoTask}] /\ handles \subseteq Batch
  BY DEF ReworkInv, CauseInv, TaskInv, TypeInv, TypeOK
<1>1. UNCHANGED <<taskOf, handles, wkVars>>
  BY DEF FinStatus
<1>2. \A u \in TaskId : /\ tasks'[u].batch = tasks[u].batch
                        /\ \/ tasks'[u].status = tasks[u].status
                           \/ tasks[u].status = "pending" /\ tasks'[u].status = "cancelled"
  BY <1>0, FinishTasks
<1>3. SoundTasks'
  <2>1. \A w \in Workers : wkPc[w] \in {"assign", "run", "complete", "fail"} => wkTask[w] \in TaskId
    BY <1>0 DEF TypeInv, WorkerTypes
  <2>2. \A u \in TaskId : tasks'[u].status # "failed"
    BY <1>2 DEF ReworkInv, SoundTasks
  <2>3. \A u \in TaskId : Replaced(u)' => Replaced(u)
    BY <1>1, <1>2 DEF Replaced, Stored
  <2>4. \A w \in Workers :
           /\ wkPc'[w] \in {"assign", "run", "complete"} => tasks'[wkTask'[w]].status # "unused"
           /\ wkPc'[w] = "fail" => tasks'[wkTask'[w]].status = "gone"
    BY <1>1, <1>2, <2>1 DEF ReworkInv, SoundTasks, wkVars
  <2> QED BY <2>2, <2>3, <2>4 DEF ReworkInv, SoundTasks
<1>4. ReadyInv'
  <2>1. \A b \in handles : taskOf[b] \in TaskId
    BY <1>0 DEF ReworkInv, ReadyInv
  <2> QED BY <1>1, <1>2, <2>1 DEF ReworkInv, ReadyInv
<1> QED BY <1>3, <1>4

\* What a worker does to the tasks: it starts a pending one, and it completes a
\* stored one and makes its batch ready.
LEMMA WorkTasks ==
    ASSUME ReworkInv, NothingLost, NEW w \in Workers, Work(w) \/ WorkerFault(w)
    PROVE  /\ UNCHANGED taskOf
           /\ \/ UNCHANGED <<tasks, handles>>
              \/ /\ wkTask[w] \in TaskId /\ tasks[wkTask[w]].status = "pending"
                 /\ tasks' = [tasks EXCEPT ![wkTask[w]].status = "running"] /\ handles' = handles
              \/ /\ wkTask[w] \in TaskId /\ Stored(wkTask[w])
                 /\ tasks' = [tasks EXCEPT ![wkTask[w]].status = "completed"]
                 /\ handles' = handles \cup {tasks[wkTask[w]].batch}
           /\ \/ wkPc'[w] \in {"idle", "dead"}
              \/ /\ wkPc'[w] \in {"assign", "run", "complete", "fail"}
                 /\ wkTask'[w] \in TaskId /\ tasks[wkTask'[w]].status # "unused"
                 /\ wkPc'[w] = "fail" => tasks[wkTask[w]].status = "gone" /\ wkTask'[w] = wkTask[w]
           /\ \A v \in Workers \ {w} : UNCHANGED <<wkPc[v], wkTask[v]>>
<1> DEFINE t == wkTask[w]
<1>0. /\ TypeInv
      /\ wkPc \in [Workers -> {"idle", "assign", "run", "complete", "fail", "dead"}]
      /\ wkTask \in [Workers -> TaskId \cup {NoTask}]
      /\ \A v \in Workers : wkPc[v] \in {"assign", "run", "complete", "fail"} => wkTask[v] \in TaskId
  BY DEF ReworkInv, CauseInv, TaskInv, TypeInv, TypeOK, WorkerTypes
<1>1. ~Fault("materialize") /\ ~Fault("reply")
  BY DEF NothingLost, Fault
<1>2. /\ \A v \in Workers \ {w} : UNCHANGED <<wkPc[v], wkTask[v]>>
      /\ UNCHANGED taskOf
  BY <1>0, <1>1 DEF Work, WorkerFault, WorkerPoll, WorkerAssign, WorkerMaterialize, WorkerComplete,
     WorkerFail, WorkerError, WorkerCrash, WkGoto, WkIdle, storeVars
<1>3. /\ \/ UNCHANGED <<tasks, handles>>
         \/ /\ t \in TaskId /\ tasks[t].status = "pending"
            /\ tasks' = [tasks EXCEPT ![t].status = "running"] /\ handles' = handles
         \/ /\ t \in TaskId /\ Stored(t)
            /\ tasks' = [tasks EXCEPT ![t].status = "completed"]
            /\ handles' = handles \cup {tasks[t].batch}
      /\ \/ wkPc'[w] \in {"idle", "dead"}
         \/ /\ wkPc'[w] \in {"assign", "run", "complete", "fail"}
            /\ wkTask'[w] \in TaskId /\ tasks[wkTask'[w]].status # "unused"
            /\ wkPc'[w] = "fail" => tasks[t].status = "gone" /\ wkTask'[w] = t
  <2>1. CASE WorkerPoll(w)
    BY <1>0, <2>1 DEF WorkerPoll, PendingTasks, WkGoto, storeVars
  <2>2. CASE WorkerAssign(w)
    <3>1. t \in TaskId /\ tasks[t].status # "unused"
      BY <1>0, <2>2 DEF WorkerAssign, ReworkInv, SoundTasks
    <3>2. tasks[t].status = "pending" => tasks[t].job = NoJob \/ Active(tasks[t].job)
      BY <3>1 DEF ReworkInv, CauseInv, TaskInv, PendingTaskHasActiveJob, PendingTasks
    <3>3. /\ handles' = handles
          /\ \/ tasks' = tasks
             \/ tasks[t].status = "pending" /\ tasks' = [tasks EXCEPT ![t].status = "running"]
      BY <2>2, <3>2 DEF WorkerAssign
    <3>4. wkPc'[w] = "idle" \/ (wkPc'[w] = "run" /\ wkTask' = wkTask)
      BY <1>0, <2>2 DEF WorkerAssign, WkGoto, WkIdle
    <3> QED BY <3>1, <3>3, <3>4
  <2>3. CASE WorkerMaterialize(w)
    <3>1. t \in TaskId /\ tasks[t].status # "unused"
      BY <1>0, <2>3 DEF WorkerMaterialize, ReworkInv, SoundTasks
    <3>2. UNCHANGED <<tasks, handles, wkTask>>
      BY <2>3 DEF WorkerMaterialize, storeVars
    <3>3. wkPc'[w] = IF Stored(t) THEN "complete" ELSE "fail"
      BY <1>0, <2>3 DEF WorkerMaterialize, WkGoto
    <3> QED BY <3>1, <3>2, <3>3 DEF Stored
  <2>4. CASE WorkerComplete(w)
    <3>1. t \in TaskId /\ tasks[t].status # "unused"
      BY <1>0, <2>4 DEF WorkerComplete, ReworkInv, SoundTasks
    <3>2. CASE Stored(t)
      <4>1. /\ tasks' = [tasks EXCEPT ![t].status = "completed"]
            /\ handles' = handles \cup {tasks[t].batch}
            /\ wkPc'[w] = "idle"
        BY <1>0, <1>1, <2>4, <3>2 DEF WorkerComplete, WkIdle, WkGoto
      <4> QED BY <3>1, <3>2, <4>1
    <3>3. CASE ~Stored(t)
      <4>1. UNCHANGED <<tasks, handles, wkTask>> /\ wkPc'[w] = "fail"
        BY <1>0, <2>4, <3>3 DEF WorkerComplete, WkGoto
      <4> QED BY <3>1, <3>3, <4>1 DEF Stored
    <3> QED BY <3>2, <3>3
  <2>5. CASE WorkerFail(w)
    <3>1. ~Stored(t)
      BY <1>0, <2>5 DEF WorkerFail, ReworkInv, SoundTasks, Stored
    <3> QED BY <1>0, <2>5, <3>1 DEF WorkerFail, WkIdle, WkGoto
  <2>6. CASE WorkerCrash(w)
    BY <1>0, <2>6 DEF WorkerCrash, WkGoto, storeVars
  <2>7. ~WorkerError(w)
    BY <1>1 DEF WorkerError
  <2> QED BY <2>1, <2>2, <2>3, <2>4, <2>5, <2>6, <2>7 DEF Work, WorkerFault
<1> QED BY <1>2, <1>3

LEMMA WorkStatus ==
    ASSUME ReworkInv, NothingLost, NEW w \in Workers, Work(w) \/ WorkerFault(w), NEW u \in TaskId
    PROVE  /\ tasks'[u].batch = tasks[u].batch
           /\ \/ tasks'[u].status = tasks[u].status
              \/ tasks[u].status = "pending" /\ tasks'[u].status = "running"
              \/ Stored(u) /\ tasks'[u].status = "completed"
<1>1. tasks \in [TaskId -> TaskRecord \cup {UnusedTask}]
  BY DEF ReworkInv, CauseInv, TaskInv, TypeInv, TypeOK
<1>2. tasks[u] \in TaskRecord \cup {UnusedTask}
  BY <1>1
<1>3. \/ tasks' = tasks
      \/ \E v \in TaskId : /\ tasks[v].status = "pending"
                           /\ tasks' = [tasks EXCEPT ![v].status = "running"]
      \/ \E v \in TaskId : Stored(v) /\ tasks' = [tasks EXCEPT ![v].status = "completed"]
  BY WorkTasks
<1>4. ASSUME NEW v \in TaskId, NEW s, tasks' = [tasks EXCEPT ![v].status = s]
      PROVE  /\ tasks'[u].batch = tasks[u].batch
             /\ tasks'[u].status = IF u = v THEN s ELSE tasks[u].status
  BY <1>1, <1>2, <1>4 DEF TaskRecord, UnusedTask
<1> QED BY <1>3, <1>4

LEMMA WorkRework ==
    ASSUME ReworkInv, NothingLost, NEW w \in Workers, Work(w) \/ WorkerFault(w)
    PROVE  SoundTasks' /\ ReadyInv'
<1> DEFINE t == wkTask[w]
<1>0. /\ TypeInv
      /\ tasks \in [TaskId -> TaskRecord \cup {UnusedTask}]
      /\ taskOf \in [Batch -> TaskId \cup {NoTask}] /\ handles \subseteq Batch
      /\ \A v \in Workers : wkPc[v] \in {"assign", "run", "complete", "fail"} => wkTask[v] \in TaskId
  BY DEF ReworkInv, CauseInv, TaskInv, TypeInv, TypeOK, WorkerTypes
<1>1. \A u \in TaskId : /\ tasks'[u].batch = tasks[u].batch
                        /\ \/ tasks'[u].status = tasks[u].status
                           \/ tasks[u].status = "pending" /\ tasks'[u].status = "running"
                           \/ Stored(u) /\ tasks'[u].status = "completed"
  BY WorkStatus
<1>2. taskOf' = taskOf /\ \A v \in Workers \ {w} : UNCHANGED <<wkPc[v], wkTask[v]>>
  BY WorkTasks
<1>3. SoundTasks'
  <2>1. \A u \in TaskId : tasks'[u].status # "failed"
    BY <1>1 DEF ReworkInv, SoundTasks
  <2>2. \A u \in TaskId : Replaced(u)' => Replaced(u)
    BY <1>1, <1>2 DEF Replaced, Stored
  <2>3. ASSUME NEW v \in Workers \ {w}
        PROVE  /\ wkPc'[v] \in {"assign", "run", "complete"} => tasks'[wkTask'[v]].status # "unused"
               /\ wkPc'[v] = "fail" => tasks'[wkTask'[v]].status = "gone"
    BY <1>0, <1>1, <1>2 DEF ReworkInv, SoundTasks, Stored
  <2>4. /\ wkPc'[w] \in {"assign", "run", "complete"} => tasks'[wkTask'[w]].status # "unused"
        /\ wkPc'[w] = "fail" => tasks'[wkTask'[w]].status = "gone"
    BY <1>1, WorkTasks DEF Stored
  <2> QED BY <2>1, <2>2, <2>3, <2>4 DEF ReworkInv, SoundTasks
<1>4. ReadyInv'
  <2> SUFFICES ASSUME NEW c \in handles'
               PROVE  taskOf[c] # NoTask /\ tasks'[taskOf[c]].status = "completed"
    BY <1>2 DEF ReadyInv
  <2>1. CASE c \in handles
    <3>1. taskOf[c] \in TaskId /\ tasks[taskOf[c]].status = "completed"
      BY <1>0, <2>1 DEF ReworkInv, ReadyInv
    <3> QED BY <1>1, <3>1 DEF NoTask, TaskId
  <2>2. CASE c \notin handles
    <3>1. /\ t \in TaskId /\ Stored(t) /\ c = tasks[t].batch
          /\ tasks' = [tasks EXCEPT ![t].status = "completed"]
      <4>1. \/ handles' = handles
            \/ /\ t \in TaskId /\ Stored(t) /\ handles' = handles \cup {tasks[t].batch}
               /\ tasks' = [tasks EXCEPT ![t].status = "completed"]
        BY WorkTasks
      <4> QED BY <2>2, <4>1
    <3>2. taskOf[c] = t
      BY <3>1 DEF ReworkInv, SoundTasks, Replaced
    <3>3. tasks[t] \in TaskRecord \cup {UnusedTask}
      BY <1>0, <3>1
    <3>4. tasks'[t].status = "completed"
      BY <1>0, <3>1, <3>3 DEF TaskRecord, UnusedTask
    <3> QED BY <3>1, <3>2, <3>4 DEF NoTask, TaskId
  <2> QED BY <2>1, <2>2
<1> QED BY <1>3, <1>4

\* Only the prefetch decides to prefetch.
LEMMA PrefetchDecided ==
    ASSUME TypeInv, [Next]_vars, planPc'[Maintainer] = "opp", planPc[Maintainer] # "opp"
    PROVE  \E j \in Jobs : \E b \in Batch : OppChoose(j, b)
<1> USE DEF storeVars, planVars
<1> DEFINE Calm == {"idle", "force", "check", "index", "store", "read", "each", "create", "returned"}
<1>0. /\ planPc \in [Planners -> Calm \cup {"opp"}]
      /\ Planners = Jobs \cup {Maintainer}
  BY DEF TypeInv, TypeOK, Planners
<1>1. ASSUME ~\E j \in Jobs : \E b \in Batch : OppChoose(j, b)
      PROVE  planPc' = planPc \/ \E p \in Planners : \E c \in Calm : planPc' = [planPc EXCEPT ![p] = c]
  <2>1. ASSUME NEW p \in Planners, SchedulePass(p)
        PROVE  planPc' = planPc \/ \E c \in Calm : planPc' = [planPc EXCEPT ![p] = c]
    BY <2>1 DEF SchedulePass, PlanCheck, PlanIndex, PlanStore, PlanRead, PlanEnd, PlanSkip,
       PlanEach, PlanCreate, PlanDone, PlanGoto
  <2>2. ASSUME NEW j \in Jobs, GetNextBatch(j) \/ Acknowledge(j) \/ FinishJob(j)
        PROVE  planPc' = planPc
    BY <2>2 DEF GetNextBatch, GnbStart, GnbLookup, GnbRefresh, GnbWindow, GnbPending,
       GnbFailed, GnbReady, GnbPin, GnbIssue, GnbEpoch, GnbClear, GnbReply, Acknowledge,
       FinishJob, FinStatus, FinPins, FinWindow
  <2>3. ASSUME NEW w \in Workers, Work(w) \/ WorkerFault(w)
        PROVE  planPc' = planPc
    BY <2>3 DEF Work, WorkerFault, WorkerPoll, WorkerAssign, WorkerMaterialize,
       WorkerComplete, WorkerFail, WorkerError, WorkerCrash
  <2>4. ASSUME NEW j \in Jobs, StartJob(j) \/ StartWindow(j) \/ MaintainJob(j)
        PROVE  \E p \in Planners : \E c \in {"force", "check"} : planPc' = [planPc EXCEPT ![p] = c]
    BY <1>0, <2>4 DEF StartJob, StartWindow, MaintainJob, PlanGoto
  <2>5. ASSUME OppCreate
        PROVE  \E p \in Planners : planPc' = [planPc EXCEPT ![p] = "idle"]
    BY <1>0, <2>5 DEF OppCreate, PlanGoto
  <2>6. /\ \A b \in Batch : Cleanup(b) => planPc' = planPc
        /\ UNCHANGED vars => planPc' = planPc
    BY DEF Cleanup, vars
  <2> QED BY <1>1, <2>1, <2>2, <2>3, <2>4, <2>5, <2>6 DEF Next
<1> QED BY <1>0, <1>1

\* Once it decided, its choice stands.
LEMMA ChoiceStands ==
    ASSUME TypeInv, [Next]_vars, planPc'[Maintainer] = "opp", planPc[Maintainer] = "opp"
    PROVE  planTodo'[Maintainer] = planTodo[Maintainer]
<1> USE DEF storeVars, planVars, PlanGoto
<1>0. /\ planPc \in [Planners -> {"idle", "force", "check", "index", "store",
                                  "read", "each", "create", "opp", "returned"}]
      /\ planTodo \in [Planners -> SUBSET Batch] /\ Maintainer \in Planners
  BY DEF TypeInv, TypeOK, Planners
<1>1. ASSUME NEW p \in Planners, SchedulePass(p)
      PROVE  planTodo'[Maintainer] = planTodo[Maintainer]
  <2>1. p # Maintainer
    BY <1>1 DEF SchedulePass, PlanCheck, PlanIndex, PlanStore, PlanRead, PlanEnd, PlanSkip,
       PlanEach, PlanCreate
  <2> QED BY <1>0, <1>1, <2>1 DEF SchedulePass, PlanCheck, PlanIndex, PlanStore, PlanRead, PlanEnd,
     PlanSkip, PlanEach, PlanCreate, PlanDone
<1>2. ASSUME NEW j \in Jobs, GetNextBatch(j) \/ Acknowledge(j) \/ FinishJob(j)
      PROVE  planTodo' = planTodo
  BY <1>2 DEF GetNextBatch, GnbStart, GnbLookup, GnbRefresh, GnbWindow, GnbPending,
     GnbFailed, GnbReady, GnbPin, GnbIssue, GnbEpoch, GnbClear, GnbReply, Acknowledge,
     FinishJob, FinStatus, FinPins, FinWindow
<1>3. ASSUME NEW w \in Workers, Work(w) \/ WorkerFault(w)
      PROVE  planTodo' = planTodo
  BY <1>3 DEF Work, WorkerFault, WorkerPoll, WorkerAssign, WorkerMaterialize,
     WorkerComplete, WorkerFail, WorkerError, WorkerCrash
<1>4. ASSUME NEW j \in Jobs, \/ StartJob(j) \/ StartWindow(j) \/ MaintainJob(j)
                             \/ \E b \in Batch : OppChoose(j, b)
      PROVE  planTodo' = planTodo
  BY <1>4 DEF StartJob, StartWindow, MaintainJob, OppChoose
<1>5. ~OppCreate
  BY <1>0 DEF OppCreate
<1>6. ASSUME (\E b \in Batch : Cleanup(b)) \/ UNCHANGED vars
      PROVE  planTodo' = planTodo
  BY <1>6 DEF Cleanup, vars
<1> QED BY <1>1, <1>2, <1>3, <1>4, <1>5, <1>6 DEF Next

LEMMA SpareStep ==
    ASSUME ReworkInv, NothingLost, NothingShared, [Next]_vars
    PROVE  SpareInv'
<1>0. /\ TypeInv /\ CauseInv /\ OwnerInv
      /\ tasks \in [TaskId -> TaskRecord \cup {UnusedTask}]
      /\ taskOf \in [Batch -> TaskId \cup {NoTask}]
      /\ planTodo \in [Planners -> SUBSET Batch] /\ Maintainer \in Planners
      /\ planSeen \in [Planners -> 0..TargetDepth] /\ Jobs \subseteq Planners
  BY DEF ReworkInv, CauseInv, TaskInv, TypeInv, TypeOK, Planners
<1>1. CASE planPc'[Maintainer] # "opp"
  BY <1>1 DEF SpareInv
<1>2. CASE planPc'[Maintainer] = "opp" /\ planPc[Maintainer] # "opp"
  <2>1. PICK j \in Jobs, b \in Batch : OppChoose(j, b)
    BY <1>0, <1>2, PrefetchDecided
  <2>2. planTodo'[Maintainer] = {b} /\ UNCHANGED <<tasks, taskOf>>
    BY <1>0, <2>1 DEF OppChoose, storeVars
  <2>3. b.index >= TargetDepth
    <3>1. b \in Upcoming(j) /\ Ahead(j, b) >= TargetDepth /\ OwnedBy(planned[j], j)
      BY <1>0, <2>1 DEF OppChoose, OwnerInv
    <3>2. b.index \in Nat /\ Ahead(j, b) \in Nat /\ Ahead(j, b) <= b.index
      BY <1>0, <3>1, AheadBound
    <3> QED BY <3>1, <3>2, DepthAssumption
  <2>4. taskOf[b] # NoTask => tasks[taskOf[b]].status \notin {"pending", "running"}
    BY <2>1 DEF OppChoose, IsInProgress
  <2>5. taskOf[b] # NoTask => tasks[taskOf[b]].status # "cancelled"
    BY <1>0, <2>1, OnlyOneJob DEF OppChoose
  <2> QED BY <2>2, <2>3, <2>4, <2>5 DEF SpareInv
<1>3. CASE planPc'[Maintainer] = "opp" /\ planPc[Maintainer] = "opp"
  <2> SUFFICES ASSUME NEW b \in planTodo[Maintainer]
               PROVE  /\ b.index >= TargetDepth
                      /\ taskOf'[b] # NoTask
                            => tasks'[taskOf'[b]].status \notin {"pending", "running", "cancelled"}
    <3>1. planTodo'[Maintainer] = planTodo[Maintainer]
      BY <1>0, <1>3, ChoiceStands
    <3> QED BY <3>1 DEF SpareInv
  <2>0. b \in Batch
    BY <1>0
  <2>1. /\ b.index >= TargetDepth
        /\ taskOf[b] # NoTask => tasks[taskOf[b]].status \notin {"pending", "running", "cancelled"}
    BY <1>3 DEF ReworkInv, SpareInv
  <2>2. taskOf[b] # NoTask => taskOf[b] \in TaskId /\ tasks[taskOf[b]].status # "unused"
    BY <1>0, <2>0, MappedTask DEF TaskRecord
  <2>3. ASSUME NEW c \in Batch, NEW k \in Jobs \cup {NoJob}, Creates(c, k)
        PROVE  taskOf'[b] = taskOf[b] /\ (taskOf[b] # NoTask => tasks'[taskOf[b]] = tasks[taskOf[b]])
    <3>1. k \in Jobs /\ planPc[k] = "create" /\ IsFirst(c, planTodo[k])
      BY <1>3, <2>3 DEF Creates
    <3>2. planSeen[k] \in Nat /\ planSeen[k] <= TargetDepth
      BY <1>0, <3>1, DepthAssumption
    <3>3. planSeen[k] > 0 /\ IsFirst(c, FirstFrom(k, planSeen[k] - 1))
      BY <3>1 DEF ReworkInv, StartInv
    <3>4. c.index = planSeen[k] - 1
      <4>1. planSeen[k] - 1 \in Nat
        BY <3>2, <3>3
      <4> QED BY <3>1, <3>3, <4>1, FirstOfWindow
    <3>5. c # b
      BY <2>1, <3>2, <3>4, DepthAssumption
    <3> QED BY <1>0, <2>0, <2>2, <2>3, <3>5 DEF Creates
  <2>4. ASSUME NEW c \in Batch, Cleanup(c)
        PROVE  FALSE
    BY <1>3, <2>4 DEF Cleanup
  <2>5. ASSUME NEW j \in Jobs, FinStatus(j)
        PROVE  taskOf' = taskOf /\ (taskOf[b] # NoTask => tasks'[taskOf[b]].status = tasks[taskOf[b]].status)
    BY <1>0, <2>1, <2>2, <2>5, FinishTasks DEF FinStatus
  <2>6. ASSUME NEW w \in Workers, Work(w) \/ WorkerFault(w)
        PROVE  /\ taskOf' = taskOf
               /\ taskOf[b] # NoTask
                     => tasks'[taskOf[b]].status \in {tasks[taskOf[b]].status, "completed"}
    BY <2>1, <2>2, <2>6, WorkTasks, WorkStatus
  <2> QED BY <1>0, <2>1, <2>3, <2>4, <2>5, <2>6, TaskKinds
<1> QED BY <1>1, <1>2, <1>3

LEMMA ReworkStep == NothingLost /\ NothingShared /\ ReworkInv /\ [Next]_vars => ReworkInv'
<1> SUFFICES ASSUME NothingLost, NothingShared, ReworkInv, [Next]_vars
             PROVE  ReworkInv'
  OBVIOUS
<1>1. CauseInv' /\ SpareInv'
  BY CauseStep, SpareStep DEF ReworkInv
<1>2. \A j \in Jobs : StartInv(j)'
  BY StartStep DEF ReworkInv, CauseInv
<1>3. ASSUME UNCHANGED <<tasks, taskOf, handles, expiring, activeTasks, wkVars>>
      PROVE  SoundTasks' /\ ReadyInv'
  BY <1>3 DEF ReworkInv, SoundTasks, ReadyInv, Replaced, Stored, wkVars
<1>4. \/ SoundTasks' /\ ReadyInv'
      \/ UNCHANGED <<tasks, taskOf, handles, expiring, activeTasks, wkVars>>
  BY TaskKinds, CreateRework, CleanupRework, FinishRework, WorkRework DEF ReworkInv, CauseInv, TaskInv
<1>5. SoundTasks' /\ ReadyInv'
  BY <1>3, <1>4
<1> QED BY <1>1, <1>2, <1>5 DEF ReworkInv

LEMMA ReworkInit == Init => ReworkInv
<1> SUFFICES ASSUME Init PROVE ReworkInv
  OBVIOUS
<1>1. SoundTasks /\ ReadyInv /\ SpareInv
  BY DEF Init, SoundTasks, ReadyInv, SpareInv, Replaced, Stored, UnusedTask, Planners
<1>2. ASSUME NEW j \in Jobs
      PROVE  StartInv(j)
  <2>1. j \in Planners /\ Maintainer \in Planners /\ j # Maintainer /\ j # NoJob
    BY NameAssumption DEF Planners
  <2> QED BY <2>1 DEF Init, StartInv, FreshPlan
<1> QED BY <1>1, <1>2, InitCause DEF ReworkInv

\* Without a lost result, and unless jobs share batches, a batch that is ready
\* gets no second task, although a scheduler looks at it and creates a task in two
\* steps, jobs close in between, and payloads expire.
THEOREM NothingIsDoneTwice == NothingLost /\ NothingShared => (Spec => NoRework)
<1> SUFFICES ASSUME NothingLost, NothingShared PROVE Spec => NoRework
  OBVIOUS
<1>1. ReworkInv /\ [Next]_vars => ReworkInv'
  BY ReworkStep
<1>2. ReworkInv /\ [Next]_vars
        => [\A b \in Batch : b \in handles => taskOf'[b] \in {taskOf[b], NoTask}]_vars
  <2> SUFFICES ASSUME ReworkInv, [Next]_vars, NEW b \in Batch, b \in handles
               PROVE  taskOf'[b] \in {taskOf[b], NoTask}
    OBVIOUS
  <2>0. TypeInv /\ OwnerInv /\ taskOf \in [Batch -> TaskId \cup {NoTask}]
    BY DEF ReworkInv, CauseInv, TaskInv, TypeInv, TypeOK
  <2>1. ASSUME NEW c \in Batch, NEW k \in Jobs \cup {NoJob}, Creates(c, k)
        PROVE  taskOf'[b] = taskOf[b]
    <3>1. c # b
      BY <2>1, ReadyIsKept
    <3> QED BY <2>0, <2>1, <3>1 DEF Creates
  <2>2. ASSUME NEW c \in Batch, Cleanup(c)
        PROVE  taskOf'[b] \in {taskOf[b], NoTask}
    BY <2>0, <2>2 DEF Cleanup, RemovePayload, Unmap
  <2>3. ASSUME NEW w \in Workers, Work(w) \/ WorkerFault(w)
        PROVE  taskOf' = taskOf
    BY <2>3 DEF Work, WorkerFault, WorkerPoll, WorkerAssign, WorkerMaterialize, WorkerComplete,
       WorkerFail, WorkerError, WorkerCrash, storeVars
  <2>4. ASSUME NEW j \in Jobs, FinStatus(j)
        PROVE  taskOf' = taskOf
    BY <2>4 DEF FinStatus
  <2> QED BY <2>0, <2>1, <2>2, <2>3, <2>4, TaskKinds
<1> QED BY <1>1, <1>2, ReworkInit, PTL DEF Spec, NoRework

-----------------------------------------------------------------------------
(* Idle workers.  A task is on a worker's list exactly as long as it runs  *)
(* there; the list is wrong for good when a poll or a report is lost, or   *)
(* when a running task is removed.                                         *)

\* No task runs whose payload could expire.
NothingRemoved == "expiry" \in FaultKinds => NothingLost /\ NothingShared

\* What is on the list of a worker runs, and is what the worker does.
ListInv ==
    \A w \in Workers :
        /\ \A t \in activeTasks[w] : tasks[t].status = "running"
        /\ wkPc[w] # "dead" => activeTasks[w] \subseteq {wkTask[w]}
        /\ wkPc[w] \in {"idle", "assign"} => activeTasks[w] = {}

IdleInv ==
    /\ CauseInv /\ ListInv
    /\ expiring \subseteq handles
    /\ NothingLost /\ NothingShared => ReworkInv

LEMMA ExpiringStep ==
    ASSUME TypeInv, OwnerInv, expiring \subseteq handles, [Next]_vars
    PROVE  expiring' \subseteq handles'
<1>1. ASSUME NEW b \in Batch, NEW k, Creates(b, k)
      PROVE  UNCHANGED <<expiring, handles>>
  BY <1>1 DEF Creates
<1>2. ASSUME NEW b \in Batch, Cleanup(b)
      PROVE  expiring' \subseteq handles'
  BY <1>2 DEF Cleanup, RemovePayload
<1>3. ASSUME NEW j \in Jobs, FinStatus(j)
      PROVE  UNCHANGED <<expiring, handles>>
  BY <1>3 DEF FinStatus
<1>4. ASSUME NEW w \in Workers, Work(w) \/ WorkerFault(w)
      PROVE  expiring' \subseteq handles'
  BY <1>4 DEF Work, WorkerFault, WorkerPoll, WorkerAssign, WorkerMaterialize, WorkerComplete,
     WorkerFail, WorkerError, WorkerCrash, storeVars
<1> QED BY <1>1, <1>2, <1>3, <1>4, TaskKinds

\* A step that ends no running task.
LEMMA ListKept ==
    ASSUME ListInv, UNCHANGED <<activeTasks, wkVars>>,
           \A w \in Workers : \A t \in activeTasks[w] : tasks'[t].status = tasks[t].status
    PROVE  ListInv'
BY DEF ListInv, wkVars

LEMMA CleanupList ==
    ASSUME IdleInv, NothingRemoved, [Next]_vars, NEW b \in Batch, Cleanup(b)
    PROVE  ListInv'
<1>0. /\ TypeInv /\ tasks \in [TaskId -> TaskRecord \cup {UnusedTask}]
      /\ activeTasks \in [Workers -> SUBSET TaskId]
  BY DEF IdleInv, CauseInv, TaskInv, TypeInv, TypeOK
<1>1. ReworkInv
  BY DEF Cleanup, Fault, NothingRemoved, IdleInv
<1>2. b \in handles /\ UNCHANGED <<activeTasks, wkVars>>
  BY DEF Cleanup, IdleInv
<1>3. CASE taskOf[b] = NoTask
  BY <1>2, <1>3, ListKept DEF Cleanup, RemovePayload, IdleInv
<1>4. CASE taskOf[b] # NoTask
  <2> DEFINE u == taskOf[b]
  <2>1. u \in TaskId /\ tasks[u] \in TaskRecord
    BY <1>0, <1>4, MappedTask
  <2>2. tasks[u].status = "completed"
    BY <1>1, <1>2 DEF ReworkInv, ReadyInv
  <2>3. tasks' = [tasks EXCEPT ![u].status = "gone"]
    BY <1>4 DEF Cleanup, RemovePayload
  <2>4. \A w \in Workers : \A t \in activeTasks[w] : tasks'[t] = tasks[t]
    BY <1>0, <2>1, <2>2, <2>3 DEF IdleInv, ListInv
  <2> QED BY <1>2, <2>4, ListKept DEF IdleInv
<1> QED BY <1>3, <1>4

LEMMA WorkList ==
    ASSUME IdleInv, FaultKinds \cap {"poll", "report"} = {}, [Next]_vars,
           NEW w \in Workers, Work(w) \/ WorkerFault(w)
    PROVE  ListInv'
<1> DEFINE t == wkTask[w]
<1>0. /\ TypeInv /\ ListInv
      /\ tasks \in [TaskId -> TaskRecord \cup {UnusedTask}]
      /\ activeTasks \in [Workers -> SUBSET TaskId]
      /\ wkPc \in [Workers -> {"idle", "assign", "run", "complete", "fail", "dead"}]
      /\ wkTask \in [Workers -> TaskId \cup {NoTask}]
      /\ wkPc[w] \in {"assign", "run", "complete", "fail"} => t \in TaskId
  BY DEF IdleInv, CauseInv, TaskInv, TypeInv, TypeOK, WorkerTypes
<1>1. ~Fault("poll") /\ ~Fault("report")
  BY DEF Fault
<1>2. \A v \in Workers \ {w} : UNCHANGED <<wkPc[v], wkTask[v]>>
  BY <1>0 DEF Work, WorkerFault, WorkerPoll, WorkerAssign, WorkerMaterialize, WorkerComplete,
     WorkerFail, WorkerError, WorkerCrash, WkGoto, WkIdle, storeVars
<1>3. ASSUME UNCHANGED <<tasks, activeTasks>>,
             \/ wkPc'[w] = "dead"
             \/ activeTasks[w] = {}
             \/ wkTask'[w] = t /\ wkPc[w] # "dead" /\ wkPc'[w] \in {"run", "complete", "fail"}
      PROVE  ListInv'
  BY <1>0, <1>2, <1>3 DEF ListInv
<1>4. CASE WorkerPoll(w)
  BY <1>0, <1>3, <1>4 DEF WorkerPoll, storeVars, ListInv
<1>5. CASE WorkerAssign(w)
  <2>1. wkPc[w] = "assign" /\ t \in TaskId /\ activeTasks[w] = {}
    BY <1>0, <1>5 DEF WorkerAssign, ListInv
  <2>2. CASE UNCHANGED <<tasks, activeTasks>>
    BY <1>3, <2>1, <2>2
  <2>3. CASE ~UNCHANGED <<tasks, activeTasks>>
    <3>1. tasks[t].status = "pending" /\ (tasks[t].job = NoJob \/ Active(tasks[t].job))
      BY <1>5, <2>1, <2>3
         DEF WorkerAssign, IdleInv, CauseInv, TaskInv, PendingTaskHasActiveJob, PendingTasks
    <3>2. /\ tasks' = [tasks EXCEPT ![t].status = "running"]
          /\ activeTasks' = [activeTasks EXCEPT ![w] = activeTasks[w] \cup {t}]
      BY <1>5, <3>1 DEF WorkerAssign
    <3>3. wkPc'[w] = "run" /\ wkTask' = wkTask
      BY <1>0, <1>1, <1>5, <3>1 DEF WorkerAssign, WkGoto
    <3>4. activeTasks'[w] = {t} /\ \A v \in Workers \ {w} : activeTasks'[v] = activeTasks[v]
      BY <1>0, <2>1, <3>2
    <3>5. /\ tasks'[t].status = "running"
          /\ \A u \in TaskId : u # t => tasks'[u] = tasks[u]
      BY <1>0, <2>1, <3>2 DEF TaskRecord, UnusedTask
    <3>6. \A v \in Workers \ {w} : \A u \in activeTasks'[v] : tasks'[u].status = "running"
      BY <1>0, <3>1, <3>4, <3>5 DEF ListInv
    <3> QED BY <1>0, <1>2, <3>3, <3>4, <3>5, <3>6 DEF ListInv
  <2> QED BY <2>2, <2>3
<1>6. CASE WorkerMaterialize(w) \/ WorkerError(w)
  BY <1>0, <1>3, <1>6 DEF WorkerMaterialize, WorkerError, WkGoto, storeVars
<1>7. CASE WorkerCrash(w)
  BY <1>0, <1>3, <1>7 DEF WorkerCrash, WkGoto, storeVars
<1>8. ASSUME t \in TaskId, activeTasks[w] \subseteq {t},
             \E s : tasks' = [tasks EXCEPT ![t].status = s], Release(t)
      PROVE  ListInv'
  <2>1. activeTasks'[w] = {} /\ \A v \in Workers : activeTasks'[v] = activeTasks[v] \ {t}
    BY <1>0, <1>8 DEF Release
  <2>2. \A u \in TaskId : u # t => tasks'[u] = tasks[u]
    BY <1>0, <1>8
  <2>3. \A v \in Workers : \A u \in activeTasks'[v] : tasks'[u].status = "running"
    BY <1>0, <2>1, <2>2 DEF ListInv
  <2> QED BY <1>0, <1>2, <2>1, <2>3 DEF ListInv
<1>9. CASE WorkerComplete(w)
  <2>1. wkPc[w] = "complete" /\ t \in TaskId /\ activeTasks[w] \subseteq {t}
    BY <1>0, <1>9 DEF WorkerComplete, ListInv
  <2>2. CASE Stored(t)
    BY <1>8, <1>9, <2>1, <2>2 DEF WorkerComplete
  <2>3. CASE ~Stored(t)
    BY <1>0, <1>3, <1>9, <2>1, <2>3 DEF WorkerComplete, WkGoto
  <2> QED BY <2>2, <2>3
<1>10. CASE WorkerFail(w)
  <2>1. wkPc[w] = "fail" /\ t \in TaskId /\ activeTasks[w] \subseteq {t}
    BY <1>0, <1>10 DEF WorkerFail, ListInv
  <2>2. CASE Stored(t)
    BY <1>1, <1>8, <1>10, <2>1, <2>2 DEF WorkerFail
  <2>3. CASE ~Stored(t)
    <3>1. activeTasks[w] = {}
      BY <1>0, <2>1, <2>3 DEF ListInv, Stored
    <3>2. UNCHANGED <<tasks, activeTasks>>
      BY <1>10, <2>3 DEF WorkerFail
    <3> QED BY <1>3, <3>1, <3>2
  <2> QED BY <2>2, <2>3
<1> QED BY <1>4, <1>5, <1>6, <1>7, <1>9, <1>10 DEF Work, WorkerFault

LEMMA IdleStep ==
    NothingRemoved /\ FaultKinds \cap {"poll", "report"} = {} /\ IdleInv /\ [Next]_vars => IdleInv'
<1> SUFFICES ASSUME NothingRemoved, FaultKinds \cap {"poll", "report"} = {}, IdleInv, [Next]_vars
             PROVE  IdleInv'
  OBVIOUS
<1>0. /\ TypeInv /\ OwnerInv
      /\ tasks \in [TaskId -> TaskRecord \cup {UnusedTask}]
      /\ activeTasks \in [Workers -> SUBSET TaskId]
  BY DEF IdleInv, CauseInv, TaskInv, TypeInv, TypeOK
<1>1. /\ CauseInv' /\ expiring' \subseteq handles'
      /\ NothingLost /\ NothingShared => ReworkInv'
  BY <1>0, CauseStep, ExpiringStep, ReworkStep DEF IdleInv
<1>2. ASSUME NEW b \in Batch, NEW k \in Jobs \cup {NoJob}, Creates(b, k)
      PROVE  ListInv'
  <2>1. UNCHANGED <<activeTasks, wkVars>>
    BY <1>2 DEF Creates
  <2>2. \A u \in TaskId : tasks[u].status = "running" => tasks'[u] = tasks[u]
    BY <1>0, <1>2 DEF Creates
  <2> QED BY <1>0, <2>1, <2>2, ListKept DEF IdleInv, ListInv
<1>3. ASSUME NEW j \in Jobs, FinStatus(j)
      PROVE  ListInv'
  <2>1. UNCHANGED <<activeTasks, wkVars>>
    BY <1>3 DEF FinStatus
  <2>2. \A u \in TaskId : tasks[u].status = "running" => tasks'[u] = tasks[u]
    BY <1>3 DEF FinStatus, Cancelled
  <2> QED BY <1>0, <2>1, <2>2, ListKept DEF IdleInv, ListInv
<1>4. ASSUME UNCHANGED <<tasks, taskOf, handles, expiring, activeTasks, wkVars>>
      PROVE  ListInv'
  BY <1>4, ListKept DEF IdleInv
<1>5. ListInv'
  BY <1>0, <1>2, <1>3, <1>4, CleanupList, WorkList, TaskKinds
<1> QED BY <1>1, <1>5 DEF IdleInv

\* When no answer to a poll and no report is lost, a worker that asks for work has
\* nothing on its list, however many workers run the same task, whatever is
\* cancelled or fails under them and whoever dies; also when payloads expire, if
\* jobs share no batches and no result is lost.
THEOREM IdleWorkersAreCounted ==
    NothingRemoved /\ FaultKinds \cap {"poll", "report"} = {} => (Spec => []IdleWorkerCounted)
<1> SUFFICES ASSUME NothingRemoved, FaultKinds \cap {"poll", "report"} = {}
             PROVE  Spec => []IdleWorkerCounted
  OBVIOUS
<1>1. Init => IdleInv
  <2> SUFFICES ASSUME Init PROVE IdleInv
    OBVIOUS
  <2>1. CauseInv /\ ReworkInv
    BY InitCause, ReworkInit
  <2>2. ListInv /\ expiring \subseteq handles
    BY DEF Init, ListInv
  <2> QED BY <2>1, <2>2 DEF IdleInv
<1>2. IdleInv /\ [Next]_vars => IdleInv'
  BY IdleStep
<1>3. IdleInv => IdleWorkerCounted
  BY DEF IdleInv, ListInv, IdleWorkerCounted
<1> QED BY <1>1, <1>2, <1>3, PTL DEF Spec
=============================================================================
