---------------------------- MODULE Coordinator ----------------------------
(***************************************************************************)
(* The BatchFlow coordinator: the control plane of store.py, the request   *)
(* handlers and the maintainer of service.py, the task and handle rules of *)
(* scheduler.py.                                                           *)
(*                                                                         *)
(* Every method of CoordinatorStore runs under one lock, so one store call *)
(* is one atomic step.  A request handler is a sequence of store calls and *)
(* is not atomic: each handler is a small thread with a program counter,   *)
(* and the steps of all the threads interleave.                            *)
(*                                                                         *)
(*   gnb    one GetNextBatch call per job      (service.get_next_batch)    *)
(*   fin    one FinishJob call per job         (service.finish_job)        *)
(*   plan   the maintainer thread, and one StartJob call per job, both of  *)
(*          which run service._schedule_job_batches                        *)
(*   wk     one poll/materialize/report loop per data worker               *)
(***************************************************************************)
EXTENDS Integers, Sequences, FiniteSets

CONSTANTS
    Jobs,             \* job ids
    Workers,          \* registered data workers
    Maintainer,       \* the coordinator's background thread
    NoJob,            \* the job_id "" of a task or of a shared batch
    NoBatch,          \* "no batch in hand"
    BatchesPerEpoch,  \* Dataset.batches_per_epoch
    Lookahead,        \* Job.lookahead_batches: the planned window's length
    TargetDepth,      \* scheduler.target_lookahead_depth
    ExtendedDepth,    \* target depth * extended_lookahead_multiplier
    ReuseEnabled,     \* scheduler.config.reuse_enabled
    Opportunistic,    \* scheduler.config.opportunistic_prefetch_enabled
    MaxEpoch,         \* bound: a client asks for this many epochs
    MaxTasks,         \* bound: tasks ever created
    FaultKinds,       \* the faults a run allows
    MaxFaults,        \* bound: faults per behaviour
    Closers           \* the jobs whose client may close early

ASSUME DepthAssumption ==
    /\ BatchesPerEpoch \in Nat \ {0}
    /\ Lookahead \in Nat \ {0}
    /\ TargetDepth \in 1..Lookahead
    /\ ExtendedDepth \in Nat

ASSUME BoundAssumption ==
    /\ MaxEpoch \in Nat
    /\ MaxTasks \in Nat
    /\ MaxFaults \in Nat

ASSUME NameAssumption ==
    /\ NoJob \notin Jobs
    /\ Maintainer \notin Jobs
    /\ ReuseEnabled \in BOOLEAN
    /\ Opportunistic \in BOOLEAN
    /\ Closers \subseteq Jobs

\* With reuse a batch id is shared by all the jobs, without it each job has its own.
Owner(j) == IF ReuseEnabled THEN NoJob ELSE j

Batch == [epoch : 0..MaxEpoch, index : 0..(BatchesPerEpoch - 1),
          owner : Jobs \cup {NoJob}]

ASSUME NoBatchAssumption == NoBatch \notin Batch

TaskId == 1..MaxTasks
NoTask == 0

Planners == Jobs \cup {Maintainer}

VARIABLES
    jobStatus,   \* "absent", "active" or "finished"
    progress,    \* JobProgress: the epoch and the next batch index of a job
    planned,     \* _planned_batches: the planned window of a job
    tasks,       \* _tasks; "unused" ids are not created yet, "gone" ones removed
    taskOf,      \* _tasks_by_batch_id
    entry,       \* _payload_entries: status of a batch's payload entry
    expiring,    \* the entries whose expires_at_ms is set
    handles,     \* _batch_handles: the batches with a READY handle
    pins,        \* _payload_pins
    activeTasks, \* Worker.active_task_ids
    gnbPc, gnbBatch,                                 \* GetNextBatch
    received, acked,                                 \* what the client has
    finPc,                                           \* FinishJob
    planPc, planJob, planEpoch, planTodo, planSeen,  \* schedulers
    wkPc, wkTask,                                    \* data workers
    faults

storeVars == <<jobStatus, progress, planned, tasks, taskOf, entry, expiring,
               handles, pins, activeTasks>>
gnbVars == <<gnbPc, gnbBatch>>
clientVars == <<received, acked>>
planVars == <<planPc, planJob, planEpoch, planTodo, planSeen>>
wkVars == <<wkPc, wkTask>>
vars == <<storeVars, gnbVars, clientVars, finPc, planVars, wkVars, faults>>

UnusedTask == [batch |-> NoBatch, job |-> NoJob, status |-> "unused"]

Init ==
    /\ jobStatus = [j \in Jobs |-> "absent"]
    /\ progress = [j \in Jobs |-> [epoch |-> 0, next |-> 0]]
    /\ planned = [j \in Jobs |-> {}]
    /\ tasks = [t \in TaskId |-> UnusedTask]
    /\ taskOf = [b \in Batch |-> NoTask]
    /\ entry = [b \in Batch |-> "absent"]
    /\ expiring = {}
    /\ handles = {}
    /\ pins = {}
    /\ activeTasks = [w \in Workers |-> {}]
    /\ gnbPc = [j \in Jobs |-> "off"]
    /\ gnbBatch = [j \in Jobs |-> NoBatch]
    /\ received = [j \in Jobs |-> <<>>]
    /\ acked = [j \in Jobs |-> 0]
    /\ finPc = [j \in Jobs |-> "idle"]
    /\ planPc = [p \in Planners |-> "idle"]
    /\ planJob = [p \in Planners |-> IF p = Maintainer THEN NoJob ELSE p]
    /\ planEpoch = [p \in Planners |-> 0]
    /\ planTodo = [p \in Planners |-> {}]
    /\ planSeen = [p \in Planners |-> 0]
    /\ wkPc = [w \in Workers |-> "idle"]
    /\ wkTask = [w \in Workers |-> NoTask]
    /\ faults = 0

-----------------------------------------------------------------------------
(* Store queries *)

Active(j) == jobStatus[j] = "active"

BatchAt(j, e, i) == [epoch |-> e, index |-> i, owner |-> Owner(j)]

\* Mutant: the window runs past the end of the epoch.
WindowPastEpoch(j, e, i) == {BatchAt(j, e, k) : k \in i..(i + Lookahead - 1)}

\* The window get_batches_for_job plans for j from index i of epoch e.
WindowFrom(j, e, i) ==
    {BatchAt(j, e, k) : k \in {n \in 0..(BatchesPerEpoch - 1) :
                                   i <= n /\ n < i + Lookahead}}

NextBatch(j) == BatchAt(j, progress[j].epoch, progress[j].next)

\* The planned batches of j that it has not been issued yet.
Upcoming(j) == {b \in planned[j] : /\ b.epoch = progress[j].epoch
                                   /\ b.index >= progress[j].next}

\* How many upcoming batches of j come before b.
Ahead(j, b) == Cardinality({c \in Upcoming(j) : c.index < b.index})

IsReady(b) == b \in handles

IsInProgress(b) == /\ taskOf[b] # NoTask
                   /\ tasks[taskOf[b]].status \in {"pending", "running"}

Pinned(b) == \E j \in Jobs : <<b, j>> \in pins

\* ids that are keys of _tasks
Stored(t) == tasks[t].status \notin {"unused", "gone"}

PendingTasks == {t \in TaskId : tasks[t].status = "pending"}

Fault(kind) == /\ kind \in FaultKinds
               /\ faults < MaxFaults
               /\ faults' = faults + 1

-----------------------------------------------------------------------------
(* Store updates that several handlers share *)

\* Mutants: the existing task, a completed task, the job's status are not looked at.
MayCreateAgain(b, job) == job = NoJob \/ Active(job)
MayCreateCompleted(b, job) ==
    /\ job = NoJob \/ Active(job)
    /\ taskOf[b] # NoTask => tasks[taskOf[b]].status \notin {"pending", "running"}
MayCreateClosed(b, job) ==
    taskOf[b] # NoTask => tasks[taskOf[b]].status \in {"failed", "cancelled"}

\* create_task: refused for an inactive job, answered with the batch's task
\* when that one is pending, running or completed.
MayCreate(b, job) ==
    /\ job = NoJob \/ Active(job)
    /\ taskOf[b] # NoTask => tasks[taskOf[b]].status \in {"failed", "cancelled"}

CreateTask(b, job) ==
    IF MayCreate(b, job)
    THEN \E t \in TaskId :
            /\ tasks[t].status = "unused"
            /\ \A s \in 1..(t - 1) : tasks[s].status # "unused"
            /\ tasks' = [tasks EXCEPT ![t] =
                            [batch |-> b, job |-> job, status |-> "pending"]]
            /\ taskOf' = [taskOf EXCEPT ![b] = t]
            /\ entry' = [entry EXCEPT ![b] =
                            IF @ \in {"absent", "failed"} THEN "pending" ELSE @]
    ELSE UNCHANGED <<tasks, taskOf, entry>>

\* Mutant: a pinned payload may go.
RemovablePinned(b) == entry[b] # "absent"

\* Nothing is removed while the payload is pinned or when it has no entry.
Removable(b) == ~Pinned(b) /\ entry[b] # "absent"

\* Mutant: the batch id keeps its mapping to the removed task.
KeepMapping(b) == taskOf' = taskOf

Unmap(b) == taskOf' = [taskOf EXCEPT ![b] = NoTask]

\* remove_payload: the entry goes with the handle, the mapping of the batch id
\* and the task it maps to.
RemovePayload(b) ==
    /\ Removable(b)
    /\ entry' = [entry EXCEPT ![b] = "absent"]
    /\ expiring' = expiring \ {b}
    /\ handles' = handles \ {b}
    /\ Unmap(b)
    /\ tasks' = IF taskOf[b] = NoTask THEN tasks
                ELSE [tasks EXCEPT ![taskOf[b]].status = "gone"]

\* Mutant: the worker keeps the task.
ReleaseNothing(t) == activeTasks' = activeTasks

\* The task leaves active_task_ids of the worker it was assigned to.
Release(t) == activeTasks' = [w \in Workers |-> activeTasks[w] \ {t}]

\* Mutant: the pin stays.
UnpinNothing(b, j) == pins' = pins

\* unpin_payload
Unpin(b, j) == pins' = pins \ {<<b, j>>}

-----------------------------------------------------------------------------
(* GetNextBatch(j), called by one thread of the client again and again *)

GnbGoto(j, pc) == gnbPc' = [gnbPc EXCEPT ![j] = pc]

\* The client calls; an inactive job is answered "done" and the client stops.
GnbStart(j) ==
    /\ gnbPc[j] = "idle"
    /\ progress[j].epoch < MaxEpoch          \* bound
    /\ GnbGoto(j, IF Active(j) THEN "lookup" ELSE "done")
    /\ UNCHANGED <<storeVars, gnbBatch, clientVars, finPc, planVars, wkVars, faults>>

\* Mutant: a batch that is not planned is given up without a refresh.
GiveUp(pc) == "none"

\* Where a call goes whose batch is not in the window.
MissedAt(pc) == IF pc = "lookup" THEN "refresh" ELSE "none"

\* get_batch, before the forced refresh ("lookup") and after it ("retry").
GnbLookup(j) ==
    /\ gnbPc[j] \in {"lookup", "retry"}
    /\ IF NextBatch(j) \in planned[j]
       THEN /\ gnbBatch' = [gnbBatch EXCEPT ![j] = NextBatch(j)]
            /\ GnbGoto(j, "resolve")
       ELSE /\ GnbGoto(j, MissedAt(gnbPc[j]))
            /\ UNCHANGED gnbBatch
    /\ UNCHANGED <<storeVars, clientVars, finPc, planVars, wkVars, faults>>

\* _refresh_job_window(force=True) reads the status first ...
GnbRefresh(j) ==
    /\ gnbPc[j] = "refresh"
    /\ IF Active(j)
       THEN /\ GnbGoto(j, "window")
            /\ UNCHANGED planned
       ELSE /\ planned' = [planned EXCEPT ![j] = {}]
            /\ GnbGoto(j, IF gnbBatch[j] = NoBatch THEN "retry" ELSE "reply")
    /\ UNCHANGED <<jobStatus, progress, tasks, taskOf, entry, expiring, handles,
                   pins, activeTasks, gnbBatch, clientVars, finPc, planVars,
                   wkVars, faults>>

\* ... and installs the new window; only this thread moves the job's progress.
GnbWindow(j) ==
    /\ gnbPc[j] = "window"
    /\ planned' = [planned EXCEPT ![j] =
                      WindowFrom(j, progress[j].epoch, progress[j].next)]
    /\ GnbGoto(j, IF gnbBatch[j] = NoBatch THEN "retry" ELSE "reply")
    /\ UNCHANGED <<jobStatus, progress, tasks, taskOf, entry, expiring, handles,
                   pins, activeTasks, gnbBatch, clientVars, finPc, planVars,
                   wkVars, faults>>

\* The batch's task or its payload entry says that preparing it failed.
Unavailable(b) ==
    \/ taskOf[b] # NoTask /\ tasks[taskOf[b]].status \in {"failed", "cancelled"}
    \/ entry[b] = "failed"

\* resolve_batch_handle: the answer is PENDING, the client will poll again ...
GnbPending(j) ==
    LET b == gnbBatch[j] IN
    /\ gnbPc[j] = "resolve"
    /\ ~IsReady(b)
    /\ IsInProgress(b) \/ ~Unavailable(b)
    /\ GnbGoto(j, "idle")
    /\ gnbBatch' = [gnbBatch EXCEPT ![j] = NoBatch]
    /\ UNCHANGED <<storeVars, clientVars, finPc, planVars, wkVars, faults>>

\* ... FAILED, which the client raises as an error ...
GnbFailed(j) ==
    LET b == gnbBatch[j] IN
    /\ gnbPc[j] = "resolve"
    /\ ~IsReady(b)
    /\ ~IsInProgress(b)
    /\ Unavailable(b)
    /\ GnbGoto(j, "failed")
    /\ UNCHANGED <<storeVars, gnbBatch, clientVars, finPc, planVars, wkVars, faults>>

\* ... or READY, which takes more steps to hand out.
GnbReady(j) ==
    /\ gnbPc[j] = "resolve"
    /\ IsReady(gnbBatch[j])
    /\ GnbGoto(j, "pin")
    /\ UNCHANGED <<storeVars, gnbBatch, clientVars, finPc, planVars, wkVars, faults>>

\* touch_payload and pin_payload, which does nothing for an unknown key.
GnbPin(j) ==
    /\ gnbPc[j] = "pin"
    /\ pins' = IF entry[gnbBatch[j]] = "absent" THEN pins
               ELSE pins \cup {<<gnbBatch[j], j>>}
    /\ GnbGoto(j, "issue")
    /\ UNCHANGED <<jobStatus, progress, planned, tasks, taskOf, entry, expiring,
                   handles, activeTasks, gnbBatch, clientVars, finPc, planVars,
                   wkVars, faults>>

\* issue_batch_to_job advances an active job that still waits for this batch.
GnbIssue(j) ==
    LET b == gnbBatch[j] IN
    /\ gnbPc[j] = "issue"
    /\ IF Active(j) /\ progress[j] = [epoch |-> b.epoch, next |-> b.index]
       THEN progress' = [progress EXCEPT ![j].next = b.index + 1]
       ELSE UNCHANGED progress
    /\ GnbGoto(j, "epoch")
    /\ UNCHANGED <<jobStatus, planned, tasks, taskOf, entry, expiring, handles,
                   pins, activeTasks, gnbBatch, clientVars, finPc, planVars,
                   wkVars, faults>>

\* Mutant: the epoch ends one batch early.
EpochOverEarly(j) == progress[j].next + 1 >= BatchesPerEpoch

EpochOver(j) == progress[j].next >= BatchesPerEpoch

\* After the last batch of an epoch: advance_to_next_epoch ...
GnbEpoch(j) ==
    /\ gnbPc[j] = "epoch"
    /\ IF EpochOver(j)
       THEN /\ progress' = [progress EXCEPT ![j] =
                               [epoch |-> @.epoch + 1, next |-> 0]]
            /\ GnbGoto(j, "clear")
       ELSE /\ GnbGoto(j, "refresh")
            /\ UNCHANGED progress
    /\ UNCHANGED <<jobStatus, planned, tasks, taskOf, entry, expiring, handles,
                   pins, activeTasks, gnbBatch, clientVars, finPc, planVars,
                   wkVars, faults>>

\* ... and an empty window, before the window is refreshed in any case.
GnbClear(j) ==
    /\ gnbPc[j] = "clear"
    /\ planned' = [planned EXCEPT ![j] = {}]
    /\ GnbGoto(j, "refresh")
    /\ UNCHANGED <<jobStatus, progress, tasks, taskOf, entry, expiring, handles,
                   pins, activeTasks, gnbBatch, clientVars, finPc, planVars,
                   wkVars, faults>>

\* The READY handle reaches the client, which fetches the payload.
GnbReply(j) ==
    /\ gnbPc[j] = "reply"
    /\ received' = [received EXCEPT ![j] = Append(@, gnbBatch[j])]
    /\ gnbBatch' = [gnbBatch EXCEPT ![j] = NoBatch]
    /\ GnbGoto(j, "idle")
    /\ UNCHANGED <<storeVars, acked, finPc, planVars, wkVars, faults>>

GetNextBatch(j) ==
    \/ GnbStart(j) \/ GnbLookup(j) \/ GnbRefresh(j) \/ GnbWindow(j)
    \/ GnbPending(j) \/ GnbFailed(j) \/ GnbReady(j) \/ GnbPin(j)
    \/ GnbIssue(j) \/ GnbEpoch(j) \/ GnbClear(j) \/ GnbReply(j)

\* acknowledge_batch, once the client's fetch is over and in the order the
\* batches came: it is refused for an epoch the job has not reached, records the
\* batch (a record nothing reads) and drops the pin.
Acknowledge(j) ==
    /\ acked[j] < Len(received[j])
    /\ LET b == received[j][acked[j] + 1] IN
       /\ b.epoch <= progress[j].epoch
       /\ Unpin(b, j)
    /\ acked' = [acked EXCEPT ![j] = @ + 1]
    /\ UNCHANGED <<jobStatus, progress, planned, tasks, taskOf, entry, expiring,
                   handles, activeTasks, gnbVars, received, finPc, planVars,
                   wkVars, faults>>

-----------------------------------------------------------------------------
(* FinishJob(j) *)

\* A client closes its job after the last batch, after an error, or early.
ClientCloses(j) ==
    \/ j \in Closers
    \/ gnbPc[j] \in {"failed", "done", "none"}
    \/ /\ gnbPc[j] = "idle"
       /\ progress[j].epoch = MaxEpoch
       /\ acked[j] = Len(received[j])

\* Mutant: the pending tasks of every job.
CancelledAnybody(j, t) == tasks[t].status = "pending"

Cancelled(j, t) == tasks[t].job = j /\ tasks[t].status = "pending"

\* store.finish_job: the status and the job's pending tasks, in one step ...
FinStatus(j) ==
    /\ finPc[j] = "idle"
    /\ Active(j)
    /\ ClientCloses(j)
    /\ jobStatus' = [jobStatus EXCEPT ![j] = "finished"]
    /\ tasks' = [t \in TaskId |->
                    IF Cancelled(j, t)
                    THEN [tasks[t] EXCEPT !.status = "cancelled"]
                    ELSE tasks[t]]
    /\ finPc' = [finPc EXCEPT ![j] = "pins"]
    /\ UNCHANGED <<progress, planned, taskOf, entry, expiring, handles, pins,
                   activeTasks, gnbVars, clientVars, planVars, wkVars, faults>>

\* ... then release_job_payload_pins ...
FinPins(j) ==
    /\ finPc[j] = "pins"
    /\ pins' = {p \in pins : p[2] # j}
    /\ finPc' = [finPc EXCEPT ![j] = "window"]
    /\ UNCHANGED <<jobStatus, progress, planned, tasks, taskOf, entry, expiring,
                   handles, activeTasks, gnbVars, clientVars, planVars, wkVars,
                   faults>>

\* ... then the window.
FinWindow(j) ==
    /\ finPc[j] = "window"
    /\ planned' = [planned EXCEPT ![j] = {}]
    /\ finPc' = [finPc EXCEPT ![j] = "done"]
    /\ UNCHANGED <<jobStatus, progress, tasks, taskOf, entry, expiring, handles,
                   pins, activeTasks, gnbVars, clientVars, planVars, wkVars,
                   faults>>

FinishJob(j) == FinStatus(j) \/ FinPins(j) \/ FinWindow(j)

-----------------------------------------------------------------------------
(* Scheduling: the StartJob call of a job and the maintainer's passes *)

PlanGoto(p, pc) == planPc' = [planPc EXCEPT ![p] = pc]

\* The scheduling pass is over; when it was StartJob's, the call returns and
\* the client may ask for batches.
PlanDone(p) ==
    /\ planTodo' = [planTodo EXCEPT ![p] = {}]
    /\ planSeen' = [planSeen EXCEPT ![p] = 0]
    /\ planEpoch' = [planEpoch EXCEPT ![p] = 0]
    /\ IF p = Maintainer
       THEN /\ planJob' = [planJob EXCEPT ![p] = NoJob]
            /\ PlanGoto(p, "idle")
            /\ UNCHANGED gnbPc
       ELSE /\ PlanGoto(p, "returned")
            /\ GnbGoto(p, "idle")
            /\ UNCHANGED planJob

\* store.start_job registers the job ...
StartJob(j) ==
    /\ planPc[j] = "idle"
    /\ jobStatus' = [jobStatus EXCEPT ![j] = "active"]
    /\ PlanGoto(j, "force")
    /\ UNCHANGED <<progress, planned, tasks, taskOf, entry, expiring, handles,
                   pins, activeTasks, gnbVars, clientVars, finPc, planJob,
                   planEpoch, planTodo, planSeen, wkVars, faults>>

\* ... and its first window is planned; nobody moves its progress yet.
StartWindow(j) ==
    /\ planPc[j] = "force"
    /\ planned' = [planned EXCEPT ![j] =
                      IF Active(j) THEN WindowFrom(j, 0, 0) ELSE {}]
    /\ PlanGoto(j, "check")
    /\ UNCHANGED <<jobStatus, progress, tasks, taskOf, entry, expiring, handles,
                   pins, activeTasks, gnbVars, clientVars, finPc, planJob,
                   planEpoch, planTodo, planSeen, wkVars, faults>>

\* The maintainer takes up an active job; a pass visits the jobs in any order.
MaintainJob(j) ==
    /\ planPc[Maintainer] = "idle"
    /\ Active(j)
    /\ planJob' = [planJob EXCEPT ![Maintainer] = j]
    /\ PlanGoto(Maintainer, "check")
    /\ UNCHANGED <<storeVars, gnbVars, clientVars, finPc, planEpoch, planTodo,
                   planSeen, wkVars, faults>>

\* _schedule_job_batches and _refresh_job_window: an inactive job loses its
\* window, a full window is kept, and otherwise a new one is computed.
PlanCheck(p) ==
    LET j == planJob[p] IN
    /\ planPc[p] = "check"
    /\ \/ /\ ~Active(j)
          /\ planned' = [planned EXCEPT ![j] = {}]
          /\ PlanDone(p)
       \/ /\ Active(j)
          /\ Cardinality(Upcoming(j)) >= Lookahead
          /\ PlanGoto(p, "read")
          /\ UNCHANGED <<planned, gnbPc, planJob, planEpoch, planTodo, planSeen>>
       \/ /\ Active(j)
          /\ Cardinality(Upcoming(j)) < Lookahead
          /\ planEpoch' = [planEpoch EXCEPT ![p] = progress[j].epoch]
          /\ PlanGoto(p, "index")
          /\ UNCHANGED <<planned, gnbPc, planJob, planTodo, planSeen>>
    /\ UNCHANGED <<jobStatus, progress, tasks, taskOf, entry, expiring, handles,
                   pins, activeTasks, gnbBatch, clientVars, finPc, wkVars, faults>>

\* get_batches_for_job reads the epoch and then the index of a job that other
\* threads move meanwhile ...
PlanIndex(p) ==
    /\ planPc[p] = "index"
    /\ planTodo' = [planTodo EXCEPT ![p] =
                       WindowFrom(planJob[p], planEpoch[p], progress[planJob[p]].next)]
    /\ PlanGoto(p, "store")
    /\ UNCHANGED <<storeVars, gnbVars, clientVars, finPc, planJob, planEpoch,
                   planSeen, wkVars, faults>>

\* ... and the window it computed is installed later, stale or not.
PlanStore(p) ==
    /\ planPc[p] = "store"
    /\ planned' = [planned EXCEPT ![planJob[p]] = planTodo[p]]
    /\ planTodo' = [planTodo EXCEPT ![p] = {}]
    /\ planEpoch' = [planEpoch EXCEPT ![p] = 0]
    /\ PlanGoto(p, "read")
    /\ UNCHANGED <<jobStatus, progress, tasks, taskOf, entry, expiring, handles,
                   pins, activeTasks, gnbVars, clientVars, finPc, planJob,
                   planSeen, wkVars, faults>>

PlanRead(p) ==
    /\ planPc[p] = "read"
    /\ planTodo' = [planTodo EXCEPT ![p] = planned[planJob[p]]]
    /\ PlanGoto(p, "each")
    /\ UNCHANGED <<storeVars, gnbVars, clientVars, finPc, planJob, planEpoch,
                   planSeen, wkVars, faults>>

\* The batch of the pass that comes next in the window's order.
IsFirst(b, todo) == b \in todo /\ \A c \in todo : b.index <= c.index

\* A planned batch that the job has left behind, or that a stale window holds.
Passed(j, b) == b.epoch # progress[j].epoch \/ b.index < progress[j].next

\* The loop over the planned batches: it ends with the window or at the depth ...
PlanEnd(p) ==
    /\ planPc[p] = "each"
    /\ planTodo[p] # {} =>
          /\ planSeen[p] >= TargetDepth
          /\ \E b \in planTodo[p] : IsFirst(b, planTodo[p]) /\ ~Passed(planJob[p], b)
    /\ PlanDone(p)
    /\ UNCHANGED <<storeVars, gnbBatch, clientVars, finPc, wkVars, faults>>

\* ... skips a batch the job has left behind, without counting it ...
PlanSkip(p) ==
    /\ planPc[p] = "each"
    /\ \E b \in planTodo[p] :
          /\ IsFirst(b, planTodo[p])
          /\ Passed(planJob[p], b)
          /\ planTodo' = [planTodo EXCEPT ![p] = @ \ {b}]
    /\ UNCHANGED <<storeVars, gnbVars, clientVars, finPc, planPc, planJob,
                   planEpoch, planSeen, wkVars, faults>>

\* ... and looks whether the next one is ready or in progress (should_materialize).
PlanEach(p) ==
    /\ planPc[p] = "each"
    /\ planSeen[p] < TargetDepth
    /\ \E b \in planTodo[p] :
          /\ IsFirst(b, planTodo[p])
          /\ ~Passed(planJob[p], b)
          /\ IF IsReady(b) \/ IsInProgress(b)
             THEN /\ planTodo' = [planTodo EXCEPT ![p] = @ \ {b}]
                  /\ UNCHANGED planPc
             ELSE /\ PlanGoto(p, "create")
                  /\ UNCHANGED planTodo
    /\ planSeen' = [planSeen EXCEPT ![p] = @ + 1]
    /\ UNCHANGED <<storeVars, gnbVars, clientVars, finPc, planJob, planEpoch,
                   wkVars, faults>>

\* build_task and create_task, on what PlanEach saw.
PlanCreate(p) ==
    /\ planPc[p] = "create"
    /\ \E b \in planTodo[p] :
          /\ IsFirst(b, planTodo[p])
          /\ CreateTask(b, planJob[p])
          /\ planTodo' = [planTodo EXCEPT ![p] = @ \ {b}]
    /\ PlanGoto(p, "each")
    /\ UNCHANGED <<jobStatus, progress, planned, expiring, handles, pins,
                   activeTasks, gnbVars, clientVars, finPc, planJob, planEpoch,
                   planSeen, wkVars, faults>>

SchedulePass(p) == \/ PlanCheck(p) \/ PlanIndex(p) \/ PlanStore(p) \/ PlanRead(p)
                   \/ PlanEnd(p) \/ PlanSkip(p) \/ PlanEach(p) \/ PlanCreate(p)

\* _schedule_opportunistic_prefetch: spare workers prepare a shared batch
\* beyond the target depth, once every active job has its target covered.
Covered(j) == {b \in Upcoming(j) : /\ Ahead(j, b) < TargetDepth
                                   /\ IsReady(b) \/ IsInProgress(b)}

IdleWorkers == {w \in Workers : activeTasks[w] = {}}

OppChoose(j, b) ==
    /\ planPc[Maintainer] = "idle"
    /\ ReuseEnabled
    /\ Opportunistic
    /\ Active(j)
    /\ \A k \in Jobs : Active(k) => Cardinality(Covered(k)) >= TargetDepth
    /\ Cardinality(IdleWorkers) > Cardinality(PendingTasks)
    /\ b \in Upcoming(j)
    /\ Ahead(j, b) >= TargetDepth
    /\ Ahead(j, b) < ExtendedDepth
    /\ ~IsReady(b)
    /\ ~IsInProgress(b)
    /\ planTodo' = [planTodo EXCEPT ![Maintainer] = {b}]
    /\ PlanGoto(Maintainer, "opp")
    /\ UNCHANGED <<storeVars, gnbVars, clientVars, finPc, planJob, planEpoch,
                   planSeen, wkVars, faults>>

\* The global task, owned by no job.
OppCreate ==
    /\ planPc[Maintainer] = "opp"
    /\ \E b \in planTodo[Maintainer] : CreateTask(b, NoJob)
    /\ planTodo' = [planTodo EXCEPT ![Maintainer] = {}]
    /\ PlanGoto(Maintainer, "idle")
    /\ UNCHANGED <<jobStatus, progress, planned, expiring, handles, pins,
                   activeTasks, gnbVars, clientVars, finPc, planJob, planEpoch,
                   planSeen, wkVars, faults>>

\* _cleanup_expired_payload_metadata drops one expired, unpinned payload.
Cleanup(b) ==
    /\ planPc[Maintainer] = "idle"
    /\ b \in expiring
    /\ RemovePayload(b)
    /\ Fault("expiry")
    /\ UNCHANGED <<jobStatus, progress, planned, pins, activeTasks, gnbVars,
                   clientVars, finPc, planVars, wkVars>>

-----------------------------------------------------------------------------
(* Data workers *)

WkGoto(w, pc) == wkPc' = [wkPc EXCEPT ![w] = pc]

WkIdle(w) == /\ WkGoto(w, "idle")
             /\ wkTask' = [wkTask EXCEPT ![w] = NoTask]

\* choose_next_task_for_worker: a pending task, opportunistic ones last.
WorkerPoll(w) ==
    /\ wkPc[w] = "idle"
    /\ \E t \in PendingTasks :
          /\ tasks[t].job = NoJob => \A u \in PendingTasks : tasks[u].job = NoJob
          /\ wkTask' = [wkTask EXCEPT ![w] = t]
    /\ WkGoto(w, "assign")
    /\ UNCHANGED <<storeVars, gnbVars, clientVars, finPc, planVars, faults>>

\* assign_task_to_worker, a second store call: only a task that is still
\* pending becomes running (or cancelled), but the poll answers with the task
\* whatever its status is.  The call fails when the task is gone.
WorkerAssign(w) ==
    LET t == wkTask[w]
        closed == tasks[t].job # NoJob /\ ~Active(tasks[t].job) IN
    /\ wkPc[w] = "assign"
    /\ IF tasks[t].status = "pending"
       THEN /\ tasks' = [tasks EXCEPT ![t].status =
                            IF closed THEN "cancelled" ELSE "running"]
            /\ activeTasks' = IF closed THEN activeTasks
                              ELSE [activeTasks EXCEPT ![w] = @ \cup {t}]
       ELSE UNCHANGED <<tasks, activeTasks>>
    /\ \/ /\ tasks[t].status # "gone"
          /\ WkGoto(w, "run")
          /\ UNCHANGED <<wkTask, faults>>
       \/ /\ tasks[t].status = "gone"
          /\ WkIdle(w)
          /\ UNCHANGED faults
       \/ /\ Fault("poll")              \* the answer is lost
          /\ WkIdle(w)
    /\ UNCHANGED <<jobStatus, progress, planned, taskOf, entry, expiring,
                   handles, pins, gnbVars, clientVars, finPc, planVars>>

\* Mutant: the test for an unknown task is inverted.
MaterializeInverted(w) ==
    /\ wkPc[w] = "run"
    /\ WkGoto(w, IF Stored(wkTask[w]) THEN "fail" ELSE "complete")
    /\ UNCHANGED <<storeVars, gnbVars, clientVars, finPc, wkTask, planVars, faults>>

\* The batch is materialized and CompleteMaterializeBatchTask finds its task,
\* or does not and makes the worker report a failure.
WorkerMaterialize(w) ==
    /\ wkPc[w] = "run"
    /\ WkGoto(w, IF Stored(wkTask[w]) THEN "complete" ELSE "fail")
    /\ UNCHANGED <<storeVars, gnbVars, clientVars, finPc, wkTask, planVars, faults>>

\* An exception while materializing.
WorkerError(w) ==
    /\ wkPc[w] = "run"
    /\ Fault("materialize")
    /\ WkGoto(w, "fail")
    /\ UNCHANGED <<storeVars, gnbVars, clientVars, finPc, wkTask, planVars>>

\* complete_task, after admission: the task is looked up again and completed
\* whatever its status, a new entry and a READY handle are installed.  A lost
\* answer makes the worker report a failure as well.
WorkerComplete(w) ==
    LET t == wkTask[w] IN
    /\ wkPc[w] = "complete"
    /\ IF Stored(t)
       THEN LET b == tasks[t].batch IN
            /\ tasks' = [tasks EXCEPT ![t].status = "completed"]
            /\ Release(t)
            /\ entry' = [entry EXCEPT ![b] = "available"]
            /\ expiring' = expiring \cup {b}
            /\ handles' = handles \cup {b}
            /\ \/ /\ WkIdle(w)
                  /\ UNCHANGED faults
               \/ /\ Fault("reply")
                  /\ WkGoto(w, "fail")
                  /\ UNCHANGED wkTask
       ELSE /\ WkGoto(w, "fail")
            /\ UNCHANGED <<tasks, activeTasks, entry, expiring, handles, wkTask, faults>>
    /\ UNCHANGED <<jobStatus, progress, planned, taskOf, pins, gnbVars,
                   clientVars, finPc, planVars>>

\* fail_task fails the task whatever its status, and the entry of its batch;
\* a READY handle stays.  The report may be lost.
WorkerFail(w) ==
    LET t == wkTask[w] IN
    /\ wkPc[w] = "fail"
    /\ \/ /\ IF Stored(t)
             THEN /\ tasks' = [tasks EXCEPT ![t].status = "failed"]
                  /\ Release(t)
                  /\ entry' = [entry EXCEPT ![tasks[t].batch] =
                                  IF @ = "absent" THEN @ ELSE "failed"]
             ELSE UNCHANGED <<tasks, activeTasks, entry>>
          /\ UNCHANGED faults
       \/ /\ Fault("report")
          /\ UNCHANGED <<tasks, activeTasks, entry>>
    /\ WkIdle(w)
    /\ UNCHANGED <<jobStatus, progress, planned, taskOf, expiring, handles,
                   pins, gnbVars, clientVars, finPc, planVars>>

\* The worker process dies; the coordinator never takes its tasks back.
WorkerCrash(w) ==
    /\ wkPc[w] # "dead"
    /\ Fault("crash")
    /\ WkGoto(w, "dead")
    /\ wkTask' = [wkTask EXCEPT ![w] = NoTask]
    /\ UNCHANGED <<storeVars, gnbVars, clientVars, finPc, planVars>>

Work(w) == \/ WorkerPoll(w) \/ WorkerAssign(w) \/ WorkerMaterialize(w)
           \/ WorkerComplete(w) \/ WorkerFail(w)

WorkerFault(w) == WorkerError(w) \/ WorkerCrash(w)

-----------------------------------------------------------------------------
Next ==
    \/ \E j \in Jobs : \/ GetNextBatch(j) \/ Acknowledge(j) \/ FinishJob(j)
                       \/ StartJob(j) \/ StartWindow(j) \/ MaintainJob(j)
                       \/ \E b \in Batch : OppChoose(j, b)
    \/ \E p \in Planners : SchedulePass(p)
    \/ OppCreate
    \/ \E b \in Batch : Cleanup(b)
    \/ \E w \in Workers : Work(w) \/ WorkerFault(w)

Spec == Init /\ [][Next]_vars

\* The gRPC threads, the maintainer thread and the worker loops keep running,
\* and the maintainer's loop comes round to every active job.
Fairness ==
    /\ \A j \in Jobs : /\ WF_vars(GetNextBatch(j))
                       /\ WF_vars(Acknowledge(j))
                       /\ WF_vars(FinPins(j) \/ FinWindow(j))
                       /\ WF_vars(StartJob(j) \/ StartWindow(j))
                       /\ SF_vars(MaintainJob(j))
    /\ \A p \in Planners : WF_vars(SchedulePass(p))
    /\ WF_vars(OppCreate)
    /\ \A w \in Workers : WF_vars(Work(w))

FairSpec == Spec /\ Fairness

-----------------------------------------------------------------------------
(* Properties *)

TaskRecord == [batch : Batch, job : Jobs \cup {NoJob},
               status : {"pending", "running", "completed", "failed",
                         "cancelled", "gone"}]

\* The types of the coordinator's dictionaries and of the handlers' locals.
TypeOK ==
    /\ jobStatus \in [Jobs -> {"absent", "active", "finished"}]
    /\ progress \in [Jobs -> [epoch : 0..MaxEpoch, next : 0..BatchesPerEpoch]]
    /\ planned \in [Jobs -> SUBSET Batch]
    /\ tasks \in [TaskId -> TaskRecord \cup {UnusedTask}]
    /\ taskOf \in [Batch -> TaskId \cup {NoTask}]
    /\ entry \in [Batch -> {"absent", "pending", "available", "failed"}]
    /\ expiring \subseteq Batch
    /\ handles \subseteq Batch
    /\ pins \subseteq Batch \X Jobs
    /\ activeTasks \in [Workers -> SUBSET TaskId]
    /\ gnbPc \in [Jobs -> {"off", "idle", "lookup", "refresh", "retry", "window",
                           "resolve", "pin", "issue", "epoch", "clear", "reply",
                           "failed", "done", "none"}]
    /\ gnbBatch \in [Jobs -> Batch \cup {NoBatch}]
    /\ received \in [Jobs -> Seq(Batch)]
    /\ acked \in [Jobs -> Nat]
    /\ finPc \in [Jobs -> {"idle", "pins", "window", "done"}]
    /\ planPc \in [Planners -> {"idle", "force", "check", "index", "store",
                                "read", "each", "create", "opp", "returned"}]
    /\ planJob \in [Planners -> Jobs \cup {NoJob}]
    /\ planEpoch \in [Planners -> 0..MaxEpoch]
    /\ planTodo \in [Planners -> SUBSET Batch]
    /\ planSeen \in [Planners -> 0..TargetDepth]
    /\ wkPc \in [Workers -> {"idle", "assign", "run", "complete", "fail", "dead"}]
    /\ wkTask \in [Workers -> TaskId \cup {NoTask}]
    /\ faults \in 0..MaxFaults

\* A batch has at most one task that is pending or running, and the batch id
\* maps to it: StartJob calls and the maintainer schedule the same shared
\* batches at the same time, and failed tasks are replaced while their workers
\* still hold the old ids (create_task).
OneLiveTaskPerBatch ==
    \A t \in TaskId : tasks[t].status \in {"pending", "running"} =>
                          taskOf[tasks[t].batch] = t

\* A pending task belongs to an active job or to none: finish_job cancels what
\* is pending and create_task refuses what a scheduler, still at work on a job
\* it found active, wants to add afterwards.
PendingTaskHasActiveJob ==
    \A t \in PendingTasks : tasks[t].job # NoJob => Active(tasks[t].job)

\* A READY handle and a pin stand for a payload the coordinator still knows:
\* removal, completion, failure and pinning by different threads keep the
\* handles, the pins and the entries together.
KnownPayload ==
    \A b \in Batch : b \in handles \/ Pinned(b) => entry[b] # "absent"

\* Somebody will drop every pin of a job: the batch is in the hands of its
\* GetNextBatch call or the client has it and has not acknowledged it.
PinHasHolder ==
    \A b \in Batch, j \in Jobs : <<b, j>> \in pins =>
        \/ gnbBatch[j] = b
        \/ \E n \in (acked[j] + 1)..Len(received[j]) : received[j][n] = b

\* An active job is never told "no planned batch available", which its client
\* takes for the end of the data: windows the maintainer computed before the
\* job moved on are installed late and overwrite newer ones, and the forced
\* refresh makes up for it.
NoSpuriousDone == \A j \in Jobs : gnbPc[j] = "none" => ~Active(j)

\* A worker that asks for work has no active task, so count_idle_workers sees
\* it ("workers that are not currently executing a task"): tasks end under other
\* workers that run the same task, are cancelled, or are handed out twice.
IdleWorkerCounted == \A w \in Workers : wkPc[w] = "idle" => activeTasks[w] = {}

\* A request of an active job fails only after a fault, or with reuse because
\* another job that owned the task of the shared batch closed (finish_job
\* cancels that task, resolve_batch_handle reports it to everybody).
FailureHasCause ==
    \A j \in Jobs : gnbPc[j] = "failed" /\ Active(j) =>
        \/ faults > 0
        \/ ReuseEnabled /\ \E k \in Jobs \ {j} : jobStatus[k] = "finished"

\* A batch that is ready is not scheduled again, although a scheduler looks at
\* it, and creates the task for it, in two steps (should_materialize, create_task).
NoRework == [][\A b \in Batch : b \in handles => taskOf'[b] \in {taskOf[b], NoTask}]_vars

\* After FinishJob has returned nobody fetches for the job and none of its pins
\* is left ("A payload stays pinned while a client is fetching it").
ClosedJobHoldsNoPin ==
    \A j \in Jobs : finPc[j] = "done" => \A b \in Batch : <<b, j>> \notin pins

\* The job is served, in order and at most once, as BatchDelivery says.
InCall(j) == gnbPc[j] \notin {"off", "idle", "failed", "done", "none"}

Delivery == INSTANCE BatchDelivery WITH
    ownerOf <- [j \in Jobs |-> Owner(j)],
    phase <- [j \in Jobs |-> IF jobStatus[j] # "finished" THEN "open"
                             ELSE IF InCall(j) THEN "closing" ELSE "closed"]

InOrderDelivery == Delivery!Spec

\* A job that asks on gets every batch of every epoch, or an error: the
\* maintainer, the workers and the expiry of payloads it has not fetched yet
\* race, and no wakeup or window is lost for good.
EveryBatchServed ==
    \A j \in Jobs : <>(\/ Len(received[j]) = MaxEpoch * BatchesPerEpoch
                       \/ gnbPc[j] = "failed")

=============================================================================
