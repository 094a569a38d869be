--------------------------- MODULE CoorDLStaging ---------------------------
(***************************************************************************)
(* The CoorDL baseline: one preparation owner per job stages its share of  *)
(* a common plan of batches in Redis, at most a window of them at a time;  *)
(* every job consumes the whole plan in order, and the consumer that       *)
(* raises a batch's count to the number of jobs deletes it.  run_coordl_   *)
(* jobs starts the owners, waits until all are ready and starts the jobs;  *)
(* after them it stops the owners and clears the namespace.  When the      *)
(* start fails it stops the owners and raises, and clears nothing.         *)
(*                                                                         *)
(* The Redis scripts are atomic, so each is one step.  An owner that waits *)
(* polls; polls that find nothing are left out.                            *)
(***************************************************************************)
EXTENDS Integers, Sequences, FiniteSets

CONSTANTS NumJobs,
          NumSamples, BatchSize, DropLast,  \* what an epoch is cut into
          TotalBatches,                     \* warmup and measured batches
          Window,                           \* staging_window_per_owner
          MaxFailures                       \* bound: failing owners and jobs, slow answers

ASSUME PlanAssumption ==
    /\ {NumJobs, NumSamples, BatchSize, TotalBatches, Window} \subseteq Nat \ {0}
    /\ DropLast \in BOOLEAN
    /\ DropLast => BatchSize <= NumSamples
    /\ MaxFailures \in Nat

Jobs == 0..(NumJobs - 1)
Batches == 0..(TotalBatches - 1)     \* positions in the plan

PerEpoch == IF DropLast THEN NumSamples \div BatchSize
            ELSE (NumSamples + BatchSize - 1) \div BatchSize

\* Mutant: owners are numbered from one.
OwnerIndexFromOne(b) == ((b % PerEpoch) % NumJobs) + 1

\* build_coordl_batch_plan: owners take turns within an epoch.
OwnerIndex(b) == (b % PerEpoch) % NumJobs

Owned(o) == {b \in Batches : OwnerIndex(b) = o}

VARIABLES
    staged,    \* the batches whose payload is in Redis
    used,      \* their consume counts
    pending,   \* per owner: the batches it staged, oldest first
    prepared,  \* per owner: the batches it is done with
    owner,     \* "starting", "running", "preparing", "done", "failed",
               \* "unready" (failed to start) or "gone" (killed)
    position,  \* per job: its next position in the plan
    job,       \* "off", "running", "done" or "failed"
    stop,      \* stop_event
    run,       \* "start", "jobs", "owners" (being joined) and "cleared", or, after
               \* a failed start, "aborting" and "aborted"
    failures

ownerVars == <<pending, prepared, owner>>
jobVars == <<position, job>>
vars == <<staged, used, ownerVars, jobVars, stop, run, failures>>

\* The namespace is new, and cleared all the same; the owners are started.
Init ==
    /\ staged = {}
    /\ used = [b \in Batches |-> 0]
    /\ pending = [o \in Jobs |-> <<>>]
    /\ prepared = [o \in Jobs |-> {}]
    /\ owner = [o \in Jobs |-> "starting"]
    /\ position = [j \in Jobs |-> 0]
    /\ job = [j \in Jobs |-> "off"]
    /\ stop = FALSE
    /\ run = "start"
    /\ failures = 0

-----------------------------------------------------------------------------
(* run_preparation_owner *)

\* The owner has its data loader, tells the parent and goes on at once ...
Ready(o) ==
    /\ owner[o] = "starting"
    /\ owner' = [owner EXCEPT ![o] = "running"]
    /\ UNCHANGED <<staged, used, pending, prepared, jobVars, stop, run, failures>>

\* ... or reports that it failed.
FailStart(o) ==
    /\ owner[o] = "starting"
    /\ failures < MaxFailures
    /\ failures' = failures + 1
    /\ owner' = [owner EXCEPT ![o] = "unready"]
    /\ UNCHANGED <<staged, used, pending, prepared, jobVars, stop, run>>

Left(o) == Owned(o) \ prepared[o]

\* The oldest staged batch was consumed by everybody.
Forget(o) ==
    /\ owner[o] = "running"
    /\ pending[o] # <<>>
    /\ Len(pending[o]) >= Window \/ Left(o) = {}
    /\ Head(pending[o]) \notin staged
    /\ pending' = [pending EXCEPT ![o] = Tail(@)]
    /\ UNCHANGED <<staged, used, prepared, owner, jobVars, stop, run, failures>>

\* Mutant: the window is tested after the batch was staged.
WindowOpenLate(o) == Len(pending[o]) <= Window

WindowOpen(o) == Len(pending[o]) < Window

\* With room in the window, and before stop, the next owned batch is prepared ...
StartBatch(o) ==
    /\ owner[o] = "running"
    /\ ~stop
    /\ WindowOpen(o)
    /\ Left(o) # {}
    /\ owner' = [owner EXCEPT ![o] = "preparing"]
    /\ UNCHANGED <<staged, used, pending, prepared, jobVars, stop, run, failures>>

\* ... and published with a count of zero, whatever happened meanwhile.
Publish(o) ==
    /\ owner[o] = "preparing"
    /\ \E b \in Left(o) :
          /\ \A c \in Left(o) : b <= c
          /\ staged' = staged \cup {b}
          /\ used' = [used EXCEPT ![b] = 0]
          /\ pending' = [pending EXCEPT ![o] = Append(@, b)]
          /\ prepared' = [prepared EXCEPT ![o] = @ \cup {b}]
    /\ owner' = [owner EXCEPT ![o] = "running"]
    /\ UNCHANGED <<jobVars, stop, run, failures>>

\* Everything owned is staged and consumed, or stop is set.
EndOwner(o) ==
    /\ owner[o] = "running"
    /\ stop \/ (Left(o) = {} /\ pending[o] = <<>>)
    /\ owner' = [owner EXCEPT ![o] = "done"]
    /\ UNCHANGED <<staged, used, pending, prepared, jobVars, stop, run, failures>>

\* Preparing a batch or talking to Redis raises, and the owner reports it; once
\* the jobs run nobody reads the status queue.
FailOwner(o) ==
    /\ owner[o] \in {"running", "preparing"}
    /\ failures < MaxFailures
    /\ failures' = failures + 1
    /\ owner' = [owner EXCEPT ![o] = "failed"]
    /\ UNCHANGED <<staged, used, pending, prepared, jobVars, stop, run>>

-----------------------------------------------------------------------------
(* CoorDLBatchIterator in a job's process *)

\* Mutant: one consumer too few.
LastUseEarly(n) == n >= NumJobs - 1

LastUse(n) == n >= NumJobs

\* wait_and_consume finds the payload.
Consume(j) ==
    LET b == position[j] IN
    /\ job[j] = "running"
    /\ b \in staged
    /\ position' = [position EXCEPT ![j] = b + 1]
    /\ used' = [used EXCEPT ![b] = @ + 1]
    /\ staged' = IF LastUse(used[b] + 1) THEN staged \ {b} ELSE staged
    /\ UNCHANGED <<ownerVars, job, stop, run, failures>>

\* The training loop has had its batches.
FinishTraining(j) ==
    /\ job[j] = "running"
    /\ position[j] = TotalBatches
    /\ job' = [job EXCEPT ![j] = "done"]
    /\ UNCHANGED <<staged, used, ownerVars, position, stop, run, failures>>

\* Anything else in the job raises: its device, its model, a batch.
FailJob(j) ==
    /\ job[j] = "running"
    /\ failures < MaxFailures
    /\ failures' = failures + 1
    /\ job' = [job EXCEPT ![j] = "failed"]
    /\ UNCHANGED <<staged, used, ownerVars, position, stop, run>>

\* A wait is over without a batch, and the job fails.
GiveUpWait(j) ==
    /\ job[j] = "running"
    /\ position[j] \in Batches \ staged
    /\ position' = [position EXCEPT ![j] = @ + 1]
    /\ job' = [job EXCEPT ![j] = "failed"]
    /\ UNCHANGED <<staged, used, ownerVars, stop, run>>

\* The deadline passes because something failed before ...
TimeOut(j) ==
    /\ failures > 0
    /\ GiveUpWait(j)
    /\ UNCHANGED failures

\* ... or because the batch takes longer than the timeout.
SlowBatch(j) ==
    /\ failures < MaxFailures
    /\ GiveUpWait(j)
    /\ failures' = failures + 1

-----------------------------------------------------------------------------
(* _start_preparation_owners and run_coordl_jobs *)

\* Every owner has reported that it is ready.  Messages of different owners come
\* in any order, so one that failed since may be noticed or not.
StartJobs ==
    /\ run = "start"
    /\ \A o \in Jobs : owner[o] \notin {"starting", "unready"}
    /\ job' = [j \in Jobs |-> "running"]
    /\ run' = "jobs"
    /\ UNCHANGED <<staged, used, ownerVars, position, stop, failures>>

Abort ==
    /\ run = "start"
    /\ stop' = TRUE
    /\ run' = "aborting"
    /\ UNCHANGED <<staged, used, ownerVars, jobVars>>

\* An owner has reported an error ...
StartFails ==
    /\ \E o \in Jobs : owner[o] \in {"unready", "failed"}
    /\ Abort
    /\ UNCHANGED failures

\* ... or one takes longer than startup_timeout_seconds.
SlowStart ==
    /\ \E o \in Jobs : owner[o] = "starting"
    /\ failures < MaxFailures
    /\ failures' = failures + 1
    /\ Abort

StopOwners ==
    /\ run = "jobs"
    /\ \A j \in Jobs : job[j] # "running"
    /\ stop' = TRUE
    /\ run' = "owners"
    /\ UNCHANGED <<staged, used, ownerVars, jobVars, failures>>

Alive(o) == owner[o] \in {"starting", "running", "preparing"}

\* join gives up after its timeout and the owner is terminated.
Terminate(o) ==
    /\ run \in {"aborting", "owners"}
    /\ Alive(o)
    /\ owner' = [owner EXCEPT ![o] = "gone"]
    /\ UNCHANGED <<staged, used, pending, prepared, jobVars, stop, run, failures>>

\* Mutant: the namespace is cleared while owners may still publish.
JoinedAny == TRUE

Joined == \A o \in Jobs : ~Alive(o)

\* The failed start is raised, past the finally clause that would clear.
GiveUp ==
    /\ run = "aborting"
    /\ Joined
    /\ run' = "aborted"
    /\ UNCHANGED <<staged, used, ownerVars, jobVars, stop, failures>>

ClearNamespace ==
    /\ run = "owners"
    /\ Joined
    /\ staged' = {}
    /\ used' = [b \in Batches |-> 0]
    /\ run' = "cleared"
    /\ UNCHANGED <<ownerVars, jobVars, stop, failures>>

Ended == run \in {"aborted", "cleared"} /\ UNCHANGED vars

-----------------------------------------------------------------------------
Prepare(o) == Ready(o) \/ Forget(o) \/ StartBatch(o) \/ Publish(o) \/ EndOwner(o)
Train(j) == Consume(j) \/ FinishTraining(j)
Parent == StartJobs \/ StartFails \/ GiveUp \/ StopOwners \/ ClearNamespace

Next ==
    \/ \E o \in Jobs : Prepare(o) \/ FailStart(o) \/ FailOwner(o) \/ Terminate(o)
    \/ \E j \in Jobs : Train(j) \/ FailJob(j) \/ TimeOut(j) \/ SlowBatch(j)
    \/ Parent \/ SlowStart
    \/ Ended

Spec == Init /\ [][Next]_vars

\* The processes run, a wait ends in a batch or at its deadline, and the parent
\* goes on.  Without a failure nothing but the owners can end a wait.
Fairness ==
    /\ \A o \in Jobs : WF_vars(Prepare(o))
    /\ \A j \in Jobs : WF_vars(Train(j) \/ TimeOut(j))
    /\ WF_vars(Parent)

FairSpec == Spec /\ Fairness

-----------------------------------------------------------------------------
(* Properties *)

OwnerStates == {"starting", "running", "preparing", "done", "failed", "unready", "gone"}
RunStates == {"start", "jobs", "owners", "cleared", "aborting", "aborted"}

CoorDLTypeOK ==
    /\ staged \subseteq Batches
    /\ used \in [Batches -> 0..NumJobs]
    /\ pending \in [Jobs -> Seq(Batches)]
    /\ \A o \in Jobs : Len(pending[o]) <= Window
    /\ prepared \in [Jobs -> SUBSET Batches]
    /\ owner \in [Jobs -> OwnerStates]
    /\ position \in [Jobs -> 0..TotalBatches]
    /\ job \in [Jobs -> {"off", "running", "done", "failed"}]
    /\ stop \in BOOLEAN
    /\ run \in RunStates
    /\ failures \in 0..MaxFailures

\* A batch that was published stays staged until every job that runs or is yet to
\* start has had it ("every job consumes every minibatch exactly once"), also when
\* the owners were ready long before the last one was.
KeptForEveryJob ==
    \A b \in UNION {prepared[o] : o \in Jobs}, j \in Jobs :
        job[j] \in {"off", "running"} /\ position[j] <= b => b \in staged

\* Redis never holds more than max_staged_batches, and no owner more than its
\* window, however far the jobs are apart.
StagedBounded ==
    /\ CoorDLTypeOK
    /\ \A o \in Jobs : Cardinality(staged \cap Owned(o)) <= Window

\* When the run is over no owner can publish any more, and only a run that never
\* started its jobs leaves batches in Redis: those of the owners that were ready
\* when the start failed, which nobody clears.
OnlyFailedStartLeaves ==
    run \in {"aborted", "cleared"} =>
        /\ \A o \in Jobs : ~Alive(o)
        /\ staged # {} => run = "aborted" /\ \A j \in Jobs : job[j] = "off"

\* The run ends, with every job trained unless something failed: the windows of
\* the owners never block the job that would open them, and every owner's report
\* of its start is enough for the jobs to start.
RunCompletes ==
    <>(/\ run \in {"aborted", "cleared"}
       /\ failures = 0 => run = "cleared" /\ \A j \in Jobs : job[j] = "done")
=============================================================================
