---------------------------- MODULE CoorDLProofs ----------------------------
(***************************************************************************)
(* The safety properties of CoorDLStaging, for any number of jobs, any     *)
(* plan, window and number of failures.                                    *)
(***************************************************************************)
EXTENDS CoorDLStaging, Functions, FiniteSetTheorems, TLAPS

-----------------------------------------------------------------------------
(* Sets of jobs, and the batches of a queue *)

LEMMA JobsAreFinite == IsFiniteSet(Jobs) /\ Cardinality(Jobs) = NumJobs
<1>1. NumJobs \in Nat \ {0}
  BY PlanAssumption
<1> QED
  BY <1>1, FS_Interval DEF Jobs

\* A queue holds at most as many batches as it is long.
LEMMA QueueHoldsItsLength ==
    ASSUME NEW S, NEW q \in Seq(S)
    PROVE  IsFiniteSet(Range(q)) /\ Cardinality(Range(q)) <= Len(q)
<1>1. q \in Surjection(1..Len(q), Range(q))
  BY DEF Surjection, Range
<1>2. IsFiniteSet(1..Len(q)) /\ Cardinality(1..Len(q)) = Len(q)
  <2>1. Len(q) \in Nat
    OBVIOUS
  <2> QED
    BY <2>1, FS_Interval
<1> QED
  BY <1>1, <1>2, FS_Surjection

LEMMA AppendedRange ==
    ASSUME NEW S, NEW q \in Seq(S), NEW x \in S
    PROVE  /\ Append(q, x) \in Seq(S)
           /\ Len(Append(q, x)) = Len(q) + 1
           /\ Range(Append(q, x)) = Range(q) \cup {x}
<1>1. /\ Append(q, x) \in Seq(S) /\ Len(Append(q, x)) = Len(q) + 1
      /\ \A i \in 1..Len(q) : Append(q, x)[i] = q[i]
      /\ Append(q, x)[Len(q) + 1] = x
      /\ 1..(Len(q) + 1) = 1..Len(q) \cup {Len(q) + 1}
  OBVIOUS
<1> QED
  BY <1>1 DEF Range

\* The queue without its head still holds everything but the head.
LEMMA TailRange ==
    ASSUME NEW S, NEW q \in Seq(S), q # <<>>
    PROVE  /\ Tail(q) \in Seq(S)
           /\ Len(Tail(q)) = Len(q) - 1
           /\ Range(q) \subseteq Range(Tail(q)) \cup {Head(q)}
<1>1. Tail(q) \in Seq(S) /\ Len(Tail(q)) = Len(q) - 1 /\ Len(q) \in Nat \ {0}
  OBVIOUS
<1>2. ASSUME NEW i \in 1..Len(q), i # 1
      PROVE  q[i] \in Range(Tail(q))
  <2>1. i - 1 \in 1..Len(Tail(q)) /\ Tail(q)[i - 1] = q[i]
    BY <1>1, <1>2
  <2>2. DOMAIN Tail(q) = 1..Len(Tail(q))
    BY <1>1
  <2> QED
    BY <2>1, <2>2 DEF Range
<1>3. q[1] = Head(q) /\ DOMAIN q = 1..Len(q)
  OBVIOUS
<1> QED
  BY <1>1, <1>2, <1>3 DEF Range

-----------------------------------------------------------------------------
(* The invariant *)

\* The jobs that are past b.
Beyond(b) == {j \in Jobs : position[j] > b}

\* A count stands for jobs that are past the batch, so the last use is the last.
CountInv == \A b \in Batches : used[b] <= Cardinality(Beyond(b))

\* What an owner has in Redis is in its queue, and there is room for a batch
\* that is being prepared.
QueueInv ==
    \A o \in Jobs : /\ staged \cap Owned(o) \subseteq Range(pending[o])
                    /\ owner[o] = "preparing" => Len(pending[o]) < Window

\* Jobs run while run is "jobs" only; owners are gone before a run is over, and the
\* namespace is cleared after jobs and owners, unless the start failed.
EndInv ==
    /\ run \in {"start", "aborting", "aborted"} => \A j \in Jobs : job[j] = "off"
    /\ run \notin {"start", "aborting", "aborted"} => \A j \in Jobs : job[j] # "off"
    /\ run \in {"owners", "cleared"} => \A j \in Jobs : job[j] # "running"
    /\ run \in {"aborted", "cleared"} => Joined
    /\ run = "cleared" => staged = {}

StageInv == CoorDLTypeOK /\ CountInv /\ KeptForEveryJob /\ QueueInv /\ EndInv

LEMMA InitStage == Init => StageInv
<1> SUFFICES ASSUME Init
             PROVE  StageInv
  OBVIOUS
<1> USE DEF Init
<1>1. CoorDLTypeOK
  <2>1. NumJobs \in Nat /\ Window \in Nat /\ TotalBatches \in Nat /\ MaxFailures \in Nat
    BY PlanAssumption
  <2>2. pending \in [Jobs -> Seq(Batches)] /\ \A o \in Jobs : Len(pending[o]) = 0
    OBVIOUS
  <2>3. used \in [Batches -> 0..NumJobs] /\ position \in [Jobs -> 0..TotalBatches]
    BY <2>1
  <2>4. \A o \in Jobs : Len(pending[o]) <= Window
    BY <2>1, <2>2
  <2>5. /\ prepared \in [Jobs -> SUBSET Batches]
        /\ owner \in [Jobs -> OwnerStates]
        /\ job \in [Jobs -> {"off", "running", "done", "failed"}]
        /\ staged \subseteq Batches
    BY DEF OwnerStates
  <2>6. run \in RunStates /\ failures \in 0..MaxFailures
    BY <2>1 DEF RunStates
  <2>7. stop \in BOOLEAN
    BY Zenon
  <2> QED
    BY ONLY <2>2, <2>3, <2>4, <2>5, <2>6, <2>7 DEF CoorDLTypeOK
<1>2. CountInv
  <2> SUFFICES ASSUME NEW b \in Batches
               PROVE  0 <= Cardinality(Beyond(b))
    BY DEF CountInv
  <2>1. Beyond(b) \in SUBSET Jobs
    BY DEF Beyond
  <2>2. IsFiniteSet(Beyond(b))
    BY <2>1, JobsAreFinite, FS_Subset
  <2> QED
    BY <2>2, FS_CardinalityType
<1>3. KeptForEveryJob /\ QueueInv /\ EndInv
  BY DEF KeptForEveryJob, QueueInv, EndInv
<1> QED
  BY <1>1, <1>2, <1>3 DEF StageInv

\* A job only moves on, so the jobs past a batch only become more.
LEMMA BeyondGrows ==
    ASSUME CoorDLTypeOK, NEW b \in Batches,
           \A j \in Jobs : position'[j] \in Int /\ position[j] <= position'[j]
    PROVE  /\ Cardinality(Beyond(b)) \in 0..NumJobs /\ Cardinality(Beyond(b)') \in 0..NumJobs
           /\ Cardinality(Beyond(b)) <= Cardinality(Beyond(b)')
           /\ \A j \in Jobs : position[j] = b /\ position'[j] > b
                 => Cardinality(Beyond(b)) + 1 <= Cardinality(Beyond(b)')
           /\ Cardinality(Beyond(b)') = NumJobs => \A j \in Jobs : position'[j] > b
<1>1. /\ Beyond(b) \in SUBSET Jobs /\ Beyond(b)' \in SUBSET Jobs
      /\ Beyond(b) \in SUBSET Beyond(b)' /\ b \in Int
  BY DEF Beyond, CoorDLTypeOK, Batches
<1>2. /\ IsFiniteSet(Beyond(b)) /\ IsFiniteSet(Beyond(b)')
      /\ Cardinality(Beyond(b)) <= NumJobs /\ Cardinality(Beyond(b)') <= NumJobs
      /\ Cardinality(Beyond(b)') = NumJobs => Beyond(b)' = Jobs
  BY <1>1, JobsAreFinite, FS_Subset
<1>3. /\ Cardinality(Beyond(b)) \in Nat /\ Cardinality(Beyond(b)') \in Nat
      /\ Cardinality(Beyond(b)) <= Cardinality(Beyond(b)')
      /\ NumJobs \in Nat
  BY <1>1, <1>2, FS_Subset, FS_CardinalityType, PlanAssumption
<1>4. ASSUME NEW j \in Jobs, position[j] = b, position'[j] > b
      PROVE  Cardinality(Beyond(b)) + 1 <= Cardinality(Beyond(b)')
  <2>1. j \notin Beyond(b) /\ j \in Beyond(b)'
    BY <1>1, <1>4 DEF Beyond
  <2>2. Beyond(b) \cup {j} \in SUBSET Beyond(b)'
    BY <1>1, <2>1
  <2>3. Cardinality(Beyond(b) \cup {j}) = Cardinality(Beyond(b)) + 1
    BY <1>2, <2>1, FS_AddElement
  <2> QED
    BY <1>2, <2>2, <2>3, FS_Subset
<1> QED
  BY <1>2, <1>3, <1>4 DEF Beyond

\* A step of an owner or of the parent, and a job's end.
LEMMA OwnerStep ==
    ASSUME StageInv, NEW o \in Jobs,
           Prepare(o) \/ FailStart(o) \/ FailOwner(o) \/ Terminate(o)
    PROVE  StageInv'
<1> USE DEF ownerVars, jobVars
<1>0. /\ CoorDLTypeOK /\ staged \subseteq Batches
      /\ used \in [Batches -> 0..NumJobs]
      /\ pending \in [Jobs -> Seq(Batches)] /\ pending[o] \in Seq(Batches)
      /\ \A p \in Jobs : Len(pending[p]) <= Window
      /\ prepared \in [Jobs -> SUBSET Batches]
      /\ owner \in [Jobs -> OwnerStates]
      /\ Window \in Nat /\ NumJobs \in Nat /\ failures \in 0..MaxFailures /\ MaxFailures \in Nat
  BY PlanAssumption DEF StageInv, CoorDLTypeOK
<1>a. /\ CountInv /\ KeptForEveryJob /\ QueueInv /\ EndInv
  BY DEF StageInv
<1>1. CASE Forget(o)
  <2>1. /\ pending[o] # <<>> /\ Head(pending[o]) \notin staged
        /\ pending' = [pending EXCEPT ![o] = Tail(pending[o])]
        /\ UNCHANGED <<staged, used, prepared, owner, position, job, stop, run, failures>>
    BY <1>1 DEF Forget
  <2>2. /\ Tail(pending[o]) \in Seq(Batches)
        /\ Len(Tail(pending[o])) = Len(pending[o]) - 1
        /\ Range(pending[o]) \subseteq Range(Tail(pending[o])) \cup {Head(pending[o])}
    BY <1>0, <2>1, TailRange
  <2>3. Len(pending[o]) \in Nat
    BY <1>0
  <2>4. CoorDLTypeOK'
    BY <1>0, <2>1, <2>2, <2>3 DEF CoorDLTypeOK
  <2>5. QueueInv'
    BY <1>0, <1>a, <2>1, <2>2, <2>3 DEF QueueInv, Owned
  <2>6. CountInv' /\ KeptForEveryJob' /\ EndInv'
    BY <1>a, <2>1 DEF CountInv, Beyond, KeptForEveryJob, EndInv, Joined, Alive
  <2> QED
    BY <2>4, <2>5, <2>6 DEF StageInv
<1>2. CASE \/ Ready(o) \/ StartBatch(o) \/ EndOwner(o)
           \/ FailStart(o) \/ FailOwner(o) \/ Terminate(o)
  <2>1. /\ \/ owner' = [owner EXCEPT ![o] = "preparing"] /\ Len(pending[o]) < Window
           \/ \E s \in {"running", "done", "failed", "unready", "gone"} :
                 owner' = [owner EXCEPT ![o] = s]
        /\ owner[o] \in {"starting", "running", "preparing"}
        /\ UNCHANGED <<staged, used, pending, prepared, position, job, stop, run>>
        /\ failures' \in 0..MaxFailures
    BY <1>0, <1>2 DEF Ready, StartBatch, WindowOpen, EndOwner, FailStart, FailOwner, Terminate, Alive
  <2>2. CoorDLTypeOK'
    <3>1. owner' \in [Jobs -> OwnerStates]
      BY <1>0, <2>1 DEF OwnerStates
    <3> QED
      BY <1>0, <2>1, <3>1 DEF CoorDLTypeOK
  <2>3. QueueInv'
    BY <1>0, <1>a, <2>1 DEF QueueInv, Owned
  <2>4. EndInv'
    BY <1>0, <1>a, <2>1 DEF EndInv, Joined, Alive
  <2>5. CountInv' /\ KeptForEveryJob'
    BY <1>a, <2>1 DEF CountInv, Beyond, KeptForEveryJob
  <2> QED
    BY <2>2, <2>3, <2>4, <2>5 DEF StageInv
<1>3. CASE Publish(o)
  <2>1. PICK b \in Left(o) : /\ staged' = staged \cup {b}
                             /\ used' = [used EXCEPT ![b] = 0]
                             /\ pending' = [pending EXCEPT ![o] = Append(pending[o], b)]
                             /\ prepared' = [prepared EXCEPT ![o] = prepared[o] \cup {b}]
    BY <1>3 DEF Publish
  <2>2. /\ owner[o] = "preparing" /\ owner' = [owner EXCEPT ![o] = "running"]
        /\ UNCHANGED <<position, job, stop, run, failures>>
    BY <1>3 DEF Publish
  <2>3. b \in Batches /\ \A p \in Jobs : b \in Owned(p) => p = o
    BY DEF Left, Owned
  <2>4. /\ Append(pending[o], b) \in Seq(Batches)
        /\ Len(Append(pending[o], b)) = Len(pending[o]) + 1
        /\ Range(Append(pending[o], b)) = Range(pending[o]) \cup {b}
    BY <1>0, <2>3, AppendedRange
  <2>5. Len(pending[o]) \in Nat /\ Len(pending[o]) < Window
    BY <1>0, <1>a, <2>2 DEF QueueInv
  <2>6. CoorDLTypeOK'
    <3>1. pending' \in [Jobs -> Seq(Batches)] /\ \A p \in Jobs : Len(pending'[p]) <= Window
      BY <1>0, <2>1, <2>4, <2>5
    <3>2. used' \in [Batches -> 0..NumJobs] /\ staged' \subseteq Batches
      BY <1>0, <2>1, <2>3
    <3>3. prepared' \in [Jobs -> SUBSET Batches]
          /\ owner' \in [Jobs -> OwnerStates]
      BY <1>0, <2>1, <2>2, <2>3 DEF OwnerStates
    <3> QED
      BY <1>0, <2>2, <3>1, <3>2, <3>3 DEF CoorDLTypeOK
  <2>7. CountInv'
    <3> SUFFICES ASSUME NEW c \in Batches
                 PROVE  used'[c] <= Cardinality(Beyond(c))
      BY <2>2 DEF CountInv, Beyond
    <3>1. used[c] <= Cardinality(Beyond(c)) /\ used[c] \in Nat
      BY <1>0, <1>a DEF CountInv
    <3>2. Cardinality(Beyond(c)) \in Nat
      <4>1. Beyond(c) \in SUBSET Jobs
        BY DEF Beyond
      <4> QED
        BY <4>1, JobsAreFinite, FS_Subset, FS_CardinalityType
    <3> QED
      BY <1>0, <2>1, <3>1, <3>2
  <2>8. KeptForEveryJob'
    <3>1. UNION {prepared'[p] : p \in Jobs} \subseteq (UNION {prepared[p] : p \in Jobs}) \cup {b}
      <4>1. \A p \in Jobs : prepared'[p] \subseteq prepared[p] \cup {b}
        BY <1>0, <2>1
      <4> SUFFICES ASSUME NEW p \in Jobs, NEW c \in prepared'[p]
                   PROVE  c \in (UNION {prepared[q] : q \in Jobs}) \cup {b}
        OBVIOUS
      <4>2. c \in prepared[p] \/ c = b
        BY <4>1
      <4>3. prepared[p] \in {prepared[q] : q \in Jobs}
        OBVIOUS
      <4> QED
        BY ONLY <4>2, <4>3
    <3> QED
      BY <1>a, <2>1, <2>2, <3>1 DEF KeptForEveryJob
  <2>9. QueueInv'
    <3> SUFFICES ASSUME NEW p \in Jobs
                 PROVE  /\ staged' \cap Owned(p) \subseteq Range(pending'[p])
                        /\ owner'[p] = "preparing" => Len(pending'[p]) < Window
      BY DEF QueueInv, Owned
    <3>1. /\ staged \cap Owned(p) \subseteq Range(pending[p])
          /\ owner[p] = "preparing" => Len(pending[p]) < Window
      BY <1>a DEF QueueInv
    <3>2. CASE p = o
      BY <1>0, <2>1, <2>2, <2>4, <3>1, <3>2
    <3>3. CASE p # o
      <4>1. pending'[p] = pending[p] /\ owner'[p] = owner[p]
        BY <1>0, <2>1, <2>2, <3>3
      <4> QED
        BY <2>1, <2>3, <3>1, <3>3, <4>1
    <3> QED
      BY <3>2, <3>3
  <2>10. EndInv'
    <3>1. ~Joined /\ run \notin {"aborted", "cleared"}
      BY <1>a, <2>2 DEF EndInv, Joined, Alive
    <3> QED
      BY <1>a, <2>2, <3>1 DEF EndInv
  <2> QED
    BY <2>6, <2>7, <2>8, <2>9, <2>10 DEF StageInv
<1> QED
  BY <1>1, <1>2, <1>3 DEF Prepare

LEMMA JobStep ==
    ASSUME StageInv, NEW j \in Jobs,
           Train(j) \/ FailJob(j) \/ TimeOut(j) \/ SlowBatch(j)
    PROVE  StageInv'
<1> USE DEF ownerVars, jobVars
<1>0. /\ CoorDLTypeOK /\ staged \subseteq Batches
      /\ used \in [Batches -> 0..NumJobs]
      /\ position \in [Jobs -> 0..TotalBatches] /\ TotalBatches \in Nat
      /\ job \in [Jobs -> {"off", "running", "done", "failed"}]
      /\ NumJobs \in Nat /\ failures \in 0..MaxFailures /\ MaxFailures \in Nat
      /\ CountInv /\ KeptForEveryJob /\ QueueInv /\ EndInv
      /\ Batches = 0..(TotalBatches - 1)
  BY PlanAssumption DEF StageInv, CoorDLTypeOK, Batches
<1>a. job[j] = "running" /\ run = "jobs" /\ UNCHANGED <<pending, prepared, owner, stop, run>>
  <2>1. job[j] = "running" /\ UNCHANGED <<pending, prepared, owner, stop, run>>
    BY DEF Train, Consume, FinishTraining, FailJob, TimeOut, SlowBatch, GiveUpWait
  <2> QED
    BY <1>0, <2>1 DEF EndInv, CoorDLTypeOK, RunStates
<1>b. QueueInv' <=> \A o \in Jobs : /\ staged' \cap Owned(o) \subseteq Range(pending[o])
                                    /\ owner[o] = "preparing" => Len(pending[o]) < Window
  BY <1>a DEF QueueInv, Owned
<1>c. (\A i \in Jobs : job'[i] # "off") => EndInv'
  BY <1>a DEF EndInv
<1>d. \A i \in Jobs : job[i] # "off"
  BY <1>0, <1>a DEF EndInv
<1>1. CASE Consume(j)
  <2>0. PICK b \in Batches : b = position[j]
    BY <1>0, <1>1 DEF Consume
  <2>1. /\ b \in staged
        /\ position' = [position EXCEPT ![j] = b + 1]
        /\ used' = [used EXCEPT ![b] = used[b] + 1]
        /\ staged' = IF LastUse(used[b] + 1) THEN staged \ {b} ELSE staged
        /\ UNCHANGED <<job, failures>>
    BY <1>0, <1>1, <2>0 DEF Consume
  <2>b. EndInv'
    BY <1>c, <1>d, <2>1
  <2>2. \A i \in Jobs : /\ position'[i] \in 0..TotalBatches /\ position'[i] \in Int
                        /\ position[i] \in Int /\ position[i] <= position'[i]
    BY <1>0, <2>0, <2>1
  <2>a. position[j] = b /\ position'[j] > b
    BY <1>0, <2>0, <2>1
  <2>3. \A c \in Batches : used'[c] <= Cardinality(Beyond(c)') /\ used'[c] \in 0..NumJobs
    <3> SUFFICES ASSUME NEW c \in Batches
                 PROVE  used'[c] <= Cardinality(Beyond(c)') /\ used'[c] \in 0..NumJobs
      OBVIOUS
    <3>1. /\ Cardinality(Beyond(c)) \in 0..NumJobs /\ Cardinality(Beyond(c)') \in 0..NumJobs
          /\ Cardinality(Beyond(c)) <= Cardinality(Beyond(c)')
          /\ c = b => Cardinality(Beyond(c)) + 1 <= Cardinality(Beyond(c)')
      BY <1>0, <2>2, <2>a, BeyondGrows
    <3>2. used[c] \in 0..NumJobs /\ used[c] <= Cardinality(Beyond(c))
      BY <1>0 DEF CountInv
    <3>3. used'[c] = IF c = b THEN used[c] + 1 ELSE used[c]
      BY <1>0, <2>1
    <3> QED
      BY <1>0, <3>1, <3>2, <3>3
  <2>4. CoorDLTypeOK'
    <3>1. position' \in [Jobs -> 0..TotalBatches]
      BY <1>0, <2>1, <2>2
    <3>2. used' \in [Batches -> 0..NumJobs]
      BY <1>0, <2>1, <2>3
    <3> QED
      BY <1>0, <1>a, <2>1, <3>1, <3>2 DEF CoorDLTypeOK
  <2>5. KeptForEveryJob'
    <3> SUFFICES ASSUME NEW c \in UNION {prepared[o] : o \in Jobs}, NEW i \in Jobs,
                        job[i] \in {"off", "running"}, position'[i] <= c
                 PROVE  c \in staged'
      BY <1>a, <2>1 DEF KeptForEveryJob
    <3>1. c \in Batches /\ c \in Int
      BY <1>0 DEF CoorDLTypeOK
    <3>a. position[i] <= c
      BY <2>2, <3>1
    <3>2. c \in staged
      BY <1>0, <3>a DEF KeptForEveryJob
    <3>3. CASE c = b /\ LastUse(used[b] + 1)
      <4>1. used'[b] = used[b] + 1
        BY <1>0, <2>1
      <4>2. Cardinality(Beyond(b)') \in 0..NumJobs
        BY <1>0, <2>2, <2>a, BeyondGrows
      <4>3. Cardinality(Beyond(b)') = NumJobs
        BY <1>0, <2>1, <2>3, <3>3, <4>1, <4>2 DEF LastUse
      <4>4. position'[i] > b
        BY <1>0, <2>2, <4>3, BeyondGrows
      <4> QED
        BY <1>0, <2>2, <3>1, <3>3, <4>4
    <3> QED
      BY <2>1, <3>2, <3>3
  <2>6. QueueInv'
    BY <1>0, <1>b, <2>1 DEF QueueInv
  <2>7. CountInv'
    BY <2>3 DEF CountInv
  <2> QED
    BY <2>b, <2>4, <2>5, <2>6, <2>7 DEF StageInv
<1>2. CASE FinishTraining(j) \/ FailJob(j) \/ TimeOut(j) \/ SlowBatch(j)
  <2>1. /\ \E s \in {"done", "failed"} : job' = [job EXCEPT ![j] = s]
        /\ \/ position' = position
           \/ position[j] \in Batches /\ position' = [position EXCEPT ![j] = position[j] + 1]
        /\ UNCHANGED <<staged, used>> /\ failures' \in 0..MaxFailures
    BY <1>0, <1>2 DEF FinishTraining, FailJob, TimeOut, SlowBatch, GiveUpWait
  <2>b. EndInv'
    BY <1>0, <1>c, <1>d, <2>1
  <2>2. \A i \in Jobs : /\ position'[i] \in 0..TotalBatches /\ position'[i] \in Int
                        /\ position[i] \in Int /\ position[i] <= position'[i]
    <3>1. \A i \in Jobs : position[i] \in 0..TotalBatches
      BY <1>0
    <3>2. \A i \in Jobs : \/ position'[i] = position[i]
                          \/ position[i] \in Batches /\ position'[i] = position[i] + 1
      BY <1>0, <2>1
    <3> QED
      BY <1>0, <3>1, <3>2
  <2>3. CoorDLTypeOK'
    <3>1. position' \in [Jobs -> 0..TotalBatches]
      BY <1>0, <2>1, <2>2
    <3> QED
      BY <1>0, <1>a, <2>1, <3>1 DEF CoorDLTypeOK
  <2>4. CountInv'
    <3> SUFFICES ASSUME NEW c \in Batches
                 PROVE  used[c] <= Cardinality(Beyond(c)')
      BY <2>1 DEF CountInv
    <3>1. /\ Cardinality(Beyond(c)) \in 0..NumJobs /\ Cardinality(Beyond(c)') \in 0..NumJobs
          /\ Cardinality(Beyond(c)) <= Cardinality(Beyond(c)')
      BY <1>0, <2>2, BeyondGrows
    <3>2. used[c] \in 0..NumJobs /\ used[c] <= Cardinality(Beyond(c))
      BY <1>0 DEF CountInv
    <3> QED
      BY <1>0, <3>1, <3>2
  <2>5. KeptForEveryJob'
    <3> SUFFICES ASSUME NEW c \in UNION {prepared[o] : o \in Jobs}, NEW i \in Jobs,
                        job'[i] \in {"off", "running"}, position'[i] <= c
                 PROVE  c \in staged
      BY <1>a, <2>1 DEF KeptForEveryJob
    <3>1. c \in Batches /\ c \in Int /\ job[i] \in {"off", "running"}
      BY <1>0, <2>1 DEF CoorDLTypeOK
    <3>2. position[i] <= c
      BY <2>2, <3>1
    <3> QED
      BY <1>0, <3>1, <3>2 DEF KeptForEveryJob
  <2>6. QueueInv'
    BY <1>0, <1>b, <2>1 DEF QueueInv
  <2> QED
    BY <2>b, <2>3, <2>4, <2>5, <2>6 DEF StageInv
<1> QED
  BY <1>1, <1>2 DEF Train

LEMMA RunStep ==
    ASSUME StageInv, Parent \/ SlowStart \/ UNCHANGED vars
    PROVE  StageInv'
<1> USE DEF ownerVars, jobVars
<1>0. CoorDLTypeOK /\ CountInv /\ KeptForEveryJob /\ QueueInv /\ EndInv
  BY DEF StageInv
<1>1. CASE \/ StartFails \/ SlowStart \/ GiveUp \/ StopOwners \/ UNCHANGED vars
  <2>1. /\ UNCHANGED <<staged, used, pending, prepared, owner, position, job>>
        /\ stop' \in BOOLEAN /\ failures' \in 0..MaxFailures
        /\ \/ UNCHANGED run
           \/ run = "start" /\ run' = "aborting"
           \/ run = "aborting" /\ run' = "aborted" /\ Joined
           \/ run = "jobs" /\ run' = "owners" /\ \A j \in Jobs : job[j] # "running"
    <3>1. failures' \in 0..MaxFailures
      BY <1>0, <1>1, PlanAssumption
      DEF StartFails, SlowStart, GiveUp, StopOwners, vars, CoorDLTypeOK
    <3> QED
      BY <1>0, <1>1, <3>1
      DEF StartFails, SlowStart, Abort, GiveUp, StopOwners, vars, CoorDLTypeOK
  <2>2. CoorDLTypeOK'
    <3>1. run' \in RunStates
      BY <1>0, <2>1 DEF CoorDLTypeOK, RunStates
    <3> QED
      BY <1>0, <2>1, <3>1 DEF CoorDLTypeOK
  <2>3. CountInv' /\ KeptForEveryJob' /\ QueueInv'
    BY <1>0, <2>1 DEF CountInv, Beyond, KeptForEveryJob, QueueInv, Owned
  <2>4. EndInv'
    BY <1>0, <2>1 DEF EndInv, Joined, Alive
  <2> QED
    BY <2>2, <2>3, <2>4 DEF StageInv
<1>2. CASE StartJobs
  <2>1. /\ run = "start" /\ run' = "jobs" /\ job' = [j \in Jobs |-> "running"]
        /\ UNCHANGED <<staged, used, pending, prepared, owner, position, stop, failures>>
    BY <1>2 DEF StartJobs
  <2>2. \A j \in Jobs : job[j] = "off"
    BY <1>0, <2>1 DEF EndInv
  <2>3. CoorDLTypeOK'
    BY <1>0, <2>1 DEF CoorDLTypeOK, RunStates
  <2>4. CountInv' /\ QueueInv' /\ EndInv'
    BY <1>0, <2>1 DEF CountInv, Beyond, QueueInv, Owned, EndInv
  <2>5. KeptForEveryJob'
    BY <1>0, <2>1, <2>2 DEF KeptForEveryJob
  <2> QED
    BY <2>3, <2>4, <2>5 DEF StageInv
<1>3. CASE ClearNamespace
  <2>1. /\ run = "owners" /\ Joined /\ run' = "cleared" /\ staged' = {}
        /\ used' = [b \in Batches |-> 0]
        /\ UNCHANGED <<pending, prepared, owner, position, job, stop, failures>>
    BY <1>3 DEF ClearNamespace
  <2>2. \A j \in Jobs : job[j] \notin {"off", "running"}
    BY <1>0, <2>1 DEF EndInv
  <2>3. CoorDLTypeOK'
    <3>1. used' \in [Batches -> 0..NumJobs]
      BY <2>1, PlanAssumption
    <3> QED
      BY <1>0, <2>1, <3>1 DEF CoorDLTypeOK, RunStates
  <2>4. CountInv'
    <3> SUFFICES ASSUME NEW b \in Batches
                 PROVE  used'[b] <= Cardinality(Beyond(b))
      BY <2>1 DEF CountInv, Beyond
    <3>1. Beyond(b) \in SUBSET Jobs
      BY DEF Beyond
    <3>2. Cardinality(Beyond(b)) \in Nat
      BY <3>1, JobsAreFinite, FS_Subset, FS_CardinalityType
    <3> QED
      BY <2>1, <3>2
  <2>5. KeptForEveryJob' /\ QueueInv' /\ EndInv'
    BY <1>0, <2>1, <2>2 DEF KeptForEveryJob, QueueInv, EndInv, Joined, Alive
  <2> QED
    BY <2>3, <2>4, <2>5 DEF StageInv
<1> QED
  BY <1>1, <1>2, <1>3 DEF Parent

-----------------------------------------------------------------------------
(* The theorems *)

LEMMA Invariance == Spec => []StageInv
<1>1. StageInv /\ [Next]_vars => StageInv'
  BY OwnerStep, JobStep, RunStep DEF Next, Parent, Ended
<1> QED
  BY <1>1, InitStage, PTL DEF Spec

\* A batch that an owner published, before or after the jobs were started, stays in
\* Redis until every job that trains or is yet to start has had it: the count that
\* deletes it counts jobs that are past it.
THEOREM EveryJobFindsIt == Spec => []KeptForEveryJob
BY Invariance, PTL DEF StageInv

\* However far the jobs are apart, no owner has more than its window of batches
\* in Redis.
THEOREM StagingIsBounded == Spec => []StagedBounded
<1>1. StageInv => StagedBounded
  <2> SUFFICES ASSUME StageInv, NEW o \in Jobs
               PROVE  Cardinality(staged \cap Owned(o)) <= Window
    BY DEF StageInv, StagedBounded
  <2>1. pending[o] \in Seq(Batches) /\ Len(pending[o]) <= Window
        /\ Len(pending[o]) \in Nat /\ Window \in Nat
    BY PlanAssumption DEF StageInv, CoorDLTypeOK
  <2>2. staged \cap Owned(o) \in SUBSET Range(pending[o])
    BY DEF StageInv, QueueInv
  <2>3. IsFiniteSet(Range(pending[o])) /\ Cardinality(Range(pending[o])) <= Len(pending[o])
    BY <2>1, QueueHoldsItsLength
  <2>4. /\ IsFiniteSet(staged \cap Owned(o))
        /\ Cardinality(staged \cap Owned(o)) <= Cardinality(Range(pending[o]))
    BY <2>2, <2>3, FS_Subset
  <2>5. /\ Cardinality(staged \cap Owned(o)) \in Nat
        /\ Cardinality(Range(pending[o])) \in Nat
    BY <2>3, <2>4, FS_CardinalityType
  <2> QED
    BY <2>1, <2>3, <2>4, <2>5
<1> QED
  BY <1>1, Invariance, PTL

\* When the run is over every owner was joined or killed, so nobody publishes
\* afterwards.  Nothing is left in Redis, but for what ready owners had staged
\* when the start of another failed.
THEOREM StartedRunsLeaveNothing == Spec => []OnlyFailedStartLeaves
<1>1. StageInv => OnlyFailedStartLeaves
  BY DEF StageInv, EndInv, Joined, OnlyFailedStartLeaves
<1> QED
  BY <1>1, Invariance, PTL

=============================================================================
