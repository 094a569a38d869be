---------------------------- MODULE TensorSocket ----------------------------
(***************************************************************************)
(* The TensorSocket baseline: one producer prepares every batch once and   *)
(* publishes it to the consumer in each job's process.  A consumer may     *)
(* have at most BufferSize unacknowledged batches, and nobody may be sent  *)
(* a batch more than MaxLag after the slowest acknowledgement.             *)
(*                                                                         *)
(* Data go over a PUB/SUB socket: a message reaches the subscribers known  *)
(* at that time, and is dropped for one whose pipe is full.  Nothing is    *)
(* sent twice.  Control messages go over PUSH/PULL and keep their order    *)
(* per consumer.  A wait that finds nothing is left out; a drain of the    *)
(* control socket that sees only part of what is under way is a drain that *)
(* ended early.                                                            *)
(***************************************************************************)
EXTENDS Integers, Sequences, FiniteSets, FiniteSetsExt

CONSTANTS Jobs,
          Need,         \* per job: warmup and measured batches
          BufferSize,   \* consumer_buffer_size
          MaxLag,       \* max_lag_batches
          PipeSize,     \* messages a pipe holds: both high-water marks
          MaxFaults     \* bound: faults per behaviour

ASSUME SocketAssumption ==
    /\ Jobs # {} /\ IsFiniteSet(Jobs)
    /\ Need \in [Jobs -> Nat \ {0}]
    /\ {BufferSize, PipeSize} \subseteq Nat \ {0}
    /\ MaxLag \in Nat /\ MaxLag >= BufferSize
    /\ MaxFaults \in Nat

Shutdown == -1     \* stands in a data stream for the "shutdown" message

Register == [type |-> "register", index |-> -1]
AckOf(i) == [type |-> "ack", index |-> i]
Close == [type |-> "close", index |-> -1]

VARIABLES
    producer,      \* "starting", "waiting", "serving", "closed" or "killed"
    lastSent,      \* ConsumerState.last_sent of the registered consumers
    lastAcked,     \* ConsumerState.last_acked of the registered consumers
    nextIndex,     \* next_batch_index
    buffer,        \* the indices in buffer and buffer_by_index
    subscribed,    \* the consumers whose subscription the producer knows
    pipe,          \* per consumer: its part of each message under way
    control,       \* per consumer: its control messages under way
    todo,          \* per consumer: what the fetch thread has still to put
    fetch,         \* per consumer: "off", "poll", "put" or "over"
    lastReceived,  \* per consumer: _last_received
    queue,         \* per consumer: its bounded buffer
    trainer,       \* per job, see TrainerState
    yielded,       \* per job: the batches its training loop got
    run,           \* "starting", "jobs", "stopping" (stop_event) or "ended"
    faults

producerVars == <<producer, lastSent, lastAcked, nextIndex, buffer>>
netVars == <<subscribed, pipe, control>>
fetchVars == <<todo, fetch, lastReceived, queue>>
jobVars == <<trainer, yielded>>
vars == <<producerVars, netVars, fetchVars, jobVars, run, faults>>

\* A job that is "abandoned" failed while it was set up and left its consumer open.
TrainerState ==
    {"off", "training", "closing", "ended", "abandoned"}

Init ==
    /\ producer = "starting"
    /\ lastSent = <<>> /\ lastAcked = <<>>
    /\ nextIndex = 0
    /\ buffer = {}
    /\ subscribed = {}
    /\ pipe = [j \in Jobs |-> <<>>]
    /\ control = [j \in Jobs |-> <<>>]
    /\ todo = [j \in Jobs |-> <<>>]
    /\ fetch = [j \in Jobs |-> "off"]
    /\ lastReceived = [j \in Jobs |-> -1]
    /\ queue = [j \in Jobs |-> <<>>]
    /\ trainer = [j \in Jobs |-> "off"]
    /\ yielded = [j \in Jobs |-> <<>>]
    /\ run = "starting"
    /\ faults = 0

Fault == faults < MaxFaults /\ faults' = faults + 1

-----------------------------------------------------------------------------
(* TensorProducer *)

Consumers == DOMAIN lastSent

SlowestAcked == Min({lastAcked[c] : c \in Consumers})

\* The producer binds its sockets and reports "ready"; the jobs are submitted.
Ready ==
    /\ producer = "starting"
    /\ producer' = "waiting"
    /\ run' = IF run = "starting" THEN "jobs" ELSE run
    /\ UNCHANGED <<lastSent, lastAcked, nextIndex, buffer, netVars, fetchVars,
                   jobVars, faults>>

\* It fails before that, or is too late for the startup timeout.
StartFails ==
    /\ run = "starting"
    /\ Fault
    /\ producer' \in {"starting", "closed"}
    /\ run' = "stopping"
    /\ UNCHANGED <<lastSent, lastAcked, nextIndex, buffer, netVars, fetchVars,
                   jobVars>>

\* Acknowledgements only count upwards.
Acked(c, i) == [lastAcked EXCEPT ![c] = IF @ < i THEN i ELSE @]

\* One control message; all but "register" need a registered consumer.
DrainControl(c) ==
    /\ producer \in {"waiting", "serving"}
    /\ control[c] # <<>>
    /\ control' = [control EXCEPT ![c] = Tail(@)]
    /\ LET message == Head(control[c])
           known == c \in Consumers
       IN  CASE message.type = "register" ->
                    /\ lastSent' = [d \in Consumers \cup {c} |->
                                       IF d \in Consumers THEN lastSent[d] ELSE -1]
                    /\ lastAcked' = [d \in Consumers \cup {c} |->
                                       IF d \in Consumers THEN lastAcked[d] ELSE -1]
             [] message.type = "ack" /\ known ->
                    lastAcked' = Acked(c, message.index) /\ UNCHANGED lastSent
             [] message.type = "close" /\ known ->
                    /\ lastSent' = [d \in Consumers \ {c} |-> lastSent[d]]
                    /\ lastAcked' = [d \in Consumers \ {c} |-> lastAcked[d]]
             [] OTHER -> UNCHANGED <<lastSent, lastAcked>>
    /\ UNCHANGED <<producer, nextIndex, buffer, subscribed, pipe, fetchVars,
                   jobVars, run, faults>>

\* Mutant: no pause after the last registration.
NoPause == TRUE

Settled == subscribed = Jobs

\* All the expected consumers are registered ...
AllRegistered ==
    /\ producer = "waiting"
    /\ Cardinality(Consumers) = Cardinality(Jobs)
    /\ producer' = "serving"
    /\ UNCHANGED <<lastSent, lastAcked, nextIndex, buffer, netVars, fetchVars,
                   jobVars, run>>

\* ... and a pause lets their subscriptions arrive, ...
Begin == AllRegistered /\ Settled /\ UNCHANGED faults

\* ... or is too short.
BeginEarly == AllRegistered /\ ~Settled /\ Fault

Interval(from, to) == [k \in 1..(to - from + 1) |-> from + k - 1]

MinOf(a, b) == IF a < b THEN a ELSE b

\* Mutant: a consumer's unacknowledged batches are not counted.
SendLimitUncredited(c) == MinOf(lastSent[c] + BufferSize, SlowestAcked + MaxLag)

\* Mutant: the lag is not limited.
SendLimitLagging(c) == lastAcked[c] + BufferSize

\* Mutant: the larger limit counts.
SendLimitLarger(c) == Max({lastAcked[c] + BufferSize, SlowestAcked + MaxLag})

\* The last batch that may be sent to c: its free slots and the slowest consumer.
SendLimit(c) == MinOf(lastAcked[c] + BufferSize, SlowestAcked + MaxLag)

\* Mutant: the batches that somebody acknowledged are dropped.
KeptForSlowest == {b \in buffer : \A c \in Consumers : b > lastAcked[c]}

\* Mutant: the batch acknowledged last is kept.
KeptOneMore == {b \in buffer : b >= SlowestAcked}

\* The batches that everybody acknowledged are dropped ...
Kept == {b \in buffer : b > SlowestAcked}

\* ... then the buffer is filled through the last batch that is due.
Filled ==
    LET needed == Max({SendLimit(c) : c \in Consumers})
    IN  Kept \cup (nextIndex..needed)

\* What c is sent: its next batches, up to the first that is not in the buffer.
PartOf(c) ==
    LET due == (lastSent[c] + 1)..SendLimit(c)
        prepared == {i \in due : (lastSent[c] + 1)..i \subseteq Filled}
    IN  Interval(lastSent[c] + 1, lastSent[c] + Cardinality(prepared))

\* A message reaches the subscribers; a pipe that is full loses it.
Published(part) ==
    [c \in Jobs |-> IF c \in subscribed /\ Len(pipe[c]) < PipeSize
                    THEN Append(pipe[c], part[c]) ELSE pipe[c]]

\* One round of the producer: prune the buffer, fill it, publish what is due.
Serve ==
    /\ producer = "serving" /\ run # "stopping"
    /\ Consumers # {}
    /\ LET part == [c \in Jobs |-> IF c \in Consumers THEN PartOf(c) ELSE <<>>]
           due == {c \in Consumers : part[c] # <<>>}
       IN  IF due = {}
           THEN /\ buffer' = Kept
                /\ UNCHANGED <<lastSent, nextIndex, pipe>>
           ELSE /\ buffer' = Filled
                /\ nextIndex' = Max(Filled \cup {nextIndex - 1}) + 1
                /\ lastSent' = [c \in Consumers |->
                                   lastSent[c] + Len(part[c])]
                /\ pipe' = Published(part)
    /\ UNCHANGED <<producer, lastAcked, subscribed, control, fetchVars, jobVars,
                   run, faults>>

\* close: "shutdown" is published, or lost as the socket does not linger.
CloseProducer ==
    /\ producer' = "closed"
    /\ pipe' \in {pipe, Published([c \in Jobs |-> <<Shutdown>>])}
    /\ UNCHANGED <<lastSent, lastAcked, nextIndex, buffer, subscribed, control,
                   fetchVars, jobVars, run>>

\* The data loader raises.
LoaderFails ==
    /\ producer = "serving"
    /\ Fault
    /\ CloseProducer

StopProducer ==
    /\ producer \in {"waiting", "serving"}
    /\ run = "stopping"
    /\ UNCHANGED faults
    /\ CloseProducer

-----------------------------------------------------------------------------
(* TensorConsumer *)

\* A job creates its consumer, which connects and registers itself.
Connect(j) ==
    /\ run = "jobs"
    /\ trainer[j] = "off"
    /\ trainer' = [trainer EXCEPT ![j] = "training"]
    /\ fetch' = [fetch EXCEPT ![j] = "poll"]
    /\ control' = [control EXCEPT ![j] = Append(@, Register)]
    /\ UNCHANGED <<producerVars, subscribed, pipe, todo, lastReceived, queue,
                   yielded, run, faults>>

Connected(j) == trainer[j] \notin {"off", "ended"}

\* The subscription reaches the producer.
Subscribe(j) ==
    /\ producer \in {"waiting", "serving"}
    /\ Connected(j)
    /\ subscribed' = subscribed \cup {j}
    /\ UNCHANGED <<producerVars, pipe, control, fetchVars, jobVars, run, faults>>

\* The fetch thread takes a message, which may have nothing for this consumer.
Receive(j) ==
    /\ fetch[j] = "poll" /\ pipe[j] # <<>>
    /\ todo' = [todo EXCEPT ![j] = Head(pipe[j])]
    /\ fetch' = [fetch EXCEPT ![j] = IF Head(pipe[j]) = <<>> THEN "poll" ELSE "put"]
    /\ pipe' = [pipe EXCEPT ![j] = Tail(@)]
    /\ UNCHANGED <<producerVars, subscribed, control, lastReceived, queue,
                   jobVars, run, faults>>

\* A batch received before is skipped.
Skipped(j, item) == item # Shutdown /\ item <= lastReceived[j]

\* It waits for room in the buffer, acknowledges a batch once it is there, and ends
\* after a shutdown.  Whoever takes the batch before the acknowledgement is sent
\* changes nothing the producer sees.
Put(j) ==
    /\ fetch[j] = "put"
    /\ LET item == Head(todo[j])
           fresh == ~Skipped(j, item)
           batch == fresh /\ item # Shutdown
       IN
       /\ fresh => Len(queue[j]) < BufferSize
       /\ queue' = [queue EXCEPT ![j] = IF fresh THEN Append(@, item) ELSE @]
       /\ todo' = [todo EXCEPT ![j] = Tail(@)]
       /\ fetch' = [fetch EXCEPT ![j] = IF item = Shutdown THEN "over"
                                       ELSE IF Len(todo[j]) = 1 THEN "poll" ELSE "put"]
       /\ lastReceived' = [lastReceived EXCEPT ![j] = IF batch THEN item ELSE @]
       /\ control' = [control EXCEPT ![j] = IF batch THEN Append(@, AckOf(item)) ELSE @]
    /\ UNCHANGED <<producerVars, subscribed, pipe, jobVars, run, faults>>

\* close() in the job's process: "close" is sent, the sockets are closed, and a fetch
\* thread that is blocked in the buffer is left behind.  What the control socket has
\* not sent by then may be lost, as it does not linger.
CloseConsumer(j) ==
    /\ trainer[j] = "closing"
    /\ trainer' = [trainer EXCEPT ![j] = "ended"]
    /\ fetch' = [fetch EXCEPT ![j] = "over"]
    /\ subscribed' = subscribed \ {j}
    /\ pipe' = [pipe EXCEPT ![j] = <<>>]
    /\ \/ control' = [control EXCEPT ![j] = Append(@, Close)] /\ UNCHANGED faults
       \/ Fault /\ UNCHANGED control
    /\ UNCHANGED <<producerVars, todo, lastReceived, queue, yielded, run>>

-----------------------------------------------------------------------------
(* The jobs and run_tensorsocket_jobs *)

\* The training loop takes the next batch; the last one or a shutdown ends it.
Train(j) ==
    /\ trainer[j] = "training" /\ queue[j] # <<>>
    /\ queue' = [queue EXCEPT ![j] = Tail(@)]
    /\ LET item == Head(queue[j])
           ends == item = Shutdown \/ Len(yielded[j]) + 1 = Need[j]
       IN  /\ yielded' = [yielded EXCEPT ![j] =
                             IF item = Shutdown THEN @ ELSE Append(@, item)]
           /\ trainer' = [trainer EXCEPT ![j] = IF ends THEN "closing" ELSE @]
    /\ UNCHANGED <<producerVars, netVars, todo, fetch, lastReceived, run, faults>>

\* A wait for a batch ends after receive_timeout_seconds: ...
GiveUpWait(j) ==
    /\ trainer[j] = "training" /\ queue[j] = <<>>
    /\ trainer' = [trainer EXCEPT ![j] = "closing"]
    /\ UNCHANGED <<producerVars, netVars, fetchVars, yielded, run>>

\* ... something failed before, ...
TimeOut(j) == GiveUpWait(j) /\ faults > 0 /\ UNCHANGED faults

\* ... or this batch is late.
SlowBatch(j) == GiveUpWait(j) /\ Fault

\* The job raises: before it has a consumer, between the construction of the
\* consumer and the block that closes it, or in the training loop.
JobFails(j) ==
    /\ run = "jobs"
    /\ Fault
    /\ \/ trainer[j] = "off" /\ trainer' = [trainer EXCEPT ![j] = "ended"]
       \/ /\ trainer[j] = "training" /\ yielded[j] = <<>>
          /\ trainer' = [trainer EXCEPT ![j] = "abandoned"]
       \/ trainer[j] = "training" /\ trainer' = [trainer EXCEPT ![j] = "closing"]
    /\ UNCHANGED <<producerVars, netVars, fetchVars, yielded, run>>

Over(j) == trainer[j] \in {"ended", "abandoned"}

\* Mutant: the first job that is over stops the run.
FirstJobOver == \E j \in Jobs : Over(j)

AllJobsOver == \A j \in Jobs : Over(j)

\* stop_event is set.
StopRun ==
    /\ run = "jobs"
    /\ AllJobsOver
    /\ run' = "stopping"
    /\ UNCHANGED <<producerVars, netVars, fetchVars, jobVars, faults>>

\* A producer that is not joined in time is terminated.
Terminate ==
    /\ run = "stopping"
    /\ producer \in {"starting", "waiting", "serving"}
    /\ producer' = "killed"
    /\ UNCHANGED <<lastSent, lastAcked, nextIndex, buffer, netVars, fetchVars,
                   jobVars, run, faults>>

EndRun ==
    /\ run = "stopping"
    /\ producer \in {"closed", "killed"}
    /\ run' = "ended"
    /\ UNCHANGED <<producerVars, netVars, fetchVars, jobVars, faults>>

Ended == run = "ended" /\ UNCHANGED vars

-----------------------------------------------------------------------------
Produce == Ready \/ Begin \/ Serve \/ StopProducer
Fetch(j) == Receive(j) \/ Put(j)
Work(j) == Connect(j) \/ Train(j) \/ TimeOut(j) \/ CloseConsumer(j)
Finish == StopRun \/ EndRun

Next ==
    \/ Produce \/ StartFails \/ BeginEarly \/ LoaderFails \/ Terminate \/ Finish \/ Ended
    \/ \E j \in Jobs : \/ DrainControl(j) \/ Subscribe(j) \/ Fetch(j)
                       \/ Work(j) \/ SlowBatch(j) \/ JobFails(j)

Spec == Init /\ [][Next]_vars

\* The processes and threads run and the sockets deliver; TimeOut belongs to the
\* job, since a wait ends at its deadline once something has failed.
Fairness ==
    /\ WF_vars(Produce)
    /\ WF_vars(Finish)
    /\ \A j \in Jobs :
          /\ WF_vars(DrainControl(j))
          /\ WF_vars(Subscribe(j))
          /\ WF_vars(Fetch(j))
          /\ WF_vars(Work(j))

FairSpec == Spec /\ Fairness

-----------------------------------------------------------------------------
(* Properties *)

\* No batch is prepared beyond what the neediest job may have in its buffer and
\* unacknowledged.
Index == 0..(Max({Need[j] : j \in Jobs}) + 2 * BufferSize)

TensorSocketTypeOK ==
    /\ producer \in {"starting", "waiting", "serving", "closed", "killed"}
    /\ Consumers \subseteq Jobs
    /\ lastSent \in [Consumers -> Index \cup {-1}]
    /\ lastAcked \in [Consumers -> Index \cup {-1}]
    /\ nextIndex \in Index
    /\ buffer \subseteq Index
    /\ subscribed \subseteq Jobs
    /\ \A j \in Jobs :
          /\ Len(pipe[j]) <= PipeSize
          /\ \A k \in DOMAIN pipe[j] : pipe[j][k] \in Seq(Index \cup {Shutdown})
          /\ \A k \in DOMAIN control[j] :
                control[j][k] \in {Register, Close} \cup {AckOf(i) : i \in Index}
          /\ {todo[j], queue[j]} \subseteq Seq(Index \cup {Shutdown})
          /\ yielded[j] \in Seq(Index)
    /\ fetch \in [Jobs -> {"off", "poll", "put", "over"}]
    /\ lastReceived \in [Jobs -> Index \cup {-1}]
    /\ trainer \in [Jobs -> TrainerState]
    /\ run \in {"starting", "jobs", "stopping", "ended"}
    /\ faults \in 0..MaxFaults

\* What a consumer puts into its buffer is 0, 1, 2, ... without a hole, and after
\* that at most one shutdown, also when its subscription came late: a consumer that
\* missed its first message gets nothing.
InSequence ==
    /\ TensorSocketTypeOK
    /\ \A j \in Jobs :
        LET stream == yielded[j] \o queue[j]
        IN  \A k \in DOMAIN stream :
                \/ stream[k] = k - 1
                \/ k = Len(stream) /\ stream[k] = Shutdown

\* No pipe is full when a message with a batch for its consumer is published: the
\* credits and the lag, and not the high-water marks, are what holds messages back.
NoBatchDropped ==
    [][\A j \in subscribed \cap Consumers :
          Serve /\ lastSent'[j] # lastSent[j] => Len(pipe[j]) < PipeSize]_vars

\* The producer never misses a batch that it has still to send: the break in
\* _build_messages would leave that consumer without data for good.
Servable ==
    \A c \in Consumers : (lastSent[c] + 1)..(nextIndex - 1) \subseteq buffer

\* No consumer is sent a batch more than MaxLag after the last one that any other
\* registered consumer has received, or BufferSize after its own.
WindowHeld ==
    \A c, d \in Consumers : /\ lastSent[c] <= lastReceived[d] + MaxLag
                            /\ lastSent[c] <= lastReceived[c] + BufferSize

\* The shared tensors that the producer keeps alive are bounded by the lag, also
\* while consumers leave.
BufferBounded == Cardinality(buffer) <= MaxLag

\* Without a fault a job only closes its consumer after it had all its batches,
\* whatever the other jobs need.
ServedBeforeClose ==
    \A j \in Jobs : trainer[j] \in {"closing", "ended"} /\ faults = 0
                       => Len(yielded[j]) = Need[j]

\* The run ends, also when a job, the producer or a message is lost.
RunEnds == <>(run = "ended")
=============================================================================
