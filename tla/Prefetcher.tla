---------------------------- MODULE Prefetcher ----------------------------
(***************************************************************************)
(* MultiThreadBatchFlowPrefetcher with the iterator that reads from it: a  *)
(* coordinator thread asks for batches, fetch threads get their bytes, a   *)
(* publish thread acknowledges them and hands them to the training loop in *)
(* order, over three bounded queues.                                       *)
(*                                                                         *)
(* A thread stands at pc[t].  A put that waits for room is one step, taken *)
(* when there is room or given up once stop is set; whether stop was set   *)
(* before the put started is decided when the thread gets there (PutOr).   *)
(* The coordinator and the payload stores are external: a call is answered *)
(* or fails.  Pending answers and queue timeouts change nothing and are    *)
(* left out, except that an empty queue makes a thread try to end.         *)
(***************************************************************************)
EXTENDS Integers, Sequences, FiniteSets

CONSTANTS Fetchers,               \* the fetch threads
          Coord, Publisher,       \* the other two threads
          QueueSize,              \* max_ready_batches
          MaxBatches,             \* max_batches
          Poison, EndItem, ErrorItem

ASSUME SizeAssumption == /\ QueueSize \in Nat \ {0}
                         /\ MaxBatches \in Nat \ {0}
                         /\ IsFiniteSet(Fetchers) /\ Fetchers # {}
ASSUME ThreadAssumption == Coord # Publisher /\ {Coord, Publisher} \cap Fetchers = {}

Threads == Fetchers \cup {Coord, Publisher}
Sequences == 0..(MaxBatches - 1)

ASSUME MarkAssumption ==
    /\ {Poison, EndItem, ErrorItem} \cap Sequences = {}
    /\ EndItem # ErrorItem

VARIABLES
    taskQueue, fetchedQueue, readyQueue,
    stop,             \* _stop_event
    coordinatorDone, endSent, completed,
    scheduled, published,
    hasClient,        \* _coordinator_client is set
    pc,               \* where each thread stands
    resume,           \* where it goes after it tried to end
    held,             \* the batch a fetch thread works on
    poisons,          \* the sentinels the coordinator thread has still to put
    buffered, nextSequence,
    job,              \* the job as the coordinator knows it
    acknowledged,     \* how many batches the coordinator was told of
    iterator,         \* "iterating", "joining", "finishing" or "closed"
    yielded,          \* what the training loop got
    outcome,          \* how its iteration ended
    unclean           \* a join timed out, or FinishJob failed

queues == <<taskQueue, fetchedQueue, readyQueue>>
flags == <<stop, coordinatorDone, endSent, completed>>
publisherVars == <<published, buffered, nextSequence, acknowledged>>
coordVars == <<scheduled, hasClient, poisons, job>>
threadVars == <<pc, resume, held>>
iteratorVars == <<iterator, yielded, outcome, unclean>>
vars == <<queues, flags, publisherVars, coordVars, threadVars, iteratorVars>>

Init ==
    /\ taskQueue = <<>> /\ fetchedQueue = <<>> /\ readyQueue = <<>>
    /\ stop = FALSE /\ coordinatorDone = FALSE
    /\ endSent = FALSE /\ completed = FALSE
    /\ scheduled = 0 /\ published = 0
    /\ hasClient = FALSE
    /\ pc = [t \in Threads |-> IF t = Coord THEN "connect" ELSE "get"]
    /\ resume = [t \in Threads |-> "get"]
    /\ held = [f \in Fetchers |-> 0]
    /\ poisons = Cardinality(Fetchers)
    /\ buffered = {} /\ nextSequence = 0
    /\ job = "none"
    /\ acknowledged = 0
    /\ iterator = "iterating" /\ yielded = <<>> /\ outcome = "open"
    /\ unclean = FALSE

-----------------------------------------------------------------------------
Goto(t, where) == pc' = [pc EXCEPT ![t] = where]

\* _put_task, _put_fetched_result and _put_ready_item test stop before they wait.
PutOr(where, givenUp) == IF stop THEN givenUp ELSE where

HasRoom(queue) == Len(queue) < QueueSize

(* The steps every kind of thread takes: _maybe_send_end and _signal_error *)

\* Mutant: the queues alone decide.
EndDueUncounted ==
    /\ ~endSent /\ coordinatorDone
    /\ taskQueue = <<>> /\ fetchedQueue = <<>>

EndDue ==
    /\ ~endSent /\ coordinatorDone
    /\ taskQueue = <<>> /\ fetchedQueue = <<>>
    /\ published >= scheduled

\* The test under the end lock; EndItem is put after the lock is released.
\* Two tests in a row (a sentinel, then finally) are one: the second repeats it.
TryEnd(t) ==
    /\ pc[t] = "check"
    /\ IF EndDue
       THEN /\ endSent' = TRUE
            /\ Goto(t, PutOr("end", resume[t]))
       ELSE /\ Goto(t, resume[t])
            /\ UNCHANGED endSent
    /\ UNCHANGED <<queues, stop, coordinatorDone, completed, publisherVars,
                   coordVars, resume, held, iteratorVars>>

\* Mutant: the put waits for room only.
PutMarkWaiting(t, where, item, after) ==
    /\ pc[t] = where
    /\ HasRoom(readyQueue)
    /\ readyQueue' = Append(readyQueue, item)
    /\ Goto(t, after)
    /\ UNCHANGED <<taskQueue, fetchedQueue, flags, publisherVars, coordVars,
                   resume, held, iteratorVars>>

\* _put_ready_item(item) at "end" or "error".
PutMark(t, where, item, after) ==
    /\ pc[t] = where
    /\ \/ /\ HasRoom(readyQueue)
          /\ readyQueue' = Append(readyQueue, item)
       \/ stop /\ UNCHANGED readyQueue
    /\ Goto(t, after)
    /\ UNCHANGED <<taskQueue, fetchedQueue, flags, publisherVars, coordVars,
                   resume, held, iteratorVars>>

PutEnd(t) == PutMark(t, "end", EndItem, resume[t])
PutError(t) == PutMark(t, "error", ErrorItem, "halt")

\* Where a failed thread goes after _signal_error.
AfterError(t) == IF t = Coord THEN "poison"
                 ELSE IF t = Publisher THEN "exit" ELSE "check"

Halt(t) ==
    /\ pc[t] = "halt"
    /\ stop' = TRUE
    /\ Goto(t, AfterError(t))
    /\ resume' = [resume EXCEPT ![t] = "exit"]
    /\ UNCHANGED <<queues, coordinatorDone, endSent, completed, publisherVars,
                   coordVars, held, iteratorVars>>

-----------------------------------------------------------------------------
(* _coordinator_loop *)

\* Mutant: shutdown cannot see the client.
ConnectUnseen ==
    /\ pc[Coord] = "connect"
    /\ Goto(Coord, "start")
    /\ UNCHANGED <<queues, flags, publisherVars, coordVars, resume, held,
                   iteratorVars>>

Connect ==
    /\ pc[Coord] = "connect"
    /\ hasClient' = TRUE
    /\ Goto(Coord, "start")
    /\ UNCHANGED <<queues, flags, publisherVars, scheduled, poisons, job, resume,
                   held, iteratorVars>>

CoordError == IF stop THEN "poison" ELSE "error"

\* StartJob reaches the coordinator; a failed call may have been handled.
CallStartJob ==
    /\ pc[Coord] = "start"
    /\ \/ /\ job' = "active"
          /\ Goto(Coord, "get")
       \/ /\ job' \in {job, "active"}
          /\ Goto(Coord, CoordError)
    /\ UNCHANGED <<queues, flags, publisherVars, scheduled, hasClient, poisons,
                   resume, held, iteratorVars>>

\* The loop head and _get_next_fetch_task: a READY handle, no more batches, a
\* FAILED handle or an error; stop ends either loop.
CallGetNextBatch ==
    /\ pc[Coord] = "get"
    /\ \/ /\ stop
          /\ Goto(Coord, "poison")
       \/ /\ scheduled < MaxBatches
          /\ Goto(Coord, PutOr("put", "poison"))
       \/ Goto(Coord, "done")
       \/ /\ scheduled < MaxBatches
          /\ Goto(Coord, CoordError)
    /\ UNCHANGED <<queues, flags, publisherVars, coordVars, resume, held,
                   iteratorVars>>

\* _put_task; the counter moves only after other threads can see the task.
PutTask ==
    /\ pc[Coord] = "put"
    /\ \/ /\ HasRoom(taskQueue)
          /\ taskQueue' = Append(taskQueue, scheduled)
          /\ Goto(Coord, "count")
       \/ /\ stop
          /\ Goto(Coord, "poison")
          /\ UNCHANGED taskQueue
    /\ UNCHANGED <<fetchedQueue, readyQueue, flags, publisherVars, coordVars,
                   resume, held, iteratorVars>>

CountScheduled ==
    /\ pc[Coord] = "count"
    /\ scheduled' = scheduled + 1
    /\ Goto(Coord, "get")
    /\ UNCHANGED <<queues, flags, publisherVars, hasClient, poisons, job, resume,
                   held, iteratorVars>>

MarkCoordinatorDone ==
    /\ pc[Coord] = "done"
    /\ coordinatorDone' = TRUE
    /\ Goto(Coord, "check")
    /\ resume' = [resume EXCEPT ![Coord] = "poison"]
    /\ UNCHANGED <<queues, stop, endSent, completed, publisherVars, coordVars,
                   held, iteratorVars>>

\* One sentinel for each fetch thread; a put that waits may still succeed after stop.
PutTaskSentinel ==
    /\ pc[Coord] = "poison"
    /\ \/ /\ poisons > 0
          /\ HasRoom(taskQueue)
          /\ taskQueue' = Append(taskQueue, Poison)
          /\ poisons' = poisons - 1
          /\ UNCHANGED pc
       \/ /\ poisons = 0 \/ stop
          /\ Goto(Coord, "exit")
          /\ UNCHANGED <<taskQueue, poisons>>
    /\ UNCHANGED <<fetchedQueue, readyQueue, flags, publisherVars, scheduled,
                   hasClient, job, resume, held, iteratorVars>>

CoordinatorLoop ==
    \/ Connect \/ CallStartJob \/ CallGetNextBatch \/ PutTask \/ CountScheduled
    \/ MarkCoordinatorDone \/ PutTaskSentinel

-----------------------------------------------------------------------------
(* _fetch_worker_loop *)

GetTask(f) ==
    /\ pc[f] = "get"
    /\ \/ /\ stop
          /\ Goto(f, "exit")
          /\ UNCHANGED <<taskQueue, resume, held>>
       \/ /\ ~stop
          /\ taskQueue = <<>>
          /\ Goto(f, "check")
          /\ resume' = [resume EXCEPT ![f] = "get"]
          /\ UNCHANGED <<taskQueue, held>>
       \/ /\ ~stop
          /\ taskQueue # <<>>
          /\ taskQueue' = Tail(taskQueue)
          /\ IF Head(taskQueue) = Poison
             THEN /\ Goto(f, "check")
                  /\ resume' = [resume EXCEPT ![f] = "exit"]
                  /\ UNCHANGED held
             ELSE /\ Goto(f, "fetch")
                  /\ held' = [held EXCEPT ![f] = Head(taskQueue)]
                  /\ UNCHANGED resume
    /\ UNCHANGED <<fetchedQueue, readyQueue, flags, publisherVars, coordVars,
                   iteratorVars>>

\* _fetch_and_decode; a failure after stop only ends the loop.
Fetch(f) ==
    /\ pc[f] = "fetch"
    /\ \/ Goto(f, PutOr("put", "check"))
       \/ Goto(f, IF stop THEN "check" ELSE "error")
    /\ resume' = [resume EXCEPT ![f] = IF stop THEN "exit" ELSE "get"]
    /\ UNCHANGED <<queues, flags, publisherVars, coordVars, held, iteratorVars>>

PutFetched(f) ==
    /\ pc[f] = "put"
    /\ \/ /\ HasRoom(fetchedQueue)
          /\ fetchedQueue' = Append(fetchedQueue, held[f])
          /\ UNCHANGED resume
       \/ /\ stop
          /\ resume' = [resume EXCEPT ![f] = "exit"]
          /\ UNCHANGED fetchedQueue
    /\ Goto(f, "check")
    /\ UNCHANGED <<taskQueue, readyQueue, flags, publisherVars, coordVars, held,
                   iteratorVars>>

FetchWorkerLoop(f) == GetTask(f) \/ Fetch(f) \/ PutFetched(f)

-----------------------------------------------------------------------------
(* _ordered_publish_loop *)

GetFetched ==
    /\ pc[Publisher] = "get"
    /\ \/ /\ stop
          /\ Goto(Publisher, "exit")
          /\ UNCHANGED <<fetchedQueue, buffered>>
       \/ /\ ~stop
          /\ fetchedQueue = <<>>
          /\ Goto(Publisher, "check")
          /\ UNCHANGED <<fetchedQueue, buffered>>
       \/ /\ ~stop
          /\ fetchedQueue # <<>>
          /\ fetchedQueue' = Tail(fetchedQueue)
          /\ buffered' = buffered \cup {Head(fetchedQueue)}
          /\ Goto(Publisher, "drain")
    /\ UNCHANGED <<taskQueue, readyQueue, flags, published, nextSequence,
                   acknowledged, coordVars, resume, held, iteratorVars>>

InTurn(n) == n = nextSequence /\ n \in buffered

\* The next batch leaves the buffer and is acknowledged, or the call fails.
\* The coordinator takes acknowledgements of a job it does not know as errors.
CallAcknowledge ==
    /\ pc[Publisher] = "drain"
    /\ \/ \E n \in Sequences :
             /\ InTurn(n)
             /\ buffered' = buffered \ {n}
             /\ nextSequence' = n
             /\ \/ /\ acknowledged' = acknowledged + 1
                   /\ Goto(Publisher, PutOr("put", "skip"))
                \/ /\ acknowledged' \in {acknowledged, acknowledged + 1}
                   /\ Goto(Publisher, IF stop THEN "exit" ELSE "error")
       \/ /\ \A n \in Sequences : ~InTurn(n)
          /\ Goto(Publisher, "check")
          /\ UNCHANGED <<buffered, nextSequence, acknowledged>>
    /\ UNCHANGED <<queues, flags, published, coordVars, resume, held,
                   iteratorVars>>

PutReady ==
    /\ pc[Publisher] = "put"
    /\ \/ /\ HasRoom(readyQueue)
          /\ readyQueue' = Append(readyQueue, nextSequence)
          /\ Goto(Publisher, "count")
       \/ /\ stop
          /\ Goto(Publisher, "skip")
          /\ UNCHANGED readyQueue
    /\ UNCHANGED <<taskQueue, fetchedQueue, flags, publisherVars, coordVars,
                   resume, held, iteratorVars>>

\* The batch is counted unless stop kept it back; the next one is due either way.
CountPublished ==
    /\ pc[Publisher] \in {"count", "skip"}
    /\ published' = IF pc[Publisher] = "count" THEN published + 1 ELSE published
    /\ nextSequence' = nextSequence + 1
    /\ Goto(Publisher, "drain")
    /\ UNCHANGED <<queues, flags, buffered, acknowledged, coordVars, resume,
                   held, iteratorVars>>

OrderedPublishLoop == GetFetched \/ CallAcknowledge \/ PutReady \/ CountPublished

-----------------------------------------------------------------------------
(* The iterator in the training loop's thread *)

\* shutdown and stop: the event is set, then the threads are joined.
Shutdown == stop' = TRUE /\ iterator' = "joining"

\* get_item and __next__: an end or an error closes the iterator.
TakeItem ==
    /\ iterator = "iterating"
    /\ readyQueue # <<>>
    /\ LET item == Head(readyQueue) IN
       /\ readyQueue' = Tail(readyQueue)
       /\ IF item \in {EndItem, ErrorItem}
          THEN /\ Shutdown
               /\ completed' = (completed \/ item = EndItem)
               /\ outcome' = IF item = EndItem THEN "ended" ELSE "failed"
               /\ UNCHANGED yielded
          ELSE /\ yielded' = Append(yielded, item)
               /\ UNCHANGED <<stop, completed, iterator, outcome>>
    /\ UNCHANGED <<taskQueue, fetchedQueue, coordinatorDone, endSent,
                   publisherVars, coordVars, threadVars, unclean>>

\* The training loop breaks off.
CloseEarly ==
    /\ iterator = "iterating"
    /\ Shutdown
    /\ outcome' = "closed"
    /\ UNCHANGED <<queues, coordinatorDone, endSent, completed, publisherVars,
                   coordVars, threadVars, yielded, unclean>>

\* stop joins every thread; a join gives up after its timeout.
Join ==
    /\ iterator = "joining"
    /\ iterator' = "finishing"
    /\ unclean' = (unclean \/ \E t \in Threads : pc[t] # "exit")
    /\ UNCHANGED <<queues, flags, publisherVars, coordVars, threadVars, yielded,
                   outcome>>

\* Mutant: every close completes the job.
ClosingStatusAlways == "completed"

ClosingStatus == IF completed THEN "completed" ELSE "cancelled"

\* _finish_job; a failed call is logged and forgotten.
FinishJob ==
    /\ iterator = "finishing"
    /\ iterator' = "closed"
    /\ \/ /\ job' = IF hasClient /\ job = "active" THEN ClosingStatus ELSE job
          /\ UNCHANGED unclean
       \/ /\ hasClient
          /\ unclean' = TRUE
          /\ UNCHANGED job
    /\ UNCHANGED <<queues, flags, publisherVars, scheduled, hasClient, poisons,
                   threadVars, yielded, outcome>>

Iterator == TakeItem \/ CloseEarly \/ Join \/ FinishJob

-----------------------------------------------------------------------------
Signal(t) == TryEnd(t) \/ PutEnd(t) \/ PutError(t) \/ Halt(t)

\* Every thread is gone and the iterator is closed.
Terminated ==
    /\ iterator = "closed"
    /\ \A t \in Threads : pc[t] = "exit"
    /\ UNCHANGED vars

Next ==
    \/ CoordinatorLoop \/ OrderedPublishLoop \/ Iterator
    \/ \E f \in Fetchers : FetchWorkerLoop(f)
    \/ \E t \in Threads : Signal(t)
    \/ Terminated

Spec == Init /\ [][Next]_vars

\* Threads are scheduled, calls return, and the training loop goes on asking; it
\* need not break off.
Fairness ==
    /\ WF_vars(CoordinatorLoop \/ Signal(Coord))
    /\ WF_vars(OrderedPublishLoop \/ Signal(Publisher))
    /\ \A f \in Fetchers : WF_vars(FetchWorkerLoop(f) \/ Signal(f))
    /\ WF_vars(TakeItem \/ Join \/ FinishJob)

FairSpec == Spec /\ Fairness

-----------------------------------------------------------------------------
(* Properties *)

Items == Sequences \cup {EndItem, ErrorItem}

\* Threads and counters have their types, and no queue is above its capacity.
PrefetcherTypeOK ==
    /\ taskQueue \in Seq(Sequences \cup {Poison}) /\ Len(taskQueue) <= QueueSize
    /\ fetchedQueue \in Seq(Sequences) /\ Len(fetchedQueue) <= QueueSize
    /\ readyQueue \in Seq(Items) /\ Len(readyQueue) <= QueueSize
    /\ {stop, coordinatorDone, endSent, completed, hasClient, unclean} \subseteq BOOLEAN
    /\ scheduled \in 0..MaxBatches /\ published \in 0..MaxBatches
    /\ pc \in [Threads -> {"connect", "start", "get", "fetch", "put", "count", "skip",
                           "done", "drain", "poison", "check", "end", "error",
                           "halt", "exit"}]
    /\ resume \in [Threads -> {"get", "poison", "exit"}]
    /\ held \in [Fetchers -> Sequences]
    /\ poisons \in 0..Cardinality(Fetchers)
    /\ buffered \subseteq Sequences /\ nextSequence \in 0..MaxBatches
    /\ job \in {"none", "active", "completed", "cancelled"}
    /\ acknowledged \in 0..MaxBatches
    /\ iterator \in {"iterating", "joining", "finishing", "closed"}
    /\ yielded \in Seq(Sequences)
    /\ outcome \in {"open", "ended", "failed", "closed"}

\* The training loop gets the ordered stream, although fetch threads finish in
\* any order, errors overtake batches, and four threads may send the end.
Stream == INSTANCE OrderedStream WITH
    obtained <- IF pc[Coord] = "count" THEN scheduled + 1 ELSE scheduled,
    giving <- ~coordinatorDone

OrderedDelivery == Stream!Spec

\* A job is only reported COMPLETED after every batch obtained for it was
\* acknowledged and yielded ("Finishing coordinator scheduling is not enough").
CompletedMeansAll ==
    job = "completed" =>
        coordinatorDone /\ Len(yielded) = scheduled /\ acknowledged = scheduled

\* After a clean close the coordinator has no active job of this iterator, also
\* when the close overtakes the start of the job.
CleanCloseEndsJob == iterator = "closed" /\ ~unclean => job # "active"

\* The iteration ends, and with it every thread, whatever fails and whichever
\* queues are full at that time.
EverythingEnds == <>(iterator = "closed" /\ \A t \in Threads : pc[t] = "exit")
=============================================================================
