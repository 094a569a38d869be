-------------------------- MODULE PrefetcherProofs --------------------------
(***************************************************************************)
(* Theorems about Prefetcher, for any number of fetch threads, any queue   *)
(* size and any number of batches, whatever call fails.                    *)
(***************************************************************************)
EXTENDS Prefetcher, Functions, TLAPS, FiniteSetTheorems

-----------------------------------------------------------------------------
(* The inductive invariant *)

QueueTypes ==
    /\ taskQueue \in Seq(Sequences \cup {Poison}) /\ Len(taskQueue) <= QueueSize
    /\ fetchedQueue \in Seq(Sequences) /\ Len(fetchedQueue) <= QueueSize
    /\ readyQueue \in Seq(Items) /\ Len(readyQueue) <= QueueSize
    /\ yielded \in Seq(Sequences)

\* Every thread stands at a place of its own loop.
ThreadTypes ==
    /\ pc \in [Threads -> {"connect", "start", "get", "fetch", "put", "count", "skip",
                           "done", "drain", "poison", "check", "end", "error",
                           "halt", "exit"}]
    /\ pc[Coord] \in {"connect", "start", "get", "put", "count", "done", "poison",
                      "check", "end", "error", "halt", "exit"}
    /\ pc[Publisher] \in {"get", "drain", "put", "count", "skip", "check", "end",
                          "error", "halt", "exit"}
    /\ \A f \in Fetchers : pc[f] \in {"get", "fetch", "put", "check", "end", "error",
                                      "halt", "exit"}
    /\ resume \in [Threads -> {"get", "poison", "exit"}]
    /\ \A t \in Threads \ {Coord} : resume[t] # "poison"
    /\ held \in [Fetchers -> Sequences]

ValueTypes ==
    /\ {stop, coordinatorDone, endSent, completed, hasClient, unclean} \subseteq BOOLEAN
    /\ scheduled \in 0..MaxBatches /\ published \in 0..MaxBatches
    /\ poisons \in 0..Cardinality(Fetchers)
    /\ buffered \subseteq Sequences /\ nextSequence \in 0..MaxBatches
    /\ job \in {"none", "active", "completed", "cancelled"}
    /\ acknowledged \in 0..MaxBatches
    /\ iterator \in {"iterating", "joining", "finishing", "closed"}
    /\ outcome \in {"open", "ended", "failed", "closed"}

\* The batches that the fetch threads may know of, and those handed over.
Obtained == IF pc[Coord] = "count" THEN scheduled + 1 ELSE scheduled
Handed == IF pc[Publisher] = "count" THEN published + 1 ELSE published

\* The coordinator thread obtains nothing once it is done, and then runs to its end.
CoordInv ==
    /\ pc[Coord] \in {"put", "count"} => scheduled < MaxBatches
    /\ pc[Coord] \in {"check", "end"} => coordinatorDone /\ resume[Coord] = "poison"
    /\ coordinatorDone => pc[Coord] \in {"check", "end", "poison", "exit"}

\* What is on its way was obtained.
FlightInv ==
    /\ \A n \in Range(taskQueue) \ {Poison} : n < Obtained
    /\ \A n \in Range(fetchedQueue) : n < Obtained
    /\ \A f \in Fetchers : pc[f] \in {"fetch", "put"} => held[f] < Obtained
    /\ \A n \in buffered : n < Obtained
    /\ nextSequence <= Obtained
    /\ pc[Publisher] \in {"put", "count", "skip"} => nextSequence < Obtained

\* The publish thread hands over what it counts, until a stop makes it skip; it
\* acknowledges one batch ahead of that.
PublishInv ==
    /\ published <= nextSequence
    /\ published < nextSequence => stop /\ pc[Publisher] \notin {"put", "count"}
    /\ pc[Publisher] = "skip" => stop
    /\ nextSequence <= acknowledged /\ acknowledged <= Obtained
    /\ pc[Publisher] \in {"get", "drain", "check", "end"} => acknowledged = nextSequence
    /\ pc[Publisher] \in {"put", "count", "skip"} => acknowledged = nextSequence + 1

\* A queue of items that holds exactly the batches from low up to high, in their
\* order, and none of them after the end.
Ordered(q, low, high) ==
    /\ \A i \in DOMAIN q : q[i] \in Sequences => low <= q[i] /\ q[i] < high
    /\ \A i, k \in DOMAIN q :
          i < k /\ q[k] \in Sequences
             => q[i] # EndItem /\ (q[i] \in Sequences => q[i] < q[k])
    /\ \A n \in Sequences : low <= n /\ n < high => \E i \in DOMAIN q : q[i] = n

\* What was handed over and not yet yielded is in the ready queue.
ReadyInv ==
    /\ Len(yielded) <= Handed
    /\ Ordered(readyQueue, Len(yielded), Handed)

\* The end is sent when everything was published.
EndInv ==
    /\ endSent => coordinatorDone /\ published = scheduled
    /\ \A t \in Threads : pc[t] = "end" => endSent
    /\ EndItem \in Range(readyQueue) => endSent
    /\ completed => endSent /\ Len(yielded) = scheduled

\* What a close finds and leaves behind.
CloseInv ==
    /\ iterator = "iterating" <=> outcome = "open"
    /\ completed => iterator # "iterating"
    /\ job = "completed" => completed
    /\ job = "active" => hasClient
    /\ hasClient <=> pc[Coord] # "connect"
    /\ iterator \in {"finishing", "closed"} /\ ~unclean => \A t \in Threads : pc[t] = "exit"
    /\ iterator = "closed" /\ ~unclean => job # "active"

IInv == /\ QueueTypes /\ ThreadTypes /\ ValueTypes
        /\ CoordInv /\ FlightInv /\ PublishInv
        /\ ReadyInv /\ EndInv /\ CloseInv

-----------------------------------------------------------------------------
(* Queues *)

LEMMA Appended ==
    ASSUME NEW S, NEW q \in Seq(S), NEW x \in S
    PROVE  /\ Append(q, x) \in Seq(S)
           /\ Len(Append(q, x)) = Len(q) + 1
           /\ \A i \in DOMAIN q : i \in DOMAIN Append(q, x) /\ Append(q, x)[i] = q[i]
           /\ Len(q) + 1 \in DOMAIN Append(q, x) /\ Append(q, x)[Len(q) + 1] = x
           /\ \A i \in DOMAIN Append(q, x) :
                 i = Len(q) + 1 \/ (i \in DOMAIN q /\ i < Len(q) + 1)
OBVIOUS

LEMMA Removed ==
    ASSUME NEW S, NEW q \in Seq(S), q # <<>>
    PROVE  /\ Tail(q) \in Seq(S) /\ Head(q) \in S
           /\ Len(Tail(q)) = Len(q) - 1
           /\ 1 \in DOMAIN q /\ q[1] = Head(q)
           /\ \A i \in DOMAIN Tail(q) : i + 1 \in DOMAIN q /\ Tail(q)[i] = q[i + 1]
           /\ \A i \in DOMAIN q : i = 1 \/ (i - 1 \in DOMAIN Tail(q) /\ Tail(q)[i - 1] = q[i])
           /\ \A i \in DOMAIN q : i \in Int /\ 1 <= i
OBVIOUS

LEMMA Indices == ASSUME NEW S, NEW q \in Seq(S) PROVE \A i \in DOMAIN q : i \in Int
OBVIOUS

LEMMA AppendedRange ==
    ASSUME NEW S, NEW q \in Seq(S), NEW x \in S
    PROVE  Range(Append(q, x)) = Range(q) \cup {x}
BY Appended DEF Range

LEMMA RemovedRange ==
    ASSUME NEW S, NEW q \in Seq(S), q # <<>>
    PROVE  Head(q) \in Range(q) /\ Range(Tail(q)) \subseteq Range(q) /\ Head(q) \in S
BY Removed DEF Range

LEMMA RangeType == ASSUME NEW S, NEW q \in Seq(S) PROVE Range(q) \subseteq S
BY DEF Range

\* The order of the ready queue, as items enter and leave it.
LEMMA OrderedBatch ==
    ASSUME NEW q \in Seq(Items), NEW low \in Int, NEW high \in Sequences, low <= high,
           EndItem \notin Range(q), Ordered(q, low, high)
    PROVE  Ordered(Append(q, high), low, high + 1)
<1>1. high \in Int /\ high \in Items
  BY SizeAssumption DEF Sequences, Items
<1>2. /\ \A i \in DOMAIN q : i \in DOMAIN Append(q, high) /\ Append(q, high)[i] = q[i]
      /\ Len(q) + 1 \in DOMAIN Append(q, high) /\ Append(q, high)[Len(q) + 1] = high
      /\ \A i \in DOMAIN Append(q, high) :
            i = Len(q) + 1 \/ (i \in DOMAIN q /\ i < Len(q) + 1)
  BY <1>1, Appended
<1>3. \A i \in DOMAIN q : q[i] # EndItem
  BY DEF Range
<1> DEFINE r == Append(q, high)
<1>4. \A i \in DOMAIN r : r[i] \in Sequences => low <= r[i] /\ r[i] < high + 1
  BY <1>1, <1>2, SizeAssumption DEF Ordered, Sequences
<1>5. \A i, k \in DOMAIN r :
         i < k /\ r[k] \in Sequences => r[i] # EndItem /\ (r[i] \in Sequences => r[i] < r[k])
  <2> SUFFICES ASSUME NEW i \in DOMAIN r, NEW k \in DOMAIN r, i < k, r[k] \in Sequences
               PROVE  r[i] # EndItem /\ (r[i] \in Sequences => r[i] < r[k])
    OBVIOUS
  <2>1. i \in DOMAIN q /\ r[i] = q[i]
    BY <1>2
  <2>2. (k \in DOMAIN q /\ r[k] = q[k]) \/ r[k] = high
    BY <1>2
  <2> QED
    BY <1>3, <2>1, <2>2 DEF Ordered
<1>6. \A n \in Sequences : low <= n /\ n < high + 1 => \E i \in DOMAIN r : r[i] = n
  <2> SUFFICES ASSUME NEW n \in Sequences, low <= n, n < high + 1
               PROVE  \E i \in DOMAIN r : r[i] = n
    OBVIOUS
  <2>1. n = high \/ n < high
    BY <1>1, SizeAssumption DEF Sequences
  <2> QED
    BY <1>2, <2>1 DEF Ordered
<1> QED
  BY <1>4, <1>5, <1>6 DEF Ordered

LEMMA OrderedMark ==
    ASSUME NEW q \in Seq(Items), NEW low, NEW high, NEW x \in {EndItem, ErrorItem},
           Ordered(q, low, high)
    PROVE  Ordered(Append(q, x), low, high)
<1>1. x \in Items /\ x \notin Sequences
  BY MarkAssumption DEF Items
<1>2. /\ \A i \in DOMAIN q : i \in DOMAIN Append(q, x) /\ Append(q, x)[i] = q[i]
      /\ Append(q, x)[Len(q) + 1] = x
      /\ \A i \in DOMAIN Append(q, x) :
            i = Len(q) + 1 \/ (i \in DOMAIN q /\ i < Len(q) + 1)
  BY <1>1, Appended
<1>3. \A i, k \in DOMAIN Append(q, x) :
         i < k /\ Append(q, x)[k] \in Sequences => i \in DOMAIN q /\ k \in DOMAIN q
  BY <1>1, <1>2
<1> QED
  BY <1>1, <1>2, <1>3 DEF Ordered

LEMMA OrderedHead ==
    ASSUME NEW q \in Seq(Items), q # <<>>, NEW low \in Int, NEW high \in 0..MaxBatches,
           0 <= low, Ordered(q, low, high)
    PROVE  /\ Head(q) \in Sequences =>
                 Head(q) = low /\ low < high /\ Ordered(Tail(q), low + 1, high)
           /\ Head(q) \notin Sequences => Ordered(Tail(q), low, high)
           /\ Head(q) = EndItem => high <= low
<1> DEFINE r == Tail(q)
<1>1. /\ Head(q) \in Items
      /\ 1 \in DOMAIN q /\ q[1] = Head(q)
      /\ \A i \in DOMAIN r : i + 1 \in DOMAIN q /\ r[i] = q[i + 1]
      /\ \A i \in DOMAIN q : i = 1 \/ (i - 1 \in DOMAIN r /\ r[i - 1] = q[i])
      /\ \A i \in DOMAIN q : i \in Int /\ 1 <= i
      /\ \A i \in DOMAIN r : i \in Int /\ 1 < i + 1
  <2>1. r \in Seq(Items) /\ \A i \in DOMAIN r : i \in Int /\ 1 <= i
    BY Removed
  <2> QED
    BY <2>1, Removed
<1>2. high \in Int /\ \A n \in Sequences : n \in Int /\ 0 <= n
  BY SizeAssumption DEF Sequences
<1>3. \A i, k \in DOMAIN r :
         i < k /\ r[k] \in Sequences => r[i] # EndItem /\ (r[i] \in Sequences => r[i] < r[k])
  <2> SUFFICES ASSUME NEW i \in DOMAIN r, NEW k \in DOMAIN r, i < k, r[k] \in Sequences
               PROVE  r[i] # EndItem /\ (r[i] \in Sequences => r[i] < r[k])
    OBVIOUS
  <2>1. i + 1 \in DOMAIN q /\ k + 1 \in DOMAIN q /\ i + 1 < k + 1
    BY <1>1
  <2> QED
    BY <1>1, <2>1 DEF Ordered
<1>4. \A k \in DOMAIN r : r[k] \in Sequences
         => /\ low <= r[k] /\ r[k] < high /\ Head(q) # EndItem
            /\ Head(q) \in Sequences => Head(q) < r[k]
  <2> SUFFICES ASSUME NEW k \in DOMAIN r, r[k] \in Sequences
               PROVE  /\ low <= r[k] /\ r[k] < high /\ Head(q) # EndItem
                      /\ Head(q) \in Sequences => Head(q) < r[k]
    OBVIOUS
  <2>1. k + 1 \in DOMAIN q /\ 1 < k + 1 /\ r[k] = q[k + 1]
    BY <1>1
  <2> QED
    BY <1>1, <2>1 DEF Ordered
<1>5. CASE Head(q) \in Sequences
  <2>a. low <= Head(q) /\ Head(q) < high
    BY <1>1, <1>5 DEF Ordered
  <2>1. low <= Head(q) /\ Head(q) < high /\ low <= low /\ low < high
    BY <1>2, <1>5, <2>a
  <2>2. low \in Sequences
    BY <1>2, <1>5, <2>1, SizeAssumption DEF Sequences
  <2>3. PICK i \in DOMAIN q : q[i] = low
    BY <1>2, <1>5, <2>1, <2>2 DEF Ordered
  <2>4. Head(q) = low
    <3>1. CASE i = 1
      BY <1>1, <2>3, <3>1
    <3>2. CASE i - 1 \in DOMAIN r /\ r[i - 1] = q[i]
      <4>1. \A k \in DOMAIN r : r[k] = low => Head(q) < low
        BY <1>4, <1>5, <2>2
      <4> QED
        BY <1>2, <1>5, <2>1, <2>3, <3>2, <4>1
    <3> QED
      BY <1>1, <3>1, <3>2
  <2>5. \A k \in DOMAIN r : r[k] \in Sequences => low + 1 <= r[k] /\ r[k] < high
    BY <1>2, <1>4, <1>5, <2>4
  <2>6. \A n \in Sequences : low + 1 <= n /\ n < high => \E k \in DOMAIN r : r[k] = n
    <3> SUFFICES ASSUME NEW n \in Sequences, low + 1 <= n, n < high
                 PROVE  \E k \in DOMAIN r : r[k] = n
      OBVIOUS
    <3>1. PICK m \in DOMAIN q : q[m] = n
      BY <1>2 DEF Ordered
    <3>2. m # 1
      BY <1>1, <1>2, <2>4, <3>1
    <3> QED
      BY <1>1, <3>1, <3>2
  <2>7. Head(q) # EndItem
    BY <1>5, MarkAssumption
  <2> QED
    BY <1>3, <1>5, <2>1, <2>4, <2>5, <2>6, <2>7 DEF Ordered
<1>6. CASE Head(q) \notin Sequences
  <2>1. \A n \in Sequences : low <= n /\ n < high => \E k \in DOMAIN r : r[k] = n
    <3> SUFFICES ASSUME NEW n \in Sequences, low <= n, n < high
                 PROVE  \E k \in DOMAIN r : r[k] = n
      OBVIOUS
    <3>1. PICK m \in DOMAIN q : q[m] = n
      BY DEF Ordered
    <3> QED
      BY <1>1, <1>6, <3>1
  <2>2. \A k \in DOMAIN r : r[k] \in Sequences => low <= r[k] /\ r[k] < high
    BY <1>4
  <2>3. Ordered(r, low, high)
    BY <1>3, <2>1, <2>2 DEF Ordered
  <2>4. Head(q) = EndItem => high <= low
    <3> SUFFICES ASSUME Head(q) = EndItem, low < high
                 PROVE  FALSE
      BY <1>2
    <3>1. low \in Sequences
      BY SizeAssumption DEF Sequences
    <3> QED
      BY <1>2, <1>4, <2>1, <3>1
  <2> QED
    BY <1>6, <2>3, <2>4
<1> QED
  BY <1>5, <1>6

-----------------------------------------------------------------------------
(* The steps *)

LEMMA CoordStep ==
    ASSUME IInv, CoordinatorLoop
    PROVE  IInv'
<1> USE SizeAssumption, ThreadAssumption DEF Goto, PutOr, HasRoom, queues, flags,
        publisherVars, coordVars, threadVars, iteratorVars, Threads
<1>0. QueueTypes /\ ThreadTypes /\ ValueTypes /\ CoordInv /\ FlightInv /\ PublishInv /\ ReadyInv /\ EndInv /\ CloseInv
  BY DEF IInv
<1>1. CASE Connect
  <2>1. ThreadTypes'
    BY <1>0, <1>1 DEF Connect, ThreadTypes, CoordInv, Sequences
  <2>2. ValueTypes'
    BY <1>0, <1>1 DEF Connect, ValueTypes, CoordInv, FlightInv, PublishInv, Obtained,
       Sequences, ThreadTypes, QueueTypes
  <2>3. CoordInv'
    BY <1>0, <1>1 DEF Connect, CoordInv, ThreadTypes, ValueTypes
  <2>4. CloseInv'
    BY <1>0, <1>1 DEF Connect, CloseInv, ThreadTypes, ValueTypes, CoordInv
  <2>5. QueueTypes' /\ FlightInv' /\ PublishInv' /\ ReadyInv' /\ EndInv'
    BY <1>0, <1>1 DEF Connect, QueueTypes, FlightInv, PublishInv, ReadyInv, EndInv,
       ThreadTypes, Obtained, Handed, ValueTypes
  <2> QED
    BY <2>1, <2>2, <2>3, <2>4, <2>5 DEF IInv
<1>2. CASE CallStartJob
  <2>1. ThreadTypes'
    BY <1>0, <1>2 DEF CallStartJob, CoordError, ThreadTypes, CoordInv, Sequences
  <2>2. ValueTypes'
    BY <1>0, <1>2 DEF CallStartJob, CoordError, ValueTypes, CoordInv, FlightInv, PublishInv,
       Obtained, Sequences, ThreadTypes, QueueTypes
  <2>3. CoordInv'
    BY <1>0, <1>2 DEF CallStartJob, CoordError, CoordInv, ThreadTypes, ValueTypes
  <2>4. CloseInv'
    BY <1>0, <1>2 DEF CallStartJob, CoordError, CloseInv, ThreadTypes, ValueTypes, CoordInv
  <2>5. QueueTypes' /\ FlightInv' /\ PublishInv' /\ EndInv'
    BY <1>0, <1>2 DEF CallStartJob, CoordError, QueueTypes, FlightInv, PublishInv, EndInv,
       ThreadTypes, Obtained, ValueTypes
  <2>6. ReadyInv'
    BY <1>0, <1>2 DEF CallStartJob, CoordError, ReadyInv, ThreadTypes, Handed
  <2> QED
    BY <2>1, <2>2, <2>3, <2>4, <2>5, <2>6 DEF IInv
<1>3. CASE CallGetNextBatch
  <2>1. ThreadTypes'
    BY <1>0, <1>3 DEF CallGetNextBatch, CoordError, ThreadTypes, CoordInv, Sequences
  <2>2. CoordInv'
    BY <1>0, <1>3 DEF CallGetNextBatch, CoordError, CoordInv, ThreadTypes, ValueTypes
  <2>3. QueueTypes' /\ ValueTypes' /\ FlightInv' /\ PublishInv' /\ ReadyInv' /\ EndInv' /\ CloseInv'
    BY <1>0, <1>3 DEF CallGetNextBatch, CoordError, QueueTypes, ValueTypes, FlightInv,
       PublishInv, ReadyInv, EndInv, CloseInv, ThreadTypes, Obtained, Handed
  <2> QED
    BY <2>1, <2>2, <2>3 DEF IInv
<1>4. CASE PutTask
  <2>1. QueueTypes'
    <3>1. scheduled \in Sequences /\ scheduled < scheduled + 1
      BY <1>0, <1>4 DEF PutTask, CoordInv, ValueTypes, Sequences
    <3>2. CASE taskQueue' = Append(taskQueue, scheduled)
      <4>1. taskQueue \in Seq(Sequences \cup {Poison}) /\ Len(taskQueue) < QueueSize
        BY <1>0, <1>4, <3>2 DEF PutTask, QueueTypes
      <4>2. taskQueue' \in Seq(Sequences \cup {Poison}) /\ Len(taskQueue') <= QueueSize
        BY <3>1, <3>2, <4>1, Appended
      <4> QED
        BY <1>0, <1>4, <4>2 DEF PutTask, QueueTypes
    <3>3. CASE UNCHANGED taskQueue
      BY <1>0, <1>4, <3>3 DEF PutTask, QueueTypes
    <3> QED
      BY <1>4, <3>2, <3>3 DEF PutTask
  <2>2. ThreadTypes'
    BY <1>0, <1>4 DEF PutTask, ThreadTypes, CoordInv, Sequences
  <2>3. CoordInv'
    BY <1>0, <1>4 DEF PutTask, CoordInv, ThreadTypes, ValueTypes
  <2>4. FlightInv'
    <3>1. /\ Range(taskQueue) \subseteq Sequences \cup {Poison}
          /\ Range(fetchedQueue) \subseteq Sequences
      BY <1>0, RangeType DEF QueueTypes
    <3>2. /\ Obtained \in Int /\ Obtained' \in Int /\ Obtained <= Obtained'
          /\ taskQueue' # taskQueue => scheduled < Obtained' /\ scheduled \in Sequences
      BY <1>0, <1>4 DEF PutTask, Obtained, ThreadTypes, ValueTypes, CoordInv, Sequences
    <3>a. taskQueue \in Seq(Sequences \cup {Poison})
      BY <1>0 DEF QueueTypes
    <3>b. scheduled \in Sequences
             => Range(Append(taskQueue, scheduled)) = Range(taskQueue) \cup {scheduled}
      BY <3>a, AppendedRange
    <3>3. \/ Range(taskQueue') = Range(taskQueue) \cup {scheduled} /\ scheduled < Obtained'
          \/ Range(taskQueue') = Range(taskQueue)
      BY <1>4, <3>2, <3>b DEF PutTask
    <3>4. \A n \in Range(taskQueue') \ {Poison} : n < Obtained'
      BY <1>0, <3>1, <3>2, <3>3 DEF FlightInv, Sequences
    <3> QED
      BY <1>0, <1>4, <3>1, <3>2, <3>4 DEF PutTask, FlightInv, ThreadTypes, ValueTypes,
         Sequences
  <2>5. ValueTypes' /\ PublishInv' /\ EndInv' /\ CloseInv'
    BY <1>0, <1>4 DEF PutTask, ValueTypes, PublishInv, EndInv, CloseInv, ThreadTypes,
       Obtained
  <2>6. ReadyInv'
    BY <1>0, <1>4 DEF PutTask, ReadyInv, ThreadTypes, Handed
  <2> QED
    BY <2>1, <2>2, <2>3, <2>4, <2>5, <2>6 DEF IInv
<1>5. CASE CountScheduled
  <2>1. ThreadTypes'
    BY <1>0, <1>5 DEF CountScheduled, ThreadTypes, CoordInv, Sequences
  <2>2. ValueTypes'
    BY <1>0, <1>5 DEF CountScheduled, ValueTypes, CoordInv, FlightInv, PublishInv, Obtained,
       Sequences, ThreadTypes, QueueTypes
  <2>3. CoordInv'
    BY <1>0, <1>5 DEF CountScheduled, CoordInv, ThreadTypes, ValueTypes
  <2>4. FlightInv'
    BY <1>0, <1>5 DEF CountScheduled, FlightInv, ThreadTypes, ValueTypes, QueueTypes,
       CoordInv, Obtained
  <2>5. EndInv'
    BY <1>0, <1>5 DEF CountScheduled, EndInv, ThreadTypes, ValueTypes, QueueTypes,
       PublishInv, FlightInv, CoordInv, Obtained
  <2>6. QueueTypes' /\ PublishInv' /\ ReadyInv' /\ CloseInv'
    BY <1>0, <1>5 DEF CountScheduled, QueueTypes, PublishInv, ReadyInv, CloseInv,
       ThreadTypes, Obtained, Handed, ValueTypes
  <2> QED
    BY <2>1, <2>2, <2>3, <2>4, <2>5, <2>6 DEF IInv
<1>6. CASE MarkCoordinatorDone
  <2>1. ThreadTypes'
    BY <1>0, <1>6 DEF MarkCoordinatorDone, ThreadTypes, CoordInv, Sequences
  <2>2. ValueTypes'
    BY <1>0, <1>6 DEF MarkCoordinatorDone, ValueTypes, CoordInv, FlightInv, PublishInv,
       Obtained, Sequences, ThreadTypes, QueueTypes
  <2>3. CoordInv'
    BY <1>0, <1>6 DEF MarkCoordinatorDone, CoordInv, ThreadTypes, ValueTypes
  <2>4. EndInv'
    BY <1>0, <1>6 DEF MarkCoordinatorDone, EndInv, ThreadTypes, ValueTypes, QueueTypes,
       PublishInv, FlightInv, CoordInv, Obtained
  <2>5. QueueTypes' /\ FlightInv' /\ PublishInv' /\ ReadyInv' /\ CloseInv'
    BY <1>0, <1>6 DEF MarkCoordinatorDone, QueueTypes, FlightInv, PublishInv, ReadyInv,
       CloseInv, ThreadTypes, Obtained, Handed, ValueTypes
  <2> QED
    BY <2>1, <2>2, <2>3, <2>4, <2>5 DEF IInv
<1>7. CASE PutTaskSentinel
  <2>1. QueueTypes'
    <3>1. CASE taskQueue' = Append(taskQueue, Poison) /\ HasRoom(taskQueue)
      <4>1. taskQueue \in Seq(Sequences \cup {Poison}) /\ Len(taskQueue) < QueueSize
        BY <1>0, <3>1 DEF QueueTypes
      <4>2. taskQueue' \in Seq(Sequences \cup {Poison}) /\ Len(taskQueue') <= QueueSize
        BY <3>1, <4>1, Appended
      <4> QED
        BY <1>0, <1>7, <4>2 DEF PutTaskSentinel, QueueTypes
    <3>2. CASE UNCHANGED taskQueue
      BY <1>0, <1>7, <3>2 DEF PutTaskSentinel, QueueTypes
    <3> QED
      BY <1>7, <3>1, <3>2 DEF PutTaskSentinel
  <2>2. ThreadTypes'
    BY <1>0, <1>7 DEF PutTaskSentinel, ThreadTypes, CoordInv, Sequences
  <2>3. ValueTypes'
    <3>1. Cardinality(Fetchers) \in Nat
      BY FS_CardinalityType
    <3>2. poisons' \in 0..Cardinality(Fetchers)
      BY <1>0, <1>7, <3>1 DEF PutTaskSentinel, ValueTypes
    <3> QED
      BY <1>0, <1>7, <3>2 DEF PutTaskSentinel, ValueTypes
  <2>4. FlightInv'
    <3>a. taskQueue \in Seq(Sequences \cup {Poison})
      BY <1>0 DEF QueueTypes
    <3>b. Range(Append(taskQueue, Poison)) = Range(taskQueue) \cup {Poison}
      BY <3>a, AppendedRange
    <3>1. Range(taskQueue') \subseteq Range(taskQueue) \cup {Poison}
      BY <1>7, <3>b DEF PutTaskSentinel
    <3>2. Obtained' = Obtained
      BY <1>0, <1>7 DEF PutTaskSentinel, Obtained, ThreadTypes
    <3> QED
      BY <1>0, <1>7, <3>1, <3>2 DEF PutTaskSentinel, FlightInv, ThreadTypes
  <2>5. CoordInv' /\ PublishInv' /\ ReadyInv' /\ EndInv' /\ CloseInv'
    BY <1>0, <1>7 DEF PutTaskSentinel, CoordInv, PublishInv, ReadyInv, EndInv, CloseInv,
       ThreadTypes, Obtained, Handed, ValueTypes
  <2> QED
    BY <2>1, <2>2, <2>3, <2>4, <2>5 DEF IInv
<1> QED
  BY <1>1, <1>2, <1>3, <1>4, <1>5, <1>6, <1>7 DEF CoordinatorLoop

LEMMA FetchStep ==
    ASSUME IInv, NEW f \in Fetchers, FetchWorkerLoop(f)
    PROVE  IInv'
<1> USE SizeAssumption, ThreadAssumption DEF Goto, PutOr, HasRoom, queues, flags,
        publisherVars, coordVars, threadVars, iteratorVars, Threads
<1>0. QueueTypes /\ ThreadTypes /\ ValueTypes /\ CoordInv /\ FlightInv /\ PublishInv /\ ReadyInv /\ EndInv /\ CloseInv
  BY DEF IInv
<1>1. CASE GetTask(f)
  <2>1. QueueTypes'
    <3>1. CASE taskQueue # <<>> /\ taskQueue' = Tail(taskQueue)
      <4>1. taskQueue \in Seq(Sequences \cup {Poison}) /\ Len(taskQueue) <= QueueSize
        BY <1>0 DEF QueueTypes
      <4>2. taskQueue' \in Seq(Sequences \cup {Poison}) /\ Len(taskQueue') <= QueueSize
        BY <3>1, <4>1, Removed
      <4> QED
        BY <1>0, <1>1, <4>2 DEF GetTask, QueueTypes
    <3>2. CASE UNCHANGED taskQueue
      BY <1>0, <1>1, <3>2 DEF GetTask, QueueTypes
    <3> QED
      BY <1>1, <3>1, <3>2 DEF GetTask
  <2>2. ThreadTypes'
    <3>1. taskQueue # <<>> => Head(taskQueue) \in Sequences \cup {Poison}
      BY <1>0, RemovedRange DEF QueueTypes
    <3>2. held' \in [Fetchers -> Sequences]
      BY <1>0, <1>1, <3>1 DEF GetTask, ThreadTypes
    <3> QED
      BY <1>0, <1>1, <3>2 DEF GetTask, ThreadTypes
  <2>3. FlightInv'
    <3>1. taskQueue # <<>> => /\ Range(Tail(taskQueue)) \subseteq Range(taskQueue)
                              /\ Head(taskQueue) \in Range(taskQueue)
      BY <1>0, RemovedRange DEF QueueTypes
    <3>2. Range(taskQueue') \subseteq Range(taskQueue)
      BY <1>1, <3>1 DEF GetTask
    <3>3. Obtained' = Obtained
      BY <1>0, <1>1 DEF GetTask, Obtained, ThreadTypes
    <3>4. \A g \in Fetchers : pc'[g] \in {"fetch", "put"} => held'[g] < Obtained'
      BY <1>0, <1>1, <3>1, <3>3 DEF GetTask, FlightInv, ThreadTypes
    <3> QED
      BY <1>0, <1>1, <3>2, <3>3, <3>4 DEF GetTask, FlightInv, ThreadTypes
  <2>4. ValueTypes' /\ CoordInv' /\ PublishInv' /\ ReadyInv' /\ EndInv' /\ CloseInv'
    BY <1>0, <1>1 DEF GetTask, ValueTypes, CoordInv, PublishInv, ReadyInv, EndInv, CloseInv,
       ThreadTypes, Obtained, Handed
  <2> QED
    BY <2>1, <2>2, <2>3, <2>4 DEF IInv
<1>2. CASE Fetch(f)
  <2>1. ThreadTypes'
    BY <1>0, <1>2 DEF Fetch, ThreadTypes, CoordInv, Sequences
  <2>2. FlightInv'
    BY <1>0, <1>2 DEF Fetch, FlightInv, ThreadTypes, ValueTypes, QueueTypes, CoordInv,
       Obtained
  <2>3. QueueTypes' /\ ValueTypes' /\ CoordInv' /\ PublishInv' /\ ReadyInv' /\ EndInv' /\ CloseInv'
    BY <1>0, <1>2 DEF Fetch, QueueTypes, ValueTypes, CoordInv, PublishInv, ReadyInv, EndInv,
       CloseInv, ThreadTypes, Obtained, Handed
  <2> QED
    BY <2>1, <2>2, <2>3 DEF IInv
<1>3. CASE PutFetched(f)
  <2>1. QueueTypes'
    <3>1. CASE fetchedQueue' = Append(fetchedQueue, held[f]) /\ HasRoom(fetchedQueue)
      <4>1. /\ fetchedQueue \in Seq(Sequences) /\ Len(fetchedQueue) < QueueSize
            /\ held[f] \in Sequences
        BY <1>0, <3>1 DEF QueueTypes, ThreadTypes
      <4>2. fetchedQueue' \in Seq(Sequences) /\ Len(fetchedQueue') <= QueueSize
        BY <3>1, <4>1, Appended
      <4> QED
        BY <1>0, <1>3, <4>2 DEF PutFetched, QueueTypes
    <3>2. CASE UNCHANGED fetchedQueue
      BY <1>0, <1>3, <3>2 DEF PutFetched, QueueTypes
    <3> QED
      BY <1>3, <3>1, <3>2 DEF PutFetched
  <2>2. ThreadTypes'
    BY <1>0, <1>3 DEF PutFetched, ThreadTypes, CoordInv, Sequences
  <2>3. FlightInv'
    <3>a. held[f] \in Sequences /\ fetchedQueue \in Seq(Sequences)
      BY <1>0 DEF ThreadTypes, QueueTypes
    <3>b. Range(Append(fetchedQueue, held[f])) = Range(fetchedQueue) \cup {held[f]}
      BY <3>a, AppendedRange
    <3>2. Range(fetchedQueue') \subseteq Range(fetchedQueue) \cup {held[f]}
      BY <1>3, <3>b DEF PutFetched
    <3>3. Obtained' = Obtained
      BY <1>0, <1>3 DEF PutFetched, Obtained, ThreadTypes
    <3> QED
      BY <1>0, <1>3, <3>2, <3>3 DEF PutFetched, FlightInv, ThreadTypes
  <2>4. ValueTypes' /\ CoordInv' /\ PublishInv' /\ ReadyInv' /\ EndInv' /\ CloseInv'
    BY <1>0, <1>3 DEF PutFetched, ValueTypes, CoordInv, PublishInv, ReadyInv, EndInv,
       CloseInv, ThreadTypes, Obtained, Handed
  <2> QED
    BY <2>1, <2>2, <2>3, <2>4 DEF IInv
<1> QED
  BY <1>1, <1>2, <1>3 DEF FetchWorkerLoop

LEMMA PublishStep ==
    ASSUME IInv, OrderedPublishLoop
    PROVE  IInv'
<1> USE SizeAssumption, ThreadAssumption DEF Goto, PutOr, HasRoom, queues, flags,
        publisherVars, coordVars, threadVars, iteratorVars, Threads
<1>0. QueueTypes /\ ThreadTypes /\ ValueTypes /\ CoordInv /\ FlightInv /\ PublishInv /\ ReadyInv /\ EndInv /\ CloseInv
  BY DEF IInv
<1>1. CASE GetFetched
  <2>1. QueueTypes'
    <3>1. CASE fetchedQueue # <<>> /\ fetchedQueue' = Tail(fetchedQueue)
      <4>1. fetchedQueue \in Seq(Sequences) /\ Len(fetchedQueue) <= QueueSize
        BY <1>0 DEF QueueTypes
      <4>2. fetchedQueue' \in Seq(Sequences) /\ Len(fetchedQueue') <= QueueSize
        BY <3>1, <4>1, Removed
      <4> QED
        BY <1>0, <1>1, <4>2 DEF GetFetched, QueueTypes
    <3>2. CASE UNCHANGED fetchedQueue
      BY <1>0, <1>1, <3>2 DEF GetFetched, QueueTypes
    <3> QED
      BY <1>1, <3>1, <3>2 DEF GetFetched
  <2>2. ThreadTypes'
    BY <1>0, <1>1 DEF GetFetched, ThreadTypes, CoordInv, Sequences
  <2>3. ValueTypes'
    <3>1. fetchedQueue # <<>> => Head(fetchedQueue) \in Sequences
      BY <1>0, RemovedRange DEF QueueTypes
    <3> QED
      BY <1>0, <1>1, <3>1 DEF GetFetched, ValueTypes
  <2>4. FlightInv'
    <3>1. fetchedQueue # <<>> => /\ Range(Tail(fetchedQueue)) \subseteq Range(fetchedQueue)
                                 /\ Head(fetchedQueue) \in Range(fetchedQueue)
      BY <1>0, RemovedRange DEF QueueTypes
    <3>2. /\ Range(fetchedQueue') \subseteq Range(fetchedQueue)
          /\ buffered' \subseteq buffered \cup Range(fetchedQueue)
      BY <1>1, <3>1 DEF GetFetched
    <3>3. Obtained' = Obtained
      BY <1>0, <1>1 DEF GetFetched, Obtained, ThreadTypes
    <3> QED
      BY <1>0, <1>1, <3>2, <3>3 DEF GetFetched, FlightInv, ThreadTypes
  <2>5. PublishInv'
    BY <1>0, <1>1 DEF GetFetched, PublishInv, ThreadTypes, ValueTypes, FlightInv, CoordInv,
       Obtained
  <2>6. CoordInv' /\ ReadyInv' /\ EndInv' /\ CloseInv'
    BY <1>0, <1>1 DEF GetFetched, CoordInv, ReadyInv, EndInv, CloseInv, ThreadTypes, Handed
  <2> QED
    BY <2>1, <2>2, <2>3, <2>4, <2>5, <2>6 DEF IInv
<1>2. CASE CallAcknowledge
  <2>1. ThreadTypes'
    BY <1>0, <1>2 DEF CallAcknowledge, InTurn, Sequences, ThreadTypes, CoordInv
  <2>2. ValueTypes'
    <3>1. Obtained \in 0..MaxBatches
      BY <1>0 DEF Obtained, CoordInv, ThreadTypes, ValueTypes
    <3>2. /\ acknowledged' \in {acknowledged, acknowledged + 1}
          /\ acknowledged' # acknowledged => nextSequence \in buffered
          /\ acknowledged = nextSequence
          /\ buffered' \subseteq buffered /\ nextSequence' = nextSequence
      BY <1>0, <1>2 DEF CallAcknowledge, InTurn, PublishInv
    <3>3. acknowledged' \in 0..MaxBatches
      BY <1>0, <3>1, <3>2 DEF FlightInv, ValueTypes
    <3> QED
      BY <1>0, <1>2, <3>2, <3>3 DEF CallAcknowledge, ValueTypes
  <2>3. FlightInv'
    <3>1. Obtained' = Obtained /\ nextSequence' = nextSequence /\ buffered' \subseteq buffered
      BY <1>0, <1>2 DEF CallAcknowledge, InTurn, Obtained, ThreadTypes
    <3>2. pc'[Publisher] \in {"put", "count", "skip"} => nextSequence \in buffered
      BY <1>0, <1>2 DEF CallAcknowledge, InTurn, ThreadTypes
    <3> QED
      BY <1>0, <1>2, <3>1, <3>2 DEF CallAcknowledge, FlightInv, ThreadTypes
  <2>4. PublishInv'
    BY <1>0, <1>2 DEF CallAcknowledge, InTurn, Sequences, PublishInv, ThreadTypes,
       ValueTypes, FlightInv, CoordInv, Obtained
  <2>5. QueueTypes' /\ CoordInv' /\ ReadyInv' /\ EndInv' /\ CloseInv'
    BY <1>0, <1>2 DEF CallAcknowledge, InTurn, Sequences, QueueTypes, CoordInv, ReadyInv,
       EndInv, CloseInv, ThreadTypes, Handed
  <2> QED
    BY <2>1, <2>2, <2>3, <2>4, <2>5 DEF IInv
<1>3. CASE PutReady
  <2>1. QueueTypes'
    <3>1. CASE readyQueue' = Append(readyQueue, nextSequence) /\ HasRoom(readyQueue)
      <4>1. /\ readyQueue \in Seq(Items) /\ Len(readyQueue) < QueueSize
            /\ nextSequence \in Items
        BY <1>0, <1>3, <3>1 DEF PutReady, QueueTypes, ThreadTypes, ValueTypes,
           FlightInv, CoordInv, Obtained, Items, Sequences
      <4>2. readyQueue' \in Seq(Items) /\ Len(readyQueue') <= QueueSize
        BY <3>1, <4>1, Appended
      <4> QED
        BY <1>0, <1>3, <4>2 DEF PutReady, QueueTypes
    <3>2. CASE UNCHANGED readyQueue
      BY <1>0, <1>3, <3>2 DEF PutReady, QueueTypes
    <3> QED
      BY <1>3, <3>1, <3>2 DEF PutReady
  <2>2. ThreadTypes'
    BY <1>0, <1>3 DEF PutReady, ThreadTypes, CoordInv, Sequences
  <2>3. PublishInv'
    BY <1>0, <1>3 DEF PutReady, PublishInv, ThreadTypes, ValueTypes, FlightInv, CoordInv,
       Obtained
  <2>4. ReadyInv'
    <3>1. /\ readyQueue \in Seq(Items) /\ Len(yielded) \in Nat
          /\ Len(yielded) <= Handed /\ Ordered(readyQueue, Len(yielded), Handed)
      BY <1>0 DEF QueueTypes, ReadyInv
    <3>2. /\ Handed = nextSequence /\ nextSequence \in Sequences /\ nextSequence < Obtained
          /\ yielded' = yielded
      BY <1>0, <1>3 DEF PutReady, Handed, PublishInv, FlightInv, CoordInv, Obtained,
         ThreadTypes, ValueTypes, Sequences
    <3>3. EndItem \notin Range(readyQueue)
      BY <1>0, <1>3, <3>2 DEF PutReady, EndInv, CoordInv, PublishInv, Obtained, ThreadTypes,
         ValueTypes
    <3>4. Ordered(Append(readyQueue, nextSequence), Len(yielded), Handed + 1)
      BY <3>1, <3>2, <3>3, OrderedBatch
    <3>5. \/ readyQueue' = Append(readyQueue, nextSequence) /\ Handed' = Handed + 1
          \/ readyQueue' = readyQueue /\ Handed' = Handed
      BY <1>0, <1>3 DEF PutReady, Handed, ThreadTypes
    <3>6. Handed \in Int /\ Len(yielded') <= Handed'
      BY <3>1, <3>2, <3>5, SizeAssumption DEF Sequences
    <3> QED
      BY <3>1, <3>2, <3>4, <3>5, <3>6 DEF ReadyInv
  <2>5. EndInv'
    <3>1. /\ readyQueue \in Seq(Items)
          /\ nextSequence \in Sequences
      BY <1>0, <1>3 DEF PutReady, QueueTypes, FlightInv, CoordInv, Obtained, ThreadTypes,
         ValueTypes, Sequences
    <3>a. nextSequence \in Items /\ nextSequence # EndItem
      BY <3>1, MarkAssumption DEF Items
    <3>2. Range(Append(readyQueue, nextSequence)) = Range(readyQueue) \cup {nextSequence}
      BY <3>1, <3>a, AppendedRange
    <3>3. EndItem \in Range(readyQueue') => EndItem \in Range(readyQueue)
      BY <1>3, <3>a, <3>2 DEF PutReady
    <3> QED
      BY <1>0, <1>3, <3>3 DEF PutReady, EndInv, ThreadTypes
  <2>6. ValueTypes' /\ CoordInv' /\ FlightInv' /\ CloseInv'
    BY <1>0, <1>3 DEF PutReady, ValueTypes, CoordInv, FlightInv, CloseInv, ThreadTypes,
       Obtained
  <2> QED
    BY <2>1, <2>2, <2>3, <2>4, <2>5, <2>6 DEF IInv
<1>4. CASE CountPublished
  <2>1. ThreadTypes'
    BY <1>0, <1>4 DEF CountPublished, ThreadTypes, CoordInv, Sequences
  <2>2. ValueTypes'
    BY <1>0, <1>4 DEF CountPublished, ValueTypes, CoordInv, FlightInv, PublishInv, Obtained,
       Sequences, ThreadTypes, QueueTypes
  <2>3. FlightInv'
    BY <1>0, <1>4 DEF CountPublished, FlightInv, ThreadTypes, ValueTypes, QueueTypes,
       CoordInv, Obtained
  <2>4. PublishInv'
    BY <1>0, <1>4 DEF CountPublished, PublishInv, ThreadTypes, ValueTypes, FlightInv,
       CoordInv, Obtained
  <2>5. ReadyInv'
    BY <1>0, <1>4 DEF CountPublished, ReadyInv, ThreadTypes, ValueTypes, QueueTypes, Handed
  <2>6. EndInv'
    BY <1>0, <1>4 DEF CountPublished, EndInv, ThreadTypes, ValueTypes, QueueTypes,
       PublishInv, FlightInv, CoordInv, Obtained
  <2>7. QueueTypes' /\ CoordInv' /\ CloseInv'
    BY <1>0, <1>4 DEF CountPublished, QueueTypes, CoordInv, CloseInv, ThreadTypes
  <2> QED
    BY <2>1, <2>2, <2>3, <2>4, <2>5, <2>6, <2>7 DEF IInv
<1> QED
  BY <1>1, <1>2, <1>3, <1>4 DEF OrderedPublishLoop

LEMMA SignalStep ==
    ASSUME IInv, NEW t \in Threads, Signal(t)
    PROVE  IInv'
<1> USE SizeAssumption, ThreadAssumption DEF Goto, PutOr, HasRoom, queues, flags,
        publisherVars, coordVars, threadVars, iteratorVars, Threads
<1>0. QueueTypes /\ ThreadTypes /\ ValueTypes /\ CoordInv /\ FlightInv /\ PublishInv /\ ReadyInv /\ EndInv /\ CloseInv
  BY DEF IInv
<1>1. CASE TryEnd(t)
  <2>1. ThreadTypes'
    BY <1>0, <1>1 DEF TryEnd, EndDue, ThreadTypes, CoordInv, Sequences
  <2>2. ValueTypes'
    BY <1>0, <1>1 DEF TryEnd, EndDue, ValueTypes, CoordInv, FlightInv, PublishInv, Obtained,
       Sequences, ThreadTypes, QueueTypes
  <2>3. CoordInv'
    BY <1>0, <1>1 DEF TryEnd, EndDue, CoordInv, ThreadTypes, ValueTypes
  <2>4. FlightInv'
    <3>1. Obtained' = Obtained
      BY <1>0, <1>1 DEF TryEnd, Obtained, ThreadTypes
    <3>2. \A u \in Threads : pc'[u] \in {"fetch", "put", "count", "skip"} => pc'[u] = pc[u]
      BY <1>0, <1>1 DEF TryEnd, ThreadTypes
    <3> QED
      BY <1>0, <1>1, <3>1, <3>2 DEF TryEnd, FlightInv, ThreadTypes
  <2>5. PublishInv'
    BY <1>0, <1>1 DEF TryEnd, EndDue, PublishInv, ThreadTypes, ValueTypes, FlightInv,
       CoordInv, Obtained
  <2>6. EndInv'
    <3>1. endSent' => endSent \/ (coordinatorDone /\ published = scheduled)
      <4>1. EndDue => coordinatorDone /\ published = scheduled
        BY <1>0 DEF EndDue, CoordInv, PublishInv, FlightInv, Obtained, ThreadTypes,
           ValueTypes
      <4> QED
        BY <1>0, <1>1, <4>1 DEF TryEnd, ValueTypes
    <3>2. \A u \in Threads : pc'[u] = "end" => endSent'
      BY <1>0, <1>1 DEF TryEnd, EndInv, ThreadTypes, ValueTypes
    <3> QED
      BY <1>0, <1>1, <3>1, <3>2 DEF TryEnd, EndInv, ValueTypes
  <2>7. QueueTypes' /\ ReadyInv' /\ CloseInv'
    BY <1>0, <1>1 DEF TryEnd, EndDue, QueueTypes, ReadyInv, CloseInv, ThreadTypes, Handed
  <2> QED
    BY <2>1, <2>2, <2>3, <2>4, <2>5, <2>6, <2>7 DEF IInv
<1>2. CASE PutEnd(t)
  <2>1. QueueTypes'
    <3>1. CASE readyQueue' = Append(readyQueue, EndItem) /\ HasRoom(readyQueue)
      <4>1. /\ readyQueue \in Seq(Items) /\ Len(readyQueue) < QueueSize
            /\ EndItem \in Items
        BY <1>0, <1>2, <3>1 DEF QueueTypes, Items
      <4>2. readyQueue' \in Seq(Items) /\ Len(readyQueue') <= QueueSize
        BY <3>1, <4>1, Appended
      <4> QED
        BY <1>0, <1>2, <4>2 DEF PutEnd, PutMark, QueueTypes
    <3>2. CASE UNCHANGED readyQueue
      BY <1>0, <1>2, <3>2 DEF PutEnd, PutMark, QueueTypes
    <3> QED
      BY <1>2, <3>1, <3>2 DEF PutEnd, PutMark
  <2>2. ThreadTypes'
    BY <1>0, <1>2 DEF PutEnd, PutMark, ThreadTypes, CoordInv, Sequences
  <2>3. CoordInv'
    BY <1>0, <1>2 DEF PutEnd, PutMark, CoordInv, ThreadTypes, ValueTypes
  <2>4. ReadyInv'
    <3>1. readyQueue \in Seq(Items) /\ Ordered(readyQueue, Len(yielded), Handed)
      BY <1>0 DEF QueueTypes, ReadyInv
    <3>2. Ordered(Append(readyQueue, EndItem), Len(yielded), Handed)
      BY <3>1, OrderedMark
    <3>3. Handed' = Handed /\ yielded' = yielded
      BY <1>0, <1>2 DEF PutEnd, PutMark, Handed, ThreadTypes
    <3> QED
      BY <1>0, <1>2, <3>1, <3>2, <3>3 DEF PutEnd, PutMark, ReadyInv
  <2>5. EndInv'
    BY <1>0, <1>2 DEF PutEnd, PutMark, EndInv, ThreadTypes, ValueTypes, QueueTypes,
       PublishInv, FlightInv, CoordInv, Obtained
  <2>6. ValueTypes' /\ FlightInv' /\ PublishInv' /\ CloseInv'
    BY <1>0, <1>2 DEF PutEnd, PutMark, ValueTypes, FlightInv, PublishInv, CloseInv,
       ThreadTypes, Obtained
  <2> QED
    BY <2>1, <2>2, <2>3, <2>4, <2>5, <2>6 DEF IInv
<1>3. CASE PutError(t)
  <2>1. QueueTypes'
    <3>1. CASE readyQueue' = Append(readyQueue, ErrorItem) /\ HasRoom(readyQueue)
      <4>1. /\ readyQueue \in Seq(Items) /\ Len(readyQueue) < QueueSize
            /\ ErrorItem \in Items
        BY <1>0, <1>3, <3>1 DEF QueueTypes, Items
      <4>2. readyQueue' \in Seq(Items) /\ Len(readyQueue') <= QueueSize
        BY <3>1, <4>1, Appended
      <4> QED
        BY <1>0, <1>3, <4>2 DEF PutError, PutMark, QueueTypes
    <3>2. CASE UNCHANGED readyQueue
      BY <1>0, <1>3, <3>2 DEF PutError, PutMark, QueueTypes
    <3> QED
      BY <1>3, <3>1, <3>2 DEF PutError, PutMark
  <2>2. ThreadTypes'
    BY <1>0, <1>3 DEF PutError, PutMark, ThreadTypes, CoordInv, Sequences
  <2>3. CoordInv'
    BY <1>0, <1>3 DEF PutError, PutMark, CoordInv, ThreadTypes, ValueTypes
  <2>4. ReadyInv'
    <3>1. readyQueue \in Seq(Items) /\ Ordered(readyQueue, Len(yielded), Handed)
      BY <1>0 DEF QueueTypes, ReadyInv
    <3>2. Ordered(Append(readyQueue, ErrorItem), Len(yielded), Handed)
      BY <3>1, OrderedMark
    <3>3. Handed' = Handed /\ yielded' = yielded
      BY <1>0, <1>3 DEF PutError, PutMark, Handed, ThreadTypes
    <3> QED
      BY <1>0, <1>3, <3>1, <3>2, <3>3 DEF PutError, PutMark, ReadyInv
  <2>5. EndInv'
    <3>1. readyQueue \in Seq(Items) /\ ErrorItem \in Items
      BY <1>0 DEF QueueTypes, Items
    <3>2. Range(Append(readyQueue, ErrorItem)) = Range(readyQueue) \cup {ErrorItem}
      BY <3>1, AppendedRange
    <3>3. EndItem \in Range(readyQueue') => EndItem \in Range(readyQueue)
      BY <1>3, <3>2, MarkAssumption DEF PutError, PutMark
    <3> QED
      BY <1>0, <1>3, <3>3 DEF PutError, PutMark, EndInv, ThreadTypes
  <2>6. ValueTypes' /\ FlightInv' /\ PublishInv' /\ CloseInv'
    BY <1>0, <1>3 DEF PutError, PutMark, ValueTypes, FlightInv, PublishInv, CloseInv,
       ThreadTypes, Obtained
  <2> QED
    BY <2>1, <2>2, <2>3, <2>4, <2>5, <2>6 DEF IInv
<1>4. CASE Halt(t)
  <2>1. ThreadTypes'
    BY <1>0, <1>4 DEF Halt, AfterError, ThreadTypes, CoordInv, Sequences
  <2>2. ValueTypes'
    BY <1>0, <1>4 DEF Halt, AfterError, ValueTypes, CoordInv, FlightInv, PublishInv,
       Obtained, Sequences, ThreadTypes, QueueTypes
  <2>3. CoordInv'
    BY <1>0, <1>4 DEF Halt, AfterError, CoordInv, ThreadTypes, ValueTypes
  <2>4. PublishInv'
    BY <1>0, <1>4 DEF Halt, AfterError, PublishInv, ThreadTypes, ValueTypes, FlightInv,
       CoordInv, Obtained
  <2>5. QueueTypes' /\ FlightInv' /\ ReadyInv' /\ EndInv' /\ CloseInv'
    BY <1>0, <1>4 DEF Halt, AfterError, QueueTypes, FlightInv, ReadyInv, EndInv, CloseInv,
       ThreadTypes, Obtained, Handed, ValueTypes
  <2> QED
    BY <2>1, <2>2, <2>3, <2>4, <2>5 DEF IInv
<1> QED
  BY <1>1, <1>2, <1>3, <1>4 DEF Signal

LEMMA IteratorStep ==
    ASSUME IInv, Iterator
    PROVE  IInv'
<1> USE SizeAssumption, ThreadAssumption DEF Goto, PutOr, HasRoom, queues, flags,
        publisherVars, coordVars, threadVars, iteratorVars, Threads
<1>0. QueueTypes /\ ThreadTypes /\ ValueTypes /\ CoordInv /\ FlightInv /\ PublishInv /\ ReadyInv /\ EndInv /\ CloseInv
  BY DEF IInv
<1>1. CASE TakeItem
  <2>1. QueueTypes'
    <3>1. readyQueue \in Seq(Items) /\ readyQueue # <<>> /\ yielded \in Seq(Sequences)
      BY <1>0, <1>1 DEF TakeItem, QueueTypes
    <3>2. /\ Tail(readyQueue) \in Seq(Items) /\ Head(readyQueue) \in Items
          /\ Len(Tail(readyQueue)) = Len(readyQueue) - 1
      BY <3>1, Removed
    <3>3. yielded' \in Seq(Sequences)
      <4>1. CASE Head(readyQueue) \in {EndItem, ErrorItem}
        BY <1>1, <3>1, <4>1 DEF TakeItem
      <4>2. CASE Head(readyQueue) \notin {EndItem, ErrorItem}
        <5>1. Head(readyQueue) \in Sequences
          BY <3>2, <4>2 DEF Items
        <5>2. Append(yielded, Head(readyQueue)) \in Seq(Sequences)
          BY <3>1, <5>1, Appended
        <5> QED
          BY <1>1, <4>2, <5>2 DEF TakeItem
      <4> QED
        BY <4>1, <4>2
    <3>4. Len(readyQueue) \in Nat /\ Len(readyQueue) <= QueueSize
      BY <1>0 DEF QueueTypes
    <3> QED
      BY <1>0, <1>1, <3>2, <3>3, <3>4 DEF TakeItem, QueueTypes
  <2>2. ValueTypes'
    BY <1>0, <1>1 DEF TakeItem, Shutdown, Items, ValueTypes, CoordInv, FlightInv,
       PublishInv, Obtained, Sequences, ThreadTypes, QueueTypes
  <2>3. ReadyInv'
    <3>1. /\ readyQueue \in Seq(Items) /\ readyQueue # <<>> /\ yielded \in Seq(Sequences)
          /\ Len(yielded) \in Nat
      BY <1>0, <1>1 DEF TakeItem, QueueTypes
    <3>2. Handed \in 0..MaxBatches /\ Handed' = Handed
      BY <1>0, <1>1 DEF TakeItem, Handed, PublishInv, FlightInv, CoordInv, Obtained,
         ThreadTypes, ValueTypes
    <3>3. /\ Head(readyQueue) \in Sequences
                => /\ Head(readyQueue) = Len(yielded) /\ Len(yielded) < Handed
                   /\ Ordered(Tail(readyQueue), Len(yielded) + 1, Handed)
          /\ Head(readyQueue) \notin Sequences
                => Ordered(Tail(readyQueue), Len(yielded), Handed)
      BY <1>0, <3>1, <3>2, OrderedHead DEF ReadyInv
    <3>4. Head(readyQueue) \in Sequences \cup {EndItem, ErrorItem}
      BY <3>1, Removed DEF Items
    <3>5. CASE Head(readyQueue) \in {EndItem, ErrorItem}
      <4>1. Head(readyQueue) \notin Sequences
        BY <3>5, MarkAssumption
      <4> QED
        BY <1>0, <1>1, <3>2, <3>3, <3>5, <4>1 DEF TakeItem, ReadyInv
    <3>6. CASE Head(readyQueue) \notin {EndItem, ErrorItem}
      <4>1. Len(yielded') = Len(yielded) + 1 /\ readyQueue' = Tail(readyQueue)
        BY <1>1, <3>1, <3>4, <3>6, Appended DEF TakeItem
      <4> QED
        BY <3>1, <3>2, <3>3, <3>4, <3>6, <4>1 DEF ReadyInv
    <3> QED
      BY <3>5, <3>6
  <2>4. EndInv'
    <3>1. /\ readyQueue \in Seq(Items) /\ readyQueue # <<>> /\ yielded \in Seq(Sequences)
          /\ Len(yielded) \in Nat
      BY <1>0, <1>1 DEF TakeItem, QueueTypes
    <3>2. Handed \in 0..MaxBatches
      BY <1>0, <1>1 DEF TakeItem, Handed, PublishInv, FlightInv, CoordInv, Obtained,
         ThreadTypes, ValueTypes
    <3>3. /\ Head(readyQueue) \in Range(readyQueue)
          /\ Range(Tail(readyQueue)) \subseteq Range(readyQueue)
      BY <3>1, RemovedRange
    <3>4. Head(readyQueue) = EndItem => Handed <= Len(yielded)
      BY <1>0, <3>1, <3>2, OrderedHead DEF ReadyInv
    <3>5. endSent => Handed = scheduled
      BY <1>0 DEF EndInv, CoordInv, PublishInv, FlightInv, Handed, Obtained, ThreadTypes,
         ValueTypes
    <3>6. Head(readyQueue) = EndItem => endSent /\ Len(yielded) = scheduled
      BY <1>0, <3>1, <3>2, <3>3, <3>4, <3>5 DEF EndInv, ReadyInv
    <3>7. ~completed /\ (completed' => Head(readyQueue) = EndItem /\ yielded' = yielded)
      BY <1>0, <1>1 DEF TakeItem, Shutdown, CloseInv, ValueTypes
    <3> QED
      BY <1>0, <1>1, <3>3, <3>6, <3>7 DEF TakeItem, EndInv
  <2>5. CloseInv'
    BY <1>0, <1>1 DEF TakeItem, Shutdown, Items, CloseInv, ThreadTypes, ValueTypes, CoordInv
  <2>6. ThreadTypes' /\ CoordInv' /\ FlightInv' /\ PublishInv'
    BY <1>0, <1>1 DEF TakeItem, Shutdown, Items, ThreadTypes, CoordInv, FlightInv,
       PublishInv, Obtained, ValueTypes
  <2> QED
    BY <2>1, <2>2, <2>3, <2>4, <2>5, <2>6 DEF IInv
<1>2. CASE CloseEarly
  <2>1. ValueTypes'
    BY <1>0, <1>2 DEF CloseEarly, Shutdown, ValueTypes, CoordInv, FlightInv, PublishInv,
       Obtained, Sequences, ThreadTypes, QueueTypes
  <2>2. PublishInv'
    BY <1>0, <1>2 DEF CloseEarly, Shutdown, PublishInv, ThreadTypes, ValueTypes, FlightInv,
       CoordInv, Obtained
  <2>3. CloseInv'
    BY <1>0, <1>2 DEF CloseEarly, Shutdown, CloseInv, ThreadTypes, ValueTypes, CoordInv
  <2>4. QueueTypes' /\ ThreadTypes' /\ CoordInv' /\ FlightInv' /\ ReadyInv' /\ EndInv'
    BY <1>0, <1>2 DEF CloseEarly, Shutdown, QueueTypes, ThreadTypes, CoordInv, FlightInv,
       ReadyInv, EndInv, Obtained, Handed, ValueTypes
  <2> QED
    BY <2>1, <2>2, <2>3, <2>4 DEF IInv
<1>3. CASE Join
  <2>1. ValueTypes'
    BY <1>0, <1>3 DEF Join, ValueTypes, CoordInv, FlightInv, PublishInv, Obtained,
       Sequences, ThreadTypes, QueueTypes
  <2>2. CloseInv'
    BY <1>0, <1>3 DEF Join, CloseInv, ThreadTypes, ValueTypes, CoordInv
  <2>3. QueueTypes' /\ ThreadTypes' /\ CoordInv' /\ FlightInv' /\ PublishInv' /\ ReadyInv' /\ EndInv'
    BY <1>0, <1>3 DEF Join, QueueTypes, ThreadTypes, CoordInv, FlightInv, PublishInv,
       ReadyInv, EndInv, Obtained, Handed, ValueTypes
  <2> QED
    BY <2>1, <2>2, <2>3 DEF IInv
<1>4. CASE FinishJob
  <2>1. ValueTypes'
    BY <1>0, <1>4 DEF FinishJob, ClosingStatus, ValueTypes, CoordInv, FlightInv, PublishInv,
       Obtained, Sequences, ThreadTypes, QueueTypes
  <2>2. CloseInv'
    BY <1>0, <1>4 DEF FinishJob, ClosingStatus, CloseInv, ThreadTypes, ValueTypes, CoordInv
  <2>3. QueueTypes' /\ ThreadTypes' /\ CoordInv' /\ FlightInv' /\ PublishInv' /\ ReadyInv' /\ EndInv'
    BY <1>0, <1>4 DEF FinishJob, ClosingStatus, QueueTypes, ThreadTypes, CoordInv,
       FlightInv, PublishInv, ReadyInv, EndInv, Obtained, Handed, ValueTypes
  <2> QED
    BY <2>1, <2>2, <2>3 DEF IInv
<1> QED
  BY <1>1, <1>2, <1>3, <1>4 DEF Iterator

LEMMA InitInv == Init => IInv
<1> SUFFICES ASSUME Init
             PROVE  IInv
  OBVIOUS
<1>1. QueueTypes /\ ThreadTypes
  BY SizeAssumption, ThreadAssumption DEF Init, Threads, QueueTypes, ThreadTypes, Sequences
<1>2. ValueTypes
  <2>1. Cardinality(Fetchers) \in Nat
    BY SizeAssumption, FS_CardinalityType
  <2>2. poisons \in 0..Cardinality(Fetchers)
    BY <2>1 DEF Init
  <2>3. {stop, coordinatorDone, endSent, completed, hasClient, unclean} \subseteq BOOLEAN
    BY DEF Init
  <2>4. scheduled \in 0..MaxBatches /\ published \in 0..MaxBatches
        /\ nextSequence \in 0..MaxBatches /\ acknowledged \in 0..MaxBatches
    BY SizeAssumption DEF Init
  <2> QED
    BY <2>2, <2>3, <2>4 DEF Init, ValueTypes
<1>3. CoordInv /\ PublishInv /\ EndInv /\ CloseInv
  BY SizeAssumption, ThreadAssumption DEF Init, Threads, CoordInv, PublishInv, Obtained,
     EndInv, CloseInv, Range
<1>4. FlightInv
  BY SizeAssumption, ThreadAssumption DEF Init, Threads, FlightInv, Obtained, Range
<1>5. ReadyInv
  <2>1. Handed = 0 /\ Len(yielded) = 0 /\ DOMAIN readyQueue = {}
    BY ThreadAssumption DEF Init, Threads, Handed
  <2> QED
    BY <2>1, SizeAssumption DEF ReadyInv, Ordered, Sequences
<1> QED
  BY <1>1, <1>2, <1>3, <1>4, <1>5 DEF IInv

LEMMA NextInv == IInv /\ [Next]_vars => IInv'
<1> SUFFICES ASSUME IInv, [Next]_vars
             PROVE  IInv'
  OBVIOUS
<1>1. CASE UNCHANGED vars
  BY <1>1 DEF vars, queues, flags, publisherVars, coordVars, threadVars, iteratorVars,
     IInv, QueueTypes, ThreadTypes, ValueTypes, CoordInv, FlightInv, PublishInv, ReadyInv,
     EndInv, CloseInv, Obtained, Handed
<1>2. ASSUME NEW f \in Fetchers, FetchWorkerLoop(f)
      PROVE  IInv'
  BY <1>2, FetchStep
<1>3. ASSUME NEW t \in Threads, Signal(t)
      PROVE  IInv'
  BY <1>3, SignalStep
<1> QED
  BY <1>1, <1>2, <1>3, CoordStep, PublishStep, IteratorStep DEF Next, Terminated

-----------------------------------------------------------------------------
(* What it gives *)

\* The inductive invariant holds of every behaviour.
THEOREM Invariance == Spec => []IInv
BY InitInv, NextInv, PTL DEF Spec

\* Every variable keeps its type; a queue never holds more than its size.
THEOREM TypeCorrect == Spec => []PrefetcherTypeOK
<1>1. IInv => PrefetcherTypeOK
  BY DEF IInv, QueueTypes, ThreadTypes, ValueTypes, PrefetcherTypeOK
<1> QED
  BY <1>1, Invariance, PTL

\* FinishJob reports a job COMPLETED only after every batch obtained for it was
\* acknowledged and given to the training loop.
THEOREM CompletedIsComplete == Spec => []CompletedMeansAll
<1>1. IInv => CompletedMeansAll
  <2> SUFFICES ASSUME IInv, job = "completed"
               PROVE  coordinatorDone /\ Len(yielded) = scheduled /\ acknowledged = scheduled
    BY DEF CompletedMeansAll
  <2>1. completed /\ endSent /\ coordinatorDone /\ Len(yielded) = scheduled
        /\ published = scheduled
    BY DEF IInv, CloseInv, EndInv
  <2>2. Obtained = scheduled
    BY <2>1 DEF IInv, CoordInv, Obtained
  <2> QED
    BY <2>1, <2>2 DEF IInv, PublishInv, ValueTypes
<1> QED
  BY <1>1, Invariance, PTL

\* After a close without a timeout or a failed FinishJob the coordinator has no
\* active job of this iterator.
THEOREM CleanCloseIsClean == Spec => []CleanCloseEndsJob
<1>1. IInv => CleanCloseEndsJob
  BY DEF IInv, CloseInv, CleanCloseEndsJob
<1> QED
  BY <1>1, Invariance, PTL

-----------------------------------------------------------------------------
(* The prefetcher implements the ordered stream *)

LEMMA StreamStep ==
    ASSUME IInv, [Next]_vars
    PROVE  [Stream!Next]_Stream!vars
<1> USE DEF Goto, PutOr, queues, flags, publisherVars, coordVars, threadVars, iteratorVars,
        Threads
<1>0. QueueTypes /\ ThreadTypes /\ ValueTypes /\ CoordInv /\ ReadyInv /\ EndInv /\ CloseInv
      /\ PublishInv /\ FlightInv
  BY DEF IInv
<1> DEFINE same == UNCHANGED Stream!vars
<1>1. UNCHANGED vars => same
  BY DEF vars, Stream!vars
<1>2. ASSUME CoordinatorLoop
      PROVE  Stream!Obtain \/ Stream!Exhaust \/ same
  <2>1. Connect \/ CallStartJob \/ CallGetNextBatch \/ PutTaskSentinel => same
    BY <1>0, ThreadAssumption DEF Connect, CallStartJob, CallGetNextBatch, PutTaskSentinel,
       CoordError, ThreadTypes, Stream!vars
  <2>2. PutTask => Stream!Obtain \/ same
    BY <1>0, ThreadAssumption
       DEF PutTask, CoordInv, ThreadTypes, Stream!Obtain, Stream!vars
  <2>3. CountScheduled => same
    BY <1>0, ThreadAssumption DEF CountScheduled, ThreadTypes, Stream!vars
  <2>4. MarkCoordinatorDone => Stream!Exhaust
    BY <1>0, ThreadAssumption
       DEF MarkCoordinatorDone, CoordInv, ThreadTypes, ValueTypes, Stream!Exhaust
  <2> QED
    BY <1>2, <2>1, <2>2, <2>3, <2>4 DEF CoordinatorLoop
<1>3. ASSUME NEW f \in Fetchers, FetchWorkerLoop(f)
      PROVE  same
  BY <1>0, <1>3, ThreadAssumption
     DEF FetchWorkerLoop, GetTask, Fetch, PutFetched, ThreadTypes, Stream!vars
<1>4. OrderedPublishLoop => same
  BY <1>0, ThreadAssumption
     DEF OrderedPublishLoop, GetFetched, CallAcknowledge, PutReady, CountPublished,
         ThreadTypes, Stream!vars
<1>5. ASSUME NEW t \in Threads, Signal(t)
      PROVE  same
  <2>1. pc[t] \in {"check", "end", "error", "halt"} /\ pc'[t] # "count"
        /\ pc' = [pc EXCEPT ![t] = pc'[t]]
        /\ UNCHANGED <<yielded, scheduled, coordinatorDone, outcome>>
    BY <1>0, <1>5
       DEF Signal, TryEnd, PutEnd, PutError, PutMark, Halt, AfterError, ThreadTypes
  <2>2. pc[Coord] = "count" <=> pc'[Coord] = "count"
    BY <1>0, <2>1 DEF ThreadTypes
  <2> QED
    BY <2>1, <2>2 DEF Stream!vars
<1>6. ASSUME TakeItem
      PROVE  Stream!Yield \/ Stream!End \/ Stream!Break
  <2>1. /\ readyQueue \in Seq(Items) /\ readyQueue # <<>> /\ yielded \in Seq(Sequences)
        /\ Len(yielded) \in Nat /\ outcome = "open"
        /\ UNCHANGED <<pc, scheduled, coordinatorDone>>
    BY <1>0, <1>6 DEF TakeItem, QueueTypes, CloseInv
  <2>2. Handed \in 0..MaxBatches /\ Handed <= Obtained /\ Obtained \in Int
    BY <1>0 DEF Handed, PublishInv, FlightInv, CoordInv, Obtained, ThreadTypes, ValueTypes
  <2>3. /\ Head(readyQueue) \in Sequences
                => Head(readyQueue) = Len(yielded) /\ Len(yielded) < Handed
        /\ Head(readyQueue) = EndItem => Handed <= Len(yielded)
        /\ Head(readyQueue) \in Range(readyQueue)
        /\ Head(readyQueue) \in Sequences \cup {EndItem, ErrorItem}
    BY <1>0, <2>1, <2>2, OrderedHead, RemovedRange DEF ReadyInv, Items
  <2>4. CASE Head(readyQueue) = EndItem
    <3>1. endSent /\ coordinatorDone /\ Obtained = scheduled /\ Handed = scheduled
      BY <1>0, <2>3, <2>4 DEF EndInv, CoordInv, PublishInv, FlightInv, Handed, Obtained,
         ThreadTypes, ValueTypes
    <3>2. Len(yielded) = scheduled
      BY <1>0, <2>1, <2>2, <2>3, <2>4, <3>1 DEF ReadyInv
    <3> QED
      BY <1>6, <2>1, <2>4, <3>1, <3>2 DEF TakeItem, Shutdown, Obtained, Stream!End
  <2>5. CASE Head(readyQueue) = ErrorItem
    BY <1>6, <2>1, <2>5, MarkAssumption DEF TakeItem, Shutdown, Stream!Break
  <2>6. CASE Head(readyQueue) \in Sequences
    <3>1. Head(readyQueue) \notin {EndItem, ErrorItem}
      BY <2>6, MarkAssumption
    <3>2. Len(yielded) < Obtained
      BY <2>1, <2>2, <2>3, <2>6
    <3> QED
      BY <1>6, <2>1, <2>3, <2>6, <3>1, <3>2 DEF TakeItem, Obtained, Stream!Yield
  <2> QED
    BY <2>3, <2>4, <2>5, <2>6
<1>7. CloseEarly => Stream!Break
  BY <1>0 DEF CloseEarly, Shutdown, CloseInv, Stream!Break
<1>8. Join \/ FinishJob => same
  BY DEF Join, FinishJob, Stream!vars
<1> QED
  BY <1>1, <1>2, <1>3, <1>4, <1>5, <1>6, <1>7, <1>8 DEF Next, Iterator, Terminated,
     Stream!Next

\* Whatever fails and in whichever order the threads run, the training loop gets
\* the ordered stream.
THEOREM Refinement == Spec => OrderedDelivery
<1>1. Init => Stream!Init
  BY ThreadAssumption DEF Init, Threads, Stream!Init
<1>2. IInv /\ [Next]_vars => [Stream!Next]_Stream!vars
  BY StreamStep
<1> QED
  BY <1>1, <1>2, Invariance, PTL DEF Spec, OrderedDelivery, Stream!Spec

=============================================================================
