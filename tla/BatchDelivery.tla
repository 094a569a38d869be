--------------------------- MODULE BatchDelivery ---------------------------
(***************************************************************************)
(* What the coordinator promises a training job: the batches of its epochs *)
(* in order, none skipped and none twice, across epoch boundaries; and     *)
(* after the job is closed at most one more, that of a call in flight.     *)
(***************************************************************************)
EXTENDS Integers, Sequences

CONSTANTS Jobs, BatchesPerEpoch,
          ownerOf   \* the owner part of a job's batch ids

VARIABLES received,  \* the batches handed to each job
          phase      \* "open", "closing" (a call is in flight) or "closed"

FirstBatch(j) == [epoch |-> 0, index |-> 0, owner |-> ownerOf[j]]

Successor(b) == IF b.index + 1 = BatchesPerEpoch
                THEN [b EXCEPT !.epoch = @ + 1, !.index = 0]
                ELSE [b EXCEPT !.index = @ + 1]

Following(j) == IF received[j] = <<>> THEN FirstBatch(j)
                ELSE Successor(received[j][Len(received[j])])

Init == /\ received = [j \in Jobs |-> <<>>]
        /\ phase = [j \in Jobs |-> "open"]

Deliver(j) ==
    /\ phase[j] \in {"open", "closing"}
    /\ received' = [received EXCEPT ![j] = Append(@, Following(j))]
    /\ phase' = [phase EXCEPT ![j] = IF @ = "open" THEN "open" ELSE "closed"]

Close(j) ==
    /\ phase[j] = "open"
    /\ phase' \in {[phase EXCEPT ![j] = q] : q \in {"closing", "closed"}}
    /\ UNCHANGED received

\* The call in flight ends without a batch.
Settle(j) ==
    /\ phase[j] = "closing"
    /\ phase' = [phase EXCEPT ![j] = "closed"]
    /\ UNCHANGED received

Next == \E j \in Jobs : Deliver(j) \/ Close(j) \/ Settle(j)

Spec == Init /\ [][Next]_<<received, phase>>
=============================================================================
