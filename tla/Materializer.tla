---------------------------- MODULE Materializer ----------------------------
(***************************************************************************)
(* One materialization task of a data worker                               *)
(* (data_worker/materializers.py): the samples of a batch are read from S3 *)
(* by a pool of threads, each read with a number of attempts, then decoded *)
(* by a second pool, and put together in the order of the batch.  Both     *)
(* pools are used by executor.map inside a with statement: results are     *)
(* looked at in order, the first exception met cancels what has not been   *)
(* started, and the statement waits for what is running.                   *)
(***************************************************************************)
EXTENDS Naturals, FiniteSets, Sequences

CONSTANTS
    FetchThreads,    \* s3_fetch_threads
    DecodeThreads,   \* decode_threads
    MaxAttempts      \* of read_s3_bytes

ASSUME ThreadAssumption ==
    FetchThreads \in Nat /\ DecodeThreads \in Nat /\ MaxAttempts \in Nat \ {0}

VARIABLES
    stage,     \* idle, fetch, decode, done or failed
    samples,   \* batch.samples
    work,      \* per sample: wait, run, ok, bad, or cut (cancelled)
    tries,     \* failed attempts to read a sample
    ended,     \* the samples decoded, in the order in which that ended
    payload    \* the rows of the payload

matVars == <<stage, samples, work, tries, ended, payload>>

Positions == DOMAIN samples
In(s) == {i \in Positions : work[i] = s}

\* A pool of at most one thread is no pool: the caller does the work in order.
Threads == IF stage = "fetch" THEN FetchThreads ELSE DecodeThreads
Pooled == Threads > 1

\* The failure the caller meets: everything before it has succeeded.
Met == {i \in In("bad") : \A h \in Positions : h < i => work[h] = "ok"}

\* Mutant: results are not sorted.
InOrderOfArrival(i) == samples[ended[i]]

\* The row of position i: results carry their index and are sorted by it.
RowAt(i) == samples[i]

MatInit ==
    /\ stage = "idle"
    /\ samples = <<>> /\ work = <<>> /\ tries = <<>> /\ ended = <<>> /\ payload = <<>>

\* Synthetic samples are computed from their numbers, one after the other.
SyntheticRows(batch) == batch

\* materialize: the kind of batch decides; an unknown kind or payload format is
\* an error.
Materialize(batch, kind) ==
    /\ stage = "idle"
    /\ samples' = batch
    /\ work' = [i \in DOMAIN batch |-> "wait"]
    /\ tries' = [i \in DOMAIN batch |-> 0]
    /\ ended' = <<>>
    /\ CASE batch = <<>> \/ kind = "unknown" -> stage' = "failed" /\ payload' = <<>>
         [] batch # <<>> /\ kind = "synthetic" -> stage' = "done" /\ payload' = SyntheticRows(batch)
         [] batch # <<>> /\ kind = "s3" -> stage' = "fetch" /\ payload' = <<>>

\* A thread takes the next sample of the queue.
Begin(i) ==
    /\ stage \in {"fetch", "decode"} /\ i \in In("wait")
    /\ \A h \in In("wait") : i <= h
    /\ IF Pooled THEN Cardinality(In("run")) < Threads ELSE In("run") \cup In("bad") = {}
    /\ work' = [work EXCEPT ![i] = "run"]
    /\ UNCHANGED <<stage, samples, tries, ended, payload>>

\* read_s3_bytes: an error that may pass is tried again, up to MaxAttempts.
Read(i) ==
    /\ stage = "fetch" /\ i \in In("run")
    /\ \/ work' = [work EXCEPT ![i] = "ok"] /\ UNCHANGED tries
       \/ /\ tries[i] + 1 < MaxAttempts
          /\ tries' = [tries EXCEPT ![i] = @ + 1]
          /\ UNCHANGED work
       \/ work' = [work EXCEPT ![i] = "bad"] /\ UNCHANGED tries
    /\ UNCHANGED <<stage, samples, ended, payload>>

\* Decoding and the transform; a retrieval sample without caption or image
\* number is an error here.
Decode(i) ==
    /\ stage = "decode" /\ i \in In("run")
    /\ \/ work' = [work EXCEPT ![i] = "ok"] /\ ended' = Append(ended, i)
       \/ work' = [work EXCEPT ![i] = "bad"] /\ UNCHANGED ended
    /\ UNCHANGED <<stage, samples, tries, payload>>

\* The caller meets a failure; inline, nothing else has been started.
Cancel ==
    /\ stage \in {"fetch", "decode"} /\ Met # {} /\ In("wait") # {}
    /\ work' = [i \in Positions |-> IF work[i] = "wait" THEN "cut" ELSE work[i]]
    /\ UNCHANGED <<stage, samples, tries, ended, payload>>

\* The end of the with statement, and what follows it.
Ended == (Met # {} \/ In("ok") = Positions) /\ In("wait") \cup In("run") = {}
EndStage ==
    /\ stage \in {"fetch", "decode"} /\ Ended
    /\ CASE Met # {} -> stage' = "failed" /\ UNCHANGED <<work, payload>>
         [] Met = {} /\ stage = "fetch" ->
                /\ stage' = "decode"
                /\ work' = [i \in Positions |-> "wait"]
                /\ UNCHANGED payload
         [] Met = {} /\ stage = "decode" ->
                /\ stage' = "done"
                /\ payload' = [i \in Positions |-> RowAt(i)]
                /\ UNCHANGED work
    /\ UNCHANGED <<samples, tries, ended>>

MatStep == (\E i \in Positions : Begin(i) \/ Read(i) \/ Decode(i)) \/ Cancel \/ EndStage

\* The worker has reported the outcome and polls for the next task.
Report ==
    /\ stage \in {"done", "failed"}
    /\ stage' = "idle"
    /\ samples' = <<>> /\ work' = <<>> /\ tries' = <<>> /\ ended' = <<>> /\ payload' = <<>>

-----------------------------------------------------------------------------
(* Properties *)

\* A payload has the rows of the batch, all of them and in its order, however
\* the threads of both pools ended and whatever was read twice; and neither a
\* payload nor a failure is reported while a thread is still at work.
PayloadComplete ==
    /\ stage = "done" => payload = samples
    /\ stage \in {"idle", "done", "failed"} => In("run") = {}
=============================================================================
