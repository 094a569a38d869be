--------------------------- MODULE ReusableCache ---------------------------
(***************************************************************************)
(* Where the bytes of a batch are: in Redis, in the memory of the worker   *)
(* that made them, or nowhere; and where the coordinator says they are.    *)
(*                                                                         *)
(* A worker runs a task (DataWorker._run_loop), puts the bytes and reports *)
(* them; for a reusable payload the report goes through admission          *)
(* (ReusableCacheManager), which runs under the manager's lock but         *)
(* interleaves, store call by store call, with pins, with the maintainer   *)
(* and with the reports of other workers.  Jobs pin READY payloads, the    *)
(* maintainer drops expired entries, the workers drop expired bytes.       *)
(***************************************************************************)
EXTENDS Integers, FiniteSets

CONSTANTS
    Batches,   \* batch ids, and with them cache keys and Redis keys
    Workers,
    None,      \* no worker, no batch
    Size,      \* the bytes of each batch's payload
    Capacity,  \* scheduler.config.cache_capacity_bytes, when it is positive
    Ttl,       \* DataWorker.transient_ttl
    MaxTime    \* bound: the clock stops here

ASSUME CacheAssumption ==
    /\ IsFiniteSet(Batches)
    /\ Size \in [Batches -> Nat]
    /\ Capacity \in Nat \ {0}
    /\ Ttl \in Nat \ {0}
    /\ MaxTime \in Nat
    /\ None \notin Workers \cup Batches

VARIABLES
    now,        \* now_ms(), the same clock everywhere
    task,       \* the task of a batch: "none", "pending", "running", "completed"
    class,      \* its storage class: "reusable" or "transient"
    entry,      \* the AVAILABLE payload entry (and READY handle) of a batch
    pinned,     \* the batches some job has pinned
    redis,      \* the batches whose bytes are in Redis
    local,      \* evict_after_ms of the bytes each worker keeps; 0 means none
    wkPc, wkBatch,
    lost,       \* the workers whose task was removed from the store
    report,     \* what a worker reports and admission turns it into
    admitting,  \* who holds the manager's lock
    victims,    \* the entries still to be evicted for that one
    doomed,     \* the evicted one whose bytes are still in Redis
    raced       \* history: a payload was admitted while another was not installed

workerVars == <<wkPc, wkBatch, lost, report>>
managerVars == <<admitting, victims, doomed, raced>>
vars == <<now, task, class, entry, pinned, redis, local, workerVars, managerVars>>

Absent == [kind |-> "none", worker |-> None, expires |-> 0, admission |-> "none"]

\* A PayloadEntry; expires 0 stands for None.
Placement == [kind : {"redis", "local"}, worker : Workers \cup {None},
              expires : 0..(MaxTime + Ttl),
              admission : {"none", "admitted", "rejected", "forced"}]

\* A report may name the worker's own copy as a fallback for the Redis object.
Report == [at : Placement \cup {Absent}, fallback : 0..(MaxTime + Ttl)]

NoReport == [at |-> Absent, fallback |-> 0]

Init ==
    /\ now = 0
    /\ task = [b \in Batches |-> "none"]
    /\ class = [b \in Batches |-> "transient"]
    /\ entry = [b \in Batches |-> Absent]
    /\ pinned = {}
    /\ redis = {}
    /\ local = [w \in Workers |-> [b \in Batches |-> 0]]
    /\ wkPc = [w \in Workers |-> "idle"]
    /\ wkBatch = [w \in Workers |-> None]
    /\ lost = {}
    /\ report = [w \in Workers |-> NoReport]
    /\ admitting = None
    /\ victims = {}
    /\ doomed = None
    /\ raced = FALSE

-----------------------------------------------------------------------------
(* Store *)

Ready(b) == entry[b].kind # "none"

InRedis == {b \in Batches : entry[b].kind = "redis"}

\* The bytes of some payloads, counted one by one.
Bytes(S) == Cardinality(UNION {{b} \X (1..Size[b]) : b \in S})

\* reusable_cache_bytes
CachedBytes == Bytes(InRedis)

\* Mutant: a pinned payload may go.
RemovablePinned(b) == Ready(b)

Removable(b) == Ready(b) /\ b \notin pinned

\* remove_payload: the entry, the handle and the task; whoever still works on
\* the batch holds a task id that the store does not know any more.
Remove(b) ==
    /\ entry' = [entry EXCEPT ![b] = Absent]
    /\ task' = [task EXCEPT ![b] = "none"]
    /\ lost' = lost \cup {w \in Workers : wkBatch[w] = b /\ wkPc[w] # "idle"}

\* A scheduler creates a task for a batch that is neither ready nor in progress
\* and chooses its storage class by the value estimates of the moment.
CreateTask(b) ==
    /\ task[b] = "none"
    /\ task' = [task EXCEPT ![b] = "pending"]
    /\ \E c \in {"reusable", "transient"} : class' = [class EXCEPT ![b] = c]
    /\ UNCHANGED <<now, entry, pinned, redis, local, workerVars, managerVars>>

\* get_next_batch pins a READY payload, acknowledge_batch unpins it.
Pin(b) ==
    /\ Ready(b)
    /\ b \notin pinned
    /\ pinned' = pinned \cup {b}
    /\ UNCHANGED <<now, task, class, entry, redis, local, workerVars, managerVars>>

Unpin(b) ==
    /\ b \in pinned
    /\ pinned' = pinned \ {b}
    /\ UNCHANGED <<now, task, class, entry, redis, local, workerVars, managerVars>>

\* PayloadEntry.is_expired
Expired(b) == entry[b].expires # 0 /\ now >= entry[b].expires

\* _cleanup_expired_payload_metadata, for one entry
CleanupEntry(b) ==
    /\ Expired(b)
    /\ Removable(b)
    /\ Remove(b)
    /\ UNCHANGED <<now, class, pinned, redis, local, wkPc, wkBatch, report, managerVars>>

Tick ==
    /\ now < MaxTime                         \* bound
    /\ now' = now + 1
    /\ UNCHANGED <<task, class, entry, pinned, redis, local, workerVars, managerVars>>

-----------------------------------------------------------------------------
(* The worker: InMemoryPayloadStore and DataWorker._run_loop *)

Goto(w, pc) == wkPc' = [wkPc EXCEPT ![w] = pc]

\* Mutant: bytes go a tick early.
StaleEarly(t) == t # 0 /\ t <= now + 1

\* "eligible for cleanup after this time"
Stale(t) == t # 0 /\ t <= now

\* cleanup_expired, between two polls
CleanupLocal(w) ==
    /\ wkPc[w] = "idle"
    /\ \E b \in Batches : Stale(local[w][b])
    /\ local' = [local EXCEPT ![w] = [b \in Batches |-> IF Stale(@[b]) THEN 0 ELSE @[b]]]
    /\ UNCHANGED <<now, task, class, entry, pinned, redis, workerVars, managerVars>>

\* evict_after_ms of a fresh put
EvictAfter == now + Ttl

\* The poll chooses a pending task and assigns it in a second step, so that two
\* workers may be given the same one.
Poll(w) ==
    /\ wkPc[w] = "idle"
    /\ \E b \in Batches : /\ task[b] = "pending"
                          /\ wkBatch' = [wkBatch EXCEPT ![w] = b]
    /\ lost' = lost \ {w}
    /\ Goto(w, "picked")
    /\ UNCHANGED <<now, task, class, entry, pinned, redis, local, report, managerVars>>

Assign(w) ==
    LET b == wkBatch[w] IN
    /\ wkPc[w] = "picked"
    /\ IF w \in lost
       THEN /\ Goto(w, "idle")
            /\ UNCHANGED task
       ELSE /\ Goto(w, "work")
            /\ task' = [task EXCEPT ![b] = IF @ = "pending" THEN "running" ELSE @]
    /\ UNCHANGED <<now, class, entry, pinned, redis, local, wkBatch, lost, report,
                   managerVars>>

Reports(w, at, fallback) ==
    report' = [report EXCEPT ![w] = [at |-> at, fallback |-> fallback]]

AtRedis == [kind |-> "redis", worker |-> None, expires |-> 0, admission |-> "none"]

AtWorker(w, t) == [kind |-> "local", worker |-> w, expires |-> t, admission |-> "none"]

\* The bytes are in Redis already: they are reported, without a fallback.
ReuseRedis(w) ==
    /\ wkPc[w] = "work"
    /\ class[wkBatch[w]] = "reusable"
    /\ wkBatch[w] \in redis
    /\ Reports(w, AtRedis, 0)
    /\ Goto(w, "report")
    /\ UNCHANGED <<now, task, class, entry, pinned, redis, local, wkBatch, lost,
                   managerVars>>

\* They are made, put into Redis and kept for a while as a fallback (the look
\* and the put are two steps, the local put is seen by nobody before the report).
StartRedis(w) ==
    /\ wkPc[w] = "work"
    /\ class[wkBatch[w]] = "reusable"
    /\ wkBatch[w] \notin redis
    /\ Goto(w, "put")
    /\ UNCHANGED <<now, task, class, entry, pinned, redis, local, wkBatch, lost,
                   report, managerVars>>

PutRedis(w) ==
    LET b == wkBatch[w] IN
    /\ wkPc[w] = "put"
    /\ redis' = redis \cup {b}
    /\ local' = [local EXCEPT ![w][b] = EvictAfter]
    /\ Reports(w, AtRedis, EvictAfter)
    /\ Goto(w, "report")
    /\ UNCHANGED <<now, task, class, entry, pinned, wkBatch, lost, managerVars>>

\* A transient payload is reported from the worker's memory, where it was
\* already (with the time it had) or is put.
PutLocal(w) ==
    LET b == wkBatch[w]
        until == IF local[w][b] # 0 THEN local[w][b] ELSE EvictAfter IN
    /\ wkPc[w] = "work"
    /\ class[b] = "transient"
    /\ local' = [local EXCEPT ![w][b] = until]
    /\ Reports(w, AtWorker(w, until), 0)
    /\ Goto(w, "report")
    /\ UNCHANGED <<now, task, class, entry, pinned, redis, wkBatch, lost, managerVars>>

\* CompleteMaterializeBatchTask arrives: an unknown task makes the worker fail.
Receive(w) ==
    /\ wkPc[w] = "report"
    /\ Goto(w, IF w \in lost THEN "idle"
               ELSE IF report[w].at.kind = "redis" THEN "admit" ELSE "install")
    /\ UNCHANGED <<now, task, class, entry, pinned, redis, local, wkBatch, lost,
                   report, managerVars>>

\* complete_task looks the task up again and installs entry and handle.
Install(w) ==
    LET b == wkBatch[w] IN
    /\ wkPc[w] = "install"
    /\ IF w \in lost
       THEN UNCHANGED <<task, entry>>
       ELSE /\ task' = [task EXCEPT ![b] = "completed"]
            /\ entry' = [entry EXCEPT ![b] = report[w].at]
    /\ report' = [report EXCEPT ![w] = NoReport]
    /\ Goto(w, "idle")
    /\ UNCHANGED <<now, class, pinned, redis, local, wkBatch, lost, managerVars>>

-----------------------------------------------------------------------------
(* Admission: ReusableCacheManager.admit_reusable_payload *)

Required(b) == CachedBytes + Size[b] - Capacity

\* _choose_eviction_victims: the unpinned entries of a lower value, the lowest
\* first, until enough bytes are freed.  The values are estimates that change
\* all the time, so that any order of any of the entries is possible.
VictimSets(b) ==
    {V \in SUBSET (InRedis \ pinned) :
        /\ Bytes(V) >= Required(b)
        /\ V = {} \/ \E last \in V : Bytes(V \ {last}) < Required(b)}

\* Admission takes the lock and chooses victims, or finds none and rejects.
Choose(w) ==
    LET b == wkBatch[w] IN
    /\ wkPc[w] = "admit"
    /\ admitting = None
    /\ admitting' = w
    /\ \/ /\ Size[b] <= Capacity
          /\ victims' \in VictimSets(b)
          /\ Goto(w, "evict")
       \/ /\ Size[b] > Capacity \/ Required(b) > 0
          /\ victims' = {}
          /\ Goto(w, "reject")
    /\ UNCHANGED <<now, task, class, entry, pinned, redis, local, wkBatch, lost,
                   report, doomed, raced>>

\* _evict_reusable_payload: the entry first, when it is still there and not
\* pinned meanwhile ...
Evict(w) ==
    /\ wkPc[w] = "evict"
    /\ doomed = None
    /\ \E v \in victims :
          /\ victims' = victims \ {v}
          /\ IF Removable(v)
             THEN /\ Remove(v)
                  /\ doomed' = IF entry[v].kind = "redis" THEN v ELSE None
             ELSE UNCHANGED <<entry, task, lost, doomed>>
    /\ UNCHANGED <<now, class, pinned, redis, local, wkPc, wkBatch, report, admitting,
                   raced>>

\* ... then its bytes.
EvictBytes(w) ==
    /\ wkPc[w] = "evict"
    /\ doomed # None
    /\ redis' = redis \ {doomed}
    /\ doomed' = None
    /\ UNCHANGED <<now, task, class, entry, pinned, local, workerVars, admitting,
                   victims, raced>>

\* Mutant: what is cached is compared with the capacity, not what will be.
FitsBefore(b) == CachedBytes <= Capacity

Fits(b) == CachedBytes + Size[b] <= Capacity

Granted(others) ==
    \E w \in others : wkPc[w] = "install" /\ report[w].at.admission = "admitted"

\* With the victims gone the capacity is looked at again.
Admit(w) ==
    LET b == wkBatch[w] IN
    /\ wkPc[w] = "evict"
    /\ victims = {} /\ doomed = None
    /\ IF Fits(b)
       THEN /\ report' = [report EXCEPT ![w].at.admission = "admitted"]
            /\ admitting' = None
            /\ raced' = (raced \/ Granted(Workers \ {w}))
            /\ Goto(w, "install")
       ELSE /\ Goto(w, "reject")
            /\ UNCHANGED <<report, admitting, raced>>
    /\ UNCHANGED <<now, task, class, entry, pinned, redis, local, wkBatch, lost, victims,
                   doomed>>

\* The placement of a rejected payload: the fallback, or without one still Redis.
Fallback(w) ==
    IF report[w].fallback # 0
    THEN [AtWorker(w, report[w].fallback) EXCEPT !.admission = "rejected"]
    ELSE [AtRedis EXCEPT !.admission = "forced"]

\* _use_transient_fallback deletes the Redis object in any case.
Reject(w) ==
    LET b == wkBatch[w] IN
    /\ wkPc[w] = "reject"
    /\ redis' = redis \ {b}
    /\ report' = [report EXCEPT ![w].at = Fallback(w)]
    /\ admitting' = None
    /\ Goto(w, "install")
    /\ UNCHANGED <<now, task, class, entry, pinned, local, wkBatch, lost, victims,
                   doomed, raced>>

-----------------------------------------------------------------------------
Work(w) ==
    \/ CleanupLocal(w) \/ Poll(w) \/ Assign(w) \/ ReuseRedis(w) \/ StartRedis(w)
    \/ PutRedis(w) \/ PutLocal(w) \/ Receive(w) \/ Install(w)

Admission(w) == Choose(w) \/ Evict(w) \/ EvictBytes(w) \/ Admit(w) \/ Reject(w)

Next ==
    \/ \E b \in Batches : CreateTask(b) \/ Pin(b) \/ Unpin(b) \/ CleanupEntry(b)
    \/ \E w \in Workers : Work(w) \/ Admission(w)
    \/ Tick

Spec == Init /\ [][Next]_vars

-----------------------------------------------------------------------------
(* Properties *)

CacheTypeOK ==
    /\ now \in 0..MaxTime
    /\ task \in [Batches -> {"none", "pending", "running", "completed"}]
    /\ class \in [Batches -> {"reusable", "transient"}]
    /\ entry \in [Batches -> Placement \cup {Absent}]
    /\ pinned \subseteq Batches
    /\ redis \subseteq Batches
    /\ local \in [Workers -> [Batches -> 0..(MaxTime + Ttl)]]
    /\ wkPc \in [Workers -> {"idle", "picked", "work", "put", "report", "admit",
                             "evict", "reject", "install"}]
    /\ wkBatch \in [Workers -> Batches \cup {None}]
    /\ lost \subseteq Workers
    /\ report \in [Workers -> Report]
    /\ admitting \in Workers \cup {None}
    /\ victims \subseteq Batches
    /\ doomed \in Batches \cup {None}
    /\ raced \in BOOLEAN

\* The admitted entries stay within the capacity, evictions, rejections, expiries
\* and repeated reports included, unless a payload was admitted while another one
\* was admitted but no entry yet: admission compares the entries with the
\* capacity, and what it admits becomes an entry only later, outside the lock.
CapacityHeld ==
    /\ CacheTypeOK
    /\ ~raced => Bytes({b \in Batches : entry[b].admission = "admitted"}) <= Capacity

\* An entry in a worker's memory that has not expired can be fetched there: the
\* entry's and the bytes' times are the same, although the bytes may be put
\* again, reused for a second task, or reported after they went stale.
TransientFetchable ==
    \A b \in Batches : entry[b].kind = "local" /\ ~Expired(b) =>
        local[entry[b].worker][b] # 0

\* No pinned payload loses its entry, also one that is pinned after admission
\* chose it as a victim.
PinnedNotRemoved == [][\A b \in pinned : Ready(b) => Ready(b)']_vars

\* A rejected payload gets the transient fallback location ("either retains the
\* Redis object or deletes it and returns the transient fallback location").
RejectedHasFallback ==
    \A w \in Workers : wkPc[w] = "install" /\ report[w].at.admission \in {"rejected", "forced"}
        => report[w].at.kind = "local"
=============================================================================
