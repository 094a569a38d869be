---------------------------- MODULE CacheProofs ----------------------------
(***************************************************************************)
(* The safety properties of ReusableCache, for any batches and workers,    *)
(* sizes, capacity, time to live and length of the clock.                  *)
(***************************************************************************)
EXTENDS ReusableCache, Functions, FiniteSetTheorems, TLAPS

-----------------------------------------------------------------------------
(* Counting bytes *)

Slots(S) == UNION {{b} \X (1..Size[b]) : b \in S}

LEMMA OneToN ==
    ASSUME NEW n \in Nat
    PROVE  IsFiniteSet(1..n) /\ Cardinality(1..n) = n
BY FS_Interval

LEMMA SlotsAreFinite ==
    ASSUME NEW S \in SUBSET Batches
    PROVE  IsFiniteSet(Slots(S)) /\ Bytes(S) = Cardinality(Slots(S)) /\ Bytes(S) \in Nat
<1> DEFINE slot == [b \in S |-> {b} \X (1..Size[b])]
           images == {{b} \X (1..Size[b]) : b \in S}
<1>1. IsFiniteSet(S)
  BY CacheAssumption, FS_Subset
<1>2. slot \in Surjection(S, images)
  BY DEF Surjection
<1>3. IsFiniteSet(images)
  BY <1>1, <1>2, FS_Surjection
<1>4. ASSUME NEW T \in images
      PROVE  IsFiniteSet(T)
  <2>1. PICK b \in S : T = {b} \X (1..Size[b])
    OBVIOUS
  <2>2. Size[b] \in Nat
    BY CacheAssumption
  <2>3. IsFiniteSet({b}) /\ IsFiniteSet(1..Size[b])
    BY <2>2, FS_Singleton, OneToN
  <2> QED
    BY <2>1, <2>3, FS_Product
<1>5. IsFiniteSet(UNION images)
  BY <1>3, <1>4, FS_UNION
<1>6. Slots(S) = UNION images /\ Bytes(S) = Cardinality(Slots(S))
  BY DEF Slots, Bytes
<1> QED
  BY <1>5, <1>6, FS_CardinalityType

\* More payloads need no less room.
LEMMA BytesGrow ==
    ASSUME NEW S \in SUBSET Batches, NEW T \in SUBSET S
    PROVE  Bytes(T) <= Bytes(S)
<1>1. Slots(T) \in SUBSET Slots(S)
  BY DEF Slots
<1> QED
  BY <1>1, SlotsAreFinite, FS_Subset

\* One payload more needs at most its own size more.
LEMMA BytesAdd ==
    ASSUME NEW S \in SUBSET Batches, NEW b \in Batches
    PROVE  Bytes(S \cup {b}) <= Bytes(S) + Size[b]
<1> DEFINE own == {b} \X (1..Size[b])
<1>1. Slots(S \cup {b}) = Slots(S) \cup own
  BY DEF Slots
<1>2. Size[b] \in Nat
  BY CacheAssumption
<1>3. IsFiniteSet(own) /\ Cardinality(own) = Size[b]
  <2>1. IsFiniteSet({b}) /\ Cardinality({b}) = 1
    BY FS_Singleton
  <2>2. IsFiniteSet(1..Size[b]) /\ Cardinality(1..Size[b]) = Size[b]
    BY <1>2, OneToN
  <2>3. IsFiniteSet(own) /\ Cardinality(own) = Cardinality({b}) * Cardinality(1..Size[b])
    BY <2>1, <2>2, FS_Product
  <2>4. 1 * Size[b] = Size[b]
    BY <1>2
  <2> QED
    BY ONLY <2>1, <2>2, <2>3, <2>4
<1>4. IsFiniteSet(Slots(S)) /\ Bytes(S) = Cardinality(Slots(S)) /\ Bytes(S) \in Nat
      /\ Bytes(S \cup {b}) = Cardinality(Slots(S \cup {b}))
  BY SlotsAreFinite
<1>5. Cardinality(Slots(S \cup {b}))
         = Cardinality(Slots(S)) + Cardinality(own) - Cardinality(Slots(S) \cap own)
  BY <1>1, <1>3, <1>4, FS_Union, Zenon
<1>6. Cardinality(Slots(S) \cap own) \in Nat
  BY <1>4, FS_Intersection, FS_CardinalityType
<1> HIDE DEF own
<1> QED
  BY <1>1, <1>2, <1>3, <1>4, <1>5, <1>6

-----------------------------------------------------------------------------
(* What the workers' reports look like at each step *)

Reporting == {"report", "admit", "evict", "reject", "install"}

\* A worker with a task has a batch, and a report of it once the bytes are put;
\* only what is in Redis is admitted.
ReportTypes ==
    /\ \A w \in Workers :
          /\ wkPc[w] # "idle" => wkBatch[w] \in Batches
          /\ wkPc[w] \in Reporting => report[w].at \in Placement
          /\ wkPc[w] \in {"report", "admit", "evict", "reject"}
                => report[w].at.admission = "none"
          /\ wkPc[w] \in {"admit", "evict", "reject"} => report[w].at.kind = "redis"
          /\ wkPc[w] = "install" /\ report[w].at.admission = "admitted"
                => report[w].at.kind = "redis"
    /\ \A b \in Batches : entry[b].admission = "admitted" => entry[b].kind = "redis"

TypeInv == CacheTypeOK /\ ReportTypes

LEMMA InitTypes == Init => TypeInv
<1> SUFFICES ASSUME Init
             PROVE  TypeInv
  OBVIOUS
<1> USE DEF Init
<1>1. 0 \in 0..MaxTime /\ 0 \in 0..(MaxTime + Ttl)
  BY CacheAssumption
<1>2. ReportTypes
  BY DEF ReportTypes, Reporting, Absent
<1>3. report \in [Workers -> Report] /\ entry \in [Batches -> Placement \cup {Absent}]
  BY <1>1 DEF NoReport, Report
<1>4. local \in [Workers -> [Batches -> 0..(MaxTime + Ttl)]] /\ now \in 0..MaxTime
  BY <1>1
<1>5. raced \in BOOLEAN
  BY Zenon
<1>6. /\ task \in [Batches -> {"none", "pending", "running", "completed"}]
      /\ class \in [Batches -> {"reusable", "transient"}]
      /\ pinned \subseteq Batches /\ redis \subseteq Batches /\ lost \subseteq Workers
      /\ wkPc \in [Workers -> {"idle", "picked", "work", "put", "report", "admit",
                               "evict", "reject", "install"}]
      /\ wkBatch \in [Workers -> Batches \cup {None}]
      /\ admitting \in Workers \cup {None} /\ victims \subseteq Batches
      /\ doomed \in Batches \cup {None}
  OBVIOUS
<1> QED
  BY ONLY <1>2, <1>3, <1>4, <1>5, <1>6 DEF TypeInv, CacheTypeOK

LEMMA TypeStep == TypeInv /\ [Next]_vars => TypeInv'
<1> SUFFICES ASSUME TypeInv, [Next]_vars
             PROVE  TypeInv'
  OBVIOUS
<1> USE DEF workerVars, managerVars, Goto
<1>0. /\ now \in 0..MaxTime
      /\ task \in [Batches -> {"none", "pending", "running", "completed"}]
      /\ class \in [Batches -> {"reusable", "transient"}]
      /\ entry \in [Batches -> Placement \cup {Absent}]
      /\ pinned \subseteq Batches
      /\ redis \subseteq Batches
      /\ local \in [Workers -> [Batches -> 0..(MaxTime + Ttl)]]
      /\ wkPc \in [Workers -> {"idle", "picked", "work", "put", "report", "admit",
                               "evict", "reject", "install"}]
      /\ wkBatch \in [Workers -> Batches \cup {None}]
      /\ lost \subseteq Workers
      /\ report \in [Workers -> Report]
      /\ admitting \in Workers \cup {None}
      /\ victims \subseteq Batches
      /\ doomed \in Batches \cup {None}
      /\ raced \in BOOLEAN
      /\ ReportTypes
  BY DEF TypeInv, CacheTypeOK
<1>a. MaxTime \in Nat /\ Ttl \in Nat
  BY CacheAssumption
<1>1. CASE UNCHANGED vars
  BY <1>0, <1>1 DEF vars, TypeInv, CacheTypeOK, ReportTypes
<1>2. CASE Tick \/ \E b \in Batches : CreateTask(b) \/ Pin(b) \/ Unpin(b)
  <2>1. /\ now' \in 0..MaxTime
        /\ task' \in [Batches -> {"none", "pending", "running", "completed"}]
        /\ class' \in [Batches -> {"reusable", "transient"}]
        /\ pinned' \subseteq Batches
        /\ UNCHANGED <<entry, redis, local, workerVars, managerVars>>
    <3>1. CASE Tick
      BY <1>0, <1>a, <3>1 DEF Tick
    <3>2. CASE \E b \in Batches : CreateTask(b)
      BY <1>0, <3>2 DEF CreateTask
    <3>3. CASE \E b \in Batches : Pin(b) \/ Unpin(b)
      BY <1>0, <3>3 DEF Pin, Unpin
    <3> QED
      BY <1>2, <3>1, <3>2, <3>3
  <2> QED
    BY <1>0, <2>1 DEF TypeInv, CacheTypeOK, ReportTypes
<1>3. ASSUME NEW b \in Batches, Remove(b)
      PROVE  /\ entry' = [entry EXCEPT ![b] = Absent]
             /\ entry' \in [Batches -> Placement \cup {Absent}]
             /\ task' \in [Batches -> {"none", "pending", "running", "completed"}]
             /\ lost' \subseteq Workers
             /\ \A c \in Batches : entry'[c].admission = "admitted" => entry'[c].kind = "redis"
  BY <1>0, <1>3 DEF Remove, ReportTypes, Absent
<1>4. CASE \E b \in Batches : CleanupEntry(b)
  <2>1. PICK b \in Batches : /\ Remove(b)
                             /\ UNCHANGED <<now, class, pinned, redis, local, wkPc, wkBatch,
                                            report, managerVars>>
    BY <1>4 DEF CleanupEntry
  <2> QED
    BY <1>0, <1>3, <2>1 DEF TypeInv, CacheTypeOK, ReportTypes
<1>5. ASSUME NEW w \in Workers, Evict(w)
      PROVE  TypeInv'
  <2>1. PICK v \in victims : IF Removable(v)
             THEN Remove(v) /\ doomed' \in {v, None}
             ELSE UNCHANGED <<entry, task, lost, doomed>>
    BY <1>5 DEF Evict
  <2>2. /\ UNCHANGED <<now, class, pinned, redis, local, wkPc, wkBatch, report, admitting,
                       raced>>
        /\ victims' \subseteq victims
    BY <1>5 DEF Evict
  <2> QED
    BY <1>0, <1>3, <2>1, <2>2 DEF TypeInv, CacheTypeOK, ReportTypes
<1>6. ASSUME NEW w \in Workers,
             CleanupLocal(w) \/ Poll(w) \/ Assign(w) \/ StartRedis(w) \/ Choose(w)
      PROVE  TypeInv'
  <2>1. /\ task' \in [Batches -> {"none", "pending", "running", "completed"}]
        /\ local' \in [Workers -> [Batches -> 0..(MaxTime + Ttl)]]
        /\ lost' \subseteq Workers
        /\ admitting' \in Workers \cup {None} /\ victims' \subseteq Batches
        /\ UNCHANGED <<now, class, entry, pinned, redis, report, doomed, raced>>
    <3>1. CASE CleanupLocal(w)
      <4> DEFINE kept == [b \in Batches |-> IF Stale(local[w][b]) THEN 0 ELSE local[w][b]]
      <4>1. kept \in [Batches -> 0..(MaxTime + Ttl)]
        BY <1>0, <1>a
      <4>2. local' = [local EXCEPT ![w] = kept]
        BY <3>1 DEF CleanupLocal
      <4>3. local' \in [Workers -> [Batches -> 0..(MaxTime + Ttl)]]
        BY <1>0, <4>1, <4>2
      <4> QED
        BY <1>0, <3>1, <4>3 DEF CleanupLocal
    <3>2. CASE Poll(w) \/ StartRedis(w)
      BY <1>0, <3>2 DEF Poll, StartRedis
    <3>a. CASE Assign(w)
      BY <1>0, <3>a DEF Assign
    <3>3. CASE Choose(w)
      BY <1>0, <3>3 DEF Choose, VictimSets, InRedis
    <3> QED
      BY <1>6, <3>1, <3>2, <3>3, <3>a
  <2>2. \/ wkPc' = wkPc /\ wkBatch' = wkBatch
        \/ /\ wkPc' = [wkPc EXCEPT ![w] = "picked"]
           /\ \E b \in Batches : wkBatch' = [wkBatch EXCEPT ![w] = b]
        \/ /\ wkPc[w] # "idle" /\ wkBatch' = wkBatch
           /\ \E pc \in {"idle", "work", "put"} : wkPc' = [wkPc EXCEPT ![w] = pc]
        \/ /\ wkPc[w] = "admit" /\ wkBatch' = wkBatch
           /\ \E pc \in {"evict", "reject"} : wkPc' = [wkPc EXCEPT ![w] = pc]
    BY <1>0, <1>6 DEF CleanupLocal, Poll, Assign, StartRedis, Choose
  <2>a. wkBatch' \in [Workers -> Batches \cup {None}]
    BY <1>0, <2>2
  <2>3. wkPc' \in [Workers -> {"idle", "picked", "work", "put", "report", "admit",
                              "evict", "reject", "install"}]
    BY <1>0, <2>2
  <2>4. ReportTypes'
    BY <1>0, <2>1, <2>2 DEF ReportTypes, Reporting
  <2> QED
    BY <1>0, <2>1, <2>3, <2>4, <2>a DEF TypeInv, CacheTypeOK
<1>7. ASSUME NEW w \in Workers,
             ReuseRedis(w) \/ PutRedis(w) \/ PutLocal(w)
      PROVE  TypeInv'
  <2>1. /\ redis' \subseteq Batches
        /\ local' \in [Workers -> [Batches -> 0..(MaxTime + Ttl)]]
        /\ wkPc[w] \in {"work", "put"} /\ wkPc' = [wkPc EXCEPT ![w] = "report"]
        /\ UNCHANGED <<now, task, class, entry, pinned, wkBatch, lost, admitting, victims,
                       doomed, raced>>
    <3>1. CASE ReuseRedis(w)
      BY <1>0, <3>1 DEF ReuseRedis
    <3>2. CASE PutRedis(w)
      <4>1. wkBatch[w] \in Batches /\ EvictAfter \in 0..(MaxTime + Ttl)
        BY <1>0, <1>a, <3>2 DEF PutRedis, EvictAfter, ReportTypes
      <4>2. local' \in [Workers -> [Batches -> 0..(MaxTime + Ttl)]]
        BY <1>0, <3>2, <4>1 DEF PutRedis
      <4> QED
        BY <1>0, <3>2, <4>1, <4>2 DEF PutRedis
    <3>3. CASE PutLocal(w)
      <4>1. wkBatch[w] \in Batches /\ EvictAfter \in 0..(MaxTime + Ttl)
        BY <1>0, <1>a, <3>3 DEF PutLocal, EvictAfter, ReportTypes
      <4>2. local' \in [Workers -> [Batches -> 0..(MaxTime + Ttl)]]
        BY <1>0, <3>3, <4>1 DEF PutLocal
      <4> QED
        BY <1>0, <3>3, <4>1, <4>2 DEF PutLocal
    <3> QED
      BY <1>7, <3>1, <3>2, <3>3
  <2>2. \E r \in Report : /\ report' = [report EXCEPT ![w] = r]
                          /\ r.at \in Placement /\ r.at.admission = "none"
    <3>1. AtRedis \in Placement /\ \A t \in 0..(MaxTime + Ttl) : AtWorker(w, t) \in Placement
      BY <1>a DEF AtRedis, AtWorker, Placement
    <3>2. \A t \in 0..(MaxTime + Ttl) :
             /\ [at |-> AtRedis, fallback |-> t] \in Report
             /\ [at |-> AtWorker(w, t), fallback |-> 0] \in Report
      BY <1>a, <3>1 DEF Report
    <3>3. EvictAfter \in 0..(MaxTime + Ttl) /\ 0 \in 0..(MaxTime + Ttl)
          /\ \A b \in Batches : local[w][b] \in 0..(MaxTime + Ttl)
      BY <1>0, <1>a DEF EvictAfter
    <3>4. wkBatch[w] \in Batches
      BY <1>0, <2>1 DEF ReportTypes
    <3>5. \/ \E t \in 0..(MaxTime + Ttl) :
                report' = [report EXCEPT ![w] = [at |-> AtRedis, fallback |-> t]]
          \/ \E t \in 0..(MaxTime + Ttl) :
                report' = [report EXCEPT ![w] = [at |-> AtWorker(w, t), fallback |-> 0]]
      BY <1>7, <3>3, <3>4 DEF ReuseRedis, PutRedis, PutLocal, Reports
    <3> QED
      BY <3>1, <3>2, <3>5 DEF AtRedis, AtWorker
  <2>3. report' \in [Workers -> Report]
        /\ wkPc' \in [Workers -> {"idle", "picked", "work", "put", "report", "admit",
                                  "evict", "reject", "install"}]
    BY <1>0, <2>1, <2>2
  <2>4. ReportTypes'
    BY <1>0, <2>1, <2>2 DEF ReportTypes, Reporting
  <2> QED
    BY <1>0, <2>1, <2>3, <2>4 DEF TypeInv, CacheTypeOK
<1>8. ASSUME NEW w \in Workers, Receive(w)
      PROVE  TypeInv'
  <2>1. /\ wkPc[w] = "report"
        /\ \/ wkPc' = [wkPc EXCEPT ![w] = "idle"]
           \/ report[w].at.kind = "redis" /\ wkPc' = [wkPc EXCEPT ![w] = "admit"]
           \/ wkPc' = [wkPc EXCEPT ![w] = "install"]
        /\ UNCHANGED <<now, task, class, entry, pinned, redis, local, wkBatch, lost,
                       report, managerVars>>
    BY <1>8 DEF Receive
  <2>2. wkPc' \in [Workers -> {"idle", "picked", "work", "put", "report", "admit",
                              "evict", "reject", "install"}]
    BY <1>0, <2>1
  <2>3. ReportTypes'
    BY <1>0, <2>1 DEF ReportTypes, Reporting
  <2> QED
    BY <1>0, <2>1, <2>2, <2>3 DEF TypeInv, CacheTypeOK
<1>9. ASSUME NEW w \in Workers, Install(w)
      PROVE  TypeInv'
  <2>1. /\ wkPc[w] = "install" /\ wkPc' = [wkPc EXCEPT ![w] = "idle"]
        /\ wkBatch[w] \in Batches /\ report[w].at \in Placement
        /\ report' = [report EXCEPT ![w] = NoReport]
        /\ \/ UNCHANGED <<task, entry>>
           \/ /\ task' = [task EXCEPT ![wkBatch[w]] = "completed"]
              /\ entry' = [entry EXCEPT ![wkBatch[w]] = report[w].at]
        /\ UNCHANGED <<now, class, pinned, redis, local, wkBatch, lost, managerVars>>
    BY <1>0, <1>9 DEF Install, ReportTypes, Reporting
  <2>2. NoReport \in Report
    BY <1>a DEF NoReport, Report
  <2>3. /\ wkPc' \in [Workers -> {"idle", "picked", "work", "put", "report", "admit",
                                 "evict", "reject", "install"}]
        /\ report' \in [Workers -> Report]
        /\ task' \in [Batches -> {"none", "pending", "running", "completed"}]
        /\ entry' \in [Batches -> Placement \cup {Absent}]
    BY <1>0, <2>1, <2>2
  <2>4. ReportTypes'
    BY <1>0, <2>1 DEF ReportTypes, Reporting
  <2> QED
    BY <1>0, <2>1, <2>3, <2>4 DEF TypeInv, CacheTypeOK
<1>10. ASSUME NEW w \in Workers, EvictBytes(w)
       PROVE  TypeInv'
  <2>1. /\ redis' \subseteq Batches /\ doomed' = None
        /\ UNCHANGED <<now, task, class, entry, pinned, local, workerVars, admitting,
                       victims, raced>>
    BY <1>0, <1>10 DEF EvictBytes
  <2> QED
    BY <1>0, <2>1 DEF TypeInv, CacheTypeOK, ReportTypes
<1>11. ASSUME NEW w \in Workers, Admit(w) \/ Reject(w)
       PROVE  TypeInv'
  <2>1. /\ wkPc[w] \in {"evict", "reject"} /\ report[w].at \in Placement
        /\ report[w].at.kind = "redis" /\ report[w] \in Report
    BY <1>0, <1>11 DEF Admit, Reject, ReportTypes, Reporting
  <2>2. \/ /\ wkPc[w] = "evict" /\ wkPc' = [wkPc EXCEPT ![w] = "reject"]
           /\ report' = report
        \/ /\ wkPc' = [wkPc EXCEPT ![w] = "install"]
           /\ \E r \in Placement :
                 /\ report' = [report EXCEPT ![w] = [report[w] EXCEPT !.at = r]]
                 /\ r.admission = "admitted" => r.kind = "redis"
    <3>1. CASE Admit(w)
      <4>1. [report[w].at EXCEPT !.admission = "admitted"] \in Placement
        BY <2>1 DEF Placement
      <4>2. [report[w].at EXCEPT !.admission = "admitted"].kind = "redis"
        BY <2>1 DEF Placement
      <4> QED
        BY <3>1, <4>1, <4>2 DEF Admit
    <3>2. CASE Reject(w)
      <4>1. Fallback(w) \in Placement /\ Fallback(w).admission # "admitted"
        BY <1>a, <2>1 DEF Fallback, AtWorker, AtRedis, Placement, Report
      <4> QED
        BY <3>2, <4>1 DEF Reject
    <3> QED
      BY <1>11, <3>1, <3>2
  <2>3. /\ redis' \subseteq Batches /\ admitting' \in Workers \cup {None}
        /\ UNCHANGED <<now, task, class, entry, pinned, local, wkBatch, lost, victims, doomed>>
    BY <1>0, <1>11 DEF Admit, Reject
  <2>4. raced' \in BOOLEAN
    <3>1. raced' = raced \/ raced' = (raced \/ Granted(Workers \ {w}))
      BY <1>11 DEF Admit, Reject
    <3> QED
      BY <1>0, <3>1, Zenon
  <2>a. wkPc' \in [Workers -> {"idle", "picked", "work", "put", "report", "admit",
                              "evict", "reject", "install"}]
    BY <1>0, <2>2
  <2>5. report' \in [Workers -> Report]
    <3>1. \A r \in Placement : [report[w] EXCEPT !.at = r] \in Report
      BY <2>1 DEF Report
    <3> QED
      BY <1>0, <2>2, <3>1
  <2>6. ReportTypes'
    BY <1>0, <2>1, <2>2, <2>3 DEF ReportTypes, Reporting, Report
  <2> QED
    BY <1>0, <2>3, <2>4, <2>5, <2>6, <2>a DEF TypeInv, CacheTypeOK
<1> QED
  BY <1>1, <1>2, <1>4, <1>5, <1>6, <1>7, <1>8, <1>9, <1>10, <1>11
     DEF Next, Work, Admission

LEMMA TypeInvariance == Spec => []TypeInv
BY InitTypes, TypeStep, PTL DEF Spec

\* What a step does to an entry: it goes, when it is removable, or a worker
\* installs what it reported.
LEMMA EntryStep ==
    ASSUME TypeInv, [Next]_vars, NEW b \in Batches
    PROVE  \/ entry'[b] = entry[b]
           \/ Removable(b) /\ entry'[b] = Absent
           \/ \E w \in Workers : /\ Install(w) /\ wkBatch[w] = b
                                 /\ entry'[b] = report[w].at /\ report[w].at \in Placement
<1> USE DEF workerVars, managerVars
<1>0. entry \in [Batches -> Placement \cup {Absent}] /\ victims \subseteq Batches
  BY DEF TypeInv, CacheTypeOK
<1>1. ASSUME NEW v \in Batches, Remove(v), Removable(v)
      PROVE  entry'[b] = entry[b] \/ (Removable(b) /\ entry'[b] = Absent)
  BY <1>0, <1>1 DEF Remove
<1>2. CASE \E v \in Batches : CleanupEntry(v)
  BY <1>1, <1>2 DEF CleanupEntry
<1>3. CASE \E w \in Workers : Evict(w)
  BY <1>0, <1>1, <1>3 DEF Evict
<1>4. CASE \E w \in Workers : Install(w)
  <2>1. PICK w \in Workers : Install(w)
    BY <1>4
  <2>2. report[w].at \in Placement /\ wkBatch[w] \in Batches
    BY <2>1 DEF Install, TypeInv, ReportTypes, Reporting
  <2>3. entry' = entry \/ entry' = [entry EXCEPT ![wkBatch[w]] = report[w].at]
    BY <2>1 DEF Install
  <2>4. CASE wkBatch[w] = b /\ entry' # entry
    BY <1>0, <2>1, <2>2, <2>3, <2>4
  <2> QED
    BY <1>0, <2>2, <2>3, <2>4
<1>5. ASSUME ~(\E v \in Batches : CleanupEntry(v)),
             ~(\E w \in Workers : Evict(w)), ~(\E w \in Workers : Install(w))
      PROVE  entry' = entry
  BY <1>5 DEF Next, vars, Tick, CreateTask, Pin, Unpin, Work, Admission, CleanupLocal, Poll,
     Assign, ReuseRedis, StartRedis, PutRedis, PutLocal, Receive, Choose, EvictBytes, Admit,
     Reject
<1> QED
  BY <1>2, <1>3, <1>4, <1>5

\* No payload that some job has pinned loses its entry.
THEOREM PinnedStays == Spec => PinnedNotRemoved
<1>1. ASSUME TypeInv, [Next]_vars, NEW b \in pinned, Ready(b)
      PROVE  Ready(b)'
  BY <1>1, EntryStep DEF TypeInv, CacheTypeOK, Removable, Ready, Placement
<1>2. TypeInv /\ [Next]_vars => [\A b \in pinned : Ready(b) => Ready(b)']_vars
  BY <1>1
<1> QED
  BY <1>2, TypeInvariance, PTL DEF Spec, PinnedNotRemoved

-----------------------------------------------------------------------------
(* Transient payloads *)

\* The bytes of b at w are kept until t, or t is over.
Kept(w, b, t) == local[w][b] >= t \/ now >= t

\* A placement in a worker's memory: its bytes are there until it expires.
Fetchable(at, b) ==
    at.kind = "local" => /\ at.worker \in Workers /\ at.expires # 0
                         /\ Kept(at.worker, b, at.expires)

\* What is installed, what is about to be, and what would be after a rejection.
FetchInv ==
    /\ \A w \in Workers, b \in Batches : local[w][b] <= now + Ttl
    /\ \A b \in Batches : Fetchable(entry[b], b)
    /\ \A w \in Workers : wkPc[w] \in Reporting =>
          /\ Fetchable(report[w].at, wkBatch[w])
          /\ report[w].fallback # 0 => Kept(w, wkBatch[w], report[w].fallback)

\* The clock and the workers' memories only move so that what is kept stays.
LEMMA KeptStays ==
    ASSUME TypeInv, FetchInv, [Next]_vars, NEW w \in Workers, NEW b \in Batches
    PROVE  /\ local'[w][b] <= now' + Ttl
           /\ now' \in Nat /\ local'[w][b] \in Nat
           /\ \A t \in Nat : t # 0 /\ Kept(w, b, t) => Kept(w, b, t)'
<1> USE DEF workerVars, managerVars
<1>0. /\ now \in Nat /\ now' \in Nat /\ local[w][b] \in Nat /\ local'[w][b] \in Nat
      /\ Ttl \in Nat /\ local[w][b] <= now + Ttl
      /\ local \in [Workers -> [Batches -> 0..(MaxTime + Ttl)]]
  BY TypeStep, CacheAssumption DEF TypeInv, CacheTypeOK, FetchInv
<1>1. CASE Tick
  BY <1>0, <1>1 DEF Tick, Kept
<1>2. CASE \E v \in Workers : CleanupLocal(v)
  <2>1. now' = now /\ (local'[w][b] = local[w][b] \/ (local'[w][b] = 0 /\ local[w][b] <= now))
    BY <1>0, <1>2 DEF CleanupLocal, Stale
  <2> QED
    BY <1>0, <2>1 DEF Kept
<1>3. CASE \E v \in Workers : PutRedis(v) \/ PutLocal(v)
  <2>1. now' = now /\ (local'[w][b] = local[w][b] \/ local'[w][b] = now + Ttl)
    BY <1>0, <1>3 DEF PutRedis, PutLocal, EvictAfter
  <2> QED
    BY <1>0, <2>1 DEF Kept
<1>4. CASE UNCHANGED <<now, local>>
  BY <1>0, <1>4 DEF Kept
<1>5. ASSUME ~Tick, ~(\E v \in Workers : CleanupLocal(v)),
             ~(\E v \in Workers : PutRedis(v) \/ PutLocal(v))
      PROVE  UNCHANGED <<now, local>>
  BY <1>5 DEF Next, vars, CreateTask, Pin, Unpin, CleanupEntry, Work, Admission, Poll,
     Assign, ReuseRedis, StartRedis, Receive, Install, Choose, Evict, EvictBytes, Admit, Reject
<1> QED
  BY <1>1, <1>2, <1>3, <1>4, <1>5

\* What a step does to a report: the one a worker starts with tells when the
\* bytes it has just put go, admission leaves it or turns to the fallback.
LEMMA ReportStep ==
    ASSUME TypeInv, [Next]_vars, NEW w \in Workers, wkPc'[w] \in Reporting
    PROVE  /\ UNCHANGED wkBatch[w] /\ wkBatch[w] \in Batches
           /\ \/ /\ wkPc[w] \in Reporting /\ UNCHANGED report[w].fallback
                 /\ \/ report'[w].at = report[w].at \/ report'[w].at.kind = "redis"
                    \/ /\ report[w].fallback # 0
                       /\ report'[w].at.worker = w
                       /\ report'[w].at.expires = report[w].fallback
              \/ /\ \/ report'[w].at.kind = "redis"
                    \/ /\ local'[w][wkBatch[w]] # 0 /\ report'[w].at.worker = w
                       /\ report'[w].at.expires = local'[w][wkBatch[w]]
                 /\ report'[w].fallback \in {0, local'[w][wkBatch[w]]}
<1> USE DEF workerVars, managerVars, Goto
<1>0. /\ wkPc \in [Workers -> {"idle", "picked", "work", "put", "report", "admit",
                              "evict", "reject", "install"}]
      /\ wkBatch \in [Workers -> Batches \cup {None}]
      /\ report \in [Workers -> Report] /\ report[w] \in Report
      /\ local \in [Workers -> [Batches -> 0..(MaxTime + Ttl)]]
      /\ now \in Nat /\ Ttl \in Nat \ {0} /\ MaxTime \in Nat
      /\ wkPc[w] # "idle" => wkBatch[w] \in Batches
      /\ wkPc[w] \in {"admit", "evict", "reject"} => report[w].at.kind = "redis"
      /\ wkPc[w] \in Reporting => report[w].at \in Placement
  BY CacheAssumption DEF TypeInv, CacheTypeOK, ReportTypes
<1> DEFINE Kept1 == /\ UNCHANGED wkBatch[w] /\ wkBatch[w] \in Batches
                    /\ wkPc[w] \in Reporting /\ UNCHANGED report[w]
<1>1. CASE UNCHANGED <<wkPc[w], wkBatch[w], report[w]>>
  BY <1>0, <1>1 DEF Reporting
<1>2. CASE ReuseRedis(w)
  <2>1. wkPc[w] = "work" /\ report' = [report EXCEPT ![w] = [at |-> AtRedis, fallback |-> 0]]
        /\ UNCHANGED wkBatch
    BY <1>2 DEF ReuseRedis, Reports
  <2> QED
    BY <1>0, <2>1 DEF AtRedis
<1>3. CASE PutRedis(w)
  <2>1. wkPc[w] = "put" /\ report' = [report EXCEPT ![w] = [at |-> AtRedis, fallback |-> now + Ttl]]
        /\ UNCHANGED wkBatch /\ wkBatch[w] \in Batches
        /\ local' = [local EXCEPT ![w][wkBatch[w]] = now + Ttl]
    BY <1>0, <1>3 DEF PutRedis, Reports, EvictAfter
  <2> QED
    BY <1>0, <2>1 DEF AtRedis
<1>4. CASE PutLocal(w)
  <2> DEFINE until == IF local[w][wkBatch[w]] # 0 THEN local[w][wkBatch[w]] ELSE now + Ttl
  <2>1. wkPc[w] = "work" /\ report' = [report EXCEPT ![w] = [at |-> AtWorker(w, until), fallback |-> 0]]
        /\ UNCHANGED wkBatch /\ wkBatch[w] \in Batches
        /\ local' = [local EXCEPT ![w][wkBatch[w]] = until]
    BY <1>0, <1>4 DEF PutLocal, Reports, EvictAfter
  <2>2. until # 0 /\ local'[w][wkBatch[w]] = until
    BY <1>0, <2>1
  <2>3. report'[w].at = AtWorker(w, until) /\ report'[w].fallback = 0
    BY <1>0, <2>1
  <2> QED
    BY <2>1, <2>2, <2>3 DEF AtWorker
<1>5. CASE Receive(w) \/ Choose(w) \/ Evict(w) \/ EvictBytes(w)
  BY <1>0, <1>5 DEF Receive, Choose, Evict, EvictBytes, Reporting
<1>6. CASE Admit(w)
  <2>1. /\ wkPc[w] = "evict" /\ UNCHANGED wkBatch
        /\ report' = report \/ report' = [report EXCEPT ![w].at.admission = "admitted"]
    BY <1>6 DEF Admit
  <2>2. report'[w].at.kind = "redis" /\ report'[w].fallback = report[w].fallback
    BY <1>0, <2>1 DEF Reporting, Report, Placement
  <2> QED
    BY <1>0, <2>1, <2>2 DEF Reporting
<1>7. CASE Reject(w)
  <2>1. /\ wkPc[w] = "reject" /\ UNCHANGED wkBatch
        /\ report' = [report EXCEPT ![w].at = Fallback(w)]
    BY <1>7 DEF Reject
  <2>2. report'[w].at = Fallback(w) /\ report'[w].fallback = report[w].fallback
    BY <1>0, <2>1 DEF Report
  <2> QED
    BY <1>0, <2>1, <2>2 DEF Reporting, Fallback, AtWorker, AtRedis
<1>8. CASE Poll(w) \/ Assign(w) \/ StartRedis(w) \/ Install(w)
  BY <1>0, <1>8 DEF Poll, Assign, StartRedis, Install, Reporting
<1>9. CASE CleanupLocal(w)
  BY <1>1, <1>9 DEF CleanupLocal
<1>10. ASSUME NEW v \in Workers \ {w}, Work(v) \/ Admission(v)
       PROVE  UNCHANGED <<wkPc[w], wkBatch[w], report[w]>>
  BY <1>0, <1>10 DEF Work, Admission, CleanupLocal, Poll, Assign, ReuseRedis, StartRedis,
     PutRedis, PutLocal, Receive, Install, Choose, Evict, EvictBytes, Admit, Reject, Reports
<1>11. ASSUME ~\E v \in Workers : Work(v) \/ Admission(v)
       PROVE  UNCHANGED <<wkPc[w], wkBatch[w], report[w]>>
  BY <1>11 DEF Next, vars, Tick, CreateTask, Pin, Unpin, CleanupEntry
<1> QED
  BY <1>1, <1>2, <1>3, <1>4, <1>5, <1>6, <1>7, <1>8, <1>9, <1>10, <1>11 DEF Work, Admission

LEMMA FetchStep == TypeInv /\ FetchInv /\ [Next]_vars => FetchInv'
<1> SUFFICES ASSUME TypeInv, FetchInv, [Next]_vars
             PROVE  FetchInv'
  OBVIOUS
<1>1. \A w \in Workers, b \in Batches : local'[w][b] <= now' + Ttl
  BY KeptStays
<1>2. ASSUME NEW at, NEW b \in Batches, Fetchable(at, b), at \in Placement \cup {Absent}
      PROVE  Fetchable(at, b)'
  <2>1. at.expires \in Nat
    BY <1>2, CacheAssumption DEF Placement, Absent
  <2> QED
    BY <1>2, <2>1, KeptStays DEF Fetchable
<1>3. ASSUME NEW b \in Batches
      PROVE  Fetchable(entry[b], b)'
  <2>1. Fetchable(entry[b], b) /\ entry[b] \in Placement \cup {Absent}
    BY DEF FetchInv, TypeInv, CacheTypeOK
  <2>2. \A w \in Workers : Install(w) /\ wkBatch[w] = b => Fetchable(report[w].at, b)
    BY DEF FetchInv, Install, Reporting
  <2>3. \E at \in Placement \cup {Absent} : entry'[b] = at /\ Fetchable(at, b)
    BY <2>1, <2>2, EntryStep DEF Fetchable, Absent
  <2> QED
    BY <1>2, <2>3 DEF Fetchable, Kept
<1>4. ASSUME NEW w \in Workers, wkPc'[w] \in Reporting
      PROVE  /\ Fetchable(report[w].at, wkBatch[w])'
             /\ report'[w].fallback # 0 => Kept(w, wkBatch[w], report[w].fallback)'
  <2>1. PICK b \in Batches : b = wkBatch[w] /\ b = wkBatch'[w]
    BY <1>4, ReportStep
  <2>2. local'[w][b] \in Nat /\ Kept(w, b, local[w][b])'
    BY KeptStays DEF Kept
  <2>3. CASE /\ wkPc[w] \in Reporting /\ UNCHANGED report[w].fallback
             /\ \/ report'[w].at = report[w].at \/ report'[w].at.kind = "redis"
                \/ /\ report[w].fallback # 0
                   /\ report'[w].at.worker = w
                   /\ report'[w].at.expires = report[w].fallback
    <3>1. /\ Fetchable(report[w].at, b) /\ report[w].at \in Placement
          /\ report[w].fallback \in Nat
          /\ report[w].fallback # 0 => Kept(w, b, report[w].fallback)
      <4>1. report[w] \in Report
        BY DEF TypeInv, CacheTypeOK
      <4>2. report[w].fallback \in Nat
        BY <4>1, CacheAssumption DEF Report
      <4> QED
        BY <2>1, <2>3, <4>2 DEF FetchInv, TypeInv, ReportTypes
    <3>2. PICK at, f : at = report[w].at /\ f = report[w].fallback
      OBVIOUS
    <3>3. Fetchable(at, b)'
      <4>1. Fetchable(at, b) /\ at \in Placement \cup {Absent}
        BY <3>1, <3>2
      <4> QED
        BY <1>2, <4>1
    <3>4. f # 0 => Kept(w, b, f)'
      <4>1. f \in Nat /\ (f # 0 => Kept(w, b, f))
        BY <3>1, <3>2
      <4> QED
        BY <4>1, KeptStays
    <3> QED
      BY <2>1, <2>3, <3>2, <3>3, <3>4 DEF Fetchable, Kept
  <2>4. CASE /\ \/ report'[w].at.kind = "redis"
                \/ /\ local'[w][b] # 0 /\ report'[w].at.worker = w
                   /\ report'[w].at.expires = local'[w][b]
             /\ report'[w].fallback \in {0, local'[w][b]}
    BY <2>1, <2>2, <2>4 DEF Fetchable, Kept
  <2> QED
    BY <1>4, <2>1, <2>3, <2>4, ReportStep
<1> QED
  BY <1>1, <1>3, <1>4 DEF FetchInv

\* An entry in a worker's memory can be fetched there until it expires.
THEOREM TransientIsFetchable == Spec => []TransientFetchable
<1>1. Init => FetchInv
  BY CacheAssumption DEF Init, FetchInv, Fetchable, Absent, Reporting
<1>2. TypeInv /\ FetchInv => TransientFetchable
  <2> SUFFICES ASSUME TypeInv, FetchInv, NEW b \in Batches,
                      entry[b].kind = "local", ~Expired(b)
               PROVE  local[entry[b].worker][b] # 0
    BY DEF TransientFetchable
  <2>1. /\ entry[b].expires \in Nat \ {0} /\ now \in Nat /\ now < entry[b].expires
        /\ entry[b].worker \in Workers
        /\ local[entry[b].worker][b] >= entry[b].expires \/ now >= entry[b].expires
    BY CacheAssumption
       DEF TypeInv, CacheTypeOK, Placement, Absent, FetchInv, Fetchable, Kept, Expired
  <2> QED
    BY <2>1
<1> QED
  BY <1>1, <1>2, FetchStep, TypeInvariance, PTL DEF Spec

-----------------------------------------------------------------------------
(* Capacity *)

\* w installs a payload that was admitted.
GrantedTo(w) == wkPc[w] = "install" /\ report[w].at.admission = "admitted"

Admitted == {b \in Batches : entry[b].admission = "admitted"}

\* While no admission overlaps another one's installation, what is admitted and
\* not installed yet is one payload, and there is room for it.
RoomInv ==
    ~raced =>
        /\ Bytes(Admitted) <= Capacity
        /\ \A w \in Workers : GrantedTo(w) =>
              /\ Bytes(Admitted \cup {wkBatch[w]}) <= Capacity
              /\ \A v \in Workers : GrantedTo(v) => v = w

\* Only admission grants, and with the capacity looked at in the same step.
LEMMA GrantStep ==
    ASSUME TypeInv, [Next]_vars, NEW w \in Workers, GrantedTo(w)'
    PROVE  /\ UNCHANGED wkBatch[w] /\ wkBatch[w] \in Batches
           /\ \/ GrantedTo(w) /\ ~Install(w)
              \/ Admit(w) /\ Fits(wkBatch[w])
<1> USE DEF workerVars, managerVars, Goto, GrantedTo
<1>0. /\ wkPc \in [Workers -> {"idle", "picked", "work", "put", "report", "admit",
                              "evict", "reject", "install"}]
      /\ wkBatch \in [Workers -> Batches \cup {None}]
      /\ report \in [Workers -> Report] /\ report[w] \in Report
      /\ wkPc[w] # "idle" => wkBatch[w] \in Batches
      /\ wkPc[w] \in {"report", "admit", "evict", "reject"}
            => report[w].at.admission = "none"
  BY DEF TypeInv, CacheTypeOK, ReportTypes
<1>1. CASE UNCHANGED <<wkPc[w], wkBatch[w], report[w]>>
  BY <1>0, <1>1 DEF Install
<1>2. CASE Admit(w)
  BY <1>0, <1>2 DEF Admit
<1>3. CASE Reject(w)
  <2>1. report'[w].at = Fallback(w)
    BY <1>0, <1>3 DEF Reject, Report
  <2> QED
    BY <2>1 DEF Fallback, AtWorker, AtRedis
<1>4. CASE \/ Poll(w) \/ Assign(w) \/ ReuseRedis(w) \/ StartRedis(w) \/ PutRedis(w)
           \/ PutLocal(w) \/ Install(w) \/ Choose(w)
  BY <1>0, <1>4 DEF Poll, Assign, ReuseRedis, StartRedis, PutRedis, PutLocal, Install, Choose
<1>5. CASE Receive(w)
  BY <1>0, <1>5 DEF Receive
<1>6. CASE CleanupLocal(w) \/ Evict(w) \/ EvictBytes(w)
  BY <1>1, <1>6 DEF CleanupLocal, Evict, EvictBytes
<1>7. ASSUME NEW v \in Workers \ {w}, Work(v) \/ Admission(v)
      PROVE  UNCHANGED <<wkPc[w], wkBatch[w], report[w]>>
  BY <1>0, <1>7 DEF Work, Admission, CleanupLocal, Poll, Assign, ReuseRedis, StartRedis,
     PutRedis, PutLocal, Receive, Install, Choose, Evict, EvictBytes, Admit, Reject, Reports
<1>8. ASSUME ~\E v \in Workers : Work(v) \/ Admission(v)
      PROVE  UNCHANGED <<wkPc[w], wkBatch[w], report[w]>>
  BY <1>8 DEF Next, vars, Tick, CreateTask, Pin, Unpin, CleanupEntry
<1> QED
  BY <1>1, <1>2, <1>3, <1>4, <1>5, <1>6, <1>7, <1>8 DEF Work, Admission

\* What becomes an admitted entry was granted.
LEMMA AdmittedStep ==
    ASSUME TypeInv, [Next]_vars
    PROVE  \/ Admitted' \subseteq Admitted
           \/ \E w \in Workers : /\ GrantedTo(w) /\ Install(w)
                                 /\ Admitted' \subseteq Admitted \cup {wkBatch[w]}
<1>1. ASSUME NEW b \in Admitted', b \notin Admitted
      PROVE  \E w \in Workers : Install(w) /\ GrantedTo(w) /\ wkBatch[w] = b
  <2>1. b \in Batches /\ entry'[b].admission = "admitted" /\ entry[b].admission # "admitted"
    BY <1>1 DEF Admitted
  <2> QED
    BY <2>1, EntryStep DEF GrantedTo, Install, Absent
<1>2. ASSUME NEW v \in Workers, Install(v)
      PROVE  Admitted' \subseteq Admitted \cup {wkBatch[v]}
  <2>1. entry' = entry \/ entry' = [entry EXCEPT ![wkBatch[v]] = report[v].at]
    BY <1>2 DEF Install
  <2> QED
    BY <2>1 DEF Admitted, TypeInv, CacheTypeOK
<1> QED
  BY <1>1, <1>2

LEMMA RoomStep == TypeInv /\ RoomInv /\ [Next]_vars => RoomInv'
<1> SUFFICES ASSUME TypeInv, RoomInv, [Next]_vars, ~raced'
             PROVE  /\ Bytes(Admitted') <= Capacity
                    /\ \A w \in Workers : GrantedTo(w)' =>
                          /\ Bytes(Admitted' \cup {wkBatch'[w]}) <= Capacity
                          /\ \A v \in Workers : GrantedTo(v)' => v = w
  BY DEF RoomInv, Bytes
<1>0. /\ ~raced
      /\ \A w \in Workers : Admit(w) /\ Fits(wkBatch[w]) => ~Granted(Workers \ {w})
      /\ Capacity \in Nat
  <2>1. raced' = raced \/ \E w \in Workers : Admit(w) /\ raced' = (raced \/ Granted(Workers \ {w}))
    BY DEF Next, vars, managerVars, Tick, CreateTask, Pin, Unpin, CleanupEntry, Work, Admission,
       CleanupLocal, Poll, Assign, ReuseRedis, StartRedis, PutRedis, PutLocal, Receive, Install,
       Choose, Evict, EvictBytes, Admit, Reject
  <2>2. \A w \in Workers : Admit(w) /\ Fits(wkBatch[w]) => raced' = (raced \/ Granted(Workers \ {w}))
    BY DEF Admit
  <2>3. ~raced
    BY <2>1
  <2> QED
    BY <2>2, <2>3, CacheAssumption
<1>1. /\ Bytes(Admitted) <= Capacity
      /\ \A w \in Workers : GrantedTo(w) =>
            /\ Bytes(Admitted \cup {wkBatch[w]}) <= Capacity
            /\ \A v \in Workers : GrantedTo(v) => v = w
  BY <1>0 DEF RoomInv
<1>2. /\ Admitted \in SUBSET Batches /\ Admitted' \in SUBSET Batches
      /\ Admitted \in SUBSET InRedis /\ InRedis \in SUBSET Batches
  BY DEF Admitted, InRedis, TypeInv, ReportTypes
<1>3. \A w \in Workers : GrantedTo(w) => wkBatch[w] \in Batches
  BY DEF GrantedTo, TypeInv, ReportTypes
<1>4. Bytes(Admitted') <= Capacity
  <2>1. CASE Admitted' \subseteq Admitted
    BY <1>1, <1>2, <2>1, BytesGrow, SlotsAreFinite, <1>0
  <2>2. CASE \E w \in Workers : GrantedTo(w) /\ Admitted' \subseteq Admitted \cup {wkBatch[w]}
    <3>1. PICK w \in Workers : GrantedTo(w) /\ Admitted' \subseteq Admitted \cup {wkBatch[w]}
      BY <2>2
    <3>2. PICK S \in SUBSET Batches : S = Admitted \cup {wkBatch[w]}
      BY <1>2, <1>3, <3>1
    <3>3. Bytes(S) <= Capacity /\ Bytes(S) \in Nat
      BY <1>1, <3>1, <3>2, SlotsAreFinite
    <3>4. Bytes(Admitted') <= Bytes(S) /\ Bytes(Admitted') \in Nat
      BY <1>2, <3>1, <3>2, BytesGrow, SlotsAreFinite
    <3> QED
      BY <1>0, <3>3, <3>4
  <2> QED
    BY <2>1, <2>2, AdmittedStep
<1>5. ASSUME NEW w \in Workers, GrantedTo(w)'
      PROVE  /\ Bytes(Admitted' \cup {wkBatch'[w]}) <= Capacity
             /\ \A v \in Workers : GrantedTo(v)' => v = w
  <2>0. wkBatch'[w] = wkBatch[w] /\ wkBatch[w] \in Batches
    BY <1>5, GrantStep
  <2>1. CASE Admit(w) /\ Fits(wkBatch[w])
    <3>1. PICK b \in Batches : b = wkBatch[w]
      BY <2>0
    <3>2. entry' = entry /\ Admitted' = Admitted
      BY <2>1 DEF Admit, Admitted
    <3>3. Bytes(InRedis) + Size[b] <= Capacity
      BY <2>1, <3>1 DEF Fits, CachedBytes
    <3>4. Bytes(InRedis \cup {b}) <= Bytes(InRedis) + Size[b]
      BY <1>2, BytesAdd
    <3>5. Admitted \cup {b} \in SUBSET (InRedis \cup {b}) /\ InRedis \cup {b} \in SUBSET Batches
      BY <1>2
    <3>6. Bytes(Admitted \cup {b}) <= Bytes(InRedis \cup {b})
      BY <3>5, BytesGrow
    <3>7. Bytes(Admitted \cup {b}) \in Nat /\ Bytes(InRedis \cup {b}) \in Nat /\ Bytes(InRedis) \in Nat
          /\ Size[b] \in Nat
      BY <1>2, <3>5, SlotsAreFinite, CacheAssumption
    <3>8. Bytes(Admitted \cup {b}) <= Capacity
      BY <1>0, <3>3, <3>4, <3>6, <3>7
    <3>9. ASSUME NEW v \in Workers, GrantedTo(v)', v # w
          PROVE  FALSE
      <4>1. GrantedTo(v) \/ Admit(v)
        BY <3>9, GrantStep
      <4>2. ~Admit(v)
        <5>1. wkPc' = [wkPc EXCEPT ![w] = "install"] /\ wkPc[w] = "evict"
          BY <2>1 DEF Admit, Goto
        <5>2. Admit(v) => wkPc[v] = "evict"
          BY DEF Admit
        <5>3. wkPc'[v] = "install"
          BY <3>9 DEF GrantedTo
        <5> QED
          BY <3>9, <5>1, <5>2, <5>3 DEF TypeInv, CacheTypeOK
      <4> QED
        BY <1>0, <2>1, <3>9, <4>1, <4>2 DEF Granted, GrantedTo
    <3> QED
      BY <2>0, <3>1, <3>2, <3>8, <3>9
  <2>2. CASE GrantedTo(w) /\ ~Install(w)
    <3>1. Admitted' \subseteq Admitted
      BY <1>1, <2>2, AdmittedStep
    <3>2. PICK b \in Batches : b = wkBatch[w]
      BY <2>0
    <3>3. Admitted' \cup {b} \in SUBSET (Admitted \cup {b}) /\ Admitted \cup {b} \in SUBSET Batches
          /\ Admitted' \cup {b} \in SUBSET Batches
      BY <1>2, <3>1
    <3>4. Bytes(Admitted' \cup {b}) <= Bytes(Admitted \cup {b})
          /\ Bytes(Admitted' \cup {b}) \in Nat /\ Bytes(Admitted \cup {b}) \in Nat
      BY <3>3, BytesGrow, SlotsAreFinite
    <3>5. Bytes(Admitted \cup {b}) <= Capacity
      BY <1>1, <2>2, <3>2
    <3>6. ASSUME NEW v \in Workers, GrantedTo(v)'
          PROVE  v = w
      <4>1. CASE GrantedTo(v)
        BY <1>1, <2>2, <4>1
      <4>2. CASE Admit(v) /\ Fits(wkBatch[v])
        BY <1>0, <2>2, <4>2 DEF Granted, GrantedTo
      <4> QED
        BY <3>6, <4>1, <4>2, GrantStep
    <3> QED
      BY <1>0, <2>0, <3>2, <3>4, <3>5, <3>6
  <2> QED
    BY <1>5, <2>1, <2>2, GrantStep
<1> QED
  BY <1>4, <1>5

\* The admitted entries stay within the capacity, unless a payload was admitted
\* while another one was admitted but not installed.
THEOREM CapacityIsHeld == Spec => []CapacityHeld
<1>1. Init => RoomInv
  <2> SUFFICES ASSUME Init
               PROVE  RoomInv
    OBVIOUS
  <2>1. Slots({}) = {} /\ Bytes({}) = Cardinality(Slots({}))
    BY DEF Slots, Bytes
  <2>2. Bytes({}) = 0
    BY <2>1, FS_EmptySet
  <2>3. Admitted = {} /\ \A w \in Workers : ~GrantedTo(w)
    BY DEF Init, Admitted, GrantedTo, Absent
  <2> QED
    BY <2>2, <2>3, CacheAssumption DEF RoomInv
<1>2. TypeInv /\ RoomInv => CapacityHeld
  BY DEF TypeInv, RoomInv, CapacityHeld, Admitted
<1> QED
  BY <1>1, <1>2, RoomStep, TypeInvariance, PTL DEF Spec

=============================================================================
