--------------------------- MODULE DatasetProofs ----------------------------
(***************************************************************************)
(* Whatever the source, the layouts, the number of processes and the size  *)
(* of a page: all processes end up with the same index, until the source   *)
(* changes, and with one that fits training, also when it does.            *)
(***************************************************************************)
EXTENDS DatasetIndex, FiniteSetTheorems, TLAPS

\* A listing has returned the source up to its cursor; there is no other
\* manifest to be used than that of the source.
AgreeInv ==
    /\ source \subseteq Keys
    /\ built = [b \in Builders |-> built[b]]
    /\ seen = [b \in Builders |-> seen[b]]
    /\ index = [b \in Builders |-> index[b]]
    /\ cursor \in [Builders -> Int]
    /\ ~drift =>
        /\ UsableManifest(manifest) => manifest.index = Index(source)
        /\ \A b \in Builders :
            /\ built[b] \in {"off", "load", "list"} =>
                seen[b] = {k \in source : k <= cursor[b]}
            /\ built[b] \in {"save", "done"} => index[b] = Index(source)

\* The layout is the same for all processes and never changes, and with it what
\* the index of a set of rows is.
LEMMA IndexKept ==
    ASSUME UNCHANGED layout, NEW keys PROVE Index(keys)' = Index(keys)
BY DEF Index, ImageFolderIndex, OpenImagesIndex, RetrievalIndex, SyntheticIndex, NoIndex, Projected,
       LabelNames, ClassNumber, SyntheticLabel, FirstSeen, Kept, ClassesOf, Before

\* A page is all of the source between the old cursor and the new one.
LEMMA PageIsInterval ==
    ASSUME source \subseteq Keys, NEW b \in Builders, cursor \in [Builders -> Int],
           NEW last \in Page(b), \A k \in Page(b) : k <= last
    PROVE  Page(b) = {k \in source : k > cursor[b] /\ k <= last}
<1>1. source \subseteq Nat /\ IsFiniteSet(source)
  BY KeyAssumption, FS_Subset
<1>2. Rest(b) \subseteq source /\ IsFiniteSet(Rest(b)) /\ Page(b) \subseteq Rest(b)
  <2>1. Rest(b) \subseteq source /\ Page(b) \subseteq Rest(b)
    BY DEF Rest, Page
  <2> QED BY <1>1, <2>1, FS_Subset
<1>3. ASSUME NEW k \in Rest(b), k <= last PROVE k \in Page(b)
  <2>1. {y \in Rest(b) : y < k} \subseteq {y \in Rest(b) : y < last}
    <3>1. \A y \in Rest(b) : y \in Nat
      BY <1>1, <1>2
    <3> QED BY <1>2, <1>3, <3>1
  <2>2. IsFiniteSet({y \in Rest(b) : y < last})
    BY <1>2, FS_Subset
  <2>3. /\ Cardinality({y \in Rest(b) : y < k}) <= Cardinality({y \in Rest(b) : y < last})
        /\ Cardinality({y \in Rest(b) : y < k}) \in Nat
        /\ Cardinality({y \in Rest(b) : y < last}) \in Nat
    BY <2>1, <2>2, FS_Subset, FS_CardinalityType
  <2> QED BY <1>3, <2>3, SizeAssumption DEF Page, Before
<1> QED BY <1>2, <1>3 DEF Rest

LEMMA AgreeInit == DatasetInit => AgreeInv
<1> SUFFICES ASSUME DatasetInit PROVE AgreeInv
  OBVIOUS
<1>1. \A k \in source : ~(k <= 0)
  BY KeyAssumption DEF DatasetInit
<1>2. ~drift => (UsableManifest(manifest) => manifest.index = Index(source))
  BY DEF DatasetInit, OutOfDate, UsableManifest
<1> QED BY <1>1, <1>2 DEF DatasetInit, AgreeInv

LEMMA AgreeStep == AgreeInv /\ [DatasetNext]_datasetVars => AgreeInv'
<1> SUFFICES ASSUME AgreeInv, [DatasetNext]_datasetVars PROVE AgreeInv'
  OBVIOUS
<1> USE DEF Step
<1>1. ASSUME NEW b \in Builders, BeginBuild(b) PROVE AgreeInv'
  <2>1. UNCHANGED <<layout, source, manifest, seen, cursor, drift>> /\ built[b] = "off"
    BY <1>1 DEF BeginBuild
  <2>2. Index(source)' = Index(source) /\ UsableManifest(manifest)' = UsableManifest(manifest)
    BY <2>1, IndexKept DEF UsableManifest
  <2>3. \/ Step(b, "load") /\ UNCHANGED index
        \/ Step(b, "failed") /\ UNCHANGED index
        \/ Step(b, "done") /\ index' = [index EXCEPT ![b] = Index(source)]
    BY <1>1 DEF BeginBuild
  <2> QED BY <2>1, <2>2, <2>3 DEF AgreeInv
<1>2. ASSUME NEW b \in Builders, LoadManifest(b) PROVE AgreeInv'
  <2>1. UNCHANGED <<layout, source, manifest, seen, cursor, drift>> /\ built[b] = "load"
    BY <1>2 DEF LoadManifest
  <2>2. Index(source)' = Index(source) /\ UsableManifest(manifest)' = UsableManifest(manifest)
    BY <2>1, IndexKept DEF UsableManifest
  <2>3. \/ Step(b, "list") /\ UNCHANGED index
        \/ /\ UsableManifest(manifest)
           /\ Step(b, "done") /\ index' = [index EXCEPT ![b] = manifest.index]
    BY <1>2 DEF LoadManifest
  <2> QED BY <2>1, <2>2, <2>3 DEF AgreeInv
<1>3. ASSUME NEW b \in Builders, ListPage(b) PROVE AgreeInv'
  <2>1. /\ UNCHANGED <<layout, source, manifest, drift>> /\ built[b] = "list"
        /\ seen' = [seen EXCEPT ![b] = seen[b] \cup Page(b)]
    BY <1>3 DEF ListPage
  <2>2. Index(source)' = Index(source) /\ UsableManifest(manifest)' = UsableManifest(manifest)
    BY <2>1, IndexKept DEF UsableManifest
  <2>3. source \subseteq Int /\ cursor[b] \in Int
    BY KeyAssumption DEF AgreeInv
  <2>4. ASSUME NEW last \in Page(b), \A k \in Page(b) : k <= last,
               cursor' = [cursor EXCEPT ![b] = last], UNCHANGED <<built, index>>
        PROVE  AgreeInv'
    <3>1. Page(b) = {k \in source : k > cursor[b] /\ k <= last}
      BY <2>4, PageIsInterval DEF AgreeInv
    <3>2. last \in Int /\ last > cursor[b]
      BY <2>3, <3>1
    <3>3. ~drift => seen[b] \cup Page(b) = {k \in source : k <= last}
      BY <2>1, <2>3, <3>1, <3>2 DEF AgreeInv
    <3> QED BY <2>1, <2>2, <2>4, <3>2, <3>3 DEF AgreeInv
  <2>5. ASSUME Page(b) = Rest(b), UNCHANGED cursor,
               \/ Step(b, "failed") /\ UNCHANGED index
               \/ Step(b, "save") /\ index' = [index EXCEPT ![b] = Index(seen[b] \cup Page(b))]
        PROVE  AgreeInv'
    <3>1. ~drift => seen[b] \cup Page(b) = source
      BY <2>1, <2>3, <2>5 DEF AgreeInv, Rest
    <3> QED BY <2>1, <2>2, <2>5, <3>1 DEF AgreeInv
  <2> QED BY <1>3, <2>4, <2>5 DEF ListPage
<1>4. ASSUME NEW b \in Builders, ListFails(b) PROVE AgreeInv'
  <2>1. UNCHANGED <<layout, source, manifest, seen, cursor, index, drift>> /\ Step(b, "failed")
    BY <1>4 DEF ListFails
  <2>2. Index(source)' = Index(source) /\ UsableManifest(manifest)' = UsableManifest(manifest)
    BY <2>1, IndexKept DEF UsableManifest
  <2> QED BY <2>1, <2>2 DEF AgreeInv
<1>5. ASSUME NEW b \in Builders, SaveManifest(b) PROVE AgreeInv'
  <2>1. UNCHANGED <<layout, source, seen, cursor, index, drift>> /\ built[b] = "save" /\ Step(b, "done")
    BY <1>5 DEF SaveManifest
  <2>2. Index(source)' = Index(source)
    BY <2>1, IndexKept
  <2>3. manifest' = manifest \/ manifest'.index = index[b]
    BY <1>5 DEF SaveManifest
  <2>4. ~drift => (UsableManifest(manifest)' => manifest'.index = Index(source))
    BY <2>1, <2>3 DEF AgreeInv, UsableManifest
  <2> QED BY <2>1, <2>2, <2>4 DEF AgreeInv
<1>6. ASSUME NEW k \in Keys, Upload(k) PROVE AgreeInv'
  BY <1>6 DEF Upload, AgreeInv
<1>7. CASE UNCHANGED datasetVars
  <2>1. UNCHANGED <<layout, source, manifest, built, seen, cursor, index, drift>>
    BY <1>7 DEF datasetVars
  <2>2. Index(source)' = Index(source) /\ UsableManifest(manifest)' = UsableManifest(manifest)
    BY <2>1, IndexKept DEF UsableManifest
  <2> QED BY <2>1, <2>2 DEF AgreeInv
<1> QED BY <1>1, <1>2, <1>3, <1>4, <1>5, <1>6, <1>7 DEF DatasetNext, BuildStep

\* Until the source changes, processes that load, list and save in any order, and
\* of which any step may fail, have one index: that of the source.
THEOREM OneIndex == DatasetSpec => []BuildersAgree
<1>1. AgreeInv => BuildersAgree
  BY DEF AgreeInv, BuildersAgree
<1> QED BY AgreeInit, AgreeStep, <1>1, PTL DEF DatasetSpec

-----------------------------------------------------------------------------
(* The index of a set of rows is well formed *)

\* As many numbers as there are elements, no two alike: each of them occurs.
LEMMA AllNumbersOccur ==
    ASSUME NEW C, IsFiniteSet(C), NEW r \in [C -> 0..(Cardinality(C) - 1)],
           \A c, d \in C : r[c] = r[d] => c = d
    PROVE  \A i \in 0..(Cardinality(C) - 1) : \E c \in C : r[c] = i
<1> DEFINE T == 0..(Cardinality(C) - 1)
<1>1. Cardinality(C) \in Nat
  BY FS_CardinalityType
<1>2. IsFiniteSet(T) /\ Cardinality(T) = Cardinality(C)
  <2>1. 0 \in Int /\ Cardinality(C) - 1 \in Int
    BY <1>1
  <2>2. /\ IsFiniteSet(T)
        /\ Cardinality(T) = IF 0 > Cardinality(C) - 1 THEN 0 ELSE Cardinality(C) - 1 - 0 + 1
    BY <2>1, FS_Interval
  <2> HIDE DEF T
  <2> QED BY <1>1, <2>2
<1>3. r \in Injection(C, T)
  BY DEF Injection, IsInjective
<1> HIDE DEF T
<1>4. r \in Surjection(C, T)
  BY <1>2, <1>3, FS_Injection
<1> QED BY <1>4 DEF Surjection, T

\* What comes before is counted: less comes before the smaller of two numbers.
LEMMA CountGrows ==
    ASSUME NEW S, NEW T \in SUBSET S, IsFiniteSet(S), T # S
    PROVE  Cardinality(T) < Cardinality(S) /\ Cardinality(T) \in Nat /\ Cardinality(S) \in Nat
<1>1. /\ IsFiniteSet(T) /\ Cardinality(T) <= Cardinality(S)
      /\ Cardinality(T) # Cardinality(S)
  BY FS_Subset
<1>2. Cardinality(T) \in Nat /\ Cardinality(S) \in Nat
  BY <1>1, FS_CardinalityType
<1> QED BY <1>1, <1>2

LEMMA BeforeGrows ==
    ASSUME NEW S \in SUBSET Nat, IsFiniteSet(S), NEW x \in S, NEW y \in S, x < y
    PROVE  Before(x, S) < Before(y, S)
<1> DEFINE X == {z \in S : z < x}
           Y == {z \in S : z < y}
<1>1. X \in SUBSET Y /\ X # Y
  <2>1. \A z \in S : z \in Nat
    OBVIOUS
  <2>2. x \in Y /\ x \notin X
    BY <2>1
  <2>3. \A z \in S : z < x => z < y
    BY <2>1
  <2>4. X \subseteq Y
    BY <2>3
  <2> HIDE DEF X, Y
  <2> QED BY <2>2, <2>4
<1>2. IsFiniteSet(Y)
  BY FS_Subset
<1> HIDE DEF X, Y
<1>3. Cardinality(X) < Cardinality(Y)
  BY <1>1, <1>2, CountGrows
<1> QED BY <1>3 DEF Before, X, Y

\* Positions in a set are different, from 0 on, and without a gap.
LEMMA NumberedByPosition ==
    ASSUME NEW S \in SUBSET Nat, IsFiniteSet(S)
    PROVE  /\ \A x \in S : Before(x, S) \in 0..(Cardinality(S) - 1)
           /\ \A x, y \in S : Before(x, S) = Before(y, S) => x = y
           /\ \A i \in 0..(Cardinality(S) - 1) : \E x \in S : Before(x, S) = i
<1>1. ASSUME NEW x \in S PROVE Before(x, S) \in 0..(Cardinality(S) - 1)
  <2> DEFINE X == {z \in S : z < x}
  <2>1. X \in SUBSET S /\ X # S
    <3>1. ~(x < x)
      OBVIOUS
    <3> QED BY <3>1
  <2> HIDE DEF X
  <2>2. Cardinality(X) < Cardinality(S) /\ Cardinality(X) \in Nat /\ Cardinality(S) \in Nat
    BY <2>1, CountGrows
  <2>3. Cardinality(X) \in 0..(Cardinality(S) - 1)
    BY <2>2
  <2> QED BY <2>3 DEF Before, X
<1>2. ASSUME NEW x \in S, NEW y \in S, Before(x, S) = Before(y, S) PROVE x = y
  <2>1. x \in Nat /\ y \in Nat /\ Before(x, S) \in Int
    BY <1>1
  <2>2. CASE x < y
    BY <1>2, <2>1, <2>2, BeforeGrows
  <2>3. CASE y < x
    BY <1>2, <2>1, <2>3, BeforeGrows
  <2> QED BY <2>1, <2>2, <2>3
<1> DEFINE r == [x \in S |-> Before(x, S)]
<1>3. r \in [S -> 0..(Cardinality(S) - 1)] /\ \A x, y \in S : r[x] = r[y] => x = y
  BY <1>1, <1>2
<1>4. \A x \in S : r[x] = Before(x, S)
  OBVIOUS
<1> HIDE DEF r
<1>5. \A i \in 0..(Cardinality(S) - 1) : \E x \in S : r[x] = i
  BY <1>3, AllNumbersOccur
<1> QED BY <1>1, <1>2, <1>4, <1>5

LEMMA FiniteClasses ==
    ASSUME NEW keys \in SUBSET Keys
    PROVE  /\ IsFiniteSet(keys) /\ keys \subseteq Nat
           /\ IsFiniteSet(ClassesOf(keys)) /\ ClassesOf(keys) \subseteq Nat
<1>1. IsFiniteSet(keys) /\ keys \subseteq Nat
  BY KeyAssumption, FS_Subset
<1> DEFINE f == [k \in keys |-> ClassOf[k]]
<1>2. f \in Surjection(keys, ClassesOf(keys))
  BY DEF Surjection, ClassesOf
<1> HIDE DEF f
<1>3. IsFiniteSet(ClassesOf(keys))
  BY <1>1, <1>2, FS_Surjection
<1>4. ClassesOf(keys) \subseteq Nat
  BY KeyAssumption DEF ClassesOf
<1> QED BY <1>1, <1>3, <1>4

LEMMA Smallest ==
    ASSUME NEW S \in SUBSET Nat, IsFiniteSet(S), S # {}
    PROVE  \E x \in S : \A y \in S : x <= y
<1>1. Cardinality(S) \in Nat /\ Cardinality(S) # 0
  BY FS_CardinalityType, FS_EmptySet
<1>2. 0 \in 0..(Cardinality(S) - 1)
  BY <1>1
<1>3. PICK x \in S : Before(x, S) = 0
  BY <1>2, NumberedByPosition
<1> DEFINE X == {y \in S : y < x}
<1>4. IsFiniteSet(X) /\ Cardinality(X) = 0
  BY <1>3, FS_Subset DEF Before
<1> HIDE DEF X
<1>5. X = {}
  BY <1>4, FS_EmptySet
<1>6. \A y \in S : y \in Nat /\ ~(y < x)
  BY <1>5 DEF X
<1> QED BY <1>6

\* The classes with a row before all those of class c.
ImagesBefore(c, rows) == ClassesOf({x \in rows : \A y \in rows : ClassOf[y] = c => x < y})

\* A class is met after those whose first row comes earlier.
LEMMA MetGrows ==
    ASSUME NEW rows \in SUBSET Keys, NEW f \in rows, NEW g \in rows, f < g,
           \A y \in rows : ClassOf[y] = ClassOf[f] => f <= y,
           \A y \in rows : ClassOf[y] = ClassOf[g] => g <= y
    PROVE  Cardinality(ImagesBefore(ClassOf[f], rows)) < Cardinality(ImagesBefore(ClassOf[g], rows))
<1> DEFINE F == ImagesBefore(ClassOf[f], rows)
           G == ImagesBefore(ClassOf[g], rows)
<1>1. \A y \in rows : y \in Nat
  BY KeyAssumption
<1>2. ASSUME NEW x \in rows, \A y \in rows : ClassOf[y] = ClassOf[f] => x < y
      PROVE  \A y \in rows : ClassOf[y] = ClassOf[g] => x < y
  BY <1>1, <1>2
<1>3. F \subseteq G
  BY <1>2 DEF ImagesBefore, ClassesOf
<1>4. ClassOf[f] \in G
  <2>1. \A y \in rows : ClassOf[y] = ClassOf[g] => f < y
    BY <1>1
  <2> QED BY <2>1 DEF ImagesBefore, ClassesOf
<1>5. ClassOf[f] \notin F
  <2>1. ASSUME NEW x \in rows, \A y \in rows : ClassOf[y] = ClassOf[f] => x < y
        PROVE  ClassOf[x] # ClassOf[f]
    BY <1>1, <2>1
  <2> QED BY <2>1 DEF ImagesBefore, ClassesOf
<1>6. IsFiniteSet(G)
  BY FiniteClasses DEF ImagesBefore
<1> HIDE DEF F, G
<1>7. Cardinality(F) < Cardinality(G)
  BY <1>3, <1>4, <1>5, <1>6, CountGrows
<1> QED BY <1>7 DEF F, G

\* Captions: an image gets the number of images that were met before it.
LEMMA ImageNumbers ==
    ASSUME NEW keys \in SUBSET Keys, NEW rows, rows = Kept(keys), NEW C, C = ClassesOf(rows)
    PROVE  /\ \A k \in rows : FirstSeen(k, keys) \in 0..(Cardinality(C) - 1)
           /\ \A k, l \in rows :
                (FirstSeen(k, keys) = FirstSeen(l, keys)) <=> (ClassOf[k] = ClassOf[l])
           /\ \A i \in 0..(Cardinality(C) - 1) : \E k \in rows : FirstSeen(k, keys) = i
<1>1. rows \in SUBSET Keys
  BY DEF Kept
<1>2. IsFiniteSet(C) /\ IsFiniteSet(rows) /\ rows \subseteq Nat
  BY <1>1, FiniteClasses
<1> DEFINE number(c) == Cardinality(ImagesBefore(c, rows))
           r == [c \in C |-> number(c)]
<1>3. \A k \in rows : FirstSeen(k, keys) = number(ClassOf[k]) /\ ClassOf[k] \in C
  BY DEF FirstSeen, ImagesBefore, ClassesOf
<1>4. ASSUME NEW c \in C PROVE number(c) \in 0..(Cardinality(C) - 1)
  <2> DEFINE M == ImagesBefore(c, rows)
  <2>1. M \subseteq C
    BY DEF ImagesBefore, ClassesOf
  <2>2. c \notin M
    <3>1. ASSUME NEW x \in rows, \A y \in rows : ClassOf[y] = c => x < y PROVE ClassOf[x] # c
      BY <1>2, <3>1
    <3> QED BY <3>1 DEF ImagesBefore, ClassesOf
  <2> HIDE DEF M
  <2>3. Cardinality(M) < Cardinality(C) /\ Cardinality(M) \in Nat /\ Cardinality(C) \in Nat
    BY <1>2, <2>1, <2>2, CountGrows
  <2>4. Cardinality(M) \in 0..(Cardinality(C) - 1)
    BY <2>3
  <2> QED BY <2>4 DEF M
<1>5. ASSUME NEW c \in C PROVE \E f \in rows : ClassOf[f] = c /\ \A y \in rows : ClassOf[y] = c => f <= y
  <2> DEFINE S == {y \in rows : ClassOf[y] = c}
  <2>1. S \in SUBSET Nat /\ S # {} /\ IsFiniteSet(S)
    BY <1>2, FS_Subset DEF ClassesOf
  <2> HIDE DEF S
  <2>2. \E x \in S : \A y \in S : x <= y
    BY <2>1, Smallest
  <2> QED BY <2>2 DEF S
<1>6. ASSUME NEW c \in C, NEW d \in C, number(c) = number(d) PROVE c = d
  <2>1. PICK f \in rows : ClassOf[f] = c /\ \A y \in rows : ClassOf[y] = c => f <= y
    BY <1>5
  <2>2. PICK g \in rows : ClassOf[g] = d /\ \A y \in rows : ClassOf[y] = d => g <= y
    BY <1>5
  <2>3. number(c) \in Int /\ number(d) \in Int /\ f \in Nat /\ g \in Nat
    BY <1>2, <1>4
  <2>4. ~(f < g)
    <3>1. f < g => number(c) < number(d)
      BY <1>1, <2>1, <2>2, MetGrows
    <3> QED BY <1>6, <2>3, <3>1
  <2>5. ~(g < f)
    <3>1. g < f => number(d) < number(c)
      BY <1>1, <2>1, <2>2, MetGrows
    <3> QED BY <1>6, <2>3, <3>1
  <2>6. f = g
    BY <2>3, <2>4, <2>5
  <2> QED BY <2>1, <2>2, <2>6
<1>7. r \in [C -> 0..(Cardinality(C) - 1)] /\ \A c, d \in C : r[c] = r[d] => c = d
  BY <1>4, <1>6
<1>8. \A c \in C : r[c] = number(c)
  OBVIOUS
<1> HIDE DEF r
<1>9. \A i \in 0..(Cardinality(C) - 1) : \E c \in C : r[c] = i
  BY <1>2, <1>7, AllNumbersOccur
<1>10. \A c \in C : \E k \in rows : ClassOf[k] = c
  BY DEF ClassesOf
<1> HIDE DEF number
<1> QED BY <1>3, <1>4, <1>6, <1>8, <1>9, <1>10

LEMMA ImagesWellFormed ==
    ASSUME NEW keys \in SUBSET Keys, layout.format # "synthetic" PROVE WellFormed(ImageFolderIndex(keys))
<1> DEFINE rows == Kept(keys)
           C == ClassesOf(rows)
           ix == ImageFolderIndex(keys)
<1>1. rows \in SUBSET Keys
  BY DEF Kept
<1>2. IsFiniteSet(C) /\ IsFiniteSet(rows) /\ rows \in SUBSET Nat /\ C \in SUBSET Nat
  BY <1>1, FiniteClasses
<1>3. /\ DOMAIN ix.samples = rows /\ ix.classes = Cardinality(C) /\ ix.format = layout.format
      /\ \A k \in rows : /\ ix.samples[k].id = Before(k, rows)
                         /\ ix.samples[k].label = Before(ClassOf[k], C)
                         /\ ClassOf[k] \in C
  BY DEF ImageFolderIndex, ClassNumber, ClassesOf
<1>4. \A c \in C : \E k \in rows : ClassOf[k] = c
  BY DEF ClassesOf
<1> HIDE DEF rows, C, ix
<1>5. WellFormed(ix)
  <2>0. /\ \A c \in C : Before(c, C) \in 0..(Cardinality(C) - 1)
        /\ \A c, d \in C : Before(c, C) = Before(d, C) => c = d
        /\ \A i \in 0..(Cardinality(C) - 1) : \E c \in C : Before(c, C) = i
    BY <1>2, NumberedByPosition
  <2>1. \A k, l \in rows : ix.samples[k].id = ix.samples[l].id => k = l
    BY <1>2, <1>3, NumberedByPosition
  <2>2. \A k \in rows : ix.samples[k].label \in 0..(ix.classes - 1)
    BY <1>3, <2>0
  <2>3. \A k, l \in rows : (ix.samples[k].label = ix.samples[l].label) <=> (ClassOf[k] = ClassOf[l])
    BY <1>3, <2>0
  <2>4. \A c \in 0..(ix.classes - 1) : \E k \in rows : ix.samples[k].label = c
    BY <1>3, <1>4, <2>0
  <2> QED BY <1>3, <2>1, <2>2, <2>3, <2>4 DEF WellFormed
<1> QED BY <1>5 DEF ix

LEMMA AnnotationsWellFormed ==
    ASSUME layout \in Layouts, layout.format # "synthetic", NEW keys \in SUBSET Keys
    PROVE  WellFormed(OpenImagesIndex(keys))
<1> DEFINE all == Kept(keys)
           rows == Projected(keys)
           C == LabelNames(keys)
           ix == OpenImagesIndex(keys)
<1>1. all \in SUBSET Keys /\ rows \subseteq all
  BY DEF Kept, Projected
<1>2. /\ IsFiniteSet(C) /\ IsFiniteSet(all) /\ all \in SUBSET Nat /\ C \in SUBSET Nat
      /\ IsFiniteSet(ClassesOf(all))
  BY <1>1, FiniteClasses, LayoutAssumption DEF LabelNames
<1>3. /\ DOMAIN ix.samples = rows /\ ix.classes = Cardinality(C) /\ ix.format = layout.format
      /\ \A k \in rows : /\ ix.samples[k].id = Before(k, all)
                         /\ ix.samples[k].label = Before(ClassOf[k], C)
                         /\ ClassOf[k] \in C
  BY DEF OpenImagesIndex, ClassNumber, Projected
<1>4. layout.described = {} => \A c \in C : \E k \in rows : ClassOf[k] = c
  BY DEF LabelNames, Projected, ClassesOf
<1> HIDE DEF all, rows, C, ix
<1>5. WellFormed(ix)
  <2>0. /\ \A c \in C : Before(c, C) \in 0..(Cardinality(C) - 1)
        /\ \A c, d \in C : Before(c, C) = Before(d, C) => c = d
        /\ \A i \in 0..(Cardinality(C) - 1) : \E c \in C : Before(c, C) = i
    BY <1>2, NumberedByPosition
  <2>1. \A k, l \in rows : ix.samples[k].id = ix.samples[l].id => k = l
    BY <1>1, <1>2, <1>3, NumberedByPosition
  <2>2. \A k \in rows : ix.samples[k].label \in 0..(ix.classes - 1)
    BY <1>3, <2>0
  <2>3. \A k, l \in rows : (ix.samples[k].label = ix.samples[l].label) <=> (ClassOf[k] = ClassOf[l])
    BY <1>3, <2>0
  <2>4. layout.described = {} =>
          \A c \in 0..(ix.classes - 1) : \E k \in rows : ix.samples[k].label = c
    BY <1>3, <1>4, <2>0
  <2> QED BY <1>3, <2>1, <2>2, <2>3, <2>4 DEF WellFormed
<1> QED BY <1>5 DEF ix

LEMMA CaptionsWellFormed ==
    ASSUME NEW keys \in SUBSET Keys, layout.format # "synthetic" PROVE WellFormed(RetrievalIndex(keys))
<1> DEFINE rows == Kept(keys)
           C == ClassesOf(rows)
           ix == RetrievalIndex(keys)
<1>1. rows \subseteq keys
  BY DEF Kept
<1>2. IsFiniteSet(keys) /\ keys \in SUBSET Nat
  BY FiniteClasses
<1>3. /\ DOMAIN ix.samples = rows /\ ix.classes = Cardinality(C) /\ ix.format = layout.format
      /\ \A k \in rows : /\ ix.samples[k].id = Before(k, keys)
                         /\ ix.samples[k].label = FirstSeen(k, keys)
  BY DEF RetrievalIndex
<1>4. /\ \A k \in rows : FirstSeen(k, keys) \in 0..(Cardinality(C) - 1)
      /\ \A k, l \in rows : (FirstSeen(k, keys) = FirstSeen(l, keys)) <=> (ClassOf[k] = ClassOf[l])
      /\ \A i \in 0..(Cardinality(C) - 1) : \E k \in rows : FirstSeen(k, keys) = i
  BY ImageNumbers
<1> HIDE DEF rows, C, ix
<1>5. \A k, l \in rows : ix.samples[k].id = ix.samples[l].id => k = l
  BY <1>1, <1>2, <1>3, NumberedByPosition
<1>6. WellFormed(ix)
  BY <1>3, <1>4, <1>5 DEF WellFormed
<1> QED BY <1>6 DEF ix

LEMMA SyntheticWellFormed ==
    ASSUME layout.format = "synthetic", NEW keys \in SUBSET Keys PROVE WellFormed(SyntheticIndex(keys))
<1> DEFINE ix == SyntheticIndex(keys)
<1>1. IsFiniteSet(keys) /\ keys \in SUBSET Nat
  BY FiniteClasses
<1>2. /\ DOMAIN ix.samples = keys /\ ix.classes = NumClasses /\ ix.format = "synthetic"
      /\ \A k \in keys : /\ ix.samples[k].id = Before(k, keys)
                         /\ ix.samples[k].label = Before(k, keys) % NumClasses
  BY DEF SyntheticIndex, SyntheticLabel
<1> HIDE DEF ix
<1>3. \A k, l \in keys : ix.samples[k].id = ix.samples[l].id => k = l
  <2>1. \A k, l \in keys : Before(k, keys) = Before(l, keys) => k = l
    BY <1>1, NumberedByPosition
  <2> QED BY <1>2, <2>1
<1>4. \A k \in keys : ix.samples[k].label \in 0..(ix.classes - 1)
  <2> SUFFICES ASSUME NEW k \in keys PROVE Before(k, keys) % NumClasses \in 0..(NumClasses - 1)
    BY <1>2
  <2>1. Before(k, keys) \in Int
    BY <1>1, NumberedByPosition
  <2> QED BY <2>1, SizeAssumption
<1>5. WellFormed(ix)
  BY <1>2, <1>3, <1>4 DEF WellFormed
<1> QED BY <1>5 DEF ix

LEMMA EveryIndexWellFormed ==
    ASSUME layout \in Layouts, layout.format \in Formats \cup {"synthetic"}, NEW keys \in SUBSET Keys
    PROVE  WellFormed(Index(keys))
<1>1. CASE layout.format = "image_folder"
  BY <1>1, ImagesWellFormed DEF Index
<1>2. CASE layout.format = "openimages_boxable"
  BY <1>2, AnnotationsWellFormed DEF Index
<1>3. CASE layout.format = "coco_retrieval"
  BY <1>3, CaptionsWellFormed DEF Index
<1>4. CASE layout.format = "synthetic"
  BY <1>4, SyntheticWellFormed DEF Index
<1> QED BY <1>1, <1>2, <1>3, <1>4 DEF Formats

-----------------------------------------------------------------------------
(* Every index a process ends up with is that of some rows *)

Indices == {Index(keys) : keys \in SUBSET Keys}

\* What is read, listed or saved is the index of some set of rows, of a format that
\* there is.
RowsInv ==
    /\ layout \in Layouts /\ source \subseteq Keys
    /\ built = [b \in Builders |-> built[b]]
    /\ seen \in [Builders -> SUBSET Keys]
    /\ index = [b \in Builders |-> index[b]]
    /\ UsableManifest(manifest) /\ layout.format \in Formats => manifest.index \in Indices
    /\ \A b \in Builders :
        /\ built[b] \in {"load", "list", "save"} => layout.format \in Formats
        /\ built[b] \in {"save", "done"} =>
            layout.format \in Formats \cup {"synthetic"} /\ index[b] \in Indices

LEMMA IndicesKept ==
    ASSUME UNCHANGED layout PROVE Indices' = Indices
<1>1. \A keys \in SUBSET Keys : Index(keys)' = Index(keys)
  BY IndexKept
<1> QED BY <1>1 DEF Indices

LEMMA RowsInit == DatasetInit => RowsInv
<1> SUFFICES ASSUME DatasetInit PROVE RowsInv
  OBVIOUS
<1>1. UsableManifest(manifest) /\ layout.format \in Formats => manifest.index \in Indices
  <2>1. manifest \in InitialManifests /\ source \subseteq Keys
    BY DEF DatasetInit
  <2>2. CASE manifest = [kind |-> "none", index |-> NoIndex]
    BY <2>2 DEF UsableManifest
  <2>3. CASE manifest = [kind |-> "index", index |-> [NoIndex EXCEPT !.format = "other"]]
    BY <2>3 DEF UsableManifest, NoIndex, Formats
  <2>4. CASE \E keys \in SUBSET source : manifest = [kind |-> "index", index |-> Index(keys)]
    BY <2>1, <2>4 DEF Indices
  <2> QED BY <2>1, <2>2, <2>3, <2>4 DEF InitialManifests
<1> QED BY <1>1 DEF DatasetInit, RowsInv

LEMMA RowsStep == RowsInv /\ [DatasetNext]_datasetVars => RowsInv'
<1> SUFFICES ASSUME RowsInv, [DatasetNext]_datasetVars PROVE RowsInv'
  OBVIOUS
<1> USE DEF Step
<1>1. UNCHANGED layout
  BY DEF DatasetNext, BuildStep, BeginBuild, LoadManifest, ListPage, ListFails, SaveManifest, Upload,
         datasetVars
<1>2. Indices' = Indices
  BY <1>1, IndicesKept
<1>3. ASSUME NEW b \in Builders, BeginBuild(b) PROVE RowsInv'
  <2>1. UNCHANGED <<layout, source, manifest, seen>>
    BY <1>3 DEF BeginBuild
  <2>2. \/ layout.format \in Formats /\ Step(b, "load") /\ UNCHANGED index
        \/ Step(b, "failed") /\ UNCHANGED index
        \/ /\ layout.format = "synthetic" /\ Step(b, "done")
           /\ index' = [index EXCEPT ![b] = Index(source)]
    BY <1>3 DEF BeginBuild
  <2>3. Index(source) \in Indices
    BY DEF Indices, RowsInv
  <2> QED BY <1>2, <2>1, <2>2, <2>3 DEF RowsInv, UsableManifest
<1>4. ASSUME NEW b \in Builders, LoadManifest(b) PROVE RowsInv'
  <2>1. UNCHANGED <<layout, source, manifest, seen>> /\ layout.format \in Formats
    BY <1>4 DEF LoadManifest, RowsInv
  <2>2. \/ Step(b, "list") /\ UNCHANGED index
        \/ /\ UsableManifest(manifest)
           /\ Step(b, "done") /\ index' = [index EXCEPT ![b] = manifest.index]
    BY <1>4 DEF LoadManifest
  <2> QED BY <1>2, <2>1, <2>2 DEF RowsInv, UsableManifest
<1>5. ASSUME NEW b \in Builders, ListPage(b) PROVE RowsInv'
  <2> DEFINE now == seen[b] \cup Page(b)
  <2>1. UNCHANGED <<layout, source, manifest>> /\ layout.format \in Formats
        /\ seen' = [seen EXCEPT ![b] = now]
    BY <1>5 DEF ListPage, RowsInv
  <2>2. now \in SUBSET Keys
    BY DEF RowsInv, Page, Rest
  <2>3. Index(now) \in Indices
    BY <2>2 DEF Indices
  <2>4. \/ UNCHANGED <<built, index>>
        \/ Step(b, "failed") /\ UNCHANGED index
        \/ Step(b, "save") /\ index' = [index EXCEPT ![b] = Index(now)]
    BY <1>5 DEF ListPage
  <2> HIDE DEF now
  <2> QED BY <1>2, <2>1, <2>2, <2>3, <2>4 DEF RowsInv, UsableManifest
<1>6. ASSUME NEW b \in Builders, ListFails(b) PROVE RowsInv'
  BY <1>2, <1>6 DEF ListFails, RowsInv, UsableManifest
<1>7. ASSUME NEW b \in Builders, SaveManifest(b) PROVE RowsInv'
  <2>1. UNCHANGED <<layout, source, seen, index>> /\ Step(b, "done") /\ built[b] = "save"
    BY <1>7 DEF SaveManifest
  <2>2. manifest' = manifest \/ manifest'.index = index[b]
    BY <1>7 DEF SaveManifest
  <2> QED BY <1>2, <2>1, <2>2 DEF RowsInv, UsableManifest
<1>8. ASSUME NEW k \in Keys, Upload(k) PROVE RowsInv'
  BY <1>2, <1>8 DEF Upload, RowsInv, UsableManifest
<1>9. CASE UNCHANGED datasetVars
  BY <1>2, <1>9 DEF datasetVars, RowsInv, UsableManifest
<1> QED BY <1>3, <1>4, <1>5, <1>6, <1>7, <1>8, <1>9 DEF DatasetNext, BuildStep

\* Every index that a process ends up with fits the training loop and the data
\* workers, also if the source grew while it was listed: ids are unique, labels
\* stand for classes and are below their number, and none is left out.
THEOREM IndexFits == DatasetSpec => []IndexWellFormed
<1>1. RowsInv => IndexWellFormed
  <2> SUFFICES ASSUME RowsInv, NEW b \in Builders, built[b] \in {"save", "done"}
               PROVE  WellFormed(index[b])
    BY DEF IndexWellFormed
  <2>1. layout \in Layouts /\ layout.format \in Formats \cup {"synthetic"} /\ index[b] \in Indices
    BY DEF RowsInv
  <2> QED BY <2>1, EveryIndexWellFormed DEF Indices
<1> QED BY RowsInit, RowsStep, <1>1, PTL DEF DatasetSpec
=============================================================================
