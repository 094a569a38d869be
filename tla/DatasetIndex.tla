---------------------------- MODULE DatasetIndex ----------------------------
(***************************************************************************)
(* The index of a dataset (coordinator/dataset_builder.py).  The           *)
(* coordinator, the driver of an experiment and every PyTorch job build it *)
(* for themselves, from a manifest in S3 if there is a usable one, else    *)
(* from the source: the listing of a bucket or an annotation file.  A      *)
(* fresh index is saved as the new manifest.  The processes share nothing  *)
(* but S3.                                                                 *)
(*                                                                         *)
(* A row of the source is a key; keys are ordered like the listing or the  *)
(* lines of the file.  An index maps the keys of its samples to their      *)
(* sample id (a number) and label.                                         *)
(***************************************************************************)
EXTENDS Integers, FiniteSets

CONSTANTS
    Keys,        \* rows the source may ever have, in order
    Usable,      \* rows that pass the filters: an image below a class
                 \* directory, a positive annotation, a complete caption
    ClassOf,     \* class directory, label name or image id of a row
    Layouts,     \* dataset configurations: [format, described]
    Builders,    \* processes that build the index
    PageSize,    \* keys of one page of a listing
    NumClasses   \* num_classes of a synthetic dataset

ASSUME KeyAssumption ==
    /\ Keys \subseteq Nat \ {0} /\ IsFiniteSet(Keys) /\ Usable \subseteq Keys
    /\ ClassOf \in [Keys -> Nat]
ASSUME LayoutAssumption == \A l \in Layouts : l.described \subseteq Nat /\ IsFiniteSet(l.described)
ASSUME SizeAssumption == PageSize \in Nat \ {0} /\ NumClasses \in Nat \ {0}

Formats == {"image_folder", "openimages_boxable", "coco_retrieval"}

VARIABLES
    layout,      \* the DatasetConfig, the same for every process
    source,      \* keys that are in the source now
    manifest,    \* the object at the manifest URI
    built,       \* where build_dataset_from_config is, by process
    seen,        \* keys a listing has returned
    cursor,      \* the last of them
    index,       \* the index a process obtained
    drift        \* history: the source changed, or the manifest is out of date

datasetVars == <<layout, source, manifest, built, seen, cursor, index, drift>>

-----------------------------------------------------------------------------
(* The index of a set of rows *)

Before(x, S) == Cardinality({y \in S : y < x})
Kept(keys) == keys \cap Usable
ClassesOf(keys) == {ClassOf[k] : k \in keys}

\* _load_openimages_class_descriptions: with a description file its label names
\* are the classes, else those that occur.
LabelNames(keys) ==
    IF layout.described # {} THEN layout.described ELSE ClassesOf(Kept(keys))

\* Positive annotations whose label name has a number.
Projected(keys) == {k \in Kept(keys) : ClassOf[k] \in LabelNames(keys)}

\* Mutant: a class keeps its number in the source.
RawLabel(k, names) == ClassOf[k]

\* class_to_idx, over the sorted names.
ClassNumber(k, names) == Before(ClassOf[k], names)

\* Mutant: every first caption of an image gives a number, whatever came before.
FirstRow(k, keys) ==
    Cardinality({x \in Kept(keys) :
        \A y \in Kept(keys) : ClassOf[y] = ClassOf[k] => x < y})

\* image_to_idx: an image gets its number when its first caption is met.
FirstSeen(k, keys) ==
    Cardinality(ClassesOf({x \in Kept(keys) :
        \A y \in Kept(keys) : ClassOf[y] = ClassOf[k] => x < y}))

\* Images are numbered as they are listed, positive annotations as they are
\* read, captions by their line.
ImageFolderIndex(keys) ==
    LET names == ClassesOf(Kept(keys))
    IN  [format |-> layout.format, classes |-> Cardinality(names),
         samples |-> [k \in Kept(keys) |->
            [id |-> Before(k, Kept(keys)), label |-> ClassNumber(k, names)]]]

OpenImagesIndex(keys) ==
    [format |-> layout.format, classes |-> Cardinality(LabelNames(keys)),
     samples |-> [k \in Projected(keys) |->
        [id |-> Before(k, Kept(keys)), label |-> ClassNumber(k, LabelNames(keys))]]]

RetrievalIndex(keys) ==
    [format |-> layout.format, classes |-> Cardinality(ClassesOf(Kept(keys))),
     samples |-> [k \in Kept(keys) |->
        [id |-> Before(k, keys), label |-> FirstSeen(k, keys)]]]

\* Synthetic samples have no label: the worker computes it from the number.
SyntheticLabel(i) == i % NumClasses
SyntheticIndex(keys) ==
    [format |-> layout.format, classes |-> NumClasses,
     samples |-> [k \in keys |->
        [id |-> Before(k, keys), label |-> SyntheticLabel(Before(k, keys))]]]

NoIndex == [format |-> "none", classes |-> 0, samples |-> [k \in {} |-> {}]]

Index(keys) ==
    CASE layout.format = "image_folder" -> ImageFolderIndex(keys)
      [] layout.format = "openimages_boxable" -> OpenImagesIndex(keys)
      [] layout.format = "coco_retrieval" -> RetrievalIndex(keys)
      [] layout.format = "synthetic" -> SyntheticIndex(keys)
      [] OTHER -> NoIndex

Rows(keys) == DOMAIN Index(keys).samples

-----------------------------------------------------------------------------
(* Building *)

\* Mutant: the format of a manifest is not looked at.
UsableAnyFormat(m) == m.kind = "index"

\* A manifest that is missing, is no JSON object or does not parse has kind
\* "none"; one of another format is ignored as well.
UsableManifest(m) == m.kind = "index" /\ m.index.format = layout.format

Step(b, p) == built' = [built EXCEPT ![b] = p]

\* build_dataset_from_config: synthetic data need no S3, an unknown format is
\* an error.
BeginBuild(b) ==
    /\ built[b] = "off"
    /\ \/ /\ layout.format \in Formats
          /\ Step(b, "load") /\ UNCHANGED index
       \/ /\ layout.format = "synthetic"
          /\ Step(b, "done")
          /\ index' = [index EXCEPT ![b] = Index(source)]
       \/ /\ layout.format \notin Formats \cup {"synthetic"}
          /\ Step(b, "failed") /\ UNCHANGED index
    /\ UNCHANGED <<layout, source, manifest, seen, cursor, drift>>

\* _load_dataset_from_s3: any exception, also of a read that fails for a while,
\* counts as "there is no manifest".
LoadManifest(b) ==
    /\ built[b] = "load"
    /\ \/ /\ UsableManifest(manifest)
          /\ index' = [index EXCEPT ![b] = manifest.index]
          /\ Step(b, "done")
       \/ Step(b, "list") /\ UNCHANGED index
    /\ UNCHANGED <<layout, source, manifest, seen, cursor, drift>>

\* A bucket is listed page by page, an annotation file is read at once.
Rest(b) == {k \in source : k > cursor[b]}
Page(b) ==
    IF layout.format = "image_folder"
    THEN {k \in Rest(b) : Before(k, Rest(b)) < PageSize}
    ELSE Rest(b)

ListPage(b) ==
    /\ built[b] = "list"
    /\ LET now == seen[b] \cup Page(b) IN
        /\ seen' = [seen EXCEPT ![b] = now]
        /\ \/ \E last \in Page(b) :
                /\ Page(b) # Rest(b)
                /\ \A k \in Page(b) : k <= last
                /\ cursor' = [cursor EXCEPT ![b] = last]
                /\ UNCHANGED <<built, index>>
           \/ /\ Page(b) = Rest(b)
              /\ IF Rows(now) = {}
                 THEN Step(b, "failed") /\ UNCHANGED index
                 ELSE Step(b, "save") /\ index' = [index EXCEPT ![b] = Index(now)]
              /\ UNCHANGED cursor
    /\ UNCHANGED <<layout, source, manifest, drift>>

ListFails(b) ==
    /\ built[b] = "list"
    /\ Step(b, "failed")
    /\ UNCHANGED <<layout, source, manifest, seen, cursor, index, drift>>

\* _maybe_save_manifest: an exception is only logged.
SaveManifest(b) ==
    /\ built[b] = "save"
    /\ manifest' \in {manifest, [kind |-> "index", index |-> index[b]]}
    /\ Step(b, "done")
    /\ UNCHANGED <<layout, source, seen, cursor, index, drift>>

\* Objects are uploaded, or the annotation file is replaced by a longer one.
Upload(k) ==
    /\ k \in Keys \ source
    /\ source' = source \cup {k}
    /\ drift' = TRUE
    /\ UNCHANGED <<layout, manifest, built, seen, cursor, index>>

BuildStep(b) == LoadManifest(b) \/ ListPage(b) \/ ListFails(b) \/ SaveManifest(b)

\* Before the run: no manifest or an unreadable one, one of another format, or
\* one that was built from this source or from a smaller one.
InitialManifests ==
    {[kind |-> "none", index |-> NoIndex],
     [kind |-> "index", index |-> [NoIndex EXCEPT !.format = "other"]]}
    \cup {[kind |-> "index", index |-> Index(keys)] :
            keys \in {old \in SUBSET source : Rows(old) # {}}}

OutOfDate(m) == m.index.format = layout.format /\ m.index # Index(source)

DatasetInit ==
    /\ layout \in Layouts
    /\ source \in SUBSET Keys
    /\ manifest \in InitialManifests
    /\ built = [b \in Builders |-> "off"]
    /\ seen = [b \in Builders |-> {}]
    /\ cursor = [b \in Builders |-> 0]
    /\ index = [b \in Builders |-> NoIndex]
    /\ drift = OutOfDate(manifest)

DatasetNext ==
    \/ \E b \in Builders : BeginBuild(b) \/ BuildStep(b)
    \/ \E k \in Keys : Upload(k)

DatasetSpec == DatasetInit /\ [][DatasetNext]_datasetVars

-----------------------------------------------------------------------------
(* Properties *)

\* What a training loop needs of an index: sample ids are unique, rows have the
\* same label exactly when they are of the same class, and labels are below the
\* number of classes a model is built for; without a description file every
\* label occurs.
WellFormed(ix) ==
    LET rows == DOMAIN ix.samples
        label(k) == ix.samples[k].label
    IN  /\ \A k, l \in rows : ix.samples[k].id = ix.samples[l].id => k = l
        /\ \A k \in rows : label(k) \in 0..(ix.classes - 1)
        /\ ix.format # "synthetic" =>
            \A k, l \in rows : (label(k) = label(l)) <=> (ClassOf[k] = ClassOf[l])
        /\ ix.format # "synthetic" /\ layout.described = {} =>
            \A c \in 0..(ix.classes - 1) : \E k \in rows : label(k) = c

\* Every index a process ends up with is well formed, whether it read the
\* manifest or listed a source that grew under its hands.
IndexWellFormed == \A b \in Builders : built[b] \in {"save", "done"} => WellFormed(index[b])

\* While the source does not change and the manifest was not out of date, all
\* processes have the same index, in whatever order they load, list and save,
\* and whichever of these fail.
BuildersAgree ==
    ~drift => \A b \in Builders : built[b] \in {"save", "done"} => index[b] = Index(source)
=============================================================================
