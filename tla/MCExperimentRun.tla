-------------------------- MODULE MCExperimentRun ---------------------------
(***************************************************************************)
(* ExperimentRun with two jobs on a source of at most three rows, the      *)
(* last of a class that comes before that of the others.  Of all pairs of  *)
(* a plan and a dataset, Cases takes those where they interact.            *)
(***************************************************************************)
EXTENDS ExperimentRun

TwoClasses == [k \in Keys |-> IF k = 4 THEN 1 ELSE 2]

Data(format) == [format |-> format, described |-> {}]
Described == [format |-> "openimages_boxable", described |-> {2, 3}]

SomeLayouts ==
    {Data(f) : f \in Formats \cup {"synthetic", "unheard of"}} \cup {Described}

\* Job names a and b have file names of their own, b and c share one.
Names == [a |-> "a", b |-> "b_", c |-> "b_"]

Plan(system, counted, devices, second) ==
    [system |-> system, warmup |-> 1, batches |-> <<1, 0>>, counted |-> counted,
     classes |-> 2, devices |-> devices, name |-> <<"b", second>>,
     dropLast |-> counted, priced |-> devices = 0]

Served == Plan("batchflow", FALSE, 2, "a")
OneServed == Plan("batchflow", FALSE, 1, "a")
Loaded == Plan("pytorch", FALSE, 0, "a")
OneDevice == Plan("pytorch", TRUE, 1, "a")
OneFile == Plan("batchflow", TRUE, 0, "c")
OneName == Plan("pytorch", FALSE, 0, "b")
Nothing == [Plan("pytorch", FALSE, 0, "a") EXCEPT !.warmup = 0]
Refused == [Plan("batchflow", TRUE, 0, "a") EXCEPT !.warmup = 0]

SomePlans == {Served, OneServed, Loaded, OneDevice, OneFile, OneName, Nothing, Refused}

\* A bucket that another process may still be filling, with no, an old or a
\* current manifest; annotation files; no S3.
Cases ==
    \/ layout = Data("image_folder") /\ plan = Loaded /\ source \in {{1, 2, 3}, Keys}
    \/ layout = Data("image_folder") /\ plan = Nothing /\ source = {1, 2, 3}
    \/ layout = Data("image_folder") /\ plan = Refused /\ source = {2}
    \/ /\ layout = Data("image_folder") /\ plan = Served /\ source = Keys
       /\ DOMAIN manifest.index.samples \in {{}, Keys \cap Usable}
    \/ /\ layout = Data("image_folder") /\ plan = OneServed /\ source = Keys
       /\ DOMAIN manifest.index.samples = {1, 3}
    \/ /\ layout = Data("image_folder") /\ plan = OneServed /\ source = {1, 2, 3}
       /\ manifest.kind = "none"
    \/ layout = Described /\ plan = Loaded /\ source = Keys
    \/ layout = Data("openimages_boxable") /\ plan = OneDevice /\ source = Keys
    \/ /\ layout = Data("coco_retrieval") /\ plan = OneServed /\ source = Keys
       /\ manifest.kind = "none"
    \/ /\ layout \in {Data("synthetic"), Data("unheard of")}
       /\ plan \in {Served, OneFile, Loaded, OneName, Refused}
       /\ source = Keys

CaseInit == Init /\ Cases
CaseSpec == CaseInit /\ [][Next]_vars /\ Fairness
=============================================================================
