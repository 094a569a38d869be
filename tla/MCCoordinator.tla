--------------------------- MODULE MCCoordinator ---------------------------
(***************************************************************************)
(* Coordinator with model values for the jobs, the workers and the         *)
(* maintainer.  The workers are interchangeable; the jobs are only when    *)
(* every job may do what any other may (Closers is all of them or none).   *)
(***************************************************************************)
EXTENDS Coordinator, TLC

CONSTANTS j1, j2, w1, w2

WorkerSymmetry == Permutations({w1, w2})
TwoJobSymmetry == Permutations({j1, j2}) \cup Permutations({w1, w2})
=============================================================================
