--------------------------- MODULE MCTensorSocket ---------------------------
(***************************************************************************)
(* TensorSocket with two jobs that need different numbers of batches.      *)
(***************************************************************************)
EXTENDS TensorSocket, TLC

CONSTANTS j1, j2

UnequalNeeds == j1 :> 1 @@ j2 :> 4
=============================================================================
