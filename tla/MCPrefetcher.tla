---------------------------- MODULE MCPrefetcher ----------------------------
(***************************************************************************)
(* Prefetcher with model values for its threads and marks.                 *)
(***************************************************************************)
EXTENDS Prefetcher

CONSTANTS f1, f2
=============================================================================
