-------------------------- MODULE MCReusableCache --------------------------
(***************************************************************************)
(* ReusableCache with a payload of one unit and one of two; the workers    *)
(* are interchangeable.                                                    *)
(***************************************************************************)
EXTENDS ReusableCache, TLC

CONSTANTS b1, b2, w1, w2

UnitSizes == [b \in Batches |-> 1]
MixedSizes == [b \in Batches |-> IF b = b1 THEN 1 ELSE 2]

CacheSymmetry == Permutations({w1, w2})
=============================================================================
