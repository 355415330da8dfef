--------------------------- MODULE MCTokenBucket ----------------------------
(***************************************************************************)
(* Instances of TokenBucket for TLC.                                       *)
(***************************************************************************)
EXTENDS TokenBucket, TLC

CONSTANTS i1, b1, b2

\* Bucket b1 is in the memory of i1, the other one on Upstash.
OneLocal == [b \in Buckets |-> IF b = b1 THEN i1 ELSE None]

OneConfigured == [b \in {b1} |-> 15]
NoneConfigured == [b \in {} |-> 0]

Symmetry == Permutations(Callers)
=============================================================================
