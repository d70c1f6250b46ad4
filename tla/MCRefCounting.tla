---------------------------- MODULE MCRefCounting ----------------------------
(* Instances of RefCounting: one bucket, where three pointers collide and  *)
(* the collision table runs out.                                       *)
EXTENDS RefCounting, TLC
CONSTANTS p1, p2, p3

OneBucketPtr == {p1, p2, p3}
OneBucketHash == [p \in OneBucketPtr |-> 0]
OneBucketSymmetry == Permutations(OneBucketPtr)
=============================================================================
