---------------------------- MODULE MCRefCountGC ----------------------------
(* An instance of RefCountGC: a root and two heap objects of two fields. *)
EXTENDS RefCountGC, TLC
CONSTANTS o1, o2, root, car, cdr
MCObj == {o1, o2, root}
MCSymmetry == Permutations({o1, o2})
=============================================================================
