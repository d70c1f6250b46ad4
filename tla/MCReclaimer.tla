----------------------------- MODULE MCReclaimer -----------------------------
(* Small heaps for the reclaimer.  rec and rec2 have their second pointer   *)
(* beyond the reach of a cdr code, so they go through the to_do table.      *)
EXTENDS Reclaimer, TLC
CONSTANTS root, list, rec, rec2, arr

AllKind == (root :> "RECORD") @@ (list :> "LISTP") @@ (arr :> "PTRBLOCK")
             @@ (rec :> "RECORD") @@ (rec2 :> "RECORD")
AllArity == (root :> 1) @@ (arr :> 1) @@ (list :> 2) @@ (rec :> 2) @@ (rec2 :> 2)
AllHash == (list :> 0) @@ (rec :> 0) @@ (rec2 :> 1) @@ (arr :> 1)

MCHash == [p \in Ptr |-> AllHash[p]]
MCKind == [p \in Ptr \cup Root |-> AllKind[p]]
MCArity == [p \in Ptr \cup Root |-> AllArity[p]]
=============================================================================
