------------------------------- MODULE MCHeap -------------------------------
(* Where the heap takes its storage from: array space of a few blocks (part   *)
(* "arrays", ArrayBlocks) beside list cells (part "cells", ConsPages); the    *)
(* values are in the configuration.  A behaviour belongs to one part; the     *)
(* variables of the other stay as they are at the start.                     *)
EXTENDS ArrayBlocks
CONSTANTS FirstCell, LastCell, Reach, RejoinLimit, NumPages, Kept, MaxLive, Atoms
VARIABLES part, st, live

C == INSTANCE ConsPages
ASSUME CellsAssumption == C!ConsAssumption

HeapInit == part \in {"arrays", "cells"} /\ Init /\ C!Init
HeapNext == \/ part = "arrays" /\ Next /\ UNCHANGED <<part, st, live>>
            \/ part = "cells" /\ C!Next /\ UNCHANGED <<part, vars>>
HeapSpec == HeapInit /\ [][HeapNext]_<<part, st, live, vars>>

\* Every list reads back as the last rplaca and rplacd left it (N_OP_cons,
\* rplaca, rplacd, gcreccell).
ListsIntact == C!ListsIntact

\* No cell is lost or used twice, and every page with room is found again
\* (init_conspage, next_conspage, freelistcell).
SpaceAccounted == C!SpaceAccounted
=============================================================================
