-------------------------- MODULE MCVirtualMemory --------------------------
EXTENDS VirtualMemory
\* file pages: a page, the interface page, two pages of the table, a hole, pages
MCInitialFile == <<15, 2, 3, 4, -1, 16>>
MCLastPage == [small |-> 31, large |-> 41]
\* What the last save returned decides nothing, nor does what is in a temporary
\* file that no save is writing and the loader refuses.
StateView ==
  <<w, owed, up, swapped, save, saved, faults, disk.img,
    IF save.at = "idle" /\ ~Accepts(disk.tmp) THEN NoFile ELSE disk.tmp>>
=============================================================================
