----------------------------- MODULE RefCountGC -----------------------------
(***************************************************************************)
(* What the storage reclaimer promises, without its data structures: every *)
(* heap object carries the number of stored references to it; references   *)
(* from the stack are not counted but found by a scan; an object is freed  *)
(* when nothing refers to it from either side.  Reclaimer implements this  *)
(* specification with the hash table of GCHashTable and the worklists of   *)
(* gcreccell; the theorems in RefCounting_proofs are about every heap.     *)
(***************************************************************************)
EXTENDS Integers, FiniteSets

CONSTANTS
  Obj,    \* objects, the uncounted roots included
  Root,   \* objects of TT_NOREF types (symbol value cells): not counted, never freed
  Field,  \* names of the pointer fields of an object
  Null     \* no object

ASSUME HeapAssumption ==
  /\ IsFiniteSet(Obj) /\ IsFiniteSet(Field)
  /\ Root \subseteq Obj /\ Null \notin Obj

VARIABLES
  fld,    \* [Obj \X Field -> Obj \cup {Null}] the pointers stored in the heap
  stack,  \* objects the running program holds pointers to
  cnt,    \* [Obj -> Nat] reference counts
  mark,   \* objects the stack scan saw in this reclamation
  free,   \* objects on the free lists
  dying,  \* objects taken out of the table, fields not all dropped yet
  stage   \* "run", "mark" (gcscanstack), "sweep" (gcmapscan, gcmapunscan)

gcVars == <<fld, stack, cnt, mark, free, dying, stage>>

Heap == Obj \ Root
Place == Obj \X Field
Refs(f, p) == {r \in Place : f[r] = p}
Held == stack \cup Root

GCTypeOK ==
  /\ fld \in [Place -> Obj \cup {Null}]
  /\ stack \in SUBSET Obj
  /\ cnt \in [Obj -> Nat]
  /\ mark \in SUBSET Obj
  /\ free \in SUBSET Heap /\ dying \in SUBSET Heap
  /\ stage \in {"run", "mark", "sweep"}

\* At the start every heap object is on a free list, where it has no entry in
\* the table: that is how a count of one is written.
GCInit ==
  /\ fld = [r \in Place |-> Null]
  /\ stack = {} /\ mark = {} /\ dying = {}
  /\ cnt = [p \in Obj |-> 1]
  /\ free = Heap
  /\ stage = "run"

-----------------------------------------------------------------------------
(* The program.                                                            *)

\* CONS, CREATECELL: the new object's fields are filled and counted, its own
\* count is zero, and the only pointer to it is on the stack.
Alloc(o, init) ==
  /\ stage = "run" /\ o \in free
  /\ free' = free \ {o} /\ stack' = stack \cup {o}
  /\ fld' = [r \in Place |-> IF r[1] = o THEN init[r[2]] ELSE fld[r]]
  /\ cnt' = [p \in Obj |-> IF p = o THEN 0
                           ELSE IF p \in Heap
                           THEN cnt[p] + Cardinality({r \in {o} \X Field : init[r[2]] = p})
                           ELSE cnt[p]]
  /\ UNCHANGED <<mark, dying, stage>>

\* Variant of Store: the old value keeps its count.
StoreKeepsOld(r, v) ==
  /\ stage = "run" /\ r[1] \in Held
  /\ fld' = [fld EXCEPT ![r] = v]
  /\ cnt' = [p \in Obj |-> IF p \in Heap /\ p = v THEN cnt[p] + 1 ELSE cnt[p]]
  /\ UNCHANGED <<stack, mark, free, dying, stage>>

\* FRPLPTR: ADDREF the new value, DELREF the old one, store.
Store(r, v) ==
  /\ stage = "run" /\ r[1] \in Held
  /\ fld' = [fld EXCEPT ![r] = v]
  /\ cnt' = [p \in Obj |->
               IF p \in Heap /\ v # fld[r]
               THEN cnt[p] + (IF p = v THEN 1 ELSE 0) - (IF p = fld[r] THEN 1 ELSE 0)
               ELSE cnt[p]]
  /\ UNCHANGED <<stack, mark, free, dying, stage>>

\* Fetching a field or a variable pushes the pointer without counting it.
Load(r) ==
  /\ stage = "run" /\ r[1] \in Held /\ fld[r] # Null
  /\ stack' = stack \cup {fld[r]}
  /\ UNCHANGED <<fld, cnt, mark, free, dying, stage>>

Drop(o) ==
  /\ stage = "run" /\ o \in stack
  /\ stack' = stack \ {o}
  /\ UNCHANGED <<fld, cnt, mark, free, dying, stage>>

-----------------------------------------------------------------------------
(* The reclaimer: dogc01.                                                  *)

GCBegin ==
  /\ stage = "run" /\ stage' = "mark"
  /\ UNCHANGED <<fld, stack, cnt, mark, free, dying>>

Stkref(o) ==
  /\ stage = "mark" /\ o \in stack
  /\ mark' = mark \cup {o}
  /\ UNCHANGED <<fld, stack, cnt, free, dying, stage>>

\* Variant of BeginSweep: the sweep may start before the scan saw every pointer.
BeginSweepEarly ==
  /\ stage = "mark" /\ stage' = "sweep"
  /\ UNCHANGED <<fld, stack, cnt, mark, free, dying>>

BeginSweep ==
  /\ stage = "mark" /\ stack \subseteq mark \cup Root
  /\ stage' = "sweep"
  /\ UNCHANGED <<fld, stack, cnt, mark, free, dying>>

Take(o) ==
  /\ stage = "sweep" /\ o \in Heap \ (free \cup dying)
  /\ cnt[o] = 0 /\ o \notin mark
  /\ dying' = dying \cup {o}
  /\ cnt' = [cnt EXCEPT ![o] = 1]
  /\ UNCHANGED <<fld, stack, mark, free, stage>>

DropRef(r) ==
  /\ stage = "sweep" /\ r[1] \in dying /\ fld[r] # Null
  /\ fld' = [fld EXCEPT ![r] = Null]
  /\ cnt' = [p \in Obj |-> IF p = fld[r] /\ p \in Heap THEN cnt[p] - 1 ELSE cnt[p]]
  /\ UNCHANGED <<stack, mark, free, dying, stage>>

Release(o) ==
  /\ stage = "sweep" /\ o \in dying
  /\ \A x \in Field : fld[<<o, x>>] = Null
  /\ dying' = dying \ {o} /\ free' = free \cup {o}
  /\ UNCHANGED <<fld, stack, cnt, mark, stage>>

\* Nothing obliges the sweep to be complete: what it leaves at count zero is
\* found again by the next reclamation.
GCEnd ==
  /\ stage = "sweep"
  /\ stage' = "run" /\ mark' = {}
  /\ UNCHANGED <<fld, stack, cnt, free, dying>>

GCNext ==
  \/ \E o \in Heap, init \in [Field -> Held \cup {Null}] : Alloc(o, init)
  \/ \E r \in Place, v \in Held \cup {Null} : Store(r, v)
  \/ \E r \in Place : Load(r) \/ DropRef(r)
  \/ \E o \in Obj : Drop(o) \/ Stkref(o)
  \/ \E o \in Heap : Take(o) \/ Release(o)
  \/ GCBegin \/ BeginSweep \/ GCEnd

GCSpec == GCInit /\ [][GCNext]_gcVars

-----------------------------------------------------------------------------
\* The count of every object in use is the number of places that hold it.
CountIsRefs ==
  \A p \in Heap \ (free \cup dying) : cnt[p] = Cardinality(Refs(fld, p))

\* No pointer to an object that is free or being taken apart is stored in any
\* object or held by the program: the reclaimer never frees what can be used.
NoDangling ==
  \A p \in free \cup dying : Refs(fld, p) = {} /\ p \notin stack

\* A free object keeps no references, so reusing its cell loses no count.
FreeIsBlank == \A o \in free, x \in Field : fld[<<o, x>>] = Null

\* While objects are being taken, every stack pointer has been seen.
StackSeen == stage = "sweep" => stack \subseteq mark \cup Root

Inv == GCTypeOK /\ free \cap dying = {} /\ CountIsRefs /\ NoDangling /\ FreeIsBlank /\ StackSeen

\* An object leaves use only when it has no stored reference and no stack
\* reference in that very state.
FreedOnlyIfUnused ==
  [][ \A o \in Heap : o \notin free \cup dying /\ o \in free' \cup dying' =>
        Refs(fld, o) = {} /\ o \notin stack ]_gcVars
=============================================================================
