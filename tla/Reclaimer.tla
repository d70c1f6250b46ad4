------------------------------ MODULE Reclaimer ------------------------------
(***************************************************************************)
(* The storage reclaimer of the emulator: doreclaim and dogc01 (gcr.c),    *)
(* gcscanstack, gcmapscan and gcmapunscan (gcmain3.c) and gcreccell with   *)
(* its two worklists (gcrcell.c), over the table of GCHashTable and a heap *)
(* of list cells, records and pointer arrays that the opcodes CONS,        *)
(* CREATECELL and the pointer stores change.                               *)
(*                                                                         *)
(* gcreccell is a loop with gotos; its labels are the values of pc:        *)
(*   "rec"      a field of the cell being reclaimed is dropped (lp, normal)*)
(*   "release"  its fields are done: freelistcell, addtofreelist           *)
(*   "doval"    a count became zero on the way (doval), or pick what was   *)
(*              set aside (trynext)                                        *)
(* A field whose reference was dropped is shown as NIL: the cell still     *)
(* holds the bits, but they stand for no reference any more.               *)
(***************************************************************************)
EXTENDS GCHashTable

CONSTANTS
  Root,        \* objects of TT_NOREF types that hold pointers
  Kind,        \* Kind[o]: "LISTP", "RECORD" or "PTRBLOCK"
  Arity,       \* Arity[o]: how many pointer fields o has
  MaxArity,    \* the largest of them
  FarField,    \* field numbers whose offset does not fit in a cdr code (>= 15)
  TODO_LIMIT,  \* size of to_do
  MaxStack,    \* bound: objects the program holds on the stack
  MaxEdges,    \* bound: pointers stored in the heap
  MaxObjects   \* bound: objects in use at a time

Obj == Ptr \cup Root
Field == 1 .. MaxArity
Place == Obj \X Field

ASSUME ReclaimerAssumption ==
  /\ IsFiniteSet(Root) /\ Root \cap Ptr = {} /\ {NIL, ATOM_T} \cap Root = {}
  /\ Kind \in [Obj -> {"LISTP", "RECORD", "PTRBLOCK"}]
  /\ Arity \in [Obj -> Field] /\ MaxArity \in Nat \ {0}
  /\ \A o \in Obj : Kind[o] = "LISTP" => Arity[o] = 2   \* car and cdr
  /\ FarField \subseteq Field /\ TODO_LIMIT \in Nat
  /\ {MaxStack, MaxEdges, MaxObjects} \subseteq Nat

VARIABLES
  ht,      \* the reference-count table
  fld,     \* [Place -> Obj \cup {NIL}]
  stack,   \* objects held by the program
  free,    \* objects on a free list
  pc,      \* "run", "stk", "scan", "rec", "release", "doval", "unscan"
  probe,   \* HTmain index of the sweep
  marked,  \* stack pointers gcscanstack has passed
  cell,    \* tmpptr of gcreccell
  ix,      \* the field it is at
  val,     \* pointer whose count just became zero
  donext,  \* cells set aside, threaded through their car fields
  to_do,   \* cells set aside in the to_do table
  lost,    \* cells dropped because to_do was full (todo_misses)
  spilled  \* pointers whose count an array dropped to zero in this reclamation

gcvars == <<probe, marked, cell, ix, val, donext, to_do, lost, spilled>>
vars == <<ht, fld, stack, free, pc, gcvars>>

Held == stack \cup Root
Edges(f) == Cardinality({r \in Place : f[r] # NIL})
Top == HTMAIN_ENTRY_COUNT - 1
Room == Cardinality(stack) < MaxStack /\ Cardinality(Ptr \ free) < MaxObjects

Init ==
  /\ ht = InitTable
  /\ fld = [r \in Place |-> NIL]
  /\ stack = {} /\ free = Ptr
  /\ pc = "run" /\ probe = -1 /\ marked = {}
  /\ cell = NIL /\ ix = 0 /\ val = NIL
  /\ donext = <<>> /\ to_do = <<>> /\ lost = {} /\ spilled = {}

-----------------------------------------------------------------------------
(* The program.                                                            *)

\* N_OP_cons: ADDREF the cdr, then the car, fill a cell, DELREF the cell.
Cons(o, a, d) ==
  LET t1 == GCLOOKUPV(ht, d, "ADDREF").t
      t2 == GCLOOKUPV(t1, a, "ADDREF").t
  IN
  /\ pc = "run" /\ o \in free /\ Kind[o] = "LISTP"
  /\ Room
  /\ ht' = GCLOOKUPV(t2, o, "DELREF").t
  /\ fld' = [fld EXCEPT ![<<o, 1>>] = a, ![<<o, 2>>] = d]
  /\ Edges(fld') <= MaxEdges
  /\ free' = free \ {o} /\ stack' = stack \cup {o}
  /\ UNCHANGED <<pc, gcvars>>

\* Variant of CreateCell: the new cell gets no entry, which reads as a count of one.
CreateCellUncounted(o) ==
  /\ pc = "run" /\ o \in free /\ Kind[o] # "LISTP"
  /\ Room
  /\ free' = free \ {o} /\ stack' = stack \cup {o}
  /\ UNCHANGED <<ht, fld, pc, gcvars>>

\* N_OP_createcell: take a cell off dtd_free, clear it, DELREF it.  Arrays are
\* allocated by Lisp code with the same effect.
CreateCell(o) ==
  /\ pc = "run" /\ o \in free /\ Kind[o] # "LISTP"
  /\ Room
  /\ ht' = GCLOOKUPV(ht, o, "DELREF").t
  /\ free' = free \ {o} /\ stack' = stack \cup {o}
  /\ UNCHANGED <<fld, pc, gcvars>>

\* FRPLPTR, the body of GVAR_, RPLPTR.N and the field replacements.
FRPLPTR(r, new) ==
  LET added == GCLOOKUPV(ht, new, "ADDREF").t IN
  /\ pc = "run" /\ r[1] \in Held /\ r[2] <= Arity[r[1]]
  /\ ht' = GCLOOKUPV(added, fld[r], "DELREF").t
  /\ fld' = [fld EXCEPT ![r] = new] /\ Edges(fld') <= MaxEdges
  /\ UNCHANGED <<stack, free, pc, gcvars>>

Load(r) ==
  /\ pc = "run" /\ r[1] \in Held /\ fld[r] # NIL
  /\ Cardinality(stack) < MaxStack
  /\ stack' = stack \cup {fld[r]}
  /\ UNCHANGED <<ht, fld, free, pc, gcvars>>

Drop(o) ==
  /\ pc = "run" /\ o \in stack
  /\ stack' = stack \ {o}
  /\ UNCHANGED <<ht, fld, free, pc, gcvars>>

-----------------------------------------------------------------------------
(* doreclaim and dogc01.                                                   *)

BeginReclaim ==
  /\ pc = "run" /\ ~ht.disabled
  /\ ht' = [ht EXCEPT !.cnt = CntNIL]
  /\ pc' = "stk"
  /\ UNCHANGED <<fld, stack, free, gcvars>>

\* gcscanstack passes one pointer of some frame.
gcscanstack(o) ==
  /\ pc = "stk" /\ o \in stack \ marked
  /\ ht' = REC_GCLOOKUPV(ht, o, "STKREF").t
  /\ marked' = marked \cup {o}
  /\ UNCHANGED <<fld, stack, free, pc, probe, cell, ix, val, donext, to_do, lost, spilled>>

BeginScan ==
  /\ pc = "stk" /\ stack \subseteq marked
  /\ pc' = "scan" /\ probe' = Top
  /\ UNCHANGED <<ht, fld, stack, free, marked, cell, ix, val, donext, to_do, lost, spilled>>

\* Variant of gcmapscan: a bucket it took something from is not looked at again.
gcmapscanOnce ==
  LET v == gcmapscanAt(ht, probe) IN
  /\ pc = "scan" /\ probe >= 0
  /\ ht' = v.t /\ probe' = probe - 1
  /\ IF v.ptr = NIL THEN UNCHANGED <<pc, cell, ix>>
     ELSE pc' = "rec" /\ cell' = v.ptr /\ ix' = 1
  /\ UNCHANGED <<fld, stack, free, marked, val, donext, to_do, lost, spilled>>

\* gcmapscan visits bucket probe; GcreclaimLp calls gcreccell on what it took.
gcmapscan ==
  LET v == gcmapscanAt(ht, probe) IN
  /\ pc = "scan" /\ probe >= 0
  /\ ht' = v.t
  /\ probe' = IF v.retry THEN probe ELSE probe - 1
  /\ IF v.ptr = NIL THEN UNCHANGED <<pc, cell, ix>>
     ELSE pc' = "rec" /\ cell' = v.ptr /\ ix' = 1
  /\ UNCHANGED <<fld, stack, free, marked, val, donext, to_do, lost, spilled>>

-----------------------------------------------------------------------------
(* gcreccell.                                                              *)

\* Variant of SetAside: a full to_do table overwrites its last slot.
SetAsideOverwrites ==
  IF Kind[cell] = "LISTP" \/ ix + 1 \notin FarField
  THEN donext' = <<[obj |-> cell, at |-> ix + 1]>> \o donext /\ UNCHANGED <<to_do, lost>>
  ELSE /\ to_do' = IF Len(to_do) < TODO_LIMIT THEN Append(to_do, [obj |-> cell, at |-> ix + 1])
                   ELSE [to_do EXCEPT ![Len(to_do)] = [obj |-> cell, at |-> ix + 1]]
       /\ UNCHANGED <<donext, lost>>

\* The cell has fields left when a count becomes zero: it goes to donext (its
\* place in cdr_code) or, when the next field is out of a cdr code's reach, to
\* to_do, which drops it if full.
SetAside ==
  LET me == [obj |-> cell, at |-> ix + 1] IN
  IF Kind[cell] = "LISTP" \/ ix + 1 \notin FarField
  THEN donext' = <<me>> \o donext /\ UNCHANGED <<to_do, lost>>
  ELSE IF Len(to_do) < TODO_LIMIT THEN to_do' = Append(to_do, me) /\ UNCHANGED <<donext, lost>>
  ELSE lost' = lost \cup {cell} /\ UNCHANGED <<donext, to_do>>

\* One field of a list cell or record: its reference is dropped, and a count
\* that became zero is dealt with at once.
RecField ==
  LET r == REC_GCLOOKUPV(ht, fld[<<cell, ix>>], "DELREF") IN
  /\ pc = "rec" /\ Kind[cell] # "PTRBLOCK"
  /\ ht' = r.t /\ val' = r.val
  /\ fld' = [fld EXCEPT ![<<cell, ix>>] = NIL]
  /\ \/ /\ ix = Arity[cell] /\ pc' = "release"
        /\ UNCHANGED <<ix, donext, to_do, lost>>
     \/ /\ ix < Arity[cell] /\ r.val = NIL
        /\ ix' = ix + 1 /\ UNCHANGED <<pc, donext, to_do, lost>>
     \/ /\ ix < Arity[cell] /\ r.val # NIL
        /\ SetAside /\ pc' = "doval" /\ UNCHANGED ix
  /\ UNCHANGED <<stack, free, probe, marked, cell, spilled>>

\* reclaimarrayblock: every element is dropped, and nobody looks at what the
\* lookup returns; a count that became zero stays in the table.
RecArray ==
  LET r == REC_GCLOOKUPV(ht, fld[<<cell, ix>>], "DELREF") IN
  /\ pc = "rec" /\ Kind[cell] = "PTRBLOCK"
  /\ ht' = r.t
  /\ fld' = [fld EXCEPT ![<<cell, ix>>] = NIL]
  /\ spilled' = spilled \cup ({r.val} \ {NIL})
  /\ IF ix < Arity[cell] THEN ix' = ix + 1 /\ UNCHANGED pc ELSE pc' = "release" /\ UNCHANGED ix
  /\ UNCHANGED <<stack, free, probe, marked, cell, val, donext, to_do, lost>>

\* freelistcell, addtofreelist, or the array block goes back to array space.
Release ==
  /\ pc = "release"
  /\ free' = free \cup {cell}
  /\ pc' = "doval"
  /\ UNCHANGED <<ht, fld, stack, gcvars>>

\* doval: ADDREF removes the zero entry, and that object is reclaimed next.
Doval ==
  /\ pc = "doval" /\ val # NIL
  /\ ht' = REC_GCLOOKUPV(ht, val, "ADDREF").t
  /\ cell' = val /\ ix' = 1 /\ val' = NIL /\ pc' = "rec"
  /\ UNCHANGED <<fld, stack, free, probe, marked, donext, to_do, lost, spilled>>

\* Variant of Unthreaded: the cell stays at the head of the thread.
StillThreaded == donext

\* donext moves on to what the car field of its first cell holds.
Unthreaded == Tail(donext)

\* trynext: donext first, then to_do from its end, then back to gcmapscan.
TryNext ==
  /\ pc = "doval" /\ val = NIL
  /\ \/ /\ donext # <<>>
        /\ cell' = Head(donext).obj /\ ix' = Head(donext).at /\ donext' = Unthreaded
        /\ pc' = "rec" /\ UNCHANGED to_do
     \/ /\ donext = <<>> /\ to_do # <<>>
        /\ cell' = to_do[Len(to_do)].obj /\ ix' = to_do[Len(to_do)].at
        /\ to_do' = SubSeq(to_do, 1, Len(to_do) - 1)
        /\ pc' = "rec" /\ UNCHANGED donext
     \/ /\ donext = <<>> /\ to_do = <<>>
        /\ cell' = NIL /\ ix' = 0 /\ pc' = "scan" /\ UNCHANGED <<donext, to_do>>
  /\ UNCHANGED <<ht, fld, stack, free, probe, marked, val, lost, spilled>>

-----------------------------------------------------------------------------
BeginUnscan ==
  /\ pc = "scan" /\ probe = -1
  /\ pc' = "unscan" /\ probe' = Top
  /\ UNCHANGED <<ht, fld, stack, free, marked, cell, ix, val, donext, to_do, lost, spilled>>

\* Variant of gcmapunscan: an entry that was cleared is looked at for ever.
gcmapunscanStuck ==
  LET v == gcmapunscanAt(ht, probe) IN
  /\ pc = "unscan" /\ probe >= 0
  /\ ht' = v.t
  /\ probe' = IF ht.main[probe].tag # "empty" THEN probe ELSE probe - 1
  /\ UNCHANGED <<fld, stack, free, pc, marked, cell, ix, val, donext, to_do, lost, spilled>>

gcmapunscan ==
  LET v == gcmapunscanAt(ht, probe) IN
  /\ pc = "unscan" /\ probe >= 0
  /\ ht' = v.t
  /\ probe' = IF v.retry THEN probe ELSE probe - 1
  /\ UNCHANGED <<fld, stack, free, pc, marked, cell, ix, val, donext, to_do, lost, spilled>>

EndReclaim ==
  /\ pc = "unscan" /\ probe = -1
  /\ ht' = [ht EXCEPT !.cnt = ht.min]
  /\ pc' = "run" /\ marked' = {} /\ spilled' = {}
  /\ UNCHANGED <<fld, stack, free, probe, cell, ix, val, donext, to_do, lost>>

Mutator ==
  \/ \E o \in Ptr, a, d \in Held \cup {NIL} : Cons(o, a, d)
  \/ \E o \in Ptr : CreateCell(o)
  \/ \E r \in Place, v \in Held \cup {NIL} : FRPLPTR(r, v)
  \/ \E r \in Place : Load(r)
  \/ \E o \in Obj : Drop(o)

Collector ==
  \/ \E o \in Obj : gcscanstack(o)
  \/ BeginScan \/ gcmapscan \/ RecField \/ RecArray \/ Release \/ Doval \/ TryNext
  \/ BeginUnscan \/ gcmapunscan \/ EndReclaim

Next == Mutator \/ BeginReclaim \/ Collector

Spec == Init /\ [][Next]_vars

\* A reclamation runs in one call of doreclaim, so its steps are never
\* suspended; and one is always asked for again (the countdown, RECLAIM).
FairSpec == Spec /\ WF_vars(Collector) /\ WF_vars(BeginReclaim)

-----------------------------------------------------------------------------
TypeOK ==
  /\ fld \in [Place -> Obj \cup {NIL}]
  /\ stack \in SUBSET Obj /\ free \in SUBSET Ptr /\ lost \in SUBSET Ptr
  /\ pc \in {"run", "stk", "scan", "rec", "release", "doval", "unscan"}
  /\ probe \in -1 .. Top /\ cell \in Ptr \cup {NIL} /\ val \in Ptr \cup {NIL}
  /\ Len(to_do) <= TODO_LIMIT

\* Objects taken out of the table and not freed yet.
Dying ==
  {donext[i].obj : i \in DOMAIN donext} \cup {to_do[i].obj : i \in DOMAIN to_do} \cup lost
    \cup (IF pc \in {"rec", "release"} THEN {cell} ELSE {})

Abs == INSTANCE RefCountGC WITH
  Null  <- NIL,
  cnt   <- [p \in Obj |-> IF p \in Ptr THEN RefCnt(ht, p) ELSE 1],
  mark  <- marked,
  dying <- Dying,
  stage <- CASE pc = "run" -> "run" [] pc = "stk" -> "mark" [] OTHER -> "sweep"

\* As long as the collision table does not overflow, the hash table, the
\* worklists and the sweeps implement the abstract reclaimer: every step of
\* the code is one of its steps, so nothing in use is ever freed.
ImplementsRefCountGC == Abs!GCSpec

\* gcmapscan misses nothing: when it is through, the only reclaimable entries
\* in the table are those an array left behind, although gcreccell creates
\* zero counts in buckets the sweep has already passed.
SweepComplete ==
  pc = "unscan" /\ ~ht.disabled =>
    {p \in Ptr \ free : RefCnt(ht, p) = 0 /\ p \notin marked} \subseteq spilled

\* Cells set aside are taken up again exactly once: none waits in two places,
\* and none is freed while it waits.
SetAsideOnce ==
  LET waiting == donext \o to_do IN
  /\ TypeOK
  /\ \A i, j \in DOMAIN waiting : i # j => waiting[i].obj # waiting[j].obj
  /\ \A i \in DOMAIN waiting : 
       waiting[i].obj \notin free /\ (pc \in {"rec", "release"} => waiting[i].obj # cell)

\* Every reclamation ends and gives control back to the program.
ReclaimEnds == pc # "run" ~> pc = "run"

\* Garbage that is not part of a cycle is freed in the end, by this or by the
\* next reclamation, unless its cell was dropped by a full to_do table.
Garbage(p) == p \notin free /\ p \notin stack /\ \A r \in Place : fld[r] # p
GarbageIsFreed == \A p \in Ptr : Garbage(p) ~> (p \in free \/ p \in lost)
=============================================================================
