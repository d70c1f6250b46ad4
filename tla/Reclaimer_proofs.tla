-------------------------- MODULE Reclaimer_proofs --------------------------
(* Proofs about Reclaimer, for every heap, every shape of its objects, every *)
(* size of to_do and every table: until the collision table runs out of      *)
(* links, each step of doreclaim and of the opcodes is a step of RefCountGC. *)
EXTENDS Reclaimer, GCHashTable_proofs

-----------------------------------------------------------------------------
(* The inductive invariant.                                                *)

Refs(f, p) == {r \in Place : f[r] = p}
NumRefs(f, p) == Cardinality(Refs(f, p))

Phases == {"run", "stk", "scan", "rec", "release", "doval", "unscan"}

\* A cell that was set aside, with the field it goes on with.
Waiter == {w \in [obj : Ptr, at : Field] : w.at <= Arity[w.obj]}

Types ==
  /\ fld \in [Place -> Obj \cup {NIL}] /\ stack \in SUBSET Obj /\ free \in SUBSET Ptr
  /\ pc \in Phases /\ probe \in -1 .. Top /\ marked \in SUBSET Obj
  /\ cell \in Ptr \cup {NIL} /\ val \in Ptr \cup {NIL}
  /\ pc \in {"rec", "release"} => cell \in Ptr /\ ix \in 1 .. Arity[cell]
  /\ donext \in Seq(Waiter) /\ to_do \in Seq(Waiter) /\ Len(to_do) <= TODO_LIMIT
  /\ lost \in SUBSET Ptr

Waiting(s) == {s[i] : i \in DOMAIN s}
Objs(s) == {w.obj : w \in Waiting(s)}
Distinct(s) == \A i, j \in DOMAIN s : i # j => s[i].obj # s[j].obj
InWork == IF pc \in {"rec", "release"} THEN {cell} ELSE {}

\* An object that is being taken apart is in one place: in the hands of
\* gcreccell, once on one of the worklists, or dropped.
OnePlace ==
  /\ Distinct(donext) /\ Distinct(to_do) /\ Objs(donext) \cap Objs(to_do) = {}
  /\ (Objs(donext) \cup Objs(to_do)) \cap lost = {}
  /\ InWork \cap (Objs(donext) \cup Objs(to_do) \cup lost) = {}
  /\ free \cap Dying = {}

\* What gcreccell was told is reclaimable.
ValReported ==
  val # NIL => pc \in {"release", "doval"} /\ ~ht.disabled /\ Collectable(ht, val)

\* No entry: a count of one is what a cell on a free list is handed out with.
NoEntries == \A p \in free \cup Dying : RefCnt(ht, p) = 1

(* The rest holds until the table overflows.                               *)

\* Fields that hold nothing: those an object does not have, those of a free
\* object, and of an object in the works those before the field it is at.
Emptied ==
  /\ \A r \in Place : r[2] > Arity[r[1]] \/ r[1] \in free => fld[r] = NIL
  /\ pc = "rec" => \A x \in Field : x < ix => fld[<<cell, x>>] = NIL
  /\ pc = "release" => \A x \in Field : fld[<<cell, x>>] = NIL
  /\ \A w \in Waiting(donext) \cup Waiting(to_do), x \in Field : x < w.at => fld[<<w.obj, x>>] = NIL

CountsRight == \A p \in Ptr \ (free \cup Dying) : RefCnt(ht, p) = NumRefs(fld, p)
NoDangling == \A p \in free \cup Dying : Refs(fld, p) = {} /\ p \notin stack

\* Marks appear in the stack scan and disappear bucket by bucket.
Marks ==
  /\ pc \notin {"run", "stk"} => stack \subseteq marked
  /\ pc \notin {"run", "unscan"} => \A p \in Ptr : StkBit(ht, p) <=> p \in marked
  /\ pc = "unscan" => \A p \in Ptr : Hash[p] > probe => ~StkBit(ht, p)
  /\ pc = "run" => marked = {} /\ \A p \in Ptr : ~StkBit(ht, p)

\* In the buckets the sweep has passed only arrays left something to reclaim.
Passed ==
  /\ pc \in {"scan", "rec", "release", "doval"} =>
       \A p \in Ptr \ spilled : Collectable(ht, p) /\ p # val => Hash[p] <= probe
  /\ pc = "unscan" => \A p \in Ptr \ spilled : RefCnt(ht, p) = 0 => p \in marked

HeapOK == Emptied /\ CountsRight /\ NoDangling /\ Marks /\ Passed

IInv == TableOK(ht) /\ Types /\ OnePlace /\ ValReported /\ NoEntries /\ (~ht.disabled => HeapOK)

-----------------------------------------------------------------------------
(* Constants.                                                              *)

LEMMA Constants ==
  /\ IsFiniteSet(Obj) /\ IsFiniteSet(Field) /\ IsFiniteSet(Place) /\ Root \cap Ptr = {} /\ Obj \ Root = Ptr
  /\ Ptr \subseteq Obj /\ NIL \notin Obj /\ NIL \notin Ptr
  /\ \A o \in Obj : Arity[o] \in 1 .. MaxArity /\ (Kind[o] = "LISTP" => Arity[o] = 2)
  /\ Field = 1 .. MaxArity /\ MaxArity \in Nat /\ TODO_LIMIT \in Nat
<1>1. IsFiniteSet(Ptr) /\ IsFiniteSet(Root) /\ MaxArity \in Nat /\ Root \cap Ptr = {} /\ NIL \notin Ptr /\ NIL \notin Root
  BY TableAssumption, ReclaimerAssumption
<1>2. IsFiniteSet(Obj)
  BY <1>1, FS_Union DEF Obj
<1>3. IsFiniteSet(Field)
  BY <1>1, FS_Interval DEF Field
<1>4. IsFiniteSet(Place)
  BY <1>2, <1>3, FS_Product DEF Place
<1>5. \A o \in Obj : Arity[o] \in 1 .. MaxArity /\ (Kind[o] = "LISTP" => Arity[o] = 2)
  BY ReclaimerAssumption DEF Field
<1>6. QED
  BY <1>1, <1>2, <1>3, <1>4, <1>5, ReclaimerAssumption DEF Obj, Field

-----------------------------------------------------------------------------
(* References.                                                             *)

LEMMA RefsFinite ==
  ASSUME NEW f, NEW p
  PROVE  IsFiniteSet(Refs(f, p)) /\ NumRefs(f, p) \in Nat /\ (NumRefs(f, p) = 0 <=> Refs(f, p) = {})
<1>1. Refs(f, p) \subseteq Place
  BY DEF Refs
<1>2. IsFiniteSet(Refs(f, p))
  BY <1>1, Constants, FS_Subset
<1>3. QED
  BY <1>2, FS_CardinalityType, FS_EmptySet DEF NumRefs

\* One for the same, none for others.
One(p, q) == IF p = q THEN 1 ELSE 0

Heaps == [Place -> Obj \cup {NIL}]
Put(f, r, v) == [f EXCEPT ![r] = v]

LEMMA PutTyped ==
  ASSUME NEW f \in Heaps, NEW r \in Place, NEW v \in Obj \cup {NIL}
  PROVE  Put(f, r, v) \in Heaps /\ Put(f, r, v)[r] = v /\ \A s \in Place : s # r => Put(f, r, v)[s] = f[s]
BY DEF Heaps, Put

\* Storing v over another value moves one place from the references of the
\* old value to those of the new one.
LEMMA PutCounts ==
  ASSUME NEW f \in Heaps, NEW r \in Place, NEW v \in Obj \cup {NIL}, NEW g, g = Put(f, r, v), NEW p \in Obj
  PROVE  NumRefs(g, p) = NumRefs(f, p) + One(p, v) - One(p, f[r]) /\ (p = f[r] => NumRefs(f, p) > 0)
         /\ One(p, v) \in {0, 1} /\ One(p, f[r]) \in {0, 1}
<1>1. NumRefs(f, p) \in Nat /\ IsFiniteSet(Refs(f, p)) /\ (NumRefs(f, p) = 0 <=> Refs(f, p) = {})
  BY RefsFinite
<1>2. g[r] = v /\ \A s \in Place : s # r => g[s] = f[s]
  BY PutTyped
<1>3. p = f[r] => NumRefs(f, p) > 0
  BY <1>1 DEF Refs
<1>4. CASE p = v /\ p # f[r]
  <2>1. Refs(g, p) = Refs(f, p) \cup {r} /\ r \notin Refs(f, p)
    BY <1>2, <1>4 DEF Refs
  <2>2. Cardinality(Refs(g, p)) = Cardinality(Refs(f, p)) + 1
    BY <1>1, <2>1, FS_AddElement
  <2>3. QED
    BY <1>1, <1>4, <2>2 DEF NumRefs, One
<1>5. CASE p # v /\ p = f[r]
  <2>1. Refs(g, p) = Refs(f, p) \ {r} /\ r \in Refs(f, p)
    BY <1>2, <1>5 DEF Refs
  <2>2. Cardinality(Refs(g, p)) = Cardinality(Refs(f, p)) - 1
    <3>1. Cardinality(Refs(f, p) \ {r}) = Cardinality(Refs(f, p)) - 1
      BY <1>1, <2>1, FS_RemoveElement
    <3>2. QED
      BY <2>1, <3>1
  <2>3. QED
    BY <1>1, <1>3, <1>5, <2>2 DEF NumRefs, One
<1>6. CASE (p # v /\ p # f[r]) \/ (p = v /\ p = f[r])
  <2>1. Refs(g, p) = Refs(f, p)
    BY <1>2, <1>6 DEF Refs
  <2>2. QED
    BY <1>1, <1>3, <1>6, <2>1 DEF NumRefs, One
<1>7. QED
  BY <1>4, <1>5, <1>6

\* Who is referred to after a store.
LEMMA PutRefs ==
  ASSUME NEW f \in Heaps, NEW r \in Place, NEW v \in Obj \cup {NIL}, NEW g, g = Put(f, r, v), NEW p
  PROVE  Refs(f, p) = {} /\ p # v => Refs(g, p) = {}
BY PutTyped DEF Refs

-----------------------------------------------------------------------------
(* Lookups.                                                                *)

Delta(q, p, op) == IF op = "ADDREF" THEN One(q, p) ELSE IF op = "DELREF" THEN 0 - One(q, p) ELSE 0

\* A lookup op on v, which may be no counted pointer, turned table t into u.
Looks(t, u, w, v, op) ==
  /\ TableOK(u)
  /\ t.disabled => u.disabled
  /\ u.disabled => /\ w = NIL
                   /\ \A q \in Ptr : RefCnt(u, q) = RefCnt(t, q) /\ (StkBit(u, q) <=> StkBit(t, q))
  /\ ~u.disabled => /\ \A q \in Ptr : /\ RefCnt(u, q) = RefCnt(t, q) + Delta(q, v, op)
                                      /\ StkBit(u, q) <=> StkBit(t, q) \/ (q = v /\ op = "STKREF")
                    /\ w = IF v \in Ptr /\ op = "DELREF" /\ Collectable(u, v) THEN v ELSE NIL

LEMMA OutcomeLooks ==
  ASSUME NEW t, TableOK(t), NEW p \in Ptr, NEW op \in Ops, NEW rec, NEW u, NEW w, Outcome(t, u, w, p, op, rec)
  PROVE  Looks(t, u, w, p, op)
<1>1. CASE t.disabled
  BY <1>1 DEF Outcome, Looks
<1>2. CASE ~t.disabled /\ SwitchedOff(t, u) /\ w = NIL
  BY <1>2 DEF SwitchedOff, Agree, Looks
<1>3. CASE ~t.disabled /\ Counts(t, u, p, op, rec) /\ w = Report(t, p, op)
  <2>1. /\ TableOK(u) /\ RefCnt(u, p) = CountAfter(t, p, op) /\ (StkBit(u, p) <=> StkAfter(t, p, op)) /\ ~u.disabled
        /\ \A q \in Ptr : q # p => RefCnt(u, q) = RefCnt(t, q) /\ (StkBit(u, q) <=> StkBit(t, q))
    BY <1>3 DEF Counts, Says
  <2>2. \A q \in Ptr : RefCnt(t, q) \in Nat
    BY EntrySaysMore
  <2>3. RefCnt(u, p) = RefCnt(t, p) + Delta(p, p, op)
    BY <2>1, <2>2 DEF CountAfter, Delta, One, Ops
  <2>4. ASSUME NEW q \in Ptr, q # p PROVE RefCnt(u, q) = RefCnt(t, q) + Delta(q, p, op)
    BY <2>1, <2>2, <2>4 DEF Delta, One
  <2>5. \A q \in Ptr : StkBit(u, q) <=> StkBit(t, q) \/ (q = p /\ op = "STKREF")
    BY <2>1 DEF StkAfter
  <2>6. w = IF op = "DELREF" /\ Collectable(u, p) THEN p ELSE NIL
    BY <1>3, <2>1, <2>2 DEF Report, Collectable, CountAfter, StkAfter
  <2>7. QED
    BY <1>3, <2>1, <2>3, <2>4, <2>5, <2>6 DEF Looks
<1>4. QED
  BY <1>1, <1>2, <1>3 DEF Outcome, Looked

LEMMA LookupLooks ==
  ASSUME NEW t, TableOK(t), NEW v \in Obj \cup {NIL}, NEW op \in Ops,
         ~t.disabled /\ op = "DELREF" /\ v \in Ptr => RefCnt(t, v) > 0
  PROVE  /\ Looks(t, GCLOOKUPV(t, v, op).t, GCLOOKUPV(t, v, op).val, v, op)
         /\ Looks(t, REC_GCLOOKUPV(t, v, op).t, REC_GCLOOKUPV(t, v, op).val, v, op)
<1>1. CASE v \in Ptr
  <2> DEFINE a == REC_GCLOOKUPV(t, v, op)
             b == GCLOOKUPV(t, v, op)
             yes == TRUE
             some == t.cnt = CntNIL
  <2>1. Outcome(t, a.t, a.val, v, op, yes) /\ Outcome(t, b.t, b.val, v, op, some)
    BY <1>1, LookupOutcome
  <2> HIDE DEF a, b, yes, some
  <2>2. Looks(t, a.t, a.val, v, op) /\ Looks(t, b.t, b.val, v, op)
    BY <1>1, <2>1, OutcomeLooks
  <2>3. QED
    BY <2>2 DEF a, b
<1>2. CASE v \notin Ptr
  <2>1. GCLOOKUPV(t, v, op) = [t |-> t, val |-> NIL] /\ REC_GCLOOKUPV(t, v, op) = [t |-> t, val |-> NIL]
    BY <1>2 DEF GCLOOKUPV, REC_GCLOOKUPV, RefCntP
  <2>2. \A q \in Ptr : RefCnt(t, q) \in Nat /\ q # v
    BY <1>2, EntrySaysMore
  <2>3. \A q \in Ptr : RefCnt(t, q) = RefCnt(t, q) + Delta(q, v, op)
    BY <2>2 DEF Delta, One
  <2> DEFINE w == NIL
  <2>4. Looks(t, t, w, v, op)
    BY <1>2, <2>2, <2>3 DEF Looks
  <2>5. QED
    BY <2>1, <2>4
<1>3. QED
  BY <1>1, <1>2

-----------------------------------------------------------------------------
(* The worklists.                                                          *)

LEMMA DyingIs == Dying = Objs(donext) \cup Objs(to_do) \cup lost \cup InWork
BY DEF Dying, Objs, Waiting, InWork

LEMMA WaiterTyped ==
  ASSUME NEW s \in Seq(Waiter), NEW w \in Waiting(s)
  PROVE  w \in Waiter /\ w.obj \in Ptr /\ w.at \in Field /\ w.obj \in Objs(s)
<1>1. PICK i \in DOMAIN s : w = s[i]
  BY DEF Waiting
<1>2. w \in Waiter
  BY <1>1
<1>3. QED
  BY <1>2 DEF Waiter, Objs

LEMMA DyingTyped == Types => Dying \subseteq Ptr
<1> SUFFICES ASSUME Types, NEW o \in Dying PROVE o \in Ptr
  OBVIOUS
<1>1. donext \in Seq(Waiter) /\ to_do \in Seq(Waiter) /\ lost \in SUBSET Ptr /\ InWork \subseteq Ptr
  BY DEF Types, InWork
<1>2. \A p \in Objs(donext) \cup Objs(to_do) : p \in Ptr
  BY <1>1, WaiterTyped DEF Objs
<1>3. QED
  BY <1>1, <1>2, DyingIs

\* t is s with one more cell, which is not among those of s.
Pushed(s, t, w) ==
  /\ s \in Seq(Waiter) /\ t \in Seq(Waiter) /\ w \in Waiter /\ Len(t) = Len(s) + 1
  /\ Distinct(s) /\ Distinct(t) /\ w.obj \notin Objs(s)
  /\ Waiting(t) = Waiting(s) \cup {w} /\ Objs(t) = Objs(s) \cup {w.obj}

\* t has w at index at, and s[i] at index m[i].
Shifted(s, t, w, at, m) ==
  /\ at \in DOMAIN t /\ t[at] = w /\ m \in [DOMAIN s -> DOMAIN t]
  /\ \A i \in DOMAIN s : t[m[i]] = s[i] /\ m[i] # at
  /\ \A j \in DOMAIN t : j # at => \E i \in DOMAIN s : m[i] = j
  /\ \A i, j \in DOMAIN s : i # j => m[i] # m[j]

LEMMA PushedBy ==
  ASSUME NEW s \in Seq(Waiter), NEW t \in Seq(Waiter), NEW w \in Waiter, NEW at, NEW m, Shifted(s, t, w, at, m)
  PROVE  /\ Waiting(t) = Waiting(s) \cup {w} /\ Objs(t) = Objs(s) \cup {w.obj}
         /\ (Distinct(s) /\ w.obj \notin Objs(s)) <=> Distinct(t)
<1>0. /\ at \in DOMAIN t /\ t[at] = w /\ m \in [DOMAIN s -> DOMAIN t]
      /\ \A i \in DOMAIN s : t[m[i]] = s[i] /\ m[i] # at
      /\ \A j \in DOMAIN t : j # at => \E i \in DOMAIN s : m[i] = j
      /\ \A i, j \in DOMAIN s : i # j => m[i] # m[j]
  BY DEF Shifted
<1>1. Waiting(t) = Waiting(s) \cup {w}
  <2>1. ASSUME NEW x \in Waiting(t) PROVE x \in Waiting(s) \cup {w}
    BY <1>0 DEF Waiting
  <2>2. ASSUME NEW x \in Waiting(s) \cup {w} PROVE x \in Waiting(t)
    BY <1>0 DEF Waiting
  <2>3. QED
    BY <2>1, <2>2
<1>2. Objs(t) = Objs(s) \cup {w.obj}
  BY <1>1 DEF Objs
<1>3. ASSUME Distinct(s), w.obj \notin Objs(s) PROVE Distinct(t)
  <2> SUFFICES ASSUME NEW i \in DOMAIN t, NEW j \in DOMAIN t, i # j PROVE t[i].obj # t[j].obj
    BY DEF Distinct
  <2>1. \A k \in DOMAIN s : s[k].obj # w.obj
    BY <1>3 DEF Objs, Waiting
  <2>2. QED
    BY <1>0, <1>3, <2>1 DEF Distinct
<1>4. ASSUME Distinct(t) PROVE Distinct(s) /\ w.obj \notin Objs(s)
  <2>1. Distinct(s)
    BY <1>0, <1>4 DEF Distinct
  <2>2. \A k \in DOMAIN s : s[k].obj # w.obj
    BY <1>0, <1>4 DEF Distinct
  <2>3. QED
    BY <2>1, <2>2 DEF Objs, Waiting
<1>5. QED
  BY <1>1, <1>2, <1>3, <1>4

LEMMA PushFront ==
  ASSUME NEW s \in Seq(Waiter), NEW w \in Waiter, Distinct(s), w.obj \notin Objs(s)
  PROVE  Pushed(s, <<w>> \o s, w)
<1> DEFINE t == <<w>> \o s
           at == 1
           m == [i \in DOMAIN s |-> i + 1]
<1>1. /\ t \in Seq(Waiter) /\ Len(t) = Len(s) + 1 /\ DOMAIN s = 1 .. Len(s) /\ DOMAIN t = 1 .. Len(s) + 1 /\ Len(s) \in Nat
      /\ t[at] = w /\ at \in DOMAIN t
  OBVIOUS
<1>2. \A i \in DOMAIN s : m[i] = i + 1 /\ m[i] \in DOMAIN t /\ t[m[i]] = s[i] /\ m[i] # at
  BY <1>1
<1>3. m \in [DOMAIN s -> DOMAIN t] /\ \A i, j \in DOMAIN s : i # j => m[i] # m[j]
  BY <1>1, <1>2
<1>4. ASSUME NEW j \in DOMAIN t, j # at PROVE \E i \in DOMAIN s : m[i] = j
  <2>1. j - 1 \in DOMAIN s
    BY <1>1, <1>4
  <2>2. QED
    BY <1>1, <2>1
<1> HIDE DEF t, at, m
<1>5. Shifted(s, t, w, at, m)
  BY <1>1, <1>2, <1>3, <1>4 DEF Shifted
<1>6. Waiting(t) = Waiting(s) \cup {w} /\ Objs(t) = Objs(s) \cup {w.obj} /\ Distinct(t)
  BY <1>1, <1>5, PushedBy
<1>7. QED
  BY <1>1, <1>6 DEF Pushed, t

LEMMA BackShifted ==
  ASSUME NEW s \in Seq(Waiter), NEW w \in Waiter, NEW t, t = Append(s, w)
  PROVE  t \in Seq(Waiter) /\ Len(t) = Len(s) + 1 /\ \E at, m : Shifted(s, t, w, at, m)
<1> DEFINE at == Len(s) + 1
           m == [i \in DOMAIN s |-> i]
<1>1. /\ Len(t) = Len(s) + 1 /\ DOMAIN s = 1 .. Len(s) /\ DOMAIN t = 1 .. Len(s) + 1 /\ Len(s) \in Nat
      /\ t[at] = w /\ at \in DOMAIN t
  OBVIOUS
<1>2. \A i \in DOMAIN s : m[i] = i /\ m[i] \in DOMAIN t /\ t[m[i]] = s[i] /\ m[i] # at
  BY <1>1
<1>3. m \in [DOMAIN s -> DOMAIN t] /\ \A i, j \in DOMAIN s : i # j => m[i] # m[j]
  BY <1>1, <1>2
<1>4. ASSUME NEW j \in DOMAIN t, j # at PROVE \E i \in DOMAIN s : m[i] = j
  BY <1>1, <1>4
<1> HIDE DEF at, m
<1>5. Shifted(s, t, w, at, m)
  BY <1>1, <1>2, <1>3, <1>4 DEF Shifted
<1>6. QED
  BY <1>1, <1>5

LEMMA PushBack ==
  ASSUME NEW s \in Seq(Waiter), NEW w \in Waiter, Distinct(s), w.obj \notin Objs(s)
  PROVE  Pushed(s, Append(s, w), w)
<1> DEFINE t == Append(s, w)
<1>1. t \in Seq(Waiter) /\ Len(t) = Len(s) + 1 /\ \E at, m : Shifted(s, t, w, at, m)
  BY BackShifted
<1> HIDE DEF t
<1>2. PICK at, m : Shifted(s, t, w, at, m)
  BY <1>1
<1>3. Waiting(t) = Waiting(s) \cup {w} /\ Objs(t) = Objs(s) \cup {w.obj} /\ Distinct(t)
  BY <1>1, <1>2, PushedBy
<1>4. QED
  BY <1>1, <1>3 DEF Pushed, t

LEMMA PopBack ==
  ASSUME NEW t \in Seq(Waiter), t # <<>>, Distinct(t)
  PROVE  Pushed(SubSeq(t, 1, Len(t) - 1), t, t[Len(t)])
<1> DEFINE s == SubSeq(t, 1, Len(t) - 1)
           w == t[Len(t)]
<1>1. s \in Seq(Waiter) /\ w \in Waiter /\ t = Append(s, w)
  <2>1. Len(t) \in Nat \ {0} /\ w \in Waiter
    OBVIOUS
  <2> DEFINE n == Len(t) - 1
  <2>2. n \in Nat /\ n <= Len(t) /\ s = SubSeq(t, 1, n)
    BY <2>1
  <2> HIDE DEF n
  <2>3. Len(s) = n /\ s \in Seq(Waiter)
    BY <2>2, SubSeqProperties
  <2>4. s \in Seq(Waiter) /\ Len(s) = Len(t) - 1
    BY <2>2, <2>3 DEF n
  <2>5. \A i \in 1 .. Len(t) - 1 : s[i] = t[i]
    BY <2>1
  <2>6. Append(s, w) \in Seq(Waiter) /\ Len(Append(s, w)) = Len(t)
    BY <2>1, <2>4
  <2>7. \A i \in 1 .. Len(t) : Append(s, w)[i] = t[i]
    BY <2>1, <2>4, <2>5
  <2> HIDE DEF s, w
  <2>8. QED
    BY <2>1, <2>4, <2>6, <2>7, SeqEqual
<1> HIDE DEF s, w
<1>2. Len(t) = Len(s) + 1 /\ \E at, m : Shifted(s, t, w, at, m)
  BY <1>1, BackShifted
<1>3. PICK at, m : Shifted(s, t, w, at, m)
  BY <1>2
<1>4. s \in Seq(Waiter) /\ w \in Waiter
  BY <1>1
<1>5. Waiting(t) = Waiting(s) \cup {w} /\ Objs(t) = Objs(s) \cup {w.obj} /\ Distinct(s) /\ w.obj \notin Objs(s)
  BY <1>3, <1>4, PushedBy
<1>6. QED
  BY <1>2, <1>4, <1>5 DEF Pushed, s, w

LEMMA PopFront ==
  ASSUME NEW t \in Seq(Waiter), t # <<>>, Distinct(t)
  PROVE  Pushed(Tail(t), t, Head(t))
<1> DEFINE s == Tail(t)
           w == Head(t)
           at == 1
           m == [i \in DOMAIN s |-> i + 1]
<1>1. /\ s \in Seq(Waiter) /\ w \in Waiter /\ Len(t) = Len(s) + 1 /\ DOMAIN s = 1 .. Len(s)
      /\ DOMAIN t = 1 .. Len(s) + 1 /\ Len(s) \in Nat /\ t[at] = w /\ at \in DOMAIN t
  OBVIOUS
<1>2. \A i \in DOMAIN s : m[i] = i + 1 /\ m[i] \in DOMAIN t /\ t[m[i]] = s[i] /\ m[i] # at
  BY <1>1
<1>3. m \in [DOMAIN s -> DOMAIN t] /\ \A i, j \in DOMAIN s : i # j => m[i] # m[j]
  BY <1>1, <1>2
<1>4. ASSUME NEW j \in DOMAIN t, j # at PROVE \E i \in DOMAIN s : m[i] = j
  <2>1. j - 1 \in DOMAIN s
    BY <1>1, <1>4
  <2>2. QED
    BY <1>1, <2>1
<1> HIDE DEF s, w, at, m
<1>5. Shifted(s, t, w, at, m)
  BY <1>1, <1>2, <1>3, <1>4 DEF Shifted
<1>6. Waiting(t) = Waiting(s) \cup {w} /\ Objs(t) = Objs(s) \cup {w.obj} /\ Distinct(s) /\ w.obj \notin Objs(s)
  BY <1>1, <1>5, PushedBy
<1>7. QED
  BY <1>1, <1>6 DEF Pushed, s, w

-----------------------------------------------------------------------------
(* More about lookups and sweeps.                                          *)

LEMMA LooksOther ==
  ASSUME NEW t, TableOK(t), NEW v, NEW op, NEW u, NEW w, Looks(t, u, w, v, op), NEW q \in Ptr, ~t.disabled => q # v
  PROVE  RefCnt(u, q) = RefCnt(t, q)
<1>1. RefCnt(t, q) \in Nat
  BY EntrySaysMore
<1>2. CASE u.disabled
  BY <1>2 DEF Looks
<1>3. CASE ~u.disabled
  <2>1. ~t.disabled /\ RefCnt(u, q) = RefCnt(t, q) + Delta(q, v, op)
    BY <1>3 DEF Looks
  <2>2. QED
    BY <1>1, <2>1 DEF Delta, One
<1>4. QED
  BY <1>2, <1>3

\* Only the stack scan sets a mark.
LEMMA LooksMarks ==
  ASSUME NEW t, NEW v, NEW op, op # "STKREF", NEW u, NEW w, Looks(t, u, w, v, op), NEW q \in Ptr
  PROVE  StkBit(u, q) <=> StkBit(t, q)
BY DEF Looks

\* After the entry of an HTmain word was taken the bucket is empty.
LEMMA TakenAlone ==
  ASSUME NEW t, TableOK(t), NEW b, NEW u, NEW p, Taken(t, b, u, p), t.main[b].tag # "link"
  PROVE  NothingToTake(u, b)
<1>1. p \in Ptr /\ Hash[p] = b /\ Collectable(t, p) /\ Says(t, u, p, 1, FALSE)
  BY DEF Taken
<1>2. ASSUME NEW q \in Ptr, Hash[q] = b, Collectable(t, q) PROVE q = p
  <2>1. PICK v \in At(t, p) : StkCntIsZero(v)
    BY <1>1, ZeroWord
  <2>2. PICK w \in At(t, q) : StkCntIsZero(w)
    BY <1>2, ZeroWord
  <2>3. v \in Words(t, b) /\ v.ptr = p /\ w \in Words(t, b) /\ w.ptr = q
    BY <1>1, <1>2, <2>1, <2>2 DEF At
  <2>4. v = w
    BY <2>3 DEF Words
  <2>5. QED
    BY <2>3, <2>4
<1>3. ~Collectable(u, p)
  BY <1>1 DEF Says, Collectable
<1>4. ASSUME NEW q \in Ptr, q # p PROVE Collectable(u, q) => Collectable(t, q)
  BY <1>1, <1>4 DEF Says, Collectable
<1>5. QED
  BY <1>2, <1>3, <1>4 DEF NothingToTake

-----------------------------------------------------------------------------
(* The program.                                                            *)

\* Nothing about the collector changed, and of the heap only what it does not
\* hold; the table counts what is stored.
MutatorStep ==
  /\ pc = "run" /\ UNCHANGED <<pc, gcvars>>
  /\ fld' \in Heaps /\ stack' \in SUBSET Obj /\ free' \in SUBSET free
  /\ TableOK(ht') /\ (ht.disabled => ht'.disabled)
  /\ \A q \in free' \cup Dying : RefCnt(ht', q) = 1
  /\ ~ht'.disabled =>
       /\ \A q \in Ptr : StkBit(ht', q) <=> StkBit(ht, q)
       /\ \A r \in Place : fld'[r] # fld[r] => r[1] \notin free' \cup Dying /\ r[2] <= Arity[r[1]]
       /\ \A q \in Ptr \ (free' \cup Dying) : RefCnt(ht', q) = NumRefs(fld', q)
       /\ \A q \in free' \cup Dying : Refs(fld', q) = {} /\ q \notin stack'

LEMMA MutatorKeeps == IInv /\ MutatorStep => IInv' /\ Dying' = Dying
<1> SUFFICES ASSUME IInv, MutatorStep PROVE IInv' /\ Dying' = Dying
  OBVIOUS
<1>1. /\ pc = "run" /\ pc' = pc /\ probe' = probe /\ marked' = marked /\ cell' = cell /\ ix' = ix /\ val' = val
      /\ donext' = donext /\ to_do' = to_do /\ lost' = lost /\ spilled' = spilled
      /\ fld' \in Heaps /\ stack' \in SUBSET Obj /\ free' \in SUBSET free
      /\ TableOK(ht') /\ (ht.disabled => ht'.disabled)
      /\ \A q \in free' \cup Dying : RefCnt(ht', q) = 1
  BY DEF MutatorStep, gcvars
<1>2. Dying' = Dying /\ InWork' = InWork
  BY <1>1 DEF Dying, InWork
<1>3. val = NIL
  BY <1>1 DEF IInv, ValReported
<1>4. Types'
  BY <1>1 DEF IInv, Types, Heaps
<1>5. OnePlace'
  BY <1>1, <1>2 DEF IInv, OnePlace
<1>6. ValReported' /\ NoEntries'
  BY <1>1, <1>2, <1>3 DEF ValReported, NoEntries
<1>7. ASSUME ~ht'.disabled PROVE HeapOK'
  <2>1. HeapOK
    BY <1>1, <1>7 DEF IInv
  <2>2. /\ \A q \in Ptr : StkBit(ht', q) <=> StkBit(ht, q)
        /\ \A r \in Place : fld'[r] # fld[r] => r[1] \notin free' \cup Dying /\ r[2] <= Arity[r[1]]
        /\ \A q \in Ptr \ (free' \cup Dying) : RefCnt(ht', q) = NumRefs(fld', q)
        /\ \A q \in free' \cup Dying : Refs(fld', q) = {} /\ q \notin stack'
    BY <1>7 DEF MutatorStep
  <2>3. Emptied'
    <3>1. ASSUME NEW r \in Place, r[2] > Arity[r[1]] \/ r[1] \in free' PROVE fld'[r] = NIL
      <4>1. r[1] \in Obj /\ r[2] \in Int /\ Arity[r[1]] \in Int
        BY Constants DEF Place
      <4>2. fld[r] = NIL
        BY <1>1, <2>1, <3>1 DEF HeapOK, Emptied
      <4>3. fld'[r] = fld[r]
        BY <2>2, <3>1, <4>1
      <4>4. QED
        BY <4>2, <4>3
    <3>2. ASSUME NEW w \in Waiting(donext) \cup Waiting(to_do), NEW x \in Field, x < w.at PROVE fld'[<<w.obj, x>>] = NIL
      <4>1. w.obj \in Dying
        BY DyingIs DEF Objs
      <4>2. w.obj \in Ptr
        BY <3>2, WaiterTyped DEF IInv, Types
      <4>3. <<w.obj, x>> \in Place
        BY <4>2, Constants DEF Place
      <4>4. QED
        BY <2>1, <2>2, <3>2, <4>1, <4>3 DEF HeapOK, Emptied
    <3>3. QED
      BY <1>1, <3>1, <3>2 DEF Emptied
  <2>4. CountsRight' /\ NoDangling'
    BY <1>2, <2>2 DEF CountsRight, NoDangling
  <2>5. Marks' /\ Passed'
    BY <1>1, <2>1, <2>2 DEF HeapOK, Marks, Passed
  <2>6. QED
    BY <2>3, <2>4, <2>5 DEF HeapOK
<1>8. QED
  BY <1>1, <1>2, <1>4, <1>5, <1>6, <1>7 DEF IInv

\* What the program holds is not being reclaimed.
LEMMA HeldAlive ==
  ASSUME IInv, NEW v \in Held \cup {NIL}
  PROVE  v \in Obj \cup {NIL} /\ (~ht.disabled => v \notin free \cup Dying)
<1>1. v \in Obj \cup {NIL}
  BY DEF IInv, Types, Held, Obj
<1>2. free \cup Dying \subseteq Ptr
  BY DyingTyped DEF IInv, Types
<1>3. ~ht.disabled => v \notin free \cup Dying
  BY <1>2, Constants DEF IInv, HeapOK, NoDangling, Held
<1>4. QED
  BY <1>1, <1>3

\* Allocation: the references of the new object are counted, then its own first one goes.
LEMMA BornCounts ==
  ASSUME NEW t, TableOK(t), NEW a, NEW d, NEW o, NEW t1, NEW t2, NEW t3, NEW w1, NEW w2, NEW w3,
         Looks(t, t1, w1, d, "ADDREF"), Looks(t1, t2, w2, a, "ADDREF"), Looks(t2, t3, w3, o, "DELREF"), NEW q \in Ptr
  PROVE  /\ TableOK(t3) /\ (t.disabled => t3.disabled)
         /\ q # o /\ (~t.disabled => q # a /\ q # d) => RefCnt(t3, q) = RefCnt(t, q)
         /\ ~t3.disabled => /\ RefCnt(t3, q) = RefCnt(t, q) + One(q, d) + One(q, a) - One(q, o)
                            /\ StkBit(t3, q) <=> StkBit(t, q)
<1>1. /\ TableOK(t1) /\ TableOK(t2) /\ TableOK(t3) /\ (t.disabled => t1.disabled) /\ (t1.disabled => t2.disabled)
      /\ (t2.disabled => t3.disabled)
  BY DEF Looks
<1>2. ASSUME q # o, ~t.disabled => q # a /\ q # d PROVE RefCnt(t3, q) = RefCnt(t, q)
  <2>1. RefCnt(t1, q) = RefCnt(t, q)
    BY <1>2, LooksOther
  <2>2. RefCnt(t2, q) = RefCnt(t1, q)
    BY <1>1, <1>2, LooksOther
  <2>3. RefCnt(t3, q) = RefCnt(t2, q)
    BY <1>1, <1>2, LooksOther
  <2>4. QED
    BY <2>1, <2>2, <2>3
<1>3. ASSUME ~t3.disabled PROVE /\ RefCnt(t3, q) = RefCnt(t, q) + One(q, d) + One(q, a) - One(q, o)
                                /\ StkBit(t3, q) <=> StkBit(t, q)
  <2>1. /\ RefCnt(t1, q) = RefCnt(t, q) + Delta(q, d, "ADDREF") /\ (StkBit(t1, q) <=> StkBit(t, q))
        /\ RefCnt(t2, q) = RefCnt(t1, q) + Delta(q, a, "ADDREF") /\ (StkBit(t2, q) <=> StkBit(t1, q))
        /\ RefCnt(t3, q) = RefCnt(t2, q) + Delta(q, o, "DELREF") /\ (StkBit(t3, q) <=> StkBit(t2, q))
    BY <1>1, <1>3 DEF Looks
  <2>2. RefCnt(t, q) \in Nat
    BY EntrySaysMore
  <2>3. QED
    BY <2>1, <2>2 DEF Delta, One
<1>4. QED
  BY <1>1, <1>2, <1>3

NewRefs(o, init, p) == {r \in {o} \X Field : init[r[2]] = p}
Filled(a, d) == [x \in Field |-> IF x = 1 THEN a ELSE IF x = 2 THEN d ELSE NIL]

LEMMA FilledCounts ==
  ASSUME NEW a, NEW d, NEW o, NEW p \in Obj, 2 \in Field
  PROVE  Cardinality(NewRefs(o, Filled(a, d), p)) = One(p, a) + One(p, d)
<1> DEFINE S == NewRefs(o, Filled(a, d), p)
<1>1. p # NIL /\ 1 \in Field /\ 2 \in Field /\ <<o, 1>> # <<o, 2>>
  BY Constants
<1>2. \A r : r \in S <=> (r = <<o, 1>> /\ p = a) \/ (r = <<o, 2>> /\ p = d)
  <2>1. ASSUME NEW r \in S PROVE (r = <<o, 1>> /\ p = a) \/ (r = <<o, 2>> /\ p = d)
    <3>1. r = <<o, r[2]>> /\ r[2] \in Field /\ p = Filled(a, d)[r[2]]
      BY DEF NewRefs
    <3>2. (r[2] = 1 /\ p = a) \/ (r[2] = 2 /\ p = d)
      BY <1>1, <3>1 DEF Filled
    <3>3. QED
      BY <3>1, <3>2
  <2>2. ASSUME NEW r, (r = <<o, 1>> /\ p = a) \/ (r = <<o, 2>> /\ p = d) PROVE r \in S
    BY <1>1, <2>2 DEF Filled, NewRefs
  <2>3. QED
    BY <2>1, <2>2
<1> HIDE DEF S
<1> DEFINE x == <<o, 1>>
           y == <<o, 2>>
<1>3. x # y /\ \A r : r \in S <=> (r = x /\ p = a) \/ (r = y /\ p = d)
  BY <1>1, <1>2
<1> HIDE DEF x, y
<1>4. CASE p = a /\ p = d
  <2> DEFINE X == {x}
  <2>1. S = X \cup {y} /\ y \notin X
    BY <1>3, <1>4
  <2>2. IsFiniteSet(X) /\ Cardinality(X) = 1
    BY FS_Singleton
  <2> HIDE DEF X
  <2>3. Cardinality(S) = Cardinality(X) + 1
    BY <2>1, <2>2, FS_AddElement
  <2>4. One(p, a) = 1 /\ One(p, d) = 1
    BY <1>4 DEF One
  <2>5. Cardinality(S) = 2
    BY <2>2, <2>3
  <2>6. QED
    BY <2>4, <2>5 DEF S
<1>5. CASE p = a /\ p # d
  <2>1. S = {x}
    BY <1>3, <1>5
  <2>2. Cardinality(S) = 1
    BY <2>1, FS_Singleton
  <2>3. One(p, a) + One(p, d) = 1
    BY <1>5 DEF One
  <2>4. QED
    BY <2>2, <2>3 DEF S
<1>6. CASE p # a /\ p = d
  <2>1. S = {y}
    BY <1>3, <1>6
  <2>2. Cardinality(S) = 1
    BY <2>1, FS_Singleton
  <2>3. One(p, a) + One(p, d) = 1
    BY <1>6 DEF One
  <2>4. QED
    BY <2>2, <2>3 DEF S
<1>7. CASE p # a /\ p # d
  <2>1. S = {}
    BY <1>3, <1>7
  <2>2. QED
    BY <1>7, <2>1, FS_EmptySet DEF One, S
<1>8. QED
  BY <1>4, <1>5, <1>6, <1>7

-----------------------------------------------------------------------------
(* The state as RefCountGC sees it.                                        *)

CntOf(t) == [p \in Obj |-> IF p \in Ptr THEN RefCnt(t, p) ELSE 1]
PhaseOf(x) == CASE x = "run" -> "run" [] x = "stk" -> "mark" [] OTHER -> "sweep"

\* A step of RefCountGC, or none.
Simulates == Abs!GCNext \/ UNCHANGED Abs!gcVars

LEMMA SimulatesNothing ==
  ASSUME fld' = fld, stack' = stack, CntOf(ht') = CntOf(ht), marked' = marked, free' = free, Dying' = Dying,
         PhaseOf(pc') = PhaseOf(pc)
  PROVE  Simulates
BY DEF Simulates, Abs!gcVars, CntOf, PhaseOf

\* RefCountGC counts with its own instance of FiniteSets.
LEMMA AbsCardinality == \A S : Abs!Cardinality(S) = Cardinality(S)
BY DEF Abs!Cardinality, Cardinality

LEMMA SimulatesAlloc ==
  ASSUME NEW o \in Ptr, NEW init \in [Field -> Held \cup {NIL}],
         pc = "run", pc' = "run", o \in free, free' = free \ {o}, stack' = stack \cup {o},
         marked' = marked, Dying' = Dying,
         fld' = [r \in Place |-> IF r[1] = o THEN init[r[2]] ELSE fld[r]],
         RefCnt(ht', o) = 0,
         \A p \in Ptr : p # o =>
           RefCnt(ht', p) = RefCnt(ht, p) + Cardinality(NewRefs(o, init, p))
  PROVE  Simulates
<1> DEFINE N(p) == Cardinality(NewRefs(o, init, p))
           M(p) == Abs!Cardinality(NewRefs(o, init, p))
           new == [p \in Obj |-> IF p = o THEN 0 ELSE IF p \in Obj \ Root THEN CntOf(ht)[p] + M(p) ELSE CntOf(ht)[p]]
<1>1. CntOf(ht') = new
  <2>1. \A p \in Ptr : p # o => RefCnt(ht', p) = RefCnt(ht, p) + N(p)
    OBVIOUS
  <2>2. \A p : M(p) = N(p)
    BY AbsCardinality
  <2> HIDE DEF M, N
  <2>3. ASSUME NEW p \in Obj
        PROVE  CntOf(ht')[p] = IF p = o THEN 0 ELSE IF p \in Obj \ Root THEN CntOf(ht)[p] + M(p) ELSE CntOf(ht)[p]
    BY <2>1, <2>2, Constants DEF CntOf
  <2>4. CntOf(ht') = [p \in Obj |-> CntOf(ht')[p]]
    BY DEF CntOf
  <2>5. QED
    BY <2>3, <2>4
<1>2. Abs!Alloc(o, init)
  BY <1>1, Zenon DEF Abs!Alloc, Abs!Place, Abs!Heap, Place, CntOf, M, new, NewRefs
<1>3. o \in Abs!Heap /\ init \in [Field -> Abs!Held \cup {NIL}]
  BY Constants DEF Abs!Heap, Abs!Held, Held
<1>4. QED
  BY <1>2, <1>3 DEF Simulates, Abs!GCNext

LEMMA SimulatesStore ==
  ASSUME NEW r \in Place, NEW v \in Held \cup {NIL}, TableOK(ht), pc = "run", pc' = "run", r[1] \in Held,
         fld' = [fld EXCEPT ![r] = v], stack' = stack, marked' = marked, free' = free, Dying' = Dying,
         \A p \in Ptr : RefCnt(ht', p) = RefCnt(ht, p) + One(p, v) - One(p, fld[r])
  PROVE  Simulates
<1> DEFINE new == [p \in Obj |-> IF p \in Obj \ Root /\ v # fld[r]
                                 THEN CntOf(ht)[p] + (IF p = v THEN 1 ELSE 0) - (IF p = fld[r] THEN 1 ELSE 0)
                                 ELSE CntOf(ht)[p]]
<1>1. CntOf(ht') = new
  <2>1. \A p \in Ptr : RefCnt(ht, p) \in Nat
    BY EntrySaysMore
  <2>2. ASSUME NEW p \in Obj PROVE CntOf(ht')[p] = new[p]
    BY <2>1, Constants DEF CntOf, One
  <2>3. CntOf(ht') = [p \in Obj |-> CntOf(ht')[p]]
    BY DEF CntOf
  <2>4. QED
    BY <2>2, <2>3
<1>2. Abs!Store(r, v)
  BY <1>1, Zenon DEF Abs!Store, Abs!Held, Held, Abs!Heap, CntOf, new
<1>3. r \in Abs!Place /\ v \in Abs!Held \cup {NIL}
  BY DEF Abs!Place, Place, Abs!Held, Held
<1>4. QED
  BY <1>2, <1>3 DEF Simulates, Abs!GCNext

LEMMA SameCounts ==
  ASSUME \A p \in Ptr : RefCnt(ht', p) = RefCnt(ht, p)
  PROVE  CntOf(ht') = CntOf(ht)
BY DEF CntOf

-----------------------------------------------------------------------------
(* The steps of the program.                                               *)

Steps == IInv' /\ (~ht'.disabled => Simulates)

LEMMA AllocSteps ==
  ASSUME IInv, pc = "run", NEW o \in free, NEW a \in Held \cup {NIL}, NEW d \in Held \cup {NIL},
         NEW t1, NEW t2, NEW w1, NEW w2, NEW w3,
         Looks(ht, t1, w1, d, "ADDREF"), Looks(t1, t2, w2, a, "ADDREF"), Looks(t2, ht', w3, o, "DELREF"),
         \/ 2 \in Field /\ Arity[o] = 2 /\ fld' = Put(Put(fld, <<o, 1>>, a), <<o, 2>>, d)
         \/ a = NIL /\ d = NIL /\ fld' = fld,
         free' = free \ {o}, stack' = stack \cup {o}, UNCHANGED <<pc, gcvars>>
  PROVE  Steps
<1>1. /\ TableOK(ht) /\ fld \in Heaps /\ o \in Ptr /\ o \in Obj /\ o # NIL /\ stack \in SUBSET Obj /\ free \in SUBSET Ptr
      /\ Dying \subseteq Ptr /\ free \cap Dying = {} /\ RefCnt(ht, o) = 1 /\ a \in Obj \cup {NIL} /\ d \in Obj \cup {NIL}
      /\ ~ht.disabled => a \notin free \cup Dying /\ d \notin free \cup Dying
  BY HeldAlive, DyingTyped, Constants DEF IInv, Types, Heaps, NoEntries, OnePlace
<1>2. ASSUME NEW q \in Ptr
      PROVE  /\ TableOK(ht') /\ (ht.disabled => ht'.disabled)
             /\ q # o /\ (~ht.disabled => q # a /\ q # d) => RefCnt(ht', q) = RefCnt(ht, q)
             /\ ~ht'.disabled => /\ RefCnt(ht', q) = RefCnt(ht, q) + One(q, d) + One(q, a) - One(q, o)
                                 /\ StkBit(ht', q) <=> StkBit(ht, q)
             /\ RefCnt(ht, q) \in Nat
  BY <1>1, BornCounts, EntrySaysMore
<1> DEFINE x == <<o, 1>>
           y == <<o, 2>>
           f1 == Put(fld, x, a)
           some == ~(a = NIL /\ d = NIL /\ fld' = fld)
<1>3. some => /\ x \in Place /\ y \in Place /\ x # y /\ f1 \in Heaps /\ fld' = Put(f1, y, d) /\ Arity[o] = 2
              /\ x[1] = o /\ y[1] = o /\ x[2] = 1 /\ y[2] = 2
  <2>1. some => x \in Place /\ y \in Place /\ x # y
    BY <1>1, Constants DEF Place
  <2>2. QED
    BY <1>1, <2>1, PutTyped
<1>4. ~some => fld' = fld
  OBVIOUS
<1>5. ~some => a = NIL /\ d = NIL
  OBVIOUS
<1>6. 2 \in Field \/ (a = NIL /\ d = NIL)
  OBVIOUS
<1> HIDE DEF x, y, f1, some
<1>7. some => /\ f1[x] = a /\ \A r \in Place : r # x => f1[r] = fld[r]
              /\ fld' \in Heaps /\ fld'[y] = d /\ \A r \in Place : r # y => fld'[r] = f1[r]
  <2> SUFFICES ASSUME some
               PROVE  /\ f1[x] = a /\ \A r \in Place : r # x => f1[r] = fld[r]
                      /\ fld' \in Heaps /\ fld'[y] = d /\ \A r \in Place : r # y => fld'[r] = f1[r]
    OBVIOUS
  <2>1. f1[x] = a /\ \A r \in Place : r # x => f1[r] = fld[r]
    BY <1>1, <1>3, PutTyped DEF f1
  <2> DEFINE g == Put(f1, y, d)
  <2>2. fld' = g /\ f1 \in Heaps /\ y \in Place
    BY <1>3
  <2>3. g \in Heaps /\ g[y] = d /\ \A r \in Place : r # y => g[r] = f1[r]
    BY <1>1, <2>2, PutTyped
  <2> HIDE DEF g
  <2>4. QED
    BY <2>1, <2>2, <2>3
<1>8. /\ fld' \in Heaps
      /\ \A r \in Place : fld'[r] # fld[r] => r[1] = o /\ r[2] <= Arity[o]
  <2>1. CASE some
    BY <1>3, <1>7, <2>1
  <2>2. QED
    BY <1>1, <1>4, <2>1
<1>9. ~ht.disabled => (fld[x] = NIL /\ fld[y] = NIL) \/ ~some
  BY <1>1, <1>3 DEF IInv, HeapOK, Emptied
<1>10. ASSUME ~ht.disabled, NEW q \in Obj
      PROVE  /\ NumRefs(fld', q) = NumRefs(fld, q) + One(q, a) + One(q, d) /\ NumRefs(fld, q) \in Nat
             /\ Refs(fld, q) = {} /\ q # a /\ q # d => Refs(fld', q) = {}
  <2>1. NumRefs(fld, q) \in Nat /\ NumRefs(f1, q) \in Nat /\ q # NIL
    BY RefsFinite, Constants
  <2>2. CASE ~some
    BY <1>4, <1>5, <2>1, <2>2 DEF One
  <2>3. CASE some
    <3>1. NumRefs(f1, q) = NumRefs(fld, q) + One(q, a) - One(q, fld[x])
      BY <1>1, <1>3, <2>3, PutCounts DEF f1
    <3>2. NumRefs(fld', q) = NumRefs(f1, q) + One(q, d) - One(q, f1[y])
      BY <1>1, <1>3, <2>3, PutCounts
    <3>3. f1[y] = fld[y]
      BY <1>1, <1>3, <2>3, PutTyped DEF f1
    <3>4. fld[x] = NIL /\ fld[y] = NIL
      BY <1>9, <1>10, <2>3
    <3>5. Refs(fld, q) = {} /\ q # a => Refs(f1, q) = {}
      BY <1>1, <1>3, <2>3, PutRefs DEF f1
    <3>6. Refs(f1, q) = {} /\ q # d => Refs(fld', q) = {}
      BY <1>1, <1>3, <2>3, PutRefs
    <3>7. QED
      BY <2>1, <3>1, <3>2, <3>3, <3>4, <3>5, <3>6 DEF One
  <2>4. QED
    BY <2>2, <2>3
<1>11. MutatorStep
  <2>1. \A q \in free' \cup Dying : RefCnt(ht', q) = 1
    BY <1>1, <1>2 DEF IInv, NoEntries
  <2>2. ASSUME ~ht'.disabled
        PROVE  /\ \A q \in Ptr : StkBit(ht', q) <=> StkBit(ht, q)
               /\ \A r \in Place : fld'[r] # fld[r] => r[1] \notin free' \cup Dying /\ r[2] <= Arity[r[1]]
               /\ \A q \in Ptr \ (free' \cup Dying) : RefCnt(ht', q) = NumRefs(fld', q)
               /\ \A q \in free' \cup Dying : Refs(fld', q) = {} /\ q \notin stack'
    <3>1. ~ht.disabled /\ a \notin free \cup Dying /\ d \notin free \cup Dying /\ a # o /\ d # o /\ HeapOK
      BY <1>1, <1>2, <2>2 DEF IInv
    <3>2. \A r \in Place : fld'[r] # fld[r] => r[1] \notin free' \cup Dying /\ r[2] <= Arity[r[1]]
      BY <1>1, <1>8
    <3>3. ASSUME NEW q \in Ptr \ (free' \cup Dying) PROVE RefCnt(ht', q) = NumRefs(fld', q)
      <4>1. q \in Ptr /\ q \in Obj /\ RefCnt(ht, q) \in Nat
        BY <1>2, Constants
      <4>2. /\ RefCnt(ht', q) = RefCnt(ht, q) + One(q, d) + One(q, a) - One(q, o)
            /\ NumRefs(fld', q) = NumRefs(fld, q) + One(q, a) + One(q, d) /\ NumRefs(fld, q) \in Nat
        BY <1>2, <1>10, <2>2, <3>1, <4>1
      <4>3. CASE q = o
        <5>1. Refs(fld, o) = {}
          BY <3>1 DEF HeapOK, NoDangling
        <5>2. NumRefs(fld, o) = 0
          BY <5>1, RefsFinite
        <5>3. QED
          BY <1>1, <3>1, <4>2, <4>3, <5>2 DEF One
      <4>4. CASE q # o
        <5>1. RefCnt(ht, q) = NumRefs(fld, q)
          BY <3>1, <3>3, <4>1, <4>4 DEF HeapOK, CountsRight
        <5>2. QED
          BY <4>2, <4>4, <5>1 DEF One
      <4>5. QED
        BY <4>3, <4>4
    <3>4. ASSUME NEW q \in free' \cup Dying PROVE Refs(fld', q) = {} /\ q \notin stack'
      <4>1. q \in Obj /\ q # o /\ q # a /\ q # d /\ q \in free \cup Dying
        BY <1>1, <3>1, Constants
      <4>2. Refs(fld, q) = {} /\ q \notin stack
        BY <3>1, <4>1 DEF HeapOK, NoDangling
      <4>3. QED
        BY <1>10, <3>1, <4>1, <4>2
    <3>5. QED
      BY <1>2, <2>2, <3>2, <3>3, <3>4
  <2>3. TableOK(ht') /\ (ht.disabled => ht'.disabled) /\ stack' \in SUBSET Obj /\ free' \in SUBSET free
    BY <1>1, <1>2
  <2>4. QED
    BY <1>8, <2>1, <2>2, <2>3 DEF MutatorStep
<1>12. IInv' /\ Dying' = Dying
  BY <1>11, MutatorKeeps
<1>13. ASSUME ~ht'.disabled PROVE Simulates
  <2> DEFINE init == Filled(a, d)
             N(p) == Cardinality(NewRefs(o, init, p))
  <2>1. ~ht.disabled /\ a # o /\ d # o /\ HeapOK
    BY <1>1, <1>2, <1>13 DEF IInv
  <2>2. init \in [Field -> Held \cup {NIL}]
    BY DEF Filled
  <2>3. ASSUME NEW p \in Ptr PROVE N(p) = One(p, a) + One(p, d)
    <3>1. CASE 2 \in Field
      BY <3>1, FilledCounts, Constants
    <3>2. CASE a = NIL /\ d = NIL
      <4>1. p # NIL /\ \A k \in Field : init[k] = NIL
        BY <3>2, Constants DEF Filled
      <4>2. NewRefs(o, init, p) = {}
        BY <4>1 DEF NewRefs
      <4>3. N(p) = 0
        BY <4>2, FS_EmptySet
      <4>4. QED
        BY <3>2, <4>1, <4>3 DEF One
    <3>3. QED
      BY <1>6, <3>1, <3>2
  <2>4. fld' = [r \in Place |-> IF r[1] = o THEN init[r[2]] ELSE fld[r]]
    <3>1. ASSUME NEW r \in Place PROVE fld'[r] = IF r[1] = o THEN init[r[2]] ELSE fld[r]
      <4>1. CASE r[1] # o
        BY <1>8, <4>1
      <4>2. CASE r[1] = o
        <5>1. r = <<o, r[2]>> /\ r[2] \in Field /\ fld[r] = NIL
          BY <2>1, <4>2 DEF Place, HeapOK, Emptied
        <5>2. init[r[2]] = IF r[2] = 1 THEN a ELSE IF r[2] = 2 THEN d ELSE NIL
          BY <5>1 DEF Filled
        <5>3. CASE ~some
          BY <1>4, <1>5, <4>2, <5>1, <5>2, <5>3
        <5>4. CASE some
          <6>1. f1[x] = a /\ \A s \in Place : s # x => f1[s] = fld[s]
            BY <1>7, <5>4
          <6>2. fld'[y] = d /\ \A s \in Place : s # y => fld'[s] = f1[s]
            BY <1>7, <5>4
          <6>3. (r = x <=> r[2] = 1) /\ (r = y <=> r[2] = 2)
            BY <5>1 DEF x, y
          <6>4. QED
            BY <1>3, <4>2, <5>1, <5>2, <5>4, <6>1, <6>2, <6>3
        <5>5. QED
          BY <5>3, <5>4
      <4>3. QED
        BY <4>1, <4>2
    <3>2. fld' = [r \in Place |-> fld'[r]]
      BY <1>8 DEF Heaps
    <3> HIDE DEF init
    <3>3. QED
      BY <3>1, <3>2
  <2>5. RefCnt(ht', o) = 0
    BY <1>1, <1>2, <1>13, <2>1 DEF One
  <2>6. ASSUME NEW p \in Ptr, p # o PROVE RefCnt(ht', p) = RefCnt(ht, p) + N(p)
    <3>1. RefCnt(ht', p) = RefCnt(ht, p) + One(p, d) + One(p, a) - One(p, o) /\ RefCnt(ht, p) \in Nat
      BY <1>2, <1>13
    <3>2. N(p) = One(p, a) + One(p, d)
      BY <2>3
    <3> HIDE DEF N
    <3>3. QED
      BY <2>6, <3>1, <3>2 DEF One
  <2> HIDE DEF init
  <2>7. marked' = marked /\ pc' = "run"
    BY DEF gcvars
  <2>8. QED
    BY <1>1, <1>12, <2>2, <2>4, <2>5, <2>6, <2>7, SimulatesAlloc
<1>14. QED
  BY <1>12, <1>13 DEF Steps

LEMMA ConsSteps ==
  ASSUME IInv, NEW o \in Ptr, NEW a \in Held \cup {NIL}, NEW d \in Held \cup {NIL}, Cons(o, a, d)
  PROVE  Steps
<1> DEFINE l1 == GCLOOKUPV(ht, d, "ADDREF")
           l2 == GCLOOKUPV(l1.t, a, "ADDREF")
           l3 == GCLOOKUPV(l2.t, o, "DELREF")
<1>1. /\ pc = "run" /\ o \in free /\ Kind[o] = "LISTP" /\ ht' = l3.t /\ fld' = [fld EXCEPT ![<<o, 1>>] = a, ![<<o, 2>>] = d]
      /\ free' = free \ {o} /\ stack' = stack \cup {o} /\ UNCHANGED <<pc, gcvars>>
  BY DEF Cons
<1>2. /\ TableOK(ht) /\ a \in Obj \cup {NIL} /\ d \in Obj \cup {NIL} /\ o \in Obj \cup {NIL} /\ o \in Obj /\ fld \in Heaps
      /\ RefCnt(ht, o) = 1 /\ "ADDREF" \in Ops /\ "DELREF" \in Ops /\ Arity[o] = 2 /\ 1 \in Field /\ 2 \in Field
  BY <1>1, HeldAlive, Constants DEF IInv, Types, Heaps, NoEntries, Ops
<1>3. Looks(ht, l1.t, l1.val, d, "ADDREF")
  BY <1>2, LookupLooks
<1>4. TableOK(l1.t)
  BY <1>3 DEF Looks
<1>5. Looks(l1.t, l2.t, l2.val, a, "ADDREF")
  <2> HIDE DEF l1
  <2>1. QED
    BY <1>2, <1>4, LookupLooks
<1>6. TableOK(l2.t)
  BY <1>5 DEF Looks
<1>7. ~l2.t.disabled => RefCnt(l2.t, o) > 0
  <2> HIDE DEF l1, l2
  <2>1. SUFFICES ASSUME ~l2.t.disabled PROVE RefCnt(l2.t, o) > 0
    OBVIOUS
  <2>2. RefCnt(l1.t, o) = RefCnt(ht, o) + Delta(o, d, "ADDREF") /\ RefCnt(l2.t, o) = RefCnt(l1.t, o) + Delta(o, a, "ADDREF")
    BY <1>3, <1>5, <2>1 DEF Looks
  <2>3. QED
    BY <1>2, <2>2 DEF Delta, One
<1>8. Looks(l2.t, l3.t, l3.val, o, "DELREF")
  <2> HIDE DEF l1, l2
  <2>1. QED
    BY <1>2, <1>6, <1>7, LookupLooks
<1>9. fld' = Put(Put(fld, <<o, 1>>, a), <<o, 2>>, d)
  BY <1>1 DEF Put
<1> HIDE DEF l1, l2, l3
<1>10. Looks(l2.t, ht', l3.val, o, "DELREF")
  BY <1>1, <1>8
<1>11. QED
  BY <1>1, <1>2, <1>3, <1>5, <1>9, <1>10, AllocSteps

LEMMA CreateCellSteps ==
  ASSUME IInv, NEW o \in Ptr, CreateCell(o)
  PROVE  Steps
<1> DEFINE l == GCLOOKUPV(ht, o, "DELREF")
           none == NIL
<1>1. /\ pc = "run" /\ o \in free /\ ht' = l.t /\ fld' = fld
      /\ free' = free \ {o} /\ stack' = stack \cup {o} /\ UNCHANGED <<pc, gcvars>>
  BY DEF CreateCell
<1>2. TableOK(ht) /\ o \in Obj \cup {NIL} /\ RefCnt(ht, o) = 1 /\ "ADDREF" \in Ops /\ "DELREF" \in Ops
  BY <1>1, Constants DEF IInv, NoEntries, Ops
<1>3. Looks(ht, ht', l.val, o, "DELREF")
  BY <1>1, <1>2, LookupLooks
<1>4. Looks(ht, GCLOOKUPV(ht, none, "ADDREF").t, GCLOOKUPV(ht, none, "ADDREF").val, none, "ADDREF")
  BY <1>2, LookupLooks
<1>5. GCLOOKUPV(ht, none, "ADDREF") = [t |-> ht, val |-> NIL]
  BY Constants DEF GCLOOKUPV, RefCntP
<1>6. Looks(ht, ht, NIL, none, "ADDREF")
  BY <1>4, <1>5
<1>7. none = NIL /\ none \in Held \cup {NIL}
  OBVIOUS
<1> HIDE DEF l, none
<1>8. QED
  BY <1>1, <1>3, <1>6, <1>7, AllocSteps

LEMMA FRPLPTRSteps ==
  ASSUME IInv, NEW r \in Place, NEW v \in Held \cup {NIL}, FRPLPTR(r, v)
  PROVE  Steps
<1> DEFINE l1 == GCLOOKUPV(ht, v, "ADDREF")
           old == fld[r]
           l2 == GCLOOKUPV(l1.t, old, "DELREF")
<1>1. /\ pc = "run" /\ r[1] \in Held /\ r[2] <= Arity[r[1]] /\ ht' = l2.t /\ fld' = [fld EXCEPT ![r] = v]
      /\ UNCHANGED <<stack, free, pc, gcvars>>
  BY DEF FRPLPTR
<1>2. /\ TableOK(ht) /\ fld \in Heaps /\ old \in Obj \cup {NIL} /\ "ADDREF" \in Ops /\ "DELREF" \in Ops
      /\ v \in Obj \cup {NIL} /\ (~ht.disabled => v \notin free \cup Dying /\ r[1] \notin free \cup Dying)
      /\ fld' = Put(fld, r, v) /\ free \cup Dying \subseteq Ptr /\ stack \in SUBSET Obj
  BY <1>1, HeldAlive, DyingTyped DEF IInv, Types, Heaps, Ops, Put
<1> HIDE DEF old
<1>3. Looks(ht, l1.t, l1.val, v, "ADDREF")
  BY <1>2, LookupLooks
<1>4. TableOK(l1.t) /\ (ht.disabled => l1.t.disabled)
  BY <1>3 DEF Looks
<1>5. ~ht.disabled /\ old \in Obj => old \notin free \cup Dying
  BY DEF IInv, HeapOK, NoDangling, Refs, old
<1>6. ASSUME ~l1.t.disabled, old \in Ptr PROVE RefCnt(l1.t, old) > 0
  <2> HIDE DEF l1
  <2>1. ~ht.disabled /\ old \in Obj
    BY <1>4, <1>6, Constants
  <2>2. RefCnt(ht, old) = NumRefs(fld, old)
    BY <1>5, <1>6, <2>1 DEF IInv, HeapOK, CountsRight
  <2>3. NumRefs(fld, old) > 0 /\ NumRefs(fld, old) \in Nat
    BY <1>2, <2>1, PutCounts, RefsFinite DEF old
  <2>4. RefCnt(l1.t, old) = RefCnt(ht, old) + Delta(old, v, "ADDREF")
    BY <1>3, <1>6 DEF Looks
  <2>5. QED
    BY <2>2, <2>3, <2>4 DEF Delta, One
<1>7. Looks(l1.t, l2.t, l2.val, old, "DELREF")
  <2> HIDE DEF l1
  <2>1. QED
    BY <1>2, <1>4, <1>6, LookupLooks
<1> HIDE DEF l1, l2
<1>8. TableOK(ht') /\ (ht.disabled => ht'.disabled) /\ (~ht'.disabled => ~l1.t.disabled)
  BY <1>1, <1>4, <1>7 DEF Looks
<1>9. ASSUME NEW q \in free \cup Dying PROVE RefCnt(ht', q) = 1
  <2>1. q \in Ptr /\ RefCnt(ht, q) = 1 /\ q \in Obj
    BY <1>2, Constants DEF IInv, NoEntries
  <2>2. RefCnt(l1.t, q) = RefCnt(ht, q)
    BY <1>2, <1>3, <2>1, LooksOther
  <2>3. ~l1.t.disabled => q # old
    BY <1>4, <1>5, <2>1
  <2>4. RefCnt(ht', q) = RefCnt(l1.t, q)
    BY <1>1, <1>4, <1>7, <2>1, <2>3, LooksOther
  <2>5. QED
    BY <2>1, <2>2, <2>4
<1>10. ASSUME ~ht'.disabled, NEW q \in Ptr
       PROVE  RefCnt(ht', q) = RefCnt(ht, q) + One(q, v) - One(q, old) /\ (StkBit(ht', q) <=> StkBit(ht, q))
  <2>1. /\ RefCnt(l1.t, q) = RefCnt(ht, q) + Delta(q, v, "ADDREF") /\ (StkBit(l1.t, q) <=> StkBit(ht, q))
        /\ RefCnt(ht', q) = RefCnt(l1.t, q) + Delta(q, old, "DELREF") /\ (StkBit(ht', q) <=> StkBit(l1.t, q))
    BY <1>1, <1>3, <1>7, <1>8, <1>10 DEF Looks
  <2>2. RefCnt(ht, q) \in Nat
    BY <1>2, EntrySaysMore
  <2>3. QED
    BY <2>1, <2>2 DEF Delta, One
<1>11. fld' \in Heaps /\ \A s \in Place : s # r => fld'[s] = fld[s]
  BY <1>2, PutTyped
<1>12. MutatorStep
  <2>1. ASSUME ~ht'.disabled
        PROVE  /\ \A s \in Place : fld'[s] # fld[s] => s[1] \notin free' \cup Dying /\ s[2] <= Arity[s[1]]
               /\ \A q \in Ptr \ (free' \cup Dying) : RefCnt(ht', q) = NumRefs(fld', q)
               /\ \A q \in free' \cup Dying : Refs(fld', q) = {} /\ q \notin stack'
    <3>1. ~ht.disabled /\ HeapOK
      BY <1>8, <2>1 DEF IInv
    <3>2. \A s \in Place : fld'[s] # fld[s] => s[1] \notin free' \cup Dying /\ s[2] <= Arity[s[1]]
      BY <1>1, <1>2, <1>11, <3>1
    <3>3. ASSUME NEW q \in Ptr \ (free' \cup Dying) PROVE RefCnt(ht', q) = NumRefs(fld', q)
      <4>1. q \in Ptr /\ q \in Obj
        BY Constants
      <4>2. RefCnt(ht, q) = NumRefs(fld, q)
        BY <1>1, <3>1, <3>3 DEF HeapOK, CountsRight
      <4>3. NumRefs(fld', q) = NumRefs(fld, q) + One(q, v) - One(q, old)
        BY <1>2, <4>1, PutCounts DEF old
      <4>4. QED
        BY <1>10, <2>1, <4>1, <4>2, <4>3
    <3>4. ASSUME NEW q \in free' \cup Dying PROVE Refs(fld', q) = {} /\ q \notin stack'
      <4>1. q # v /\ Refs(fld, q) = {} /\ q \notin stack
        BY <1>1, <1>2, <3>1 DEF HeapOK, NoDangling
      <4> DEFINE g == Put(fld, r, v)
      <4>2. Refs(g, q) = {}
        BY <1>2, <4>1, PutRefs
      <4>3. fld' = g /\ stack' = stack
        BY <1>1, <1>2
      <4> HIDE DEF g
      <4>4. QED
        BY <4>1, <4>2, <4>3
    <3>5. QED
      BY <3>2, <3>3, <3>4
  <2>2. QED
    BY <1>1, <1>2, <1>8, <1>9, <1>10, <1>11, <2>1 DEF MutatorStep
<1>13. IInv' /\ Dying' = Dying
  BY <1>12, MutatorKeeps
<1>14. ASSUME ~ht'.disabled PROVE Simulates
  <2>1. \A p \in Ptr : RefCnt(ht', p) = RefCnt(ht, p) + One(p, v) - One(p, fld[r])
    BY <1>10, <1>14 DEF old
  <2>2. marked' = marked /\ pc' = "run"
    BY <1>1 DEF gcvars
  <2>3. QED
    BY <1>1, <1>2, <1>13, <2>1, <2>2, SimulatesStore
<1>15. QED
  BY <1>13, <1>14 DEF Steps

\* Load and Drop change what the stack holds.
LEMMA StackSteps ==
  ASSUME IInv, pc = "run", stack' \in SUBSET Obj, ~ht.disabled => stack' \cap (free \cup Dying) = {},
         UNCHANGED <<ht, fld, free, pc, gcvars>>
  PROVE  IInv' /\ Dying' = Dying
<1>1. /\ TableOK(ht) /\ fld \in Heaps /\ ht' = ht /\ fld' = fld /\ free' = free
      /\ \A q \in free \cup Dying : RefCnt(ht, q) = 1
      /\ ~ht.disabled => HeapOK
  BY DEF IInv, Types, Heaps, NoEntries
<1>2. MutatorStep
  BY <1>1 DEF MutatorStep, HeapOK, CountsRight, NoDangling
<1>3. QED
  BY <1>2, MutatorKeeps

LEMMA LoadSteps ==
  ASSUME IInv, NEW r \in Place, Load(r)
  PROVE  Steps
<1>1. /\ pc = "run" /\ r[1] \in Held /\ fld[r] # NIL /\ stack' = stack \cup {fld[r]}
      /\ UNCHANGED <<ht, fld, free, pc, gcvars>>
  BY DEF Load
<1>2. fld[r] \in Obj /\ stack \in SUBSET Obj
  BY <1>1 DEF IInv, Types
<1>3. ~ht.disabled => fld[r] \notin free \cup Dying /\ stack \cap (free \cup Dying) = {}
  BY DEF IInv, HeapOK, NoDangling, Refs
<1>4. IInv' /\ Dying' = Dying
  BY <1>1, <1>2, <1>3, StackSteps
<1>5. Abs!Load(r) /\ r \in Abs!Place
  BY <1>1, <1>4 DEF Abs!Load, Abs!Held, Held, Abs!Place, Place, gcvars
<1>6. QED
  BY <1>4, <1>5 DEF Steps, Simulates, Abs!GCNext

LEMMA DropSteps ==
  ASSUME IInv, NEW o \in Obj, Drop(o)
  PROVE  Steps
<1>1. pc = "run" /\ o \in stack /\ stack' = stack \ {o} /\ UNCHANGED <<ht, fld, free, pc, gcvars>>
  BY DEF Drop
<1>2. stack \in SUBSET Obj
  BY DEF IInv, Types
<1>3. ~ht.disabled => stack \cap (free \cup Dying) = {}
  BY DEF IInv, HeapOK, NoDangling
<1>4. IInv' /\ Dying' = Dying
  BY <1>1, <1>2, <1>3, StackSteps
<1>5. Abs!Drop(o)
  BY <1>1, <1>4 DEF Abs!Drop, gcvars
<1>6. QED
  BY <1>4, <1>5 DEF Steps, Simulates, Abs!GCNext

-----------------------------------------------------------------------------
(* The scan of the stack, and the sweeps.                                  *)

LEMMA TopIs == Top \in Nat /\ Bucket = 0 .. Top /\ \A p \in Ptr : Hash[p] \in 0 .. Top
BY TableAssumption DEF Bucket, Top

\* A step that neither drops nor takes anything: counts, heap and worklists stay.
QuietStep ==
  /\ pc \notin {"rec", "release"} /\ (pc = "doval" => val = NIL) /\ pc' \in Phases \ {"rec", "release", "doval"}
  /\ UNCHANGED <<fld, stack, free, val, donext, to_do, lost>> /\ cell' \in Ptr \cup {NIL}
  /\ probe' \in -1 .. Top /\ marked' \in SUBSET Obj
  /\ TableOK(ht') /\ (ht.disabled => ht'.disabled)
  /\ \A q \in Ptr : RefCnt(ht', q) = RefCnt(ht, q)

LEMMA QuietKeeps ==
  ASSUME IInv, QuietStep, ~ht'.disabled => Marks' /\ Passed'
  PROVE  IInv' /\ Dying' = Dying /\ CntOf(ht') = CntOf(ht)
<1>1. /\ fld' = fld /\ stack' = stack /\ free' = free /\ cell' \in Ptr \cup {NIL} /\ val' = val
      /\ donext' = donext /\ to_do' = to_do /\ lost' = lost
      /\ pc \notin {"rec", "release"} /\ (pc = "doval" => val = NIL) /\ pc' \in Phases \ {"rec", "release", "doval"}
      /\ probe' \in -1 .. Top /\ marked' \in SUBSET Obj /\ TableOK(ht') /\ (ht.disabled => ht'.disabled)
      /\ \A q \in Ptr : RefCnt(ht', q) = RefCnt(ht, q)
  BY DEF QuietStep
<1>2. InWork = {} /\ InWork' = {} /\ Dying' = Dying
  BY <1>1 DEF InWork, Dying
<1>3. Types'
  BY <1>1 DEF IInv, Types
<1>4. OnePlace'
  BY <1>1, <1>2 DEF IInv, OnePlace
<1>5. val = NIL
  BY <1>1 DEF IInv, ValReported
<1>6. ValReported'
  BY <1>1, <1>5 DEF ValReported
<1>7. Dying \subseteq Ptr /\ free \subseteq Ptr
  BY DyingTyped DEF IInv, Types
<1>8. NoEntries'
  BY <1>1, <1>2, <1>7 DEF IInv, NoEntries
<1>9. ASSUME ~ht'.disabled PROVE HeapOK'
  <2>1. HeapOK
    BY <1>1, <1>9 DEF IInv
  <2>2. Emptied'
    BY <1>1, <2>1 DEF HeapOK, Emptied
  <2>3. CountsRight'
    BY <1>1, <1>2, <2>1 DEF HeapOK, CountsRight
  <2>4. NoDangling'
    BY <1>1, <1>2, <2>1 DEF HeapOK, NoDangling
  <2>5. QED
    BY <1>9, <2>2, <2>3, <2>4 DEF HeapOK
<1>10. CntOf(ht') = CntOf(ht)
  BY <1>1 DEF CntOf
<1>11. QED
  BY <1>1, <1>2, <1>3, <1>4, <1>6, <1>8, <1>9, <1>10 DEF IInv

LEMMA BeginReclaimSteps ==
  ASSUME IInv, BeginReclaim
  PROVE  Steps
<1>1. /\ pc = "run" /\ ~ht.disabled /\ ht' = [ht EXCEPT !.cnt = CntNIL] /\ pc' = "stk"
      /\ UNCHANGED <<fld, stack, free, gcvars>>
  BY DEF BeginReclaim
<1>2. TableOK(ht) /\ ht \in Tables /\ CntNIL \in Int
  BY TableTyped DEF IInv, CntNIL
<1>3. Recounted(ht, ht') /\ ht'.disabled = ht.disabled
  BY <1>1, <1>2, CntEdit
<1>4. TableOK(ht') /\ Agree(ht, ht')
  BY <1>2, <1>3, RecountedAgrees
<1>5. \A q \in Ptr : RefCnt(ht', q) = RefCnt(ht, q) /\ (StkBit(ht', q) <=> StkBit(ht, q))
  BY <1>4 DEF Agree
<1>6. HeapOK /\ marked' = marked /\ probe' = probe
  BY <1>1 DEF IInv, gcvars
<1>7. QuietStep
  BY <1>1, <1>3, <1>4, <1>5 DEF QuietStep, Phases, gcvars, IInv, Types
<1>8. Marks' /\ Passed'
  BY <1>1, <1>5, <1>6 DEF HeapOK, Marks, Passed
<1>9. IInv' /\ Dying' = Dying /\ CntOf(ht') = CntOf(ht)
  BY <1>7, <1>8, QuietKeeps
<1>10. Abs!GCBegin
  BY <1>1, <1>6, <1>9 DEF Abs!GCBegin, CntOf
<1>11. QED
  BY <1>9, <1>10 DEF Steps, Simulates, Abs!GCNext

LEMMA gcscanstackSteps ==
  ASSUME IInv, NEW o \in Obj, gcscanstack(o)
  PROVE  Steps
<1> DEFINE l == REC_GCLOOKUPV(ht, o, "STKREF")
<1>1. /\ pc = "stk" /\ pc' = "stk" /\ o \in stack \ marked /\ ht' = l.t /\ marked' = marked \cup {o}
      /\ UNCHANGED <<fld, stack, free, pc, probe, cell, ix, val, donext, to_do, lost, spilled>>
  BY DEF gcscanstack
<1>2. TableOK(ht) /\ o \in Obj \cup {NIL} /\ "STKREF" \in Ops
  BY DEF IInv, Ops
<1>3. Looks(ht, l.t, l.val, o, "STKREF")
  BY <1>2, LookupLooks
<1> HIDE DEF l
<1>4. Looks(ht, ht', l.val, o, "STKREF")
  BY <1>1, <1>3
<1>5. TableOK(ht') /\ (ht.disabled => ht'.disabled)
  BY <1>4 DEF Looks
<1>6. \A q \in Ptr : RefCnt(ht', q) = RefCnt(ht, q)
  <2>1. \A q \in Ptr : RefCnt(ht, q) \in Nat
    BY <1>2, EntrySaysMore
  <2>2. \A q \in Ptr : Delta(q, o, "STKREF") = 0
    BY DEF Delta
  <2>3. QED
    BY <1>4, <2>1, <2>2 DEF Looks
<1>7. QuietStep
  BY <1>1, <1>5, <1>6 DEF QuietStep, Phases, IInv, Types
<1>8. ASSUME ~ht'.disabled PROVE Marks' /\ Passed'
  <2>1. ~ht.disabled /\ HeapOK
    BY <1>5, <1>8 DEF IInv
  <2>2. \A q \in Ptr : StkBit(ht', q) <=> StkBit(ht, q) \/ q = o
    BY <1>4, <1>8 DEF Looks
  <2>3. \A q \in Ptr : StkBit(ht', q) <=> q \in marked'
    BY <1>1, <2>1, <2>2 DEF HeapOK, Marks
  <2>4. QED
    BY <1>1, <2>3 DEF Marks, Passed
<1>9. IInv' /\ Dying' = Dying /\ CntOf(ht') = CntOf(ht)
  BY <1>7, <1>8, QuietKeeps
<1>10. Abs!Stkref(o)
  BY <1>1, <1>9 DEF Abs!Stkref, CntOf
<1>11. QED
  BY <1>9, <1>10 DEF Steps, Simulates, Abs!GCNext

LEMMA BeginScanSteps ==
  ASSUME IInv, BeginScan
  PROVE  Steps
<1>1. /\ pc = "stk" /\ stack \subseteq marked /\ pc' = "scan" /\ probe' = Top /\ marked' = marked /\ ht' = ht
      /\ UNCHANGED <<ht, fld, stack, free, marked, cell, ix, val, donext, to_do, lost, spilled>>
  BY DEF BeginScan
<1>2. Top \in -1 .. Top /\ Top \in Nat /\ \A p \in Ptr : Hash[p] <= Top
  BY TopIs
<1>3. QuietStep
  BY <1>1, <1>2 DEF QuietStep, Phases, IInv, Types
<1>4. ASSUME ~ht'.disabled PROVE Marks' /\ Passed'
  BY <1>1, <1>2, <1>4 DEF IInv, HeapOK, Marks, Passed
<1>5. IInv' /\ Dying' = Dying /\ CntOf(ht') = CntOf(ht)
  BY <1>3, <1>4, QuietKeeps
<1>6. Abs!BeginSweep
  BY <1>1, <1>5 DEF Abs!BeginSweep, CntOf
<1>7. QED
  BY <1>5, <1>6 DEF Steps, Simulates, Abs!GCNext

LEMMA BeginUnscanSteps ==
  ASSUME IInv, BeginUnscan
  PROVE  Steps
<1>1. /\ pc = "scan" /\ probe = -1 /\ pc' = "unscan" /\ probe' = Top /\ marked' = marked /\ ht' = ht
      /\ UNCHANGED <<ht, fld, stack, free, marked, cell, ix, val, donext, to_do, lost, spilled>>
  BY DEF BeginUnscan
<1>2. Top \in -1 .. Top /\ Top \in Nat /\ \A p \in Ptr : Hash[p] \in 0 .. Top /\ val = NIL
  BY <1>1, TopIs DEF IInv, ValReported
<1>3. QuietStep
  BY <1>1, <1>2 DEF QuietStep, Phases, IInv, Types
<1>4. ASSUME ~ht'.disabled PROVE Marks' /\ Passed'
  <2>1. HeapOK
    BY <1>1, <1>4 DEF IInv
  <2>2. Marks'
    BY <1>1, <1>2, <2>1 DEF HeapOK, Marks
  <2>3. ASSUME NEW p \in Ptr \ spilled, RefCnt(ht, p) = 0 PROVE p \in marked
    <3>1. ~Collectable(ht, p)
      BY <1>1, <1>2, <2>1, <2>3, Constants DEF HeapOK, Passed
    <3>2. StkBit(ht, p)
      BY <2>3, <3>1 DEF Collectable
    <3>3. QED
      BY <1>1, <2>1, <3>2 DEF HeapOK, Marks
  <2>4. Passed'
    BY <1>1, <2>3 DEF Passed
  <2>5. QED
    BY <2>2, <2>4
<1>5. IInv' /\ Dying' = Dying /\ CntOf(ht') = CntOf(ht)
  BY <1>3, <1>4, QuietKeeps
<1>6. PhaseOf(pc') = PhaseOf(pc) /\ fld' = fld /\ stack' = stack /\ marked' = marked /\ free' = free
  BY <1>1 DEF PhaseOf
<1>7. QED
  BY <1>5, <1>6, SimulatesNothing DEF Steps

LEMMA gcmapunscanSteps ==
  ASSUME IInv, gcmapunscan
  PROVE  Steps
<1> DEFINE v == gcmapunscanAt(ht, probe)
<1>1. /\ pc = "unscan" /\ pc' = "unscan" /\ probe >= 0 /\ ht' = v.t /\ probe' = (IF v.retry THEN probe ELSE probe - 1)
      /\ marked' = marked /\ spilled' = spilled /\ stack' = stack
      /\ UNCHANGED <<fld, stack, free, pc, marked, cell, ix, val, donext, to_do, lost, spilled>>
  BY DEF gcmapunscan
<1>2. probe \in Bucket /\ probe \in -1 .. Top /\ Top \in Nat /\ TableOK(ht) /\ v = gcmapunscanAt(ht, probe)
  BY <1>1, TopIs DEF IInv, Types
<1> HIDE DEF v
<1>3. Swept(ht, probe, v.t, v.retry)
  BY <1>2, gcmapunscanSweeps
<1>4. /\ TableOK(ht') /\ ht'.disabled = ht.disabled /\ v.retry \in BOOLEAN
      /\ \A q \in Ptr : RefCnt(ht', q) = RefCnt(ht, q) /\ (StkBit(ht', q) => StkBit(ht, q))
      /\ ~v.retry => \A q \in Ptr : Hash[q] = probe => ~StkBit(ht', q)
  BY <1>1, <1>3 DEF Swept, Unmarked, Rest, Bare
<1>5. probe' \in -1 .. Top /\ (v.retry => probe' = probe) /\ (~v.retry => probe' = probe - 1)
  BY <1>1, <1>2, <1>4
<1>6. QuietStep
  BY <1>1, <1>4, <1>5 DEF QuietStep, Phases, IInv, Types
<1>7. ASSUME ~ht'.disabled PROVE Marks' /\ Passed'
  <2>1. HeapOK
    BY <1>4, <1>7 DEF IInv
  <2>2. ASSUME NEW q \in Ptr, Hash[q] > probe' PROVE ~StkBit(ht', q)
    <3>1. Hash[q] \in Int /\ (Hash[q] > probe => ~StkBit(ht, q))
      BY <1>1, <2>1, TopIs DEF HeapOK, Marks
    <3>2. QED
      BY <1>2, <1>4, <1>5, <2>2, <3>1
  <2>3. QED
    BY <1>1, <1>4, <2>1, <2>2 DEF HeapOK, Marks, Passed
<1>8. IInv' /\ Dying' = Dying /\ CntOf(ht') = CntOf(ht)
  BY <1>6, <1>7, QuietKeeps
<1>9. PhaseOf(pc') = PhaseOf(pc) /\ fld' = fld /\ stack' = stack /\ marked' = marked /\ free' = free
  BY <1>1
<1>10. QED
  BY <1>8, <1>9, SimulatesNothing DEF Steps

LEMMA EndReclaimSteps ==
  ASSUME IInv, EndReclaim
  PROVE  Steps
<1>1. /\ pc = "unscan" /\ probe = -1 /\ ht' = [ht EXCEPT !.cnt = ht.min] /\ pc' = "run" /\ marked' = {} /\ probe' = probe
      /\ UNCHANGED <<fld, stack, free, probe, cell, ix, val, donext, to_do, lost>>
  BY DEF EndReclaim
<1>2. TableOK(ht) /\ ht \in Tables /\ ht.min \in Int
  BY TableTyped, TableAssumption DEF IInv, Tables, CntNIL
<1>3. Recounted(ht, ht') /\ ht'.disabled = ht.disabled
  BY <1>1, <1>2, CntEdit
<1>4. TableOK(ht') /\ Agree(ht, ht')
  BY <1>2, <1>3, RecountedAgrees
<1>5. \A q \in Ptr : RefCnt(ht', q) = RefCnt(ht, q) /\ (StkBit(ht', q) <=> StkBit(ht, q))
  BY <1>4 DEF Agree
<1>6. QuietStep
  BY <1>1, <1>3, <1>4, <1>5 DEF QuietStep, Phases, IInv, Types
<1>7. ASSUME ~ht'.disabled PROVE Marks' /\ Passed'
  <2>1. HeapOK
    BY <1>3, <1>7 DEF IInv
  <2>2. \A q \in Ptr : Hash[q] > probe
    BY <1>1, TopIs
  <2>3. \A q \in Ptr : ~StkBit(ht', q)
    BY <1>1, <1>5, <2>1, <2>2 DEF HeapOK, Marks
  <2>4. QED
    BY <1>1, <2>3 DEF Marks, Passed
<1>8. IInv' /\ Dying' = Dying /\ CntOf(ht') = CntOf(ht)
  BY <1>6, <1>7, QuietKeeps
<1>9. Abs!GCEnd
  BY <1>1, <1>8 DEF Abs!GCEnd, CntOf
<1>10. QED
  BY <1>8, <1>9 DEF Steps, Simulates, Abs!GCNext

\* An object with no count and no mark is taken out of the table.
TakeStep(p) ==
  /\ pc \in {"scan", "doval"} /\ pc' = "rec" /\ cell' = p /\ ix' = 1 /\ val' = NIL
  /\ UNCHANGED <<fld, stack, free, marked, donext, to_do, lost, spilled>> /\ probe' \in -1 .. Top
  /\ Collectable(ht, p) /\ Says(ht, ht', p, 1, FALSE) /\ (ht'.disabled <=> ht.disabled)

LEMMA TakeSteps ==
  ASSUME IInv, NEW p \in Ptr, TakeStep(p), ~ht'.disabled => Passed'
  PROVE  Steps
<1>1. /\ pc \in {"scan", "doval"} /\ pc' = "rec" /\ cell' = p /\ ix' = 1 /\ val' = NIL
      /\ fld' = fld /\ stack' = stack /\ free' = free /\ marked' = marked /\ donext' = donext /\ to_do' = to_do
      /\ lost' = lost /\ spilled' = spilled /\ probe' \in -1 .. Top /\ (ht'.disabled <=> ht.disabled)
  BY DEF TakeStep
<1>2. /\ RefCnt(ht, p) = 0 /\ ~StkBit(ht, p) /\ TableOK(ht') /\ RefCnt(ht', p) = 1 /\ ~StkBit(ht', p)
      /\ \A q \in Ptr : q # p => RefCnt(ht', q) = RefCnt(ht, q) /\ (StkBit(ht', q) <=> StkBit(ht, q))
  BY DEF TakeStep, Collectable, Says
<1>3. p \notin free \cup Dying
  BY <1>2 DEF IInv, NoEntries
<1>4. InWork = {} /\ InWork' = {p}
  BY <1>1 DEF InWork
<1>5. Dying' = Dying \cup {p} /\ Dying \subseteq Ptr /\ free \subseteq Ptr
  <2>1. Dying' = (Objs(donext) \cup Objs(to_do) \cup lost \cup InWork)'
    BY DEF Dying, Objs, Waiting, InWork
  <2>2. Dying = Objs(donext) \cup Objs(to_do) \cup lost
    BY <1>4, DyingIs
  <2>3. QED
    BY <1>1, <1>4, <2>1, <2>2, DyingTyped DEF Objs, Waiting, IInv, Types
<1>6. Types'
  BY <1>1, Constants DEF IInv, Types, Phases
<1>7. OnePlace'
  BY <1>1, <1>3, <1>4, <1>5, DyingIs DEF IInv, OnePlace, Objs, Waiting, Distinct
<1>8. ValReported' /\ NoEntries'
  BY <1>1, <1>2, <1>5 DEF IInv, ValReported, NoEntries
<1>9. ASSUME ~ht'.disabled PROVE HeapOK' /\ p \notin marked
  <2>1. HeapOK
    BY <1>1, <1>9 DEF IInv
  <2>2. Emptied'
    BY <1>1, <2>1, Constants DEF HeapOK, Emptied, Waiting
  <2>3. CountsRight'
    BY <1>1, <1>2, <1>5, <2>1 DEF HeapOK, CountsRight
  <2>4. p \notin marked /\ p \notin stack
    BY <1>1, <1>2, <2>1 DEF HeapOK, Marks
  <2>5. Refs(fld, p) = {}
    BY <1>2, <1>3, <2>1, RefsFinite DEF HeapOK, CountsRight
  <2>6. NoDangling'
    BY <1>1, <1>5, <2>1, <2>4, <2>5 DEF HeapOK, NoDangling
  <2>7. Marks'
    BY <1>1, <1>2, <2>1 DEF HeapOK, Marks
  <2>8. QED
    BY <1>9, <2>2, <2>3, <2>4, <2>6, <2>7 DEF HeapOK
<1>10. IInv'
  BY <1>2, <1>6, <1>7, <1>8, <1>9 DEF IInv
<1>11. ASSUME ~ht'.disabled PROVE Simulates
  <2> DEFINE new == [CntOf(ht) EXCEPT ![p] = 1]
  <2>1. CntOf(ht') = new
    <3>1. p \in Obj
      BY Constants
    <3>2. ASSUME NEW q \in Obj PROVE CntOf(ht')[q] = new[q]
      BY <1>2, <3>1 DEF CntOf
    <3>3. CntOf(ht') = [q \in Obj |-> CntOf(ht')[q]] /\ new = [q \in Obj |-> new[q]]
      BY DEF CntOf
    <3>4. QED
      BY <3>2, <3>3
  <2>2. CntOf(ht)[p] = 0 /\ p \in Abs!Heap
    BY <1>2, Constants DEF CntOf, Abs!Heap
  <2>3. Abs!Take(p)
    <3>1. p \in Abs!Heap \ (free \cup Dying) /\ p \notin marked
      BY <1>3, <1>9, <1>11, <2>2
    <3>2. QED
      BY <1>1, <1>5, <2>1, <2>2, <3>1 DEF Abs!Take, CntOf
  <2>4. QED
    BY <2>2, <2>3 DEF Simulates, Abs!GCNext
<1>12. QED
  BY <1>10, <1>11 DEF Steps

LEMMA gcmapscanSteps ==
  ASSUME IInv, gcmapscan
  PROVE  Steps
<1> DEFINE v == gcmapscanAt(ht, probe)
<1>1. /\ pc = "scan" /\ probe >= 0 /\ ht' = v.t /\ probe' = (IF v.retry THEN probe ELSE probe - 1)
      /\ (v.ptr = NIL => pc' = pc /\ cell' = cell) /\ (v.ptr # NIL => pc' = "rec" /\ cell' = v.ptr /\ ix' = 1)
      /\ UNCHANGED <<fld, stack, free, marked, val, donext, to_do, lost, spilled>>
  BY DEF gcmapscan
<1>2. probe \in Bucket /\ probe \in -1 .. Top /\ Top \in Nat /\ TableOK(ht) /\ v = gcmapscanAt(ht, probe) /\ val = NIL
  BY <1>1, TopIs DEF IInv, Types, ValReported
<1> HIDE DEF v
<1>3. \/ v = [t |-> ht, ptr |-> NIL, retry |-> FALSE] /\ NothingToTake(ht, probe)
      \/ Taken(ht, probe, v.t, v.ptr) /\ (v.retry <=> ht.main[probe].tag = "link") /\ v.retry \in BOOLEAN
  BY <1>2, gcmapscanTakes
<1>4. CASE v = [t |-> ht, ptr |-> NIL, retry |-> FALSE] /\ NothingToTake(ht, probe)
  <2>1. ht' = ht /\ probe' = probe - 1 /\ pc' = "scan" /\ cell' = cell /\ probe' \in -1 .. Top
    BY <1>1, <1>2, <1>4
  <2>2. QuietStep
    BY <1>1, <1>2, <2>1 DEF QuietStep, Phases, IInv, Types
  <2>3. ASSUME ~ht'.disabled PROVE Marks' /\ Passed'
    <3>1. HeapOK
      BY <2>1, <2>3 DEF IInv
    <3>2. ASSUME NEW p \in Ptr \ spilled, Collectable(ht, p), p # val PROVE Hash[p] <= probe - 1
      <4>1. Hash[p] <= probe /\ Hash[p] # probe /\ Hash[p] \in Int
        BY <1>1, <1>4, <3>1, <3>2, TopIs DEF HeapOK, Passed, NothingToTake
      <4>2. QED
        BY <1>2, <4>1
    <3>3. QED
      BY <1>1, <2>1, <3>1, <3>2 DEF HeapOK, Marks, Passed
  <2>4. IInv' /\ Dying' = Dying /\ CntOf(ht') = CntOf(ht)
    BY <2>2, <2>3, QuietKeeps
  <2>5. PhaseOf(pc') = PhaseOf(pc) /\ fld' = fld /\ stack' = stack /\ marked' = marked /\ free' = free
    BY <1>1, <2>1
  <2>6. QED
    BY <2>4, <2>5, SimulatesNothing DEF Steps
<1>5. CASE Taken(ht, probe, v.t, v.ptr) /\ (v.retry <=> ht.main[probe].tag = "link") /\ v.retry \in BOOLEAN
  <2> DEFINE p == v.ptr
  <2>1. /\ p \in Ptr /\ Hash[p] = probe /\ Collectable(ht, p) /\ Says(ht, ht', p, 1, FALSE)
        /\ (ht'.disabled <=> ht.disabled) /\ p # NIL /\ Taken(ht, probe, ht', p)
    BY <1>1, <1>5, Constants DEF Taken, Rest
  <2>2. probe' \in -1 .. Top /\ (v.retry => probe' = probe) /\ (~v.retry => probe' = probe - 1)
    BY <1>1, <1>2, <1>5
  <2>3. TakeStep(p)
    BY <1>1, <1>2, <2>1, <2>2 DEF TakeStep
  <2> HIDE DEF p
  <2>4. ASSUME ~ht'.disabled PROVE Passed'
    <3>1. HeapOK
      BY <2>1, <2>4 DEF IInv
    <3>2. ASSUME NEW q \in Ptr \ spilled, Collectable(ht', q) PROVE Hash[q] <= probe'
      <4>1. q # p
        BY <2>1, <3>2 DEF Says, Collectable
      <4>2. Collectable(ht, q)
        BY <2>1, <3>2, <4>1 DEF Says, Collectable
      <4>3. Hash[q] <= probe /\ Hash[q] \in Int
        BY <1>1, <1>2, <3>1, <4>2, TopIs, Constants DEF HeapOK, Passed
      <4>4. CASE v.retry
        BY <2>2, <4>3, <4>4
      <4>5. CASE ~v.retry
        <5>1. NothingToTake(ht', probe)
          BY <1>2, <1>5, <2>1, <4>5, TakenAlone
        <5>2. Hash[q] # probe
          BY <3>2, <5>1 DEF NothingToTake
        <5>3. QED
          BY <1>2, <2>2, <4>3, <4>5, <5>2
      <4>6. QED
        BY <4>4, <4>5
    <3>3. pc' = "rec" /\ spilled' = spilled
      BY <2>3 DEF TakeStep
    <3>4. QED
      BY <3>2, <3>3 DEF Passed
  <2>5. QED
    BY <2>1, <2>3, <2>4, TakeSteps
<1>6. QED
  BY <1>3, <1>4, <1>5

LEMMA DovalSteps ==
  ASSUME IInv, Doval
  PROVE  Steps
<1> DEFINE l == REC_GCLOOKUPV(ht, val, "ADDREF")
<1>1. /\ pc = "doval" /\ val # NIL /\ ht' = l.t /\ cell' = val /\ ix' = 1 /\ val' = NIL /\ pc' = "rec"
      /\ UNCHANGED <<fld, stack, free, probe, marked, donext, to_do, lost, spilled>>
  BY DEF Doval
<1>2. TableOK(ht) /\ ~ht.disabled /\ val \in Ptr /\ val \in Obj \cup {NIL} /\ Collectable(ht, val) /\ "ADDREF" \in Ops
  BY <1>1, Constants DEF IInv, ValReported, Types, Ops
<1>3. RefCnt(ht, val) = 0 /\ ~StkBit(ht, val) /\ HasEntry(ht, val)
  BY <1>2, EntrySaysMore DEF Collectable, NeedsNoEntry
<1>4. Outcome(ht, l.t, l.val, val, "ADDREF", TRUE)
  BY <1>2, LookupOutcome
<1>5. ~l.t.disabled
  BY <1>2, <1>3, KnownFits
<1> HIDE DEF l
<1>6. Says(ht, ht', val, 1, FALSE) /\ ~ht'.disabled
  <2>1. Counts(ht, ht', val, "ADDREF", TRUE)
    BY <1>1, <1>2, <1>4, <1>5 DEF Outcome, Looked, SwitchedOff
  <2>2. CountAfter(ht, val, "ADDREF") = 1 /\ (StkAfter(ht, val, "ADDREF") <=> FALSE)
    BY <1>3 DEF CountAfter, StkAfter
  <2>3. QED
    BY <1>1, <1>5, <2>1, <2>2 DEF Counts, Says
<1>7. TakeStep(val)
  BY <1>1, <1>2, <1>6 DEF TakeStep, IInv, Types
<1>8. Passed'
  <2>1. HeapOK
    BY <1>2 DEF IInv
  <2>2. ASSUME NEW q \in Ptr \ spilled, Collectable(ht', q) PROVE Hash[q] <= probe
    <3>1. q # val
      BY <1>6, <2>2 DEF Says, Collectable
    <3>2. Collectable(ht, q)
      BY <1>6, <2>2, <3>1 DEF Says, Collectable
    <3>3. QED
      BY <1>1, <2>1, <3>1, <3>2 DEF HeapOK, Passed
  <2>3. QED
    BY <1>1, <2>2 DEF Passed
<1>9. QED
  BY <1>2, <1>7, <1>8, TakeSteps

-----------------------------------------------------------------------------
(* gcreccell.                                                              *)

\* Dying is what the worklists hold, before and after a step.
LEMMA DyingNext == Dying' = Objs(donext') \cup Objs(to_do') \cup lost' \cup InWork'
BY DEF Dying, Objs, Waiting, InWork

LEMMA ReleaseSteps ==
  ASSUME IInv, Release
  PROVE  Steps
<1>1. /\ pc = "release" /\ free' = free \cup {cell} /\ pc' = "doval"
      /\ ht' = ht /\ fld' = fld /\ stack' = stack /\ UNCHANGED gcvars
  BY DEF Release
<1>2. /\ probe' = probe /\ marked' = marked /\ cell' = cell /\ ix' = ix /\ val' = val
      /\ donext' = donext /\ to_do' = to_do /\ lost' = lost /\ spilled' = spilled
  BY <1>1 DEF gcvars
<1>3. InWork = {cell} /\ InWork' = {} /\ cell \in Ptr
  BY <1>1 DEF InWork, IInv, Types
<1>4. Dying = Objs(donext) \cup Objs(to_do) \cup lost \cup {cell} /\ Dying' = Objs(donext) \cup Objs(to_do) \cup lost
  BY <1>2, <1>3, DyingIs, DyingNext
<1>5. /\ cell \notin Objs(donext) \cup Objs(to_do) \cup lost /\ free \cap Dying = {}
      /\ Distinct(donext) /\ Distinct(to_do) /\ Objs(donext) \cap Objs(to_do) = {}
      /\ (Objs(donext) \cup Objs(to_do)) \cap lost = {}
  BY <1>3 DEF IInv, OnePlace
<1>6. Dying' = Dying \ {cell} /\ free' \cup Dying' = free \cup Dying /\ free' \cap Dying' = {} /\ cell \in Dying
  BY <1>1, <1>4, <1>5
<1>7. Types'
  BY <1>1, <1>2, <1>3 DEF IInv, Types, Phases
<1>8. OnePlace'
  BY <1>2, <1>3, <1>5, <1>6 DEF OnePlace
<1>9. ValReported' /\ NoEntries'
  BY <1>1, <1>2, <1>6 DEF IInv, ValReported, NoEntries
<1>10. ASSUME ~ht'.disabled PROVE HeapOK' /\ \A x \in Field : fld[<<cell, x>>] = NIL
  <2>1. HeapOK
    BY <1>1, <1>10 DEF IInv
  <2>2. \A x \in Field : fld[<<cell, x>>] = NIL
    BY <1>1, <2>1 DEF HeapOK, Emptied
  <2>3. \A r \in Place : r[1] = cell => fld[r] = NIL
    BY <2>2 DEF Place
  <2>4. Emptied'
    BY <1>1, <1>2, <2>1, <2>3 DEF HeapOK, Emptied
  <2>5. CountsRight' /\ NoDangling'
    BY <1>1, <1>6, <2>1 DEF HeapOK, CountsRight, NoDangling
  <2>6. Marks' /\ Passed'
    BY <1>1, <1>2, <2>1 DEF HeapOK, Marks, Passed
  <2>7. QED
    BY <2>2, <2>4, <2>5, <2>6 DEF HeapOK
<1>11. IInv'
  BY <1>1, <1>7, <1>8, <1>9, <1>10 DEF IInv
<1>12. ASSUME ~ht'.disabled PROVE Simulates
  <2>1. Abs!Release(cell) /\ cell \in Abs!Heap
    BY <1>1, <1>2, <1>3, <1>6, <1>10, <1>12, Constants DEF Abs!Release, Abs!Heap
  <2>2. QED
    BY <2>1 DEF Simulates, Abs!GCNext
<1>13. QED
  BY <1>11, <1>12 DEF Steps

\* gcreccell goes on with cell w, which waited.
TakeUp(w) ==
  /\ pc = "doval" /\ val = NIL /\ pc' = "rec" /\ cell' = w.obj /\ ix' = w.at /\ w \in Waiter
  /\ donext' \in Seq(Waiter) /\ to_do' \in Seq(Waiter) /\ Len(to_do') <= TODO_LIMIT
  /\ Distinct(donext') /\ Distinct(to_do') /\ Objs(donext') \cap Objs(to_do') = {}
  /\ w.obj \notin Objs(donext') \cup Objs(to_do')
  /\ Waiting(donext) \cup Waiting(to_do) = Waiting(donext') \cup Waiting(to_do') \cup {w}
  /\ Objs(donext) \cup Objs(to_do) = Objs(donext') \cup Objs(to_do') \cup {w.obj}
  /\ UNCHANGED <<ht, fld, stack, free, probe, marked, val, lost, spilled>>

LEMMA TakeUpSteps ==
  ASSUME IInv, NEW w, TakeUp(w)
  PROVE  Steps
<1>1. /\ pc = "doval" /\ val = NIL /\ pc' = "rec" /\ cell' = w.obj /\ ix' = w.at /\ w \in Waiter
      /\ donext' \in Seq(Waiter) /\ to_do' \in Seq(Waiter) /\ Len(to_do') <= TODO_LIMIT
      /\ Distinct(donext') /\ Distinct(to_do') /\ Objs(donext') \cap Objs(to_do') = {}
      /\ w.obj \notin Objs(donext') \cup Objs(to_do')
      /\ Waiting(donext) \cup Waiting(to_do) = Waiting(donext') \cup Waiting(to_do') \cup {w}
      /\ Objs(donext) \cup Objs(to_do) = Objs(donext') \cup Objs(to_do') \cup {w.obj}
      /\ ht' = ht /\ fld' = fld /\ stack' = stack /\ free' = free /\ probe' = probe /\ marked' = marked
      /\ val' = val /\ lost' = lost /\ spilled' = spilled
  BY DEF TakeUp
<1>2. w.obj \in Ptr /\ w.at \in 1 .. Arity[w.obj]
  <2>1. w.obj \in Ptr /\ w.at \in Field /\ w.at <= Arity[w.obj]
    BY <1>1 DEF Waiter
  <2>2. QED
    BY <2>1, Constants
<1>3. InWork = {} /\ InWork' = {w.obj}
  BY <1>1 DEF InWork
<1>4. Dying = Objs(donext) \cup Objs(to_do) \cup lost /\ Dying' = Objs(donext') \cup Objs(to_do') \cup lost \cup {w.obj}
  BY <1>1, <1>3, DyingIs, DyingNext
<1>5. Dying' = Dying
  BY <1>1, <1>4
<1>6. Types'
  BY <1>1, <1>2 DEF IInv, Types, Phases
<1>7. OnePlace'
  <2>1. (Objs(donext) \cup Objs(to_do)) \cap lost = {} /\ free \cap Dying = {}
    BY DEF IInv, OnePlace
  <2>2. (Objs(donext') \cup Objs(to_do')) \cap lost = {} /\ w.obj \notin lost
    BY <1>1, <2>1
  <2>3. QED
    BY <1>1, <1>3, <1>5, <2>1, <2>2 DEF OnePlace
<1>8. ValReported' /\ NoEntries'
  BY <1>1, <1>5 DEF IInv, ValReported, NoEntries
<1>9. ASSUME ~ht'.disabled PROVE HeapOK'
  <2>1. HeapOK
    BY <1>1, <1>9 DEF IInv
  <2>2. \A y \in Waiting(donext') \cup Waiting(to_do') \cup {w}, x \in Field : x < y.at => fld[<<y.obj, x>>] = NIL
    BY <1>1, <2>1 DEF HeapOK, Emptied
  <2>3. Emptied'
    BY <1>1, <2>1, <2>2 DEF HeapOK, Emptied
  <2>4. CountsRight' /\ NoDangling'
    BY <1>1, <1>5, <2>1 DEF HeapOK, CountsRight, NoDangling
  <2>5. Marks' /\ Passed'
    BY <1>1, <2>1 DEF HeapOK, Marks, Passed
  <2>6. QED
    BY <2>3, <2>4, <2>5 DEF HeapOK
<1>10. IInv'
  BY <1>1, <1>6, <1>7, <1>8, <1>9 DEF IInv
<1>11. Simulates
  BY <1>1, <1>5, SimulatesNothing DEF PhaseOf
<1>12. QED
  BY <1>10, <1>11 DEF Steps

LEMMA TryNextSteps ==
  ASSUME IInv, TryNext
  PROVE  Steps
<1>1. /\ pc = "doval" /\ val = NIL
      /\ ht' = ht /\ fld' = fld /\ stack' = stack /\ free' = free /\ probe' = probe /\ marked' = marked
      /\ val' = val /\ lost' = lost /\ spilled' = spilled
  BY DEF TryNext
<1>2. /\ donext \in Seq(Waiter) /\ to_do \in Seq(Waiter) /\ Len(to_do) <= TODO_LIMIT /\ TODO_LIMIT \in Nat
      /\ Distinct(donext) /\ Distinct(to_do) /\ Objs(donext) \cap Objs(to_do) = {}
  BY Constants DEF IInv, Types, OnePlace
<1>3. CASE donext # <<>> /\ cell' = Head(donext).obj /\ ix' = Head(donext).at /\ donext' = Tail(donext)
           /\ pc' = "rec" /\ to_do' = to_do
  <2> DEFINE w == Head(donext)
  <2>1. Pushed(donext', donext, w)
    BY <1>2, <1>3, PopFront
  <2>2. cell' = w.obj /\ ix' = w.at
    BY <1>3
  <2> HIDE DEF w
  <2>3. TakeUp(w)
    BY <1>1, <1>2, <1>3, <2>1, <2>2 DEF Pushed, TakeUp
  <2>4. QED
    BY <2>3, TakeUpSteps
<1>4. CASE donext = <<>> /\ to_do # <<>> /\ cell' = to_do[Len(to_do)].obj /\ ix' = to_do[Len(to_do)].at
           /\ to_do' = SubSeq(to_do, 1, Len(to_do) - 1) /\ pc' = "rec" /\ donext' = donext
  <2> DEFINE w == to_do[Len(to_do)]
  <2>1. Pushed(to_do', to_do, w)
    BY <1>2, <1>4, PopBack
  <2>2. cell' = w.obj /\ ix' = w.at
    BY <1>4
  <2> HIDE DEF w
  <2>3. Len(to_do') <= TODO_LIMIT
    BY <1>2, <2>1 DEF Pushed
  <2>4. TakeUp(w)
    BY <1>1, <1>2, <1>4, <2>1, <2>2, <2>3 DEF Pushed, TakeUp
  <2>5. QED
    BY <2>4, TakeUpSteps
<1>5. CASE cell' = NIL /\ pc' = "scan" /\ donext' = donext /\ to_do' = to_do
  <2>1. QuietStep
    BY <1>1, <1>5 DEF QuietStep, Phases, IInv, Types
  <2>2. ASSUME ~ht'.disabled PROVE Marks' /\ Passed'
    BY <1>1, <1>5, <2>2 DEF IInv, HeapOK, Marks, Passed
  <2>3. IInv' /\ Dying' = Dying /\ CntOf(ht') = CntOf(ht)
    BY <2>1, <2>2, QuietKeeps
  <2>4. PhaseOf(pc') = PhaseOf(pc)
    BY <1>1, <1>5 DEF PhaseOf
  <2>5. QED
    BY <1>1, <2>3, <2>4, SimulatesNothing DEF Steps
<1>6. QED
  BY <1>3, <1>4, <1>5 DEF TryNext, Unthreaded

\* The field gcreccell is at.
At_ix == <<cell, ix>>

\* Its reference is gone, and the lookup said w.
FieldDropped(w) ==
  /\ At_ix \in Place /\ fld' = Put(fld, At_ix, NIL) /\ fld' \in Heaps
  /\ TableOK(ht') /\ (ht.disabled => ht'.disabled)
  /\ w # NIL => ~ht'.disabled /\ w \in Ptr /\ Collectable(ht', w)
  /\ \A q \in free \cup Dying : RefCnt(ht', q) = 1
  /\ ~ht'.disabled =>
       /\ \A q \in Ptr : /\ RefCnt(ht', q) = RefCnt(ht, q) - One(q, fld[At_ix])
                         /\ StkBit(ht', q) <=> StkBit(ht, q)
                         /\ q \notin free \cup Dying => RefCnt(ht', q) = NumRefs(fld', q)
                         /\ Collectable(ht', q) => Collectable(ht, q) \/ q = w
       /\ \A q \in free \cup Dying : Refs(fld', q) = {}

LEMMA DropField ==
  ASSUME IInv, pc = "rec", NEW l, l = REC_GCLOOKUPV(ht, fld[At_ix], "DELREF"), ht' = l.t,
         fld' = [fld EXCEPT ![At_ix] = NIL]
  PROVE  FieldDropped(l.val)
<1> DEFINE old == fld[At_ix]
           w == l.val
           none == NIL
<1>1. /\ TableOK(ht) /\ fld \in Heaps /\ cell \in Ptr /\ ix \in Field /\ At_ix \in Place /\ old \in Obj \cup {NIL}
      /\ "DELREF" \in Ops /\ none \in Obj \cup {NIL} /\ free \cup Dying \subseteq Ptr /\ old = fld[At_ix]
  <2>1. cell \in Ptr /\ ix \in 1 .. Arity[cell]
    BY DEF IInv, Types
  <2>2. ix \in Field
    BY <2>1, Constants
  <2>3. At_ix \in Place
    BY <2>1, <2>2, Constants DEF At_ix, Place
  <2>4. QED
    BY <2>1, <2>2, <2>3, DyingTyped DEF IInv, Types, Heaps, Ops
<1>2. l = REC_GCLOOKUPV(ht, old, "DELREF") /\ ht' = l.t /\ w = l.val
  OBVIOUS
<1> HIDE DEF old, w, none
<1>3. ~ht.disabled /\ old \in Ptr => old \notin free \cup Dying /\ RefCnt(ht, old) > 0
  <2> SUFFICES ASSUME ~ht.disabled, old \in Ptr PROVE old \notin free \cup Dying /\ RefCnt(ht, old) > 0
    OBVIOUS
  <2>1. HeapOK
    BY DEF IInv
  <2>2. At_ix \in Refs(fld, old)
    BY <1>1 DEF Refs
  <2>3. old \notin free \cup Dying
    BY <2>1, <2>2 DEF HeapOK, NoDangling
  <2>4. RefCnt(ht, old) = NumRefs(fld, old)
    BY <2>1, <2>3 DEF HeapOK, CountsRight
  <2>5. QED
    BY <2>2, <2>3, <2>4, RefsFinite
<1>4. Looks(ht, ht', w, old, "DELREF")
  BY <1>1, <1>2, <1>3, LookupLooks
<1>5. /\ TableOK(ht') /\ (ht.disabled => ht'.disabled)
      /\ w # NIL => ~ht'.disabled /\ w \in Ptr /\ Collectable(ht', w)
  BY <1>4 DEF Looks
<1>6. fld' = Put(fld, At_ix, none) /\ fld' \in Heaps
  BY <1>1, PutTyped DEF Put, none
<1>7. ASSUME NEW q \in free \cup Dying PROVE RefCnt(ht', q) = 1
  <2>1. q \in Ptr /\ RefCnt(ht, q) = 1
    BY <1>1 DEF IInv, NoEntries
  <2>2. ~ht.disabled => q # old
    BY <1>3, <2>1
  <2>3. RefCnt(ht', q) = RefCnt(ht, q)
    BY <1>1, <1>4, <2>1, <2>2, LooksOther
  <2>4. QED
    BY <2>1, <2>3
<1>8. ASSUME ~ht'.disabled, NEW q \in Ptr
      PROVE  /\ RefCnt(ht', q) = RefCnt(ht, q) - One(q, old)
             /\ StkBit(ht', q) <=> StkBit(ht, q)
             /\ q \notin free \cup Dying => RefCnt(ht', q) = NumRefs(fld', q)
             /\ Collectable(ht', q) => Collectable(ht, q) \/ q = w
  <2>1. RefCnt(ht, q) \in Nat /\ q \in Obj /\ q # none
    BY <1>1, EntrySaysMore, Constants DEF none
  <2>2. RefCnt(ht', q) = RefCnt(ht, q) + Delta(q, old, "DELREF") /\ (StkBit(ht', q) <=> StkBit(ht, q))
    BY <1>4, <1>8 DEF Looks
  <2>3. RefCnt(ht', q) = RefCnt(ht, q) - One(q, old)
    BY <2>1, <2>2 DEF Delta, One
  <2>4. ASSUME q \notin free \cup Dying PROVE RefCnt(ht', q) = NumRefs(fld', q)
    <3>1. RefCnt(ht, q) = NumRefs(fld, q)
      BY <1>5, <1>8, <2>4 DEF IInv, HeapOK, CountsRight
    <3> DEFINE g == Put(fld, At_ix, none)
    <3>2. NumRefs(g, q) = NumRefs(fld, q) + One(q, none) - One(q, fld[At_ix])
      BY <1>1, <2>1, PutCounts
    <3>3. fld' = g
      BY <1>6
    <3> HIDE DEF g
    <3>4. One(q, none) = 0 /\ One(q, fld[At_ix]) = One(q, old)
      BY <1>1, <2>1 DEF One
    <3>5. NumRefs(fld', q) = NumRefs(g, q)
      BY <3>3
    <3>6. One(q, old) \in {0, 1}
      BY DEF One
    <3>7. QED
      BY <2>1, <2>3, <3>1, <3>2, <3>4, <3>5, <3>6
  <2>5. ASSUME Collectable(ht', q) PROVE Collectable(ht, q) \/ q = w
    <3>1. CASE q = old
      BY <1>4, <1>8, <2>5, <3>1 DEF Looks
    <3>2. CASE q # old
      BY <2>1, <2>2, <2>3, <2>5, <3>2 DEF Collectable, One
    <3>3. QED
      BY <3>1, <3>2
  <2>6. QED
    BY <2>2, <2>3, <2>4, <2>5
<1>9. ASSUME ~ht'.disabled, NEW q \in free \cup Dying PROVE Refs(fld', q) = {}
  <2>1. q \in Ptr /\ q # none /\ Refs(fld, q) = {}
    BY <1>1, <1>5, <1>9, Constants DEF IInv, HeapOK, NoDangling, none
  <2> DEFINE g == Put(fld, At_ix, none)
  <2>2. Refs(g, q) = {}
    BY <1>1, <2>1, PutRefs
  <2>3. fld' = g
    BY <1>6
  <2> HIDE DEF g
  <2>4. QED
    BY <2>2, <2>3
<1>10. QED
  BY <1>1, <1>5, <1>6, <1>7, <1>8, <1>9 DEF FieldDropped, old, w, none

\* What is left to show of a step that drops a field.
LEMMA FieldSteps ==
  ASSUME IInv, pc = "rec", NEW w, FieldDropped(w), stack' = stack, free' = free, marked' = marked, probe' = probe,
         pc' \in {"rec", "release", "doval"}, Dying' = Dying, Types', OnePlace', ValReported',
         w # NIL => w = val' \/ w \in spilled', spilled \subseteq spilled',
         ~ht'.disabled => Emptied'
  PROVE  Steps
<1>1. /\ At_ix \in Place /\ fld' = Put(fld, At_ix, NIL) /\ fld' \in Heaps
      /\ TableOK(ht') /\ (ht.disabled => ht'.disabled)
      /\ \A q \in free \cup Dying : RefCnt(ht', q) = 1
  BY DEF FieldDropped
<1>2. ASSUME ~ht'.disabled
      PROVE  /\ \A q \in Ptr : /\ RefCnt(ht', q) = RefCnt(ht, q) - One(q, fld[At_ix])
                               /\ StkBit(ht', q) <=> StkBit(ht, q)
                               /\ q \notin free \cup Dying => RefCnt(ht', q) = NumRefs(fld', q)
                               /\ Collectable(ht', q) => Collectable(ht, q) \/ q = w
             /\ \A q \in free \cup Dying : Refs(fld', q) = {}
             /\ HeapOK
  BY <1>1, <1>2 DEF FieldDropped, IInv
<1>3. NoEntries'
  BY <1>1 DEF NoEntries
<1>4. val = NIL
  BY DEF IInv, ValReported
<1>5. ASSUME ~ht'.disabled PROVE HeapOK'
  <2>1. CountsRight' /\ NoDangling'
    BY <1>2, <1>5 DEF CountsRight, HeapOK, NoDangling
  <2>2. Marks'
    BY <1>2, <1>5 DEF HeapOK, Marks
  <2>3. ASSUME NEW q \in Ptr \ spilled', Collectable(ht', q), q # val' PROVE Hash[q] <= probe
    <3>1. q # w
      BY <2>3, Constants
    <3>2. Collectable(ht, q) /\ q \in Ptr \ spilled /\ q # val
      BY <1>2, <1>4, <1>5, <2>3, <3>1, Constants
    <3>3. QED
      BY <1>2, <1>5, <3>2 DEF HeapOK, Passed
  <2>4. Passed'
    BY <2>3 DEF Passed
  <2>5. QED
    BY <1>5, <2>1, <2>2, <2>4 DEF HeapOK
<1>6. IInv'
  BY <1>1, <1>3, <1>5 DEF IInv
<1>7. ASSUME ~ht'.disabled PROVE Simulates
  <2>1. PhaseOf(pc) = "sweep" /\ PhaseOf(pc') = "sweep"
    BY DEF PhaseOf
  <2>2. CASE fld[At_ix] = NIL
    <3>1. fld' = fld
      BY <1>1, <2>2 DEF Put, IInv, Types
    <3>2. ASSUME NEW q \in Ptr PROVE RefCnt(ht', q) = RefCnt(ht, q)
      <4>1. RefCnt(ht, q) \in Nat /\ One(q, fld[At_ix]) = 0
        BY <2>2, EntrySaysMore, Constants DEF One, IInv
      <4>2. QED
        BY <1>2, <1>7, <4>1
    <3>3. CntOf(ht') = CntOf(ht)
      BY <3>2 DEF CntOf
    <3>4. QED
      BY <2>1, <3>1, <3>3, SimulatesNothing
  <2>3. CASE fld[At_ix] # NIL
    <3>0. PICK r \in Place : r = At_ix
      BY <1>1
    <3> DEFINE new == [p \in Obj |-> IF p = fld[r] /\ p \in Obj \ Root THEN CntOf(ht)[p] - 1 ELSE CntOf(ht)[p]]
    <3>1. CntOf(ht') = new
      <4>1. ASSUME NEW p \in Obj PROVE CntOf(ht')[p] = new[p]
        <5>1. CASE p \in Ptr
          <6>1. RefCnt(ht', p) = RefCnt(ht, p) - One(p, fld[At_ix]) /\ RefCnt(ht, p) \in Nat /\ p \in Obj \ Root
            BY <1>2, <1>7, <5>1, EntrySaysMore, Constants DEF IInv
          <6>2. QED
            BY <3>0, <5>1, <6>1 DEF CntOf, One
        <5>2. CASE p \notin Ptr
          BY <5>2, Constants DEF CntOf
        <5>3. QED
          BY <5>1, <5>2
      <4>2. CntOf(ht') = [p \in Obj |-> CntOf(ht')[p]]
        BY DEF CntOf
      <4>3. QED
        BY <4>1, <4>2
    <3>2. r[1] \in Dying /\ fld' = [fld EXCEPT ![r] = NIL] /\ r \in Abs!Place
      <4>1. cell \in InWork
        BY DEF InWork
      <4>2. r[1] = cell
        BY <3>0 DEF At_ix
      <4>3. QED
        BY <1>1, <3>0, <4>1, <4>2, DyingIs DEF Put, Abs!Place, Place
    <3>3. PhaseOf(pc) = "sweep" /\ fld[r] # NIL /\ PhaseOf(pc') = PhaseOf(pc)
      BY <2>1, <2>3, <3>0
    <3>4. Abs!DropRef(r)
      BY <3>1, <3>2, <3>3, Zenon DEF Abs!DropRef, Abs!Heap, CntOf, PhaseOf, new
    <3>5. \E s \in Abs!Place : Abs!Load(s) \/ Abs!DropRef(s)
      BY <3>2, <3>4
    <3>6. QED
      BY <3>5 DEF Simulates, Abs!GCNext
  <2>4. QED
    BY <2>2, <2>3
<1>8. QED
  BY <1>6, <1>7 DEF Steps

\* What is empty after a field was dropped.
LEMMA FieldEmptied ==
  ASSUME IInv, pc = "rec", NEW w, FieldDropped(w), ~ht'.disabled
  PROVE  /\ \A r \in Place : r[2] > Arity[r[1]] \/ r[1] \in free => fld'[r] = NIL
         /\ \A x \in Field : x <= ix => fld'[<<cell, x>>] = NIL
         /\ \A y \in Waiting(donext) \cup Waiting(to_do), x \in Field : x < y.at => fld'[<<y.obj, x>>] = NIL
<1>1. /\ At_ix \in Place /\ fld' = Put(fld, At_ix, NIL) /\ ~ht.disabled /\ fld \in Heaps
      /\ cell \in Ptr /\ ix \in 1 .. Arity[cell]
  BY DEF FieldDropped, IInv, Types, Heaps
<1>2. HeapOK
  BY <1>1 DEF IInv
<1>3. fld'[At_ix] = NIL /\ \A s \in Place : s # At_ix => fld'[s] = fld[s]
  BY <1>1, PutTyped
<1>4. \A s \in Place : fld[s] = NIL => fld'[s] = NIL
  BY <1>3
<1>5. ASSUME NEW x \in Field, x <= ix PROVE fld'[<<cell, x>>] = NIL
  <2>1. <<cell, x>> \in Place /\ x \in Int /\ ix \in Int
    BY <1>1, Constants DEF Place
  <2>2. CASE x = ix
    BY <1>3, <2>2 DEF At_ix
  <2>3. CASE x < ix
    <3>1. fld[<<cell, x>>] = NIL
      BY <1>2, <2>3 DEF HeapOK, Emptied
    <3>2. QED
      BY <1>4, <2>1, <3>1
  <2>4. QED
    BY <1>5, <2>1, <2>2, <2>3
<1>6. ASSUME NEW y \in Waiting(donext) \cup Waiting(to_do), NEW x \in Field, x < y.at PROVE fld'[<<y.obj, x>>] = NIL
  <2>1. y.obj \in Ptr
    BY WaiterTyped DEF IInv, Types
  <2>2. <<y.obj, x>> \in Place
    BY <2>1, Constants DEF Place
  <2>3. fld[<<y.obj, x>>] = NIL
    BY <1>2, <1>6 DEF HeapOK, Emptied
  <2>4. QED
    BY <1>4, <2>2, <2>3
<1>7. ASSUME NEW r \in Place, r[2] > Arity[r[1]] \/ r[1] \in free PROVE fld'[r] = NIL
  BY <1>2, <1>4, <1>7 DEF HeapOK, Emptied
<1>8. QED
  BY <1>5, <1>6, <1>7

\* gcreccell stays with its cell: at the next field, or done with the last one.
LEMMA MovesOn ==
  ASSUME IInv, pc = "rec", NEW w, FieldDropped(w), stack' = stack, free' = free, marked' = marked, probe' = probe,
         cell' = cell, donext' = donext, to_do' = to_do, lost' = lost, val' \in Ptr \cup {NIL},
         \/ ix >= Arity[cell] /\ pc' = "release" /\ ix' = ix
         \/ ix < Arity[cell] /\ pc' = "rec" /\ ix' = ix + 1
  PROVE  Dying' = Dying /\ Types' /\ OnePlace' /\ (~ht'.disabled => Emptied') /\ pc' \in {"rec", "release", "doval"}
<1>1. cell \in Ptr /\ ix \in 1 .. Arity[cell] /\ Arity[cell] \in 1 .. MaxArity /\ MaxArity \in Nat /\ fld' \in Heaps
      /\ Field = 1 .. MaxArity /\ cell \in Obj
  BY Constants DEF IInv, Types, FieldDropped
<1>2. InWork' = InWork /\ Dying' = Dying
  BY DEF InWork, Dying
<1>3. ix' \in 1 .. Arity[cell]
  BY <1>1
<1>4. Types'
  BY <1>1, <1>3 DEF IInv, Types, Phases, Heaps
<1>5. OnePlace'
  BY <1>2 DEF IInv, OnePlace
<1>6. ASSUME ~ht'.disabled PROVE Emptied'
  <2>1. /\ \A r \in Place : r[2] > Arity[r[1]] \/ r[1] \in free => fld'[r] = NIL
        /\ \A x \in Field : x <= ix => fld'[<<cell, x>>] = NIL
        /\ \A y \in Waiting(donext) \cup Waiting(to_do), x \in Field : x < y.at => fld'[<<y.obj, x>>] = NIL
    BY <1>6, FieldEmptied
  <2>2. ASSUME pc' = "rec", NEW x \in Field, x < ix' PROVE fld'[<<cell, x>>] = NIL
    <3>1. x <= ix
      BY <1>1, <2>2
    <3>2. QED
      BY <2>1, <3>1
  <2>3. ASSUME pc' = "release", NEW x \in Field PROVE fld'[<<cell, x>>] = NIL
    <3>1. x <= ix \/ x > Arity[cell]
      BY <1>1, <2>3
    <3>2. <<cell, x>> \in Place
      BY <1>1 DEF Place
    <3>3. QED
      BY <2>1, <3>1, <3>2
  <2>4. QED
    BY <2>1, <2>2, <2>3 DEF Emptied
<1>7. QED
  BY <1>2, <1>4, <1>5, <1>6

\* A list or record cell with fields left is put aside: on a worklist, or nowhere.
LEMMA PutsAside ==
  ASSUME IInv, pc = "rec", NEW w, FieldDropped(w), stack' = stack, free' = free, marked' = marked, probe' = probe,
         cell' = cell, ix' = ix, val' \in Ptr \cup {NIL}, ix < Arity[cell], SetAside, pc' = "doval"
  PROVE  Dying' = Dying /\ Types' /\ OnePlace' /\ (~ht'.disabled => Emptied')
<1> DEFINE me == [obj |-> cell, at |-> ix + 1]
<1>1. /\ cell \in Ptr /\ ix \in 1 .. Arity[cell] /\ Arity[cell] \in 1 .. MaxArity /\ MaxArity \in Nat /\ fld' \in Heaps
      /\ Field = 1 .. MaxArity /\ cell \in Obj /\ TODO_LIMIT \in Nat
      /\ donext \in Seq(Waiter) /\ to_do \in Seq(Waiter) /\ Len(to_do) <= TODO_LIMIT /\ lost \in SUBSET Ptr
  BY Constants DEF IInv, Types, FieldDropped
<1>2. me \in Waiter /\ me.obj = cell /\ me.at = ix + 1
  BY <1>1 DEF Waiter
<1>3. InWork = {cell} /\ InWork' = {}
  BY DEF InWork
<1>4. /\ Distinct(donext) /\ Distinct(to_do) /\ Objs(donext) \cap Objs(to_do) = {}
      /\ (Objs(donext) \cup Objs(to_do)) \cap lost = {} /\ cell \notin Objs(donext) \cup Objs(to_do) \cup lost
      /\ free \cap Dying = {} /\ Dying = Objs(donext) \cup Objs(to_do) \cup lost \cup {cell}
  BY <1>3, DyingIs DEF IInv, OnePlace
<1>5. \/ donext' = <<me>> \o donext /\ to_do' = to_do /\ lost' = lost
      \/ Len(to_do) < TODO_LIMIT /\ to_do' = Append(to_do, me) /\ donext' = donext /\ lost' = lost
      \/ lost' = lost \cup {cell} /\ donext' = donext /\ to_do' = to_do
  BY DEF SetAside
<1> HIDE DEF me
<1>6. /\ donext' \in Seq(Waiter) /\ to_do' \in Seq(Waiter) /\ Len(to_do') <= TODO_LIMIT /\ lost' \in SUBSET Ptr
      /\ Distinct(donext') /\ Distinct(to_do') /\ Objs(donext') \cap Objs(to_do') = {}
      /\ (Objs(donext') \cup Objs(to_do')) \cap lost' = {}
      /\ Objs(donext') \cup Objs(to_do') \cup lost' = Dying
      /\ Waiting(donext') \cup Waiting(to_do') \subseteq Waiting(donext) \cup Waiting(to_do) \cup {me}
  <2>1. CASE donext' = <<me>> \o donext /\ to_do' = to_do /\ lost' = lost
    <3>1. Pushed(donext, donext', me)
      BY <1>1, <1>2, <1>4, <2>1, PushFront
    <3>2. QED
      BY <1>1, <1>2, <1>4, <2>1, <3>1 DEF Pushed
  <2>2. CASE Len(to_do) < TODO_LIMIT /\ to_do' = Append(to_do, me) /\ donext' = donext /\ lost' = lost
    <3>1. Pushed(to_do, to_do', me)
      BY <1>1, <1>2, <1>4, <2>2, PushBack
    <3>2. Len(to_do') <= TODO_LIMIT
      BY <1>1, <2>2, <3>1 DEF Pushed
    <3>3. QED
      BY <1>1, <1>2, <1>4, <2>2, <3>1, <3>2 DEF Pushed
  <2>3. CASE lost' = lost \cup {cell} /\ donext' = donext /\ to_do' = to_do
    BY <1>1, <1>4, <2>3
  <2>4. QED
    BY <1>5, <2>1, <2>2, <2>3
<1>7. Dying' = Dying
  BY <1>3, <1>6, DyingNext
<1>8. Types'
  BY <1>1, <1>6 DEF IInv, Types, Phases, Heaps
<1>9. OnePlace'
  BY <1>3, <1>4, <1>6, <1>7 DEF OnePlace
<1>10. ASSUME ~ht'.disabled PROVE Emptied'
  <2>1. /\ \A r \in Place : r[2] > Arity[r[1]] \/ r[1] \in free => fld'[r] = NIL
        /\ \A x \in Field : x <= ix => fld'[<<cell, x>>] = NIL
        /\ \A y \in Waiting(donext) \cup Waiting(to_do), x \in Field : x < y.at => fld'[<<y.obj, x>>] = NIL
    BY <1>10, FieldEmptied
  <2>2. ASSUME NEW x \in Field, x < me.at PROVE fld'[<<me.obj, x>>] = NIL
    <3>1. x <= ix
      BY <1>1, <1>2, <2>2
    <3>2. QED
      BY <1>2, <2>1, <3>1
  <2>3. \A y \in Waiting(donext') \cup Waiting(to_do'), x \in Field : x < y.at => fld'[<<y.obj, x>>] = NIL
    BY <1>6, <2>1, <2>2
  <2>4. QED
    BY <2>1, <2>3 DEF Emptied
<1>11. QED
  BY <1>7, <1>8, <1>9, <1>10

LEMMA RecFieldSteps ==
  ASSUME IInv, RecField
  PROVE  Steps
<1> DEFINE l == REC_GCLOOKUPV(ht, fld[At_ix], "DELREF")
           w == l.val
<1>1. /\ pc = "rec" /\ ht' = l.t /\ val' = w /\ fld' = [fld EXCEPT ![At_ix] = NIL]
      /\ stack' = stack /\ free' = free /\ probe' = probe /\ marked' = marked /\ cell' = cell /\ spilled' = spilled
      /\ \/ /\ ix = Arity[cell] /\ pc' = "release" /\ ix' = ix /\ donext' = donext /\ to_do' = to_do /\ lost' = lost
         \/ /\ ix < Arity[cell] /\ w = NIL /\ ix' = ix + 1 /\ pc' = pc
            /\ donext' = donext /\ to_do' = to_do /\ lost' = lost
         \/ /\ ix < Arity[cell] /\ w # NIL /\ SetAside /\ pc' = "doval" /\ ix' = ix
  BY DEF RecField, At_ix
<1>2. FieldDropped(w)
  BY <1>1, DropField
<1> HIDE DEF w, l
<1>3. (w # NIL => ~ht'.disabled /\ w \in Ptr /\ Collectable(ht', w)) /\ val' \in Ptr \cup {NIL}
  BY <1>1, <1>2 DEF FieldDropped
<1>4. cell \in Ptr /\ ix \in 1 .. Arity[cell] /\ Arity[cell] \in 1 .. MaxArity /\ MaxArity \in Nat
  BY <1>1, Constants DEF IInv, Types
<1>5. Dying' = Dying /\ Types' /\ OnePlace' /\ (~ht'.disabled => Emptied') /\ pc' \in {"rec", "release", "doval"}
  <2>1. CASE \/ ix = Arity[cell] /\ pc' = "release" /\ ix' = ix /\ donext' = donext /\ to_do' = to_do /\ lost' = lost
             \/ ix < Arity[cell] /\ ix' = ix + 1 /\ pc' = pc /\ donext' = donext /\ to_do' = to_do /\ lost' = lost
    <3>1. \/ ix >= Arity[cell] /\ pc' = "release" /\ ix' = ix
          \/ ix < Arity[cell] /\ pc' = "rec" /\ ix' = ix + 1
      BY <1>1, <1>4, <2>1
    <3>2. QED
      BY <1>1, <1>2, <1>3, <2>1, <3>1, MovesOn
  <2>2. CASE ix < Arity[cell] /\ SetAside /\ pc' = "doval" /\ ix' = ix
    BY <1>1, <1>2, <1>3, <2>2, PutsAside
  <2>3. QED
    BY <1>1, <2>1, <2>2
<1>6. ValReported'
  BY <1>1, <1>3 DEF ValReported
<1>7. QED
  BY <1>1, <1>2, <1>5, <1>6, FieldSteps

LEMMA RecArraySteps ==
  ASSUME IInv, RecArray
  PROVE  Steps
<1> DEFINE l == REC_GCLOOKUPV(ht, fld[At_ix], "DELREF")
           w == l.val
<1>1. /\ pc = "rec" /\ ht' = l.t /\ fld' = [fld EXCEPT ![At_ix] = NIL] /\ spilled' = spilled \cup ({w} \ {NIL})
      /\ stack' = stack /\ free' = free /\ probe' = probe /\ marked' = marked /\ cell' = cell /\ val' = val
      /\ donext' = donext /\ to_do' = to_do /\ lost' = lost
      /\ IF ix < Arity[cell] THEN ix' = ix + 1 /\ pc' = pc ELSE pc' = "release" /\ ix' = ix
  BY DEF RecArray, At_ix
<1>2. FieldDropped(w)
  BY <1>1, DropField
<1> HIDE DEF w, l
<1>3. val = NIL /\ val' = NIL /\ val' \in Ptr \cup {NIL}
  BY <1>1 DEF IInv, ValReported
<1>4. cell \in Ptr /\ ix \in 1 .. Arity[cell] /\ Arity[cell] \in 1 .. MaxArity /\ MaxArity \in Nat
  BY <1>1, Constants DEF IInv, Types
<1>5. \/ ix >= Arity[cell] /\ pc' = "release" /\ ix' = ix
      \/ ix < Arity[cell] /\ pc' = "rec" /\ ix' = ix + 1
  BY <1>1, <1>4
<1>6. Dying' = Dying /\ Types' /\ OnePlace' /\ (~ht'.disabled => Emptied') /\ pc' \in {"rec", "release", "doval"}
  BY <1>1, <1>2, <1>3, <1>5, MovesOn
<1>7. ValReported'
  BY <1>3 DEF ValReported
<1>8. (w # NIL => w \in spilled') /\ spilled \subseteq spilled'
  BY <1>1
<1>9. QED
  BY <1>1, <1>2, <1>6, <1>7, <1>8, FieldSteps

-----------------------------------------------------------------------------
(* The invariant is inductive.                                             *)

LEMMA InitInv == Init => IInv /\ Abs!GCInit
<1> SUFFICES ASSUME Init PROVE IInv /\ Abs!GCInit
  OBVIOUS
<1>1. /\ ht = InitTable /\ fld = [r \in Place |-> NIL] /\ stack = {} /\ free = Ptr
      /\ pc = "run" /\ probe = -1 /\ marked = {} /\ cell = NIL /\ ix = 0 /\ val = NIL
      /\ donext = <<>> /\ to_do = <<>> /\ lost = {} /\ spilled = {}
  BY DEF Init
<1> DEFINE t == InitTable
<1>2. TableOK(t) /\ \A p \in Ptr : At(t, p) = {}
  BY FirstTable
<1> HIDE DEF t
<1>3. \A p \in Ptr : RefCnt(t, p) = 1 /\ ~StkBit(t, p)
  BY <1>2, NoEntry DEF TableOK
<1>4. ht = t /\ TableOK(ht) /\ \A p \in Ptr : RefCnt(ht, p) = 1 /\ ~StkBit(ht, p)
  BY <1>1, <1>2, <1>3 DEF t
<1>5. Waiting(donext) = {} /\ Waiting(to_do) = {} /\ Objs(donext) = {} /\ Objs(to_do) = {} /\ InWork = {}
  BY <1>1 DEF Waiting, Objs, InWork
<1>6. Dying = {}
  BY <1>1, <1>5, DyingIs
<1>7. Types
  BY <1>1, TopIs, Constants DEF Types, Phases, Heaps
<1>8. OnePlace
  BY <1>1, <1>5, <1>6 DEF OnePlace, Distinct
<1>9. ValReported /\ NoEntries
  BY <1>1, <1>4, <1>6 DEF ValReported, NoEntries
<1>10. Emptied
  BY <1>1, <1>5 DEF Emptied
<1>11. CountsRight /\ NoDangling
  BY <1>1, <1>6, Constants DEF CountsRight, NoDangling, Refs
<1>12. Marks /\ Passed
  BY <1>1, <1>4 DEF Marks, Passed
<1>13. CntOf(ht) = [p \in Obj |-> 1]
  BY <1>4 DEF CntOf
<1>14. Abs!GCInit
  BY <1>1, <1>6, <1>13, Constants DEF Abs!GCInit, Abs!Place, Abs!Heap, Place, CntOf
<1>15. QED
  BY <1>4, <1>7, <1>8, <1>9, <1>10, <1>11, <1>12, <1>14 DEF IInv, HeapOK

LEMMA NextSteps == IInv /\ [Next]_vars => Steps
<1> SUFFICES ASSUME IInv, [Next]_vars PROVE Steps
  OBVIOUS
<1>1. ASSUME NEW o \in Ptr, NEW a \in Held \cup {NIL}, NEW d \in Held \cup {NIL}, Cons(o, a, d) PROVE Steps
  BY <1>1, ConsSteps
<1>2. ASSUME NEW o \in Ptr, CreateCell(o) PROVE Steps
  BY <1>2, CreateCellSteps
<1>3. ASSUME NEW r \in Place, NEW v \in Held \cup {NIL}, FRPLPTR(r, v) PROVE Steps
  BY <1>3, FRPLPTRSteps
<1>4. ASSUME NEW r \in Place, Load(r) PROVE Steps
  BY <1>4, LoadSteps
<1>5. ASSUME NEW o \in Obj, Drop(o) PROVE Steps
  BY <1>5, DropSteps
<1>6. CASE BeginReclaim
  BY <1>6, BeginReclaimSteps
<1>7. ASSUME NEW o \in Obj, gcscanstack(o) PROVE Steps
  BY <1>7, gcscanstackSteps
<1>8. CASE BeginScan \/ gcmapscan
  BY <1>8, BeginScanSteps, gcmapscanSteps
<1>9. CASE RecField \/ RecArray \/ Release \/ Doval \/ TryNext
  BY <1>9, RecFieldSteps, RecArraySteps, ReleaseSteps, DovalSteps, TryNextSteps
<1>10. CASE BeginUnscan \/ gcmapunscan \/ EndReclaim
  BY <1>10, BeginUnscanSteps, gcmapunscanSteps, EndReclaimSteps
<1>11. CASE UNCHANGED vars
  <2>1. /\ ht' = ht /\ fld' = fld /\ stack' = stack /\ free' = free /\ pc' = pc /\ probe' = probe /\ marked' = marked
        /\ cell' = cell /\ ix' = ix /\ val' = val /\ donext' = donext /\ to_do' = to_do /\ lost' = lost /\ spilled' = spilled
    BY <1>11 DEF vars, gcvars
  <2>2. InWork' = InWork /\ Dying' = Dying
    BY <2>1 DEF InWork, Dying
  <2>3. IInv'
    BY <2>1, <2>2 DEF IInv, Types, OnePlace, ValReported, NoEntries, HeapOK, Emptied, CountsRight, NoDangling, Marks, Passed
  <2>4. Simulates
    BY <2>1, <2>2, SimulatesNothing
  <2>5. QED
    BY <2>3, <2>4 DEF Steps
<1>12. CASE Mutator
  BY <1>1, <1>2, <1>3, <1>4, <1>5, <1>12 DEF Mutator
<1>13. CASE Collector
  BY <1>7, <1>8, <1>9, <1>10, <1>13 DEF Collector
<1>14. QED
  BY <1>6, <1>11, <1>12, <1>13 DEF Next

LEMMA InvAlways == Spec => []IInv
<1>1. Init => IInv
  BY InitInv
<1>2. IInv /\ [Next]_vars => IInv'
  BY NextSteps DEF Steps
<1>3. QED
  BY <1>1, <1>2, PTL DEF Spec

LEMMA ImpliesTypeOK == IInv => TypeOK
BY DEF IInv, Types, TypeOK, Phases

-----------------------------------------------------------------------------
(* What the reclaimer promises.                                            *)

\* doreclaim, dogc01 and gcreccell take apart and free exactly what the
\* abstract reclaimer could take and free, and the opcodes count every
\* reference they store: while HTcoll has links left, each step of the code is
\* a step of RefCountGC or changes nothing it sees.
THEOREM ReclaimerRefines == Spec /\ [](~ht.disabled) => ImplementsRefCountGC
<1>1. Init => Abs!GCInit
  BY InitInv
<1>2. IInv /\ [Next]_vars /\ (~ht.disabled)' => [Abs!GCNext]_(Abs!gcVars)
  BY NextSteps DEF Steps, Simulates
<1>3. QED
  BY <1>1, <1>2, InvAlways, PTL DEF Spec, ImplementsRefCountGC, Abs!GCSpec

\* gcmapscan's single pass over HTmain, with the bucket of a collision visited
\* again and what doval took on the way, leaves nothing reclaimable behind but
\* what reclaimarrayblock dropped to zero.
THEOREM SweepMissesNothing == Spec => []SweepComplete
<1>1. IInv => SweepComplete
  <2> SUFFICES ASSUME IInv, pc = "unscan", ~ht.disabled, NEW p \in Ptr \ free, RefCnt(ht, p) = 0, p \notin marked
               PROVE  p \in spilled
    BY DEF SweepComplete
  <2>1. QED
    BY DEF IInv, HeapOK, Passed
<1>2. QED
  BY <1>1, InvAlways, PTL

\* A cell gcreccell set aside is on one worklist, once, is not free and is not
\* the cell gcreccell has in hand, whatever the sizes of the lists.
THEOREM WaitsOnce == Spec => []SetAsideOnce
<1>1. IInv => SetAsideOnce
  <2> SUFFICES ASSUME IInv PROVE SetAsideOnce
    OBVIOUS
  <2> DEFINE waiting == donext \o to_do
             m == Len(donext)
  <2>1. /\ donext \in Seq(Waiter) /\ to_do \in Seq(Waiter) /\ Distinct(donext) /\ Distinct(to_do)
        /\ Objs(donext) \cap Objs(to_do) = {} /\ InWork \cap (Objs(donext) \cup Objs(to_do)) = {}
        /\ free \cap Dying = {} /\ Objs(donext) \cup Objs(to_do) \subseteq Dying
    BY DyingIs DEF IInv, Types, OnePlace
  <2>2. /\ m \in Nat /\ Len(to_do) \in Nat /\ DOMAIN waiting = 1 .. m + Len(to_do)
        /\ DOMAIN donext = 1 .. m /\ DOMAIN to_do = 1 .. Len(to_do)
    BY <2>1
  <2>3. ASSUME NEW i \in DOMAIN waiting
        PROVE  \/ i \in DOMAIN donext /\ waiting[i] = donext[i]
               \/ i > m /\ i - m \in DOMAIN to_do /\ waiting[i] = to_do[i - m]
    BY <2>1, <2>2
  <2>4. /\ \A i \in DOMAIN donext : donext[i].obj \in Objs(donext)
        /\ \A i \in DOMAIN to_do : to_do[i].obj \in Objs(to_do)
    BY DEF Objs, Waiting
  <2>5. ASSUME NEW i \in DOMAIN waiting, NEW j \in DOMAIN waiting, i # j PROVE waiting[i].obj # waiting[j].obj
    <3>1. i \in Int /\ j \in Int /\ m \in Int
      BY <2>2
    <3> HIDE DEF waiting, m
    <3>2. CASE i \in DOMAIN donext /\ waiting[i] = donext[i] /\ j \in DOMAIN donext /\ waiting[j] = donext[j]
      BY <2>1, <2>5, <3>2 DEF Distinct
    <3>3. CASE /\ i - m \in DOMAIN to_do /\ waiting[i] = to_do[i - m]
               /\ j - m \in DOMAIN to_do /\ waiting[j] = to_do[j - m]
      <4>1. i - m # j - m
        BY <2>5, <3>1
      <4>2. QED
        BY <2>1, <3>3, <4>1 DEF Distinct
    <3>4. CASE i \in DOMAIN donext /\ waiting[i] = donext[i] /\ j - m \in DOMAIN to_do /\ waiting[j] = to_do[j - m]
      BY <2>1, <2>4, <3>4
    <3>5. CASE j \in DOMAIN donext /\ waiting[j] = donext[j] /\ i - m \in DOMAIN to_do /\ waiting[i] = to_do[i - m]
      BY <2>1, <2>4, <3>5
    <3>6. QED
      BY <2>3, <3>2, <3>3, <3>4, <3>5
  <2>6. ASSUME NEW i \in DOMAIN waiting
        PROVE  waiting[i].obj \notin free /\ (pc \in {"rec", "release"} => waiting[i].obj # cell)
    <3>1. waiting[i].obj \in Objs(donext) \cup Objs(to_do)
      BY <2>3, <2>4
    <3> HIDE DEF waiting
    <3>2. QED
      BY <2>1, <3>1 DEF InWork
  <2>7. TypeOK
    BY ImpliesTypeOK
  <2> HIDE DEF m
  <2>8. QED
    BY <2>5, <2>6, <2>7 DEF SetAsideOnce
<1>2. QED
  BY <1>1, InvAlways, PTL
=============================================================================
