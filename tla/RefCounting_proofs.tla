-------------------------- MODULE RefCounting_proofs --------------------------
(* Proofs about RefCounting, for every set of pointers, every way they hash, *)
(* every size of HTmain and HTcoll, and every saturation threshold; and      *)
(* about RefCountGC, what the counts are for, for every finite heap.        *)
EXTENDS RefCounting, RefCountGC, GCHashTable_proofs

-----------------------------------------------------------------------------
(* The inductive invariant.                                                *)

RefsType == [Ptr -> 0 .. MaxRefs]
ExactFor(t, f) == ~t.disabled => \A q \in Ptr : RefCnt(t, q) = f[q]

Phases == {"run", "stk", "scan", "unscan"}
Types ==
  /\ phase \in Phases /\ probe \in -1 .. Top
  /\ refs \in RefsType /\ marked \in SUBSET Ptr

\* *Reclaim_cnt_word and *ReclaimMin_word; run: the program runs.
CountsDown(t, run) ==
  /\ t.disabled => t.cnt = CntNIL /\ t.min = CntNIL
  /\ ~t.disabled => t.min = ReclaimMin
  /\ ~run => t.cnt = CntNIL
  /\ run /\ ~t.disabled => t.cnt \in Nat /\ t.cnt + NumEntries(t) <= ReclaimMin + Cardinality(Ptr)

\* Marks appear in the stack scan and disappear bucket by bucket.
Marks ==
  ~ht.disabled =>
    /\ phase \in {"stk", "scan"} => \A p \in Ptr : StkBit(ht, p) <=> p \in marked
    /\ phase = "unscan" => \A p \in Ptr : Hash[p] > probe => ~StkBit(ht, p)
    /\ phase = "run" => marked = {} /\ \A p \in Ptr : ~StkBit(ht, p)

\* What gcreccell has in hand when it comes to the label doval.
InHand ==
  /\ last.op = "TAKE" => phase = "scan"
  /\ phase = "scan" /\ last.op = "DELREF" /\ last.val # NIL =>
       last.val \in Ptr /\ ~ht.disabled /\ refs[last.val] = 0 /\ ~StkBit(ht, last.val)

IInv == TableOK(ht) /\ Types /\ ExactFor(ht, refs) /\ CountsDown(ht, phase = "run") /\ Marks /\ InHand

-----------------------------------------------------------------------------
(* How many entries there are.                                             *)

Entries(t) == {p \in Ptr : HasEntry(t, p)}

LEMMA EntriesCounted ==
  ASSUME NEW t
  PROVE  IsFiniteSet(Entries(t)) /\ NumEntries(t) = Cardinality(Entries(t)) /\ NumEntries(t) \in Nat
         /\ NumEntries(t) <= Cardinality(Ptr) /\ Cardinality(Ptr) \in Nat
<1>1. Entries(t) \in SUBSET Ptr /\ IsFiniteSet(Ptr)
  BY TableAssumption DEF Entries
<1>2. IsFiniteSet(Entries(t)) /\ Cardinality(Entries(t)) <= Cardinality(Ptr)
  BY <1>1, FS_Subset
<1>3. Cardinality(Entries(t)) \in Nat /\ Cardinality(Ptr) \in Nat
  BY <1>1, <1>2, FS_CardinalityType
<1>4. QED
  BY <1>2, <1>3 DEF NumEntries, Entries

OthersKeep(t, u, p) == \A q \in Ptr : q # p => (HasEntry(u, q) <=> HasEntry(t, q))

LEMMA EntriesChange ==
  ASSUME NEW t, NEW u, NEW p \in Ptr, OthersKeep(t, u, p)
  PROVE  NumEntries(u) = IF HasEntry(u, p) <=> HasEntry(t, p) THEN NumEntries(t)
                         ELSE IF HasEntry(t, p) THEN NumEntries(t) - 1 ELSE NumEntries(t) + 1
<1>1. /\ IsFiniteSet(Entries(t)) /\ NumEntries(t) = Cardinality(Entries(t)) /\ NumEntries(t) \in Nat
      /\ NumEntries(u) = Cardinality(Entries(u)) /\ NumEntries(u) \in Nat
  BY EntriesCounted
<1>2. CASE HasEntry(u, p) <=> HasEntry(t, p)
  <2>1. Entries(u) = Entries(t)
    BY <1>2 DEF Entries, OthersKeep
  <2>2. QED
    BY <1>1, <1>2, <2>1
<1>3. CASE HasEntry(t, p) /\ ~HasEntry(u, p)
  <2>1. Entries(u) = Entries(t) \ {p} /\ p \in Entries(t)
    BY <1>3 DEF Entries, OthersKeep
  <2>2. Cardinality(Entries(t) \ {p}) = Cardinality(Entries(t)) - 1
    BY <1>1, <2>1, FS_RemoveElement
  <2>3. QED
    BY <1>1, <1>3, <2>1, <2>2
<1>4. CASE ~HasEntry(t, p) /\ HasEntry(u, p)
  <2>1. Entries(u) = Entries(t) \cup {p} /\ p \notin Entries(t)
    BY <1>4 DEF Entries, OthersKeep
  <2>2. Cardinality(Entries(t) \cup {p}) = Cardinality(Entries(t)) + 1
    BY <1>1, <2>1, FS_AddElement
  <2>3. QED
    BY <1>1, <1>4, <2>1, <2>2
<1>5. QED
  BY <1>2, <1>3, <1>4

LEMMA SameEntries ==
  ASSUME NEW t, NEW u, \A q \in Ptr : HasEntry(u, q) <=> HasEntry(t, q)
  PROVE  NumEntries(u) = NumEntries(t)
BY DEF NumEntries

-----------------------------------------------------------------------------
(* What a lookup does to the parts of the invariant.                       *)

\* What the operation does to a number of references.
Moved(k, op) == CASE op = "ADDREF" -> k + 1 [] op = "DELREF" -> k - 1 [] op = "STKREF" -> k
RefsAfter(t, f, p, n) == IF t.disabled THEN f ELSE [f EXCEPT ![p] = n]

LEMMA OutcomeExact ==
  ASSUME NEW t, TableOK(t), NEW f \in RefsType, ExactFor(t, f), NEW p \in Ptr, NEW op \in Ops, NEW rec,
         NEW n \in 0 .. MaxRefs, ~t.disabled => n = Moved(f[p], op), NEW g, g = RefsAfter(t, f, p, n),
         NEW u, NEW val, Outcome(t, u, val, p, op, rec)
  PROVE  TableOK(u) /\ g \in RefsType /\ ExactFor(u, g)
<1>1. CASE t.disabled
  BY <1>1 DEF Outcome, RefsAfter, ExactFor
<1>2. CASE ~t.disabled
  <2>1. g \in RefsType /\ g[p] = n /\ \A q \in Ptr : q # p => g[q] = f[q]
    BY <1>2 DEF RefsAfter, RefsType
  <2>2. CASE SwitchedOff(t, u)
    BY <2>1, <2>2 DEF SwitchedOff, ExactFor
  <2>3. CASE Counts(t, u, p, op, rec)
    <3>1. /\ TableOK(u) /\ RefCnt(u, p) = CountAfter(t, p, op)
          /\ \A q \in Ptr : q # p => RefCnt(u, q) = RefCnt(t, q)
      BY <2>3 DEF Counts, Says
    <3>2. \A q \in Ptr : RefCnt(t, q) = f[q]
      BY <1>2 DEF ExactFor
    <3>3. CountAfter(t, p, op) = n
      BY <1>2, <3>2 DEF CountAfter, Moved, Ops
    <3>4. QED
      BY <2>1, <3>1, <3>2, <3>3 DEF ExactFor
  <2>4. QED
    BY <1>2, <2>2, <2>3 DEF Outcome, Looked
<1>3. QED
  BY <1>1, <1>2

\* CountdownFollowsTable, of two tables.
FollowsTable(t, u) ==
  LET n == t.cnt - (NumEntries(u) - NumEntries(t))
  IN  u.cnt = IF n <= S_POSITIVE THEN S_POSITIVE ELSE n

LEMMA OutcomeCounts ==
  ASSUME NEW t, TableOK(t), NEW run, CountsDown(t, run), NEW p \in Ptr, NEW op \in Ops, NEW rec,
         ~t.disabled => (rec <=> ~run), NEW u, NEW val, Outcome(t, u, val, p, op, rec)
  PROVE  CountsDown(u, run) /\ (run /\ ~u.disabled => FollowsTable(t, u))
<1>1. CASE t.disabled
  BY <1>1 DEF Outcome
<1>2. CASE ~t.disabled
  <2>1. CASE SwitchedOff(t, u)
    BY <2>1 DEF SwitchedOff, CountsDown
  <2>2. CASE Counts(t, u, p, op, rec)
    <3>1. u.cnt = CntAfter(t, u, p, rec) /\ u.min = t.min /\ ~u.disabled /\ OthersKeep(t, u, p)
      BY <1>2, <2>2 DEF Counts, Says, OthersKeep
    <3>2. CASE ~run
      BY <1>2, <3>1, <3>2 DEF CountsDown, CntAfter
    <3>3. CASE run
      <4> DEFINE N == NumEntries(t)
                 M == NumEntries(u)
                 P == Cardinality(Ptr)
                 c == t.cnt
      <4>1. N \in Nat /\ M \in Nat /\ M <= P /\ P \in Nat /\ c \in Nat /\ c + N <= ReclaimMin + P /\ ~rec
            /\ ReclaimMin \in Nat
        BY <1>2, <3>3, EntriesCounted, TableAssumption DEF CountsDown
      <4>2. M = IF HasEntry(u, p) <=> HasEntry(t, p) THEN N ELSE IF HasEntry(t, p) THEN N - 1 ELSE N + 1
        BY <3>1, EntriesChange
      <4>3. u.cnt = IF HasEntry(u, p) <=> HasEntry(t, p) THEN c ELSE IF HasEntry(t, p) THEN c + 1
                    ELSE IF c - 1 <= 0 THEN 0 ELSE c - 1
        BY <3>1, <4>1 DEF CntAfter, S_POSITIVE
      <4>4. u.min = ReclaimMin /\ (FollowsTable(t, u) <=> u.cnt = IF c - (M - N) <= 0 THEN 0 ELSE c - (M - N))
        BY <1>2, <3>1 DEF CountsDown, FollowsTable, S_POSITIVE
      <4> HIDE DEF N, M, P, c
      <4>5. u.cnt \in Nat /\ u.cnt + M <= ReclaimMin + P
        BY <4>1, <4>2, <4>3
      <4>6. u.cnt = IF c - (M - N) <= 0 THEN 0 ELSE c - (M - N)
        BY <4>1, <4>2, <4>3
      <4>7. QED
        BY <3>1, <3>3, <4>4, <4>5, <4>6 DEF CountsDown, M, P
    <3>4. QED
      BY <3>2, <3>3
  <2>3. QED
    BY <1>2, <2>1, <2>2 DEF Outcome, Looked
<1>3. QED
  BY <1>1, <1>2

-----------------------------------------------------------------------------
(* The lookups of the program and of the reclamation.                      *)

\* One of them: op on p, after which there are n references to p.
LookStep(p, op, n) ==
  /\ n \in 0 .. MaxRefs /\ (~ht.disabled => n = Moved(refs[p], op)) /\ refs' = RefsAfter(ht, refs, p, n)
  /\ \E rec \in BOOLEAN : \E val :
       /\ ~ht.disabled => (rec <=> phase # "run")
       /\ Outcome(ht, ht', val, p, op, rec)
       /\ last' \in {NoCall, [op |-> op, ptr |-> p, val |-> val]}
  /\ phase' = phase /\ probe' = probe
  /\ op = "STKREF" => phase = "stk" /\ marked' = marked \cup {p}
  /\ op # "STKREF" => phase \in {"run", "scan"} /\ marked' = marked

LEMMA MutatorLooks ==
  ASSUME IInv, NEW p \in Ptr
  PROVE  /\ AddRef(p) => LookStep(p, "ADDREF", IF ht.disabled THEN 0 ELSE refs[p] + 1)
         /\ DelRef(p) => LookStep(p, "DELREF", IF ht.disabled THEN 0 ELSE refs[p] - 1)
<1>1. TableOK(ht) /\ refs \in RefsType /\ phase \in Phases /\ (~ht.disabled => RefCnt(ht, p) = refs[p])
  BY DEF IInv, Types, ExactFor
<1>2. phase = "run" /\ ~ht.disabled => ht.cnt # CntNIL
  BY DEF IInv, CountsDown, CntNIL
<1>3. refs[p] \in 0 .. MaxRefs /\ MaxRefs \in Nat /\ 0 \in 0 .. MaxRefs
  BY <1>1, BoundAssumption DEF RefsType
<1>4. ASSUME AddRef(p) PROVE LookStep(p, "ADDREF", IF ht.disabled THEN 0 ELSE refs[p] + 1)
  <2> DEFINE n == IF ht.disabled THEN 0 ELSE refs[p] + 1
             r == GCLOOKUPV(ht, p, "ADDREF")
  <2>1. phase = "run" /\ refs[p] < MaxRefs /\ ht' = r.t /\ last' = [op |-> "ADDREF", ptr |-> p, val |-> r.val]
        /\ phase' = phase /\ probe' = probe /\ marked' = marked
    BY <1>4 DEF AddRef, Called
  <2>2. n \in 0 .. MaxRefs /\ (~ht.disabled => n = Moved(refs[p], "ADDREF")) /\ refs' = RefsAfter(ht, refs, p, n)
    BY <1>3, <1>4, <2>1 DEF AddRef, Counted, Moved, RefsAfter
  <2>3. Outcome(ht, r.t, r.val, p, "ADDREF", ht.cnt = CntNIL)
    BY <1>1, LookupOutcome DEF Ops
  <2> HIDE DEF n, r
  <2>4. \E rec \in BOOLEAN : \E val :
          /\ ~ht.disabled => (rec <=> phase # "run")
          /\ Outcome(ht, ht', val, p, "ADDREF", rec)
          /\ last' \in {NoCall, [op |-> "ADDREF", ptr |-> p, val |-> val]}
    BY <1>2, <2>1, <2>3
  <2>5. QED
    BY <2>1, <2>2, <2>4 DEF LookStep, n
<1>5. ASSUME DelRef(p) PROVE LookStep(p, "DELREF", IF ht.disabled THEN 0 ELSE refs[p] - 1)
  <2> DEFINE n == IF ht.disabled THEN 0 ELSE refs[p] - 1
             r == GCLOOKUPV(ht, p, "DELREF")
  <2>1. phase = "run" /\ refs[p] > 0 /\ ht' = r.t /\ last' = [op |-> "DELREF", ptr |-> p, val |-> r.val]
        /\ phase' = phase /\ probe' = probe /\ marked' = marked
    BY <1>5 DEF DelRef, Called
  <2>2. n \in 0 .. MaxRefs /\ (~ht.disabled => n = Moved(refs[p], "DELREF")) /\ refs' = RefsAfter(ht, refs, p, n)
    BY <1>3, <1>5, <2>1 DEF DelRef, Counted, Moved, RefsAfter
  <2>3. Outcome(ht, r.t, r.val, p, "DELREF", ht.cnt = CntNIL)
    BY <1>1, <2>1, LookupOutcome DEF Ops
  <2> HIDE DEF n, r
  <2>4. \E rec \in BOOLEAN : \E val :
          /\ ~ht.disabled => (rec <=> phase # "run")
          /\ Outcome(ht, ht', val, p, "DELREF", rec)
          /\ last' \in {NoCall, [op |-> "DELREF", ptr |-> p, val |-> val]}
    BY <1>2, <2>1, <2>3
  <2>5. QED
    BY <2>1, <2>2, <2>4 DEF LookStep, n
<1>6. QED
  BY <1>4, <1>5

LEMMA ReclaimLooks ==
  ASSUME IInv, NEW p \in Ptr
  PROVE  /\ StkRef(p) => LookStep(p, "STKREF", refs[p])
         /\ RecDelRef(p) => LookStep(p, "DELREF", IF ht.disabled THEN 0 ELSE refs[p] - 1)
         /\ Doval /\ p = last.val => LookStep(p, "ADDREF", 1)
<1>1. TableOK(ht) /\ refs \in RefsType /\ phase \in Phases /\ (~ht.disabled => RefCnt(ht, p) = refs[p])
  BY DEF IInv, Types, ExactFor
<1>3. refs[p] \in 0 .. MaxRefs /\ MaxRefs \in Nat /\ 0 \in 0 .. MaxRefs /\ 1 \in 0 .. MaxRefs
  BY <1>1, BoundAssumption DEF RefsType
<1>4. ASSUME StkRef(p) PROVE LookStep(p, "STKREF", refs[p])
  <2> DEFINE n == refs[p]
             r == REC_GCLOOKUPV(ht, p, "STKREF")
  <2>1. phase = "stk" /\ ht' = r.t /\ last' = [op |-> "STKREF", ptr |-> p, val |-> r.val]
        /\ phase' = phase /\ probe' = probe /\ marked' = marked \cup {p}
    BY <1>4 DEF StkRef, Called
  <2>2. n \in 0 .. MaxRefs /\ (~ht.disabled => n = Moved(refs[p], "STKREF")) /\ refs' = RefsAfter(ht, refs, p, n)
    BY <1>1, <1>3, <1>4, <2>1 DEF StkRef, Moved, RefsAfter, RefsType
  <2>3. Outcome(ht, r.t, r.val, p, "STKREF", TRUE)
    BY <1>1, LookupOutcome DEF Ops
  <2> HIDE DEF n, r
  <2>4. \E rec \in BOOLEAN : \E val :
          /\ ~ht.disabled => (rec <=> phase # "run")
          /\ Outcome(ht, ht', val, p, "STKREF", rec)
          /\ last' \in {NoCall, [op |-> "STKREF", ptr |-> p, val |-> val]}
    BY <2>1, <2>3
  <2>5. QED
    BY <2>1, <2>2, <2>4 DEF LookStep, n
<1>5. ASSUME RecDelRef(p) PROVE LookStep(p, "DELREF", IF ht.disabled THEN 0 ELSE refs[p] - 1)
  <2> DEFINE n == IF ht.disabled THEN 0 ELSE refs[p] - 1
             r == REC_GCLOOKUPV(ht, p, "DELREF")
  <2>1. phase = "scan" /\ refs[p] > 0 /\ ht' = r.t /\ last' = [op |-> "DELREF", ptr |-> p, val |-> r.val]
        /\ phase' = phase /\ probe' = probe /\ marked' = marked
    BY <1>5 DEF RecDelRef, Called
  <2>2. n \in 0 .. MaxRefs /\ (~ht.disabled => n = Moved(refs[p], "DELREF")) /\ refs' = RefsAfter(ht, refs, p, n)
    BY <1>3, <1>5, <2>1 DEF RecDelRef, Counted, Moved, RefsAfter
  <2>3. Outcome(ht, r.t, r.val, p, "DELREF", TRUE)
    BY <1>1, <2>1, LookupOutcome DEF Ops
  <2> HIDE DEF n, r
  <2>4. \E rec \in BOOLEAN : \E val :
          /\ ~ht.disabled => (rec <=> phase # "run")
          /\ Outcome(ht, ht', val, p, "DELREF", rec)
          /\ last' \in {NoCall, [op |-> "DELREF", ptr |-> p, val |-> val]}
    BY <2>1, <2>3
  <2>5. QED
    BY <2>1, <2>2, <2>4 DEF LookStep, n
<1>6. ASSUME Doval, p = last.val PROVE LookStep(p, "ADDREF", 1)
  <2> DEFINE n == 1
             r == REC_GCLOOKUPV(ht, p, "ADDREF")
  <2>1. phase = "scan" /\ ht' = r.t /\ last' = NoCall
        /\ phase' = phase /\ probe' = probe /\ marked' = marked /\ last.op = "DELREF" /\ last.val # NIL
    BY <1>6 DEF Doval
  <2>2. ~ht.disabled /\ refs[p] = 0
    BY <1>6, <2>1 DEF IInv, InHand
  <2>3. n \in 0 .. MaxRefs /\ (~ht.disabled => n = Moved(refs[p], "ADDREF")) /\ refs' = RefsAfter(ht, refs, p, n)
    BY <1>3, <1>6, <2>1, <2>2 DEF Doval, Moved, RefsAfter
  <2>4. Outcome(ht, r.t, r.val, p, "ADDREF", TRUE)
    BY <1>1, LookupOutcome DEF Ops
  <2> HIDE DEF n, r
  <2>5. \E rec \in BOOLEAN : \E val :
          /\ ~ht.disabled => (rec <=> phase # "run")
          /\ Outcome(ht, ht', val, p, "ADDREF", rec)
          /\ last' \in {NoCall, [op |-> "ADDREF", ptr |-> p, val |-> val]}
    BY <2>1, <2>4
  <2>6. QED
    BY <2>1, <2>3, <2>5 DEF LookStep, n
<1>7. QED
  BY <1>4, <1>5, <1>6

LEMMA LookKeeps ==
  ASSUME IInv, NEW p \in Ptr, NEW op \in Ops, NEW n, LookStep(p, op, n)
  PROVE  /\ IInv'
         /\ phase = "run" /\ ~ht'.disabled => FollowsTable(ht, ht')
         /\ ~ht'.disabled => last' = NoCall \/ last' = [op |-> op, ptr |-> p, val |-> Report(ht, p, op)]
<1>1. TableOK(ht) /\ refs \in RefsType /\ ExactFor(ht, refs) /\ CountsDown(ht, phase = "run") /\ phase \in Phases
  BY DEF IInv, Types
<1>2. PICK rec, val : /\ rec \in BOOLEAN /\ (~ht.disabled => (rec <=> phase # "run"))
                      /\ Outcome(ht, ht', val, p, op, rec)
                      /\ last' \in {NoCall, [op |-> op, ptr |-> p, val |-> val]}
  BY DEF LookStep
<1>3. /\ n \in 0 .. MaxRefs /\ (~ht.disabled => n = Moved(refs[p], op)) /\ refs' = RefsAfter(ht, refs, p, n)
      /\ phase' = phase /\ probe' = probe
      /\ op = "STKREF" => phase = "stk" /\ marked' = marked \cup {p}
      /\ op # "STKREF" => phase \in {"run", "scan"} /\ marked' = marked
  BY DEF LookStep
<1>4. TableOK(ht') /\ refs' \in RefsType /\ ExactFor(ht', refs')
  BY <1>1, <1>2, <1>3, OutcomeExact
<1>5. CountsDown(ht', phase = "run") /\ (phase = "run" /\ ~ht'.disabled => FollowsTable(ht, ht'))
  <2> DEFINE run == phase = "run"
  <2>1. CountsDown(ht, run) /\ (~ht.disabled => (rec <=> ~run))
    BY <1>1, <1>2
  <2> HIDE DEF run
  <2>2. CountsDown(ht', run) /\ (run /\ ~ht'.disabled => FollowsTable(ht, ht'))
    BY <1>1, <1>2, <2>1, OutcomeCounts
  <2>3. QED
    BY <2>2 DEF run
<1>6. /\ ~ht'.disabled => /\ ~ht.disabled /\ val = Report(ht, p, op)
                          /\ \A q \in Ptr : StkBit(ht', q) <=> StkBit(ht, q) \/ (q = p /\ op = "STKREF")
      /\ val # NIL => op = "DELREF" /\ val = p /\ ~ht'.disabled /\ ~ht.disabled /\ RefCnt(ht', p) = 0 /\ ~StkBit(ht', p)
                      /\ RefCnt(ht, p) = 1
  BY <1>1, <1>2, OutcomeReports
<1>7. Types'
  BY <1>3, <1>4 DEF IInv, Types
<1>8. Marks'
  <2>1. SUFFICES ASSUME ~ht'.disabled
                 PROVE  /\ phase \in {"stk", "scan"} => \A q \in Ptr : StkBit(ht', q) <=> q \in marked'
                        /\ phase = "unscan" => \A q \in Ptr : Hash[q] > probe => ~StkBit(ht', q)
                        /\ phase = "run" => marked' = {} /\ \A q \in Ptr : ~StkBit(ht', q)
    BY <1>3 DEF Marks
  <2>2. ~ht.disabled /\ \A q \in Ptr : StkBit(ht', q) <=> StkBit(ht, q) \/ (q = p /\ op = "STKREF")
    BY <1>6, <2>1
  <2>3. QED
    BY <1>3, <2>2 DEF IInv, Marks
<1>9. InHand'
  <2>1. last'.op # "TAKE"
    BY <1>2 DEF NoCall, Ops
  <2>2. ASSUME last'.op = "DELREF", last'.val # NIL
        PROVE  last'.val \in Ptr /\ ~ht'.disabled /\ refs'[last'.val] = 0 /\ ~StkBit(ht', last'.val)
    <3>1. last' = [op |-> op, ptr |-> p, val |-> val] /\ val # NIL
      BY <1>2, <2>2 DEF NoCall
    <3>2. last'.val = p /\ ~ht'.disabled /\ RefCnt(ht', p) = 0 /\ ~StkBit(ht', p)
      BY <1>6, <3>1
    <3>3. QED
      BY <1>4, <3>2 DEF ExactFor
  <2>3. QED
    BY <2>1, <2>2 DEF InHand
<1>10. IInv'
  BY <1>3, <1>4, <1>5, <1>7, <1>8, <1>9 DEF IInv
<1>11. QED
  BY <1>2, <1>5, <1>6, <1>10

-----------------------------------------------------------------------------
(* The phases of a reclamation and its sweeps.                             *)

LEMMA TopIs == Top = HTMAIN_ENTRY_COUNT - 1 /\ Top \in Nat /\ Bucket = 0 .. Top
<1>1. HTMAIN_ENTRY_COUNT \in Nat \ {0}
  BY TableAssumption
<1> DEFINE m == HTMAIN_ENTRY_COUNT - 1
<1>2. m \in Nat /\ 0 \in Int /\ m \in Int
  BY <1>1
<1> HIDE DEF m
<1>3. Cardinality(0 .. m) = IF 0 > m THEN 0 ELSE m - 0 + 1
  BY <1>2, FS_Interval
<1>4. Cardinality(0 .. m) = m + 1
  BY <1>2, <1>3
<1>5. Bucket = 0 .. m
  BY DEF Bucket, m
<1>6. QED
  BY <1>2, <1>4, <1>5 DEF Top, m

LEMMA StartsWell == Init => IInv
<1> SUFFICES ASSUME Init PROVE IInv
  OBVIOUS
<1>1. ht = InitTable /\ TableOK(ht) /\ Core(ht, NoLinks) /\ \A p \in Ptr : At(ht, p) = {}
  BY FirstTable, TableTyped DEF Init
<1>2. \A p \in Ptr : RefCnt(ht, p) = 1 /\ ~StkBit(ht, p)
  BY <1>1, NoEntry
<1>3. phase = "run" /\ probe = -1 /\ refs = [p \in Ptr |-> 1] /\ marked = {} /\ last = NoCall
  BY DEF Init
<1>4. Types
  BY <1>3, TopIs, BoundAssumption DEF Types, RefsType, Phases
<1>5. ExactFor(ht, refs)
  BY <1>2, <1>3 DEF ExactFor
<1>6. CountsDown(ht, phase = "run")
  <2>1. ht.cnt = ReclaimMin /\ ht.min = ReclaimMin /\ ht.disabled = FALSE
    BY <1>1 DEF InitTable
  <2>2. NumEntries(ht) \in Nat /\ NumEntries(ht) <= Cardinality(Ptr) /\ Cardinality(Ptr) \in Nat
    BY EntriesCounted
  <2>3. QED
    BY <1>3, <2>1, <2>2, TableAssumption DEF CountsDown
<1>7. Marks
  BY <1>2, <1>3 DEF Marks
<1>8. InHand
  BY <1>3 DEF InHand, NoCall
<1>9. QED
  BY <1>1, <1>4, <1>5, <1>6, <1>7, <1>8 DEF IInv

\* The countdown word is set to c, which the table's other words do not see.
LEMMA WordRestarts ==
  ASSUME NEW t, TableOK(t), NEW c \in Int, NEW u, u = [t EXCEPT !.cnt = c]
  PROVE  TableOK(u) /\ Agree(t, u) /\ u.cnt = c /\ u.min = t.min /\ u.disabled = t.disabled
BY TableTyped, CntEdit, RecountedAgrees

LEMMA BeginReclaimKeeps == IInv /\ BeginReclaim => IInv'
<1> SUFFICES ASSUME IInv, BeginReclaim PROVE IInv'
  OBVIOUS
<1>1. /\ phase = "run" /\ ~ht.disabled /\ ht' = [ht EXCEPT !.cnt = CntNIL] /\ phase' = "stk" /\ last' = NoCall
      /\ probe' = probe /\ refs' = refs /\ marked' = marked /\ CntNIL \in Int
  BY DEF BeginReclaim, CntNIL
<1>2. TableOK(ht') /\ Agree(ht, ht') /\ ht'.cnt = CntNIL /\ ht'.min = ht.min /\ ht'.disabled = ht.disabled
  BY <1>1, WordRestarts DEF IInv
<1>3. Types'
  BY <1>1 DEF IInv, Types, Phases
<1>4. ExactFor(ht', refs')
  BY <1>1, <1>2 DEF IInv, ExactFor, Agree
<1>5. CountsDown(ht', phase' = "run")
  BY <1>1, <1>2 DEF IInv, CountsDown
<1>6. Marks'
  BY <1>1, <1>2 DEF IInv, Marks, Agree
<1>7. InHand'
  BY <1>1 DEF InHand, NoCall
<1>8. QED
  BY <1>2, <1>3, <1>4, <1>5, <1>6, <1>7 DEF IInv

LEMMA EndReclaimKeeps == IInv /\ EndReclaim => IInv'
<1> SUFFICES ASSUME IInv, EndReclaim PROVE IInv'
  OBVIOUS
<1>1. /\ phase = "unscan" /\ probe = -1 /\ ht' = [ht EXCEPT !.cnt = ht.min] /\ phase' = "run" /\ last' = last
      /\ probe' = probe /\ refs' = refs /\ marked' = {}
  BY DEF EndReclaim, RestartCount
<1>2. ht.min \in Int
  BY TableTyped, TableAssumption DEF IInv, Tables, CntNIL
<1>3. TableOK(ht') /\ Agree(ht, ht') /\ ht'.cnt = ht.min /\ ht'.min = ht.min /\ ht'.disabled = ht.disabled
  BY <1>1, <1>2, WordRestarts DEF IInv
<1>4. Types'
  BY <1>1 DEF IInv, Types, Phases
<1>5. ExactFor(ht', refs')
  BY <1>1, <1>3 DEF IInv, ExactFor, Agree
<1>6. CountsDown(ht', phase' = "run")
  <2>1. NumEntries(ht') \in Nat /\ NumEntries(ht') <= Cardinality(Ptr) /\ Cardinality(Ptr) \in Nat
    BY EntriesCounted
  <2>2. QED
    BY <1>1, <1>3, <2>1, TableAssumption DEF IInv, CountsDown
<1>7. Marks'
  <2>1. \A p \in Ptr : Hash[p] > -1
    BY TableAssumption DEF Bucket
  <2>2. QED
    BY <1>1, <1>3, <2>1 DEF IInv, Marks, Agree
<1>8. InHand'
  BY <1>1 DEF IInv, InHand
<1>9. QED
  BY <1>3, <1>4, <1>5, <1>6, <1>7, <1>8 DEF IInv

LEMMA BeginScanKeeps == IInv /\ BeginScan => IInv'
<1> SUFFICES ASSUME IInv, BeginScan PROVE IInv'
  OBVIOUS
<1>1. /\ phase = "stk" /\ phase' = "scan" /\ probe' = Top /\ last' = NoCall
      /\ ht' = ht /\ refs' = refs /\ marked' = marked
  BY DEF BeginScan
<1>2. Types'
  BY <1>1, TopIs DEF IInv, Types, Phases
<1>3. CountsDown(ht', phase' = "run")
  BY <1>1 DEF IInv, CountsDown
<1>4. Marks' /\ InHand'
  BY <1>1 DEF IInv, Marks, InHand, NoCall
<1>5. QED
  BY <1>1, <1>2, <1>3, <1>4 DEF IInv

LEMMA BeginUnscanKeeps == IInv /\ BeginUnscan => IInv'
<1> SUFFICES ASSUME IInv, BeginUnscan PROVE IInv'
  OBVIOUS
<1>1. /\ phase = "scan" /\ phase' = "unscan" /\ probe' = Top /\ last' = NoCall
      /\ ht' = ht /\ refs' = refs /\ marked' = marked
  BY DEF BeginUnscan
<1>2. Types'
  BY <1>1, TopIs DEF IInv, Types, Phases
<1>3. CountsDown(ht', phase' = "run")
  BY <1>1 DEF IInv, CountsDown
<1>4. \A p \in Ptr : ~(Hash[p] > Top)
  BY TopIs, TableAssumption
<1>5. Marks' /\ InHand'
  BY <1>1, <1>4 DEF IInv, Marks, InHand, NoCall
<1>6. QED
  BY <1>1, <1>2, <1>3, <1>5 DEF IInv

\* gcmapscan takes garbage only.
TookGarbage == last'.ptr # NIL /\ ~ht.disabled => refs[last'.ptr] = 0 /\ last'.ptr \notin marked

LEMMA VisitKeeps == IInv /\ Visit => IInv' /\ TookGarbage
<1> SUFFICES ASSUME IInv, Visit PROVE IInv' /\ TookGarbage
  OBVIOUS
<1> DEFINE v == gcmapscanAt(ht, probe)
<1>1. /\ phase = "scan" /\ probe >= 0 /\ ht' = v.t
      /\ refs' = (IF v.ptr = NIL THEN refs ELSE [refs EXCEPT ![v.ptr] = 1])
      /\ last' = [op |-> "TAKE", ptr |-> v.ptr, val |-> v.ptr]
      /\ probe' = (IF v.retry THEN probe ELSE probe - 1) /\ phase' = phase /\ marked' = marked
  BY DEF Visit
<1>2. probe \in Bucket /\ v = gcmapscanAt(ht, probe) /\ probe \in -1 .. Top /\ Top \in Nat
  BY <1>1, TopIs DEF IInv, Types
<1> HIDE DEF v
<1>3. TableOK(ht)
  BY DEF IInv
<1>4. \/ v = [t |-> ht, ptr |-> NIL, retry |-> FALSE]
      \/ Taken(ht, probe, v.t, v.ptr) /\ v.retry \in BOOLEAN
  BY <1>2, <1>3, gcmapscanTakes
<1>5. probe' \in -1 .. Top
  BY <1>1, <1>2
<1>6. InHand'
  BY <1>1 DEF InHand
<1>7. CASE v = [t |-> ht, ptr |-> NIL, retry |-> FALSE]
  <2>1. ht' = ht /\ refs' = refs /\ last'.ptr = NIL
    BY <1>1, <1>7
  <2>2. Types' /\ Marks' /\ CountsDown(ht', phase' = "run")
    BY <1>1, <1>5, <2>1 DEF IInv, Types, Marks
  <2>3. QED
    BY <1>6, <2>1, <2>2 DEF IInv, TookGarbage
<1>8. CASE Taken(ht, probe, v.t, v.ptr)
  <2> DEFINE p == v.ptr
  <2>1. p \in Ptr /\ Collectable(ht, p) /\ Says(ht, ht', p, 1, FALSE) /\ Rest(ht, ht')
    BY <1>1, <1>8 DEF Taken
  <2>2. p # NIL
    BY <2>1, TableAssumption
  <2>3. refs' = [refs EXCEPT ![p] = 1] /\ last'.ptr = p
    BY <1>1, <2>2
  <2> HIDE DEF p
  <2>4. /\ TableOK(ht') /\ RefCnt(ht', p) = 1 /\ ~StkBit(ht', p) /\ RefCnt(ht, p) = 0 /\ ~StkBit(ht, p)
        /\ \A q \in Ptr : q # p => RefCnt(ht', q) = RefCnt(ht, q) /\ (StkBit(ht', q) <=> StkBit(ht, q))
        /\ ht'.cnt = ht.cnt /\ ht'.min = ht.min /\ ht'.disabled = ht.disabled
    BY <2>1 DEF Says, Rest, Collectable
  <2>5. refs' \in RefsType /\ refs'[p] = 1 /\ \A q \in Ptr : q # p => refs'[q] = refs[q]
    BY <2>1, <2>3, BoundAssumption DEF IInv, Types, RefsType
  <2>6. ExactFor(ht', refs')
    BY <2>4, <2>5 DEF IInv, ExactFor
  <2>7. CountsDown(ht', phase' = "run")
    BY <1>1, <2>4 DEF IInv, CountsDown
  <2>8. Types' /\ Marks'
    BY <1>1, <1>5, <2>4, <2>5 DEF IInv, Types, Marks
  <2>9. TookGarbage
    BY <1>1, <2>1, <2>3, <2>4 DEF IInv, ExactFor, Marks, TookGarbage
  <2>10. QED
    BY <1>6, <2>4, <2>6, <2>7, <2>8, <2>9 DEF IInv
<1>9. QED
  BY <1>4, <1>7, <1>8

LEMMA UnvisitKeeps == IInv /\ Unvisit => IInv'
<1> SUFFICES ASSUME IInv, Unvisit PROVE IInv'
  OBVIOUS
<1> DEFINE v == gcmapunscanAt(ht, probe)
<1>1. /\ phase = "unscan" /\ probe >= 0 /\ ht' = v.t /\ probe' = (IF v.retry THEN probe ELSE probe - 1)
      /\ phase' = phase /\ refs' = refs /\ marked' = marked /\ last' = last
  BY DEF Unvisit, UnscanAgain
<1>2. probe \in Bucket /\ v = gcmapunscanAt(ht, probe) /\ probe \in -1 .. Top /\ Top \in Nat
  BY <1>1, TopIs DEF IInv, Types
<1> HIDE DEF v
<1>3. TableOK(ht)
  BY DEF IInv
<1>4. Swept(ht, probe, ht', v.retry)
  BY <1>1, <1>2, <1>3, gcmapunscanSweeps
<1>5. /\ TableOK(ht') /\ ht'.cnt = ht.cnt /\ ht'.min = ht.min /\ ht'.disabled = ht.disabled /\ v.retry \in BOOLEAN
      /\ \A q \in Ptr : RefCnt(ht', q) = RefCnt(ht, q) /\ (StkBit(ht', q) => StkBit(ht, q))
      /\ ~v.retry => \A q \in Ptr : Hash[q] = probe => ~StkBit(ht', q)
  BY <1>4 DEF Swept, Unmarked, Rest, Bare
<1>6. Types'
  BY <1>1, <1>2, <1>5 DEF IInv, Types
<1>7. ExactFor(ht', refs') /\ CountsDown(ht', phase' = "run")
  BY <1>1, <1>5 DEF IInv, ExactFor, CountsDown
<1>8. Marks'
  <2>1. SUFFICES ASSUME ~ht.disabled, NEW q \in Ptr, Hash[q] > probe' PROVE ~StkBit(ht', q)
    BY <1>1, <1>5 DEF Marks
  <2>2. Hash[q] \in Int
    BY TableAssumption DEF Bucket
  <2>3. CASE Hash[q] > probe
    BY <1>1, <1>5, <2>1, <2>3 DEF IInv, Marks
  <2>4. CASE ~(Hash[q] > probe)
    <3>1. ~v.retry /\ Hash[q] = probe
      BY <1>1, <1>2, <1>5, <2>1, <2>2, <2>4
    <3>2. QED
      BY <1>5, <3>1
  <2>5. QED
    BY <2>3, <2>4
<1>9. InHand'
  BY <1>1 DEF IInv, InHand
<1>10. QED
  BY <1>5, <1>6, <1>7, <1>8, <1>9 DEF IInv

-----------------------------------------------------------------------------
(* The steps put together.                                                 *)

\* LookupReports and CountdownFollowsTable, of one step.
Reports ==
  last'.op \in {"ADDREF", "DELREF", "STKREF"} /\ last' # last /\ ~ht'.disabled =>
    last'.val = IF last'.op = "DELREF" /\ refs[last'.ptr] = 1 /\ ~StkBit(ht, last'.ptr)
                THEN last'.ptr ELSE NIL
Follows == phase = "run" /\ phase' = "run" /\ ~ht'.disabled => FollowsTable(ht, ht')
Takes == last'.op = "TAKE" => TookGarbage
StepWell == IInv' /\ Reports /\ Follows /\ Takes

LEMMA LookWell ==
  ASSUME IInv, NEW p \in Ptr, NEW op \in Ops, NEW n, LookStep(p, op, n)
  PROVE  StepWell
<1>1. /\ IInv' /\ (phase = "run" /\ ~ht'.disabled => FollowsTable(ht, ht'))
      /\ ~ht'.disabled => last' = NoCall \/ last' = [op |-> op, ptr |-> p, val |-> Report(ht, p, op)]
  BY LookKeeps
<1>2. last'.op # "TAKE" /\ (ht.disabled => ht'.disabled)
  <2>1. PICK rec, val : /\ rec \in BOOLEAN /\ Outcome(ht, ht', val, p, op, rec)
                        /\ last' \in {NoCall, [op |-> op, ptr |-> p, val |-> val]}
    BY DEF LookStep
  <2>2. TableOK(ht)
    BY DEF IInv
  <2>3. QED
    BY <2>1, <2>2, OutcomeReports DEF NoCall, Ops
<1>3. Reports
  <2>1. SUFFICES ASSUME last'.op \in {"ADDREF", "DELREF", "STKREF"}, ~ht'.disabled
                 PROVE  last'.val = IF last'.op = "DELREF" /\ refs[last'.ptr] = 1 /\ ~StkBit(ht, last'.ptr)
                                    THEN last'.ptr ELSE NIL
    BY DEF Reports
  <2>2. last' = [op |-> op, ptr |-> p, val |-> Report(ht, p, op)]
    BY <1>1, <2>1 DEF NoCall
  <2>3. RefCnt(ht, p) = refs[p]
    BY <1>2, <2>1 DEF IInv, ExactFor
  <2>4. QED
    BY <2>2, <2>3 DEF Report
<1>4. QED
  BY <1>1, <1>2, <1>3 DEF StepWell, Follows, Takes

\* A step that is no lookup and no visit of gcmapscan.
LEMMA QuietWell ==
  ASSUME IInv, IInv', last' = NoCall \/ last' = last, phase = "run" => phase' # "run"
  PROVE  (phase # "scan" \/ last' = NoCall) => StepWell
<1>1. last'.op # "TAKE" \/ (phase = "scan" /\ last' # NoCall)
  BY DEF IInv, InHand, NoCall
<1>2. QED
  BY <1>1 DEF StepWell, Reports, Follows, Takes, NoCall

LEMMA NextWell == IInv /\ Next => StepWell
<1> SUFFICES ASSUME IInv, Next PROVE StepWell
  OBVIOUS
<1>1. "ADDREF" \in Ops /\ "DELREF" \in Ops /\ "STKREF" \in Ops
  BY DEF Ops
<1>2. ASSUME NEW p \in Ptr, AddRef(p) \/ DelRef(p) \/ StkRef(p) \/ RecDelRef(p) PROVE StepWell
  BY <1>1, <1>2, MutatorLooks, ReclaimLooks, LookWell
<1>3. CASE BeginReclaim
  <2>1. last' = NoCall /\ phase' # "run"
    BY <1>3 DEF BeginReclaim
  <2>2. QED
    BY <1>3, <2>1, BeginReclaimKeeps, QuietWell
<1>4. CASE BeginScan
  <2>1. last' = NoCall /\ phase' # "run"
    BY <1>4 DEF BeginScan
  <2>2. QED
    BY <1>4, <2>1, BeginScanKeeps, QuietWell
<1>5. CASE Visit
  <2>1. last'.op = "TAKE" /\ phase = "scan"
    BY <1>5 DEF Visit
  <2>2. QED
    BY <1>5, <2>1, VisitKeeps DEF StepWell, Reports, Follows, Takes
<1>6. CASE Doval
  <2> DEFINE p == last.val
  <2>1. p \in Ptr
    BY <1>6 DEF Doval, IInv, InHand
  <2>2. LookStep(p, "ADDREF", 1)
    BY <1>6, <2>1, ReclaimLooks
  <2> HIDE DEF p
  <2>3. QED
    BY <1>1, <2>1, <2>2, LookWell
<1>7. CASE BeginUnscan
  <2>1. last' = NoCall /\ phase = "scan"
    BY <1>7 DEF BeginUnscan
  <2>2. QED
    BY <1>7, <2>1, BeginUnscanKeeps, QuietWell
<1>8. CASE Unvisit
  <2>1. last' = last /\ phase = "unscan"
    BY <1>8 DEF Unvisit
  <2>2. QED
    BY <1>8, <2>1, UnvisitKeeps, QuietWell
<1>9. CASE EndReclaim
  <2>1. last' = last /\ phase = "unscan"
    BY <1>9 DEF EndReclaim
  <2>2. QED
    BY <1>9, <2>1, EndReclaimKeeps, QuietWell
<1>10. QED
  BY <1>2, <1>3, <1>4, <1>5, <1>6, <1>7, <1>8, <1>9 DEF Next

LEMMA InvStep == IInv /\ [Next]_vars => IInv'
<1>1. ASSUME IInv, UNCHANGED vars PROVE IInv'
  BY <1>1 DEF vars, IInv, Types, Marks, InHand
<1>2. QED
  BY <1>1, NextWell DEF StepWell

LEMMA InvAlways == Spec => []IInv
BY StartsWell, InvStep, PTL DEF Spec

-----------------------------------------------------------------------------
(* What the invariant says of links, chains, overflow slots and words.     *)

LEMMA ImpliesTypeOK == IInv => TypeOK
<1> SUFFICES ASSUME IInv PROVE TypeOK
  OBVIOUS
<1>1. ht \in Tables
  BY TableTyped DEF IInv
<1>2. /\ ht.main \in [Bucket -> Word] /\ ht.free \in 0 .. HTCOLLMAX /\ ht.hwm \in 1 .. HTCOLLMAX + 1
      /\ ht.min \in {CntNIL, ReclaimMin} /\ ht.disabled \in BOOLEAN
  BY <1>1 DEF Tables
<1>3. \A l \in Link : ht.coll[l].word \in Word /\ ht.coll[l].next \in 0 .. HTCOLLMAX
  BY <1>1 DEF Tables, Cell
<1>4. ht.cnt \in -1 .. ReclaimMin + Cardinality(Ptr)
  <2>1. Cardinality(Ptr) \in Nat /\ NumEntries(ht) \in Nat /\ ReclaimMin \in Nat
    BY EntriesCounted, TableAssumption
  <2>2. ht.cnt = -1 \/ (ht.cnt \in Nat /\ ht.cnt + NumEntries(ht) <= ReclaimMin + Cardinality(Ptr))
    BY <1>2 DEF IInv, CountsDown, CntNIL
  <2>3. QED
    BY <2>1, <2>2
<1>5. phase \in {"run", "stk", "scan", "unscan"} /\ probe \in -1 .. Top
      /\ refs \in [Ptr -> 0 .. MaxRefs] /\ marked \in SUBSET Ptr
  BY DEF IInv, Types, Phases, RefsType
<1>6. QED
  BY <1>2, <1>3, <1>4, <1>5 DEF TypeOK

LEMMA ImpliesLinksAccounted == IInv => LinksAccounted
<1> SUFFICES ASSUME IInv PROVE LinksAccounted
  OBVIOUS
<1>1. LinkInv(ht, NoLinks) /\ ht \in Tables
  BY TableTyped DEF IInv, TableOK, Core
<1> DEFINE chains == [b \in Bucket |-> {Chain(ht, b)[i] : i \in DOMAIN Chain(ht, b)}]
           spare == {FreeLinks[i] : i \in DOMAIN FreeLinks}
<1>2. spare = Spare(ht) /\ \A b \in Bucket : chains[b] = Ch(ht, b)
  BY DEF FreeLinks, Spare, Ch
<1> HIDE DEF chains, spare
<1>3. \A b, c \in Bucket : b # c => chains[b] \cap chains[c] = {}
  BY <1>1, <1>2 DEF LinkInv, Apart
<1>4. \A b \in Bucket : chains[b] \cap spare = {} /\ chains[b] \subseteq 1 .. ht.hwm - 1
  BY <1>1, <1>2 DEF LinkInv, Apart, NoLinks
<1>5. ~ht.disabled => (UNION {chains[b] : b \in Bucket}) \cup spare = 1 .. ht.hwm - 1
  <2>1. SUFFICES ASSUME ~ht.disabled PROVE (UNION {chains[b] : b \in Bucket}) \cup spare = 1 .. ht.hwm - 1
    OBVIOUS
  <2>2. ASSUME NEW l \in 1 .. ht.hwm - 1 PROVE l \in (UNION {chains[b] : b \in Bucket}) \cup spare
    <3>1. l \in Spare(ht) \/ \E b \in Bucket : l \in Ch(ht, b)
      BY <1>1, <2>1 DEF LinkInv, Accounted, NoLinks
    <3>2. QED
      BY <1>2, <3>1
  <2>3. spare \subseteq 1 .. ht.hwm - 1
    BY <1>1, <1>2 DEF LinkInv, Apart
  <2>4. QED
    BY <1>4, <2>2, <2>3
<1>6. QED
  BY <1>3, <1>4, <1>5 DEF LinksAccounted, chains, spare

LEMMA AtMostOne ==
  ASSUME NEW S, \A x, y \in S : x = y
  PROVE  IsFiniteSet(S) /\ Cardinality(S) = IF S = {} THEN 0 ELSE 1
<1>1. CASE S = {}
  BY <1>1, FS_EmptySet
<1>2. CASE S # {}
  <2>1. PICK x : S = {x}
    BY <1>2
  <2>2. QED
    BY <1>2, <2>1, FS_Singleton
<1>3. QED
  BY <1>1, <1>2

LEMMA ImpliesChainsWellFormed == IInv => ChainsWellFormed
<1> SUFFICES ASSUME IInv PROVE ChainsWellFormed
  OBVIOUS
<1>1. Core(ht, NoLinks) /\ LinkInv(ht, NoLinks)
  BY TableTyped DEF IInv, Core
<1>2. ASSUME NEW b \in Bucket, ht.main[b].tag = "link"
      PROVE  /\ Len(Chain(ht, b)) >= 2
             /\ \A i \in DOMAIN Chain(ht, b) :
                  LET w == ht.coll[Chain(ht, b)[i]].word IN w.tag = "entry" /\ Hash[w.ptr] = b
  <2> DEFINE ch == Chain(ht, b)
  <2>1. PICK n \in Nat \ {0} : IsPath(ht, ht.main[b].link, n, ch)
    BY <1>1, <1>2 DEF LinkInv, Paths, ChainPath
  <2>2. ch \in Seq(Link) /\ DOMAIN ch = 1 .. n /\ Ch(ht, b) = {ch[i] : i \in DOMAIN ch}
    BY <2>1, PathDomain DEF IsPath, Ch
  <2>3. BucketOK(ht, b)
    BY <1>1 DEF Core
  <2> HIDE DEF ch
  <2>4. PICK l \in Ch(ht, b), k \in Ch(ht, b) : l # k
    BY <1>2, <2>3 DEF BucketOK, ChainOK
  <2>5. n # 1
    BY <2>2, <2>4
  <2>6. Len(ch) >= 2
    BY <2>2, <2>5
  <2>7. ASSUME NEW i \in DOMAIN ch PROVE ht.coll[ch[i]].word.tag = "entry" /\ Hash[ht.coll[ch[i]].word.ptr] = b
    <3>1. ch[i] \in Ch(ht, b)
      BY <2>2
    <3>2. ht.coll[ch[i]].word \in Words(ht, b)
      BY <1>2, <3>1 DEF Words
    <3>3. QED
      BY <2>3, <3>2, TagsApart DEF BucketOK, WordOK
  <2>8. QED
    BY <2>6, <2>7 DEF ch
<1>3. ASSUME NEW p \in Ptr PROVE Cardinality(EntriesOf(ht, p)) <= 1
  <2>1. \A s, r \in EntriesOf(ht, p) : s = r
    BY <1>1, EntriesAre
  <2>2. QED
    BY <2>1, AtMostOne
<1>4. QED
  BY <1>2, <1>3 DEF ChainsWellFormed

LEMMA ImpliesOverflowExact == IInv => OverflowExact
<1> SUFFICES ASSUME IInv, NEW p \in Ptr
             PROVE  Cardinality({i \in DOMAIN ht.big : ht.big[i].ptr = p})
                      = IF \E s \in EntriesOf(ht, p) : GETGC(ht, s).count = MAX_GCCOUNT THEN 1 ELSE 0
  BY DEF OverflowExact
<1>1. Core(ht, NoLinks) /\ BigFits(ht.big, Sat(ht))
  BY DEF IInv, TableOK
<1> DEFINE slots == {i \in DOMAIN ht.big : ht.big[i].ptr = p}
<1>2. \A i, j \in slots : i = j
  BY <1>1 DEF BigFits
<1>3. slots # {} <=> p \in Sat(ht)
  BY <1>1 DEF BigFits
<1>4. p \in Sat(ht) <=> \E s \in EntriesOf(ht, p) : GETGC(ht, s).count = MAX_GCCOUNT
  <2>1. \A s \in EntriesOf(ht, p) : GETGC(ht, s) \in At(ht, p)
    BY <1>1, EntriesAre
  <2>2. ASSUME NEW w \in At(ht, p) PROVE \E s \in EntriesOf(ht, p) : GETGC(ht, s) = w
    <3>1. PICK s : s \in EntriesOf(ht, p)
      BY <1>1, EntriesAre
    <3>2. At(ht, p) = {w} /\ GETGC(ht, s) \in At(ht, p)
      BY <1>1, <2>1, <3>1, OneEntry
    <3>3. QED
      BY <3>1, <3>2
  <2>3. QED
    BY <2>1, <2>2 DEF Sat
<1> HIDE DEF slots
<1>5. Cardinality(slots) = IF slots = {} THEN 0 ELSE 1
  BY <1>2, AtMostOne
<1>6. QED
  BY <1>3, <1>4, <1>5 DEF slots

LEMMA ImpliesStackMarksExact == IInv => StackMarksExact
<1> SUFFICES ASSUME IInv PROVE StackMarksExact
  OBVIOUS
<1>1. marked \subseteq Ptr
  BY DEF IInv, Types
<1>2. QED
  BY <1>1 DEF IInv, Marks, StackMarksExact

-----------------------------------------------------------------------------
(* The theorems.                                                           *)

\* Whatever the program counts and the collector sweeps, the links, chains,
\* overflow slots and stack marks of the table (GetLink, FreeLink, DelLink,
\* enter_big_reference_count, modify_big_reference_count, gcmapscan,
\* gcmapunscan) fit together, with no bound on pointers, buckets or links.
THEOREM TableHolds == Spec => []TableInv
<1>1. IInv => TableInv
  BY ImpliesTypeOK, ImpliesLinksAccounted, ImpliesChainsWellFormed, ImpliesOverflowExact, ImpliesStackMarksExact DEF TableInv
<1>2. QED
  BY <1>1, InvAlways, PTL

\* As long as the collector is enabled, the count that htfind and rec_htfind
\* keep of a pointer is the number of references there are to it.
THEOREM CountsAreExact == Spec => []CountsExact
<1>1. IInv => CountsExact
  BY DEF IInv, ExactFor, CountsExact
<1>2. QED
  BY <1>1, InvAlways, PTL

\* A lookup reports the pointer that it left without a reference and without a
\* stack mark, and nothing else; the countdown to the next reclamation moves
\* with the number of entries and stops at zero.
THEOREM LookupsAreRight == Spec => LookupsRight
<1>1. IInv /\ [Next]_vars =>
        [ last'.op \in {"ADDREF", "DELREF", "STKREF"} /\ last' # last /\ ~ht'.disabled =>
          last'.val = IF last'.op = "DELREF" /\ refs[last'.ptr] = 1 /\ ~StkBit(ht, last'.ptr)
                      THEN last'.ptr ELSE NIL ]_vars
  BY NextWell DEF StepWell, Reports
<1>2. IInv /\ [Next]_vars =>
        [ phase = "run" /\ phase' = "run" /\ ~ht'.disabled =>
          LET n == ht.cnt - (NumEntries(ht') - NumEntries(ht))
          IN  ht'.cnt = IF n <= S_POSITIVE THEN S_POSITIVE ELSE n ]_vars
  BY NextWell DEF StepWell, Follows, FollowsTable
<1>3. QED
  BY <1>1, <1>2, InvAlways, PTL DEF Spec, LookupsRight, LookupReports, CountdownFollowsTable

\* gcmapscan takes an object only when no counted reference and no stack
\* reference to it exists.
THEOREM OnlyGarbageIsTaken == Spec => TakesOnlyGarbage
<1>1. IInv /\ [Next]_vars =>
        [ last'.op = "TAKE" /\ last'.ptr # NIL /\ ~ht.disabled =>
          refs[last'.ptr] = 0 /\ last'.ptr \notin marked ]_vars
  BY NextWell DEF StepWell, Takes, TookGarbage
<1>2. QED
  BY <1>1, InvAlways, PTL DEF Spec, TakesOnlyGarbage

-----------------------------------------------------------------------------
(* The discipline that the counts serve, RefCountGC, for every finite heap,  *)
(* set of roots and of fields.                                              *)

\* The heap after a store, and after the fields of o were filled; the places
\* of a filled object that hold p.
Put(f, r, v) == [f EXCEPT ![r] = v]
Fill(f, o, init) == [r \in Place |-> IF r[1] = o THEN init[r[2]] ELSE f[r]]
NewRefs(o, init, p) == {r \in {o} \X Field : init[r[2]] = p}

LEMMA PlaceFinite == IsFiniteSet(Place)
BY HeapAssumption, FS_Product DEF Place

LEMMA RefsFinite ==
  ASSUME NEW f, NEW p
  PROVE  IsFiniteSet(Refs(f, p)) /\ Cardinality(Refs(f, p)) \in Nat
<1>1. Refs(f, p) \subseteq Place
  BY DEF Refs
<1>2. QED
  BY <1>1, PlaceFinite, FS_Subset, FS_CardinalityType

\* Storing v over another value moves one place from the references of the
\* old value to those of the new one.
LEMMA StoreCounts ==
  ASSUME NEW f \in [Place -> Obj \cup {Null}], NEW r \in Place,
         NEW v \in Obj \cup {Null}, NEW p \in Obj
  PROVE  /\ p # v /\ p # f[r] => Cardinality(Refs(Put(f, r, v), p)) = Cardinality(Refs(f, p))
         /\ p = v /\ p # f[r] => Cardinality(Refs(Put(f, r, v), p)) = Cardinality(Refs(f, p)) + 1
         /\ p # v /\ p = f[r] => /\ Cardinality(Refs(Put(f, r, v), p)) = Cardinality(Refs(f, p)) - 1
                                 /\ Cardinality(Refs(f, p)) > 0
         /\ v = f[r] => Cardinality(Refs(Put(f, r, v), p)) = Cardinality(Refs(f, p))
<1>1. ASSUME p = v, p # f[r] PROVE Cardinality(Refs(Put(f, r, v), p)) = Cardinality(Refs(f, p)) + 1
  <2>1. Refs(Put(f, r, v), p) = Refs(f, p) \cup {r} /\ r \notin Refs(f, p)
    BY <1>1 DEF Refs, Put
  <2>2. QED
    BY <2>1, RefsFinite, FS_AddElement
<1>2. ASSUME p # v, p = f[r]
      PROVE  /\ Cardinality(Refs(Put(f, r, v), p)) = Cardinality(Refs(f, p)) - 1
             /\ Cardinality(Refs(f, p)) > 0
  <2>1. Refs(Put(f, r, v), p) = Refs(f, p) \ {r} /\ r \in Refs(f, p)
    BY <1>2 DEF Refs, Put
  <2>2. Cardinality(Refs(Put(f, r, v), p)) = Cardinality(Refs(f, p)) - 1
    <3>1. IsFiniteSet(Refs(f, p))
      BY RefsFinite
    <3>2. Cardinality(Refs(f, p) \ {r}) = Cardinality(Refs(f, p)) - 1
      BY <2>1, <3>1, FS_RemoveElement
    <3>3. QED
      BY <2>1, <3>2
  <2>3. Cardinality(Refs(f, p)) # 0
    BY <2>1, RefsFinite, FS_EmptySet
  <2>4. QED
    BY <2>2, <2>3, RefsFinite
<1>3. (p # v /\ p # f[r]) \/ v = f[r] => Refs(Put(f, r, v), p) = Refs(f, p)
  BY DEF Refs, Put
<1>4. QED
  BY <1>1, <1>2, <1>3

\* Filling the fields of an object that held nothing adds its new references.
LEMMA AllocCounts ==
  ASSUME NEW f \in [Place -> Obj \cup {Null}], NEW o \in Obj,
         \A x \in Field : f[<<o, x>>] = Null,
         NEW init \in [Field -> Obj \cup {Null}], NEW p \in Obj
  PROVE  /\ Refs(Fill(f, o, init), p) = Refs(f, p) \cup NewRefs(o, init, p)
         /\ Cardinality(Refs(Fill(f, o, init), p)) = Cardinality(Refs(f, p)) + Cardinality(NewRefs(o, init, p))
         /\ Cardinality(NewRefs(o, init, p)) \in Nat
<1>0. p # Null
  BY HeapAssumption
<1>1. NewRefs(o, init, p) \subseteq Place
  BY DEF Place, NewRefs
<1>2. IsFiniteSet(NewRefs(o, init, p)) /\ Cardinality(NewRefs(o, init, p)) \in Nat
  BY <1>1, PlaceFinite, FS_Subset, FS_CardinalityType
<1>3. Refs(Fill(f, o, init), p) = Refs(f, p) \cup NewRefs(o, init, p)
  <2>1. ASSUME NEW r \in Refs(Fill(f, o, init), p) PROVE r \in Refs(f, p) \cup NewRefs(o, init, p)
    BY DEF Refs, Place, Fill, NewRefs
  <2>2. ASSUME NEW r \in Refs(f, p) PROVE r \in Refs(Fill(f, o, init), p)
    <3>1. r \in Place /\ f[r] = p /\ r = <<r[1], r[2]>> /\ r[2] \in Field
      BY DEF Refs, Place, Fill, NewRefs
    <3>2. r[1] # o
      BY <3>1, <1>0
    <3>3. QED
      BY <3>1, <3>2 DEF Refs, Fill
  <2>3. ASSUME NEW r \in NewRefs(o, init, p) PROVE r \in Refs(Fill(f, o, init), p)
    <3>1. r \in Place /\ r[1] = o /\ init[r[2]] = p
      BY DEF Place, NewRefs
    <3>2. QED
      BY <3>1 DEF Refs, Fill
  <2>4. QED
    BY <2>1, <2>2, <2>3
<1>4. Refs(f, p) \cap NewRefs(o, init, p) = {}
  <2> SUFFICES ASSUME NEW r \in Refs(f, p), r \in NewRefs(o, init, p) PROVE FALSE
    OBVIOUS
  <2>1. r \in Place /\ f[r] = p
    BY DEF Refs, Fill
  <2>2. r = <<o, r[2]>> /\ r[2] \in Field
    BY DEF NewRefs
  <2>3. QED
    BY <2>1, <2>2, <1>0
<1>5. Cardinality(Refs(f, p) \cap NewRefs(o, init, p)) = 0
  BY <1>4, FS_EmptySet
<1>6. Cardinality(Refs(f, p) \cup NewRefs(o, init, p))
        = Cardinality(Refs(f, p)) + Cardinality(NewRefs(o, init, p)) - Cardinality(Refs(f, p) \cap NewRefs(o, init, p))
  BY <1>2, RefsFinite, FS_Union
<1>7. Cardinality(Refs(f, p)) \in Nat
  BY RefsFinite
<1>8. Cardinality(Refs(Fill(f, o, init), p)) = Cardinality(Refs(f, p)) + Cardinality(NewRefs(o, init, p))
  BY <1>2, <1>3, <1>5, <1>6, <1>7
<1>9. QED
  BY <1>2, <1>3, <1>8
-----------------------------------------------------------------------------
(* The invariant, one lemma per group of actions.                          *)

LEMMA InitInv == GCInit => Inv
<1> SUFFICES ASSUME GCInit PROVE Inv
  OBVIOUS
<1>1. GCTypeOK /\ free \cap dying = {} /\ FreeIsBlank /\ StackSeen
  BY DEF GCInit, GCTypeOK, FreeIsBlank, StackSeen, Heap, Place
<1>2. CountIsRefs
  BY DEF GCInit, CountIsRefs
<1>3. NoDangling
  BY HeapAssumption DEF GCInit, NoDangling, Refs, Heap
<1>4. QED
  BY <1>1, <1>2, <1>3 DEF Inv

LEMMA AllocInv ==
  ASSUME Inv, NEW o \in Heap, NEW init \in [Field -> Held \cup {Null}], Alloc(o, init)
  PROVE  Inv'
<1>1. /\ o \in free /\ o \in Obj /\ o \in Heap /\ o \notin dying
      /\ fld \in [Place -> Obj \cup {Null}] /\ cnt \in [Obj -> Nat]
      /\ \A x \in Field : fld[<<o, x>>] = Null
      /\ init \in [Field -> Obj \cup {Null}] /\ fld' = Fill(fld, o, init)
  BY HeapAssumption DEF Fill, Inv, GCTypeOK, Alloc, FreeIsBlank, Heap, Held
<1>2. ASSUME NEW p \in Obj
      PROVE  /\ Refs(fld', p) = Refs(fld, p) \cup NewRefs(o, init, p)
             /\ Cardinality(Refs(fld', p)) = Cardinality(Refs(fld, p)) + Cardinality(NewRefs(o, init, p))
             /\ Cardinality(NewRefs(o, init, p)) \in Nat
  BY <1>1, AllocCounts
<1>3. GCTypeOK'
  <2>1. fld' \in [Place -> Obj \cup {Null}]
    <3>1. ASSUME NEW r \in Place PROVE r[2] \in Field
      BY DEF Place
    <3>2. QED
      BY <1>1, <3>1 DEF Alloc
  <2>2. cnt' \in [Obj -> Nat]
    <3>1. cnt' = [p \in Obj |-> IF p = o THEN 0 ELSE IF p \in Heap
                                THEN cnt[p] + Cardinality(NewRefs(o, init, p)) ELSE cnt[p]]
      BY DEF Alloc, NewRefs
    <3>2. ASSUME NEW p \in Obj PROVE cnt[p] + Cardinality(NewRefs(o, init, p)) \in Nat
      BY <1>1, <1>2
    <3>3. QED
      BY <1>1, <3>1, <3>2
  <2>3. QED
    BY <1>1, <2>1, <2>2 DEF Inv, GCTypeOK, Alloc, Heap
<1>4. (free \cap dying = {})'
  BY DEF Inv, Alloc
<1>5. CountIsRefs'
  <2> SUFFICES ASSUME NEW p \in Heap, p \notin free', p \notin dying'
               PROVE  cnt'[p] = Cardinality(Refs(fld', p))
    BY DEF CountIsRefs
  <2>1. p \in Obj /\ (p = o \/ p \in Heap \ (free \cup dying))
    BY DEF Alloc, Heap
  <2>2. CASE p = o
    <3>1. Refs(fld, o) = {} /\ o \notin stack
      BY <1>1 DEF Inv, NoDangling
    <3>2. NewRefs(o, init, o) = {}
      BY <1>1, <3>1, HeapAssumption DEF Held, Heap, NewRefs
    <3>3. Refs(fld', p) = {}
      BY <2>2, <3>1, <3>2, <1>1, <1>2
    <3>4. QED
      BY <2>2, <3>3, <1>1, FS_EmptySet DEF Alloc
  <2>3. CASE p # o
    <3>1. cnt[p] = Cardinality(Refs(fld, p))
      BY <2>1, <2>3 DEF Inv, CountIsRefs
    <3>2. cnt'[p] = cnt[p] + Cardinality(NewRefs(o, init, p))
      BY <2>1, <2>3 DEF Alloc, NewRefs
    <3>3. QED
      BY <3>1, <3>2, <1>2, <2>1
  <2>4. QED
    BY <2>2, <2>3
<1>6. NoDangling'
  <2> SUFFICES ASSUME NEW p \in free' \cup dying'
               PROVE  Refs(fld', p) = {} /\ p \notin stack'
    BY DEF NoDangling
  <2>1. p \in free \cup dying /\ p # o /\ p \in Obj /\ p \notin Root
    BY <1>1 DEF Alloc, Inv, GCTypeOK, Heap
  <2>2. Refs(fld, p) = {} /\ p \notin stack
    BY <2>1 DEF Inv, NoDangling
  <2>3. NewRefs(o, init, p) = {}
    BY <2>1, <2>2, HeapAssumption DEF Held, NewRefs
  <2>4. QED
    BY <1>2, <2>1, <2>2, <2>3 DEF Alloc
<1>7. FreeIsBlank'
  <2> SUFFICES ASSUME NEW q \in free', NEW x \in Field PROVE fld'[<<q, x>>] = Null
    BY DEF FreeIsBlank
  <2>1. q \in free /\ q # o /\ <<q, x>> \in Place
    BY DEF Alloc, Inv, GCTypeOK, Heap, Place
  <2>2. QED
    BY <2>1 DEF Alloc, Inv, FreeIsBlank
<1>8. StackSeen'
  BY DEF Alloc, StackSeen
<1>9. QED
  BY <1>3, <1>4, <1>5, <1>6, <1>7, <1>8 DEF Inv

LEMMA StoreInv ==
  ASSUME Inv, NEW r \in Place, NEW v \in Held \cup {Null}, Store(r, v)
  PROVE  Inv'
<1>1. /\ fld \in [Place -> Obj \cup {Null}] /\ cnt \in [Obj -> Nat]
      /\ v \in Obj \cup {Null} /\ fld[r] \in Obj \cup {Null}
      /\ fld' = Put(fld, r, v)
  BY HeapAssumption DEF Put, Inv, GCTypeOK, Held, Store
<1>2. v \notin free \cup dying
  BY HeapAssumption DEF Inv, GCTypeOK, NoDangling, Held, Heap
<1>3. fld[r] \notin free \cup dying
  BY DEF Inv, NoDangling, Refs
<1>4. ASSUME NEW p \in Heap \ (free \cup dying)
      PROVE  cnt'[p] = Cardinality(Refs(fld', p)) /\ cnt'[p] \in Nat
  <2>1. p \in Obj /\ p \in Heap /\ cnt[p] = Cardinality(Refs(fld, p)) /\ cnt[p] \in Nat
    BY <1>1, <1>4 DEF Inv, CountIsRefs, Heap
  <2>2. /\ p # v /\ p # fld[r] => Cardinality(Refs(fld', p)) = Cardinality(Refs(fld, p))
        /\ p = v /\ p # fld[r] => Cardinality(Refs(fld', p)) = Cardinality(Refs(fld, p)) + 1
        /\ p # v /\ p = fld[r] => /\ Cardinality(Refs(fld', p)) = Cardinality(Refs(fld, p)) - 1
                                  /\ Cardinality(Refs(fld, p)) > 0
        /\ v = fld[r] => Cardinality(Refs(fld', p)) = Cardinality(Refs(fld, p))
    BY <1>1, <2>1, StoreCounts
  <2>3. cnt'[p] = IF v # fld[r]
                  THEN cnt[p] + (IF p = v THEN 1 ELSE 0) - (IF p = fld[r] THEN 1 ELSE 0)
                  ELSE cnt[p]
    BY <2>1 DEF Store
  <2>4. QED
    BY <2>1, <2>2, <2>3
<1>5. GCTypeOK'
  <2>1. ASSUME NEW p \in Obj PROVE cnt'[p] \in Nat
    <3>1. CASE p \in Heap \ (free \cup dying)
      BY <3>1, <1>4
    <3>2. CASE p \notin Heap \ (free \cup dying)
      BY <3>2, <1>1, <1>2, <1>3 DEF Store
    <3>3. QED
      BY <3>1, <3>2
  <2>2. cnt' \in [Obj -> Nat]
    BY <2>1 DEF Store
  <2>3. QED
    BY <1>1, <2>2 DEF Inv, GCTypeOK, Store, Put
<1>6. CountIsRefs'
  BY <1>4 DEF CountIsRefs, Store
<1>7. NoDangling'
  <2> SUFFICES ASSUME NEW p \in free \cup dying
               PROVE  Refs(fld', p) = {} /\ p \notin stack
    BY DEF NoDangling, Store
  <2>1. Refs(fld, p) = {} /\ p \notin stack /\ p # v
    BY <1>2 DEF Inv, NoDangling
  <2>2. QED
    BY <1>1, <2>1 DEF Refs, Put
<1>8. FreeIsBlank'
  <2>1. r[1] \notin free /\ r = <<r[1], r[2]>>
    BY DEF Store, Inv, NoDangling, GCTypeOK, Held, Heap, Place
  <2> SUFFICES ASSUME NEW q \in free, NEW x \in Field PROVE fld'[<<q, x>>] = Null
    BY DEF FreeIsBlank, Store
  <2>2. <<q, x>> \in Place /\ <<q, x>> # r /\ fld[<<q, x>>] = Null
    BY <2>1 DEF Inv, GCTypeOK, Heap, Place, FreeIsBlank
  <2>3. QED
    BY <1>1, <2>2 DEF Put
<1>9. QED
  BY <1>5, <1>6, <1>7, <1>8 DEF Inv, StackSeen, Store

LEMMA LoadInv == ASSUME Inv, NEW r \in Place, Load(r) PROVE Inv'
<1>1. fld[r] \in Obj /\ fld[r] \notin free \cup dying
  BY DEF Inv, GCTypeOK, Load, NoDangling, Refs
<1>2. GCTypeOK' /\ CountIsRefs' /\ FreeIsBlank' /\ StackSeen' /\ (free \cap dying = {})'
  BY <1>1 DEF Inv, GCTypeOK, Load, CountIsRefs, FreeIsBlank, StackSeen
<1>3. NoDangling'
  BY <1>1 DEF Inv, NoDangling, Load
<1>4. QED
  BY <1>2, <1>3 DEF Inv

LEMMA DropRefInv == ASSUME Inv, NEW r \in Place, DropRef(r) PROVE Inv'
<1>1. /\ fld \in [Place -> Obj \cup {Null}] /\ cnt \in [Obj -> Nat]
      /\ fld[r] \in Obj /\ fld' = Put(fld, r, Null) /\ Null \notin Obj
  BY HeapAssumption DEF Put, Inv, GCTypeOK, DropRef
<1>2. fld[r] \notin free \cup dying
  BY DEF Inv, NoDangling, Refs
<1>3. ASSUME NEW p \in Heap \ (free \cup dying)
      PROVE  cnt'[p] = Cardinality(Refs(fld', p)) /\ cnt'[p] \in Nat
  <2>1. p \in Obj /\ p \in Heap /\ cnt[p] = Cardinality(Refs(fld, p)) /\ cnt[p] \in Nat
    BY <1>1, <1>3 DEF Inv, CountIsRefs, Heap
  <2>2. /\ p # fld[r] => Cardinality(Refs(fld', p)) = Cardinality(Refs(fld, p))
        /\ p = fld[r] => /\ Cardinality(Refs(fld', p)) = Cardinality(Refs(fld, p)) - 1
                         /\ Cardinality(Refs(fld, p)) > 0
    <3>1. Null \in Obj \cup {Null} /\ p # Null
      BY <1>1, <2>1
    <3>2. QED
      BY <1>1, <2>1, <3>1, StoreCounts
  <2>3. cnt'[p] = IF p = fld[r] THEN cnt[p] - 1 ELSE cnt[p]
    BY <2>1 DEF DropRef
  <2>4. QED
    BY <2>1, <2>2, <2>3
<1>4. GCTypeOK'
  <2>1. ASSUME NEW p \in Obj PROVE cnt'[p] \in Nat
    <3>1. CASE p \in Heap \ (free \cup dying)
      BY <3>1, <1>3
    <3>2. CASE p \notin Heap \ (free \cup dying)
      BY <3>2, <1>1, <1>2 DEF DropRef
    <3>3. QED
      BY <3>1, <3>2
  <2>2. cnt' \in [Obj -> Nat]
    BY <2>1 DEF DropRef
  <2>3. QED
    BY <1>1, <2>2 DEF Inv, GCTypeOK, DropRef, Put
<1>5. CountIsRefs'
  BY <1>3 DEF CountIsRefs, DropRef
<1>6. NoDangling'
  <2> SUFFICES ASSUME NEW p \in free \cup dying
               PROVE  Refs(fld', p) = {} /\ p \notin stack
    BY DEF NoDangling, DropRef
  <2>1. Refs(fld, p) = {} /\ p \notin stack /\ p # Null
    BY HeapAssumption DEF Inv, NoDangling, GCTypeOK, Heap
  <2>2. QED
    BY <1>1, <2>1 DEF Refs, Put
<1>7. FreeIsBlank'
  BY <1>1 DEF Inv, GCTypeOK, Heap, Place, FreeIsBlank, DropRef, Put
<1>8. QED
  BY <1>4, <1>5, <1>6, <1>7 DEF Inv, StackSeen, DropRef

LEMMA TakeInv == ASSUME Inv, NEW o \in Heap, Take(o) PROVE Inv'
<1>1. cnt[o] = 0 /\ o \notin stack /\ o \in Obj
  BY DEF Inv, Take, StackSeen, Heap
<1>2. Refs(fld, o) = {}
  <2>1. Cardinality(Refs(fld, o)) = 0
    BY <1>1 DEF Inv, CountIsRefs, Take
  <2>2. QED
    BY <2>1, RefsFinite, FS_EmptySet
<1>3. GCTypeOK' /\ FreeIsBlank' /\ StackSeen' /\ (free \cap dying = {})'
  BY DEF Inv, GCTypeOK, Take, FreeIsBlank, StackSeen
<1>4. CountIsRefs'
  BY <1>1 DEF Inv, GCTypeOK, Take, CountIsRefs
<1>5. NoDangling'
  BY <1>1, <1>2 DEF Inv, NoDangling, Take
<1>6. QED
  BY <1>3, <1>4, <1>5 DEF Inv

LEMMA ReleaseInv == ASSUME Inv, NEW o \in Heap, Release(o) PROVE Inv'
<1>1. free' \cup dying' = free \cup dying
  BY DEF Release
<1>2. GCTypeOK' /\ FreeIsBlank' /\ StackSeen' /\ (free \cap dying = {})'
  BY DEF Inv, GCTypeOK, Release, FreeIsBlank, StackSeen
<1>3. CountIsRefs' /\ NoDangling'
  BY <1>1 DEF Inv, Release, CountIsRefs, NoDangling
<1>4. QED
  BY <1>2, <1>3 DEF Inv

LEMMA StepInv == Inv /\ [GCNext]_gcVars => Inv'
<1> SUFFICES ASSUME Inv, [GCNext]_gcVars PROVE Inv'
  OBVIOUS
<1>1. CASE \E o \in Heap, init \in [Field -> Held \cup {Null}] : Alloc(o, init)
  BY <1>1, AllocInv
<1>2. CASE \E r \in Place, v \in Held \cup {Null} : Store(r, v)
  BY <1>2, StoreInv
<1>3. CASE \E r \in Place : Load(r)
  BY <1>3, LoadInv
<1>4. CASE \E r \in Place : DropRef(r)
  BY <1>4, DropRefInv
<1>5. CASE \E o \in Obj : Drop(o)
  BY <1>5 DEF Inv, GCTypeOK, Drop, CountIsRefs, NoDangling, FreeIsBlank, StackSeen
<1>6. CASE \E o \in Obj : Stkref(o)
  BY <1>6 DEF Inv, GCTypeOK, Stkref, CountIsRefs, NoDangling, FreeIsBlank, StackSeen
<1>7. CASE \E o \in Heap : Take(o)
  BY <1>7, TakeInv
<1>8. CASE \E o \in Heap : Release(o)
  BY <1>8, ReleaseInv
<1>9. CASE GCBegin
  BY <1>9 DEF Inv, GCTypeOK, GCBegin, CountIsRefs, NoDangling, FreeIsBlank, StackSeen
<1>10. CASE BeginSweep
  BY <1>10 DEF Inv, GCTypeOK, BeginSweep, CountIsRefs, NoDangling, FreeIsBlank, StackSeen
<1>11. CASE GCEnd
  BY <1>11 DEF Inv, GCTypeOK, GCEnd, CountIsRefs, NoDangling, FreeIsBlank, StackSeen
<1>12. CASE UNCHANGED gcVars
  BY <1>12 DEF Inv, GCTypeOK, gcVars, CountIsRefs, NoDangling, FreeIsBlank, StackSeen
<1>13. QED
  BY <1>1, <1>2, <1>3, <1>4, <1>5, <1>6, <1>7, <1>8, <1>9, <1>10, <1>11, <1>12 DEF GCNext

\* Counts equal references, in every reachable state of every heap.
THEOREM CountsCorrect == GCSpec => [](GCTypeOK /\ CountIsRefs)
<1>1. Inv => GCTypeOK /\ CountIsRefs
  BY DEF Inv
<1>2. QED
  BY <1>1, InitInv, StepInv, PTL DEF GCSpec

\* The reclaimer never frees an object that is stored anywhere or held by the
\* running program.
THEOREM ReclaimSafe == GCSpec => []NoDangling
<1>1. Inv => NoDangling
  BY DEF Inv
<1>2. QED
  BY <1>1, InitInv, StepInv, PTL DEF GCSpec

\* An object leaves use only in a state where nothing refers to it.
THEOREM FreesOnlyUnused == GCSpec => FreedOnlyIfUnused
<1> DEFINE Unused ==
      \A o \in Heap : o \notin free \cup dying /\ o \in free' \cup dying' =>
        Refs(fld, o) = {} /\ o \notin stack
<1>1. Inv /\ Inv' /\ [GCNext]_gcVars => [Unused]_gcVars
  <2> SUFFICES ASSUME Inv, Inv', GCNext, NEW o \in Heap,
                      o \notin free \cup dying, o \in free' \cup dying'
               PROVE  Refs(fld, o) = {} /\ o \notin stack
    BY DEF gcVars
  <2>1. Take(o)
    BY DEF GCNext, Alloc, Store, Load, DropRef, Drop, Stkref, Take, Release,
           GCBegin, BeginSweep, GCEnd
  <2>2. fld' = fld /\ stack' = stack /\ o \in dying'
    BY <2>1 DEF Take
  <2>3. QED
    BY <2>2 DEF Inv, NoDangling
<1>2. QED
  BY <1>1, InitInv, StepInv, PTL DEF GCSpec, FreedOnlyIfUnused
=============================================================================
