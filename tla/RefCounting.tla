----------------------------- MODULE RefCounting -----------------------------
(***************************************************************************)
(* The reference-count table in use: the mutator counts references with    *)
(* GCLOOKUP, a reclamation marks stack references, sweeps the zero counts  *)
(* out of the table, drops the references the reclaimed objects held, and  *)
(* takes the stack marks back.  The variable refs is the truth the table   *)
(* has to remember: how many counted references to each pointer exist.     *)
(***************************************************************************)
EXTENDS GCHashTable

CONSTANT MaxRefs   \* bound: references to one pointer

ASSUME BoundAssumption == MaxRefs \in Nat \ {0}

VARIABLES
  ht,     \* the table
  phase,  \* "run" (mutator), then "stk", "scan", "unscan" (dogc01)
  probe,  \* the HTmain index the current sweep visits; -1 past the last
  refs,   \* [Ptr -> Nat] references that exist
  marked, \* pointers the stack scan saw in this reclamation
  last    \* the last lookup: its case, pointer, result

vars == <<ht, phase, probe, refs, marked, last>>

Top == Cardinality(Bucket) - 1
NoCall == [op |-> "none", ptr |-> NIL, val |-> NIL]
NumEntries(t) == Cardinality({p \in Ptr : HasEntry(t, p)})

Init ==
  /\ ht = InitTable
  /\ phase = "run" /\ probe = -1
  /\ refs = [p \in Ptr |-> 1]
  /\ marked = {} /\ last = NoCall

Called(op, p, r) == last' = [op |-> op, ptr |-> p, val |-> r.val]

\* With the collector disabled nothing is counted any more.
Counted(p, n) == refs' = IF ht.disabled THEN refs ELSE [refs EXCEPT ![p] = n]

\* GCLOOKUP by an opcode of the running program.
AddRef(p) ==
  LET r == GCLOOKUPV(ht, p, "ADDREF") IN
  /\ phase = "run" /\ refs[p] < MaxRefs
  /\ ht' = r.t /\ Called("ADDREF", p, r)
  /\ Counted(p, refs[p] + 1)
  /\ UNCHANGED <<phase, probe, marked>>

DelRef(p) ==
  LET r == GCLOOKUPV(ht, p, "DELREF") IN
  /\ phase = "run" /\ refs[p] > 0
  /\ ht' = r.t /\ Called("DELREF", p, r)
  /\ Counted(p, refs[p] - 1)
  /\ UNCHANGED <<phase, probe, marked>>

\* doreclaim: only while the collector is enabled.
BeginReclaim ==
  /\ phase = "run" /\ ~ht.disabled
  /\ ht' = [ht EXCEPT !.cnt = CntNIL]
  /\ phase' = "stk" /\ last' = NoCall
  /\ UNCHANGED <<probe, refs, marked>>

\* gcscanstack: Stkref of one pointer found on the stack.
StkRef(p) ==
  LET r == REC_GCLOOKUPV(ht, p, "STKREF") IN
  /\ phase = "stk"
  /\ ht' = r.t /\ Called("STKREF", p, r)
  /\ marked' = marked \cup {p}
  /\ UNCHANGED <<phase, probe, refs>>

BeginScan ==
  /\ phase = "stk"
  /\ phase' = "scan" /\ probe' = Top /\ last' = NoCall
  /\ UNCHANGED <<ht, refs, marked>>

\* gcmapscan visits a bucket.  An object taken out of the table has no entry
\* any more, which is how a count of one is written: its cell goes to a free
\* list and is handed out again with that count.
Visit ==
  LET v == gcmapscanAt(ht, probe) IN
  /\ phase = "scan" /\ probe >= 0
  /\ ht' = v.t
  /\ refs' = IF v.ptr = NIL THEN refs ELSE [refs EXCEPT ![v.ptr] = 1]
  /\ last' = [op |-> "TAKE", ptr |-> v.ptr, val |-> v.ptr]
  /\ probe' = IF v.retry THEN probe ELSE probe - 1
  /\ UNCHANGED <<phase, marked>>

\* gcreccell drops a reference held by the object being reclaimed.
RecDelRef(p) ==
  LET r == REC_GCLOOKUPV(ht, p, "DELREF") IN
  /\ phase = "scan" /\ refs[p] > 0
  /\ ht' = r.t /\ Called("DELREF", p, r)
  /\ Counted(p, refs[p] - 1)
  /\ UNCHANGED <<phase, probe, marked>>

\* gcreccell, label doval: the count just became zero, so the entry is taken
\* away again with an ADDREF and the object is reclaimed at once.
Doval ==
  LET r == REC_GCLOOKUPV(ht, last.val, "ADDREF") IN
  /\ phase = "scan" /\ last.op = "DELREF" /\ last.val # NIL
  /\ ht' = r.t /\ last' = NoCall
  /\ refs' = [refs EXCEPT ![last.val] = 1]
  /\ UNCHANGED <<phase, probe, marked>>

BeginUnscan ==
  /\ phase = "scan" /\ probe = -1
  /\ phase' = "unscan" /\ probe' = Top /\ last' = NoCall
  /\ UNCHANGED <<ht, refs, marked>>

\* goto retry after a DelLink.
UnscanAgain(v) == v.retry

\* gcmapunscan visits a bucket.
Unvisit ==
  LET v == gcmapunscanAt(ht, probe) IN
  /\ phase = "unscan" /\ probe >= 0
  /\ ht' = v.t
  /\ probe' = IF UnscanAgain(v) THEN probe ELSE probe - 1
  /\ UNCHANGED <<phase, refs, marked, last>>

RestartCount(t) == t.min

\* The end of doreclaim: the countdown restarts from *ReclaimMin_word, which
\* is NIL if the collector was disabled on the way.
EndReclaim ==
  /\ phase = "unscan" /\ probe = -1
  /\ ht' = [ht EXCEPT !.cnt = RestartCount(ht)]
  /\ phase' = "run" /\ marked' = {}
  /\ UNCHANGED <<probe, refs, last>>

Next ==
  \/ \E p \in Ptr : AddRef(p) \/ DelRef(p) \/ StkRef(p) \/ RecDelRef(p)
  \/ BeginReclaim \/ BeginScan \/ Visit \/ Doval \/ BeginUnscan \/ Unvisit \/ EndReclaim

Spec == Init /\ [][Next]_vars

-----------------------------------------------------------------------------
TypeOK ==
  /\ ht.main \in [Bucket -> Word]
  /\ \A l \in Link : ht.coll[l].word \in Word /\ ht.coll[l].next \in 0 .. HTCOLLMAX
  /\ ht.free \in 0 .. HTCOLLMAX /\ ht.hwm \in 1 .. HTCOLLMAX + 1
  /\ ht.cnt \in -1 .. ReclaimMin + Cardinality(Ptr) /\ ht.min \in {CntNIL, ReclaimMin}
  /\ phase \in {"run", "stk", "scan", "unscan"} /\ probe \in -1 .. Top
  /\ refs \in [Ptr -> 0 .. MaxRefs] /\ marked \in SUBSET Ptr

\* The table answers with the true count of every pointer, whatever mixture of
\* direct entries, collision chains and overflow slots the count lives in.
CountsExact == ~ht.disabled => \A p \in Ptr : RefCnt(ht, p) = refs[p]

\* htfind and rec_htfind report a pointer exactly when the lookup is a DELREF
\* that took its last counted reference and no stack mark protects it: the
\* callers reclaim what they are given and nothing else.
LookupReports ==
  [][ last'.op \in {"ADDREF", "DELREF", "STKREF"} /\ last' # last /\ ~ht'.disabled =>
        last'.val = IF last'.op = "DELREF" /\ refs[last'.ptr] = 1 /\ ~StkBit(ht, last'.ptr)
                    THEN last'.ptr ELSE NIL ]_vars

\* gcmapscan never takes a pointer that is still referenced, from a counted
\* place or from the stack.
TakesOnlyGarbage ==
  [][ last'.op = "TAKE" /\ last'.ptr # NIL /\ ~ht.disabled =>
        refs[last'.ptr] = 0 /\ last'.ptr \notin marked ]_vars

\* Every link ever handed out is either in exactly one chain or on the list of
\* free links: DelLink, FreeLink and GetLink neither lose nor share one.
FreeLinks == Walk(ht, ht.free)

LinksAccounted ==
  LET chains == [b \in Bucket |-> {Chain(ht, b)[i] : i \in DOMAIN Chain(ht, b)}]
      spare  == {FreeLinks[i] : i \in DOMAIN FreeLinks}
  IN  /\ \A b, c \in Bucket : b # c => chains[b] \cap chains[c] = {}
      /\ \A b \in Bucket : chains[b] \cap spare = {} /\ chains[b] \subseteq 1 .. ht.hwm - 1
      /\ ~ht.disabled => (UNION {chains[b] : b \in Bucket}) \cup spare = 1 .. ht.hwm - 1

\* A chain has at least two links (one entry lives in HTmain), holds entries
\* of its own bucket only, and no pointer has two entries.
ChainsWellFormed ==
  /\ \A b \in Bucket : ht.main[b].tag = "link" =>
       /\ Len(Chain(ht, b)) >= 2
       /\ \A i \in DOMAIN Chain(ht, b) :
            LET w == ht.coll[Chain(ht, b)[i]].word IN w.tag = "entry" /\ Hash[w.ptr] = b
  /\ \A p \in Ptr : Cardinality(EntriesOf(ht, p)) <= 1

\* HTbigcount has one slot for each pointer whose count field is saturated,
\* and none for any other.
OverflowExact ==
  \A p \in Ptr :
    LET slots == {i \in DOMAIN ht.big : ht.big[i].ptr = p} IN
    Cardinality(slots) = IF \E s \in EntriesOf(ht, p) : GETGC(ht, s).count = MAX_GCCOUNT
                         THEN 1 ELSE 0

\* Stack marks last from the stack scan to the end of gcmapscan and are all
\* gone when the program runs again.
StackMarksExact ==
  ~ht.disabled =>
    /\ phase \in {"stk", "scan"} => {p \in Ptr : StkBit(ht, p)} = marked
    /\ phase = "run" => \A p \in Ptr : ~StkBit(ht, p)

\* While the program runs the countdown goes down by one for each entry the
\* table gains and up by one for each it loses, and stops at zero.
CountdownFollowsTable ==
  [][ phase = "run" /\ phase' = "run" /\ ~ht'.disabled =>
        LET n == ht.cnt - (NumEntries(ht') - NumEntries(ht))
        IN  ht'.cnt = IF n <= S_POSITIVE THEN S_POSITIVE ELSE n ]_vars

\* The words, links, overflow slots and stack marks of the table fit together in
\* every state, also when a reclamation is under way and when GetLink has run
\* out of links.
TableInv == TypeOK /\ LinksAccounted /\ ChainsWellFormed /\ OverflowExact /\ StackMarksExact

\* Every lookup reports what it should, and moves the countdown by what the
\* table gained or lost (htfind, rec_htfind, IncAllocCnt, DecAllocCnt).
LookupsRight == LookupReports /\ CountdownFollowsTable
=============================================================================
