----------------------------- MODULE GCHashTable -----------------------------
(***************************************************************************)
(* The reference-count hash table of the Lisp storage reclaimer            *)
(* (gchtfind.c, gcdata.h, and the table halves of gcmain3.c and gcr.c).    *)
(*                                                                         *)
(* A pointer whose reference count is one and that is not marked as being  *)
(* on the stack has NO entry.  Every other count is an entry: in the word  *)
(* HTmain[hash] itself, or, when several pointers share that word, in a    *)
(* chain of link pairs <<contents, next>> in HTcoll.  Counts that reach    *)
(* MAX_GCCOUNT continue in the overflow table HTbigcount.                  *)
(*                                                                         *)
(* The table is one record, so that RefCounting and Reclaimer can use the  *)
(* same operators.  Links are numbered 1 .. HTCOLLMAX; link number 0 is    *)
(* the end of a chain, as offset 0 is in the code.                         *)
(***************************************************************************)
EXTENDS Integers, Sequences, FiniteSets

CONSTANTS
  Ptr,          \* pointers to reference-counted objects
  Hash,         \* Hash[p]: the HTmain index, the low bits of the pointer
  HTMAIN_ENTRY_COUNT,  \* how many words HTmain has
  HTCOLLMAX,    \* how many links HTcoll has room for
  MAX_GCCOUNT,  \* the count field saturates here
  ReclaimMin,   \* the countdown a reclamation restarts with
  NIL, ATOM_T   \* the two atoms that mark unused overflow slots

Bucket == 0 .. HTMAIN_ENTRY_COUNT - 1

ASSUME TableAssumption ==
  /\ IsFiniteSet(Ptr)
  /\ Hash \in [Ptr -> Bucket]
  /\ HTMAIN_ENTRY_COUNT \in Nat \ {0} /\ HTCOLLMAX \in Nat /\ ReclaimMin \in Nat \ {0}
  /\ MAX_GCCOUNT \in Nat /\ MAX_GCCOUNT > 2
  /\ NIL # ATOM_T /\ {NIL, ATOM_T} \cap Ptr = {}

Link == 1 .. HTCOLLMAX

(* *Reclaim_cnt_word is the atom NIL during a reclamation and after the    *)
(* collector was disabled; otherwise it is a small integer counting down   *)
(* to S_POSITIVE (zero).                                                   *)
CntNIL == -1
S_POSITIVE == 0

-----------------------------------------------------------------------------
(* Words of HTmain and HTcoll.                                             *)

Empty == [tag |-> "empty"]
HashEntry(p, c, s) == [tag |-> "entry", ptr |-> p, count |-> c, stk |-> s]
LinkWord(l) == [tag |-> "link", link |-> l]

Word ==
  {Empty} \cup [tag : {"entry"}, ptr : Ptr, count : 0 .. MAX_GCCOUNT, stk : BOOLEAN]
          \cup [tag : {"link"}, link : 0 .. HTCOLLMAX]

InitTable ==
  [main     |-> [b \in Bucket |-> Empty],
   coll     |-> [l \in Link |-> [word |-> Empty, next |-> 0]],
   free     |-> 0,          \* HTcoll[0]: head of the list of freed links
   hwm      |-> 1,          \* HTcoll[1]: the first link never used
   big      |-> <<>>,       \* HTbigcount up to its first NIL slot
   cnt      |-> ReclaimMin, \* *Reclaim_cnt_word
   min      |-> ReclaimMin, \* *ReclaimMin_word
   disabled |-> FALSE]      \* *GcDisabled_word

\* A place a word lives in: an HTmain slot or the contents half of a link.
Main(b) == [at |-> "main", ix |-> b]
Coll(l) == [at |-> "coll", ix |-> l]

GETGC(t, s) == IF s.at = "main" THEN t.main[s.ix] ELSE t.coll[s.ix].word

SetGC(t, s, w) ==
  IF s.at = "main" THEN [t EXCEPT !.main[s.ix] = w] ELSE [t EXCEPT !.coll[s.ix].word = w]

-----------------------------------------------------------------------------
(* The countdown to the next reclamation.  A countdown that stands at       *)
(* S_POSITIVE is the request for one; the code also clears Irq_Stk_Check    *)
(* and Irq_Stk_End there, so that check_interrupt looks (module Interrupts).*)

IncAllocCnt(t) ==
  IF t.cnt - 1 <= S_POSITIVE
  THEN [t EXCEPT !.cnt = S_POSITIVE]
  ELSE [t EXCEPT !.cnt = @ - 1]

DecAllocCnt(t) == [t EXCEPT !.cnt = @ + 1]

\* disablegc1(NIL): every type becomes TT_NOREF, the countdown words NIL.
disablegc1(t) == [t EXCEPT !.cnt = CntNIL, !.min = CntNIL, !.disabled = TRUE]

-----------------------------------------------------------------------------
(* Links: the list threaded through freed links first, then fresh ones;    *)
(* when both are exhausted the collector is switched off for good.         *)

NextFresh(n) == n + 1

GetLink(t) ==
  IF t.free # 0 THEN [t |-> [t EXCEPT !.free = t.coll[t.free].next], link |-> t.free]
  ELSE IF t.hwm > HTCOLLMAX THEN [t |-> disablegc1(t), link |-> 0]
  ELSE [t |-> [t EXCEPT !.hwm = NextFresh(@)], link |-> t.hwm]

FreeLink(t, l) ==
  [t EXCEPT !.coll[l] = [word |-> Empty, next |-> t.free], !.free = l]

\* Take a link out of the chain of bucket b.
Unlink(t, link, prev, b) ==
  FreeLink(IF prev # 0 THEN [t EXCEPT !.coll[prev].next = t.coll[link].next]
           ELSE [t EXCEPT !.main[b] = LinkWord(t.coll[link].next)], link)

\* Variant of CollapseChain: the emptied link is not freed.
CollapseLosesLink(t, b) ==
  LET head == t.main[b].link
  IN  IF t.coll[head].next # 0 THEN t ELSE [t EXCEPT !.main[b] = t.coll[head].word]

\* If one link is left, its entry moves back to HTmain.
CollapseChain(t, b) ==
  LET head == t.main[b].link
  IN  IF t.coll[head].next # 0 THEN t
      ELSE FreeLink([t EXCEPT !.main[b] = t.coll[head].word], head)

DelLink(t, link, prev, b) == CollapseChain(Unlink(t, link, prev, b), b)

\* The links from l on, in the order the code walks them.
Walk(t, l) ==
  LET walk[n \in 0 .. HTCOLLMAX] ==
        [k \in 0 .. HTCOLLMAX |-> IF n = 0 \/ k = 0 THEN <<>> ELSE <<k>> \o walk[n - 1][t.coll[k].next]]
  IN  walk[HTCOLLMAX][l]

\* The links of bucket b.
Chain(t, b) == IF t.main[b].tag = "link" THEN Walk(t, t.main[b].link) ELSE <<>>

PrevInChain(ch, i) == IF i = 1 THEN 0 ELSE ch[i - 1]

-----------------------------------------------------------------------------
(* The overflow table.  A slot holding ATOM_T is free again; the slot after *)
(* the last one holds NIL.                                                  *)

enter_big_reference_count(t, p) ==
  LET stop == {i \in DOMAIN t.big : t.big[i].ptr = ATOM_T}
      slot == [ptr |-> p, cnt |-> MAX_GCCOUNT]
  IN  IF stop = {} THEN [t EXCEPT !.big = Append(@, slot)]
      ELSE [t EXCEPT !.big[CHOOSE i \in stop : \A j \in stop : i <= j] = slot]

UnusedSlot(slot) == [ptr |-> ATOM_T, cnt |-> slot.cnt - 1]

\* Variant of BelowThreshold: off by one.
AtThreshold(n) == n <= MAX_GCCOUNT

BelowThreshold(n) == n < MAX_GCCOUNT

modify_big_reference_count(t, s, casep, p) ==
  LET i == CHOOSE k \in DOMAIN t.big : t.big[k].ptr = p
      e == GETGC(t, s)
  IN  CASE casep = "ADDREF" -> [t EXCEPT !.big[i].cnt = @ + 1]
        [] casep = "DELREF" ->
             IF BelowThreshold(t.big[i].cnt - 1)
             THEN [SetGC(t, s, [e EXCEPT !.count = MAX_GCCOUNT - 1])
                     EXCEPT !.big[i] = UnusedSlot(@)]
             ELSE [t EXCEPT !.big[i].cnt = @ - 1]
        [] casep = "STKREF" -> SetGC(t, s, [e EXCEPT !.stk = TRUE])

-----------------------------------------------------------------------------
(* Entries.  "rec" says which of the two twins runs: htfind (mutator,      *)
(* maintains the countdown) or rec_htfind (during a reclamation).          *)

\* Variant of NewZeroEntry: every new entry is reported as a zero entry.
NewZeroAlways(casep, p) == p

\* "new 0 entry": only a DELREF without an entry makes one.
NewZeroEntry(casep, p) == IF casep = "DELREF" THEN p ELSE NIL

NewEntry(t, s, casep, p, rec) ==
  LET w == CASE casep = "ADDREF" -> HashEntry(p, 2, FALSE)
             [] casep = "DELREF" -> HashEntry(p, 0, FALSE)
             [] casep = "STKREF" -> HashEntry(p, 1, TRUE)
      u == SetGC(t, s, w)
  IN  [t |-> IF rec THEN u ELSE IncAllocCnt(u), val |-> NewZeroEntry(casep, p)]

NeedsNoEntry(c, stk) == c = 1 /\ ~stk

\* remove is the table without the entry (labels delentry and dellink).
ModEntry(t, s, casep, p, rec, remove) ==
  LET e == GETGC(t, s)
      c == IF casep = "ADDREF" THEN e.count + 1 ELSE e.count - 1
      stored == SetGC(t, s, [e EXCEPT !.count = c])
  IN  IF e.count = MAX_GCCOUNT THEN modify_big_reference_count(t, s, casep, p)
      ELSE IF casep = "STKREF" THEN SetGC(t, s, [e EXCEPT !.stk = TRUE])
      ELSE IF c = MAX_GCCOUNT THEN enter_big_reference_count(stored, p)
      ELSE IF NeedsNoEntry(c, e.stk) THEN IF rec THEN remove ELSE DecAllocCnt(remove)
      ELSE stored

\* A second pointer hashes to an HTmain word: two links are taken, the old
\* entry moves to the tail and the new one becomes the head.  When the second
\* link cannot be had, the first stays allocated and nothing else changes.
NewCollision(t, b, casep, p, rec) ==
  LET g1 == GetLink(t)
      g2 == GetLink(g1.t)
      linked == [g2.t EXCEPT !.coll[g2.link] = [word |-> t.main[b], next |-> 0],
                             !.coll[g1.link].next = g2.link,
                             !.main[b] = LinkWord(g1.link)]
  IN  IF g1.link = 0 THEN [t |-> g1.t, val |-> NIL]
      ELSE IF g2.link = 0 THEN [t |-> g2.t, val |-> NIL]
      ELSE NewEntry(linked, Coll(g1.link), casep, p, rec)

\* No link of an existing chain matches: the new entry becomes its head.
NoLink(t, b, casep, p, rec) ==
  LET g == GetLink(t)
      linked == [g.t EXCEPT !.coll[g.link].next = t.main[b].link, !.main[b] = LinkWord(g.link)]
  IN  IF g.link = 0 THEN [t |-> g.t, val |-> NIL]
      ELSE NewEntry(linked, Coll(g.link), casep, p, rec)

htfindAs(t, p, casep, rec) ==
  LET b  == Hash[p]
      e  == t.main[b]
      ch == Chain(t, b)
      at == {i \in DOMAIN ch : t.coll[ch[i]].word.ptr = p}
      i  == CHOOSE k \in at : TRUE
  IN  CASE e.tag = "empty" -> NewEntry(t, Main(b), casep, p, rec)
        [] e.tag = "entry" /\ e.ptr = p ->
             [t |-> ModEntry(t, Main(b), casep, p, rec, SetGC(t, Main(b), Empty)), val |-> NIL]
        [] e.tag = "entry" /\ e.ptr # p -> NewCollision(t, b, casep, p, rec)
        [] e.tag = "link" /\ at # {} ->
             [t |-> ModEntry(t, Coll(ch[i]), casep, p, rec, DelLink(t, ch[i], PrevInChain(ch, i), b)),
              val |-> NIL]
        [] e.tag = "link" /\ at = {} -> NoLink(t, b, casep, p, rec)

htfind(t, p, casep) == htfindAs(t, p, casep, FALSE)
rec_htfind(t, p, casep) == htfindAs(t, p, casep, TRUE)

\* GCLOOKUPV and REC_GCLOOKUPV: nothing happens to a pointer that is not
\* counted, nor to any pointer once the collector is disabled.
RefCntP(t, p) == p \in Ptr /\ ~t.disabled

GCLOOKUPV(t, p, casep) ==
  IF ~RefCntP(t, p) THEN [t |-> t, val |-> NIL]
  ELSE IF t.cnt # CntNIL THEN htfind(t, p, casep) ELSE rec_htfind(t, p, casep)

REC_GCLOOKUPV(t, p, casep) ==
  IF ~RefCntP(t, p) THEN [t |-> t, val |-> NIL] ELSE rec_htfind(t, p, casep)

-----------------------------------------------------------------------------
(* The two sweeps over HTmain, one bucket visit at a time.                 *)

\* Variant of StkCntIsZero: the mask leaves the stack bit out.
CntIsZero(w) == w.tag = "entry" /\ w.count = 0

StkCntIsZero(w) == w.tag = "entry" /\ w.count = 0 /\ ~w.stk

\* gcmapscan at bucket b: the first reclaimable entry is taken out of the
\* table.  "ptr" is what was taken (NIL: nothing), "retry" whether the same
\* bucket is visited again once that object was reclaimed (collision case).
gcmapscanAt(t, b) ==
  LET ch   == Chain(t, b)
      zero == {i \in DOMAIN ch : StkCntIsZero(t.coll[ch[i]].word)}
      i    == CHOOSE k \in zero : \A j \in zero : k <= j
      w    == t.main[b]
  IN  IF w.tag = "link"
      THEN IF zero = {} THEN [t |-> t, ptr |-> NIL, retry |-> FALSE]
           ELSE [t |-> DelLink(t, ch[i], PrevInChain(ch, i), b),
                 ptr |-> t.coll[ch[i]].word.ptr, retry |-> TRUE]
      ELSE IF StkCntIsZero(w)
           THEN [t |-> SetGC(t, Main(b), Empty), ptr |-> w.ptr, retry |-> FALSE]
           ELSE [t |-> t, ptr |-> NIL, retry |-> FALSE]

\* gcmapunscan at bucket b: stack bits go off; an entry that says no more
\* than "count one" goes away, after which the bucket is visited again.
gcmapunscanAt(t, b) ==
  LET ch     == Chain(t, b)
      single == {i \in DOMAIN ch : LET w == t.coll[ch[i]].word IN w.stk /\ w.count = 1}
      stop   == IF single = {} THEN Len(ch) + 1
                ELSE CHOOSE k \in single : \A j \in single : k <= j
      cleared == [t EXCEPT !.coll =
                    [l \in Link |-> IF \E k \in 1 .. stop - 1 : ch[k] = l
                                    THEN [t.coll[l] EXCEPT !.word.stk = FALSE] ELSE t.coll[l]]]
      w == t.main[b]
  IN  CASE w.tag = "link" ->
             IF single = {} THEN [t |-> cleared, retry |-> FALSE]
             ELSE [t |-> DelLink(cleared, ch[stop], PrevInChain(ch, stop), b), retry |-> TRUE]
        [] w.tag = "entry" ->
             [t |-> SetGC(t, Main(b), IF w.stk /\ w.count = 1 THEN Empty
                                      ELSE [w EXCEPT !.stk = FALSE]), retry |-> FALSE]
        [] w.tag = "empty" -> [t |-> t, retry |-> FALSE]

-----------------------------------------------------------------------------
(* What the table says about a pointer.                                    *)

EntriesOf(t, p) ==
  {s \in {Main(Hash[p])} \cup {Coll(l) : l \in {Chain(t, Hash[p])[i] : i \in DOMAIN Chain(t, Hash[p])}} :
     LET w == GETGC(t, s) IN w.tag = "entry" /\ w.ptr = p}

RefCnt(t, p) ==
  IF EntriesOf(t, p) = {} THEN 1
  ELSE LET e == GETGC(t, CHOOSE s \in EntriesOf(t, p) : TRUE)
       IN  IF e.count < MAX_GCCOUNT THEN e.count
           ELSE t.big[CHOOSE i \in DOMAIN t.big : t.big[i].ptr = p].cnt

StkBit(t, p) == \E s \in EntriesOf(t, p) : GETGC(t, s).stk
HasEntry(t, p) == EntriesOf(t, p) # {}
=============================================================================
