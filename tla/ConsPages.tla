----------------------------- MODULE ConsPages -----------------------------
(***************************************************************************)
(* List cells with compact cdr coding (conspage.c, car-cdr.c, rplcons.c and *)
(* freelistcell of gcrcell.c).  A cell holds a pointer and a code of a few   *)
(* bits.  The code of a cons says that its cdr is NIL, or a cell up to Reach *)
(* further on the page, or kept in such a cell, or (CDR_INDIRECT) that both  *)
(* halves moved to a pair of cells elsewhere.  Free cells of a page are      *)
(* linked through the cells themselves; pages with free cells are linked     *)
(* too.                                                                     *)
(*                                                                         *)
(* Offsets count cells, where the code counts words.                        *)
(***************************************************************************)
EXTENDS Integers, Sequences, FiniteSets

CONSTANTS
  FirstCell, LastCell,   \* cells of a page (4 and 127 in the code)
  Reach,                 \* 7: how far a cdr code reaches
  RejoinLimit,           \* 32: with more free cells a page is put back on the chain
  NumPages,              \* bound: pages that can be allocated, in pairs
  Kept,                  \* conses made at the start that nobody changes
  MaxLive,               \* bound: other conses alive at a time
  Atoms                  \* values that are no list, small numbers

NIL_PTR == 0
FirstAtom == CHOOSE x \in Atoms : \A y \in Atoms : x <= y
CDR_INDIRECT == 0
CDR_MAXINDIRECT == Reach
CDR_ONPAGE == Reach + 1
CDR_NIL == CDR_ONPAGE
CONSPAGE_LAST == -1
PageSize == LastCell + 1
Cells == FirstCell..LastCell

\* What the values must satisfy.
ConsAssumption ==
  /\ 0 < FirstCell /\ PageSize % 4 = 0 /\ FirstCell + 1 < LastCell
  /\ Reach \in 1..LastCell /\ Kept \in Nat
  /\ NumPages % 2 = 0
  /\ Atoms \subseteq 1..FirstCell

VARIABLES
  st,     \* cell: contents and links; count, next_cell, next_page of each page; dtd_nextpage
  live    \* history: the car and cdr that each cons should have
vars == <<st, live>>

Addr(p, c) == p * PageSize + c
PageOf(a) == a \div PageSize
OffsetOf(a) == a % PageSize
Listp(v) == v >= PageSize

\* A code has one bit more than a distance that it can hold.
Code(c) == c % (2 * (Reach + 1))
Value(car, code) == [car |-> car, code |-> Code(code), next |-> 0]
Link(n) == [car |-> NIL_PTR, code |-> 0, next |-> n]

\* Where a code can name the cell new, from the cell old of the same page.
InReach(old, new) == new > old /\ new <= old + Reach

Empty == [cell |-> << >>, count |-> << >>, next_cell |-> << >>, next_page |-> << >>, nextpage |-> 0]

(***************************************************************************)
(* Pages.                                                                  *)
(***************************************************************************)
\* The order of the free chain: groups of four from the top, each upwards.
Rank(c) == (c \div 4) * 4 + (3 - (c % 4))
NextRank(c) == {d \in Cells : Rank(d) < Rank(c)}
FreshLink(c) ==
  IF NextRank(c) = {} THEN 0 ELSE CHOOSE d \in NextRank(c) : \A e \in NextRank(c) : Rank(e) <= Rank(d)
Top == CHOOSE c \in Cells : \A d \in Cells : Rank(d) <= Rank(c)

\* The pages on the chain from p on.
RECURSIVE ChainFrom(_, _)
ChainFrom(s, p) == IF p \in {0, CONSPAGE_LAST} THEN << >> ELSE <<p>> \o ChainFrom(s, s.next_page[p])

init_conspage(s, link) ==
  [s EXCEPT !.cell = Append(@, [c \in Cells |-> Link(FreshLink(c))]),
            !.count = Append(@, Cardinality(Cells)), !.next_cell = Append(@, Top),
            !.next_page = Append(@, link)]

\* next_conspage: two pages at the end of the chain.
CanGrow(s) == Len(s.count) + 2 <= NumPages

\* Variant of next_conspage: the new pages take the place of the chain.
next_conspageAlone(s) ==
  LET p == Len(s.count) + 1
  IN  [init_conspage(init_conspage(s, p + 1), 0) EXCEPT !.nextpage = p]

next_conspage(s) ==
  LET p     == Len(s.count) + 1
      two   == init_conspage(init_conspage(s, p + 1), 0)
      chain == ChainFrom(s, s.nextpage)
  IN  IF chain = << >> THEN [two EXCEPT !.nextpage = p]
      ELSE [two EXCEPT !.next_page[chain[Len(chain)]] = p]

(***************************************************************************)
(* Taking cells from the free chain of page p.                             *)
(***************************************************************************)
\* Unlink a cell, given the one before it on the chain.
SetNext(s, p, prior, n) ==
  IF prior # 0 THEN [s EXCEPT !.cell[p][prior].next = n] ELSE [s EXCEPT !.next_cell[p] = n]
NextOf(s, p, c) == s.cell[p][c].next

\* find_free_cons_cell: pages without a free cell leave the chain.
RECURSIVE find_free_cons_cell(_)
find_free_cons_cell(s) ==
  LET p == s.nextpage
      c == s.next_cell[p]
  IN  IF p = 0 THEN [found |-> FALSE, s |-> s]
      ELSE IF s.count[p] > 0
      THEN [found |-> TRUE, at |-> Addr(p, c),
            s |-> [s EXCEPT !.count[p] = @ - 1, !.next_cell[p] = NextOf(s, p, c)]]
      ELSE find_free_cons_cell([s EXCEPT !.nextpage = s.next_page[p], !.next_page[p] = CONSPAGE_LAST])

\* Follow the chain upwards as long as it stays below limit.
RECURSIVE Climb(_, _, _, _, _)
Climb(s, p, prior, offset, limit) ==
  LET n == NextOf(s, p, offset)
  IN  IF n > offset /\ n < limit THEN Climb(s, p, offset, n, limit)
      ELSE [prior |-> prior, offset |-> offset]

\* find_close_prior_cell: a free cell less than Reach before old.  The lower
\* bound is unsigned: near the start of the page nothing is found.
RECURSIVE ClosePrior(_, _, _, _, _)
ClosePrior(s, p, old, prior, offset) ==
  LET c == Climb(s, p, prior, offset, old)
  IN  IF offset = 0 THEN [found |-> FALSE, s |-> s]
      ELSE IF offset < old /\ old >= Reach /\ offset >= old - Reach
      THEN [found |-> TRUE, at |-> Addr(p, c.offset),
            s |-> [SetNext(s, p, c.prior, NextOf(s, p, c.offset)) EXCEPT !.count[p] = @ - 1]]
      ELSE ClosePrior(s, p, old, offset, NextOf(s, p, offset))
find_close_prior_cell(s, p, old) == ClosePrior(s, p, old, 0, s.next_cell[p])

\* find_close_cell: a free cell up to Reach behind old.
RECURSIVE CloseCell(_, _, _, _, _)
CloseCell(s, p, old, prior, offset) ==
  IF offset = 0 THEN [found |-> FALSE, s |-> s]
  ELSE IF InReach(old, offset)
  THEN [found |-> TRUE, at |-> Addr(p, offset),
        s |-> [SetNext(s, p, prior, NextOf(s, p, offset)) EXCEPT !.count[p] = @ - 1]]
  ELSE CloseCell(s, p, old, offset, NextOf(s, p, offset))
find_close_cell(s, p, old) == CloseCell(s, p, old, 0, s.next_cell[p])

\* Variant of TakePair: the cell that is second on the chain is taken for the one
\* further on the page.
TakePairUnordered(s, p, pp, prior, offset, cdrval) ==
  LET free == SetNext(s, p, pp, NextOf(s, p, offset))
  IN  [found |-> TRUE, at |-> Addr(p, prior),
       s |-> [free EXCEPT !.count[p] = @ - 2, !.cell[p][offset] = Value(cdrval, 0),
                          !.cell[p][prior] = Value(NIL_PTR, offset - prior)]]

\* Two neighbours of the chain, prior and offset, that a code can join.  If the
\* second lies before the first, the chain is climbed to come closer; pp is the
\* cell before prior.
TakePair(s, p, pp, prior, offset, cdrval) ==
  LET down  == prior > offset
      c     == Climb(s, p, 0, offset, prior)
      climbed == down /\ c.prior # 0
      car   == IF down THEN c.offset ELSE prior
      cdr   == IF down THEN prior ELSE offset
      s1    == SetNext(s, p, pp, NextOf(s, p, IF climbed THEN prior ELSE offset))
      s2    == IF climbed THEN [s1 EXCEPT !.cell[p][c.prior].next = NextOf(s1, p, c.offset)] ELSE s1
  IN  [found |-> TRUE, at |-> Addr(p, car),
       s |-> [s2 EXCEPT !.count[p] = @ - 2, !.cell[p][cdr] = Value(cdrval, 0),
                        !.cell[p][car] = Value(NIL_PTR, cdr - car)]]

RECURSIVE PairFrom(_, _, _, _, _, _)
PairFrom(s, p, pp, prior, offset, cdrval) ==
  IF offset = 0 THEN [found |-> FALSE, s |-> s]
  ELSE IF prior # 0 /\ (InReach(offset, prior) \/ InReach(prior, offset))
  THEN TakePair(s, p, pp, prior, offset, cdrval)
  ELSE PairFrom(s, p, prior, offset, NextOf(s, p, offset), cdrval)
find_pair_in_page(s, p, cdrval) ==
  IF s.count[p] < 2 THEN [found |-> FALSE, s |-> s] ELSE PairFrom(s, p, 0, 0, s.next_cell[p], cdrval)

\* find_cdrcodable_pair, and find_cdrable_pair of rplacd: the first page of the
\* chain with a pair, or a new page.
RECURSIVE PairOnChain(_, _, _)
PairOnChain(s, p, cdrval) ==
  IF p \in {0, CONSPAGE_LAST}
  THEN IF CanGrow(s) THEN find_pair_in_page(next_conspage(s), Len(s.count) + 1, cdrval)
       ELSE [found |-> FALSE, s |-> s]
  ELSE LET r == find_pair_in_page(s, p, cdrval)
       IN  IF r.found THEN r ELSE PairOnChain(s, s.next_page[p], cdrval)
find_cdrcodable_pair(s, cdrval) == PairOnChain(s, s.nextpage, cdrval)
WithCar(r, x) == IF r.found THEN [r EXCEPT !.s.cell[PageOf(r.at)][OffsetOf(r.at)].car = x] ELSE r
find_cdrable_pair(s, carpart, cdrpart) == WithCar(find_cdrcodable_pair(s, cdrpart), carpart)

(***************************************************************************)
(* Reading.                                                                *)
(***************************************************************************)
CellAt(s, a) == s.cell[PageOf(a)][OffsetOf(a)]

car(s, x) == IF CellAt(s, x).code = CDR_INDIRECT THEN CellAt(s, CellAt(s, x).car).car
             ELSE CellAt(s, x).car

cdr(s, x) ==
  LET y    == IF CellAt(s, x).code = CDR_INDIRECT THEN CellAt(s, x).car ELSE x
      code == CellAt(s, y).code
  IN  CASE code = CDR_NIL -> NIL_PTR
        [] code > CDR_ONPAGE -> y + (code - CDR_ONPAGE)
        [] OTHER -> CellAt(s, y + code).car

(***************************************************************************)
(* N_OP_cons: [found, at, s]; found is FALSE when no page is left.          *)
(***************************************************************************)
PutCell(s, a, v) == [s EXCEPT !.cell[PageOf(a)][OffsetOf(a)] = v]
TakeFirst(s, p) ==
  [found |-> TRUE, at |-> Addr(p, Top), s |-> [s EXCEPT !.count[p] = @ - 1, !.next_cell[p] = NextOf(s, p, Top)]]
\* A free cell, if need be on a new page.
FreeOrNew(r) ==
  IF ~r.found /\ CanGrow(r.s) THEN TakeFirst(next_conspage(r.s), Len(r.s.count) + 1) ELSE r
\* The cell found, if there is one, becomes a cons with car x and cdr y.
FillCell(r, x, y) ==
  IF ~r.found THEN r
  ELSE [r EXCEPT !.s = PutCell(r.s, r.at, Value(x, IF y = NIL_PTR THEN CDR_NIL ELSE CDR_ONPAGE + (y - r.at)))]
\* Close to the cdr if there is a free cell, else a pair that holds both.
ConsNear(near, s, x, y) == IF near.found THEN FillCell(near, x, y) ELSE find_cdrable_pair(s, x, y)
N_OP_cons(s, x, y) ==
  IF y = NIL_PTR THEN FillCell(FreeOrNew(find_free_cons_cell(s)), x, NIL_PTR)
  ELSE ConsNear(IF Listp(y) /\ s.count[PageOf(y)] > 0 THEN find_close_prior_cell(s, PageOf(y), OffsetOf(y))
                ELSE [found |-> FALSE], s, x, y)

rplaca(s, x, y) ==
  LET a == IF CellAt(s, x).code = CDR_INDIRECT THEN CellAt(s, x).car ELSE x
  IN  [s EXCEPT !.cell[PageOf(a)][OffsetOf(a)].car = y]

\* rplacd: [found, s].
SetCode(s, x, c) == [found |-> TRUE, s |-> [s EXCEPT !.cell[PageOf(x)][OffsetOf(x)].code = Code(c)]]
SetCell(s, a, v) == [found |-> TRUE, s |-> PutCell(s, a, v)]
\* The cdr moves to a free cell near by, else both halves to a pair elsewhere.
CdrElsewhere(pair, s, x) ==
  IF pair.found THEN SetCell(pair.s, x, Value(pair.at, CDR_INDIRECT)) ELSE [found |-> FALSE, s |-> s]
CdrNear(near, s, x, y) ==
  IF near.found THEN SetCode(PutCell(near.s, near.at, Value(y, 0)), x, near.at - x)
  ELSE CdrElsewhere(find_cdrable_pair(s, CellAt(s, x).car, y), s, x)
rplacd(s, x, y) ==
  LET code == CellAt(s, x).code
      in   == CellAt(s, x).car
  IN  CASE code = CDR_INDIRECT -> SetCell(s, in + CellAt(s, in).code, Value(y, 0))
        [] code # CDR_INDIRECT /\ code <= CDR_MAXINDIRECT -> SetCell(s, x + code, Value(y, 0))
        [] code > CDR_MAXINDIRECT /\ y = NIL_PTR -> SetCode(s, x, CDR_NIL)
        [] code > CDR_MAXINDIRECT /\ PageOf(x) = PageOf(y) /\ InReach(x, y) ->
             SetCode(s, x, CDR_ONPAGE + (y - x))
        [] OTHER ->
             CdrNear(IF s.count[PageOf(x)] > 0 THEN find_close_cell(s, PageOf(x), OffsetOf(x))
                     ELSE [found |-> FALSE], s, x, y)

(***************************************************************************)
(* freelistcell, and the order in which gcreccell frees the cells of a cons. *)
(***************************************************************************)
RECURSIVE FreePlace(_, _, _, _, _)
FreePlace(s, p, c, prior, offset) ==
  IF offset = 0 \/ Rank(offset) < Rank(c) THEN [prior |-> prior, offset |-> offset]
  ELSE FreePlace(s, p, c, offset, NextOf(s, p, offset))

\* A page that left the chain is put back once enough of it is free.
Rejoin(s, p) ==
  IF s.count[p] > RejoinLimit /\ s.next_page[p] = CONSPAGE_LAST
  THEN [s EXCEPT !.next_page[p] = s.nextpage, !.nextpage = p] ELSE s
freelistcell(s, a) ==
  LET p  == PageOf(a)
      c  == OffsetOf(a)
      at == IF s.count[p] > 0 THEN FreePlace(s, p, c, 0, s.next_cell[p]) ELSE [prior |-> 0, offset |-> 0]
  IN  Rejoin([SetNext(s, p, at.prior, c) EXCEPT !.cell[p][c] = Link(at.offset), !.count[p] = @ + 1], p)

\* A cons that was not moved away: the cell of its cdr, then its own.
FreeDirect(s, y) ==
  LET code == CellAt(s, y).code
  IN  freelistcell(IF code <= CDR_MAXINDIRECT THEN freelistcell(s, y + (code - CDR_INDIRECT)) ELSE s, y)
FreeCons(s, x) ==
  IF CellAt(s, x).code = CDR_INDIRECT THEN FreeDirect(freelistcell(s, x), CellAt(s, x).car) ELSE FreeDirect(s, x)

(***************************************************************************)
(* What Lisp and the reclaimer do.                                         *)
(***************************************************************************)
\* The program starts on a page that is partly taken.
RECURSIVE KeptConses(_, _)
KeptConses(k, n) ==
  IF n = 0 THEN k
  ELSE LET r == N_OP_cons(k.s, FirstAtom, NIL_PTR)
       IN  KeptConses([s |-> r.s, at |-> k.at \cup {r.at}], n - 1)

Init ==
  LET start == KeptConses([s |-> Empty, at |-> {}], Kept)
  IN  /\ st = start.s
      /\ live = [a \in start.at |-> [car |-> FirstAtom, cdr |-> NIL_PTR, kept |-> TRUE]]

Live == DOMAIN live
Mine == {a \in Live : ~live[a].kept}
Cdrs == {NIL_PTR} \cup Atoms \cup Mine

New(x, y) == [car |-> x, cdr |-> y, kept |-> FALSE]
Cons(x, y) ==
  /\ Cardinality(Mine) < MaxLive
  /\ LET r == N_OP_cons(st, x, y) IN
     /\ r.found
     /\ st' = r.s
     /\ live' = [a \in Live \cup {r.at} |-> IF a = r.at THEN New(x, y) ELSE live[a]]

Rplaca(x, y) ==
  /\ st' = rplaca(st, x, y)
  /\ live' = [live EXCEPT ![x].car = y]

\* The tails of a list.  Circular lists are left out: they only add states.
RECURSIVE Tails(_)
Tails(y) == IF Listp(y) THEN {y} \cup Tails(live[y].cdr) ELSE {}
Rplacd(x, y) ==
  /\ y # live[x].cdr /\ x \notin Tails(y)
  /\ LET r == rplacd(st, x, y) IN r.found /\ st' = r.s
  /\ live' = [live EXCEPT ![x].cdr = y]

\* N_OP_rplcons: a new last element.
Rplcons(x, y) ==
  /\ Cardinality(Mine) < MaxLive
  /\ LET c == N_OP_cons(st, y, NIL_PTR)
         r == rplacd(c.s, x, c.at)
     IN  /\ c.found /\ r.found
         /\ st' = r.s
         /\ live' = [a \in Live \cup {c.at} |-> IF a = c.at THEN New(y, NIL_PTR)
                                                ELSE IF a = x THEN [live[x] EXCEPT !.cdr = c.at]
                                                ELSE live[a]]

\* The reclaimer frees a cons that no other one refers to.
Free(x) ==
  /\ \A a \in Live : live[a].cdr # x
  /\ st' = FreeCons(st, x)
  /\ live' = [a \in Live \ {x} |-> live[a]]

Next ==
  \/ \E x \in Atoms, y \in Cdrs : Cons(x, y)
  \/ \E x \in Mine, y \in Atoms : Rplaca(x, y) \/ Rplcons(x, y)
  \/ \E x \in Mine, y \in Cdrs : Rplacd(x, y)
  \/ \E x \in Mine : Free(x)

Spec == Init /\ [][Next]_vars

(***************************************************************************)
(* Properties.                                                             *)
(***************************************************************************)
\* Every cons reads as what CONS, RPLACA and RPLACD made it, whatever was done
\* to the cells around it (car, cdr).
ListsIntact == \A x \in Live : car(st, x) = live[x].car /\ cdr(st, x) = live[x].cdr

\* The cells that a cons is kept in.
CellsOf(x) ==
  LET y    == IF CellAt(st, x).code = CDR_INDIRECT THEN CellAt(st, x).car ELSE x
      code == CellAt(st, y).code
  IN  {x, y} \cup (IF code <= CDR_MAXINDIRECT THEN {y + code} ELSE {})

RECURSIVE FreeFrom(_, _, _)
FreeFrom(p, c, n) == IF c = 0 \/ n = 0 THEN << >> ELSE <<Addr(p, c)>> \o FreeFrom(p, NextOf(st, p, c), n - 1)
FreeChain(p) == FreeFrom(p, st.next_cell[p], LastCell)

\* Every cell of every page is either on the page's free chain, once, or part
\* of exactly one live cons, and the page's count is right: nothing leaks and
\* nothing is handed out twice (N_OP_cons, rplacd, freelistcell).
CellsAccounted ==
  LET parts == UNION {{<<x, c>> : c \in CellsOf(x)} : x \in Live}
      used  == {part[2] : part \in parts}
  IN  /\ Cardinality(parts) = Cardinality(used)
      /\ \A p \in DOMAIN st.count :
           LET chain == FreeChain(p)
               free  == {chain[i] : i \in DOMAIN chain}
           IN  /\ Len(chain) = st.count[p] /\ Cardinality(free) = st.count[p]
               /\ free \cap used = {}
               /\ {Addr(p, c) : c \in Cells} \subseteq free \cup used

\* A page with more free cells than RejoinLimit is on the chain, once: CONS will
\* find them (find_free_cons_cell takes pages off, freelistcell puts them back).
PagesFound ==
  LET chain == ChainFrom(st, st.nextpage)
  IN  /\ \A i, j \in DOMAIN chain : chain[i] = chain[j] => i = j
      /\ \A p \in DOMAIN st.count :
           st.count[p] > RejoinLimit => \E i \in DOMAIN chain : chain[i] = p
\* No cell leaks or is handed out twice, and CONS finds the pages with room.
SpaceAccounted == CellsAccounted /\ PagesFound
=============================================================================
