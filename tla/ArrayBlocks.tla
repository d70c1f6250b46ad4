----------------------------- MODULE ArrayBlocks -----------------------------
(***************************************************************************)
(* The heap of array space (gcfinal.c, storage.c): blocks with a length in *)
(* their first and last cell, free blocks on doubly linked rings, one ring *)
(* per size range, and the merging that reclaimarrayblock does with both   *)
(* neighbours.  An address counts cells; lengths are DLwords, so they are  *)
(* computed modulo MAXARRAYBLOCKSIZE + 1.                                  *)
(*                                                                         *)
(* Allocation is done by Lisp code (\ALLOCBLOCK), which the emulator's     *)
(* makefreearrayblock, linkblock and deleteblock mirror.                   *)
(***************************************************************************)
EXTENDS Integers, FiniteSets

CONSTANTS
  ArraySpace, ArrayEnd,          \* array space proper: cells ArraySpace .. ArrayEnd - 1
  Extension, ExtensionEnd,        \* the extension storage.c switches to
  MAXARRAYBLOCKSIZE,    \* largest DLword
  MINARRAYBLOCKSIZE,    \* header, trailer and two links
  HunkMin,              \* ARRAYBLOCKOVERHEADCELLS + MAXCELLSPERHUNK
  MAXBUCKETINDEX,
  CELLSPER_PAGE,        \* array space grows by pages
  NIL

ASSUME ArrayAssumption ==
  /\ {ArraySpace, ArrayEnd, Extension, ExtensionEnd, MAXBUCKETINDEX} \subseteq Nat
  /\ 0 < ArraySpace /\ ArraySpace < ArrayEnd /\ ArrayEnd < Extension /\ Extension < ExtensionEnd
  /\ {MINARRAYBLOCKSIZE, HunkMin, MAXARRAYBLOCKSIZE} \subseteq Nat
  /\ 2 <= MINARRAYBLOCKSIZE /\ MINARRAYBLOCKSIZE <= HunkMin /\ HunkMin <= MAXARRAYBLOCKSIZE
  /\ CELLSPER_PAGE \in 1 .. MAXARRAYBLOCKSIZE
  /\ NIL \notin ArraySpace .. ExtensionEnd

VARIABLES
  as,        \* memory: mem (length and inuse of a header or trailer cell), fwd, bkwd, bucket
  ArrayFrLst, ArrayFrLst2, ArraySpace2,
  hunking,   \* \HUNKING? is T
  merging    \* \ARRAYMERGING is T

vars == <<as, ArrayFrLst, ArrayFrLst2, ArraySpace2, hunking, merging>>

Addr == ArraySpace .. ExtensionEnd - 1
Data == [len |-> 0, inuse |-> FALSE]
DLword(n) == n % (MAXARRAYBLOCKSIZE + 1)

\* One halving step: w = 2^b and more loses its low b bits.
Halve(x, w, b) == IF x.n >= w THEN [n |-> x.n \div w, p |-> x.p + b] ELSE x

\* Number of bits of n, by halving the range.
integerlength(n) ==
  LET r == Halve(Halve(Halve(Halve([n |-> n, p |-> 0], 65536, 16), 256, 8), 16, 4), 4, 2)
  IN  IF n <= 2 THEN n ELSE Halve(r, 2, 1).p + 1

BucketIndex(n) == IF integerlength(n) < MAXBUCKETINDEX THEN integerlength(n) ELSE MAXBUCKETINDEX

-----------------------------------------------------------------------------
(* Operations on the memory.                                               *)

makefreearrayblock(s, b, length) ==
  LET w == [len |-> length, inuse |-> FALSE] IN
  [s EXCEPT !.mem[b] = w, !.mem[b + length - 1] = w]

\* Unlinks a block from its ring; its own links are left dangling.
deleteblock(s, b) ==
  LET i == BucketIndex(s.mem[b].len)
      f == s.fwd[b]
      p == s.bkwd[b]
  IN
  CASE s.mem[b].len < MINARRAYBLOCKSIZE \/ f = NIL -> s
    [] s.mem[b].len >= MINARRAYBLOCKSIZE /\ f = b ->
         IF s.bucket[i] = b THEN [s EXCEPT !.bucket[i] = NIL] ELSE s
    [] OTHER ->
         [s EXCEPT !.bucket[i] = IF @ = b THEN f ELSE @, !.bkwd[f] = p, !.fwd[p] = f]

\* The block becomes the head of the ring of its size.
linkblock(s, b) ==
  LET i == BucketIndex(s.mem[b].len)
      h == s.bucket[i]
  IN
  CASE b \notin Addr \/ s.mem[b].len < MINARRAYBLOCKSIZE -> s
    [] h = NIL -> [s EXCEPT !.fwd[b] = b, !.bkwd[b] = b, !.bucket[i] = b]
    [] OTHER ->
         LET tail == s.bkwd[h]
             t == [s EXCEPT !.fwd[b] = h, !.bkwd[b] = tail, !.bucket[i] = b]
         IN  [t EXCEPT !.fwd[tail] = b, !.bkwd[h] = b]

minblocksize == IF hunking THEN HunkMin ELSE MINARRAYBLOCKSIZE

\* Cells the big block gives up to make the leftover block viable: negative,
\* so a large number once it is a DLword.
ShaveBack(narlens) == IF narlens < minblocksize THEN DLword(narlens - minblocksize) ELSE 0

\* Variant of LeftoverAt: the boundary is not moved back.
LeftoverUnshaved(nbase, secondbite, shaveback) == nbase + secondbite

LeftoverAt(nbase, secondbite, shaveback) == nbase + DLword(secondbite + shaveback)

\* The words at an old boundary stay where they are but are never read again:
\* they are shown as data.
Forget(s, nbase) ==
  [s EXCEPT !.mem[nbase - 1] = Data, !.mem[nbase] = Data, !.fwd[nbase] = NIL, !.bkwd[nbase] = NIL]

\* Two adjacent free blocks, on no ring, become one; if that is too long, a
\* maximal one and the rest, or a smaller one and a minimal rest.
arrayblockmerger(s, base, nbase) ==
  LET arlens == s.mem[base].len
      narlens == s.mem[nbase].len
      secondbite == DLword(MAXARRAYBLOCKSIZE - arlens)
      left == DLword(narlens - secondbite)
      shaveback == ShaveBack(left)
      rest == IF shaveback = 0 THEN left ELSE minblocksize
      at == LeftoverAt(nbase, secondbite, shaveback)
      t == Forget(s, nbase)
  IN
  IF narlens <= secondbite
  THEN linkblock(makefreearrayblock(t, base, DLword(arlens + narlens)), base)
  ELSE linkblock(
         makefreearrayblock(linkblock(makefreearrayblock(t, at, rest), at),
                            base, DLword(MAXARRAYBLOCKSIZE + shaveback)),
         base)

\* Variant of Disqualified: the block behind may be in use.
DisqualifiedAtEnds(s, base) == ~merging \/ base \in {ArraySpace, ArraySpace2}

\* Merging is off, the block is the first of a space, or the one behind is in use.
Disqualified(s, base) ==
  ~merging \/ base \in {ArraySpace, ArraySpace2} \/ s.mem[base - 1].inuse

\* Returns the memory and the block that is now the free one.
mergebackward(s, base) ==
  LET pbase == base - s.mem[base - 1].len IN
  IF Disqualified(s, base)
  THEN [s |-> linkblock(s, base), base |-> base]
  ELSE [s |-> arrayblockmerger(deleteblock(s, pbase), pbase, base), base |-> pbase]

\* Variant of mergeforward: nothing is merged.
mergeforwardNever(s, base) == s

mergeforward(s, base) ==
  LET nbase == base + s.mem[base].len IN
  IF ~merging \/ nbase \in {ArrayFrLst, ArrayFrLst2} \/ s.mem[nbase].inuse THEN s
  ELSE arrayblockmerger(deleteblock(deleteblock(s, nbase), base), base, nbase)

-----------------------------------------------------------------------------
Init ==
  /\ as = [mem |-> [x \in Addr |-> Data], fwd |-> [x \in Addr |-> NIL],
           bkwd |-> [x \in Addr |-> NIL], bucket |-> [i \in 0 .. MAXBUCKETINDEX |-> NIL]]
  /\ ArrayFrLst = ArraySpace /\ ArrayFrLst2 = NIL /\ ArraySpace2 = NIL
  /\ hunking = FALSE /\ merging = TRUE

\* What n steps of a function lead to, the start included.
Walk(step, first, n) ==
  LET at[k \in 0 .. n] == IF k = 0 THEN first ELSE step[at[k - 1]]
  IN  {at[k] : k \in 0 .. n}

\* First cells of the blocks between two addresses, and what follows the last.
\* No block is shorter than MINARRAYBLOCKSIZE, so no more steps are needed.
Starts(s, lo, hi) ==
  Walk([x \in lo .. hi + MAXARRAYBLOCKSIZE |-> IF x < hi THEN x + s.mem[x].len ELSE x], lo, (hi - lo) \div MINARRAYBLOCKSIZE)

\* Where the blocks of the first space end once the second is in use.
OldEnd == IF ArrayFrLst2 = NIL THEN ArrayFrLst ELSE ArrayFrLst2

Blocks ==
  (Starts(as, ArraySpace, OldEnd) \ {OldEnd})
    \cup (IF ArraySpace2 = NIL THEN {} ELSE Starts(as, ArraySpace2, ArrayFrLst) \ {ArrayFrLst})

InUse == {b \in Blocks \cap Addr : as.mem[b].inuse}
Free == {b \in Blocks \cap Addr : ~as.mem[b].inuse}
Extent(s, b) == b .. b + s.mem[b].len - 1
Limit == IF ArraySpace2 = NIL THEN ArrayEnd ELSE ExtensionEnd

Using(s, b, n) ==
  LET w == [len |-> n, inuse |-> TRUE]
      blank(f, v) == [x \in Addr |-> IF x \in b .. b + n - 1 THEN v ELSE f[x]]
      t == [s EXCEPT !.mem = blank(s.mem, Data), !.fwd = blank(s.fwd, NIL), !.bkwd = blank(s.bkwd, NIL)]
  IN  [t EXCEPT !.mem[b] = w, !.mem[b + n - 1] = w]

\* A block of n cells is taken from a free one; what is left of it must be
\* worth a block of its own.
AllocOld(b, n) ==
  LET rest == as.mem[b].len - n
      s == Using(deleteblock(as, b), b, n)
  IN
  /\ b \in Free /\ as.mem[b].len >= MINARRAYBLOCKSIZE
  /\ n >= minblocksize /\ (rest = 0 \/ rest >= minblocksize)
  /\ as' = IF rest = 0 THEN s ELSE linkblock(makefreearrayblock(s, b + n, rest), b + n)
  /\ UNCHANGED <<ArrayFrLst, ArrayFrLst2, ArraySpace2, hunking, merging>>

\* No free block fits: the block is cut off the end of array space.
AllocNew(n) ==
  /\ n >= minblocksize /\ ArrayFrLst + n <= Limit
  /\ \A b \in Free : as.mem[b].len < n
  /\ as' = Using(as, ArrayFrLst, n)
  /\ ArrayFrLst' = ArrayFrLst + n
  /\ UNCHANGED <<ArrayFrLst2, ArraySpace2, hunking, merging>>

\* reclaimarrayblock, once the elements are dropped: mergeforward of
\* mergebackward of makefreearrayblock.
Reclaim(b) ==
  LET m == mergebackward(makefreearrayblock(as, b, as.mem[b].len), b) IN
  /\ b \in InUse
  /\ as' = mergeforward(m.s, m.base)
  /\ UNCHANGED <<ArrayFrLst, ArrayFrLst2, ArraySpace2, hunking, merging>>

\* advance_array_seg: the rest of the last page that array space has reached
\* becomes a free block and array space goes on in the extension.
AdvanceArraySeg(ncellsleft) ==
  LET oldend == ArrayFrLst + ncellsleft IN
  /\ ArraySpace2 = NIL /\ oldend <= ArrayEnd
  /\ IF ncellsleft >= MINARRAYBLOCKSIZE
     THEN /\ as' = mergebackward(makefreearrayblock(as, ArrayFrLst, DLword(ncellsleft)), ArrayFrLst).s
          /\ ArrayFrLst2' = oldend
     ELSE UNCHANGED as /\ ArrayFrLst2' = ArrayFrLst
  /\ ArrayFrLst' = Extension /\ ArraySpace2' = Extension
  /\ UNCHANGED <<hunking, merging>>

\* Lisp turns hunking on for good, and merging on and off.
StartHunking ==
  /\ ~hunking /\ hunking' = TRUE
  /\ UNCHANGED <<as, ArrayFrLst, ArrayFrLst2, ArraySpace2, merging>>

SetMerging(on) ==
  /\ merging # on /\ merging' = on
  /\ UNCHANGED <<as, ArrayFrLst, ArrayFrLst2, ArraySpace2, hunking>>

Next ==
  \/ \E b \in Addr, n \in 1 .. MAXARRAYBLOCKSIZE : AllocOld(b, n)
  \/ \E n \in 1 .. MAXARRAYBLOCKSIZE : AllocNew(n)
  \/ \E b \in Addr : Reclaim(b)
  \/ \E n \in 0 .. CELLSPER_PAGE - 1 : AdvanceArraySeg(n)
  \/ StartHunking
  \/ \E on \in BOOLEAN : SetMerging(on)

Spec == Init /\ [][Next]_vars

-----------------------------------------------------------------------------
TypeOK ==
  /\ as.mem \in [Addr -> [len : 0 .. MAXARRAYBLOCKSIZE, inuse : BOOLEAN]]
  /\ as.fwd \in [Addr -> Addr \cup {NIL}] /\ as.bkwd \in [Addr -> Addr \cup {NIL}]
  /\ as.bucket \in [0 .. MAXBUCKETINDEX -> Addr \cup {NIL}]
  /\ ArrayFrLst \in ArraySpace .. ExtensionEnd

\* The blocks cover array space exactly, each with a trailer that agrees with
\* its header: arrayblockmerger only moves the boundary between two blocks.
BlocksTile ==
  LET tiles(lo, hi) ==
        /\ hi \in Starts(as, lo, hi)
        /\ \A b \in Starts(as, lo, hi) \ {hi} :
             b < hi /\ as.mem[b].len > 0 /\ b + as.mem[b].len <= hi
               /\ as.mem[b + as.mem[b].len - 1] = as.mem[b]
  IN  tiles(ArraySpace, OldEnd) /\ (ArraySpace2 # NIL => tiles(ArraySpace2, ArrayFrLst))

\* The ring of a bucket, from its head.
Ring(i) == IF as.bucket[i] = NIL THEN {} ELSE Walk(as.fwd, as.bucket[i], Cardinality(Free))

\* A free block that can be linked is on the ring of its size and on no other,
\* nothing else is on a ring, and the two links of a ring agree: what the
\* checks of checkarrayblock stand for ("links fouled", "bucket empty").
FreeListsExact ==
  /\ \A i \in 0 .. MAXBUCKETINDEX :
       Ring(i) = {b \in Free : as.mem[b].len >= MINARRAYBLOCKSIZE /\ BucketIndex(as.mem[b].len) = i}
  /\ \A i \in 0 .. MAXBUCKETINDEX : \A b \in Ring(i) :
       as.bkwd[as.fwd[b]] = b /\ as.fwd[as.bkwd[b]] = b

\* Reclaiming a block changes no block in use but the one reclaimed.
UsedIntact ==
  [][ \A b \in InUse : Reclaim(b) =>
        /\ InUse' = InUse \ {b}
        /\ \A c \in InUse \ {b} : \A x \in Extent(as, c) : as'.mem[x] = as.mem[x] ]_vars

\* Reclaiming a block makes one block of it and its free neighbours, if that is
\* not longer than a block may be.
Coalesces ==
  [][ \A b \in InUse : Reclaim(b) /\ merging =>
        LET prev == {c \in Free : c + as.mem[c].len = b /\ b # ArraySpace2}
            next == {c \in Free : b + as.mem[b].len = c /\ c # ArraySpace2}
            all == {b} \cup prev \cup next
            lo == CHOOSE x \in all : \A y \in all : x <= y
            cells == UNION {Extent(as, c) : c \in all}
        IN  Cardinality(cells) <= MAXARRAYBLOCKSIZE => lo \in Free' /\ Extent(as', lo) = cells ]_vars

\* Array space holds together: the blocks tile it and the rings hold exactly
\* the free ones, whatever was merged, shaved or left over.
SpaceInv == TypeOK /\ BlocksTile /\ FreeListsExact
=============================================================================
